--------------------------- MODULE GSManagerProofs ---------------------------
(***************************************************************************)
(* Proofs about the manager, for every set of monitors and every bound:    *)
(* its state is well typed, a lock covers every monitor, it implements     *)
(* ScreenLock, the dialog is in one window that owns the input, no theme   *)
(* job runs where it should not, an accepted password is acted upon, and a *)
(* dialog that is up is being served.                                      *)
(***************************************************************************)
EXTENDS GSManager, TLAPS

-----------------------------------------------------------------------------
(* The types of what the operators build *)

\* The operators on jobs keep the two sets within the monitors.
LEMMA JobTypes ==
  ASSUME NEW j \in JobSets, NEW W \in SUBSET Monitors
  PROVE  /\ Started(j, W) \in JobSets
         /\ StoppedJobs(j, W) \in JobSets
         /\ Suspended(j) \in JobSets
         /\ Resumed(j, W) \in JobSets
BY DEF JobSets, Started, StoppedJobs, Suspended, Resumed

\* Only jobs of the given windows are ever started.
LEMMA StartableType ==
  ASSUME NEW W \in SUBSET Monitors, NEW m, NEW j, NEW o
  PROVE  Startable(W, m, j, o) \in SUBSET Monitors
BY DEF Startable

\* What popdown_dialog leaves of the manager, the windows and the grab.
LEMMA PoppedTypes ==
  ASSUME ManagerType, NEW W \in SUBSET Monitors
  PROVE  /\ PoppedDown(W) \in WindowFields
         /\ PoppedManager(W) \in ManagerState
         /\ PoppedGrab(W) \in GrabState
<1>1. PoppedDown(W) \in WindowFields
  BY DEF ManagerType, WindowFields, PoppedDown
<1>2. PoppedManager(W) \in ManagerState
  BY DEF ManagerType, ManagerState, PoppedManager
<1>3. PoppedGrab(W) \in GrabState
  <2>1. CASE win.dialog_up \cap W = {}
    BY <2>1 DEF ManagerType, PoppedGrab
  <2>2. CASE win.dialog_up \cap W # {}
    <3> DEFINE w == CHOOSE x \in win.dialog_up \cap W : TRUE
    <3>1. w \in Monitors
      BY <2>2
    <3> QED BY <2>2, <3>1 DEF PoppedGrab, GrabState
  <2> QED BY <2>1, <2>2
<1> QED BY <1>1, <1>2, <1>3

\* and of the jobs.
LEMMA PoppedJobsType ==
  ASSUME NEW j \in JobSets, NEW W, NEW S \in SUBSET Monitors
  PROVE  PoppedJobs(W, j, S) \in JobSets
BY JobTypes DEF PoppedJobs

LEMMA PoppedStartableType ==
  ASSUME NEW ws \in SUBSET Monitors, NEW W, NEW j
  PROVE  PoppedStartable(W, ws, j) \in SUBSET Monitors
BY StartableType DEF PoppedStartable

\* The pending idle sources with other counts.
LEMMA CountsType ==
  ASSUME NEW i \in IdleSources, NEW f \in [Monitors -> Nat], NEW d \in Nat
  PROVE  /\ [i EXCEPT !.emit = f] \in IdleSources
         /\ [i EXCEPT !.freed = f] \in IdleSources
         /\ [i EXCEPT !.deactivated = d] \in IdleSources
         /\ [i EXCEPT !.emit = f, !.deactivated = d] \in IdleSources
         /\ [i EXCEPT !.freed = f, !.deactivated = d] \in IdleSources
<1>1. [i EXCEPT !.emit = f] \in IdleSources
  BY DEF IdleSources
<1>2. [i EXCEPT !.freed = f] \in IdleSources
  BY DEF IdleSources
<1>3. \A k \in IdleSources : [k EXCEPT !.deactivated = d] \in IdleSources
  BY DEF IdleSources
<1>4. [i EXCEPT !.emit = f, !.deactivated = d] \in IdleSources
  BY <1>1, <1>3
<1>5. [i EXCEPT !.freed = f, !.deactivated = d] \in IdleSources
  BY <1>2, <1>3
<1> QED BY <1>1, <1>2, <1>3, <1>4, <1>5

\* One pending emission more, or one less and the manager's idle instead.
LEMMA EmitCounts ==
  ASSUME NEW i \in IdleSources, NEW w \in Monitors
  PROVE  /\ [i EXCEPT !.emit[w] = @ + 1] \in IdleSources
         /\ i.emit[w] > 0
              => [i EXCEPT !.emit[w] = @ - 1, !.deactivated = @ + 1] \in IdleSources
<1>1. i.emit \in [Monitors -> Nat] /\ i.deactivated \in Nat
  BY DEF IdleSources
<1>2. [i.emit EXCEPT ![w] = @ + 1] \in [Monitors -> Nat]
  BY <1>1
<1>3. [i EXCEPT !.emit = [i.emit EXCEPT ![w] = @ + 1]] \in IdleSources
  BY <1>2, CountsType
<1>4. ASSUME i.emit[w] > 0
      PROVE  [i EXCEPT !.emit[w] = @ - 1, !.deactivated = @ + 1] \in IdleSources
  <2>1. [i.emit EXCEPT ![w] = @ - 1] \in [Monitors -> Nat]
    BY <1>1, <1>4
  <2>2. i.deactivated + 1 \in Nat
    BY <1>1
  <2> QED BY <2>1, <2>2, CountsType
<1> QED BY <1>3, <1>4

\* The same for the emissions on windows that have been freed.
LEMMA FreedCounts ==
  ASSUME NEW i \in IdleSources, NEW w \in Monitors, i.freed[w] > 0
  PROVE  /\ [i EXCEPT !.freed[w] = @ - 1] \in IdleSources
         /\ [i EXCEPT !.freed[w] = @ - 1, !.deactivated = @ + 1] \in IdleSources
<1>1. i.freed \in [Monitors -> Nat] /\ i.deactivated + 1 \in Nat
  BY DEF IdleSources
<1>2. [i.freed EXCEPT ![w] = @ - 1] \in [Monitors -> Nat]
  BY <1>1
<1> QED BY <1>1, <1>2, CountsType

LEMMA LeftBehindType ==
  ASSUME NEW i \in IdleSources, NEW W
  PROVE  LeftBehind(i, W) \in IdleSources
BY BoundsAssumption DEF IdleSources, LeftBehind

LEMMA NoneTypes ==
  NoWin \in WindowFields /\ NoJobs \in JobSets /\ NoGrab \in GrabState /\ NoIdles \in IdleSources
BY DEF NoWin, WindowFields, NoJobs, JobSets, NoGrab, GrabState, NoIdles, IdleSources

\* What an unlock request at the end of a handler leaves is well typed.
LEMMA RequestUnlockType ==
  ASSUME ManagerType,
         NEW m \in ManagerState, NEW ws \in SUBSET Monitors, NEW w \in WindowFields,
         NEW j \in JobSets, NEW g \in GrabState, NEW p \in Monitors,
         RequestUnlock(m, ws, w, j, g, p)
  PROVE  /\ manager' \in ManagerState /\ win' \in WindowFields
         /\ jobs' \in JobSets /\ idles' \in IdleSources /\ grab' \in GrabState
<1>0. idles \in IdleSources
  BY DEF ManagerType
<1>1. manager' \in ManagerState
  <2>1. [m EXCEPT !.dialog_up = TRUE] \in ManagerState
    BY DEF ManagerState
  <2> QED BY <2>1 DEF RequestUnlock, DialogUp
<1>2. win' \in WindowFields
  <2>1. [w EXCEPT !.popup_idle = @ \cup {p}, !.dialog_up = @ \cup {p},
                  !.insensitive = @ \cup (ws \ {p})] \in WindowFields
    BY DEF WindowFields
  <2> QED BY <2>1 DEF RequestUnlock, DialogUp
<1>3. jobs' \in JobSets
  BY JobTypes DEF RequestUnlock, DialogUp
<1>4. idles' \in IdleSources
  BY <1>0, EmitCounts DEF RequestUnlock, DialogUp
<1>5. grab' \in GrabState
  <2>1. [window |-> p, no_pointer |-> TRUE] \in GrabState
    BY DEF GrabState
  <2> QED BY <2>1 DEF RequestUnlock, DialogUp
<1> QED BY <1>1, <1>2, <1>3, <1>4, <1>5

-----------------------------------------------------------------------------
(* Type correctness *)

LEMMA InitType == ManagerInit => ManagerType
<1> SUFFICES ASSUME ManagerInit PROVE ManagerType
  OBVIOUS
<1>1. manager \in ManagerState
  BY DEF ManagerInit, ManagerState
<1> QED BY <1>1, NoneTypes DEF ManagerInit, ManagerType

\* The steps of the main loop that need no other component.
LEMMA StepType == ManagerType /\ ManagerStep => ManagerType'
<1> SUFFICES ASSUME ManagerType, ManagerStep PROVE ManagerType'
  OBVIOUS
<1>0. /\ monitors \in SUBSET Monitors /\ windows \in SUBSET Monitors
      /\ manager \in ManagerState /\ win \in WindowFields
      /\ jobs \in JobSets /\ idles \in IdleSources
      /\ grab \in GrabState /\ dimmed \in BOOLEAN
      /\ win.obscured \in SUBSET Monitors
  BY DEF ManagerType, WindowFields
<1>1. ASSUME NEW p \in Monitors, gs_manager_request_unlock(p)
      PROVE  ManagerType'
  <2>1. /\ manager' \in ManagerState /\ win' \in WindowFields
        /\ jobs' \in JobSets /\ idles' \in IdleSources /\ grab' \in GrabState
    BY <1>0, <1>1, RequestUnlockType DEF gs_manager_request_unlock
  <2> QED BY <1>0, <1>1, <2>1 DEF gs_manager_request_unlock, ManagerType
<1>2. ASSUME NEW w \in Monitors, popup_dialog_idle(w)
      PROVE  ManagerType'
  <2>1. [win EXCEPT !.popup_idle = @ \ {w}, !.lock_watch = @ \cup {w}]
          \in WindowFields
    BY <1>0 DEF WindowFields
  <2>2. [win EXCEPT !.popup_idle = @ \ {w}] \in WindowFields
    BY <1>0 DEF WindowFields
  <2>3. win' \in WindowFields
    BY <1>2, <2>1, <2>2 DEF popup_dialog_idle
  <2> QED BY <1>0, <1>2, <2>3 DEF popup_dialog_idle, ManagerType
<1>3. ASSUME NEW w \in Monitors, NEW r \in {"ok", "cancel", "eof"},
             lock_command_watch(w, r)
      PROVE  ManagerType'
  <2> DEFINE okNow == CASE r = "ok"     -> win.ok \cup {w}
                        [] r = "cancel" -> win.ok \ {w}
                        [] r = "eof"    -> win.ok
  <2>1. okNow \in SUBSET Monitors
    BY <1>0 DEF WindowFields
  <2>2. win' \in WindowFields
    <3>1. \A f \in WindowFields : [f EXCEPT !.ok = okNow] \in WindowFields
      BY <2>1 DEF WindowFields
    <3> HIDE DEF okNow
    <3>2. win' = [PoppedDown({w}) EXCEPT !.ok = okNow]
      BY <1>3 DEF lock_command_watch, okNow
    <3> QED BY <3>1, <3>2, PoppedTypes
  <2>3. jobs' \in JobSets
    <3>1. PICK S \in SUBSET PoppedStartable({w}, windows, jobs) :
             jobs' = PoppedJobs({w}, jobs, S)
      BY <1>3 DEF lock_command_watch
    <3>2. S \in SUBSET Monitors
      BY <1>0, PoppedStartableType
    <3> QED BY <1>0, <3>1, <3>2, PoppedJobsType
  <2>4. idles' \in IdleSources
    BY <1>0, <1>3, EmitCounts DEF lock_command_watch
  <2>5. manager' \in ManagerState /\ grab' \in GrabState
    BY <1>3, PoppedTypes DEF lock_command_watch
  <2> QED BY <1>0, <1>3, <2>2, <2>3, <2>4, <2>5 DEF lock_command_watch, ManagerType
<1>4. ASSUME NEW w \in Monitors, lock_command_error(w)
      PROVE  ManagerType'
  <2>1. win' \in WindowFields
    BY <1>0, <1>4 DEF lock_command_error, WindowFields
  <2> QED BY <1>0, <1>4, <2>1 DEF lock_command_error, ManagerType
<1>5. ASSUME NEW w \in Monitors, emit_deactivated_idle(w)
      PROVE  ManagerType'
  <2>1. idles' \in IdleSources
    BY <1>0, <1>5, EmitCounts DEF emit_deactivated_idle
  <2> QED BY <1>0, <1>5, <2>1 DEF emit_deactivated_idle, ManagerType
<1>6. ASSUME NEW w \in Monitors, emit_on_freed_window(w)
      PROVE  ManagerType'
  <2>1. idles' \in IdleSources
    BY <1>0, <1>6, FreedCounts DEF emit_on_freed_window
  <2> QED BY <1>0, <1>6, <2>1 DEF emit_on_freed_window, ManagerType
<1>7. ASSUME NEW w \in Monitors, gs_job_died(w)
      PROVE  ManagerType'
  <2>1. jobs' \in JobSets
    BY <1>0, <1>7, JobTypes DEF gs_job_died
  <2> QED BY <1>0, <1>7, <2>1 DEF gs_job_died, ManagerType
<1>8. ASSUME NEW w \in Monitors, window_obscured(w)
      PROVE  ManagerType'
  <2>1. jobs' \in JobSets
    BY <1>0, <1>8, JobTypes DEF window_obscured
  <2>2. win' \in WindowFields
    BY <1>0, <1>8 DEF window_obscured, WindowFields
  <2> QED BY <1>0, <1>8, <2>1, <2>2 DEF window_obscured, ManagerType
<1>9. ASSUME NEW w \in Monitors, NEW p \in Monitors, window_map_event_cb(w, p)
      PROVE  ManagerType'
  <2>1. win' \in WindowFields
    BY <1>0, <1>9 DEF window_map_event_cb, WindowFields
  <2>2. grab' \in GrabState
    <3>1. [window |-> w, no_pointer |-> FALSE] \in GrabState
      BY DEF GrabState
    <3> QED BY <1>0, <1>9, <3>1 DEF window_map_event_cb
  <2>3. jobs' \in JobSets
    <3>1. PICK S \in SUBSET Startable({w}, manager, jobs, win.obscured) :
             jobs' = Started(jobs, S)
      BY <1>9 DEF window_map_event_cb
    <3>2. S \in SUBSET Monitors
      BY <3>1, StartableType
    <3> QED BY <1>0, <3>1, <3>2, JobTypes
  <2> QED BY <1>0, <1>9, <2>1, <2>2, <2>3 DEF window_map_event_cb, ManagerType
<1>10. ASSUME NEW w \in Monitors, NEW p \in Monitors, window_unobscured(w, p)
       PROVE  ManagerType'
  <2> DEFINE shown == [win EXCEPT !.obscured = @ \ {w}]
  <2>1. shown \in WindowFields
    BY <1>0 DEF WindowFields
  <2>2. PICK S \in SUBSET Startable({w}, manager, jobs, shown.obscured) :
           RequestUnlock(manager, windows, shown, Started(jobs, S), grab, p)
    BY <1>10 DEF window_unobscured
  <2>3. Started(jobs, S) \in JobSets
    <3>1. S \in SUBSET Monitors
      BY StartableType
    <3> QED BY <1>0, <3>1, JobTypes
  <2>4. /\ manager' \in ManagerState /\ win' \in WindowFields
        /\ jobs' \in JobSets /\ idles' \in IdleSources /\ grab' \in GrabState
    <3> HIDE DEF shown
    <3> QED BY <1>0, <2>1, <2>2, <2>3, RequestUnlockType
  <2> QED BY <1>0, <1>10, <2>4 DEF window_unobscured, ManagerType
<1>11. ASSUME activate_lock_timeout
       PROVE  ManagerType'
  <2>1. manager' \in ManagerState
    BY <1>0, <1>11 DEF activate_lock_timeout, LockTimeout, LockedManager, ManagerState
  <2>2. win' \in WindowFields
    BY <1>0, <1>11 DEF activate_lock_timeout, LockTimeout, LockedWindows, WindowFields
  <2> QED BY <1>0, <1>11, <2>1, <2>2 DEF activate_lock_timeout, ManagerType
<1>12. ASSUME gs_manager_cycle
       PROVE  ManagerType'
  <2> DEFINE stopped == StoppedJobs(jobs, windows)
  <2>1. PICK S \in SUBSET Startable(windows, manager, stopped, win.obscured) :
           jobs' = Started(stopped, S)
    BY <1>12 DEF gs_manager_cycle
  <2>2. S \in SUBSET Monitors
    BY <1>0, StartableType
  <2>3. stopped \in JobSets
    BY <1>0, JobTypes
  <2>4. jobs' \in JobSets
    <3> HIDE DEF stopped
    <3> QED BY <2>1, <2>2, <2>3, JobTypes
  <2> QED BY <1>0, <1>12, <2>4 DEF gs_manager_cycle, ManagerType
<1>13. ASSUME window_grab_broken_cb
       PROVE  ManagerType'
  <2>1. grab' \in GrabState
    BY <1>0, <1>13 DEF window_grab_broken_cb, GrabState
  <2> QED BY <1>0, <1>13, <2>1 DEF window_grab_broken_cb, ManagerType
<1>14. ASSUME unfade_idle
       PROVE  ManagerType'
  <2>1. manager' \in ManagerState
    BY <1>0, <1>14 DEF unfade_idle, ManagerState
  <2> QED BY <1>0, <1>14, <2>1 DEF unfade_idle, ManagerType
<1>15. ASSUME NEW m \in Monitors, on_display_monitor_removed(m)
       PROVE  ManagerType'
  <2>1. CASE windows = {}
    BY <1>0, <1>15, <2>1 DEF on_display_monitor_removed, ManagerType
  <2>2. CASE windows # {}
    <3>1. win' \in WindowFields
      <4>1. \A f \in WindowFields : WithoutWindow(f, m) \in WindowFields
        BY DEF WithoutWindow, WindowFields
      <4> QED BY <1>15, <2>2, <4>1, PoppedTypes DEF on_display_monitor_removed
    <3>2. jobs' \in JobSets
      <4> DEFINE left == StoppedJobs(jobs, {m})
      <4>1. left \in JobSets
        BY <1>0, JobTypes
      <4>2. PICK S \in SUBSET PoppedStartable({m}, windows \ {m}, left) :
               jobs' = PoppedJobs({m}, left, S)
        BY <1>15, <2>2 DEF on_display_monitor_removed
      <4>3. S \in SUBSET Monitors
        BY <1>0, PoppedStartableType
      <4> HIDE DEF left
      <4> QED BY <4>1, <4>2, <4>3, PoppedJobsType
    <3>3. manager' \in ManagerState /\ idles' \in IdleSources /\ grab' \in GrabState
      BY <1>0, <1>15, <2>2, PoppedTypes, LeftBehindType, NoneTypes
      DEF on_display_monitor_removed
    <3> QED BY <1>0, <1>15, <2>2, <3>1, <3>2, <3>3
            DEF on_display_monitor_removed, ManagerType
  <2> QED BY <2>1, <2>2
<1>16. ASSUME NEW m \in Monitors, NEW p \in Monitors, on_display_monitor_added(m, p)
       PROVE  ManagerType'
  <2>1. CASE windows = {}
    BY <1>0, <1>16, <2>1 DEF on_display_monitor_added, ManagerType
  <2>2. CASE windows # {}
    <3> DEFINE m0 == [PoppedManager(windows) EXCEPT !.lock_timer = TRUE,
                                                    !.unfade = TRUE]
               w0 == [PoppedDown(windows) EXCEPT
                        !.lock_enabled = IF manager.lock_active THEN @ \cup {m}
                                                                ELSE @,
                        !.unmapped = @ \cup {m}]
    <3>1. m0 \in ManagerState
      <4>1. \A x \in ManagerState : [x EXCEPT !.lock_timer = TRUE, !.unfade = TRUE]
                                      \in ManagerState
        BY DEF ManagerState
      <4> QED BY <1>0, <4>1, PoppedTypes
    <3>2. w0 \in WindowFields
      <4>1. PoppedDown(windows) \in WindowFields
        BY <1>0, PoppedTypes
      <4> QED BY <4>1 DEF WindowFields
    <3>3. PICK S \in SUBSET PoppedStartable(windows, windows, jobs) :
             RequestUnlock(m0, windows', w0, PoppedJobs(windows, jobs, S),
                           PoppedGrab(windows), p)
      BY <1>16, <2>2 DEF on_display_monitor_added
    <3>4. PoppedJobs(windows, jobs, S) \in JobSets
      <4>1. S \in SUBSET Monitors
        BY <1>0, PoppedStartableType
      <4> QED BY <1>0, <4>1, PoppedJobsType
    <3>5. windows' \in SUBSET Monitors
      BY <1>0, <1>16, <2>2 DEF on_display_monitor_added
    <3>6. PoppedGrab(windows) \in GrabState
      BY <1>0, PoppedTypes
    <3>7. /\ manager' \in ManagerState /\ win' \in WindowFields
          /\ jobs' \in JobSets /\ idles' \in IdleSources /\ grab' \in GrabState
      <4> HIDE DEF m0, w0
      <4> QED BY <3>1, <3>2, <3>3, <3>4, <3>5, <3>6, RequestUnlockType
    <3> QED BY <1>0, <1>16, <2>2, <3>5, <3>7 DEF on_display_monitor_added, ManagerType
  <2> QED BY <2>1, <2>2
<1> QED
  BY <1>1, <1>2, <1>3, <1>4, <1>5, <1>6, <1>7, <1>8, <1>9, <1>10, <1>11, <1>12,
     <1>13, <1>14, <1>15, <1>16
  DEF ManagerStep, maybe_handle_activity

\* The calls that gs-monitor.c makes.
LEMMA CallType == ManagerType /\ ManagerCall => ManagerType'
<1> SUFFICES ASSUME ManagerType, ManagerCall PROVE ManagerType'
  OBVIOUS
<1>0. /\ monitors \in SUBSET Monitors /\ windows \in SUBSET Monitors
      /\ manager \in ManagerState /\ win \in WindowFields
      /\ jobs \in JobSets /\ idles \in IdleSources
      /\ grab \in GrabState /\ dimmed \in BOOLEAN
  BY DEF ManagerType
<1>1. ASSUME NEW lock \in BOOLEAN, NEW t \in BOOLEAN,
             gs_manager_activate([manager EXCEPT !.lock_active = lock,
                                                 !.throttled = t])
      PROVE  ManagerType'
  <2>1. manager' \in ManagerState
    BY <1>0, <1>1 DEF gs_manager_activate, ManagerState
  <2>2. win' \in WindowFields
    BY <1>0, <1>1 DEF gs_manager_activate, NoWin, WindowFields
  <2>3. grab' \in GrabState
    BY <1>1 DEF gs_manager_activate, GrabState
  <2> QED BY <1>0, <1>1, <2>1, <2>2, <2>3, NoneTypes DEF gs_manager_activate, ManagerType
<1>2. ASSUME NEW i \in IdleSources, gs_manager_deactivate(i)
      PROVE  ManagerType'
  <2>1. manager' \in ManagerState
    BY <1>0, <1>2 DEF gs_manager_deactivate, ManagerState
  <2>2. idles' \in IdleSources
    BY <1>2, LeftBehindType DEF gs_manager_deactivate
  <2> QED BY <1>0, <1>2, <2>1, <2>2, NoneTypes DEF gs_manager_deactivate, ManagerType
<1>3. CASE window_deactivated_idle
  <2>1. DeactivatedIdleTaken \in IdleSources
    <3>1. idles.deactivated - 1 \in Nat
      BY <1>0, <1>3 DEF window_deactivated_idle, IdleSources
    <3> QED BY <1>0, <3>1 DEF DeactivatedIdleTaken, IdleSources
  <2>2. CASE gs_manager_deactivate(DeactivatedIdleTaken)
    BY <1>2, <2>1, <2>2
  <2>3. CASE ~gs_manager_deactivate(DeactivatedIdleTaken)
    BY <1>0, <1>3, <2>1, <2>3 DEF window_deactivated_idle, ManagerType
  <2> QED BY <2>2, <2>3
<1>4. CASE gs_manager_set_lock_active
  <2>1. manager' \in ManagerState
    BY <1>0, <1>4 DEF gs_manager_set_lock_active, LockedManager, ManagerState
  <2>2. win' \in WindowFields
    BY <1>0, <1>4 DEF gs_manager_set_lock_active, LockedWindows, WindowFields
  <2> QED BY <1>0, <1>4, <2>1, <2>2 DEF gs_manager_set_lock_active, ManagerType
<1>5. ASSUME NEW e \in BOOLEAN, NEW t \in {"same", "elapsed", "later"},
             gs_manager_set_lock_prefs(e, t)
      PROVE  ManagerType'
  <2> DEFINE m == [manager EXCEPT !.lock_enabled = e]
  <2>1. /\ m \in ManagerState
        /\ [m EXCEPT !.lock_timer = TRUE] \in ManagerState
        /\ [m EXCEPT !.lock_timer = FALSE] \in ManagerState
        /\ LockedManager([m EXCEPT !.lock_timer = FALSE]) \in ManagerState
    BY <1>0 DEF ManagerState, LockedManager
  <2>2. LockedWindows([m EXCEPT !.lock_timer = FALSE]) \in WindowFields
    BY <1>0 DEF LockedWindows, WindowFields
  <2>3. manager' \in ManagerState /\ win' \in WindowFields
    BY <1>0, <1>5, <2>1, <2>2 DEF gs_manager_set_lock_prefs, LockTimeout
  <2> QED BY <1>0, <1>5, <2>3 DEF gs_manager_set_lock_prefs, ManagerType
<1>6. ASSUME NEW t \in BOOLEAN, gs_manager_set_throttled(t)
      PROVE  ManagerType'
  <2>1. manager' \in ManagerState
    BY <1>0, <1>6 DEF gs_manager_set_throttled, ManagerState
  <2>2. jobs' \in JobSets
    <3>1. \A m : Startable(windows, m, jobs, win.obscured) \in SUBSET Monitors
      BY <1>0, StartableType
    <3>2. \A S \in SUBSET Monitors : Started(jobs, S) \in JobSets
      BY <1>0, JobTypes
    <3>3. StoppedJobs(jobs, windows) \in JobSets
      BY <1>0, JobTypes
    <3> QED BY <1>0, <1>6, <3>1, <3>2, <3>3 DEF gs_manager_set_throttled
  <2> QED BY <1>0, <1>6, <2>1, <2>2 DEF gs_manager_set_throttled, ManagerType
<1>7. CASE FadeBegins
  <2>1. grab' \in GrabState
    BY <1>7 DEF FadeBegins, GrabState
  <2> QED BY <1>0, <1>7, <2>1 DEF FadeBegins, ManagerType
<1>8. CASE FadeCancelled
  BY <1>0, <1>8 DEF FadeCancelled, ManagerType
<1>9. CASE GrabReleased
  <2>1. grab' \in GrabState
    BY <1>0, <1>9 DEF GrabReleased, GrabState
  <2> QED BY <1>0, <1>9, <2>1 DEF GrabReleased, ManagerType
<1> QED
  BY <1>0, <1>1, <1>2, <1>3, <1>4, <1>5, <1>6, <1>7, <1>8, <1>9 DEF ManagerCall

LEMMA StutterType == ManagerType /\ UNCHANGED managerVars => ManagerType'
BY DEF ManagerType, managerVars

\* Every state the manager, its windows, jobs, idle sources and grab can be
\* in is well typed; in particular no count of pending idle sources is ever
\* negative, for any number of monitors.
THEOREM TypeCorrect == ManagerSpec => []ManagerType
<1>1. ManagerInit => ManagerType
  BY InitType
<1>2. ManagerType /\ [ManagerNext]_managerVars => ManagerType'
  BY StepType, CallType, StutterType DEF ManagerNext
<1> QED BY <1>1, <1>2, PTL DEF ManagerSpec

-----------------------------------------------------------------------------
(* The lock *)

(***************************************************************************)
(* The inductive invariant: LockCoversEveryMonitor, its types, and that    *)
(* the display never is without a monitor, so that an active manager has   *)
(* windows and its hotplug handlers are connected.                         *)
(***************************************************************************)
LockInv == ManagerType /\ LockCoversEveryMonitor /\ monitors # {}

(***************************************************************************)
(* What a step may do to the lock.  Six kinds of steps; most handlers are  *)
(* of the first.                                                           *)
(***************************************************************************)
TimersAreOfActivation ==
  manager.lock_timer \/ manager.unfade => manager.active

Same ==
  /\ UNCHANGED <<monitors, windows, manager.active, manager.lock_active,
                 win.lock_enabled>>
  /\ TimersAreOfActivation'

Locks ==
  /\ manager.active /\ manager'.active /\ manager'.lock_active
  /\ UNCHANGED <<monitors, windows>>
  /\ win'.lock_enabled = windows

Activates ==
  /\ ~manager.active /\ manager'.active
  /\ UNCHANGED monitors
  /\ windows' = monitors
  /\ manager'.lock_active \in BOOLEAN
  /\ win'.lock_enabled = IF manager'.lock_active THEN monitors ELSE {}

Deactivates ==
  /\ manager.active /\ ~manager'.active /\ ~manager'.lock_active
  /\ TimersAreOfActivation'
  /\ UNCHANGED monitors
  /\ windows' = {} /\ win'.lock_enabled = {}

Replugs(M) ==
  /\ monitors' = M
  /\ UNCHANGED <<manager.active, manager.lock_active>>
  /\ TimersAreOfActivation'
  /\ windows' = IF manager.active THEN M ELSE {}
  /\ win'.lock_enabled = IF manager.lock_active THEN windows' ELSE {}

LockMoves ==
  \/ Same \/ Locks \/ Activates \/ Deactivates
  \/ \E m \in Monitors \ monitors : Replugs(monitors \cup {m})
  \/ \E m \in monitors : monitors # {m} /\ Replugs(monitors \ {m})

\* An unlock request at the end of a handler leaves the lock alone.
LEMMA RequestUnlockKeepsLock ==
  ASSUME NEW m \in ManagerState, NEW ws, NEW w \in WindowFields, NEW j, NEW g, NEW p,
         RequestUnlock(m, ws, w, j, g, p)
  PROVE  /\ manager'.active = m.active /\ manager'.lock_active = m.lock_active
         /\ manager'.lock_timer = m.lock_timer /\ manager'.unfade = m.unfade
         /\ win'.lock_enabled = w.lock_enabled
BY DEF RequestUnlock, DialogUp, ManagerState, WindowFields

\* popdown_dialog leaves the lock alone.
LEMMA PoppedKeepsLock ==
  ASSUME ManagerType, NEW W
  PROVE  /\ PoppedManager(W).active = manager.active
         /\ PoppedManager(W).lock_active = manager.lock_active
         /\ PoppedManager(W).lock_timer = manager.lock_timer
         /\ PoppedManager(W).unfade = manager.unfade
         /\ PoppedDown(W).lock_enabled = win.lock_enabled
BY DEF ManagerType, PoppedManager, PoppedDown, ManagerState, WindowFields

\* Whatever step the main loop takes, it is one of the six kinds.
LEMMA StepMoves == LockInv /\ ManagerStep => LockMoves
<1> SUFFICES ASSUME LockInv, ManagerStep PROVE LockMoves
  OBVIOUS
<1>0. /\ manager \in ManagerState /\ win \in WindowFields /\ ManagerType
      /\ TimersAreOfActivation
      /\ monitors \in SUBSET Monitors /\ windows \in SUBSET Monitors
  BY DEF LockInv, ManagerType, LockCoversEveryMonitor, TimersAreOfActivation
<1>1. ASSUME NEW p \in Monitors, gs_manager_request_unlock(p)
      PROVE  Same
  BY <1>0, <1>1, RequestUnlockKeepsLock
  DEF gs_manager_request_unlock, Same, TimersAreOfActivation
<1>2. ASSUME NEW w \in Monitors, popup_dialog_idle(w)
      PROVE  Same
  BY <1>0, <1>2 DEF popup_dialog_idle, WindowFields, Same, TimersAreOfActivation
<1>3. ASSUME NEW w \in Monitors, NEW r \in {"ok", "cancel", "eof"},
             lock_command_watch(w, r)
      PROVE  Same
  <2>1. PoppedDown({w}) \in WindowFields
    BY <1>0, PoppedTypes
  <2>2. win'.lock_enabled = PoppedDown({w}).lock_enabled
    BY <1>3, <2>1 DEF lock_command_watch, WindowFields
  <2> QED BY <1>0, <1>3, <2>2, PoppedKeepsLock
          DEF lock_command_watch, Same, TimersAreOfActivation
<1>4. ASSUME NEW w \in Monitors, lock_command_error(w)
      PROVE  Same
  BY <1>0, <1>4 DEF lock_command_error, WindowFields, Same, TimersAreOfActivation
<1>5. ASSUME NEW w \in Monitors,
             emit_deactivated_idle(w) \/ emit_on_freed_window(w) \/ gs_job_died(w)
      PROVE  Same
  BY <1>0, <1>5
  DEF emit_deactivated_idle, emit_on_freed_window, gs_job_died, Same, TimersAreOfActivation
<1>6. ASSUME NEW w \in Monitors, window_obscured(w)
      PROVE  Same
  BY <1>0, <1>6 DEF window_obscured, WindowFields, Same, TimersAreOfActivation
<1>7. ASSUME NEW w \in Monitors, NEW p \in Monitors, window_map_event_cb(w, p)
      PROVE  Same
  BY <1>0, <1>7 DEF window_map_event_cb, WindowFields, Same, TimersAreOfActivation
<1>8. ASSUME NEW w \in Monitors, NEW p \in Monitors, window_unobscured(w, p)
      PROVE  Same
  <2> DEFINE shown == [win EXCEPT !.obscured = @ \ {w}]
  <2>1. shown \in WindowFields /\ shown.lock_enabled = win.lock_enabled
    BY <1>0 DEF WindowFields
  <2>2. PICK S : RequestUnlock(manager, windows, shown, Started(jobs, S), grab, p)
    BY <1>8 DEF window_unobscured
  <2> HIDE DEF shown
  <2> QED BY <1>0, <1>8, <2>1, <2>2, RequestUnlockKeepsLock
          DEF window_unobscured, Same, TimersAreOfActivation
<1>9. ASSUME activate_lock_timeout
      PROVE  Same \/ Locks
  BY <1>0, <1>9
  DEF activate_lock_timeout, LockTimeout, LockedManager, LockedWindows, ManagerState,
      WindowFields, Same, Locks, TimersAreOfActivation, LockInv, LockCoversEveryMonitor
<1>10. ASSUME gs_manager_cycle \/ window_grab_broken_cb
       PROVE  Same
  BY <1>0, <1>10 DEF gs_manager_cycle, window_grab_broken_cb, Same, TimersAreOfActivation
<1>11. ASSUME unfade_idle
       PROVE  Same
  BY <1>0, <1>11 DEF unfade_idle, ManagerState, Same, TimersAreOfActivation
<1>12. ASSUME NEW m \in Monitors, on_display_monitor_removed(m)
       PROVE  m \in monitors /\ monitors # {m} /\ Replugs(monitors \ {m})
  <2>1. CASE windows = {}
    BY <1>0, <1>12, <2>1
    DEF on_display_monitor_removed, Replugs, TimersAreOfActivation, LockInv,
        LockCoversEveryMonitor
  <2>2. CASE windows # {}
    <3>1. PoppedDown({m}) \in WindowFields
      BY <1>0, PoppedTypes
    <3>2. WithoutWindow(PoppedDown({m}), m).lock_enabled = win.lock_enabled \ {m}
      BY <1>0, <3>1, PoppedKeepsLock DEF WithoutWindow, WindowFields
    <3> QED BY <1>0, <1>12, <2>2, <3>2, PoppedKeepsLock
            DEF on_display_monitor_removed, Replugs, TimersAreOfActivation, LockInv,
                LockCoversEveryMonitor
  <2> QED BY <2>1, <2>2
<1>13. ASSUME NEW m \in Monitors, NEW p \in Monitors, on_display_monitor_added(m, p)
       PROVE  m \notin monitors /\ Replugs(monitors \cup {m})
  <2>1. CASE windows = {}
    BY <1>0, <1>13, <2>1
    DEF on_display_monitor_added, Replugs, TimersAreOfActivation, LockInv,
        LockCoversEveryMonitor
  <2>2. CASE windows # {}
    <3> DEFINE m0 == [PoppedManager(windows) EXCEPT !.lock_timer = TRUE,
                                                    !.unfade = TRUE]
               w0 == [PoppedDown(windows) EXCEPT
                        !.lock_enabled = IF manager.lock_active THEN @ \cup {m}
                                                                ELSE @,
                        !.unmapped = @ \cup {m}]
    <3>0. PoppedManager(windows) \in ManagerState /\ PoppedDown(windows) \in WindowFields
      BY <1>0, PoppedTypes
    <3>1. /\ m0 \in ManagerState
          /\ m0.active = manager.active /\ m0.lock_active = manager.lock_active
      BY <1>0, <3>0, PoppedKeepsLock DEF ManagerState
    <3>2. w0 \in WindowFields
      BY <3>0 DEF WindowFields
    <3>3. w0.lock_enabled = IF manager.lock_active THEN win.lock_enabled \cup {m}
                                                   ELSE win.lock_enabled
      BY <1>0, <3>0, PoppedKeepsLock DEF WindowFields
    <3>4. PICK S : RequestUnlock(m0, windows', w0, PoppedJobs(windows, jobs, S),
                                 PoppedGrab(windows), p)
      BY <1>13, <2>2 DEF on_display_monitor_added
    <3> HIDE DEF m0, w0
    <3>5. /\ manager'.active = manager.active /\ manager'.lock_active = manager.lock_active
          /\ win'.lock_enabled = w0.lock_enabled
      BY <3>1, <3>2, <3>4, RequestUnlockKeepsLock
    <3> QED BY <1>13, <2>2, <3>3, <3>5
            DEF on_display_monitor_added, Replugs, TimersAreOfActivation, LockInv,
                LockCoversEveryMonitor
  <2> QED BY <2>1, <2>2
<1>14. CASE \E m \in Monitors : on_display_monitor_removed(m)
  BY <1>12, <1>14 DEF LockMoves
<1>15. CASE \E m \in Monitors, p \in Monitors : on_display_monitor_added(m, p)
  BY <1>13, <1>15 DEF LockMoves
<1> QED
  BY <1>1, <1>2, <1>3, <1>4, <1>5, <1>6, <1>7, <1>8, <1>9, <1>10, <1>11, <1>14, <1>15
  DEF ManagerStep, maybe_handle_activity, LockMoves

\* So are the calls that gs-monitor.c makes.
LEMMA CallMoves == LockInv /\ ManagerCall => LockMoves
<1> SUFFICES ASSUME LockInv, ManagerCall PROVE LockMoves
  OBVIOUS
<1>0. /\ manager \in ManagerState /\ win \in WindowFields /\ ManagerType
      /\ TimersAreOfActivation
      /\ win.lock_enabled = IF manager.lock_active THEN windows ELSE {}
  BY DEF LockInv, ManagerType, LockCoversEveryMonitor, TimersAreOfActivation
<1>1. ASSUME NEW lock \in BOOLEAN, NEW t \in BOOLEAN,
             gs_manager_activate([manager EXCEPT !.lock_active = lock,
                                                 !.throttled = t])
      PROVE  Activates
  BY <1>0, <1>1 DEF gs_manager_activate, NoWin, ManagerState, Activates
<1>2. ASSUME NEW i, gs_manager_deactivate(i)
      PROVE  Deactivates
  BY <1>0, <1>2
  DEF gs_manager_deactivate, NoWin, ManagerState, Deactivates, TimersAreOfActivation
<1>3. ASSUME window_deactivated_idle
      PROVE  Deactivates \/ Same
  BY <1>0, <1>2, <1>3 DEF window_deactivated_idle, Same, TimersAreOfActivation
<1>4. ASSUME gs_manager_set_lock_active
      PROVE  Locks
  BY <1>0, <1>4
  DEF gs_manager_set_lock_active, LockedManager, LockedWindows, ManagerState,
      WindowFields, Locks
<1>5. ASSUME NEW e \in BOOLEAN, NEW t \in {"same", "elapsed", "later"},
             gs_manager_set_lock_prefs(e, t)
      PROVE  Same \/ Locks
  BY <1>0, <1>5
  DEF gs_manager_set_lock_prefs, LockTimeout, LockedManager, LockedWindows, ManagerState,
      WindowFields, Same, Locks, TimersAreOfActivation
<1>6. ASSUME NEW t \in BOOLEAN, gs_manager_set_throttled(t)
      PROVE  Same
  BY <1>0, <1>6 DEF gs_manager_set_throttled, ManagerState, Same, TimersAreOfActivation
<1>7. ASSUME FadeBegins \/ FadeCancelled \/ GrabReleased
      PROVE  Same
  BY <1>0, <1>7
  DEF FadeBegins, FadeCancelled, GrabReleased, Same, TimersAreOfActivation
<1> QED
  BY <1>1, <1>2, <1>3, <1>4, <1>5, <1>6, <1>7 DEF ManagerCall, LockMoves

LEMMA NextMoves == LockInv /\ [ManagerNext]_managerVars => LockMoves
<1>1. LockInv /\ UNCHANGED managerVars => Same
  BY DEF managerVars, Same, TimersAreOfActivation, LockInv, LockCoversEveryMonitor
<1> QED BY <1>1, StepMoves, CallMoves DEF ManagerNext, LockMoves

\* A step of each kind keeps the lock on every monitor.
LEMMA LockStep == LockInv /\ [ManagerNext]_managerVars => LockInv'
<1> SUFFICES ASSUME LockInv, [ManagerNext]_managerVars PROVE LockInv'
  OBVIOUS
<1>1. ManagerType'
  BY StepType, CallType, StutterType DEF LockInv, ManagerNext
<1>2. LockMoves
  BY NextMoves
<1>3. CASE Same
  BY <1>1, <1>3 DEF Same, TimersAreOfActivation, LockInv, LockCoversEveryMonitor
<1>4. CASE Locks
  BY <1>1, <1>4 DEF Locks, LockInv, LockCoversEveryMonitor
<1>5. CASE Activates
  BY <1>1, <1>5 DEF Activates, LockInv, LockCoversEveryMonitor
<1>6. CASE Deactivates
  BY <1>1, <1>6 DEF Deactivates, TimersAreOfActivation, LockInv, LockCoversEveryMonitor
<1>7. ASSUME NEW M, M # {}, Replugs(M)
      PROVE  LockInv'
  BY <1>1, <1>7 DEF Replugs, TimersAreOfActivation, LockInv, LockCoversEveryMonitor
<1> QED BY <1>2, <1>3, <1>4, <1>5, <1>6, <1>7 DEF LockMoves

LEMMA LockInit == ManagerInit => LockInv
<1> SUFFICES ASSUME ManagerInit PROVE LockInv
  OBVIOUS
<1>1. ~manager.active /\ ~manager.lock_active /\ ~manager.lock_timer /\ ~manager.unfade
  BY DEF ManagerInit
<1>2. windows = {} /\ win.lock_enabled = {} /\ monitors # {}
  BY DEF ManagerInit, NoWin
<1> QED BY <1>1, <1>2, InitType DEF LockInv, LockCoversEveryMonitor

\* For any number of monitors and through any order of activations, lock
\* requests, timers, dialogs and hotplug events: an active screensaver has a
\* window on every monitor of the display, and a locked one asks for the
\* password on each of them.
THEOREM LockCovers == ManagerSpec => []LockCoversEveryMonitor
<1>1. LockInv => LockCoversEveryMonitor
  BY DEF LockInv
<1> QED BY <1>1, LockInit, LockStep, PTL DEF ManagerSpec

-----------------------------------------------------------------------------
(* Refinement *)

LEMMA RefinesInit == ManagerInit => Lock!Init
<1> SUFFICES ASSUME ManagerInit PROVE Lock!Init
  OBVIOUS
<1>1. ~manager.active
  BY DEF ManagerInit
<1>2. windows = {} /\ win.lock_enabled = {} /\ monitors # {} /\ monitors \in SUBSET Monitors
  BY DEF ManagerInit, NoWin
<1> QED BY <1>1, <1>2 DEF Lock!Init, Screen

\* Whatever the step, the new state looks as ScreenLock says it must.
LEMMA LooksRight ==
  ASSUME LockInv'
  PROVE  Lock!Looks(Screen', monitors')
BY DEF LockInv, LockCoversEveryMonitor, Screen, Lock!Looks

LEMMA RefinesNext ==
  LockInv /\ LockInv' /\ [ManagerNext]_managerVars => [Lock!Next]_Lock!vars
<1> SUFFICES ASSUME LockInv, LockInv', [ManagerNext]_managerVars
             PROVE  Lock!Next \/ UNCHANGED Lock!vars
  OBVIOUS
<1>1. LockMoves
  BY NextMoves
<1>2. Lock!Looks(Screen', monitors')
  BY LooksRight
<1>3. /\ manager \in ManagerState /\ manager' \in ManagerState
      /\ monitors \in SUBSET Monitors
      /\ manager.lock_active => manager.active
      /\ manager'.lock_active => manager'.active
  BY DEF LockInv, ManagerType, LockCoversEveryMonitor
<1>4. CASE Same
  BY <1>4 DEF Same, Screen, Lock!vars
<1>5. CASE Locks
  <2>1. Screen' = "locked" /\ monitors' = monitors
    BY <1>5 DEF Locks, Screen
  <2>2. CASE manager.lock_active
    <3>1. Screen = "locked" /\ win'.lock_enabled = win.lock_enabled
      BY <1>3, <1>5, <2>2 DEF Locks, Screen, LockInv, LockCoversEveryMonitor
    <3> QED BY <1>5, <2>1, <3>1 DEF Locks, Lock!vars
  <2>3. CASE ~manager.lock_active
    <3>1. Screen # "locked"
      BY <2>3 DEF Screen
    <3> QED BY <1>2, <2>1, <3>1 DEF Lock!Next, Lock!Lock
  <2> QED BY <2>2, <2>3
<1>6. CASE Activates
  <2>1. Screen = "off" /\ Screen' \in {"blank", "locked"} /\ monitors' = monitors
    BY <1>6 DEF Activates, Screen
  <2> QED BY <1>2, <2>1 DEF Lock!Next, Lock!Lock, Lock!Blank
<1>7. CASE Deactivates
  <2>1. Screen # "off" /\ Screen' = "off" /\ monitors' = monitors
    BY <1>7 DEF Deactivates, Screen
  <2> QED BY <1>2, <2>1 DEF Lock!Next, Lock!TurnOff
<1>8. ASSUME NEW m \in Monitors \ monitors, Replugs(monitors \cup {m})
      PROVE  Lock!Next
  <2>1. Screen' = Screen /\ monitors' = monitors \cup {m}
    BY <1>8 DEF Replugs, Screen
  <2>2. Lock!Plug(m)
    BY <1>2, <2>1 DEF Lock!Plug
  <2> QED BY <2>1, <2>2 DEF Lock!Next
<1>9. ASSUME NEW m \in monitors, monitors # {m}, Replugs(monitors \ {m})
      PROVE  Lock!Next
  <2>1. Screen' = Screen /\ monitors' = monitors \ {m}
    BY <1>9 DEF Replugs, Screen
  <2>2. Lock!Unplug(m)
    BY <1>2, <1>9, <2>1 DEF Lock!Unplug
  <2> QED BY <1>3, <1>9, <2>1, <2>2 DEF Lock!Next
<1> QED BY <1>1, <1>4, <1>5, <1>6, <1>7, <1>8, <1>9 DEF LockMoves

\* The manager with its windows, timers, dialog and hotplug handlers
\* implements the abstract screen lock: every handler is one of its moves or
\* changes nothing that can be seen of the lock.
THEOREM Implements == ManagerSpec => ImplementsScreenLock
<1>1. LockInv /\ [ManagerNext]_managerVars => LockInv'
  BY LockStep
<1> QED BY <1>1, LockInit, RefinesInit, RefinesNext, PTL
        DEF ManagerSpec, ImplementsScreenLock, Lock!Spec

-----------------------------------------------------------------------------
(* The dialog *)

(***************************************************************************)
(* The inductive invariant of DialogOwnsInput is its conjunction with      *)
(* LockInv: a dialog is on a locked window, and there is none without a    *)
(* window, so that a new activation begins without one.                    *)
(***************************************************************************)
DialogInv == LockInv /\ DialogOwnsInput

\* DialogOwnsInput of a manager m and windows ws with the fields w.
DialogOwned(m, ws, w) ==
  /\ m.dialog_up <=> w.dialog_up # {}
  /\ \A u, v \in w.dialog_up : u = v
  /\ \A v \in w.dialog_up : w.insensitive = ws \ {v}
  /\ w.dialog_up = {} => w.insensitive = {}
  /\ w.popup_idle \cup w.lock_watch \subseteq w.dialog_up
  /\ w.dialog_up \subseteq w.lock_enabled

\* Nothing is left of a dialog that went down.
DialogGone(m, w) ==
  /\ ~m.dialog_up
  /\ w.dialog_up = {} /\ w.insensitive = {} /\ w.popup_idle = {} /\ w.lock_watch = {}

\* A step that leaves the dialog alone.
DialogSame ==
  /\ UNCHANGED <<windows, manager.dialog_up, win.dialog_up, win.insensitive,
                 win.popup_idle, win.lock_watch>>
  /\ win.dialog_up \subseteq win'.lock_enabled

\* An unlock request on a state in which the dialog owns the input, if there
\* is one, leads to such a state.
LEMMA RequestUnlockOwned ==
  ASSUME NEW m \in ManagerState, NEW ws \in SUBSET Monitors, NEW w \in WindowFields,
         NEW j, NEW g, NEW p \in Monitors,
         DialogOwned(m, ws, w), windows' = ws, RequestUnlock(m, ws, w, j, g, p)
  PROVE  DialogOwnsInput'
<1>1. CASE manager' = m /\ win' = w
  BY <1>1 DEF DialogOwned, DialogOwnsInput
<1>2. CASE /\ ~m.dialog_up /\ p \in (ws \cap w.lock_enabled) \ w.lock_watch
           /\ DialogUp(m, ws, w, j, p)
  <2>1. w.dialog_up = {} /\ w.insensitive = {} /\ w.popup_idle = {} /\ w.lock_watch = {}
    BY <1>2 DEF DialogOwned
  <2>2. manager'.dialog_up
    BY <1>2 DEF DialogUp, ManagerState
  <2>3. /\ win'.dialog_up = {p} /\ win'.insensitive = ws \ {p} /\ win'.popup_idle = {p}
        /\ win'.lock_watch = {} /\ win'.lock_enabled = w.lock_enabled
    BY <1>2, <2>1 DEF DialogUp, WindowFields
  <2> QED BY <1>2, <2>2, <2>3 DEF DialogOwnsInput
<1> QED BY <1>1, <1>2 DEF RequestUnlock

\* popdown_dialog of windows one of which has the dialog leaves nothing of it.
LEMMA PoppedOwned ==
  ASSUME ManagerType, DialogOwnsInput, NEW W, win.dialog_up \subseteq W
  PROVE  DialogGone(PoppedManager(W), PoppedDown(W))
<1>1. CASE win.dialog_up = {}
  BY <1>1 DEF ManagerType, ManagerState, WindowFields, DialogOwnsInput, DialogGone,
     PoppedManager, PoppedDown
<1>2. CASE win.dialog_up # {}
  <2>1. win.dialog_up \cap W # {}
    BY <1>2
  <2>2. ~PoppedManager(W).dialog_up
    BY <2>1 DEF ManagerType, ManagerState, PoppedManager
  <2>3. /\ PoppedDown(W).dialog_up = {} /\ PoppedDown(W).insensitive = {}
        /\ PoppedDown(W).popup_idle = {} /\ PoppedDown(W).lock_watch = {}
    BY <2>1 DEF ManagerType, WindowFields, PoppedDown, DialogOwnsInput
  <2> QED BY <2>2, <2>3 DEF DialogGone
<1> QED BY <1>1, <1>2

\* Locking, at once or by the time-out, leaves the dialog alone.
LEMMA LockKeepsDialog ==
  ASSUME DialogInv, NEW m \in ManagerState, m.dialog_up <=> manager.dialog_up,
         UNCHANGED windows,
         \/ LockTimeout(m)
         \/ manager' = LockedManager(m) /\ win' = LockedWindows(m)
  PROVE  DialogSame
<1>0. /\ win \in WindowFields
      /\ win.dialog_up \subseteq windows /\ win.dialog_up \subseteq win.lock_enabled
      /\ manager \in ManagerState
  BY DEF DialogInv, LockInv, ManagerType, LockCoversEveryMonitor, DialogOwnsInput
<1>1. manager'.dialog_up <=> manager.dialog_up
  BY DEF LockTimeout, LockedManager, ManagerState
<1>2. /\ win'.dialog_up = win.dialog_up /\ win'.insensitive = win.insensitive
      /\ win'.popup_idle = win.popup_idle /\ win'.lock_watch = win.lock_watch
      /\ win'.lock_enabled \in {win.lock_enabled, windows}
  BY <1>0 DEF LockTimeout, LockedWindows, WindowFields
<1>3. manager'.dialog_up \in BOOLEAN
  BY DEF LockTimeout, LockedManager, ManagerState
<1> QED BY <1>0, <1>1, <1>2, <1>3 DEF DialogSame, ManagerState

LEMMA StepDialog == DialogInv /\ ManagerStep => DialogOwnsInput'
<1> SUFFICES ASSUME DialogInv, ManagerStep PROVE DialogOwnsInput'
  OBVIOUS
<1>0. /\ ManagerType /\ manager \in ManagerState /\ win \in WindowFields
      /\ windows \in SUBSET Monitors /\ monitors \in SUBSET Monitors
      /\ win.dialog_up \subseteq windows
      /\ DialogOwned(manager, windows, win)
  BY DEF DialogInv, LockInv, ManagerType, LockCoversEveryMonitor, DialogOwnsInput, DialogOwned
<1>s. ASSUME DialogSame PROVE DialogOwnsInput'
  BY <1>0, <1>s DEF DialogSame, DialogOwned, DialogOwnsInput
<1>1. ASSUME NEW p \in Monitors, gs_manager_request_unlock(p)
      PROVE  DialogOwnsInput'
  BY <1>0, <1>1, RequestUnlockOwned DEF gs_manager_request_unlock
<1>2. ASSUME NEW w \in Monitors, popup_dialog_idle(w)
      PROVE  DialogOwnsInput'
  <2>1. /\ win'.dialog_up = win.dialog_up /\ win'.insensitive = win.insensitive
        /\ win'.lock_enabled = win.lock_enabled
        /\ win'.popup_idle \cup win'.lock_watch
             \subseteq win.popup_idle \cup win.lock_watch
    BY <1>0, <1>2 DEF popup_dialog_idle, WindowFields
  <2> QED BY <1>0, <1>2, <2>1 DEF popup_dialog_idle, DialogOwned, DialogOwnsInput
<1>3. ASSUME NEW w \in Monitors, NEW r \in {"ok", "cancel", "eof"},
             lock_command_watch(w, r)
      PROVE  DialogOwnsInput'
  <2>1. win.dialog_up \subseteq {w}
    BY <1>0, <1>3 DEF lock_command_watch, DialogOwned
  <2>2. DialogGone(PoppedManager({w}), PoppedDown({w}))
    BY <1>0, <2>1, PoppedOwned DEF DialogInv
  <2>3. PoppedDown({w}) \in WindowFields
    BY <1>0, PoppedTypes
  <2>4. manager' = PoppedManager({w}) /\ \E ok : win' = [PoppedDown({w}) EXCEPT !.ok = ok]
    BY <1>3 DEF lock_command_watch
  <2>5. DialogGone(manager', win')
    BY <2>2, <2>3, <2>4 DEF DialogGone, WindowFields
  <2> QED BY <2>5 DEF DialogGone, DialogOwnsInput
<1>4. ASSUME NEW w \in Monitors, lock_command_error(w)
      PROVE  DialogSame
  BY <1>0, <1>4 DEF lock_command_error, WindowFields, DialogOwned, DialogSame
<1>5. ASSUME NEW w \in Monitors,
             emit_deactivated_idle(w) \/ emit_on_freed_window(w) \/ gs_job_died(w)
      PROVE  DialogSame
  BY <1>0, <1>5
  DEF emit_deactivated_idle, emit_on_freed_window, gs_job_died, DialogOwned, DialogSame
<1>6. ASSUME NEW w \in Monitors, window_obscured(w)
      PROVE  DialogSame
  BY <1>0, <1>6 DEF window_obscured, WindowFields, DialogOwned, DialogSame
<1>7. ASSUME NEW w \in Monitors, NEW p \in Monitors, window_map_event_cb(w, p)
      PROVE  DialogSame
  BY <1>0, <1>7 DEF window_map_event_cb, WindowFields, DialogOwned, DialogSame
<1>8. ASSUME NEW w \in Monitors, NEW p \in Monitors, window_unobscured(w, p)
      PROVE  DialogOwnsInput'
  <2> DEFINE shown == [win EXCEPT !.obscured = @ \ {w}]
  <2>1. shown \in WindowFields /\ DialogOwned(manager, windows, shown)
    BY <1>0 DEF WindowFields, DialogOwned
  <2>2. PICK S : RequestUnlock(manager, windows, shown, Started(jobs, S), grab, p)
    BY <1>8 DEF window_unobscured
  <2>3. windows' = windows
    BY <1>8 DEF window_unobscured
  <2> HIDE DEF shown
  <2> QED BY <1>0, <2>1, <2>2, <2>3, RequestUnlockOwned
<1>9. ASSUME activate_lock_timeout
      PROVE  DialogSame
  BY <1>0, <1>9, LockKeepsDialog DEF activate_lock_timeout
<1>10. ASSUME gs_manager_cycle \/ window_grab_broken_cb
       PROVE  DialogSame
  BY <1>0, <1>10 DEF gs_manager_cycle, window_grab_broken_cb, DialogOwned, DialogSame
<1>11. ASSUME unfade_idle
       PROVE  DialogSame
  BY <1>0, <1>11 DEF unfade_idle, ManagerState, DialogOwned, DialogSame
<1>12. ASSUME NEW m \in Monitors, on_display_monitor_removed(m)
       PROVE  DialogOwnsInput'
  <2>1. CASE windows = {}
    <3>1. DialogSame
      BY <1>0, <1>12, <2>1 DEF on_display_monitor_removed, DialogOwned, DialogSame
    <3> QED BY <3>1, <1>s
  <2>2. CASE windows # {}
    <3>0. /\ PoppedDown({m}) \in WindowFields /\ PoppedManager({m}) \in ManagerState
          /\ PoppedDown({m}).lock_enabled = win.lock_enabled
      BY <1>0, PoppedTypes, PoppedKeepsLock
    <3>1. /\ manager' = PoppedManager({m}) /\ windows' = windows \ {m}
          /\ win' = WithoutWindow(PoppedDown({m}), m)
      BY <1>12, <2>2 DEF on_display_monitor_removed
    <3>2. /\ win'.dialog_up = PoppedDown({m}).dialog_up \ {m}
          /\ win'.insensitive = PoppedDown({m}).insensitive \ {m}
          /\ win'.popup_idle = PoppedDown({m}).popup_idle \ {m}
          /\ win'.lock_watch = PoppedDown({m}).lock_watch \ {m}
          /\ win'.lock_enabled = win.lock_enabled \ {m}
      BY <3>0, <3>1 DEF WithoutWindow, WindowFields
    <3>3. CASE win.dialog_up \subseteq {m}
      <4>1. DialogGone(PoppedManager({m}), PoppedDown({m}))
        BY <1>0, <3>3, PoppedOwned DEF DialogInv
      <4> QED BY <3>1, <3>2, <4>1 DEF DialogGone, DialogOwnsInput
    <3>4. CASE ~(win.dialog_up \subseteq {m})
      <4>1. win.dialog_up # {} /\ win.dialog_up \cap {m} = {}
        BY <1>0, <3>4 DEF DialogOwned
      <4>2. /\ PoppedDown({m}).dialog_up = win.dialog_up \ {m}
            /\ PoppedDown({m}).insensitive = win.insensitive
            /\ PoppedDown({m}).popup_idle = win.popup_idle \ {m}
            /\ PoppedDown({m}).lock_watch = win.lock_watch \ {m}
        BY <1>0, <4>1 DEF PoppedDown, WindowFields
      <4>3. PoppedManager({m}).dialog_up <=> manager.dialog_up
        BY <1>0, <4>1 DEF PoppedManager, ManagerState
      <4>4. /\ win'.dialog_up = win.dialog_up
            /\ win'.insensitive = win.insensitive \ {m}
            /\ win'.popup_idle \cup win'.lock_watch
                 \subseteq win.popup_idle \cup win.lock_watch
            /\ win'.lock_enabled = win.lock_enabled \ {m}
        BY <3>2, <4>1, <4>2
      <4>5. manager'.dialog_up
        BY <1>0, <3>1, <4>1, <4>3 DEF DialogOwned
      <4>6. \A w \in win.dialog_up : win'.insensitive = windows' \ {w}
        BY <1>0, <3>1, <4>4 DEF DialogOwned
      <4>7. win.dialog_up \subseteq win'.lock_enabled
        BY <1>0, <4>1, <4>4 DEF DialogOwned
      <4>8. /\ \A v, w \in win'.dialog_up : v = w
            /\ win'.popup_idle \cup win'.lock_watch \subseteq win'.dialog_up
        BY <1>0, <4>4 DEF DialogOwned
      <4> QED BY <4>1, <4>4, <4>5, <4>6, <4>7, <4>8 DEF DialogOwnsInput
    <3> QED BY <3>3, <3>4
  <2> QED BY <2>1, <2>2
<1>13. ASSUME NEW m \in Monitors, NEW p \in Monitors, on_display_monitor_added(m, p)
       PROVE  DialogOwnsInput'
  <2>1. CASE windows = {}
    <3>1. DialogSame
      BY <1>0, <1>13, <2>1 DEF on_display_monitor_added, DialogOwned, DialogSame
    <3> QED BY <3>1, <1>s
  <2>2. CASE windows # {}
    <3> DEFINE m0 == [PoppedManager(windows) EXCEPT !.lock_timer = TRUE,
                                                    !.unfade = TRUE]
               w0 == [PoppedDown(windows) EXCEPT
                        !.lock_enabled = IF manager.lock_active THEN @ \cup {m}
                                                                ELSE @,
                        !.unmapped = @ \cup {m}]
    <3>0. PoppedManager(windows) \in ManagerState /\ PoppedDown(windows) \in WindowFields
      BY <1>0, PoppedTypes
    <3>1. DialogGone(PoppedManager(windows), PoppedDown(windows))
      BY <1>0, PoppedOwned DEF DialogInv
    <3>2. /\ m0 \in ManagerState /\ w0 \in WindowFields
          /\ DialogGone(m0, w0)
      BY <3>0, <3>1 DEF DialogGone, ManagerState, WindowFields
    <3>3. PICK S : RequestUnlock(m0, windows', w0, PoppedJobs(windows, jobs, S),
                                 PoppedGrab(windows), p)
      BY <1>13, <2>2 DEF on_display_monitor_added
    <3>4. windows' \in SUBSET Monitors
      BY <1>0, <1>13, <2>2 DEF on_display_monitor_added
    <3> HIDE DEF m0, w0
    <3>5. DialogOwned(m0, windows', w0)
      BY <3>2 DEF DialogGone, DialogOwned
    <3> QED BY <3>2, <3>3, <3>4, <3>5, RequestUnlockOwned
  <2> QED BY <2>1, <2>2
<1> QED
  BY <1>s, <1>1, <1>2, <1>3, <1>4, <1>5, <1>6, <1>7, <1>8, <1>9, <1>10, <1>11, <1>12,
     <1>13
  DEF ManagerStep, maybe_handle_activity

LEMMA CallDialog == DialogInv /\ ManagerCall => DialogOwnsInput'
<1> SUFFICES ASSUME DialogInv, ManagerCall PROVE DialogOwnsInput'
  OBVIOUS
<1>0. /\ ManagerType /\ manager \in ManagerState /\ win \in WindowFields
      /\ win.dialog_up \subseteq windows
      /\ ~manager.active => windows = {}
      /\ DialogOwned(manager, windows, win)
  BY DEF DialogInv, LockInv, ManagerType, LockCoversEveryMonitor, DialogOwnsInput, DialogOwned
<1>s. ASSUME DialogSame PROVE DialogOwnsInput'
  BY <1>0, <1>s DEF DialogSame, DialogOwned, DialogOwnsInput
<1>1. ASSUME NEW lock \in BOOLEAN, NEW t \in BOOLEAN,
             gs_manager_activate([manager EXCEPT !.lock_active = lock,
                                                 !.throttled = t])
      PROVE  DialogGone(manager', win')
  BY <1>0, <1>1 DEF gs_manager_activate, NoWin, ManagerState, DialogOwned, DialogGone
<1>2. ASSUME NEW i, gs_manager_deactivate(i)
      PROVE  DialogGone(manager', win')
  BY <1>0, <1>2 DEF gs_manager_deactivate, NoWin, ManagerState, DialogGone
<1>3. ASSUME window_deactivated_idle
      PROVE  DialogGone(manager', win') \/ DialogSame
  BY <1>0, <1>2, <1>3 DEF window_deactivated_idle, DialogOwned, DialogSame
<1>4. ASSUME gs_manager_set_lock_active
      PROVE  DialogSame
  BY <1>0, <1>4, LockKeepsDialog DEF gs_manager_set_lock_active
<1>5. ASSUME NEW e \in BOOLEAN, NEW t \in {"same", "elapsed", "later"},
             gs_manager_set_lock_prefs(e, t)
      PROVE  DialogSame
  <2> DEFINE m == [manager EXCEPT !.lock_enabled = e]
  <2>1. m \in ManagerState /\ (m.dialog_up <=> manager.dialog_up)
    BY <1>0 DEF ManagerState
  <2>2. CASE LockTimeout(m)
    <3> HIDE DEF m
    <3> QED BY <1>5, <2>1, <2>2, LockKeepsDialog DEF gs_manager_set_lock_prefs
  <2>3. CASE UNCHANGED win /\ manager' \in {m, [m EXCEPT !.lock_timer = TRUE]}
    BY <1>0, <1>5, <2>3 DEF gs_manager_set_lock_prefs, ManagerState, DialogOwned, DialogSame
  <2> QED BY <1>5, <2>2, <2>3 DEF gs_manager_set_lock_prefs
<1>6. ASSUME NEW t \in BOOLEAN, gs_manager_set_throttled(t)
      PROVE  DialogSame
  BY <1>0, <1>6 DEF gs_manager_set_throttled, ManagerState, DialogOwned, DialogSame
<1>7. ASSUME FadeBegins \/ FadeCancelled \/ GrabReleased
      PROVE  DialogSame
  BY <1>0, <1>7 DEF FadeBegins, FadeCancelled, GrabReleased, DialogOwned, DialogSame
<1>8. ASSUME DialogGone(manager', win') PROVE DialogOwnsInput'
  BY <1>8 DEF DialogGone, DialogOwnsInput
<1> QED
  BY <1>s, <1>1, <1>2, <1>3, <1>4, <1>5, <1>6, <1>7, <1>8 DEF ManagerCall

LEMMA DialogStep == DialogInv /\ [ManagerNext]_managerVars => DialogInv'
<1>1. DialogInv /\ UNCHANGED managerVars => DialogOwnsInput'
  BY DEF managerVars, DialogInv, DialogOwnsInput
<1> QED BY <1>1, LockStep, StepDialog, CallDialog DEF DialogInv, ManagerNext

LEMMA DialogInit == ManagerInit => DialogInv
<1> SUFFICES ASSUME ManagerInit PROVE DialogInv
  OBVIOUS
<1>1. ~manager.dialog_up
  BY DEF ManagerInit
<1> QED BY <1>1, LockInit DEF ManagerInit, NoWin, DialogInv, DialogOwnsInput

\* For any number of monitors and any order of requests, answers, failures
\* and hotplug events: at most one window has the dialog, it is a locked one,
\* the manager knows, and exactly the other windows take no input.
THEOREM DialogOwns == ManagerSpec => []DialogOwnsInput
<1>1. DialogInv => DialogOwnsInput
  BY DEF DialogInv
<1> QED BY <1>1, DialogInit, DialogStep, PTL DEF ManagerSpec

-----------------------------------------------------------------------------
(* The fields that name windows *)

(***************************************************************************)
(* What the manager keeps of a window goes when the window goes.  Theme    *)
(* jobs and pending deactivations are about these fields, so both of the   *)
(* next invariants need this.                                              *)
(***************************************************************************)
FieldsOfWindows == win.unmapped \cup win.obscured \cup win.ok \subseteq windows

KnownInv == DialogInv /\ FieldsOfWindows

\* A step that leaves these fields and the windows alone.
FieldsSame ==
  UNCHANGED <<windows, win.unmapped, win.obscured, win.ok>>

\* An unlock request changes none of them.
LEMMA RequestUnlockKeepsFields ==
  ASSUME NEW m, NEW ws, NEW w \in WindowFields, NEW j, NEW g, NEW p,
         RequestUnlock(m, ws, w, j, g, p)
  PROVE  win'.unmapped = w.unmapped /\ win'.obscured = w.obscured /\ win'.ok = w.ok
BY DEF RequestUnlock, DialogUp, WindowFields

\* Nor does popdown_dialog.
LEMMA PoppedKeepsFields ==
  ASSUME ManagerType, NEW W
  PROVE  /\ PoppedDown(W).unmapped = win.unmapped
         /\ PoppedDown(W).obscured = win.obscured
         /\ PoppedDown(W).ok = win.ok
BY DEF ManagerType, PoppedDown, WindowFields

\* Nor does the lock.
LEMMA LockKeepsFields ==
  ASSUME ManagerType, NEW m, LockTimeout(m) \/ win' = LockedWindows(m)
  PROVE  UNCHANGED <<win.unmapped, win.obscured, win.ok>>
BY DEF ManagerType, LockTimeout, LockedWindows, WindowFields

LEMMA StepKnown == KnownInv /\ ManagerStep => FieldsOfWindows'
<1> SUFFICES ASSUME KnownInv, ManagerStep PROVE FieldsOfWindows'
  OBVIOUS
<1>0. /\ ManagerType /\ win \in WindowFields /\ windows \in SUBSET Monitors
      /\ FieldsOfWindows /\ win.lock_watch \subseteq windows
  BY DEF KnownInv, DialogInv, LockInv, ManagerType, LockCoversEveryMonitor,
     DialogOwnsInput
<1>s. ASSUME FieldsSame PROVE FieldsOfWindows'
  BY <1>0, <1>s DEF FieldsSame, FieldsOfWindows
<1>1. ASSUME NEW p \in Monitors, gs_manager_request_unlock(p)
      PROVE  FieldsSame
  BY <1>0, <1>1, RequestUnlockKeepsFields DEF gs_manager_request_unlock, FieldsSame
<1>2. ASSUME NEW w \in Monitors, popup_dialog_idle(w) \/ lock_command_error(w)
      PROVE  FieldsSame
  BY <1>0, <1>2 DEF popup_dialog_idle, lock_command_error, WindowFields, FieldsSame
<1>3. ASSUME NEW w \in Monitors, NEW r \in {"ok", "cancel", "eof"},
             lock_command_watch(w, r)
      PROVE  FieldsOfWindows'
  <2>1. PoppedDown({w}) \in WindowFields
    BY <1>0, PoppedTypes
  <2>2. /\ w \in windows /\ windows' = windows
        /\ \E ok : /\ win' = [PoppedDown({w}) EXCEPT !.ok = ok]
                   /\ ok \subseteq win.ok \cup {w}
    BY <1>0, <1>3 DEF lock_command_watch
  <2>3. /\ win'.unmapped = win.unmapped /\ win'.obscured = win.obscured
        /\ win'.ok \subseteq win.ok \cup {w}
    BY <1>0, <2>1, <2>2, PoppedKeepsFields DEF WindowFields
  <2> QED BY <1>0, <2>2, <2>3 DEF FieldsOfWindows
<1>4. ASSUME NEW w \in Monitors,
             emit_deactivated_idle(w) \/ emit_on_freed_window(w) \/ gs_job_died(w)
      PROVE  FieldsSame
  BY <1>4 DEF emit_deactivated_idle, emit_on_freed_window, gs_job_died, FieldsSame
<1>5. ASSUME NEW w \in Monitors, window_obscured(w)
      PROVE  FieldsOfWindows'
  BY <1>0, <1>5 DEF window_obscured, WindowFields, FieldsOfWindows
<1>6. ASSUME NEW w \in Monitors, NEW p \in Monitors, window_map_event_cb(w, p)
      PROVE  FieldsOfWindows'
  BY <1>0, <1>6 DEF window_map_event_cb, WindowFields, FieldsOfWindows
<1>7. ASSUME NEW w \in Monitors, NEW p \in Monitors, window_unobscured(w, p)
      PROVE  FieldsOfWindows'
  <2> DEFINE shown == [win EXCEPT !.obscured = @ \ {w}]
  <2>1. /\ shown \in WindowFields /\ shown.unmapped = win.unmapped
        /\ shown.obscured = win.obscured \ {w} /\ shown.ok = win.ok
    BY <1>0 DEF WindowFields
  <2>2. PICK S : RequestUnlock(manager, windows, shown, Started(jobs, S), grab, p)
    BY <1>7 DEF window_unobscured
  <2>3. windows' = windows
    BY <1>7 DEF window_unobscured
  <2> HIDE DEF shown
  <2> QED BY <1>0, <2>1, <2>2, <2>3, RequestUnlockKeepsFields DEF FieldsOfWindows
<1>8. ASSUME activate_lock_timeout
      PROVE  FieldsSame
  BY <1>0, <1>8, LockKeepsFields DEF activate_lock_timeout, FieldsSame
<1>9. ASSUME gs_manager_cycle \/ window_grab_broken_cb \/ unfade_idle
      PROVE  FieldsSame
  BY <1>9 DEF gs_manager_cycle, window_grab_broken_cb, unfade_idle, FieldsSame
<1>10. ASSUME NEW m \in Monitors, on_display_monitor_removed(m)
       PROVE  FieldsOfWindows'
  <2>1. CASE windows = {}
    BY <1>s, <1>10, <2>1 DEF on_display_monitor_removed, FieldsSame
  <2>2. CASE windows # {}
    <3>1. /\ PoppedDown({m}) \in WindowFields /\ windows' = windows \ {m}
          /\ win' = WithoutWindow(PoppedDown({m}), m)
      BY <1>0, <1>10, <2>2, PoppedTypes DEF on_display_monitor_removed
    <3>2. /\ win'.unmapped = PoppedDown({m}).unmapped \ {m}
          /\ win'.obscured = PoppedDown({m}).obscured \ {m}
          /\ win'.ok = PoppedDown({m}).ok \ {m}
      BY <3>1 DEF WithoutWindow, WindowFields
    <3> QED BY <1>0, <3>1, <3>2, PoppedKeepsFields DEF FieldsOfWindows
  <2> QED BY <2>1, <2>2
<1>11. ASSUME NEW m \in Monitors, NEW p \in Monitors, on_display_monitor_added(m, p)
       PROVE  FieldsOfWindows'
  <2>1. CASE windows = {}
    BY <1>s, <1>11, <2>1 DEF on_display_monitor_added, FieldsSame
  <2>2. CASE windows # {}
    <3> DEFINE w0 == [PoppedDown(windows) EXCEPT
                        !.lock_enabled = IF manager.lock_active THEN @ \cup {m}
                                                                ELSE @,
                        !.unmapped = @ \cup {m}]
    <3>1. PoppedDown(windows) \in WindowFields
      BY <1>0, PoppedTypes
    <3>2. /\ w0 \in WindowFields /\ w0.unmapped = PoppedDown(windows).unmapped \cup {m}
          /\ w0.obscured = PoppedDown(windows).obscured
          /\ w0.ok = PoppedDown(windows).ok
      BY <3>1 DEF WindowFields
    <3>3. /\ windows' = windows \cup {m}
          /\ \E m0, j, g : RequestUnlock(m0, windows', w0, j, g, p)
      BY <1>11, <2>2 DEF on_display_monitor_added
    <3> HIDE DEF w0
    <3>4. win'.unmapped = w0.unmapped /\ win'.obscured = w0.obscured /\ win'.ok = w0.ok
      BY <3>2, <3>3, RequestUnlockKeepsFields
    <3> QED BY <1>0, <3>2, <3>3, <3>4, PoppedKeepsFields DEF FieldsOfWindows
  <2> QED BY <2>1, <2>2
<1> QED
  BY <1>s, <1>1, <1>2, <1>3, <1>4, <1>5, <1>6, <1>7, <1>8, <1>9, <1>10, <1>11
  DEF ManagerStep, maybe_handle_activity

LEMMA CallKnown == KnownInv /\ ManagerCall => FieldsOfWindows'
<1> SUFFICES ASSUME KnownInv, ManagerCall PROVE FieldsOfWindows'
  OBVIOUS
<1>0. ManagerType /\ FieldsOfWindows
  BY DEF KnownInv, DialogInv, LockInv
<1>s. ASSUME FieldsSame PROVE FieldsOfWindows'
  BY <1>0, <1>s DEF FieldsSame, FieldsOfWindows
<1>1. ASSUME NEW m, gs_manager_activate(m)
      PROVE  FieldsOfWindows'
  BY <1>1 DEF gs_manager_activate, NoWin, FieldsOfWindows
<1>2. ASSUME NEW i, gs_manager_deactivate(i)
      PROVE  FieldsOfWindows'
  BY <1>2 DEF gs_manager_deactivate, NoWin, FieldsOfWindows
<1>3. ASSUME window_deactivated_idle
      PROVE  FieldsOfWindows' \/ FieldsSame
  BY <1>2, <1>3 DEF window_deactivated_idle, FieldsSame
<1>4. ASSUME gs_manager_set_lock_active
      PROVE  FieldsSame
  BY <1>0, <1>4, LockKeepsFields DEF gs_manager_set_lock_active, FieldsSame
<1>5. ASSUME NEW e, NEW t, gs_manager_set_lock_prefs(e, t)
      PROVE  FieldsSame
  BY <1>0, <1>5, LockKeepsFields DEF gs_manager_set_lock_prefs, FieldsSame
<1>6. ASSUME NEW t, gs_manager_set_throttled(t)
      PROVE  FieldsSame
  BY <1>6 DEF gs_manager_set_throttled, FieldsSame
<1>7. ASSUME FadeBegins \/ FadeCancelled \/ GrabReleased
      PROVE  FieldsSame
  BY <1>7 DEF FadeBegins, FadeCancelled, GrabReleased, FieldsSame
<1> QED
  BY <1>s, <1>1, <1>2, <1>3, <1>4, <1>5, <1>6, <1>7 DEF ManagerCall

LEMMA KnownStep == KnownInv /\ [ManagerNext]_managerVars => KnownInv'
<1>1. KnownInv /\ UNCHANGED managerVars => FieldsOfWindows'
  BY DEF managerVars, KnownInv, FieldsOfWindows
<1> QED BY <1>1, DialogStep, StepKnown, CallKnown DEF KnownInv, ManagerNext

LEMMA KnownInit == ManagerInit => KnownInv
<1>1. ManagerInit => FieldsOfWindows
  BY DEF ManagerInit, NoWin, FieldsOfWindows
<1> QED BY <1>1, DialogInit DEF KnownInv

-----------------------------------------------------------------------------
(* The theme jobs *)

\* QuietJobs of the jobs j of windows ws, some of which are obscured.
JobsQuiet(m, ws, obscured, j) ==
  /\ m.dialog_up \/ m.throttled => j.running = j.stopped
  /\ j.running \cap obscured = {}
  /\ j.stopped \subseteq j.running
  /\ j.running \subseteq ws

QuietInv == KnownInv /\ QuietJobs

\* manager_maybe_start_job_for_window starts no job that should be quiet.
LEMMA StartedQuiet ==
  ASSUME NEW m \in ManagerState, NEW ws, NEW obscured, NEW j \in JobSets,
         JobsQuiet(m, ws, obscured, j),
         NEW W \in SUBSET ws, NEW S \in SUBSET Startable(W, m, j, obscured)
  PROVE  JobsQuiet(m, ws, obscured, Started(j, S))
<1>1. /\ Started(j, S).running = j.running \cup S
      /\ Started(j, S).stopped = j.stopped
  BY DEF Started, JobSets
<1>2. CASE m.dialog_up \/ m.throttled
  BY <1>1, <1>2 DEF Startable, JobsQuiet
<1>3. CASE ~(m.dialog_up \/ m.throttled)
  BY <1>1, <1>3 DEF Startable, JobsQuiet, ManagerState
<1> QED BY <1>2, <1>3

\* Stopping jobs keeps the others as they are.
LEMMA StoppedQuiet ==
  ASSUME NEW m, NEW ws, NEW obscured, NEW j, JobsQuiet(m, ws, obscured, j), NEW W
  PROVE  /\ JobsQuiet(m, ws \ W, obscured, StoppedJobs(j, W))
         /\ JobsQuiet(m, ws, obscured, StoppedJobs(j, W))
BY DEF JobsQuiet, StoppedJobs

\* The jobs that the end of a dialog resumes are quiet in what it leaves.
LEMMA PoppedQuiet ==
  ASSUME ManagerType, NEW W, NEW ws, NEW j \in JobSets,
         JobsQuiet(manager, ws, win.obscured, j),
         NEW S \in SUBSET PoppedStartable(W, ws, j)
  PROVE  JobsQuiet(PoppedManager(W), ws, win.obscured, PoppedJobs(W, j, S))
<1>0. manager \in ManagerState
  BY DEF ManagerType
<1>1. PoppedManager(W).throttled <=> manager.throttled
  BY <1>0 DEF PoppedManager, ManagerState
<1>2. CASE win.dialog_up \cap W = {}
  <2>1. PoppedManager(W).dialog_up <=> manager.dialog_up
    BY <1>0, <1>2 DEF PoppedManager, ManagerState
  <2> QED BY <1>1, <1>2, <2>1 DEF PoppedJobs, JobsQuiet
<1>3. CASE win.dialog_up \cap W # {}
  <2>1. ~PoppedManager(W).dialog_up
    BY <1>0, <1>3 DEF PoppedManager, ManagerState
  <2>2. CASE manager.throttled
    BY <2>2 DEF PoppedJobs, JobsQuiet
  <2>3. CASE ~manager.throttled
    <3>1. S \subseteq ws \ (j.running \cup win.obscured)
      BY <1>3 DEF PoppedStartable, Startable
    <3>2. PoppedJobs(W, j, S) = Resumed(j, S)
      BY <1>3, <2>3 DEF PoppedJobs
    <3> QED BY <1>1, <2>1, <2>3, <3>1, <3>2 DEF Resumed, JobsQuiet
  <2> QED BY <2>2, <2>3
<1> QED BY <1>2, <1>3

\* An unlock request keeps them quiet, and stops them behind its dialog.
LEMMA RequestUnlockQuiet ==
  ASSUME NEW m \in ManagerState, NEW ws, NEW w \in WindowFields, NEW j \in JobSets,
         NEW g, NEW p, JobsQuiet(m, ws, w.obscured, j), windows' = ws,
         RequestUnlock(m, ws, w, j, g, p)
  PROVE  QuietJobs'
<1>1. CASE manager' = m /\ win' = w /\ jobs' = j
  BY <1>1 DEF JobsQuiet, QuietJobs
<1>2. CASE DialogUp(m, ws, w, j, p)
  <2>1. win'.obscured = w.obscured /\ (manager'.throttled <=> m.throttled)
    BY <1>2 DEF DialogUp, WindowFields, ManagerState
  <2>2. CASE m.throttled
    BY <1>2, <2>1, <2>2 DEF DialogUp, JobsQuiet, QuietJobs
  <2>3. CASE ~m.throttled
    <3>1. jobs'.running = j.running /\ jobs'.stopped = j.running
      BY <1>2, <2>3 DEF DialogUp, Suspended, JobSets
    <3> QED BY <2>1, <3>1 DEF JobsQuiet, QuietJobs
  <2> QED BY <2>2, <2>3
<1> QED BY <1>1, <1>2 DEF RequestUnlock

LEMMA StepQuiet == QuietInv /\ ManagerStep => QuietJobs'
<1> SUFFICES ASSUME QuietInv, ManagerStep PROVE QuietJobs'
  OBVIOUS
<1>0. /\ ManagerType /\ manager \in ManagerState /\ win \in WindowFields
      /\ windows \in SUBSET Monitors /\ jobs \in JobSets
      /\ FieldsOfWindows
      /\ JobsQuiet(manager, windows, win.obscured, jobs)
  BY DEF QuietInv, KnownInv, DialogInv, LockInv, ManagerType, QuietJobs, JobsQuiet
<1>q. ASSUME UNCHANGED <<windows, win.obscured>>,
             manager'.dialog_up <=> manager.dialog_up,
             manager'.throttled <=> manager.throttled,
             JobsQuiet(manager, windows, win.obscured, jobs')
      PROVE  QuietJobs'
  BY <1>q DEF JobsQuiet, QuietJobs
<1>1. ASSUME NEW p \in Monitors, gs_manager_request_unlock(p)
      PROVE  QuietJobs'
  BY <1>0, <1>1, RequestUnlockQuiet DEF gs_manager_request_unlock
<1>2. ASSUME NEW w \in Monitors, popup_dialog_idle(w) \/ lock_command_error(w)
      PROVE  QuietJobs'
  BY <1>0, <1>2, <1>q DEF popup_dialog_idle, lock_command_error, WindowFields
<1>3. ASSUME NEW w \in Monitors, NEW r \in {"ok", "cancel", "eof"},
             lock_command_watch(w, r)
      PROVE  QuietJobs'
  <2>1. PICK S \in SUBSET PoppedStartable({w}, windows, jobs) :
          jobs' = PoppedJobs({w}, jobs, S)
    BY <1>3 DEF lock_command_watch
  <2>2. JobsQuiet(PoppedManager({w}), windows, win.obscured, jobs')
    BY <1>0, <2>1, PoppedQuiet
  <2>3. PoppedDown({w}) \in WindowFields
    BY <1>0, PoppedTypes
  <2>4. \E ok : win' = [PoppedDown({w}) EXCEPT !.ok = ok]
    BY <1>3 DEF lock_command_watch
  <2>5. win'.obscured = PoppedDown({w}).obscured
    BY <2>3, <2>4 DEF WindowFields
  <2>6. manager' = PoppedManager({w}) /\ windows' = windows
    BY <1>3 DEF lock_command_watch
  <2> QED BY <1>0, <2>2, <2>5, <2>6, PoppedKeepsFields DEF JobsQuiet, QuietJobs
<1>4. ASSUME NEW w \in Monitors,
             emit_deactivated_idle(w) \/ emit_on_freed_window(w)
      PROVE  QuietJobs'
  BY <1>0, <1>4, <1>q DEF emit_deactivated_idle, emit_on_freed_window
<1>5. ASSUME NEW w \in Monitors, gs_job_died(w)
      PROVE  QuietJobs'
  BY <1>0, <1>5, <1>q, StoppedQuiet DEF gs_job_died
<1>6. ASSUME NEW w \in Monitors, window_obscured(w)
      PROVE  QuietJobs'
  <2>1. win'.obscured = win.obscured \cup {w}
    BY <1>0, <1>6 DEF window_obscured, WindowFields
  <2>2. /\ manager' = manager /\ windows' = windows
        /\ jobs' = StoppedJobs(jobs, {w})
    BY <1>6 DEF window_obscured
  <2> QED BY <1>0, <2>1, <2>2 DEF StoppedJobs, JobsQuiet, QuietJobs
<1>7. ASSUME NEW w \in Monitors, NEW p \in Monitors, window_map_event_cb(w, p)
      PROVE  QuietJobs'
  <2>1. {w} \in SUBSET windows
    BY <1>0, <1>7 DEF window_map_event_cb, FieldsOfWindows
  <2>2. JobsQuiet(manager, windows, win.obscured, jobs')
    BY <1>0, <1>7, <2>1, StartedQuiet DEF window_map_event_cb
  <2>3. win'.obscured = win.obscured
    BY <1>0, <1>7 DEF window_map_event_cb, WindowFields
  <2> QED BY <1>7, <1>q, <2>2, <2>3 DEF window_map_event_cb
<1>8. ASSUME NEW w \in Monitors, NEW p \in Monitors, window_unobscured(w, p)
      PROVE  QuietJobs'
  <2> DEFINE shown == [win EXCEPT !.obscured = @ \ {w}]
  <2>1. shown \in WindowFields /\ shown.obscured = win.obscured \ {w}
    BY <1>0 DEF WindowFields
  <2>2. PICK S \in SUBSET Startable({w}, manager, jobs, shown.obscured) :
          RequestUnlock(manager, windows, shown, Started(jobs, S), grab, p)
    BY <1>8 DEF window_unobscured
  <2>3. windows' = windows /\ {w} \in SUBSET windows
    BY <1>0, <1>8 DEF window_unobscured, FieldsOfWindows
  <2> HIDE DEF shown
  <2>4. JobsQuiet(manager, windows, shown.obscured, jobs)
    BY <1>0, <2>1 DEF JobsQuiet
  <2>5. JobsQuiet(manager, windows, shown.obscured, Started(jobs, S))
    BY <1>0, <2>2, <2>3, <2>4, StartedQuiet
  <2>6. S \in SUBSET Monitors
    BY <1>0, <2>2, StartableType
  <2>7. Started(jobs, S) \in JobSets
    BY <1>0, <2>6, JobTypes
  <2> QED BY <1>0, <2>1, <2>2, <2>3, <2>5, <2>7, RequestUnlockQuiet
<1>9. ASSUME activate_lock_timeout
      PROVE  QuietJobs'
  <2>1. DialogSame
    BY <1>0, <1>9, LockKeepsDialog DEF activate_lock_timeout, QuietInv, KnownInv
  <2>2. manager'.throttled <=> manager.throttled
    BY <1>0, <1>9 DEF activate_lock_timeout, LockTimeout, LockedManager, ManagerState
  <2>3. win'.obscured = win.obscured /\ jobs' = jobs /\ windows' = windows
    BY <1>0, <1>9, LockKeepsFields DEF activate_lock_timeout
  <2> QED BY <1>0, <1>q, <2>1, <2>2, <2>3 DEF DialogSame
<1>10. ASSUME gs_manager_cycle
       PROVE  QuietJobs'
  <2>1. JobsQuiet(manager, windows, win.obscured, StoppedJobs(jobs, windows))
    BY <1>0, StoppedQuiet
  <2>2. StoppedJobs(jobs, windows) \in JobSets
    BY <1>0, JobTypes
  <2>3. JobsQuiet(manager, windows, win.obscured, jobs')
    BY <1>0, <1>10, <2>1, <2>2, StartedQuiet DEF gs_manager_cycle
  <2> QED BY <1>10, <1>q, <2>3 DEF gs_manager_cycle
<1>11. ASSUME window_grab_broken_cb
       PROVE  QuietJobs'
  BY <1>0, <1>11, <1>q DEF window_grab_broken_cb
<1>12. ASSUME unfade_idle
       PROVE  QuietJobs'
  BY <1>0, <1>12, <1>q DEF unfade_idle, ManagerState
<1>13. ASSUME NEW m \in Monitors, on_display_monitor_removed(m)
       PROVE  QuietJobs'
  <2>1. CASE windows = {}
    BY <1>0, <1>13, <1>q, <2>1 DEF on_display_monitor_removed
  <2>2. CASE windows # {}
    <3> DEFINE left == StoppedJobs(jobs, {m})
    <3>1. PICK S \in SUBSET PoppedStartable({m}, windows \ {m}, left) :
            jobs' = PoppedJobs({m}, left, S)
      BY <1>13, <2>2 DEF on_display_monitor_removed
    <3>2. /\ left \in JobSets
          /\ JobsQuiet(manager, windows \ {m}, win.obscured, left)
      BY <1>0, JobTypes, StoppedQuiet
    <3> HIDE DEF left
    <3>3. JobsQuiet(PoppedManager({m}), windows \ {m}, win.obscured, jobs')
      BY <1>0, <3>1, <3>2, PoppedQuiet
    <3>4. /\ PoppedDown({m}) \in WindowFields /\ windows' = windows \ {m}
          /\ win' = WithoutWindow(PoppedDown({m}), m)
          /\ manager' = PoppedManager({m})
      BY <1>0, <1>13, <2>2, PoppedTypes DEF on_display_monitor_removed
    <3>5. win'.obscured = PoppedDown({m}).obscured \ {m}
      BY <3>4 DEF WithoutWindow, WindowFields
    <3> QED BY <1>0, <3>3, <3>4, <3>5, PoppedKeepsFields DEF JobsQuiet, QuietJobs
  <2> QED BY <2>1, <2>2
<1>14. ASSUME NEW m \in Monitors, NEW p \in Monitors, on_display_monitor_added(m, p)
       PROVE  QuietJobs'
  <2>1. CASE windows = {}
    BY <1>0, <1>14, <1>q, <2>1 DEF on_display_monitor_added
  <2>2. CASE windows # {}
    <3> DEFINE m0 == [PoppedManager(windows) EXCEPT !.lock_timer = TRUE,
                                                    !.unfade = TRUE]
               w0 == [PoppedDown(windows) EXCEPT
                        !.lock_enabled = IF manager.lock_active THEN @ \cup {m}
                                                                ELSE @,
                        !.unmapped = @ \cup {m}]
    <3>0. PoppedManager(windows) \in ManagerState /\ PoppedDown(windows) \in WindowFields
      BY <1>0, PoppedTypes
    <3>1. /\ m0 \in ManagerState
          /\ m0.dialog_up <=> PoppedManager(windows).dialog_up
          /\ m0.throttled <=> PoppedManager(windows).throttled
      BY <3>0 DEF ManagerState
    <3>2. w0 \in WindowFields /\ w0.obscured = PoppedDown(windows).obscured
      BY <3>0 DEF WindowFields
    <3>3. PICK S \in SUBSET PoppedStartable(windows, windows, jobs) :
            RequestUnlock(m0, windows', w0, PoppedJobs(windows, jobs, S),
                          PoppedGrab(windows), p)
      BY <1>14, <2>2 DEF on_display_monitor_added
    <3>4. windows' = windows \cup {m}
      BY <1>14, <2>2 DEF on_display_monitor_added
    <3> HIDE DEF m0, w0
    <3>5. JobsQuiet(PoppedManager(windows), windows, win.obscured,
                    PoppedJobs(windows, jobs, S))
      BY <1>0, <3>3, PoppedQuiet
    <3>6. JobsQuiet(m0, windows', w0.obscured, PoppedJobs(windows, jobs, S))
      BY <1>0, <3>1, <3>2, <3>4, <3>5, PoppedKeepsFields DEF JobsQuiet
    <3>7. PoppedJobs(windows, jobs, S) \in JobSets
      BY <1>0, <3>3, PoppedJobsType, PoppedStartableType
    <3> QED BY <3>1, <3>2, <3>3, <3>6, <3>7, RequestUnlockQuiet
  <2> QED BY <2>1, <2>2
<1> QED
  BY <1>1, <1>2, <1>3, <1>4, <1>5, <1>6, <1>7, <1>8, <1>9, <1>10, <1>11, <1>12, <1>13,
     <1>14
  DEF ManagerStep, maybe_handle_activity

LEMMA CallQuiet == QuietInv /\ ManagerCall => QuietJobs'
<1> SUFFICES ASSUME QuietInv, ManagerCall PROVE QuietJobs'
  OBVIOUS
<1>0. /\ ManagerType /\ manager \in ManagerState /\ win \in WindowFields
      /\ windows \in SUBSET Monitors /\ jobs \in JobSets /\ DialogInv
      /\ JobsQuiet(manager, windows, win.obscured, jobs)
  BY DEF QuietInv, KnownInv, DialogInv, LockInv, ManagerType, QuietJobs, JobsQuiet
<1>q. ASSUME UNCHANGED <<windows, win.obscured>>,
             manager'.dialog_up <=> manager.dialog_up,
             manager'.throttled <=> manager.throttled,
             JobsQuiet(manager, windows, win.obscured, jobs')
      PROVE  QuietJobs'
  BY <1>q DEF JobsQuiet, QuietJobs
<1>1. ASSUME NEW m, gs_manager_activate(m)
      PROVE  QuietJobs'
  BY <1>1 DEF gs_manager_activate, NoJobs, QuietJobs
<1>2. ASSUME NEW i, gs_manager_deactivate(i)
      PROVE  QuietJobs'
  BY <1>2 DEF gs_manager_deactivate, NoJobs, QuietJobs
<1>3. ASSUME window_deactivated_idle
      PROVE  QuietJobs'
  BY <1>0, <1>2, <1>3, <1>q DEF window_deactivated_idle
<1>4. ASSUME gs_manager_set_lock_active
      PROVE  QuietJobs'
  <2>1. DialogSame
    BY <1>0, <1>4, LockKeepsDialog DEF gs_manager_set_lock_active
  <2>2. manager'.throttled <=> manager.throttled
    BY <1>0, <1>4 DEF gs_manager_set_lock_active, LockedManager, ManagerState
  <2>3. win'.obscured = win.obscured /\ jobs' = jobs /\ windows' = windows
    BY <1>0, <1>4, LockKeepsFields DEF gs_manager_set_lock_active
  <2> QED BY <1>0, <1>q, <2>1, <2>2, <2>3 DEF DialogSame
<1>5. ASSUME NEW e \in BOOLEAN, NEW t \in {"same", "elapsed", "later"},
             gs_manager_set_lock_prefs(e, t)
      PROVE  QuietJobs'
  <2>1. /\ manager'.throttled <=> manager.throttled
        /\ manager'.dialog_up <=> manager.dialog_up
    BY <1>0, <1>5 DEF gs_manager_set_lock_prefs, LockTimeout, LockedManager, ManagerState
  <2>2. win'.obscured = win.obscured /\ jobs' = jobs /\ windows' = windows
    BY <1>0, <1>5, LockKeepsFields DEF gs_manager_set_lock_prefs
  <2> QED BY <1>0, <1>q, <2>1, <2>2
<1>6. ASSUME NEW t \in BOOLEAN, gs_manager_set_throttled(t)
      PROVE  QuietJobs'
  <2> DEFINE m == [manager EXCEPT !.throttled = t]
  <2>0. /\ m \in ManagerState /\ (m.dialog_up <=> manager.dialog_up)
        /\ (m.throttled <=> t) /\ manager' = m
        /\ windows' = windows /\ win' = win
    BY <1>0, <1>6 DEF gs_manager_set_throttled, ManagerState
  <2>1. CASE manager.dialog_up
    <3>1. jobs' = jobs
      BY <1>6, <2>0, <2>1 DEF gs_manager_set_throttled
    <3> HIDE DEF m
    <3> QED BY <1>0, <2>0, <2>1, <3>1 DEF JobsQuiet, QuietJobs
  <2>2. CASE ~manager.dialog_up /\ t
    <3>1. jobs' = StoppedJobs(jobs, windows)
      BY <1>6, <2>0, <2>2 DEF gs_manager_set_throttled
    <3>2. jobs'.running = {} /\ jobs'.stopped = {}
      BY <1>0, <3>1 DEF StoppedJobs, JobsQuiet
    <3> QED BY <3>2 DEF QuietJobs
  <2>3. CASE ~manager.dialog_up /\ ~t
    <3>1. PICK S \in SUBSET Startable(windows, m, jobs, win.obscured) :
            jobs' = Started(jobs, S)
      BY <1>6, <2>0, <2>3 DEF gs_manager_set_throttled
    <3> HIDE DEF m
    <3>2. JobsQuiet(m, windows, win.obscured, jobs)
      BY <1>0, <2>0, <2>3 DEF JobsQuiet
    <3>3. JobsQuiet(m, windows, win.obscured, jobs')
      BY <1>0, <2>0, <3>1, <3>2, StartedQuiet
    <3> QED BY <2>0, <3>3 DEF JobsQuiet, QuietJobs
  <2> QED BY <2>1, <2>2, <2>3
<1>7. ASSUME FadeBegins \/ FadeCancelled \/ GrabReleased
      PROVE  QuietJobs'
  BY <1>0, <1>7, <1>q DEF FadeBegins, FadeCancelled, GrabReleased
<1> QED
  BY <1>1, <1>2, <1>3, <1>4, <1>5, <1>6, <1>7 DEF ManagerCall

LEMMA QuietStep == QuietInv /\ [ManagerNext]_managerVars => QuietInv'
<1>1. QuietInv /\ UNCHANGED managerVars => QuietJobs'
  BY DEF managerVars, QuietInv, QuietJobs
<1> QED BY <1>1, KnownStep, StepQuiet, CallQuiet DEF QuietInv, ManagerNext

LEMMA QuietInit == ManagerInit => QuietInv
<1>1. ManagerInit => QuietJobs
  BY DEF ManagerInit, NoJobs, QuietJobs
<1> QED BY <1>1, KnownInit DEF QuietInv

\* Whatever the order in which windows are mapped, obscured and unplugged,
\* dialogs come and go, themes are cycled and clients throttle: no theme job
\* runs behind the dialog, while throttled, on an obscured window or on a
\* monitor that has gone.
THEOREM Quiet == ManagerSpec => []QuietJobs
<1>1. QuietInv => QuietJobs
  BY DEF QuietInv
<1> QED BY <1>1, QuietInit, QuietStep, PTL DEF ManagerSpec

-----------------------------------------------------------------------------
(* An accepted password *)

\* AcceptedIsPending of the idle sources i and the accepted windows ok.
Pending(i, ok) == \A w \in ok : i.emit[w] > 0 \/ i.deactivated > 0

AcceptedInv == KnownInv /\ AcceptedIsPending

\* An unlock request drops no pending deactivation.
LEMMA RequestUnlockPending ==
  ASSUME NEW m, NEW ws, NEW w \in WindowFields, NEW j, NEW g, NEW p \in Monitors,
         idles \in IdleSources, Pending(idles, w.ok), RequestUnlock(m, ws, w, j, g, p)
  PROVE  AcceptedIsPending'
<1>1. win'.ok = w.ok
  BY RequestUnlockKeepsFields
<1>2. CASE idles' = idles
  BY <1>1, <1>2 DEF Pending, AcceptedIsPending
<1>3. CASE idles' = [idles EXCEPT !.emit[p] = @ + 1]
  <2>1. /\ idles'.deactivated = idles.deactivated
        /\ \A v \in Monitors : idles.emit[v] > 0 => idles'.emit[v] > 0
    BY <1>3 DEF IdleSources
  <2>2. w.ok \subseteq Monitors
    BY DEF WindowFields
  <2> QED BY <1>1, <2>1, <2>2 DEF Pending, AcceptedIsPending
<1> QED BY <1>2, <1>3 DEF RequestUnlock, DialogUp

LEMMA StepAccepted == AcceptedInv /\ ManagerStep => AcceptedIsPending'
<1> SUFFICES ASSUME AcceptedInv, ManagerStep PROVE AcceptedIsPending'
  OBVIOUS
<1>0. /\ ManagerType /\ win \in WindowFields /\ win.ok \subseteq Monitors
      /\ idles \in IdleSources /\ Pending(idles, win.ok)
  BY DEF AcceptedInv, KnownInv, DialogInv, LockInv, ManagerType, WindowFields,
     AcceptedIsPending, Pending
<1>s. ASSUME UNCHANGED <<win.ok, idles>> PROVE AcceptedIsPending'
  BY <1>0, <1>s DEF Pending, AcceptedIsPending
<1>1. ASSUME NEW p \in Monitors, gs_manager_request_unlock(p)
      PROVE  AcceptedIsPending'
  BY <1>0, <1>1, RequestUnlockPending DEF gs_manager_request_unlock
<1>2. ASSUME NEW w \in Monitors, popup_dialog_idle(w) \/ lock_command_error(w)
      PROVE  AcceptedIsPending'
  BY <1>0, <1>s, <1>2 DEF popup_dialog_idle, lock_command_error, WindowFields
<1>3. ASSUME NEW w \in Monitors, NEW r \in {"ok", "cancel", "eof"},
             lock_command_watch(w, r)
      PROVE  AcceptedIsPending'
  <2>1. PoppedDown({w}) \in WindowFields
    BY <1>0, PoppedTypes
  <2>2. PICK ok : /\ win' = [PoppedDown({w}) EXCEPT !.ok = ok]
                  /\ ok \subseteq win.ok \cup {w}
                  /\ IF w \in ok THEN idles' = [idles EXCEPT !.emit[w] = @ + 1]
                                 ELSE UNCHANGED idles
    BY <1>3 DEF lock_command_watch
  <2>3. win'.ok = ok
    BY <2>1, <2>2 DEF WindowFields
  <2>4. CASE w \in ok
    <3>1. /\ idles'.deactivated = idles.deactivated
          /\ \A v \in Monitors : idles.emit[v] > 0 => idles'.emit[v] > 0
          /\ idles'.emit[w] > 0
      BY <1>0, <2>2, <2>4 DEF IdleSources
    <3> QED BY <1>0, <2>2, <2>3, <3>1 DEF Pending, AcceptedIsPending
  <2>5. CASE w \notin ok
    BY <1>0, <2>2, <2>3, <2>5 DEF Pending, AcceptedIsPending
  <2> QED BY <2>4, <2>5
<1>4. ASSUME NEW w \in Monitors, emit_deactivated_idle(w)
      PROVE  AcceptedIsPending'
  <2>1. idles'.deactivated > 0
    BY <1>0, <1>4 DEF emit_deactivated_idle, IdleSources
  <2> QED BY <2>1 DEF AcceptedIsPending
<1>5. ASSUME NEW w \in Monitors, emit_on_freed_window(w)
      PROVE  AcceptedIsPending'
  <2>1. /\ idles'.emit = idles.emit /\ win' = win
        /\ idles'.deactivated \in {idles.deactivated, idles.deactivated + 1}
    BY <1>0, <1>5 DEF emit_on_freed_window, IdleSources
  <2>2. idles.deactivated > 0 => idles'.deactivated > 0
    BY <1>0, <2>1 DEF IdleSources
  <2> QED BY <1>0, <2>1, <2>2 DEF Pending, AcceptedIsPending
<1>6. ASSUME NEW w \in Monitors, gs_job_died(w)
      PROVE  AcceptedIsPending'
  BY <1>s, <1>6 DEF gs_job_died
<1>7. ASSUME NEW w \in Monitors, window_obscured(w)
      PROVE  AcceptedIsPending'
  BY <1>0, <1>s, <1>7 DEF window_obscured, WindowFields
<1>8. ASSUME NEW w \in Monitors, NEW p \in Monitors, window_map_event_cb(w, p)
      PROVE  AcceptedIsPending'
  BY <1>0, <1>s, <1>8 DEF window_map_event_cb, WindowFields
<1>9. ASSUME NEW w \in Monitors, NEW p \in Monitors, window_unobscured(w, p)
      PROVE  AcceptedIsPending'
  <2> DEFINE shown == [win EXCEPT !.obscured = @ \ {w}]
  <2>1. shown \in WindowFields /\ shown.ok = win.ok
    BY <1>0 DEF WindowFields
  <2>2. PICK S : RequestUnlock(manager, windows, shown, Started(jobs, S), grab, p)
    BY <1>9 DEF window_unobscured
  <2> HIDE DEF shown
  <2> QED BY <1>0, <2>1, <2>2, RequestUnlockPending
<1>10. ASSUME activate_lock_timeout
       PROVE  AcceptedIsPending'
  BY <1>0, <1>s, <1>10, LockKeepsFields DEF activate_lock_timeout
<1>11. ASSUME gs_manager_cycle \/ window_grab_broken_cb \/ unfade_idle
       PROVE  AcceptedIsPending'
  BY <1>s, <1>11 DEF gs_manager_cycle, window_grab_broken_cb, unfade_idle
<1>12. ASSUME NEW m \in Monitors, on_display_monitor_removed(m)
       PROVE  AcceptedIsPending'
  <2>1. CASE windows = {}
    BY <1>s, <1>12, <2>1 DEF on_display_monitor_removed
  <2>2. CASE windows # {}
    <3>1. /\ PoppedDown({m}) \in WindowFields
          /\ win' = WithoutWindow(PoppedDown({m}), m)
          /\ idles' = LeftBehind(idles, {m})
      BY <1>0, <1>12, <2>2, PoppedTypes DEF on_display_monitor_removed
    <3>2. win'.ok = win.ok \ {m}
      BY <1>0, <3>1, PoppedKeepsFields DEF WithoutWindow, WindowFields
    <3>3. /\ idles'.deactivated = idles.deactivated
          /\ \A v \in Monitors \ {m} : idles'.emit[v] = idles.emit[v]
      BY <3>1 DEF LeftBehind
    <3> QED BY <1>0, <3>2, <3>3 DEF Pending, AcceptedIsPending
  <2> QED BY <2>1, <2>2
<1>13. ASSUME NEW m \in Monitors, NEW p \in Monitors, on_display_monitor_added(m, p)
       PROVE  AcceptedIsPending'
  <2>1. CASE windows = {}
    BY <1>s, <1>13, <2>1 DEF on_display_monitor_added
  <2>2. CASE windows # {}
    <3> DEFINE w0 == [PoppedDown(windows) EXCEPT
                        !.lock_enabled = IF manager.lock_active THEN @ \cup {m}
                                                                ELSE @,
                        !.unmapped = @ \cup {m}]
    <3>1. PoppedDown(windows) \in WindowFields
      BY <1>0, PoppedTypes DEF ManagerType
    <3>2. w0 \in WindowFields /\ w0.ok = PoppedDown(windows).ok
      BY <3>1 DEF WindowFields
    <3>3. \E m0, j, g : RequestUnlock(m0, windows', w0, j, g, p)
      BY <1>13, <2>2 DEF on_display_monitor_added
    <3> HIDE DEF w0
    <3> QED BY <1>0, <3>2, <3>3, PoppedKeepsFields, RequestUnlockPending
  <2> QED BY <2>1, <2>2
<1> QED
  BY <1>1, <1>2, <1>3, <1>4, <1>5, <1>6, <1>7, <1>8, <1>9, <1>10, <1>11, <1>12, <1>13
  DEF ManagerStep, maybe_handle_activity

LEMMA CallAccepted == AcceptedInv /\ ManagerCall => AcceptedIsPending'
<1> SUFFICES ASSUME AcceptedInv, ManagerCall PROVE AcceptedIsPending'
  OBVIOUS
<1>0. /\ ManagerType /\ Pending(idles, win.ok)
      /\ ~manager.active => win.ok = {}
  BY DEF AcceptedInv, KnownInv, DialogInv, LockInv, LockCoversEveryMonitor,
     FieldsOfWindows, AcceptedIsPending, Pending
<1>s. ASSUME UNCHANGED <<win.ok, idles>> PROVE AcceptedIsPending'
  BY <1>0, <1>s DEF Pending, AcceptedIsPending
<1>1. ASSUME NEW m, gs_manager_activate(m)
      PROVE  AcceptedIsPending'
  BY <1>1 DEF gs_manager_activate, NoWin, AcceptedIsPending
<1>2. ASSUME NEW i, gs_manager_deactivate(i)
      PROVE  AcceptedIsPending'
  BY <1>2 DEF gs_manager_deactivate, NoWin, AcceptedIsPending
<1>3. ASSUME window_deactivated_idle
      PROVE  AcceptedIsPending'
  BY <1>0, <1>2, <1>3 DEF window_deactivated_idle, AcceptedIsPending
<1>4. ASSUME gs_manager_set_lock_active
      PROVE  AcceptedIsPending'
  BY <1>0, <1>s, <1>4, LockKeepsFields DEF gs_manager_set_lock_active
<1>5. ASSUME NEW e, NEW t, gs_manager_set_lock_prefs(e, t)
      PROVE  AcceptedIsPending'
  BY <1>0, <1>s, <1>5, LockKeepsFields DEF gs_manager_set_lock_prefs
<1>6. ASSUME NEW t, gs_manager_set_throttled(t)
      PROVE  AcceptedIsPending'
  BY <1>s, <1>6 DEF gs_manager_set_throttled
<1>7. ASSUME FadeBegins \/ FadeCancelled \/ GrabReleased
      PROVE  AcceptedIsPending'
  BY <1>s, <1>7 DEF FadeBegins, FadeCancelled, GrabReleased
<1> QED
  BY <1>1, <1>2, <1>3, <1>4, <1>5, <1>6, <1>7 DEF ManagerCall

\* The password of an accepted dialog is never forgotten: until the
\* screensaver has gone off, or the monitor of that dialog, a source that
\* turns the screensaver off is pending.
THEOREM Accepted == ManagerSpec => []AcceptedIsPending
<1>1. AcceptedInv /\ [ManagerNext]_managerVars => AcceptedInv'
  <2>1. AcceptedInv /\ UNCHANGED managerVars => AcceptedIsPending'
    BY DEF managerVars, AcceptedInv, AcceptedIsPending
  <2> QED BY <2>1, KnownStep, StepAccepted, CallAccepted DEF AcceptedInv, ManagerNext
<1>2. ManagerInit => AcceptedInv
  <2>1. ManagerInit => AcceptedIsPending
    BY DEF ManagerInit, NoWin, AcceptedIsPending
  <2> QED BY <2>1, KnownInit DEF AcceptedInv
<1>3. AcceptedInv => AcceptedIsPending
  BY DEF AcceptedInv
<1> QED BY <1>1, <1>2, <1>3, PTL DEF ManagerSpec

-----------------------------------------------------------------------------
(* A dialog that does not fail *)

\* An unlock request puts up a dialog that is served.
LEMMA RequestUnlockServed ==
  ASSUME NEW m, NEW ws, NEW w \in WindowFields, NEW j, NEW g, NEW p,
         Served(w), RequestUnlock(m, ws, w, j, g, p)
  PROVE  Served(win')
<1>1. \/ win' = w
      \/ /\ win'.dead_watch = w.dead_watch /\ win'.lock_watch = w.lock_watch
         /\ win'.dialog_up = w.dialog_up \cup {p}
         /\ win'.popup_idle = w.popup_idle \cup {p}
  BY DEF RequestUnlock, DialogUp, WindowFields
<1> QED BY <1>1 DEF Served

\* popdown_dialog leaves none that is not.
LEMMA PoppedServed ==
  ASSUME ManagerType, Served(win), NEW W
  PROVE  Served(PoppedDown(W))
<1>1. /\ PoppedDown(W).dead_watch = win.dead_watch \ W
      /\ PoppedDown(W).dialog_up = win.dialog_up \ W
      /\ PoppedDown(W).popup_idle = win.popup_idle \ W
      /\ PoppedDown(W).lock_watch = win.lock_watch \ W
  BY DEF ManagerType, PoppedDown, WindowFields
<1> QED BY <1>1 DEF Served

\* A step that leaves the dialogs of the windows alone.
ServedSame ==
  UNCHANGED <<win.dead_watch, win.dialog_up, win.popup_idle, win.lock_watch>>

LEMMA LockKeepsServed ==
  ASSUME ManagerType, NEW m, LockTimeout(m) \/ win' = LockedWindows(m)
  PROVE  ServedSame
BY DEF ManagerType, LockTimeout, LockedWindows, WindowFields, ServedSame

\* A monitor that is added while there are windows takes the dialogs of all of
\* them down, the ones that nobody serves too, before one is put up again.
LEMMA AddedServed ==
  ASSUME DialogInv, NEW m \in Monitors, NEW p \in Monitors,
         on_display_monitor_added(m, p), windows # {}
  PROVE  Served(win')
<1> DEFINE w0 == [PoppedDown(windows) EXCEPT
                    !.lock_enabled = IF manager.lock_active THEN @ \cup {m} ELSE @,
                    !.unmapped = @ \cup {m}]
<1>1. ManagerType /\ win \in WindowFields /\ PoppedDown(windows) \in WindowFields
  BY PoppedTypes DEF DialogInv, LockInv, ManagerType
<1>2. PoppedDown(windows).dialog_up = {}
  <2>1. win.dialog_up \subseteq windows
    BY DEF DialogInv, DialogOwnsInput, LockInv, LockCoversEveryMonitor
  <2> QED BY <1>1, <2>1 DEF PoppedDown, WindowFields
<1>3. w0 \in WindowFields /\ Served(w0)
  BY <1>1, <1>2 DEF WindowFields, Served
<1>4. \E m0, j, g : RequestUnlock(m0, windows', w0, j, g, p)
  BY DEF on_display_monitor_added
<1> HIDE DEF w0
<1> QED BY <1>3, <1>4, RequestUnlockServed

\* The steps in which a dialog is not spawned or not read any more.
DialogFails == \E w \in Monitors : popup_dialog_idle(w) \/ lock_command_error(w)

\* All the others keep the dialogs served.
LEMMA StepServed ==
  ASSUME DialogInv, Served(win), ManagerStep, ~DialogFails
  PROVE  Served(win')
<1>0. ManagerType /\ win \in WindowFields /\ windows \in SUBSET Monitors
  BY DEF DialogInv, LockInv, ManagerType
<1>s. ASSUME ServedSame PROVE Served(win')
  BY <1>0, <1>s DEF ServedSame, Served
<1>1. ASSUME NEW p \in Monitors, gs_manager_request_unlock(p)
      PROVE  Served(win')
  BY <1>0, <1>1, RequestUnlockServed DEF gs_manager_request_unlock
<1>3. ASSUME NEW w \in Monitors, NEW r \in {"ok", "cancel", "eof"},
             lock_command_watch(w, r)
      PROVE  Served(win')
  <2>1. PoppedDown({w}) \in WindowFields /\ Served(PoppedDown({w}))
    BY <1>0, PoppedTypes, PoppedServed
  <2>2. \E ok : win' = [PoppedDown({w}) EXCEPT !.ok = ok]
    BY <1>3 DEF lock_command_watch
  <2> QED BY <2>1, <2>2 DEF Served, WindowFields
<1>5. ASSUME NEW w \in Monitors,
             emit_deactivated_idle(w) \/ emit_on_freed_window(w) \/ gs_job_died(w)
      PROVE  ServedSame
  BY <1>5 DEF emit_deactivated_idle, emit_on_freed_window, gs_job_died, ServedSame
<1>6. ASSUME NEW w \in Monitors, window_obscured(w)
      PROVE  ServedSame
  BY <1>0, <1>6 DEF window_obscured, WindowFields, ServedSame
<1>7. ASSUME NEW w \in Monitors, NEW p \in Monitors, window_map_event_cb(w, p)
      PROVE  ServedSame
  BY <1>0, <1>7 DEF window_map_event_cb, WindowFields, ServedSame
<1>8. ASSUME NEW w \in Monitors, NEW p \in Monitors, window_unobscured(w, p)
      PROVE  Served(win')
  <2> DEFINE shown == [win EXCEPT !.obscured = @ \ {w}]
  <2>1. shown \in WindowFields /\ Served(shown)
    BY <1>0 DEF WindowFields, Served
  <2>2. PICK S : RequestUnlock(manager, windows, shown, Started(jobs, S), grab, p)
    BY <1>8 DEF window_unobscured
  <2> HIDE DEF shown
  <2> QED BY <2>1, <2>2, RequestUnlockServed
<1>9. ASSUME activate_lock_timeout
      PROVE  ServedSame
  BY <1>0, <1>9, LockKeepsServed DEF activate_lock_timeout
<1>10. ASSUME gs_manager_cycle \/ window_grab_broken_cb \/ unfade_idle
       PROVE  ServedSame
  BY <1>10 DEF gs_manager_cycle, window_grab_broken_cb, unfade_idle, ServedSame
<1>11. ASSUME NEW m \in Monitors, on_display_monitor_removed(m)
       PROVE  Served(win')
  <2>1. CASE windows = {}
    BY <1>s, <1>11, <2>1 DEF on_display_monitor_removed, ServedSame
  <2>2. CASE windows # {}
    <3>1. /\ PoppedDown({m}) \in WindowFields /\ Served(PoppedDown({m}))
          /\ win' = WithoutWindow(PoppedDown({m}), m)
      BY <1>0, <1>11, <2>2, PoppedTypes, PoppedServed DEF on_display_monitor_removed
    <3>2. /\ win'.dead_watch = PoppedDown({m}).dead_watch \ {m}
          /\ win'.dialog_up = PoppedDown({m}).dialog_up \ {m}
          /\ win'.popup_idle = PoppedDown({m}).popup_idle \ {m}
          /\ win'.lock_watch = PoppedDown({m}).lock_watch \ {m}
      BY <3>1 DEF WithoutWindow, WindowFields
    <3> QED BY <3>1, <3>2 DEF Served
  <2> QED BY <2>1, <2>2
<1>12. ASSUME NEW m \in Monitors, NEW p \in Monitors, on_display_monitor_added(m, p)
       PROVE  Served(win')
  <2>1. CASE windows = {}
    BY <1>s, <1>12, <2>1 DEF on_display_monitor_added, ServedSame
  <2> QED BY <1>12, <2>1, AddedServed
<1> QED
  BY <1>s, <1>1, <1>3, <1>5, <1>6, <1>7, <1>8, <1>9, <1>10, <1>11, <1>12
  DEF ManagerStep, maybe_handle_activity, DialogFails

LEMMA CallServed ==
  ASSUME DialogInv, Served(win), ManagerCall
  PROVE  Served(win')
<1>0. ManagerType
  BY DEF DialogInv, LockInv
<1>s. ASSUME ServedSame PROVE Served(win')
  BY <1>0, <1>s DEF ServedSame, Served
<1>1. ASSUME NEW m, gs_manager_activate(m)
      PROVE  Served(win')
  BY <1>1 DEF gs_manager_activate, NoWin, Served
<1>2. ASSUME NEW i, gs_manager_deactivate(i)
      PROVE  Served(win')
  BY <1>2 DEF gs_manager_deactivate, NoWin, Served
<1>3. ASSUME window_deactivated_idle
      PROVE  Served(win')
  BY <1>s, <1>2, <1>3 DEF window_deactivated_idle, ServedSame
<1>4. ASSUME gs_manager_set_lock_active
      PROVE  ServedSame
  BY <1>0, <1>4, LockKeepsServed DEF gs_manager_set_lock_active
<1>5. ASSUME NEW e, NEW t, gs_manager_set_lock_prefs(e, t)
      PROVE  ServedSame
  BY <1>0, <1>5, LockKeepsServed DEF gs_manager_set_lock_prefs, ServedSame
<1>6. ASSUME NEW t, gs_manager_set_throttled(t)
      PROVE  ServedSame
  BY <1>6 DEF gs_manager_set_throttled, ServedSame
<1>7. ASSUME FadeBegins \/ FadeCancelled \/ GrabReleased
      PROVE  ServedSame
  BY <1>7 DEF FadeBegins, FadeCancelled, GrabReleased, ServedSame
<1> QED
  BY <1>s, <1>1, <1>2, <1>3, <1>4, <1>5, <1>6, <1>7 DEF ManagerCall

\* No other step adds a monitor.
LEMMA OnlyAddedAdds ==
  ASSUME ManagerNext, ~(monitors' \subseteq monitors)
  PROVE  \E m, p \in Monitors : on_display_monitor_added(m, p)
<1>1. CASE ManagerCall
  BY <1>1
  DEF ManagerCall, gs_manager_activate, gs_manager_deactivate, window_deactivated_idle,
      gs_manager_set_lock_active, gs_manager_set_lock_prefs, gs_manager_set_throttled,
      FadeBegins, FadeCancelled, GrabReleased
<1>2. CASE ManagerStep
  BY <1>2
  DEF ManagerStep, gs_manager_request_unlock, popup_dialog_idle, lock_command_watch,
      lock_command_error, emit_deactivated_idle, emit_on_freed_window, gs_job_died,
      window_obscured, maybe_handle_activity, window_map_event_cb, window_unobscured,
      activate_lock_timeout, gs_manager_cycle, window_grab_broken_cb, unfade_idle,
      on_display_monitor_removed
<1> QED BY <1>1, <1>2 DEF ManagerNext

\* Only a failing spawn or read leaves a dialog up that nobody serves, in any
\* order of requests, answers, hotplug, locks and activations, and a monitor
\* that is plugged in while there are windows always leads out of it.
THEOREM DialogServed == ManagerSpec => DialogUpIsServed
<1>1. DialogInv /\ [ManagerNext]_managerVars
        => [/\ Served(win) => \/ Served(win')
                               \/ \E w \in Monitors :
                                    popup_dialog_idle(w) \/ lock_command_error(w)
            /\ windows # {} /\ ~(monitors' \subseteq monitors)
                 => Served(win')]_managerVars
  <2> SUFFICES ASSUME DialogInv, ManagerNext
               PROVE  /\ Served(win) => Served(win') \/ DialogFails
                      /\ windows # {} /\ ~(monitors' \subseteq monitors) => Served(win')
    BY DEF DialogFails
  <2>1. Served(win) => Served(win') \/ DialogFails
    BY StepServed, CallServed DEF ManagerNext
  <2>2. windows # {} /\ ~(monitors' \subseteq monitors) => Served(win')
    BY OnlyAddedAdds, AddedServed
  <2> QED BY <2>1, <2>2
<1> QED BY <1>1, DialogInit, DialogStep, PTL DEF ManagerSpec, DialogUpIsServed
=============================================================================
