---------------------------- MODULE ManagerTimers ----------------------------
(***************************************************************************)
(* The settings of the manager and what depends on time (gs-manager.c):    *)
(* the lock and the cycle timer, which are armed when a window is shown    *)
(* and again when their setting changes, and the theme that is chosen when *)
(* a job is set up or cycled.  Time is in minutes.                         *)
(***************************************************************************)
EXTENDS Integers, Sequences

CONSTANTS
  MaxTime,    \* bound: the time that passes
  NoTheme     \* no theme: the screen is only blanked

ASSUME TimeAssumption == MaxTime \in Nat

VARIABLES
  manager,    \* GSManagerPrivate
  now         \* the time

timersVars == <<manager, now>>

NoTimer == -1

\* gs_manager_init, before the settings are applied
NewManager ==
  [active |-> FALSE, lock_active |-> FALSE, lock_enabled |-> FALSE,
   lock_timeout |-> 0, cycle_timeout |-> 0, mode |-> "blank-only",
   themes |-> <<>>, user_switch_enabled |-> FALSE, activate_time |-> 0,
   lock_due |-> NoTimer, cycle_due |-> NoTimer, cycle_every |-> 0,
   theme |-> NoTheme]

Elapsed(m) == now - m.activate_time

-----------------------------------------------------------------------------
(* The lock timer *)

\* activate_lock_timeout: it does nothing while locking is not enabled
LockTimedOut(m) ==
  [m EXCEPT !.lock_active = @ \/ m.lock_enabled, !.lock_due = NoTimer]

\* mutant: the new time-out counts from the change
LockTimeoutSet_late(m, timeout) ==
  IF m.lock_timeout = timeout THEN m
  ELSE LET n == [m EXCEPT !.lock_timeout = timeout]
       IN IF ~m.active \/ m.lock_active THEN n
          ELSE IF Elapsed(m) >= timeout THEN LockTimedOut(n)
          ELSE [n EXCEPT !.lock_due = now + timeout]

\* gs_manager_set_lock_timeout
LockTimeoutSet(m, timeout) ==
  IF m.lock_timeout = timeout THEN m
  ELSE LET n == [m EXCEPT !.lock_timeout = timeout]
       IN IF ~m.active \/ m.lock_active THEN n
          ELSE IF Elapsed(m) >= timeout THEN LockTimedOut(n)
          ELSE [n EXCEPT !.lock_due = m.activate_time + timeout]

-----------------------------------------------------------------------------
(* The cycle timer *)

\* mutant: a running timer is left alone
CycleTimeoutSet_running(m, timeout) == [m EXCEPT !.cycle_timeout = timeout]

(***************************************************************************)
(* gs_manager_set_cycle_timeout: what is left of the time-out becomes the  *)
(* interval of the repeating timer, 0 when nothing is left.                *)
(***************************************************************************)
CycleTimeoutSet(m, timeout) ==
  IF m.cycle_timeout = timeout THEN m
  ELSE LET n == [m EXCEPT !.cycle_timeout = timeout]
           every == IF Elapsed(m) >= timeout THEN 0 ELSE timeout - Elapsed(m)
       IN IF ~m.active THEN n
          ELSE [n EXCEPT !.cycle_every = every, !.cycle_due = now + every]

\* select_theme, for a mode and a list of themes
Selectable(mode, themes) ==
  IF mode = "blank-only" \/ themes = <<>> THEN {NoTheme}
  ELSE IF mode = "random" THEN {themes[i] : i \in 1..Len(themes)}
  ELSE {themes[1]}

(***************************************************************************)
(* cycle_timeout: the jobs choose a theme again, unless the dialog is up   *)
(* or they are throttled (`busy').  The timer repeats.                     *)
(***************************************************************************)
cycle_timeout(busy) ==
  /\ manager.cycle_due # NoTimer /\ manager.cycle_due <= now
  /\ \E t \in IF busy THEN {manager.theme}
              ELSE Selectable(manager.mode, manager.themes) :
       manager' = [manager EXCEPT !.theme = t,
                                  !.cycle_due = now + manager.cycle_every]

-----------------------------------------------------------------------------
(* Activation *)

\* manager_show_window on the manager m: the timers start, once more when
\* another window is shown
Shown(m, t) ==
  LET n == [m EXCEPT !.theme = t, !.activate_time = now,
                     !.lock_due = now + m.lock_timeout]
  IN IF m.cycle_timeout < 1 THEN n
     ELSE [n EXCEPT !.cycle_every = m.cycle_timeout,
                    !.cycle_due = now + m.cycle_timeout]

\* gs_manager_activate; locked: by the Lock call, or by the lock timer later
gs_manager_activate(locked) ==
  /\ ~manager.active
  /\ \E t \in Selectable(manager.mode, manager.themes) :
       manager' = Shown([manager EXCEPT !.active = TRUE,
                                        !.lock_active = locked], t)

\* a monitor is plugged in and its window is shown
window_show_cb ==
  /\ manager.active
  /\ \E t \in Selectable(manager.mode, manager.themes) :
       manager' = Shown(manager, t)

\* gs_manager_deactivate, with remove_timers
gs_manager_deactivate ==
  /\ manager.active
  /\ manager' = [manager EXCEPT !.active = FALSE, !.lock_active = FALSE,
                                !.activate_time = 0, !.lock_due = NoTimer,
                                !.cycle_due = NoTimer, !.theme = NoTheme]

activate_lock_timeout ==
  /\ manager.lock_due # NoTimer /\ manager.lock_due <= now
  /\ manager' = LockTimedOut(manager)

\* time passes, and no timer is a minute late
Tick ==
  /\ now < MaxTime
  /\ manager.lock_due # NoTimer => manager.lock_due > now
  /\ manager.cycle_due # NoTimer /\ manager.cycle_every > 0
       => manager.cycle_due > now
  /\ now' = now + 1
=============================================================================
