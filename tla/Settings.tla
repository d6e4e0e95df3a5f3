------------------------------- MODULE Settings -------------------------------
(***************************************************************************)
(* From the preferences dialog to the timers of the manager: the settings, *)
(* the daemon's copy of them, _gs_monitor_update_from_prefs and the        *)
(* manager.  Other programs write settings too.                            *)
(***************************************************************************)
EXTENDS PreferencesDialog, ManagerTimers

CONSTANTS
  MaxWrites,   \* bound: writes by other programs
  MaxInputs,   \* bound: the user's actions in the dialog
  OtherWrites  \* the keys that other programs write

ASSUME WritersAssumption == OtherWrites \subseteq Keys

VARIABLE done  \* the numbers of these so far

settingsVars == <<store, changes, prefs, ui, manager, now, done>>

SettingsType ==
  /\ \A key \in Flags : store[key] \in BOOLEAN
  /\ store["mode"] \in Modes /\ store["themes"] \in Seq(Themes)
  /\ \A key \in Delays : prefs[key] \in 0..MaxDelay
  /\ \A key \in Flags : prefs[key] \in BOOLEAN
  /\ ui.selected \in ToSet(Rows) \cup {NoRow}
  /\ ui.preview \in ToSet(Installed) \cup {NoRow}
  /\ ui.activate_delay \in 0..120 /\ ui.lock_delay \in 0..120
  /\ manager.theme \in Themes \cup {NoTheme}
  /\ manager.lock_due \in {NoTimer} \cup 0..(MaxTime + MaxDelay)
  /\ manager.cycle_every \in 0..MaxDelay

\* _gs_monitor_update_from_prefs
Updated(m, p) ==
  LET n == [m EXCEPT
        !.lock_enabled = p["lock-enabled"] /\ ~p["disable-lock-screen"],
        !.user_switch_enabled =
           p["user-switch-enabled"] /\ ~p["disable-user-switching"],
        !.mode = p["mode"], !.themes = p["themes"]]
  IN CycleTimeoutSet(LockTimeoutSet(n, p["lock-delay"]), p["cycle-delay"])

SettingsInit ==
  /\ store \in {[Defaults EXCEPT !["mode"] = "single", !["themes"] = l,
                                 !["lock-delay"] = 1, !["cycle-delay"] = 2] :
                  l \in ThemeLists}
  /\ prefs = Loaded(store)
  /\ changes = [daemon |-> <<>>, dialog |-> <<>>]
  /\ ui = NoUi /\ now = 0
  /\ manager = Updated(NewManager, prefs)
  /\ done = [writes |-> 0, inputs |-> 0]

-----------------------------------------------------------------------------

\* the daemon: key_changed_cb of GSPrefs, its "changed", and on_prefs_changed
key_changed_cb ==
  /\ changes.daemon # <<>>
  /\ prefs' = PrefChanged(prefs, store, Head(changes.daemon))
  /\ manager' = Updated(manager, prefs')
  /\ changes' = [changes EXCEPT !.daemon = Tail(@)]
  /\ UNCHANGED <<store, ui, now, done>>

\* external: another program writes a key
other_writes(key) ==
  /\ done.writes < MaxWrites
  /\ \E v \in Values(key) \ {store[key]} :
       /\ store' = Written(store, <<<<key, v>>>>)
       /\ changes' = Announced(changes, <<<<key, v>>>>, ui.open)
  /\ done' = [done EXCEPT !.writes = @ + 1]
  /\ UNCHANGED <<prefs, ui, manager, now>>

DialogStep ==
  /\ \/ \E root \in BOOLEAN :
          /\ done.inputs < MaxInputs /\ done' = [done EXCEPT !.inputs = @ + 1]
          /\ init_capplet(root)
     \/ setup_treeview_idle /\ UNCHANGED done
     \/ dialog_key_changed_cb /\ UNCHANGED done
  /\ UNCHANGED <<manager, now>>

UserStep ==
  /\ ui.open
  /\ done.inputs < MaxInputs /\ done' = [done EXCEPT !.inputs = @ + 1]
  /\ \/ ~ui.fullscreen /\ (\/ user_toggles_lock \/ user_toggles_enabled
                           \/ \E v \in DelayValues : user_moves_scale(v))
     \/ \E row \in ToSet(Rows) : user_selects(row)
     \/ fullscreen_preview
     \/ response_cb
  /\ UNCHANGED <<prefs, manager, now>>

ManagerStep ==
  /\ \/ \E locked \in BOOLEAN : gs_manager_activate(locked)
     \/ window_show_cb \/ gs_manager_deactivate \/ activate_lock_timeout
     \/ \E busy \in BOOLEAN : cycle_timeout(busy)
  /\ UNCHANGED <<store, changes, prefs, ui, now, done>>

TimeStep == Tick /\ UNCHANGED <<store, changes, prefs, ui, manager, done>>

SettingsNext ==
  \/ key_changed_cb \/ DialogStep \/ UserStep \/ ManagerStep \/ TimeStep
  \/ \E key \in OtherWrites : other_writes(key)

\* both processes handle what is announced to them
SettingsSpec ==
  /\ SettingsInit /\ [][SettingsNext]_settingsVars
  /\ WF_settingsVars(key_changed_cb)
  /\ WF_settingsVars(dialog_key_changed_cb /\ UNCHANGED <<manager, now, done>>)

-----------------------------------------------------------------------------
(* Properties *)

(***************************************************************************)
(* When nothing is left to handle, the daemon's copy is what the settings  *)
(* say, each value converted once, and the manager has it: no order of     *)
(* writes by the dialog, by others and by the dialog in answer to others   *)
(* loses one.  Every delay keeps to its limits, and the state to its type. *)
(***************************************************************************)
DaemonFollowsSettings ==
  /\ SettingsType
  /\ changes.daemon = <<>> =>
       /\ prefs = Loaded(store)
       /\ manager.lock_enabled
            <=> store["lock-enabled"] /\ ~store["disable-lock-screen"]
       /\ manager.lock_timeout = prefs["lock-delay"]
       /\ manager.mode = store["mode"] /\ manager.themes = store["themes"]

(***************************************************************************)
(* The lock timer stands at lock-delay after the activation, also when the *)
(* delay changes while the screen is blank, or it has run out; it never    *)
(* runs when the screensaver is off, so a new activation is not locked by  *)
(* the timer of an old one.                                                *)
(***************************************************************************)
LockTimerIsExact ==
  /\ ~manager.active => manager.lock_due = NoTimer /\ ~manager.lock_active
  /\ manager.active /\ ~manager.lock_active =>
       IF manager.lock_due = NoTimer
       THEN Elapsed(manager) >= manager.lock_timeout
       ELSE manager.lock_due = manager.activate_time + manager.lock_timeout

(***************************************************************************)
(* When it has handled everything, the dialog shows the settings, as far   *)
(* as its scales reach, and its box for locking is off and cannot be set   *)
(* while an administrator has disabled locking.                            *)
(***************************************************************************)
DialogShowsSettings ==
  ui.open /\ changes.dialog = <<>> =>
    /\ ui.enabled <=> store["idle-activation-enabled"]
    /\ ui.lock <=> store["lock-enabled"]
    /\ store["disable-lock-screen"] => ~ui.lock /\ ~ui.lock_sensitive
    /\ ui.activate_delay = ActivateScale(store["idle-delay"])
    /\ ui.lock_delay = LockScale(store["lock-delay"])

(***************************************************************************)
(* The dialog and the settings do not chase each other: when nobody else   *)
(* writes, a time comes after which nothing is written any more.           *)
(***************************************************************************)
SettingsSettle == <>[](changes.daemon = <<>> /\ changes.dialog = <<>>)

\* the timer is due within one delay from now, never before one delay is over
DueInTime ==
  manager.active => /\ manager.activate_time + manager.cycle_timeout <= manager.cycle_due
                    /\ manager.cycle_due <= now + manager.cycle_timeout

\* the interval of n, which was m: the delay, or what a change left of it
IntervalKept(m, n) ==
  n.active =>
    \/ n.cycle_every = n.cycle_timeout
    \/ /\ m.active
       /\ n.cycle_timeout = m.cycle_timeout /\ n.cycle_every = m.cycle_every
    \/ /\ m.active
       /\ n.cycle_timeout # m.cycle_timeout /\ n.cycle_every <= n.cycle_timeout
       /\ n.cycle_every + Elapsed(n) >= n.cycle_timeout

(***************************************************************************)
(* While the screensaver is on, the theme changes for the first time when  *)
(* cycle-delay has passed since the activation (or since the last monitor  *)
(* was plugged in), never before, and it is never due later than one delay *)
(* from now.  After that it changes at the interval of the timer.  That is *)
(* the delay, as the schema has it ("The number of minutes to run before   *)
(* changing the screensaver theme"), until the delay is changed: then the  *)
(* code keeps what was left of the new one as the interval, shorter by no  *)
(* more than the time that has passed but possibly 0, and only a change, a *)
(* new activation or a new monitor makes another of it.                    *)
(***************************************************************************)
CyclesInTime == [][DueInTime' /\ IntervalKept(manager, manager')]_settingsVars
=============================================================================
