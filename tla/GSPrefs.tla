------------------------------- MODULE GSPrefs -------------------------------
(***************************************************************************)
(* The settings (GSettings, external) and the daemon's copy of them        *)
(* (gs-prefs.c).  A write is announced to every process that listens, and  *)
(* each handles the announcements in order, in its own time: what it reads *)
(* then is the value of that time, not that of the announcement.  Delays   *)
(* are in minutes (power-management-delay: in seconds).                    *)
(***************************************************************************)
EXTENDS Integers, Sequences

CONSTANTS
  Themes,      \* the names that may be in the themes key
  DelayValues, \* the values that writers give to delays
  ThemeLists   \* the values that writers give to the themes key

ASSUME PrefsAssumption ==
  DelayValues \subseteq Int /\ ThemeLists \subseteq Seq(Themes)

VARIABLES
  store,     \* external: the value of each key
  changes,   \* the keys whose change the daemon and the dialog have not handled
  prefs      \* GSPrefs of the daemon

prefsVars == <<store, changes, prefs>>

Delays == {"idle-delay", "power-management-delay", "lock-delay", "cycle-delay",
           "logout-delay"}
Flags == {"idle-activation-enabled", "lock-enabled", "disable-lock-screen",
          "user-switch-enabled", "disable-user-switching", "logout-enabled",
          "embedded-keyboard-enabled", "status-message-enabled"}
Modes == {"blank-only", "random", "single"}
PrefKeys == Delays \cup Flags \cup {"mode", "themes"}

\* one key that GSPrefs does not keep stands for them all (picture-filename)
Keys == PrefKeys \cup {"picture-filename"}

Values(key) ==
  CASE key \in Delays -> DelayValues
    [] key \in Flags -> BOOLEAN
    [] key = "mode" -> Modes
    [] key = "themes" -> ThemeLists
    [] OTHER -> {"picture"}

\* the defaults of the schemas
Defaults ==
  [key \in Keys |->
     CASE key = "idle-delay" -> 5
       [] key = "power-management-delay" -> 30
       [] key = "lock-delay" -> 0
       [] key = "cycle-delay" -> 10
       [] key = "logout-delay" -> 120
       [] key \in {"idle-activation-enabled", "lock-enabled",
                   "user-switch-enabled", "status-message-enabled"} -> TRUE
       [] key \in Flags -> FALSE
       [] key = "mode" -> "blank-only"
       [] key = "themes" -> <<>>
       [] OTHER -> "picture"]

-----------------------------------------------------------------------------

MaxDelay == 480

\* the limit of eight hours
Limited(v) == IF v > MaxDelay THEN MaxDelay ELSE v

(***************************************************************************)
(* The _gs_prefs_set_ functions: a delay that makes no sense is replaced   *)
(* and none is above eight hours; other values are kept as they are.       *)
(***************************************************************************)
Converted(key, v) ==
  CASE key = "idle-delay" -> IF v < 1 THEN 10 ELSE Limited(v)
    [] key = "power-management-delay" -> IF v < 1 THEN 60 ELSE Limited(v)
    [] key = "lock-delay" -> IF v < 0 THEN 0 ELSE Limited(v)
    [] key = "cycle-delay" -> IF v < 1 THEN 1 ELSE Limited(v)
    [] key = "logout-delay" -> IF v < 0 THEN 0 ELSE Limited(v)
    [] OTHER -> v

\* gs_prefs_load_from_settings
Loaded(s) == [key \in PrefKeys |-> Converted(key, s[key])]

\* mutant: changes of the lockdown schema are not listened to
PrefChanged_lockdown(p, s, key) ==
  IF key \in PrefKeys \ {"disable-lock-screen", "disable-user-switching"}
  THEN [p EXCEPT ![key] = Converted(key, s[key])] ELSE p

\* key_changed_cb: the copy of the one key is read again
PrefChanged(p, s, key) ==
  IF key \in PrefKeys THEN [p EXCEPT ![key] = Converted(key, s[key])] ELSE p
=============================================================================
