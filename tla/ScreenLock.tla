------------------------------ MODULE ScreenLock ------------------------------
(***************************************************************************)
(* What the screensaver promises, without windows, timers or dialogs: the  *)
(* screen is off, blank or locked; whatever it is, it is the same on every *)
(* monitor, also when monitors come and go; and a locked screen does not   *)
(* become a blank one that anybody may end.                                *)
(***************************************************************************)
CONSTANT Monitors

VARIABLES
  shown,     \* the monitors there are
  screen,    \* "off", "blank" or "locked"
  covered,   \* the monitors whose contents are hidden
  guarded    \* the ones that ask for a password

vars == <<shown, screen, covered, guarded>>

\* what a screen in state s looks like on the monitors M
Looks(s, M) ==
  /\ screen' = s
  /\ shown' = M
  /\ covered' = IF s = "off" THEN {} ELSE M
  /\ guarded' = IF s = "locked" THEN M ELSE {}

Init ==
  /\ shown \in SUBSET Monitors /\ shown # {}
  /\ screen = "off" /\ covered = {} /\ guarded = {}

Blank == screen = "off" /\ Looks("blank", shown)
Lock == screen # "locked" /\ Looks("locked", shown)
TurnOff == screen # "off" /\ Looks("off", shown)
Plug(m) == m \notin shown /\ Looks(screen, shown \cup {m})
Unplug(m) == m \in shown /\ shown # {m} /\ Looks(screen, shown \ {m})

\* every step is seen: the screen or the set of monitors changes
Next ==
  /\ screen' # screen \/ shown' # shown
  /\ \/ Blank \/ Lock \/ TurnOff
     \/ \E m \in Monitors : Plug(m) \/ Unplug(m)

Spec == Init /\ [][Next]_vars
=============================================================================
