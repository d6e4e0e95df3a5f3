---------------------------- MODULE SettingsProofs ----------------------------
(***************************************************************************)
(* Proofs about the settings, for any themes, any delays, any number of    *)
(* writes and of the user's actions, and any time: the daemon and the      *)
(* dialog follow what is written, the lock timer is exact and the themes   *)
(* cycle in time.                                                          *)
(***************************************************************************)
EXTENDS Settings, TLAPS

-----------------------------------------------------------------------------
(* The inductive invariant *)

\* The value v is one that key may have.
Typed(key, v) ==
  /\ key \in Delays => v \in Int
  /\ key \in Flags => v \in BOOLEAN
  /\ key = "mode" => v \in Modes
  /\ key = "themes" => v \in Seq(Themes)

TypedStore(s) ==
  s = [key \in Keys |-> s[key]] /\ \A key \in Keys : Typed(key, s[key])

TypedPrefs(p) ==
  /\ p = [key \in PrefKeys |-> p[key]]
  /\ \A key \in PrefKeys : Typed(key, p[key])
  /\ \A key \in Delays : p[key] \in 0..MaxDelay
  /\ p["cycle-delay"] # 0

\* The keys in a queue of announcements.
Queued(q) == {q[i] : i \in 1..Len(q)}

\* What is written: a key and a value for it.
AllValues == Int \cup BOOLEAN \cup Modes \cup Seq(Themes) \cup {"picture"}
Writes == {w \in Keys \X AllValues : Typed(w[1], w[2])}

\* The keys that the writes ws write.
WrittenKeys(ws) == {ws[i][1] : i \in 1..Len(ws)}

UiState ==
  [open: BOOLEAN, tree: BOOLEAN, enabled: BOOLEAN, lock: BOOLEAN,
   lock_sensitive: BOOLEAN, activate_delay: 0..120, lock_delay: 0..120,
   selected: ToSet(Rows) \cup {NoRow}, fullscreen: BOOLEAN,
   preview: ToSet(Installed) \cup {NoRow}]

TimersState ==
  [active: BOOLEAN, lock_active: BOOLEAN, lock_enabled: BOOLEAN,
   lock_timeout: 0..MaxDelay, cycle_timeout: 0..MaxDelay, mode: Modes,
   themes: Seq(Themes), user_switch_enabled: BOOLEAN, activate_time: 0..MaxTime,
   lock_due: {NoTimer} \cup 0..(MaxTime + MaxDelay),
   cycle_due: {NoTimer} \cup Nat, cycle_every: 0..MaxDelay,
   theme: Themes \cup {NoTheme}]

(***************************************************************************)
(* A key whose change the daemon has not handled is queued for it; of all  *)
(* others the daemon's copy is current.                                    *)
(***************************************************************************)
CopyFollows(s, p, Q) ==
  \A key \in PrefKeys : key \in Q \/ p[key] = Converted(key, s[key])

\* The manager has what the daemon's copy says, at any time.
ManagerFollows(m, p) ==
  /\ m.lock_enabled <=> p["lock-enabled"] /\ ~p["disable-lock-screen"]
  /\ m.lock_timeout = p["lock-delay"] /\ m.cycle_timeout = p["cycle-delay"]
  /\ m.mode = p["mode"] /\ m.themes = p["themes"]

(***************************************************************************)
(* A widget shows its key, unless a change of the key is queued; and while *)
(* the lockdown is known, the box for locking cannot be set.               *)
(***************************************************************************)
WidgetsShow(u, s, Q) ==
  /\ "idle-activation-enabled" \in Q
       \/ (u.enabled <=> s["idle-activation-enabled"])
  /\ "lock-enabled" \in Q \/ (u.lock <=> s["lock-enabled"])
  /\ \/ "disable-lock-screen" \in Q
     \/ s["disable-lock-screen"] => ~u.lock /\ ~u.lock_sensitive
  /\ "idle-delay" \in Q \/ u.activate_delay = ActivateScale(s["idle-delay"])
  /\ "lock-delay" \in Q \/ u.lock_delay = LockScale(s["lock-delay"])

\* The timers of the manager m at time t.
TimersRun(m, t) ==
  /\ m.activate_time <= t
  /\ ~m.active => m.lock_due = NoTimer /\ ~m.lock_active
  /\ m.active /\ ~m.lock_active =>
       IF m.lock_due = NoTimer THEN t - m.activate_time >= m.lock_timeout
       ELSE m.lock_due = m.activate_time + m.lock_timeout
  /\ m.active => /\ m.cycle_due # NoTimer /\ m.cycle_every <= m.cycle_timeout
                 /\ m.activate_time + m.cycle_timeout <= m.cycle_due
                 /\ m.cycle_due <= t + m.cycle_timeout

SettingsInv ==
  /\ TypedStore(store) /\ TypedPrefs(prefs) /\ ui \in UiState
  /\ manager \in TimersState /\ now \in 0..MaxTime
  /\ changes \in [daemon: Seq(Keys), dialog: Seq(Keys)]
  /\ CopyFollows(store, prefs, Queued(changes.daemon)) /\ ManagerFollows(manager, prefs)
  /\ ui.open => WidgetsShow(ui, store, Queued(changes.dialog))
  /\ TimersRun(manager, now)

-----------------------------------------------------------------------------
(* Writes and their announcements *)

(***************************************************************************)
(* What is written is typed, and keys that are not written stay.           *)
(***************************************************************************)
LEMMA WrittenTyped ==
  ASSUME NEW s, TypedStore(s), NEW ws \in Seq(Writes)
  PROVE  /\ TypedStore(Written(s, ws))
         /\ \A key \in Keys \ WrittenKeys(ws) : Written(s, ws)[key] = s[key]
<1> DEFINE t == Written(s, ws)
<1>1. t = [key \in Keys |-> t[key]]
  BY DEF Written, TypedStore
<1>2. ASSUME NEW key \in Keys
      PROVE  /\ t[key] = s[key] \/ \E i \in 1..Len(ws) : ws[i] = <<key, t[key]>>
             /\ key \notin WrittenKeys(ws) => t[key] = s[key]
  <2>1. t[key] = IF LastWrite(ws, key) = {} THEN s[key]
                 ELSE ws[CHOOSE i \in LastWrite(ws, key) : TRUE][2]
    BY DEF Written, TypedStore
  <2> HIDE DEF t
  <2>2. \A i \in LastWrite(ws, key) : i \in 1..Len(ws) /\ ws[i][1] = key
    BY DEF LastWrite
  <2>3. CASE LastWrite(ws, key) = {}
    BY <2>1, <2>3
  <2>4. CASE LastWrite(ws, key) # {}
    <3>1. PICK i \in LastWrite(ws, key) : t[key] = ws[i][2]
      BY <2>1, <2>4
    <3>2. i \in 1..Len(ws) /\ ws[i][1] = key
      BY <2>2, <3>1
    <3>3. ws[i] = <<ws[i][1], ws[i][2]>>
      BY <3>2 DEF Writes
    <3>4. ws[i] = <<key, t[key]>> /\ key \in WrittenKeys(ws)
      BY <3>1, <3>2, <3>3 DEF WrittenKeys
    <3> QED BY <3>2, <3>4
  <2> QED BY <2>3, <2>4
<1> HIDE DEF t
<1>3. ASSUME NEW key \in Keys PROVE Typed(key, t[key])
  <2>1. CASE t[key] = s[key]
    BY <2>1 DEF TypedStore
  <2>2. CASE \E i \in 1..Len(ws) : ws[i] = <<key, t[key]>>
    BY <2>2 DEF Writes
  <2> QED BY <1>2, <2>1, <2>2
<1>4. TypedStore(t)
  BY <1>1, <1>3 DEF TypedStore
<1> QED BY <1>2, <1>4 DEF t

\* No write, one write, and writes one after the other.
LEMMA NoWrite == <<>> \in Seq(Writes) /\ WrittenKeys(<<>>) = {}
<1> DEFINE ws == <<>>
<1>1. ws \in Seq(Writes) /\ Len(ws) = 0
  OBVIOUS
<1> HIDE DEF ws
<1>2. WrittenKeys(ws) = {}
  BY <1>1 DEF WrittenKeys
<1> QED BY <1>1, <1>2 DEF ws

LEMMA OneWrite ==
  ASSUME NEW w \in Writes
  PROVE  <<w>> \in Seq(Writes) /\ WrittenKeys(<<w>>) = {w[1]}
<1> DEFINE ws == <<w>>
<1>1. ws \in Seq(Writes) /\ Len(ws) = 1 /\ ws[1] = w
  OBVIOUS
<1> HIDE DEF ws
<1>2. WrittenKeys(ws) = {w[1]}
  BY <1>1 DEF WrittenKeys
<1> QED BY <1>1, <1>2 DEF ws

LEMMA MoreWrites ==
  ASSUME NEW a \in Seq(Writes), NEW b \in Seq(Writes)
  PROVE  /\ a \o b \in Seq(Writes)
         /\ WrittenKeys(a) \cup WrittenKeys(b) \subseteq WrittenKeys(a \o b)
<1> DEFINE p == a \o b
<1>1. /\ p \in Seq(Writes) /\ Len(a) \in Nat /\ Len(b) \in Nat
      /\ Len(p) = Len(a) + Len(b)
      /\ \A i \in 1..Len(a) : i \in 1..Len(p) /\ p[i] = a[i]
      /\ \A i \in 1..Len(b) : Len(a) + i \in 1..Len(p) /\ p[Len(a) + i] = b[i]
  OBVIOUS
<1> HIDE DEF p
<1>2. WrittenKeys(a) \subseteq WrittenKeys(p)
  <2>1. \A i \in 1..Len(a) : i \in 1..Len(p) /\ p[i] = a[i]
    BY <1>1
  <2> QED BY <2>1 DEF WrittenKeys
<1>3. WrittenKeys(b) \subseteq WrittenKeys(p)
  <2> SUFFICES ASSUME NEW i \in 1..Len(b) PROVE b[i][1] \in WrittenKeys(p)
    BY DEF WrittenKeys
  <2>1. Len(a) + i \in 1..Len(p) /\ p[Len(a) + i] = b[i]
    BY <1>1
  <2> QED BY <2>1 DEF WrittenKeys
<1> QED BY <1>1, <1>2, <1>3 DEF p

\* The keys in a queue that gets longer.
LEMMA QueuedJoin ==
  ASSUME NEW a \in Seq(Keys), NEW b \in Seq(Keys)
  PROVE  /\ a \o b \in Seq(Keys) /\ Queued(a) \subseteq Queued(a \o b)
         /\ \A i \in 1..Len(b) : b[i] \in Queued(a \o b)
<1> DEFINE p == a \o b
<1>1. /\ p \in Seq(Keys) /\ Len(a) \in Nat /\ Len(b) \in Nat /\ Len(p) = Len(a) + Len(b)
      /\ \A i \in 1..Len(a) : p[i] = a[i]
      /\ \A i \in 1..Len(b) : p[Len(a) + i] = b[i]
  OBVIOUS
<1> HIDE DEF p
<1>2. Queued(a) \subseteq Queued(p)
  <2>1. \A i \in 1..Len(a) : i \in 1..Len(p) /\ p[i] = a[i]
    BY <1>1
  <2> QED BY <2>1 DEF Queued
<1>3. ASSUME NEW i \in 1..Len(b) PROVE b[i] \in Queued(p)
  <2>1. Len(a) + i \in 1..Len(p) /\ p[Len(a) + i] = b[i]
    BY <1>1
  <2> QED BY <2>1 DEF Queued
<1> QED BY <1>1, <1>2, <1>3 DEF p

\* Who listens gets the keys that are written, after those it had.
LEMMA AnnouncedTo ==
  ASSUME NEW c \in [daemon: Seq(Keys), dialog: Seq(Keys)], NEW ws \in Seq(Writes),
         NEW open \in BOOLEAN
  PROVE  /\ Announced(c, ws, open) \in [daemon: Seq(Keys), dialog: Seq(Keys)]
         /\ Queued(c.daemon) \cup WrittenKeys(ws)
              \subseteq Queued(Announced(c, ws, open).daemon)
         /\ open => Queued(c.dialog) \cup WrittenKeys(ws)
                      \subseteq Queued(Announced(c, ws, open).dialog)
<1> DEFINE keys == [i \in 1..Len(ws) |-> ws[i][1]]
           d == c.daemon \o keys
           g == c.dialog \o keys
           none == <<>>
<1>1. Len(ws) \in Nat /\ \A i \in 1..Len(ws) : ws[i] \in Writes
  OBVIOUS
<1>2. \A i \in 1..Len(ws) : ws[i][1] \in Keys
  BY <1>1 DEF Writes
<1>3. keys \in Seq(Keys) /\ Len(keys) = Len(ws)
      /\ \A i \in 1..Len(ws) : keys[i] = ws[i][1]
  BY <1>1, <1>2
<1>4. c.daemon \in Seq(Keys) /\ c.dialog \in Seq(Keys)
  OBVIOUS
<1>5. Announced(c, ws, open) = [daemon |-> d, dialog |-> IF open THEN g ELSE none]
  BY DEF Announced
<1> HIDE DEF keys
<1>6. ASSUME NEW q \in Seq(Keys)
      PROVE  /\ q \o keys \in Seq(Keys)
             /\ Queued(q) \cup WrittenKeys(ws) \subseteq Queued(q \o keys)
  <2>1. /\ q \o keys \in Seq(Keys) /\ Queued(q) \subseteq Queued(q \o keys)
        /\ \A i \in 1..Len(keys) : keys[i] \in Queued(q \o keys)
    BY <1>3, QueuedJoin
  <2>2. WrittenKeys(ws) \subseteq Queued(q \o keys)
    BY <1>3, <2>1 DEF WrittenKeys
  <2> QED BY <2>1, <2>2
<1>7. none \in Seq(Keys)
  OBVIOUS
<1>8. /\ d \in Seq(Keys) /\ Queued(c.daemon) \cup WrittenKeys(ws) \subseteq Queued(d)
      /\ g \in Seq(Keys) /\ Queued(c.dialog) \cup WrittenKeys(ws) \subseteq Queued(g)
  BY <1>4, <1>6
<1> HIDE DEF d, g, none
<1> QED BY <1>5, <1>7, <1>8

\* The key that is handled leaves the queue.
LEMMA TailQueued ==
  ASSUME NEW q \in Seq(Keys), q # <<>>
  PROVE  /\ Tail(q) \in Seq(Keys) /\ Head(q) \in Keys
         /\ Queued(q) \subseteq {Head(q)} \cup Queued(Tail(q))
<1>1. /\ Tail(q) \in Seq(Keys) /\ Head(q) \in Keys /\ Head(q) = q[1] /\ Len(q) \in Nat
      /\ Len(Tail(q)) = Len(q) - 1 /\ \A i \in 1..(Len(q) - 1) : Tail(q)[i] = q[i + 1]
  OBVIOUS
<1>2. ASSUME NEW i \in 1..Len(q), i # 1
      PROVE  \E j \in 1..Len(Tail(q)) : Tail(q)[j] = q[i]
  <2>1. i - 1 \in 1..Len(Tail(q)) /\ (i - 1) + 1 = i
    BY <1>1, <1>2
  <2> QED BY <1>1, <2>1
<1> QED BY <1>1, <1>2 DEF Queued

(***************************************************************************)
(* Writes leave the daemon's copy of a key current or the key queued, and  *)
(* the widget of a key as it is shown or the key queued.                   *)
(***************************************************************************)
LEMMA WritesQueued ==
  ASSUME NEW s, TypedStore(s), NEW ws \in Seq(Writes), NEW P, NEW Q,
         P \cup WrittenKeys(ws) \subseteq Q
  PROVE  /\ \A p : CopyFollows(s, p, P) => CopyFollows(Written(s, ws), p, Q)
         /\ \A u : WidgetsShow(u, s, P \cup WrittenKeys(ws))
                     => WidgetsShow(u, Written(s, ws), Q)
<1> DEFINE t == Written(s, ws)
<1>1. \A key \in Keys \ Q : t[key] = s[key]
  BY WrittenTyped
<1> HIDE DEF t
<1>2. ASSUME NEW p, CopyFollows(s, p, P) PROVE CopyFollows(t, p, Q)
  BY <1>1, <1>2 DEF CopyFollows, Keys
<1>3. ASSUME NEW u, WidgetsShow(u, s, P \cup WrittenKeys(ws))
      PROVE  WidgetsShow(u, t, Q)
  <2>1. /\ "idle-activation-enabled" \in Keys /\ "lock-enabled" \in Keys
        /\ "disable-lock-screen" \in Keys /\ "idle-delay" \in Keys
        /\ "lock-delay" \in Keys
    BY DEF Keys, PrefKeys, Delays, Flags
  <2> QED BY <1>1, <1>3, <2>1 DEF WidgetsShow
<1> QED BY <1>2, <1>3 DEF t

-----------------------------------------------------------------------------
(* The handlers of the widgets *)

(***************************************************************************)
(* A handler that leaves the widgets and the writes r: each widget shows   *)
(* its key, or the key is written, or it is in Q.                          *)
(***************************************************************************)
Leaves(r, Q) ==
  /\ r.ui \in UiState /\ r.writes \in Seq(Writes)
  /\ r.ui.open => WidgetsShow(r.ui, store, Q \cup WrittenKeys(r.writes))

\* One handler after another.
LEMMA ThenLeaves ==
  ASSUME NEW Q, NEW r, r.writes \in Seq(Writes), NEW n,
         Leaves(n, Q \cup WrittenKeys(r.writes)),
         NEW x, x = Result(n.ui, r.writes \o n.writes)
  PROVE  Leaves(x, Q)
<1> DEFINE a == r.writes
           b == n.writes
           ws == a \o b
<1>1. x.ui = n.ui /\ x.writes = ws
  BY DEF Result
<1>2. a \in Seq(Writes) /\ b \in Seq(Writes)
  BY DEF Leaves
<1> HIDE DEF a, b
<1>3. ws \in Seq(Writes) /\ WrittenKeys(a) \cup WrittenKeys(b) \subseteq WrittenKeys(ws)
  BY <1>2, MoreWrites
<1> HIDE DEF ws
<1>4. n.ui \in UiState
      /\ (n.ui.open => WidgetsShow(n.ui, store, (Q \cup WrittenKeys(a)) \cup WrittenKeys(b)))
  BY DEF Leaves, a, b
<1>5. n.ui.open => WidgetsShow(n.ui, store, Q \cup WrittenKeys(ws))
  BY <1>3, <1>4 DEF WidgetsShow
<1> QED BY <1>1, <1>3, <1>4, <1>5 DEF Leaves

\* Nothing is written and the widgets stay.
LEMMA QuietLeaves ==
  ASSUME NEW Q, NEW u \in UiState, u.open => WidgetsShow(u, store, Q)
  PROVE  Leaves(Result(u, <<>>), Q)
<1> DEFINE ws == <<>>
<1>1. ws \in Seq(Writes) /\ WrittenKeys(ws) = {}
  BY NoWrite
<1> HIDE DEF ws
<1>2. Q \cup {} = Q
  OBVIOUS
<1>3. Leaves(Result(u, ws), Q)
  BY <1>1, <1>2 DEF Leaves, Result
<1> QED BY <1>3 DEF ws

\* What is written for a flag and for a delay.
LEMMA WriteOf ==
  /\ \A key \in Flags, b \in BOOLEAN : <<key, b>> \in Writes
  /\ \A key \in Delays, v \in Int : <<key, v>> \in Writes
<1>1. ASSUME NEW key \in Flags, NEW b \in BOOLEAN PROVE <<key, b>> \in Writes
  BY DEF Writes, Keys, PrefKeys, AllValues, Typed, Delays, Flags
<1>2. ASSUME NEW key \in Delays, NEW v \in Int PROVE <<key, v>> \in Writes
  BY DEF Writes, Keys, PrefKeys, AllValues, Typed, Delays, Flags
<1> QED BY <1>1, <1>2

\* The writes of a widget that writes its key when it changes.
LEMMA WidgetWrites ==
  ASSUME NEW w \in Writes, NEW same \in BOOLEAN,
         NEW ws, ws = IF same THEN <<>> ELSE <<w>>
  PROVE  ws \in Seq(Writes) /\ (same \/ w[1] \in WrittenKeys(ws))
BY NoWrite, OneWrite

\* The box for locking: what it shows is written, if it was not shown.
LEMMA LockBox ==
  ASSUME NEW u \in UiState, NEW b \in BOOLEAN, NEW r, r = lock_checkbox_set(u, b)
  PROVE  /\ r.ui = [u EXCEPT !.lock = b] /\ r.ui \in UiState
         /\ r.writes \in Seq(Writes)
         /\ (b <=> u.lock) \/ "lock-enabled" \in WrittenKeys(r.writes)
<1> DEFINE w == <<"lock-enabled", b>>
           same == b = u.lock
<1>1. r.ui = [u EXCEPT !.lock = b] /\ r.writes = IF same THEN <<>> ELSE <<w>>
  BY DEF lock_checkbox_set, Result
<1>2. w \in Writes /\ w[1] = "lock-enabled"
  BY WriteOf DEF Flags
<1>3. same \in BOOLEAN /\ (same <=> (b <=> u.lock))
  BY DEF UiState
<1>4. [u EXCEPT !.lock = b] \in UiState
  BY DEF UiState
<1> HIDE DEF same, w
<1>5. r.writes \in Seq(Writes) /\ (same \/ w[1] \in WrittenKeys(r.writes))
  BY <1>1, <1>2, <1>3, WidgetWrites
<1> QED BY <1>1, <1>2, <1>3, <1>4, <1>5

\* The same of the box for the screensaver.
LEMMA EnabledBox ==
  ASSUME NEW u \in UiState, NEW b \in BOOLEAN, NEW r, r = enabled_checkbox_set(u, b)
  PROVE  /\ r.ui = [u EXCEPT !.enabled = b] /\ r.ui \in UiState
         /\ r.writes \in Seq(Writes)
         /\ (b <=> u.enabled) \/ "idle-activation-enabled" \in WrittenKeys(r.writes)
<1> DEFINE w == <<"idle-activation-enabled", b>>
           same == b = u.enabled
<1>1. r.ui = [u EXCEPT !.enabled = b] /\ r.writes = IF same THEN <<>> ELSE <<w>>
  BY DEF enabled_checkbox_set, Result
<1>2. w \in Writes /\ w[1] = "idle-activation-enabled"
  BY WriteOf DEF Flags
<1>3. same \in BOOLEAN /\ (same <=> (b <=> u.enabled))
  BY DEF UiState
<1>4. [u EXCEPT !.enabled = b] \in UiState
  BY DEF UiState
<1> HIDE DEF same, w
<1>5. r.writes \in Seq(Writes) /\ (same \/ w[1] \in WrittenKeys(r.writes))
  BY <1>1, <1>2, <1>3, WidgetWrites
<1> QED BY <1>1, <1>2, <1>3, <1>4, <1>5

\* The lockdown clears the box and blocks it.
LEMMA DisableLock ==
  ASSUME NEW u \in UiState, NEW Q, NEW d \in BOOLEAN, d <=> store["disable-lock-screen"],
         u.open => WidgetsShow(u, store, Q \cup {"disable-lock-screen"}),
         NEW r, r = ui_disable_lock(u, d)
  PROVE  Leaves(r, Q)
<1> DEFINE on == ~d
           n == [u EXCEPT !.lock_sensitive = on]
           off == FALSE
<1>1. on \in BOOLEAN /\ (on <=> ~d)
  OBVIOUS
<1>2. r = IF d THEN lock_checkbox_set(n, off) ELSE Result(n, <<>>)
  BY DEF ui_disable_lock
<1> HIDE DEF on
<1>3. n \in UiState /\ (n.lock_sensitive <=> ~d)
  BY <1>1 DEF UiState
<1>4. n.open => WidgetsShow(n, store, Q \cup {"disable-lock-screen"})
  BY DEF UiState, WidgetsShow
<1>5. off \in BOOLEAN /\ ~off
  OBVIOUS
<1> HIDE DEF n, off
<1>6. CASE d
  <2>1. /\ r.ui = [n EXCEPT !.lock = off] /\ r.ui \in UiState
        /\ r.writes \in Seq(Writes)
        /\ (off <=> n.lock) \/ "lock-enabled" \in WrittenKeys(r.writes)
    BY <1>2, <1>3, <1>5, <1>6, LockBox
  <2>2. r.ui.open => WidgetsShow(r.ui, store, Q \cup WrittenKeys(r.writes))
    <3> DEFINE v == r.ui
               W == WrittenKeys(r.writes)
    <3>1. /\ (v.open <=> n.open) /\ (v.enabled <=> n.enabled) /\ (v.lock <=> off)
          /\ (v.lock_sensitive <=> n.lock_sensitive)
          /\ v.activate_delay = n.activate_delay /\ v.lock_delay = n.lock_delay
      BY <1>3, <2>1 DEF UiState
    <3>2. (off <=> n.lock) \/ "lock-enabled" \in W
      BY <2>1
    <3> HIDE DEF v, W
    <3>3. v.open => WidgetsShow(v, store, Q \cup W)
      BY <1>3, <1>4, <1>5, <1>6, <3>1, <3>2 DEF WidgetsShow
    <3> QED BY <3>3 DEF v, W
  <2> QED BY <2>1, <2>2 DEF Leaves
<1>7. CASE ~d
  <2>1. r = Result(n, <<>>)
    BY <1>2, <1>7
  <2>2. n.open => WidgetsShow(n, store, Q)
    BY <1>4, <1>7 DEF WidgetsShow
  <2> QED BY <1>3, <2>1, <2>2, QuietLeaves
<1> QED BY <1>6, <1>7

\* ui_set_lock, when the box is to show the setting.
LEMMA SetLock ==
  ASSUME NEW u \in UiState, NEW Q, NEW b \in BOOLEAN, b <=> store["lock-enabled"],
         store["disable-lock-screen"] \in BOOLEAN,
         u.open => WidgetsShow(u, store, Q \cup {"lock-enabled"})
  PROVE  Leaves(ui_set_lock(u, b), Q)
<1> DEFINE d == store["disable-lock-screen"]
           r == lock_checkbox_set(u, b)
           n == ui_disable_lock(r.ui, d)
           W == WrittenKeys(r.writes)
<1>1. ui_set_lock(u, b) = Result(n.ui, r.writes \o n.writes)
  BY DEF ui_set_lock, Then
<1>2. /\ r.ui = [u EXCEPT !.lock = b] /\ r.ui \in UiState /\ r.writes \in Seq(Writes)
      /\ (b <=> u.lock) \/ "lock-enabled" \in W
  BY LockBox
<1>3. d \in BOOLEAN
  OBVIOUS
<1>4. r.ui.open => WidgetsShow(r.ui, store, (Q \cup W) \cup {"disable-lock-screen"})
  <2> DEFINE v == [u EXCEPT !.lock = b]
  <2>1. /\ (v.open <=> u.open) /\ (v.enabled <=> u.enabled) /\ (v.lock <=> b)
        /\ v.activate_delay = u.activate_delay /\ v.lock_delay = u.lock_delay
    BY DEF UiState
  <2> HIDE DEF v, W
  <2>2. v.open => WidgetsShow(v, store, (Q \cup W) \cup {"disable-lock-screen"})
    BY <1>2, <2>1 DEF WidgetsShow
  <2> QED BY <1>2, <2>2 DEF v
<1> HIDE DEF d, r, W
<1>5. Leaves(n, Q \cup W)
  <2>1. d <=> store["disable-lock-screen"]
    BY DEF d
  <2> QED BY <1>2, <1>3, <1>4, <2>1, DisableLock
<1> HIDE DEF n
<1> QED BY <1>1, <1>2, <1>5, ThenLeaves DEF W

\* ui_set_enabled, when the box is to show the setting.
LEMMA SetEnabled ==
  ASSUME NEW u \in UiState, NEW Q, NEW b \in BOOLEAN,
         b <=> store["idle-activation-enabled"],
         store["disable-lock-screen"] \in BOOLEAN,
         u.open => WidgetsShow(u, store, Q \cup {"idle-activation-enabled",
                                                 "disable-lock-screen"})
  PROVE  Leaves(ui_set_enabled(u, b), Q)
<1> DEFINE d == store["disable-lock-screen"]
           r == enabled_checkbox_set(u, b)
           n == ui_disable_lock(r.ui, d)
           W == WrittenKeys(r.writes)
<1>1. ui_set_enabled(u, b) = Result(n.ui, r.writes \o n.writes)
  BY DEF ui_set_enabled, Then
<1>2. /\ r.ui = [u EXCEPT !.enabled = b] /\ r.ui \in UiState
      /\ r.writes \in Seq(Writes)
      /\ (b <=> u.enabled) \/ "idle-activation-enabled" \in W
  BY EnabledBox
<1>3. d \in BOOLEAN
  OBVIOUS
<1>4. r.ui.open => WidgetsShow(r.ui, store, (Q \cup W) \cup {"disable-lock-screen"})
  <2> DEFINE v == [u EXCEPT !.enabled = b]
  <2>1. /\ (v.open <=> u.open) /\ (v.enabled <=> b) /\ (v.lock <=> u.lock)
        /\ v.activate_delay = u.activate_delay /\ v.lock_delay = u.lock_delay
    BY DEF UiState
  <2> HIDE DEF v, W
  <2>2. v.open => WidgetsShow(v, store, (Q \cup W) \cup {"disable-lock-screen"})
    BY <1>2, <2>1 DEF WidgetsShow
  <2> QED BY <1>2, <2>2 DEF v
<1> HIDE DEF d, r, W
<1>5. Leaves(n, Q \cup W)
  <2>1. d <=> store["disable-lock-screen"]
    BY DEF d
  <2> QED BY <1>2, <1>3, <1>4, <2>1, DisableLock
<1> HIDE DEF n
<1> QED BY <1>1, <1>2, <1>5, ThenLeaves DEF W


(***************************************************************************)
(* A scale writes the value that it takes, if it is a new one; it is moved *)
(* by the user, or because the setting v has changed.                      *)
(***************************************************************************)
LEMMA SetActivateDelay ==
  ASSUME NEW u \in UiState, NEW Q, NEW v \in Int,
         \/ u.open => WidgetsShow(u, store, Q)
         \/ /\ u.open => WidgetsShow(u, store, Q \cup {"idle-delay"})
            /\ v = store["idle-delay"]
  PROVE  Leaves(activate_delay_set(u, v), Q)
<1> DEFINE n == ActivateScale(v)
           w == <<"idle-delay", n>>
           same == n = u.activate_delay
           x == [u EXCEPT !.activate_delay = n]
           r == activate_delay_set(u, v)
           W == WrittenKeys(r.writes)
<1>1. r.ui = x /\ r.writes = IF same THEN <<>> ELSE <<w>>
  BY DEF activate_delay_set, Result
<1>2. n \in 0..120 /\ n = ActivateScale(v)
  BY DEF ActivateScale
<1> HIDE DEF n
<1>3. /\ x \in UiState /\ (x.open <=> u.open) /\ (x.enabled <=> u.enabled)
      /\ (x.lock <=> u.lock) /\ (x.lock_sensitive <=> u.lock_sensitive)
      /\ x.activate_delay = n /\ x.lock_delay = u.lock_delay
  BY <1>2 DEF UiState
<1>4. w \in Writes /\ w[1] = "idle-delay" /\ same \in BOOLEAN
  BY <1>2, WriteOf DEF Delays
<1>5. same <=> n = u.activate_delay
  OBVIOUS
<1> HIDE DEF r, x, w, same
<1>6. r.writes \in Seq(Writes) /\ (same \/ w[1] \in W)
  BY <1>1, <1>4, WidgetWrites
<1> HIDE DEF W
<1>7. x.open => WidgetsShow(x, store, Q \cup W)
  BY <1>2, <1>3, <1>4, <1>5, <1>6 DEF WidgetsShow
<1>8. Leaves(r, Q)
  BY <1>1, <1>3, <1>6, <1>7 DEF Leaves, W
<1> QED BY <1>8 DEF r

LEMMA SetLockDelay ==
  ASSUME NEW u \in UiState, NEW Q, NEW v \in Int,
         \/ u.open => WidgetsShow(u, store, Q)
         \/ /\ u.open => WidgetsShow(u, store, Q \cup {"lock-delay"})
            /\ v = store["lock-delay"]
  PROVE  Leaves(lock_delay_set(u, v), Q)
<1> DEFINE n == LockScale(v)
           w == <<"lock-delay", n>>
           same == n = u.lock_delay
           x == [u EXCEPT !.lock_delay = n]
           r == lock_delay_set(u, v)
           W == WrittenKeys(r.writes)
<1>1. r.ui = x /\ r.writes = IF same THEN <<>> ELSE <<w>>
  BY DEF lock_delay_set, Result
<1>2. n \in 0..120 /\ n = LockScale(v)
  BY DEF LockScale
<1> HIDE DEF n
<1>3. /\ x \in UiState /\ (x.open <=> u.open) /\ (x.enabled <=> u.enabled)
      /\ (x.lock <=> u.lock) /\ (x.lock_sensitive <=> u.lock_sensitive)
      /\ x.lock_delay = n /\ x.activate_delay = u.activate_delay
  BY <1>2 DEF UiState
<1>4. w \in Writes /\ w[1] = "lock-delay" /\ same \in BOOLEAN
  BY <1>2, WriteOf DEF Delays
<1>5. same <=> n = u.lock_delay
  OBVIOUS
<1> HIDE DEF r, x, w, same
<1>6. r.writes \in Seq(Writes) /\ (same \/ w[1] \in W)
  BY <1>1, <1>4, WidgetWrites
<1> HIDE DEF W
<1>7. x.open => WidgetsShow(x, store, Q \cup W)
  BY <1>2, <1>3, <1>4, <1>5, <1>6 DEF WidgetsShow
<1>8. Leaves(r, Q)
  BY <1>1, <1>3, <1>6, <1>7 DEF Leaves, W
<1> QED BY <1>8 DEF r

\* The rows of the list.
LEMMA RowsAre ==
  /\ BlankRow \in ToSet(Rows) /\ RandomRow \in ToSet(Rows)
  /\ ToSet(Installed) \subseteq ToSet(Rows) /\ ToSet(Installed) \subseteq Themes
  /\ ToSet(Rows) \subseteq {BlankRow, RandomRow} \cup ToSet(Installed)
<1> DEFINE a == <<BlankRow, RandomRow>>
           b == Installed
           p == a \o b
           All == {BlankRow, RandomRow} \cup Themes
<1>1. a \in Seq(All) /\ Len(a) = 2 /\ a[1] = BlankRow /\ a[2] = RandomRow
  OBVIOUS
<1>2. b \in Seq(Themes) /\ Len(b) \in Nat
  BY InstalledAssumption
<1>3. a \in Seq(All) /\ b \in Seq(All)
  BY <1>1, <1>2
<1> HIDE DEF a, b, All
<1>4. /\ p \in Seq(All) /\ Len(p) = 2 + Len(b) /\ p[1] = a[1] /\ p[2] = a[2]
      /\ \A i \in 1..Len(b) : 2 + i \in 1..Len(p) /\ p[2 + i] = b[i]
  <2>1. /\ p \in Seq(All) /\ Len(p) = Len(a) + Len(b)
        /\ \A i \in 1..Len(a) : p[i] = a[i]
        /\ \A i \in 1..Len(b) : p[Len(a) + i] = b[i]
    BY <1>3
  <2> HIDE DEF p
  <2>2. 1 \in 1..Len(a) /\ 2 \in 1..Len(a)
    BY <1>1
  <2> QED BY <1>1, <1>2, <2>1, <2>2
<1>5. \A i \in 1..Len(p) : i = 1 \/ i = 2 \/ (i - 2 \in 1..Len(b) /\ p[i] = b[i - 2])
  BY <1>2, <1>4
<1>6. Rows = p
  BY DEF Rows, a, b
<1> HIDE DEF p
<1>7. DOMAIN p = 1..Len(p) /\ DOMAIN b = 1..Len(b)
  BY <1>2, <1>4
<1>8. /\ BlankRow \in ToSet(p) /\ RandomRow \in ToSet(p)
      /\ ToSet(b) \subseteq ToSet(p) /\ ToSet(b) \subseteq Themes
      /\ ToSet(p) \subseteq {BlankRow, RandomRow} \cup ToSet(b)
  <2>1. BlankRow \in ToSet(p) /\ RandomRow \in ToSet(p)
    BY <1>1, <1>2, <1>4, <1>7 DEF ToSet
  <2>2. ToSet(b) \subseteq ToSet(p)
    BY <1>4, <1>7 DEF ToSet
  <2>3. ToSet(b) \subseteq Themes
    BY <1>2, <1>7 DEF ToSet
  <2>4. ToSet(p) \subseteq {BlankRow, RandomRow} \cup ToSet(b)
    <3> SUFFICES ASSUME NEW x \in ToSet(p) PROVE x \in {BlankRow, RandomRow} \cup ToSet(b)
      OBVIOUS
    <3>1. PICK i \in 1..Len(p) : x = p[i]
      BY <1>7 DEF ToSet
    <3>2. CASE i = 1 \/ i = 2
      BY <1>1, <1>4, <3>1, <3>2
    <3>3. CASE i - 2 \in 1..Len(b) /\ p[i] = b[i - 2]
      BY <1>7, <3>1, <3>3 DEF ToSet
    <3> QED BY <1>5, <3>2, <3>3
  <2> QED BY <2>1, <2>2, <2>3, <2>4
<1> QED BY <1>6, <1>8 DEF b

\* What is written for a row: a mode, and a list of themes.
LEMMA ThemeWrites ==
  ASSUME NEW row \in ToSet(Rows)
  PROVE  config_set_theme(row) \in Seq(Writes)
<1>1. \A m \in Modes : <<"mode", m>> \in Writes
  BY DEF Writes, Keys, PrefKeys, AllValues, Typed, Delays, Flags
<1>2. \A l \in Seq(Themes) : <<"themes", l>> \in Writes
  BY DEF Writes, Keys, PrefKeys, AllValues, Typed, Delays, Flags
<1>3. \A v, w \in Writes : <<v, w>> \in Seq(Writes)
  OBVIOUS
<1>4. \A m \in Modes, l \in Seq(Themes) : <<<<"mode", m>>, <<"themes", l>>>> \in Seq(Writes)
  BY <1>1, <1>2, <1>3
<1>5. CASE row = BlankRow
  <2> DEFINE l == <<>>
             m == "blank-only"
  <2>1. l \in Seq(Themes) /\ m \in Modes
    BY DEF Modes
  <2>2. config_set_theme(row) = <<<<"mode", m>>, <<"themes", l>>>>
    BY <1>5, RowsAssumption DEF config_set_theme
  <2> HIDE DEF l, m
  <2> QED BY <1>4, <2>1, <2>2
<1>6. CASE row # BlankRow /\ row = RandomRow
  <2> DEFINE m == "random"
  <2>1. Installed \in Seq(Themes) /\ m \in Modes
    BY InstalledAssumption DEF Modes
  <2>2. config_set_theme(row) = <<<<"mode", m>>, <<"themes", Installed>>>>
    BY <1>6 DEF config_set_theme
  <2> HIDE DEF m
  <2> QED BY <1>4, <2>1, <2>2
<1>7. CASE row # BlankRow /\ row # RandomRow
  <2> DEFINE l == <<row>>
             m == "single"
  <2>1. row \in Themes
    BY <1>7, RowsAre
  <2>2. l \in Seq(Themes) /\ m \in Modes
    BY <2>1 DEF Modes
  <2>3. config_set_theme(row) = <<<<"mode", m>>, <<"themes", l>>>>
    BY <1>7 DEF config_set_theme
  <2> HIDE DEF l, m
  <2> QED BY <1>4, <2>2, <2>3
<1> QED BY <1>5, <1>6, <1>7

\* Another row is selected: only the list and the preview change.
LEMMA SelectionLeaves ==
  ASSUME NEW u \in UiState, NEW Q, u.open => WidgetsShow(u, store, Q),
         NEW row \in ToSet(Rows), NEW r \in tree_selection_changed(u, row)
  PROVE  Leaves(r, Q)
<1> DEFINE P == CASE row = BlankRow -> {NoRow}
                  [] row = RandomRow -> IF Installed = <<>> THEN {NoRow}
                                        ELSE ToSet(Installed)
                  [] OTHER -> {row}
           ws == config_set_theme(row)
<1>1. PICK p \in P : r = Result([u EXCEPT !.selected = row, !.preview = p], ws)
  BY DEF tree_selection_changed
<1>2. p \in ToSet(Installed) \cup {NoRow}
  <2>1. row = BlankRow \/ row = RandomRow \/ row \in ToSet(Installed)
    BY RowsAre
  <2> QED BY <1>1, <2>1
<1>3. ws \in Seq(Writes)
  BY ThemeWrites
<1> HIDE DEF P, ws
<1> DEFINE x == [u EXCEPT !.selected = row, !.preview = p]
<1>4. /\ x \in UiState /\ (x.open <=> u.open) /\ (x.enabled <=> u.enabled)
      /\ (x.lock <=> u.lock) /\ (x.lock_sensitive <=> u.lock_sensitive)
      /\ x.lock_delay = u.lock_delay /\ x.activate_delay = u.activate_delay
  <2> DEFINE y == [u EXCEPT !.selected = row]
  <2>1. /\ y \in UiState /\ (y.open <=> u.open) /\ (y.enabled <=> u.enabled)
        /\ (y.lock <=> u.lock) /\ (y.lock_sensitive <=> u.lock_sensitive)
        /\ y.lock_delay = u.lock_delay /\ y.activate_delay = u.activate_delay
    BY DEF UiState
  <2>2. x = [y EXCEPT !.preview = p]
    BY DEF UiState
  <2> HIDE DEF x, y
  <2> QED BY <1>2, <2>1, <2>2 DEF UiState
<1>5. r.ui = x /\ r.writes = ws
  BY <1>1 DEF Result
<1> HIDE DEF x
<1>6. x.open => WidgetsShow(x, store, Q \cup WrittenKeys(ws))
  BY <1>4 DEF WidgetsShow
<1> QED BY <1>3, <1>4, <1>5, <1>6 DEF Leaves

LEMMA TreeviewLeaves ==
  ASSUME NEW u \in UiState, NEW Q, u.open => WidgetsShow(u, store, Q),
         NEW r \in setup_treeview_selection(u)
  PROVE  Leaves(r, Q)
<1>1. CASE u.tree /\ config_get_theme \in ToSet(Rows) \ {u.selected}
  <2> DEFINE row == config_get_theme
  <2>1. row \in ToSet(Rows) /\ r \in tree_selection_changed(u, row)
    BY <1>1 DEF setup_treeview_selection
  <2> HIDE DEF row
  <2> QED BY <2>1, SelectionLeaves
<1>2. CASE ~(u.tree /\ config_get_theme \in ToSet(Rows) \ {u.selected})
  <2>1. r = Result(u, <<>>)
    BY <1>2 DEF setup_treeview_selection
  <2> QED BY <2>1, QuietLeaves
<1> QED BY <1>1, <1>2

-----------------------------------------------------------------------------
(* The steps of the dialog, of the user and of other programs *)

\* The values of the keys that the dialog shows.
LEMMA StoreValues ==
  ASSUME TypedStore(store)
  PROVE  /\ store["idle-activation-enabled"] \in BOOLEAN
         /\ store["lock-enabled"] \in BOOLEAN /\ store["disable-lock-screen"] \in BOOLEAN
         /\ store["idle-delay"] \in Int /\ store["lock-delay"] \in Int
BY DEF TypedStore, Typed, Keys, PrefKeys, Delays, Flags

\* What a handler leaves is announced, and keeps the invariant.
LEMMA HandledKeeps ==
  ASSUME SettingsInv, NEW r, NEW c \in [daemon: Seq(Keys), dialog: Seq(Keys)],
         c.daemon = changes.daemon, Leaves(r, Queued(c.dialog)), Handled(r, c),
         UNCHANGED <<prefs, manager, now>>
  PROVE  SettingsInv'
<1> DEFINE ws == r.writes
           open == r.ui.open
           Q == Queued(changes'.dialog)
<1>1. ws \in Seq(Writes) /\ open \in BOOLEAN /\ r.ui \in UiState
  BY DEF Leaves, UiState
<1>2. TypedStore(store) /\ CopyFollows(store, prefs, Queued(c.daemon))
  BY DEF SettingsInv
<1>3. ui' = r.ui /\ store' = Written(store, ws) /\ changes' = Announced(c, ws, open)
  BY DEF Handled
<1>4. open => WidgetsShow(r.ui, store, Queued(c.dialog) \cup WrittenKeys(ws))
  BY DEF Leaves
<1> HIDE DEF ws, open
<1>5. /\ changes' \in [daemon: Seq(Keys), dialog: Seq(Keys)]
      /\ Queued(c.daemon) \cup WrittenKeys(ws) \subseteq Queued(changes'.daemon)
      /\ open => Queued(c.dialog) \cup WrittenKeys(ws) \subseteq Q
  BY <1>1, <1>3, AnnouncedTo
<1>6. TypedStore(store')
  BY <1>1, <1>2, <1>3, WrittenTyped
<1>7. CopyFollows(store', prefs, Queued(changes'.daemon))
  BY <1>1, <1>2, <1>3, <1>5, WritesQueued
<1>8. open => WidgetsShow(r.ui, store', Q)
  BY <1>1, <1>2, <1>3, <1>4, <1>5, WritesQueued
<1>9. ui' \in UiState /\ (ui'.open => WidgetsShow(ui', store', Q))
  BY <1>1, <1>3, <1>8 DEF open
<1> QED BY <1>5, <1>6, <1>7, <1>9 DEF SettingsInv, ManagerFollows, TimersRun

\* The window that opens shows the settings, and for root no locking.
LEMMA OpenStep ==
  ASSUME SettingsInv, NEW root \in BOOLEAN, init_capplet(root), UNCHANGED <<manager, now>>
  PROVE  SettingsInv'
<1> DEFINE Q == Queued(changes.dialog)
           e == store["idle-activation-enabled"]
           l == store["lock-enabled"]
           a == ActivateScale(store["idle-delay"])
           d == LockScale(store["lock-delay"])
           u == [NoUi EXCEPT !.open = TRUE]
           x == [u EXCEPT !.enabled = e, !.lock = l, !.activate_delay = a, !.lock_delay = d]
           r == ui_set_enabled(x, e)
           themes == IF store["mode"] = "random" THEN <<<<"themes", Installed>>>> ELSE <<>>
           listed == Result(r.ui, r.writes \o themes)
<1>1. /\ e \in BOOLEAN /\ l \in BOOLEAN /\ store["disable-lock-screen"] \in BOOLEAN
      /\ a \in 0..120 /\ d \in 0..120
  <2>1. TypedStore(store)
    BY DEF SettingsInv
  <2>2. \A v \in Int : ActivateScale(v) \in 0..120 /\ LockScale(v) \in 0..120
    BY DEF ActivateScale, LockScale
  <2> QED BY <2>1, <2>2, StoreValues
<1>2. /\ (e <=> store["idle-activation-enabled"]) /\ (l <=> store["lock-enabled"])
      /\ a = ActivateScale(store["idle-delay"]) /\ d = LockScale(store["lock-delay"])
  OBVIOUS
<1> HIDE DEF e, l, a, d, Q
<1>3. /\ x \in UiState /\ (x.enabled <=> e) /\ (x.lock <=> l)
      /\ x.activate_delay = a /\ x.lock_delay = d
  BY <1>1 DEF NoUi, UiState
<1> HIDE DEF x
<1>4. WidgetsShow(x, store, Q \cup {"idle-activation-enabled", "disable-lock-screen"})
  BY <1>2, <1>3 DEF WidgetsShow
<1>5. Leaves(r, Q)
  BY <1>1, <1>2, <1>3, <1>4, SetEnabled
<1>6. Opened(u) = r
  BY DEF Opened, e, l, a, d, x
<1>7. /\ Handled(IF root THEN Then(listed, RootUser) ELSE listed, changes)
      /\ UNCHANGED prefs
  BY <1>6 DEF init_capplet
<1> HIDE DEF r
<1>8. themes \in Seq(Writes)
  <2>1. <<"themes", Installed>> \in Writes
    BY InstalledAssumption DEF Writes, Keys, PrefKeys, AllValues, Typed, Delays, Flags
  <2> QED BY <2>1, NoWrite, OneWrite
<1> HIDE DEF themes
<1>9. Leaves(listed, Q)
  <2> DEFINE n == Result(r.ui, themes)
             W == WrittenKeys(r.writes)
  <2>1. r.writes \in Seq(Writes) /\ n.ui = r.ui /\ n.writes = themes
    BY <1>5 DEF Leaves, Result
  <2>2. r.ui \in UiState /\ (r.ui.open => WidgetsShow(r.ui, store, Q \cup W))
    BY <1>5 DEF Leaves
  <2> HIDE DEF n, W
  <2>3. n.ui.open => WidgetsShow(n.ui, store, (Q \cup W) \cup WrittenKeys(n.writes))
    BY <2>1, <2>2 DEF WidgetsShow
  <2>4. Leaves(n, Q \cup W)
    BY <1>8, <2>1, <2>2, <2>3 DEF Leaves
  <2>5. listed = Result(n.ui, r.writes \o n.writes)
    BY <2>1
  <2> QED BY <2>1, <2>4, <2>5, ThenLeaves DEF W
<1> HIDE DEF listed
<1>10. Leaves(Then(listed, RootUser), Q)
  <2> DEFINE W == WrittenKeys(listed.writes)
             n == RootUser(listed.ui)
  <2>1. listed.ui \in UiState /\ listed.writes \in Seq(Writes)
        /\ (listed.ui.open => WidgetsShow(listed.ui, store, Q \cup W))
    BY <1>9 DEF Leaves
  <2>2. Then(listed, RootUser) = Result(n.ui, listed.writes \o n.writes)
    BY DEF Then
  <2> HIDE DEF W
  <2>3. Leaves(n, Q \cup W)
    <3> DEFINE off == FALSE
               b == lock_checkbox_set(listed.ui, off)
               y == [b.ui EXCEPT !.lock_sensitive = off]
    <3>1. off \in BOOLEAN /\ ~off
      OBVIOUS
    <3>2. n.ui = y /\ n.writes = b.writes
      BY DEF RootUser, Result
    <3> HIDE DEF off, n
    <3>3. /\ b.ui = [listed.ui EXCEPT !.lock = off] /\ b.ui \in UiState
          /\ b.writes \in Seq(Writes)
          /\ (off <=> listed.ui.lock) \/ "lock-enabled" \in WrittenKeys(b.writes)
      BY <2>1, <3>1, LockBox
    <3> HIDE DEF b
    <3> DEFINE z == listed.ui
               V == WrittenKeys(b.writes)
    <3>4. /\ y \in UiState /\ (y.open <=> z.open) /\ (y.enabled <=> z.enabled)
          /\ (y.lock <=> off) /\ (y.lock_sensitive <=> off)
          /\ y.activate_delay = z.activate_delay /\ y.lock_delay = z.lock_delay
      <4> DEFINE k == b.ui
      <4>1. /\ k \in UiState /\ (k.open <=> z.open) /\ (k.enabled <=> z.enabled)
            /\ (k.lock <=> off)
            /\ k.activate_delay = z.activate_delay /\ k.lock_delay = z.lock_delay
        BY <2>1, <3>1, <3>3 DEF UiState
      <4> HIDE DEF k, z
      <4>2. y = [k EXCEPT !.lock_sensitive = off]
        BY DEF k
      <4> HIDE DEF y
      <4> QED BY <3>1, <4>1, <4>2 DEF UiState
    <3>5. (off <=> z.lock) \/ "lock-enabled" \in V
      BY <3>3
    <3>6. z.open => WidgetsShow(z, store, Q \cup W)
      BY <2>1
    <3> HIDE DEF y, z, V
    <3>7. y.open => WidgetsShow(y, store, (Q \cup W) \cup V)
      BY <3>1, <3>4, <3>5, <3>6 DEF WidgetsShow
    <3> QED BY <3>2, <3>3, <3>4, <3>7 DEF Leaves, V
  <2> HIDE DEF n
  <2> QED BY <2>1, <2>2, <2>3, ThenLeaves DEF W
<1>11. changes \in [daemon: Seq(Keys), dialog: Seq(Keys)]
  BY DEF SettingsInv
<1> QED
  <2>1. CASE root
    <3> DEFINE t == Then(listed, RootUser)
    <3>1. Handled(t, changes) /\ Leaves(t, Q)
      BY <1>7, <1>10, <2>1
    <3> HIDE DEF t
    <3> QED BY <1>7, <1>11, <3>1, HandledKeeps DEF Q
  <2>2. CASE ~root
    BY <1>7, <1>9, <1>11, <2>2, HandledKeeps DEF Q
  <2> QED BY <2>1, <2>2

\* The list and the preview: what a widget shows does not depend on them.
LEMMA OtherWidgets ==
  ASSUME NEW u \in UiState, NEW b \in BOOLEAN, NEW Q, u.open => WidgetsShow(u, store, Q),
         NEW v, v = [u EXCEPT !.tree = b] \/ v = [u EXCEPT !.fullscreen = b]
  PROVE  v \in UiState /\ (v.open => WidgetsShow(v, store, Q))
<1>1. /\ v \in UiState /\ (v.open <=> u.open) /\ (v.enabled <=> u.enabled)
      /\ (v.lock <=> u.lock) /\ (v.lock_sensitive <=> u.lock_sensitive)
      /\ v.activate_delay = u.activate_delay /\ v.lock_delay = u.lock_delay
  <2>1. CASE v = [u EXCEPT !.tree = b]
    BY <2>1 DEF UiState
  <2>2. CASE v = [u EXCEPT !.fullscreen = b]
    BY <2>2 DEF UiState
  <2> QED BY <2>1, <2>2
<1> QED BY <1>1 DEF WidgetsShow

\* The list is filled, and the row of the setting is selected.
LEMMA TreeviewStep ==
  ASSUME SettingsInv, setup_treeview_idle, UNCHANGED <<manager, now>>
  PROVE  SettingsInv'
<1> DEFINE on == TRUE
           u == [ui EXCEPT !.tree = on]
           Q == Queued(changes.dialog)
<1>1. on \in BOOLEAN
  OBVIOUS
<1>2. PICK r \in setup_treeview_selection(u) : Handled(r, changes)
  BY DEF setup_treeview_idle
<1>3. UNCHANGED prefs
  BY DEF setup_treeview_idle
<1>4. /\ ui \in UiState /\ (ui.open => WidgetsShow(ui, store, Q))
      /\ changes \in [daemon: Seq(Keys), dialog: Seq(Keys)]
  BY DEF SettingsInv
<1> HIDE DEF on, Q
<1>5. u \in UiState /\ (u.open => WidgetsShow(u, store, Q))
  BY <1>1, <1>4, OtherWidgets
<1> HIDE DEF u
<1>6. Leaves(r, Q)
  BY <1>2, <1>5, TreeviewLeaves
<1> QED BY <1>2, <1>3, <1>4, <1>6, HandledKeeps DEF Q

(***************************************************************************)
(* The dialog handles the change of a key: the widget of the key shows it  *)
(* then, or what it shows is written.                                      *)
(***************************************************************************)
LEMMA KeyChanged ==
  ASSUME TypedStore(store), NEW u \in UiState, u.open, NEW Q, NEW key \in Keys,
         WidgetsShow(u, store, {key} \cup Q), NEW r \in key_changed(u, key)
  PROVE  Leaves(r, Q)
<1>1. /\ store["idle-activation-enabled"] \in BOOLEAN
      /\ store["lock-enabled"] \in BOOLEAN /\ store["disable-lock-screen"] \in BOOLEAN
      /\ store["idle-delay"] \in Int /\ store["lock-delay"] \in Int
  BY StoreValues
<1> DEFINE b == store[key]
<1>2. CASE key = "idle-activation-enabled"
  <2>1. r = ui_set_enabled(u, b)
    BY <1>2 DEF key_changed
  <2>2. b \in BOOLEAN /\ (b <=> store["idle-activation-enabled"])
    BY <1>1, <1>2
  <2>3. WidgetsShow(u, store, Q \cup {"idle-activation-enabled", "disable-lock-screen"})
    BY <1>2 DEF WidgetsShow
  <2> HIDE DEF b
  <2> QED BY <1>1, <2>1, <2>2, <2>3, SetEnabled
<1>3. CASE key = "lock-enabled"
  <2>1. r = ui_set_lock(u, b)
    BY <1>3 DEF key_changed
  <2>2. b \in BOOLEAN /\ (b <=> store["lock-enabled"])
    BY <1>1, <1>3
  <2>3. WidgetsShow(u, store, Q \cup {"lock-enabled"})
    BY <1>3 DEF WidgetsShow
  <2> HIDE DEF b
  <2> QED BY <1>1, <2>1, <2>2, <2>3, SetLock
<1>4. CASE key = "disable-lock-screen"
  <2>1. r = ui_disable_lock(u, b)
    BY <1>4 DEF key_changed
  <2>2. b \in BOOLEAN /\ (b <=> store["disable-lock-screen"])
    BY <1>1, <1>4
  <2>3. WidgetsShow(u, store, Q \cup {"disable-lock-screen"})
    BY <1>4 DEF WidgetsShow
  <2> HIDE DEF b
  <2> QED BY <2>1, <2>2, <2>3, DisableLock
<1>5. CASE key = "themes"
  <2>1. r \in setup_treeview_selection(u)
    BY <1>5 DEF key_changed
  <2>2. WidgetsShow(u, store, Q)
    BY <1>5 DEF WidgetsShow
  <2> QED BY <2>1, <2>2, TreeviewLeaves
<1>6. CASE key = "idle-delay"
  <2>1. r = activate_delay_set(u, b)
    BY <1>6 DEF key_changed
  <2>2. b \in Int /\ b = store["idle-delay"]
    BY <1>1, <1>6
  <2>3. WidgetsShow(u, store, Q \cup {"idle-delay"})
    BY <1>6 DEF WidgetsShow
  <2> HIDE DEF b
  <2> QED BY <2>1, <2>2, <2>3, SetActivateDelay
<1>7. CASE key = "lock-delay"
  <2>1. r = lock_delay_set(u, b)
    BY <1>7 DEF key_changed
  <2>2. b \in Int /\ b = store["lock-delay"]
    BY <1>1, <1>7
  <2>3. WidgetsShow(u, store, Q \cup {"lock-delay"})
    BY <1>7 DEF WidgetsShow
  <2> HIDE DEF b
  <2> QED BY <2>1, <2>2, <2>3, SetLockDelay
<1>8. CASE key \notin {"idle-activation-enabled", "lock-enabled", "disable-lock-screen",
                       "themes", "idle-delay", "lock-delay"}
  <2>1. r = Result(u, <<>>)
    BY <1>8 DEF key_changed
  <2>2. WidgetsShow(u, store, Q)
    BY <1>8 DEF WidgetsShow
  <2> QED BY <2>1, <2>2, QuietLeaves
<1> QED BY <1>2, <1>3, <1>4, <1>5, <1>6, <1>7, <1>8

LEMMA KeyChangedStep ==
  ASSUME SettingsInv, dialog_key_changed_cb, UNCHANGED <<manager, now>>
  PROVE  SettingsInv'
<1> DEFINE q == changes.dialog
           c == [changes EXCEPT !.dialog = Tail(q)]
           key == Head(q)
<1>1. /\ ui \in UiState /\ TypedStore(store) /\ q \in Seq(Keys)
      /\ changes \in [daemon: Seq(Keys), dialog: Seq(Keys)]
      /\ (ui.open => WidgetsShow(ui, store, Queued(q)))
  BY DEF SettingsInv
<1>2. PICK r \in key_changed(ui, key) : Handled(r, c)
  BY DEF dialog_key_changed_cb
<1>3. UNCHANGED prefs /\ ui.open /\ q # <<>>
  BY DEF dialog_key_changed_cb
<1>4. /\ Tail(q) \in Seq(Keys) /\ key \in Keys
      /\ Queued(q) \subseteq {key} \cup Queued(Tail(q))
  BY <1>1, <1>3, TailQueued
<1>5. /\ c \in [daemon: Seq(Keys), dialog: Seq(Keys)] /\ c.daemon = changes.daemon
      /\ c.dialog = Tail(q)
  BY <1>1, <1>4
<1> HIDE DEF q, c, key
<1>6. WidgetsShow(ui, store, {key} \cup Queued(Tail(q)))
  BY <1>1, <1>3, <1>4 DEF WidgetsShow
<1>7. Leaves(r, Queued(c.dialog))
  BY <1>1, <1>2, <1>3, <1>4, <1>5, <1>6, KeyChanged
<1> QED BY <1>2, <1>3, <1>5, <1>7, HandledKeeps

(***************************************************************************)
(* The user moves a widget, selects a row, opens or closes the preview, or *)
(* closes the window; the box for locking only where it may be set.        *)
(***************************************************************************)
LEMMA UserKeeps ==
  ASSUME SettingsInv, UserStep
  PROVE  SettingsInv'
<1> DEFINE Q == Queued(changes.dialog)
<1>1. /\ ui \in UiState /\ TypedStore(store)
      /\ changes \in [daemon: Seq(Keys), dialog: Seq(Keys)]
      /\ (ui.open => WidgetsShow(ui, store, Q))
  BY DEF SettingsInv
<1>2. UNCHANGED <<prefs, manager, now>> /\ ui.open
  BY DEF UserStep
<1>3. ASSUME NEW r, Leaves(r, Q), Handled(r, changes) PROVE SettingsInv'
  BY <1>1, <1>2, <1>3, HandledKeeps
<1> HIDE DEF Q
<1>4. CASE user_toggles_lock
  <2> DEFINE b == ~ui.lock
             r == lock_checkbox_set(ui, b)
             W == WrittenKeys(r.writes)
  <2>1. b \in BOOLEAN /\ (b <=> ~ui.lock)
    OBVIOUS
  <2>2. Handled(r, changes) /\ ui.lock_sensitive
    BY <1>4 DEF user_toggles_lock
  <2> HIDE DEF b
  <2>3. /\ r.ui = [ui EXCEPT !.lock = b] /\ r.ui \in UiState
        /\ r.writes \in Seq(Writes) /\ ((b <=> ui.lock) \/ "lock-enabled" \in W)
    BY <1>1, <2>1, LockBox
  <2> HIDE DEF r
  <2> DEFINE v == r.ui
  <2>4. /\ (v.open <=> ui.open) /\ (v.enabled <=> ui.enabled)
        /\ v.activate_delay = ui.activate_delay /\ v.lock_delay = ui.lock_delay
    BY <1>1, <2>3 DEF UiState
  <2>5. "lock-enabled" \in W
    BY <2>1, <2>3
  <2> HIDE DEF v, W
  <2>6. v.open => WidgetsShow(v, store, Q \cup W)
    BY <1>1, <2>2, <2>4, <2>5 DEF WidgetsShow
  <2>7. Leaves(r, Q)
    BY <2>3, <2>6 DEF Leaves, v, W
  <2> QED BY <1>3, <2>2, <2>7
<1>5. CASE user_toggles_enabled
  <2> DEFINE b == ~ui.enabled
             r == enabled_checkbox_set(ui, b)
             W == WrittenKeys(r.writes)
  <2>1. b \in BOOLEAN /\ (b <=> ~ui.enabled)
    OBVIOUS
  <2>2. Handled(r, changes)
    BY <1>5 DEF user_toggles_enabled
  <2> HIDE DEF b
  <2>3. /\ r.ui = [ui EXCEPT !.enabled = b] /\ r.ui \in UiState
        /\ r.writes \in Seq(Writes)
        /\ ((b <=> ui.enabled) \/ "idle-activation-enabled" \in W)
    BY <1>1, <2>1, EnabledBox
  <2> HIDE DEF r
  <2> DEFINE v == r.ui
  <2>4. /\ (v.open <=> ui.open) /\ (v.lock <=> ui.lock)
        /\ (v.lock_sensitive <=> ui.lock_sensitive)
        /\ v.activate_delay = ui.activate_delay /\ v.lock_delay = ui.lock_delay
    BY <1>1, <2>3 DEF UiState
  <2>5. "idle-activation-enabled" \in W
    BY <2>1, <2>3
  <2> HIDE DEF v, W
  <2>6. v.open => WidgetsShow(v, store, Q \cup W)
    BY <1>1, <2>4, <2>5 DEF WidgetsShow
  <2>7. Leaves(r, Q)
    BY <2>3, <2>6 DEF Leaves, v, W
  <2> QED BY <1>3, <2>2, <2>7
<1>6. ASSUME NEW v \in DelayValues, user_moves_scale(v) PROVE SettingsInv'
  <2>1. v \in Int
    BY PrefsAssumption
  <2>2. CASE Handled(activate_delay_set(ui, v), changes)
    BY <1>1, <1>3, <2>1, <2>2, SetActivateDelay
  <2>3. CASE Handled(lock_delay_set(ui, v), changes)
    BY <1>1, <1>3, <2>1, <2>3, SetLockDelay
  <2> QED BY <1>6, <2>2, <2>3 DEF user_moves_scale
<1>7. ASSUME NEW row \in ToSet(Rows), user_selects(row) PROVE SettingsInv'
  <2>1. PICK r \in tree_selection_changed(ui, row) : Handled(r, changes)
    BY <1>7 DEF user_selects
  <2>2. Leaves(r, Q)
    BY <1>1, SelectionLeaves
  <2> QED BY <1>3, <2>1, <2>2
<1>8. CASE fullscreen_preview
  <2> DEFINE b == ~ui.fullscreen
             u == [ui EXCEPT !.fullscreen = b]
  <2>1. b \in BOOLEAN
    OBVIOUS
  <2>2. Handled(Result(u, <<>>), changes)
    BY <1>8 DEF fullscreen_preview
  <2> HIDE DEF b
  <2>3. u \in UiState /\ (u.open => WidgetsShow(u, store, Q))
    BY <1>1, <2>1, OtherWidgets
  <2> HIDE DEF u
  <2>4. Leaves(Result(u, <<>>), Q)
    BY <2>3, QuietLeaves
  <2> QED BY <1>3, <2>2, <2>4
<1>9. CASE response_cb
  <2> DEFINE none == <<>>
  <2>1. none \in Seq(Keys)
    OBVIOUS
  <2>2. ui' = NoUi /\ store' = store /\ changes' = [changes EXCEPT !.dialog = none]
    BY <1>9 DEF response_cb
  <2>3. ui' \in UiState /\ ~ui'.open
    BY <2>2 DEF NoUi, UiState
  <2>4. changes' \in [daemon: Seq(Keys), dialog: Seq(Keys)] /\ changes'.daemon = changes.daemon
    <3> HIDE DEF none
    <3> QED BY <1>1, <2>1, <2>2
  <2> QED BY <1>2, <2>2, <2>3, <2>4 DEF SettingsInv
<1> QED BY <1>4, <1>5, <1>6, <1>7, <1>8, <1>9 DEF UserStep

\* Another program writes a key: every process is told.
LEMMA OtherWrite ==
  ASSUME SettingsInv, NEW key \in OtherWrites, other_writes(key)
  PROVE  SettingsInv'
<1>1. /\ ui \in UiState /\ TypedStore(store) /\ UNCHANGED <<prefs, ui, manager, now>>
      /\ changes \in [daemon: Seq(Keys), dialog: Seq(Keys)]
      /\ (ui.open => WidgetsShow(ui, store, Queued(changes.dialog)))
  BY DEF SettingsInv, other_writes
<1>2. PICK v \in Values(key) : /\ store' = Written(store, <<<<key, v>>>>)
                               /\ changes' = Announced(changes, <<<<key, v>>>>, ui.open)
  BY DEF other_writes
<1> DEFINE ws == <<<<key, v>>>>
           r == Result(ui, ws)
<1>3. ws \in Seq(Writes)
  <2>1. key \in Keys
    BY WritersAssumption
  <2>2. Typed(key, v) /\ v \in AllValues
    <3>1. CASE key \in Delays
      BY <3>1, PrefsAssumption DEF Values, Typed, AllValues, Delays, Flags
    <3>2. CASE key \in Flags
      BY <3>2 DEF Values, Typed, AllValues, Delays, Flags
    <3>3. CASE key = "mode"
      BY <3>3 DEF Values, Typed, AllValues, Delays, Flags
    <3>4. CASE key = "themes"
      BY <3>4, PrefsAssumption DEF Values, Typed, AllValues, Delays, Flags
    <3>5. CASE key = "picture-filename"
      BY <3>5 DEF Values, Typed, AllValues, Delays, Flags
    <3> QED BY <2>1, <3>1, <3>2, <3>3, <3>4, <3>5 DEF Keys, PrefKeys
  <2>3. <<key, v>> \in Writes
    BY <2>1, <2>2 DEF Writes
  <2> QED BY <2>3, OneWrite
<1>4. r.ui = ui /\ r.writes = ws
  BY DEF Result
<1>5. Handled(r, changes)
  BY <1>1, <1>2, <1>4 DEF Handled
<1> HIDE DEF ws, r
<1>6. ui.open => WidgetsShow(ui, store, Queued(changes.dialog) \cup WrittenKeys(ws))
  BY <1>1 DEF WidgetsShow
<1>7. Leaves(r, Queued(changes.dialog))
  BY <1>1, <1>3, <1>4, <1>6 DEF Leaves
<1> QED BY <1>1, <1>5, <1>7, HandledKeeps

-----------------------------------------------------------------------------
(* The manager *)

\* What the timers need of the time.
LEMMA TimeIs ==
  ASSUME now \in 0..MaxTime, NEW m \in TimersState
  PROVE  /\ MaxTime \in Int /\ now \in Int /\ now >= 0 /\ now <= MaxTime
         /\ MaxDelay \in Int /\ MaxDelay > 0
         /\ m.activate_time \in Int /\ m.activate_time >= 0
         /\ m.activate_time <= MaxTime /\ NoTimer = -1
BY TimeAssumption DEF TimersState, MaxDelay, NoTimer

\* The settings of n are those of m, but for the two delays.
SameSettings(m, n) ==
  /\ (n.lock_enabled <=> m.lock_enabled) /\ n.mode = m.mode /\ n.themes = m.themes

\* The cycle timer of n is that of m.
SameCycle(m, n) ==
  /\ (n.active <=> m.active) /\ n.activate_time = m.activate_time
  /\ n.cycle_timeout = m.cycle_timeout /\ n.cycle_every = m.cycle_every

(***************************************************************************)
(* A new lock delay: a timer that runs is set to it, counted from the      *)
(* activation, and one that is due by it has run out.                      *)
(***************************************************************************)
LEMMA LockDelaySet ==
  ASSUME now \in 0..MaxTime, NEW m \in TimersState, TimersRun(m, now),
         NEW d \in 0..MaxDelay, NEW n, n = LockTimeoutSet(m, d)
  PROVE  /\ n \in TimersState /\ TimersRun(n, now) /\ n.lock_timeout = d
         /\ SameCycle(m, n) /\ SameSettings(m, n)
<1>1. CASE m.lock_timeout = d
  BY <1>1 DEF LockTimeoutSet, SameSettings, SameCycle
<1>2. CASE m.lock_timeout # d
  <2> DEFINE k == [m EXCEPT !.lock_timeout = d]
  <2>1. n = IF ~m.active \/ m.lock_active THEN k
            ELSE IF Elapsed(m) >= d THEN LockTimedOut(k)
            ELSE [k EXCEPT !.lock_due = m.activate_time + d]
    BY <1>2 DEF LockTimeoutSet
  <2>2. /\ k \in TimersState /\ k.lock_timeout = d /\ k.cycle_timeout = m.cycle_timeout
        /\ SameSettings(m, k) /\ (k.active <=> m.active)
        /\ (k.lock_active <=> m.lock_active) /\ k.lock_due = m.lock_due
        /\ k.activate_time = m.activate_time /\ k.cycle_due = m.cycle_due
        /\ k.cycle_every = m.cycle_every
    BY DEF TimersState, SameSettings
  <2> HIDE DEF k
  <2>3. CASE ~m.active \/ m.lock_active
    BY <2>1, <2>2, <2>3 DEF TimersRun, SameCycle
  <2>4. CASE m.active /\ ~m.lock_active /\ Elapsed(m) >= d
    <3> DEFINE b == k.lock_active \/ k.lock_enabled
               x == [k EXCEPT !.lock_active = b]
    <3>1. n = [x EXCEPT !.lock_due = NoTimer]
      BY <2>1, <2>2, <2>4 DEF LockTimedOut, TimersState
    <3>2. b \in BOOLEAN
      OBVIOUS
    <3> HIDE DEF b
    <3>3. /\ x \in TimersState /\ x.lock_timeout = d /\ x.cycle_timeout = m.cycle_timeout
          /\ SameSettings(k, x) /\ (x.active <=> k.active)
          /\ x.activate_time = k.activate_time /\ x.cycle_due = k.cycle_due
          /\ x.cycle_every = k.cycle_every
      BY <2>2, <3>2, SMTT(30) DEF TimersState, SameSettings
    <3> HIDE DEF x
    <3>4. /\ n \in TimersState /\ n.lock_timeout = d /\ n.cycle_timeout = m.cycle_timeout
          /\ SameSettings(x, n) /\ (n.active <=> x.active) /\ n.lock_due = NoTimer
          /\ n.activate_time = x.activate_time /\ n.cycle_due = x.cycle_due
          /\ n.cycle_every = x.cycle_every
      BY <3>1, <3>3 DEF TimersState, SameSettings
    <3>5. SameSettings(m, n)
      BY <2>2, <3>3, <3>4 DEF SameSettings
    <3>6. TimersRun(n, now)
      BY <2>2, <2>4, <3>3, <3>4 DEF TimersRun, Elapsed
    <3>7. SameCycle(m, n)
      BY <2>2, <3>3, <3>4 DEF SameCycle
    <3> QED BY <3>4, <3>5, <3>6, <3>7
  <2>5. CASE m.active /\ ~m.lock_active /\ ~(Elapsed(m) >= d)
    <3> DEFINE v == m.activate_time + d
    <3>1. n = [k EXCEPT !.lock_due = v]
      BY <2>1, <2>5
    <3>2. v \in 0..(MaxTime + MaxDelay) /\ v # NoTimer
      BY TimeIs
    <3>3. v = m.activate_time + d
      OBVIOUS
    <3> HIDE DEF v
    <3>4. /\ n \in TimersState /\ n.lock_timeout = d /\ n.cycle_timeout = m.cycle_timeout
          /\ SameSettings(k, n) /\ (n.active <=> k.active) /\ n.lock_due = v
          /\ n.activate_time = k.activate_time /\ n.cycle_due = k.cycle_due
          /\ n.cycle_every = k.cycle_every
      BY <2>2, <3>1, <3>2 DEF TimersState, SameSettings
    <3>5. SameSettings(m, n)
      BY <2>2, <3>4 DEF SameSettings
    <3>6. TimersRun(n, now)
      BY <2>2, <2>5, <3>2, <3>3, <3>4 DEF TimersRun
    <3>7. SameCycle(m, n)
      BY <2>2, <3>4 DEF SameCycle
    <3> QED BY <3>4, <3>5, <3>6, <3>7
  <2> QED BY <2>3, <2>4, <2>5
<1> QED BY <1>1, <1>2

(***************************************************************************)
(* A new cycle delay: what is left of it is the interval of the timer.     *)
(***************************************************************************)
LEMMA CycleDelaySet ==
  ASSUME now \in 0..MaxTime, NEW m \in TimersState, TimersRun(m, now),
         NEW d \in 0..MaxDelay, NEW n, n = CycleTimeoutSet(m, d)
  PROVE  /\ n \in TimersState /\ TimersRun(n, now) /\ n.cycle_timeout = d
         /\ n.lock_timeout = m.lock_timeout /\ SameSettings(m, n)
         /\ IntervalKept(m, n)
<1>1. CASE m.cycle_timeout = d
  BY <1>1 DEF CycleTimeoutSet, SameSettings, IntervalKept
<1>2. CASE m.cycle_timeout # d
  <2> DEFINE k == [m EXCEPT !.cycle_timeout = d]
             e == IF Elapsed(m) >= d THEN 0 ELSE d - Elapsed(m)
             v == now + e
  <2>1. n = IF ~m.active THEN k ELSE [k EXCEPT !.cycle_every = e, !.cycle_due = v]
    BY <1>2 DEF CycleTimeoutSet
  <2>2. /\ k \in TimersState /\ k.cycle_timeout = d /\ k.lock_timeout = m.lock_timeout
        /\ SameSettings(m, k) /\ (k.active <=> m.active)
        /\ (k.lock_active <=> m.lock_active) /\ k.lock_due = m.lock_due
        /\ k.activate_time = m.activate_time
    BY DEF TimersState, SameSettings
  <2>3. /\ e \in 0..MaxDelay /\ e <= d /\ v \in Nat /\ v # NoTimer
    BY TimeIs DEF TimersRun, Elapsed
  <2>6. e + (now - m.activate_time) >= d /\ v = now + e
    BY TimeIs DEF TimersRun, Elapsed
  <2> HIDE DEF k, e, v
  <2>4. CASE ~m.active
    BY <2>1, <2>2, <2>4 DEF TimersRun, IntervalKept
  <2>5. CASE m.active
    <3> DEFINE x == [k EXCEPT !.cycle_every = e]
    <3>1. n = [x EXCEPT !.cycle_due = v]
      BY <2>1, <2>5
    <3>2. /\ x \in TimersState /\ x.cycle_timeout = d /\ x.lock_timeout = k.lock_timeout
          /\ SameSettings(k, x) /\ (x.active <=> k.active)
          /\ (x.lock_active <=> k.lock_active) /\ x.lock_due = k.lock_due
          /\ x.activate_time = k.activate_time /\ x.cycle_every = e
      BY <2>2, <2>3, SMTT(30) DEF TimersState, SameSettings
    <3> HIDE DEF x
    <3>3. /\ n \in TimersState /\ n.cycle_timeout = d /\ n.lock_timeout = x.lock_timeout
          /\ SameSettings(x, n) /\ (n.active <=> x.active)
          /\ (n.lock_active <=> x.lock_active) /\ n.lock_due = x.lock_due
          /\ n.activate_time = x.activate_time /\ n.cycle_every = e /\ n.cycle_due = v
      BY <2>3, <3>1, <3>2, ZenonT(40) DEF TimersState, SameSettings
    <3>4. SameSettings(m, n)
      BY <2>2, <3>2, <3>3 DEF SameSettings
    <3>5. TimersRun(n, now)
      BY <2>2, <2>3, <2>6, <3>2, <3>3, TimeIs DEF TimersRun
    <3>6. IntervalKept(m, n)
      BY <1>2, <2>2, <2>3, <2>5, <2>6, <3>2, <3>3 DEF IntervalKept, Elapsed
    <3> QED BY <2>2, <3>2, <3>3, <3>4, <3>5, <3>6
  <2> QED BY <2>4, <2>5
<1> QED BY <1>1, <1>2

\* _gs_monitor_update_from_prefs gives the manager the copy, and keeps the timers.
LEMMA UpdateFollows ==
  ASSUME now \in 0..MaxTime, NEW m \in TimersState, TimersRun(m, now),
         NEW p, TypedPrefs(p)
  PROVE  /\ Updated(m, p) \in TimersState /\ TimersRun(Updated(m, p), now)
         /\ ManagerFollows(Updated(m, p), p) /\ IntervalKept(m, Updated(m, p))
<1> DEFINE l == p["lock-enabled"] /\ ~p["disable-lock-screen"]
           s == p["user-switch-enabled"] /\ ~p["disable-user-switching"]
           a == [m EXCEPT !.lock_enabled = l]
           b == [a EXCEPT !.user_switch_enabled = s]
           c == [b EXCEPT !.mode = p["mode"]]
           n == [c EXCEPT !.themes = p["themes"]]
           x == LockTimeoutSet(n, p["lock-delay"])
           y == CycleTimeoutSet(x, p["cycle-delay"])
<1>1. Updated(m, p) = y
  BY DEF Updated
<1>2. /\ p["lock-delay"] \in 0..MaxDelay /\ p["cycle-delay"] \in 0..MaxDelay
      /\ p["mode"] \in Modes /\ p["themes"] \in Seq(Themes)
  BY DEF TypedPrefs, Typed, PrefKeys, Delays, Flags
<1>3. /\ l \in BOOLEAN /\ s \in BOOLEAN
      /\ (l <=> p["lock-enabled"] /\ ~p["disable-lock-screen"])
  OBVIOUS
<1> HIDE DEF l, s
<1>4. /\ a \in TimersState /\ TimersRun(a, now) /\ (a.lock_enabled <=> l)
      /\ SameCycle(m, a)
  BY <1>3 DEF TimersState, TimersRun, SameCycle
<1> HIDE DEF a
<1>5. /\ b \in TimersState /\ TimersRun(b, now) /\ (b.lock_enabled <=> l)
      /\ SameCycle(a, b)
  BY <1>3, <1>4, ZenonT(40) DEF TimersState, TimersRun, SameCycle
<1> HIDE DEF b
<1>6. /\ c \in TimersState /\ TimersRun(c, now) /\ (c.lock_enabled <=> l)
      /\ c.mode = p["mode"] /\ SameCycle(b, c)
  BY <1>2, <1>5, ZenonT(40) DEF TimersState, TimersRun, SameCycle
<1> HIDE DEF c
<1>7. /\ n \in TimersState /\ TimersRun(n, now) /\ (n.lock_enabled <=> l)
      /\ n.mode = p["mode"] /\ n.themes = p["themes"] /\ SameCycle(c, n)
  BY <1>2, <1>6, ZenonT(40) DEF TimersState, TimersRun, SameCycle
<1> HIDE DEF n
<1>8. /\ x \in TimersState /\ TimersRun(x, now) /\ x.lock_timeout = p["lock-delay"]
      /\ SameSettings(n, x) /\ SameCycle(n, x)
  BY <1>2, <1>7, LockDelaySet
<1> HIDE DEF x
<1>9. /\ y \in TimersState /\ TimersRun(y, now) /\ y.cycle_timeout = p["cycle-delay"]
      /\ y.lock_timeout = x.lock_timeout /\ SameSettings(x, y)
      /\ IntervalKept(x, y)
  BY <1>2, <1>8, CycleDelaySet
<1> HIDE DEF y
<1>10. ManagerFollows(y, p)
  BY <1>3, <1>7, <1>8, <1>9 DEF ManagerFollows, SameSettings
<1>11. SameCycle(m, x)
  BY <1>4, <1>5, <1>6, <1>7, <1>8 DEF SameCycle
<1>12. IntervalKept(m, y)
  BY <1>9, <1>11 DEF SameCycle, IntervalKept
<1> QED BY <1>1, <1>9, <1>10, <1>12

\* A conversion: every delay is within its limits, and nothing cycles at once.
LEMMA ConvertedTyped ==
  ASSUME NEW key \in PrefKeys, NEW v, Typed(key, v)
  PROVE  /\ Typed(key, Converted(key, v))
         /\ key \in Delays => Converted(key, v) \in 0..MaxDelay
         /\ key = "cycle-delay" => Converted(key, v) # 0
<1>1. CASE key \in Delays
  <2>1. v \in Int /\ key \notin Flags /\ key # "mode" /\ key # "themes"
    BY <1>1 DEF Typed, Delays, Flags
  <2>2. Converted(key, v) \in 0..MaxDelay /\ (key = "cycle-delay" => Converted(key, v) # 0)
    BY <1>1, <2>1 DEF Converted, Limited, MaxDelay, Delays
  <2> DEFINE c == Converted(key, v)
  <2>3. c \in Int
    BY <2>2 DEF MaxDelay
  <2> HIDE DEF c
  <2>4. Typed(key, c)
    BY <2>1, <2>3 DEF Typed
  <2> QED BY <2>2, <2>4 DEF c
<1>2. CASE key \notin Delays
  <2>1. Converted(key, v) = v
    BY <1>2 DEF Converted, Delays
  <2> QED BY <1>2, <2>1 DEF Delays
<1> QED BY <1>1, <1>2

\* The daemon handles a change: the copy of the key is current, and the
\* manager has it.
LEMMA CopyStep ==
  ASSUME SettingsInv, key_changed_cb
  PROVE  SettingsInv' /\ IntervalKept(manager, manager')
<1> DEFINE q == changes.daemon
           key == Head(q)
           p == PrefChanged(prefs, store, key)
           v == Converted(key, store[key])
<1>1. /\ TypedStore(store) /\ TypedPrefs(prefs) /\ q \in Seq(Keys)
      /\ manager \in TimersState /\ now \in 0..MaxTime /\ TimersRun(manager, now)
      /\ CopyFollows(store, prefs, Queued(q)) /\ ui \in UiState
      /\ changes \in [daemon: Seq(Keys), dialog: Seq(Keys)]
      /\ ui.open => WidgetsShow(ui, store, Queued(changes.dialog))
  BY DEF SettingsInv
<1>2. /\ q # <<>> /\ prefs' = p /\ manager' = Updated(manager, p)
      /\ changes' = [changes EXCEPT !.daemon = Tail(q)] /\ UNCHANGED <<store, ui, now>>
  BY DEF key_changed_cb
<1>3. /\ Tail(q) \in Seq(Keys) /\ key \in Keys
      /\ Queued(q) \subseteq {key} \cup Queued(Tail(q))
  BY <1>1, <1>2, TailQueued
<1>4. p = IF key \in PrefKeys THEN [prefs EXCEPT ![key] = v] ELSE prefs
  BY DEF PrefChanged
<1>5. v = Converted(key, store[key])
  OBVIOUS
<1>6. key \in PrefKeys => /\ Typed(key, v) /\ (key \in Delays => v \in 0..MaxDelay)
                          /\ (key = "cycle-delay" => v # 0)
  <2>1. key \in PrefKeys => Typed(key, store[key])
    BY <1>1, <1>3 DEF TypedStore
  <2> HIDE DEF key
  <2> QED BY <2>1, ConvertedTyped
<1>7. /\ changes' \in [daemon: Seq(Keys), dialog: Seq(Keys)]
      /\ changes'.daemon = Tail(q) /\ changes'.dialog = changes.dialog
  BY <1>1, <1>2, <1>3
<1> HIDE DEF q, key, p, v
<1>8. TypedPrefs(p) /\ CopyFollows(store, p, Queued(Tail(q)))
  <2>1. CASE key \in PrefKeys
    <3>1. p = [prefs EXCEPT ![key] = v]
      BY <1>4, <2>1
    <3>2. /\ p = [k \in PrefKeys |-> p[k]] /\ p[key] = v
          /\ \A k \in PrefKeys : k # key => p[k] = prefs[k]
      BY <1>1, <2>1, <3>1 DEF TypedPrefs
    <3>3. Delays \subseteq PrefKeys /\ "cycle-delay" \in PrefKeys
      BY DEF PrefKeys, Delays
    <3>4. TypedPrefs(p)
      BY <1>1, <1>6, <2>1, <3>2, <3>3 DEF TypedPrefs
    <3>5. CopyFollows(store, p, Queued(Tail(q)))
      BY <1>1, <1>3, <1>5, <2>1, <3>2 DEF CopyFollows
    <3> QED BY <3>4, <3>5
  <2>2. CASE key \notin PrefKeys
    <3>1. p = prefs
      BY <1>4, <2>2
    <3>2. CopyFollows(store, p, Queued(Tail(q)))
      BY <1>1, <1>3, <2>2, <3>1 DEF CopyFollows
    <3> QED BY <1>1, <3>1, <3>2
  <2> QED BY <2>1, <2>2
<1>9. /\ manager' \in TimersState /\ TimersRun(manager', now)
      /\ ManagerFollows(manager', p) /\ IntervalKept(manager, manager')
  BY <1>1, <1>2, <1>8, UpdateFollows
<1> QED BY <1>1, <1>2, <1>7, <1>8, <1>9 DEF SettingsInv

\* A step of the manager that leaves its settings.
LEMMA ManagerMoves ==
  ASSUME SettingsInv, UNCHANGED <<store, changes, prefs, ui, now>>,
         manager' \in TimersState, TimersRun(manager', now),
         SameSettings(manager, manager'),
         manager'.lock_timeout = manager.lock_timeout,
         manager'.cycle_timeout = manager.cycle_timeout
  PROVE  SettingsInv'
<1>1. ManagerFollows(manager', prefs)
  BY DEF SettingsInv, ManagerFollows, SameSettings
<1> QED BY <1>1 DEF SettingsInv

LEMMA SelectableThemes ==
  ASSUME NEW m \in TimersState, NEW t \in Selectable(m.mode, m.themes)
  PROVE  t \in Themes \cup {NoTheme}
<1>1. m.themes \in Seq(Themes)
  BY DEF TimersState
<1>2. \A i \in 1..Len(m.themes) : m.themes[i] \in Themes
  BY <1>1
<1>3. m.themes # <<>> => m.themes[1] \in Themes
  BY <1>1
<1> QED BY <1>2, <1>3 DEF Selectable

\* A window is shown: both timers start.
LEMMA ShownRuns ==
  ASSUME now \in 0..MaxTime, NEW m \in TimersState, m.active, m.cycle_timeout # 0,
         NEW t \in Themes \cup {NoTheme}, NEW n, n = Shown(m, t)
  PROVE  /\ n \in TimersState /\ TimersRun(n, now) /\ SameSettings(m, n)
         /\ n.lock_timeout = m.lock_timeout /\ n.cycle_timeout = m.cycle_timeout
         /\ n.cycle_every = n.cycle_timeout
<1> DEFINE v == now + m.lock_timeout
           w == now + m.cycle_timeout
           e == m.cycle_timeout
           a == [m EXCEPT !.theme = t]
           b == [a EXCEPT !.activate_time = now]
           c == [b EXCEPT !.lock_due = v]
           d == [c EXCEPT !.cycle_every = e]
<1>1. m.lock_timeout \in 0..MaxDelay /\ m.cycle_timeout \in 0..MaxDelay
  BY DEF TimersState
<1>2. /\ v \in 0..(MaxTime + MaxDelay) /\ v # NoTimer /\ w \in Nat /\ w # NoTimer
      /\ ~(m.cycle_timeout < 1) /\ e \in 0..MaxDelay
  BY <1>1, TimeIs
<1>3. n = [d EXCEPT !.cycle_due = w]
  BY <1>2 DEF Shown
<1>4. v = now + m.lock_timeout /\ e = m.cycle_timeout /\ w = now + m.cycle_timeout
  OBVIOUS
<1> HIDE DEF v, w, e
<1>5. /\ a \in TimersState /\ a.lock_timeout = m.lock_timeout
      /\ a.cycle_timeout = m.cycle_timeout /\ SameSettings(m, a) /\ a.active
  BY DEF TimersState, SameSettings
<1> HIDE DEF a
<1>6. /\ b \in TimersState /\ b.lock_timeout = m.lock_timeout
      /\ b.cycle_timeout = m.cycle_timeout /\ SameSettings(a, b) /\ b.active
      /\ b.activate_time = now
  BY <1>5 DEF TimersState, SameSettings
<1> HIDE DEF b
<1>7. /\ c \in TimersState /\ c.lock_timeout = m.lock_timeout
      /\ c.cycle_timeout = m.cycle_timeout /\ SameSettings(b, c) /\ c.active
      /\ c.activate_time = now /\ c.lock_due = v
  BY <1>2, <1>6 DEF TimersState, SameSettings
<1> HIDE DEF c
<1>8. /\ d \in TimersState /\ d.lock_timeout = m.lock_timeout
      /\ d.cycle_timeout = m.cycle_timeout /\ SameSettings(c, d) /\ d.active
      /\ d.activate_time = now /\ d.lock_due = v /\ d.cycle_every = e
  BY <1>2, <1>7 DEF TimersState, SameSettings
<1> HIDE DEF d
<1>9. /\ n \in TimersState /\ n.lock_timeout = m.lock_timeout
      /\ n.cycle_timeout = m.cycle_timeout /\ SameSettings(d, n) /\ n.active
      /\ n.activate_time = now /\ n.lock_due = v /\ n.cycle_every = e /\ n.cycle_due = w
  BY <1>2, <1>3, <1>8, ZenonT(40) DEF TimersState, SameSettings
<1>10. SameSettings(m, n)
  BY <1>5, <1>6, <1>7, <1>8, <1>9 DEF SameSettings
<1>11. TimersRun(n, now)
  BY <1>1, <1>2, <1>4, <1>9, TimeIs DEF TimersRun
<1> QED BY <1>4, <1>9, <1>10, <1>11

LEMMA ManagerKeeps ==
  ASSUME SettingsInv, ManagerStep
  PROVE  SettingsInv' /\ IntervalKept(manager, manager')
<1>1. /\ manager \in TimersState /\ now \in 0..MaxTime /\ TimersRun(manager, now)
      /\ manager.cycle_timeout # 0
  BY DEF SettingsInv, ManagerFollows, TypedPrefs
<1>2. UNCHANGED <<store, changes, prefs, ui, now>>
  BY DEF ManagerStep
<1> DEFINE Goal == SettingsInv' /\ IntervalKept(manager, manager')
<1>3. ASSUME NEW n \in TimersState, manager' = n, TimersRun(n, now), SameSettings(manager, n),
             n.lock_timeout = manager.lock_timeout, n.cycle_timeout = manager.cycle_timeout,
             n.active => \/ n.cycle_every = n.cycle_timeout
                         \/ manager.active /\ n.cycle_every = manager.cycle_every
      PROVE  Goal
  <2>1. SettingsInv'
    BY <1>2, <1>3, ManagerMoves
  <2>2. IntervalKept(manager, n)
    BY <1>3 DEF IntervalKept
  <2> QED BY <1>3, <2>1, <2>2
<1> HIDE DEF Goal
<1>4. ASSUME NEW locked \in BOOLEAN, gs_manager_activate(locked) PROVE Goal
  <2> DEFINE on == TRUE
             a == [manager EXCEPT !.active = on]
             b == [a EXCEPT !.lock_active = locked]
  <2>1. PICK t \in Selectable(manager.mode, manager.themes) : manager' = Shown(b, t)
    BY <1>4 DEF gs_manager_activate
  <2>2. t \in Themes \cup {NoTheme}
    BY <1>1, SelectableThemes
  <2>3. on \in BOOLEAN /\ on
    OBVIOUS
  <2> HIDE DEF on
  <2>4. /\ a \in TimersState /\ a.active /\ SameSettings(manager, a)
        /\ a.lock_timeout = manager.lock_timeout /\ a.cycle_timeout = manager.cycle_timeout
    BY <1>1, <2>3 DEF TimersState, SameSettings
  <2> HIDE DEF a
  <2>5. /\ b \in TimersState /\ b.active /\ SameSettings(a, b)
        /\ b.lock_timeout = manager.lock_timeout /\ b.cycle_timeout = manager.cycle_timeout
    BY <2>4 DEF TimersState, SameSettings
  <2> HIDE DEF b
  <2> DEFINE n == Shown(b, t)
  <2>6. /\ n \in TimersState /\ TimersRun(n, now) /\ SameSettings(b, n)
        /\ n.lock_timeout = b.lock_timeout /\ n.cycle_timeout = b.cycle_timeout
        /\ n.cycle_every = n.cycle_timeout
    BY <1>1, <2>2, <2>5, ShownRuns
  <2>7. manager' = n
    BY <2>1
  <2> HIDE DEF n
  <2>8. SameSettings(manager, n)
    BY <2>4, <2>5, <2>6 DEF SameSettings
  <2> QED BY <1>3, <2>5, <2>6, <2>7, <2>8
<1>5. ASSUME window_show_cb PROVE Goal
  <2>1. PICK t \in Selectable(manager.mode, manager.themes) : manager' = Shown(manager, t)
    BY <1>5 DEF window_show_cb
  <2>2. t \in Themes \cup {NoTheme} /\ manager.active
    BY <1>1, <1>5, SelectableThemes DEF window_show_cb
  <2> DEFINE n == Shown(manager, t)
  <2>3. /\ n \in TimersState /\ TimersRun(n, now) /\ SameSettings(manager, n)
        /\ n.lock_timeout = manager.lock_timeout /\ n.cycle_timeout = manager.cycle_timeout
        /\ n.cycle_every = n.cycle_timeout
    BY <1>1, <2>2, ShownRuns
  <2>4. manager' = n
    BY <2>1
  <2> HIDE DEF n
  <2> QED BY <1>3, <2>3, <2>4
<1>6. ASSUME gs_manager_deactivate PROVE Goal
  <2> DEFINE off == FALSE
             a == [manager EXCEPT !.active = off]
             b == [a EXCEPT !.lock_active = off]
             c == [b EXCEPT !.activate_time = 0]
             d == [c EXCEPT !.lock_due = NoTimer]
             e == [d EXCEPT !.cycle_due = NoTimer]
             n == [e EXCEPT !.theme = NoTheme]
  <2>1. manager' = n
    BY <1>6 DEF gs_manager_deactivate
  <2>2. off \in BOOLEAN /\ ~off /\ 0 \in 0..MaxTime
    BY <1>1, TimeIs
  <2> HIDE DEF off
  <2>3. /\ a \in TimersState /\ ~a.active /\ SameSettings(manager, a)
        /\ a.lock_timeout = manager.lock_timeout /\ a.cycle_timeout = manager.cycle_timeout
    BY <1>1, <2>2 DEF TimersState, SameSettings
  <2> HIDE DEF a
  <2>4. /\ b \in TimersState /\ ~b.active /\ SameSettings(a, b) /\ ~b.lock_active
        /\ b.lock_timeout = manager.lock_timeout /\ b.cycle_timeout = manager.cycle_timeout
    BY <2>2, <2>3 DEF TimersState, SameSettings
  <2> HIDE DEF b
  <2>5. /\ c \in TimersState /\ ~c.active /\ SameSettings(b, c) /\ ~c.lock_active
        /\ c.lock_timeout = manager.lock_timeout /\ c.cycle_timeout = manager.cycle_timeout
        /\ c.activate_time = 0
    BY <2>2, <2>4 DEF TimersState, SameSettings
  <2> HIDE DEF c
  <2>6. /\ d \in TimersState /\ ~d.active /\ SameSettings(c, d) /\ ~d.lock_active
        /\ d.lock_timeout = manager.lock_timeout /\ d.cycle_timeout = manager.cycle_timeout
        /\ d.activate_time = 0 /\ d.lock_due = NoTimer
    BY <2>5 DEF TimersState, SameSettings
  <2> HIDE DEF d
  <2>7. /\ e \in TimersState /\ ~e.active /\ SameSettings(d, e) /\ ~e.lock_active
        /\ e.lock_timeout = manager.lock_timeout /\ e.cycle_timeout = manager.cycle_timeout
        /\ e.activate_time = 0 /\ e.lock_due = NoTimer
    BY <2>6, SMTT(30) DEF TimersState, SameSettings
  <2> HIDE DEF e
  <2>8. /\ n \in TimersState /\ ~n.active /\ SameSettings(e, n) /\ ~n.lock_active
        /\ n.lock_timeout = manager.lock_timeout /\ n.cycle_timeout = manager.cycle_timeout
        /\ n.activate_time = 0 /\ n.lock_due = NoTimer
    BY <2>7 DEF TimersState, SameSettings
  <2> HIDE DEF n
  <2>9. SameSettings(manager, n)
    BY <2>3, <2>4, <2>5, <2>6, <2>7, <2>8 DEF SameSettings
  <2>10. TimersRun(n, now)
    BY <1>1, <2>8 DEF TimersRun
  <2> QED BY <1>3, <2>1, <2>8, <2>9, <2>10
<1>7. ASSUME activate_lock_timeout PROVE Goal
  <2> DEFINE b == manager.lock_active \/ manager.lock_enabled
             a == [manager EXCEPT !.lock_active = b]
             n == [a EXCEPT !.lock_due = NoTimer]
  <2>1. manager' = n /\ manager.lock_due # NoTimer /\ manager.lock_due <= now
    BY <1>1, <1>7 DEF activate_lock_timeout, LockTimedOut, TimersState
  <2>2. b \in BOOLEAN /\ (manager.lock_active => b)
    OBVIOUS
  <2> HIDE DEF b
  <2>3. /\ a \in TimersState /\ (a.active <=> manager.active) /\ SameSettings(manager, a)
        /\ a.lock_timeout = manager.lock_timeout /\ a.cycle_timeout = manager.cycle_timeout
        /\ (a.lock_active <=> b) /\ a.activate_time = manager.activate_time
        /\ a.cycle_due = manager.cycle_due /\ a.cycle_every = manager.cycle_every
    BY <1>1, <2>2 DEF TimersState, SameSettings
  <2> HIDE DEF a
  <2>4. /\ n \in TimersState /\ (n.active <=> manager.active) /\ SameSettings(a, n)
        /\ n.lock_timeout = manager.lock_timeout /\ n.cycle_timeout = manager.cycle_timeout
        /\ (n.lock_active <=> b) /\ n.activate_time = manager.activate_time
        /\ n.cycle_due = manager.cycle_due /\ n.cycle_every = manager.cycle_every
        /\ n.lock_due = NoTimer
    BY <2>3 DEF TimersState, SameSettings
  <2> HIDE DEF n
  <2>5. SameSettings(manager, n)
    BY <2>3, <2>4 DEF SameSettings
  <2>6. manager.active
    BY <1>1, <2>1 DEF TimersRun
  <2>7. /\ manager.lock_timeout \in Int /\ manager.activate_time \in Int /\ now \in Int
    BY <1>1, TimeIs DEF TimersState
  <2>8. TimersRun(n, now)
    BY <1>1, <2>1, <2>2, <2>4, <2>6, <2>7 DEF TimersRun
  <2> QED BY <1>3, <2>1, <2>4, <2>5, <2>6, <2>8
<1>8. ASSUME NEW busy \in BOOLEAN, cycle_timeout(busy) PROVE Goal
  <2> DEFINE v == now + manager.cycle_every
  <2>1. PICK t \in IF busy THEN {manager.theme}
                   ELSE Selectable(manager.mode, manager.themes) :
               manager' = [manager EXCEPT !.theme = t, !.cycle_due = v]
    BY <1>8 DEF cycle_timeout
  <2>2. t \in Themes \cup {NoTheme}
    <3>1. manager.theme \in Themes \cup {NoTheme}
      BY <1>1 DEF TimersState
    <3> QED BY <1>1, <2>1, <3>1, SelectableThemes
  <2>3. v \in Nat /\ v # NoTimer /\ v = now + manager.cycle_every /\ now <= v
    <3>1. manager.cycle_every \in 0..MaxDelay
      BY <1>1 DEF TimersState
    <3> QED BY <1>1, <3>1, TimeIs
  <2>10. manager.cycle_due # NoTimer /\ manager.cycle_due <= now
    BY <1>8 DEF cycle_timeout
  <2> HIDE DEF v
  <2> DEFINE a == [manager EXCEPT !.theme = t]
             n == [a EXCEPT !.cycle_due = v]
  <2>4. manager' = n
    BY <2>1
  <2>5. /\ a \in TimersState /\ (a.active <=> manager.active) /\ SameSettings(manager, a)
        /\ a.lock_timeout = manager.lock_timeout /\ a.cycle_timeout = manager.cycle_timeout
        /\ (a.lock_active <=> manager.lock_active)
        /\ a.activate_time = manager.activate_time
        /\ a.lock_due = manager.lock_due /\ a.cycle_every = manager.cycle_every
    BY <1>1, <2>2 DEF TimersState, SameSettings
  <2> HIDE DEF a
  <2>6. /\ n \in TimersState /\ (n.active <=> manager.active) /\ SameSettings(a, n)
        /\ n.lock_timeout = manager.lock_timeout /\ n.cycle_timeout = manager.cycle_timeout
        /\ (n.lock_active <=> manager.lock_active)
        /\ n.activate_time = manager.activate_time
        /\ n.lock_due = manager.lock_due /\ n.cycle_every = manager.cycle_every
        /\ n.cycle_due = v
    BY <2>3, <2>5 DEF TimersState, SameSettings
  <2> HIDE DEF n
  <2>7. SameSettings(manager, n)
    BY <2>5, <2>6 DEF SameSettings
  <2>12. /\ manager.cycle_timeout \in Int /\ manager.cycle_every \in Int
         /\ manager.activate_time \in Int /\ manager.cycle_due \in Int /\ now \in Int
    BY <1>1, TimeIs DEF TimersState
  <2>8. TimersRun(n, now)
    BY <1>1, <2>3, <2>6, <2>10, <2>12 DEF TimersRun
  <2> QED BY <1>3, <2>4, <2>6, <2>7, <2>8
<1>9. Goal
  BY <1>4, <1>5, <1>6, <1>7, <1>8 DEF ManagerStep
<1> QED BY <1>9 DEF Goal

\* Time passes.
LEMMA TimeKeeps ==
  ASSUME SettingsInv, TimeStep
  PROVE  SettingsInv'
<1>1. now' = now + 1 /\ now < MaxTime /\ UNCHANGED <<store, changes, prefs, ui, manager>>
  BY DEF TimeStep, Tick
<1>2. manager \in TimersState /\ now \in 0..MaxTime /\ TimersRun(manager, now)
  BY DEF SettingsInv
<1>3. /\ manager.lock_timeout \in Int /\ manager.activate_time \in Int
      /\ manager.cycle_timeout \in Int /\ manager.cycle_due \in Int
  BY <1>2 DEF TimersState, NoTimer
<1>4. now' \in 0..MaxTime
  BY <1>1, <1>2, TimeAssumption
<1>5. TimersRun(manager, now')
  BY <1>1, <1>2, <1>3 DEF TimersRun
<1> QED BY <1>1, <1>4, <1>5 DEF SettingsInv

-----------------------------------------------------------------------------
(* The invariant and the theorems *)

LEMMA SettingsStart == SettingsInit => SettingsInv
<1> SUFFICES ASSUME SettingsInit PROVE SettingsInv
  OBVIOUS
<1>1. PICK l \in ThemeLists :
        store = [Defaults EXCEPT !["mode"] = "single", !["themes"] = l,
                                 !["lock-delay"] = 1, !["cycle-delay"] = 2]
  BY DEF SettingsInit
<1>2. l \in Seq(Themes)
  BY PrefsAssumption
<1>3. DOMAIN Defaults = Keys /\ store = [key \in Keys |-> store[key]]
  <2>1. DOMAIN Defaults = Keys /\ Defaults = [key \in Keys |-> Defaults[key]]
    BY DEF Defaults
  <2> QED BY <1>1, <2>1
<1>4. \A key \in Keys : Typed(key, store[key])
  <2> TAKE key \in Keys
  <2>1. CASE key = "mode"
    BY <1>1, <1>3, <2>1 DEF Typed, Modes, Delays, Flags
  <2>2. CASE key = "themes"
    BY <1>1, <1>2, <1>3, <2>2 DEF Typed, Delays, Flags
  <2>3. CASE key \in Delays
    <3>1. store[key] \in {1, 2} \/ store[key] = Defaults[key]
      BY <1>1, <1>3, <2>3 DEF Delays
    <3>2. Defaults[key] \in Int
      <4>1. key = "idle-delay" => Defaults[key] = 5
        BY DEF Defaults, Flags
      <4>2. key = "power-management-delay" => Defaults[key] = 30
        BY DEF Defaults, Flags
      <4>3. key = "lock-delay" => Defaults[key] = 0
        BY DEF Defaults, Flags
      <4>4. key = "cycle-delay" => Defaults[key] = 10
        BY DEF Defaults, Flags
      <4>5. key = "logout-delay" => Defaults[key] = 120
        BY DEF Defaults, Flags
      <4> QED BY <2>3, <4>1, <4>2, <4>3, <4>4, <4>5 DEF Delays
    <3>3. store[key] \in Int
      BY <3>1, <3>2
    <3> QED BY <2>3, <3>3 DEF Typed, Delays, Flags
  <2>4. CASE key \in Flags
    <3>1. store[key] = Defaults[key]
      BY <1>1, <1>3, <2>4 DEF Flags
    <3>2. Defaults[key] \in BOOLEAN
      BY <2>4 DEF Defaults, Flags
    <3> QED BY <2>4, <3>1, <3>2 DEF Typed, Delays, Flags
  <2>5. CASE key = "picture-filename"
    BY <2>5 DEF Typed, Delays, Flags
  <2> QED BY <2>1, <2>2, <2>3, <2>4, <2>5 DEF Keys, PrefKeys
<1>5. TypedStore(store)
  BY <1>3, <1>4 DEF TypedStore
<1>6. prefs = Loaded(store) /\ now = 0 /\ ui = NoUi /\ manager = Updated(NewManager, prefs)
      /\ changes = [daemon |-> <<>>, dialog |-> <<>>]
  BY DEF SettingsInit
<1>7. \A key \in PrefKeys : prefs[key] = Converted(key, store[key])
  BY <1>6 DEF Loaded
<1>8. TypedPrefs(prefs)
  <2>1. \A key \in PrefKeys : Typed(key, store[key])
    BY <1>4 DEF Keys
  <2>2. prefs = [key \in PrefKeys |-> prefs[key]]
    BY <1>6 DEF Loaded
  <2>3. \A key \in PrefKeys : /\ Typed(key, prefs[key])
                              /\ key \in Delays => prefs[key] \in 0..MaxDelay
                              /\ key = "cycle-delay" => prefs[key] # 0
    BY <1>7, <2>1, ConvertedTyped
  <2>4. Delays \subseteq PrefKeys /\ "cycle-delay" \in PrefKeys
    BY DEF PrefKeys, Delays
  <2> QED BY <2>2, <2>3, <2>4 DEF TypedPrefs
<1>9. CopyFollows(store, prefs, Queued(changes.daemon))
  BY <1>7 DEF CopyFollows
<1>10. now \in 0..MaxTime
  BY <1>6, TimeAssumption
<1>11. NewManager \in TimersState /\ TimersRun(NewManager, now)
  <2>1. 0 \in 0..MaxDelay /\ 0 \in 0..MaxTime
    BY TimeAssumption DEF MaxDelay
  <2>2. NewManager \in TimersState
    BY <2>1 DEF NewManager, TimersState, Modes
  <2>3. TimersRun(NewManager, now)
    BY <1>6 DEF NewManager, TimersRun
  <2> QED BY <2>2, <2>3
<1>12. /\ manager \in TimersState /\ TimersRun(manager, now)
       /\ ManagerFollows(manager, prefs)
  BY <1>6, <1>8, <1>10, <1>11, UpdateFollows
<1>13. ui \in UiState /\ ~ui.open
  BY <1>6 DEF NoUi, UiState
<1>14. changes \in [daemon: Seq(Keys), dialog: Seq(Keys)]
  <2> DEFINE none == <<>>
  <2>1. none \in Seq(Keys) /\ changes = [daemon |-> none, dialog |-> none]
    BY <1>6
  <2> HIDE DEF none
  <2> QED BY <2>1
<1> QED BY <1>5, <1>8, <1>9, <1>10, <1>12, <1>13, <1>14 DEF SettingsInv

LEMMA SettingsStep == SettingsInv /\ [SettingsNext]_settingsVars => SettingsInv'
<1> SUFFICES ASSUME SettingsInv, [SettingsNext]_settingsVars PROVE SettingsInv'
  OBVIOUS
<1>1. CASE key_changed_cb
  BY <1>1, CopyStep
<1>2. CASE DialogStep
  <2>1. UNCHANGED <<manager, now>>
    BY <1>2 DEF DialogStep
  <2>2. CASE \E root \in BOOLEAN : init_capplet(root)
    BY <2>1, <2>2, OpenStep
  <2>3. CASE setup_treeview_idle
    BY <2>1, <2>3, TreeviewStep
  <2>4. CASE dialog_key_changed_cb
    BY <2>1, <2>4, KeyChangedStep
  <2> QED BY <1>2, <2>2, <2>3, <2>4 DEF DialogStep
<1>3. CASE UserStep
  BY <1>3, UserKeeps
<1>4. CASE ManagerStep
  BY <1>4, ManagerKeeps
<1>5. CASE TimeStep
  BY <1>5, TimeKeeps
<1>6. ASSUME NEW key \in OtherWrites, other_writes(key) PROVE SettingsInv'
  BY <1>6, OtherWrite
<1>7. CASE UNCHANGED settingsVars
  BY <1>7 DEF settingsVars, SettingsInv
<1> QED BY <1>1, <1>2, <1>3, <1>4, <1>5, <1>6, <1>7 DEF SettingsNext

LEMMA SettingsInvHolds == SettingsSpec => []SettingsInv
<1>1. SettingsInit => SettingsInv
  BY SettingsStart
<1>2. SettingsInv /\ [SettingsNext]_settingsVars => SettingsInv'
  BY SettingsStep
<1> QED BY <1>1, <1>2, PTL DEF SettingsSpec

(***************************************************************************)
(* The daemon follows the settings: whatever the dialog, the user and      *)
(* other programs write, and in whatever order the daemon gets to it       *)
(* (key_changed_cb of gs-prefs.c), once it has handled everything its copy *)
(* is what the settings say, and the manager has it (on_prefs_changed).    *)
(***************************************************************************)
THEOREM Follows == SettingsSpec => []DaemonFollowsSettings
<1>1. SettingsInv => DaemonFollowsSettings
  <2> SUFFICES ASSUME SettingsInv PROVE DaemonFollowsSettings
    OBVIOUS
  <2>1. TypedStore(store) /\ TypedPrefs(prefs) /\ ui \in UiState /\ manager \in TimersState
        /\ ManagerFollows(manager, prefs)
        /\ CopyFollows(store, prefs, Queued(changes.daemon))
    BY DEF SettingsInv
  <2>2. Delays \subseteq PrefKeys /\ Flags \subseteq PrefKeys /\ PrefKeys \subseteq Keys
        /\ "mode" \in PrefKeys /\ "themes" \in PrefKeys
    BY DEF PrefKeys, Keys
  <2>3. SettingsType
    <3>1. \A key \in Flags : store[key] \in BOOLEAN /\ prefs[key] \in BOOLEAN
      BY <2>1, <2>2 DEF TypedStore, TypedPrefs, Typed
    <3>2. store["mode"] \in Modes /\ store["themes"] \in Seq(Themes)
      BY <2>1, <2>2 DEF TypedStore, Typed
    <3>3. \A key \in Delays : prefs[key] \in 0..MaxDelay
      BY <2>1 DEF TypedPrefs
    <3>4. /\ ui.selected \in ToSet(Rows) \cup {NoRow}
          /\ ui.preview \in ToSet(Installed) \cup {NoRow}
          /\ ui.activate_delay \in 0..120 /\ ui.lock_delay \in 0..120
      BY <2>1 DEF UiState
    <3>5. /\ manager.theme \in Themes \cup {NoTheme}
          /\ manager.lock_due \in {NoTimer} \cup 0..(MaxTime + MaxDelay)
          /\ manager.cycle_every \in 0..MaxDelay
      BY <2>1 DEF TimersState
    <3> QED BY <3>1, <3>2, <3>3, <3>4, <3>5 DEF SettingsType
  <2>4. ASSUME changes.daemon = <<>>
        PROVE  /\ prefs = Loaded(store)
               /\ manager.lock_enabled
                    <=> store["lock-enabled"] /\ ~store["disable-lock-screen"]
               /\ manager.lock_timeout = prefs["lock-delay"]
               /\ manager.mode = store["mode"] /\ manager.themes = store["themes"]
    <3>1. Queued(changes.daemon) = {}
      BY <2>4 DEF Queued
    <3>2. \A key \in PrefKeys : prefs[key] = Converted(key, store[key])
      BY <2>1, <3>1 DEF CopyFollows
    <3>3. prefs = Loaded(store)
      BY <2>1, <3>2 DEF TypedPrefs, Loaded
    <3>4. \A key \in PrefKeys \ Delays : prefs[key] = store[key]
      BY <3>2 DEF Converted, Delays
    <3>5. /\ prefs["lock-enabled"] = store["lock-enabled"]
          /\ prefs["disable-lock-screen"] = store["disable-lock-screen"]
          /\ prefs["mode"] = store["mode"] /\ prefs["themes"] = store["themes"]
      BY <3>4 DEF PrefKeys, Delays, Flags
    <3> QED BY <2>1, <3>3, <3>5 DEF ManagerFollows
  <2> QED BY <2>3, <2>4 DEF DaemonFollowsSettings
<1> QED BY <1>1, SettingsInvHolds, PTL

(***************************************************************************)
(* The lock timer stands at lock-delay after the activation or has run     *)
(* out, and never runs while the screensaver is off, whatever becomes of   *)
(* the delay meanwhile (gs_manager_set_lock_timeout, remove_timers).       *)
(***************************************************************************)
THEOREM LockTimer == SettingsSpec => []LockTimerIsExact
<1>1. SettingsInv => LockTimerIsExact
  BY DEF SettingsInv, TimersRun, LockTimerIsExact, Elapsed
<1> QED BY <1>1, SettingsInvHolds, PTL

(***************************************************************************)
(* The dialog shows the settings when it has handled what it was told, and *)
(* no locking where it is disabled: what its own answers to a change write *)
(* (key_changed_cb, ui_disable_lock) is announced to it again.             *)
(***************************************************************************)
THEOREM DialogShows == SettingsSpec => []DialogShowsSettings
<1>1. SettingsInv => DialogShowsSettings
  <2> SUFFICES ASSUME SettingsInv, ui.open, changes.dialog = <<>>
               PROVE  /\ ui.enabled <=> store["idle-activation-enabled"]
                      /\ ui.lock <=> store["lock-enabled"]
                      /\ store["disable-lock-screen"] => ~ui.lock /\ ~ui.lock_sensitive
                      /\ ui.activate_delay = ActivateScale(store["idle-delay"])
                      /\ ui.lock_delay = LockScale(store["lock-delay"])
    BY DEF DialogShowsSettings
  <2>1. WidgetsShow(ui, store, Queued(changes.dialog))
    BY DEF SettingsInv
  <2>2. Queued(changes.dialog) = {}
    BY DEF Queued
  <2> QED BY <2>1, <2>2 DEF WidgetsShow
<1> QED BY <1>1, SettingsInvHolds, PTL

(***************************************************************************)
(* While the screensaver is on the cycle timer is due no earlier than one  *)
(* cycle-delay after the activation and no later than one from now, and    *)
(* its interval is the delay, but for what a change of the delay leaves of *)
(* it (gs_manager_set_cycle_timeout, manager_show_window, cycle_timeout):  *)
(* that takes the minute that gs-prefs.c makes of any shorter delay.       *)
(***************************************************************************)
THEOREM Cycles == SettingsSpec => CyclesInTime
<1>1. SettingsInv' => DueInTime'
  BY DEF SettingsInv, TimersRun, DueInTime
<1>2. ASSUME SettingsInv, [SettingsNext]_settingsVars
      PROVE  IntervalKept(manager, manager')
  <2>1. CASE UNCHANGED manager
    BY <2>1 DEF IntervalKept
  <2>2. CASE key_changed_cb
    BY <1>2, <2>2, CopyStep
  <2>3. CASE ManagerStep
    BY <1>2, <2>3, ManagerKeeps
  <2> QED BY <1>2, <2>1, <2>2, <2>3
          DEF SettingsNext, DialogStep, UserStep, TimeStep, other_writes, settingsVars
<1>3. SettingsInv /\ SettingsInv' /\ [SettingsNext]_settingsVars
        => [DueInTime' /\ IntervalKept(manager, manager')]_settingsVars
  BY <1>1, <1>2
<1>4. SettingsSpec => [][SettingsNext]_settingsVars
  BY PTL DEF SettingsSpec
<1> QED BY <1>3, <1>4, SettingsInvHolds, PTL DEF CyclesInTime
=============================================================================
