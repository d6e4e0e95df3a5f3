-------------------------- MODULE PreferencesDialog --------------------------
(***************************************************************************)
(* mate-screensaver-preferences (mate-screensaver-preferences.c): a window *)
(* whose widgets show the settings, write them when the user moves them,   *)
(* and are moved when the settings change, which writes them again.        *)
(* A handler is an operator from the widgets u to the widgets and the      *)
(* writes that it leaves: [ui |-> ..., writes |-> <<key, value>>, ...].    *)
(***************************************************************************)
EXTENDS GSPrefs, SequencesExt

CONSTANTS
  Installed,   \* the theme ids of the theme manager, in its order
  BlankRow,    \* the row "__blank-only"
  RandomRow,   \* the row "__random"
  NoRow        \* no row is selected

ASSUME InstalledAssumption == Installed \in Seq(Themes)
ASSUME RowsAssumption == BlankRow # RandomRow

VARIABLE ui    \* the widgets, and the preview job

NoUi == [open |-> FALSE, tree |-> FALSE, enabled |-> FALSE, lock |-> FALSE,
         lock_sensitive |-> FALSE, activate_delay |-> 0, lock_delay |-> 0,
         selected |-> NoRow, fullscreen |-> FALSE, preview |-> NoRow]

Rows == <<BlankRow, RandomRow>> \o Installed

Result(u, ws) == [ui |-> u, writes |-> ws]

\* handler h on the widgets that the result r leaves
Then(r, h(_)) == LET n == h(r.ui) IN Result(n.ui, r.writes \o n.writes)

-----------------------------------------------------------------------------
(* Widgets that write when they change *)

\* the ranges of the adjustments in the .ui file
ActivateScale(v) == IF v < 1 THEN 1 ELSE IF v > 120 THEN 120 ELSE v
LockScale(v) == IF v < 0 THEN 0 ELSE IF v > 120 THEN 120 ELSE v

\* gtk_range_set_value and activate_delay_value_changed_cb
activate_delay_set(u, v) ==
  LET n == ActivateScale(v)
  IN Result([u EXCEPT !.activate_delay = n],
            IF n = u.activate_delay THEN <<>> ELSE <<<<"idle-delay", n>>>>)

\* mutant: it writes also when the value is the same
lock_delay_set_always(u, v) ==
  Result([u EXCEPT !.lock_delay = LockScale(v)],
         <<<<"lock-delay", LockScale(v)>>>>)

\* the same and lock_delay_value_changed_cb
lock_delay_set(u, v) ==
  LET n == LockScale(v)
  IN Result([u EXCEPT !.lock_delay = n],
            IF n = u.lock_delay THEN <<>> ELSE <<<<"lock-delay", n>>>>)

lock_checkbox_set(u, b) ==
  Result([u EXCEPT !.lock = b],
         IF b = u.lock THEN <<>> ELSE <<<<"lock-enabled", b>>>>)

enabled_checkbox_set(u, b) ==
  Result([u EXCEPT !.enabled = b],
         IF b = u.enabled THEN <<>> ELSE <<<<"idle-activation-enabled", b>>>>)

\* mutant: the box is not cleared
ui_disable_lock_shown(u, disable) ==
  Result([u EXCEPT !.lock_sensitive = ~disable], <<>>)

\* ui_disable_lock: the lockdown clears the box, and with it the setting
ui_disable_lock(u, disable) ==
  LET n == [u EXCEPT !.lock_sensitive = ~disable]
  IN IF disable THEN lock_checkbox_set(n, FALSE) ELSE Result(n, <<>>)

ui_set_lock(u, enabled) ==
  Then(lock_checkbox_set(u, enabled),
       LAMBDA n : ui_disable_lock(n, store["disable-lock-screen"]))

\* ui_set_enabled: the sensitivity it sets first does not last
ui_set_enabled(u, enabled) ==
  Then(enabled_checkbox_set(u, enabled),
       LAMBDA n : ui_disable_lock(n, store["disable-lock-screen"]))

-----------------------------------------------------------------------------
(* Themes *)

\* config_set_theme: the mode, then the list of themes
config_set_theme(row) ==
  CASE row = BlankRow -> <<<<"mode", "blank-only">>, <<"themes", <<>>>>>>
    [] row = RandomRow -> <<<<"mode", "random">>, <<"themes", Installed>>>>
    [] OTHER -> <<<<"mode", "single">>, <<"themes", <<row>>>>>>

\* config_get_theme, as a row
config_get_theme ==
  CASE store["mode"] = "blank-only" -> BlankRow
    [] store["mode"] = "random" -> RandomRow
    [] OTHER -> IF store["themes"] = <<>> THEN NoRow ELSE store["themes"][1]

\* tree_selection_changed_cb: the preview job is restarted, a random theme
\* runs for the random row, and the theme is written
tree_selection_changed(u, row) ==
  {Result([u EXCEPT !.selected = row, !.preview = p], config_set_theme(row)) :
     p \in CASE row = BlankRow -> {NoRow}
             [] row = RandomRow -> IF Installed = <<>> THEN {NoRow}
                                   ELSE ToSet(Installed)
             [] OTHER -> {row}}

\* setup_treeview_selection: the row of the setting becomes the selected one
setup_treeview_selection(u) ==
  IF u.tree /\ config_get_theme \in ToSet(Rows) \ {u.selected}
  THEN tree_selection_changed(u, config_get_theme) ELSE {Result(u, <<>>)}

-----------------------------------------------------------------------------
(* Actions *)

\* the place of the last write of a key among the writes ws
LastWrite(ws, key) ==
  {i \in 1..Len(ws) : ws[i][1] = key /\ \A j \in (i + 1)..Len(ws) : ws[j][1] # key}

\* external: GSettings takes the writes, in their order, and announces them
Written(s, ws) ==
  [key \in DOMAIN s |-> IF LastWrite(ws, key) = {} THEN s[key]
                        ELSE ws[CHOOSE i \in LastWrite(ws, key) : TRUE][2]]

Announced(c, ws, open) ==
  LET keys == [i \in 1..Len(ws) |-> ws[i][1]]
  IN [daemon |-> c.daemon \o keys, dialog |-> IF open THEN c.dialog \o keys
                                                      ELSE <<>>]

Handled(r, c) ==
  /\ ui' = r.ui
  /\ store' = Written(store, r.writes)
  /\ changes' = Announced(c, r.writes, r.ui.open)

\* init_capplet: the handlers of the scales and of the enable box are
\* connected after these are set
Opened(u) ==
  ui_set_enabled(
    [u EXCEPT !.enabled = store["idle-activation-enabled"],
              !.lock = store["lock-enabled"],
              !.activate_delay = ActivateScale(store["idle-delay"]),
              !.lock_delay = LockScale(store["lock-delay"])],
    store["idle-activation-enabled"])

\* setup_for_root_user
RootUser(u) ==
  LET r == lock_checkbox_set(u, FALSE)
  IN Result([r.ui EXCEPT !.lock_sensitive = FALSE], r.writes)

init_capplet(root) ==
  LET r == Opened([NoUi EXCEPT !.open = TRUE])
      themes == IF store["mode"] = "random" THEN <<<<"themes", Installed>>>>
                                            ELSE <<>>
      listed == Result(r.ui, r.writes \o themes)
  IN /\ ~ui.open
     /\ Handled(IF root THEN Then(listed, RootUser) ELSE listed, changes)
     /\ UNCHANGED prefs

\* setup_treeview_idle
setup_treeview_idle ==
  /\ ui.open /\ ~ui.tree
  /\ \E r \in setup_treeview_selection([ui EXCEPT !.tree = TRUE]) :
       Handled(r, changes)
  /\ UNCHANGED prefs

\* key_changed_cb of the dialog; a change of the mode alone is not looked at
key_changed(u, key) ==
  CASE key = "idle-activation-enabled" -> {ui_set_enabled(u, store[key])}
    [] key = "lock-enabled" -> {ui_set_lock(u, store[key])}
    [] key = "disable-lock-screen" -> {ui_disable_lock(u, store[key])}
    [] key = "themes" -> setup_treeview_selection(u)
    [] key = "idle-delay" -> {activate_delay_set(u, store[key])}
    [] key = "lock-delay" -> {lock_delay_set(u, store[key])}
    [] OTHER -> {Result(u, <<>>)}

dialog_key_changed_cb ==
  /\ ui.open /\ changes.dialog # <<>>
  /\ \E r \in key_changed(ui, Head(changes.dialog)) :
       Handled(r, [changes EXCEPT !.dialog = Tail(@)])
  /\ UNCHANGED prefs

\* the user moves a widget
user_toggles_lock == ui.lock_sensitive /\ Handled(lock_checkbox_set(ui, ~ui.lock), changes)
user_toggles_enabled == Handled(enabled_checkbox_set(ui, ~ui.enabled), changes)
user_moves_scale(v) ==
  \/ Handled(activate_delay_set(ui, v), changes)
  \/ Handled(lock_delay_set(ui, v), changes)

\* a row is selected, in the list or with the buttons of the full-screen
\* preview (tree_selection_previous, tree_selection_next)
user_selects(row) ==
  /\ ui.tree /\ row # ui.selected
  /\ ui.fullscreen =>
       \E i \in 1..Len(Rows) : row = Rows[i]
         /\ (\/ i < Len(Rows) /\ Rows[i + 1] = ui.selected
             \/ i > 1 /\ Rows[i - 1] = ui.selected)
  /\ \E r \in tree_selection_changed(ui, row) : Handled(r, changes)

\* fullscreen_preview_start_cb and _cancelled_cb
fullscreen_preview ==
  Handled(Result([ui EXCEPT !.fullscreen = ~@], <<>>), changes)

\* response_cb: the process ends, and its job with it
response_cb ==
  /\ ~ui.fullscreen
  /\ ui' = NoUi /\ changes' = [changes EXCEPT !.dialog = <<>>]
  /\ UNCHANGED store
=============================================================================
