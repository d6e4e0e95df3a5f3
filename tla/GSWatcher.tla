------------------------------ MODULE GSWatcher ------------------------------
(***************************************************************************)
(* The idle watcher (gs-watcher-x11.c).  It follows the presence status    *)
(* that the session manager reports; when that becomes idle it emits       *)
(* "idle-notice-changed" and, delta_notice_timeout (10 s) later,           *)
(* "idle-changed".  Both signals are answered: the watcher takes the new   *)
(* state only when the answer (`handled') is TRUE.                         *)
(*                                                                         *)
(* Idle detection is always enabled.  The operators give the watcher after *)
(* each of its functions; GSMonitor joins them with what their signals do. *)
(***************************************************************************)
VARIABLES
  watcher,   \* GSWatcherPrivate; idle_id: the timer of on_idle_timeout is set
  presence   \* external: the session manager's last status was idle

watcherVars == <<watcher, presence>>

WatcherState ==
  [active: BOOLEAN, idle: BOOLEAN, idle_notice: BOOLEAN, idle_id: BOOLEAN]

WatcherType == watcher \in WatcherState /\ presence \in BOOLEAN

\* gs_monitor_init has activated it; the status read before that is ignored
WatcherInit ==
  /\ watcher = [active |-> TRUE, idle |-> FALSE, idle_notice |-> FALSE,
                idle_id |-> FALSE]
  /\ presence \in BOOLEAN

\* gs_watcher_set_active and _gs_watcher_reset_state; the timer is left alone
SetWatching(w, active) ==
  IF w.active = active THEN w
  ELSE [w EXCEPT !.active = active, !.idle = FALSE, !.idle_notice = FALSE]

\* _gs_watcher_set_session_idle_notice and _gs_watcher_set_session_idle
NoticeSet(w, in_effect, handled) ==
  [w EXCEPT !.idle_notice = IF handled THEN in_effect ELSE @]

IdleSet(w, is_idle, handled) ==
  [w EXCEPT !.idle = IF handled THEN is_idle ELSE @]

\* set_status returns early: not watching, or neither idle nor noticed
StatusIgnored(is_idle) == ~watcher.active \/ (~is_idle /\ ~watcher.idle_notice)

\* the rest of set_status for an idle status
IdleReported(handled) ==
  [NoticeSet(watcher, TRUE, handled) EXCEPT !.idle_id = TRUE]

\* and for a status that is not idle
ActivityReported(handled) ==
  [NoticeSet(IdleSet(watcher, FALSE, handled), FALSE, TRUE) EXCEPT
     !.idle_id = FALSE]

\* on_idle_timeout, after its first signal has left w; the timer repeats
\* unless the session became idle
IdleTimedOut(w, accepted) ==
  [NoticeSet(IdleSet(w, TRUE, accepted), FALSE, TRUE) EXCEPT
     !.idle_id = ~accepted]
=============================================================================
