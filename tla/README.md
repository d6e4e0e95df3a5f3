# mate-screensaver in TLA+

This directory models mate-screensaver: what blanks, locks and unlocks the
screen, when, and for whom. It covers the daemon, its unlock dialog, the
command-line tool, the preferences dialog and the one saver with a thread. The
modules are translated from the C sources under `src/src/` and `src/savers/`;
`PROJECT.json` maps each definition to its lines.

## The system

`mate-screensaver` is a single-threaded GLib program: one main loop runs bus
messages, X events, timers and idle sources to completion, one after another.
What is hard is their order. A handler in one component emits a signal, other
components answer it before the handler goes on, idle sources and timers run
much later, when the state they were queued for may have changed, and some
handlers run the main loop again inside themselves. Around it are other
processes: the dialog, which has a PAM thread, X clients that grab devices, the
tool, other daemons on the bus, and whoever writes the settings.

| component | state | operations | talks to |
|---|---|---|---|
| manager (`gs-manager.c`) | active, lock_active, dialog_up, throttled, timers, windows, jobs | activate, deactivate, lock, throttle, cycle, request unlock, hotplug | windows and jobs (owns), grab, fade; "deactivated" to the monitor |
| window (`gs-window-x11.c`) | lock_enabled, popup idle, dialog and keyboard pids, watches, sockets, key queue, visibility | show, request unlock, run the dialog, shake it, pop it down | "activity", "deactivated", "dialog-up-changed", "obscured" to the manager; pipes to the dialog process |
| job (`gs-job.c`) | pid, status | start, stop, suspend, resume, child exit | theme processes |
| grab (`gs-grab-x11.c`) | grabbed window, with or without the pointer | grab root/off screen, move, release, reset | the X server |
| fade (`gs-fade.c`) | kind of fade, saved ramps, level, timer | fade, step, reset | the X server |
| listener (`gs-listener-dbus.c`) | active, session idle, activation enabled, tables of inhibitors and throttlers, connections | D-Bus methods, NameOwnerChanged, logind and ConsoleKit signals, start-up, reconnection | session manager (blocking calls), logind, ConsoleKit; asks the monitor through "active-changed" |
| watcher (`gs-watcher-x11.c`) | active, idle, idle notice, idle timer | presence status, idle time-out | "idle-notice-changed", "idle-changed" to the monitor |
| monitor (`gs-monitor.c`) | the timer that frees the grab | one handler per signal of the others | everything above |
| preferences store (`gs-prefs.c`) | a converted copy of the settings | load, change | "changed" to the monitor |
| preferences dialog (`mate-screensaver-preferences.c`) | widgets, preview job | widgets that write, changes that move widgets | GSettings |
| dialog process (`mate-screensaver-dialog.c`, `gs-lock-plug.c`, `gs-auth-pam.c`) | prompt, timers, failures, the thread and its conversation | prompt, verify, retry, cancel, time out | one line of text per event to the window |
| command tool (`mate-screensaver-command.c`) | the calls left to make | one sequence of calls per option | D-Bus |
| slideshow (`savers/gste-slideshow.c`) | current and next picture, fade, queues | load in a thread, fade, resize | files |

What makes each of them right, and where that is stated:

* a lock covers every monitor until the screensaver goes off
  (`LockCoversEveryMonitor`, `ImplementsScreenLock`, `LockIsDeliberate`);
* one dialog at a time, with the input, and whatever it answers is acted on
  (`DialogOwnsInput`, `AcceptedIsPending`, `AcceptedUnlocks`), and only a dialog
  that fails is left unserved (`DialogUpIsServed`);
* a locked window opens only for an accepted user, and no process or key goes
  astray on the way (`OnlyAcceptedDeactivates`, `ImplementsProtocol`,
  `ChildrenAreKnown`, `KeysReachTheirDialog`, `QuitIsGranted`);
* the dialog's thread and loops do not lose each other, and it ends
  (`ThreadWaitsWhileAsking`, `DialogEnds`);
* themes do not run when they should not (`QuietJobs`);
* inhibitors and throttlers last as long as their owners want and no longer
  (`EntriesAreOwned`, `ThrottledWhileRequested`, `ThrottleLasts`,
  `FailuresOnlyLeak`, `ExitEndsRequests`, `InhibitedWhileBlocked`);
* the components agree although each keeps its own copy (`ComponentsAgree`,
  `DaemonFollowsSettings`, `DialogShowsSettings`, `RecordIsTrue`);
* the devices and the gamma of the screen are held when they must be and given
  back (`InputFreedWhenOff`, `NoticeGrabEnds`, `KeyboardIsKept`, `MovesEnd`,
  `FadeIsReversible`, `ActiveIsUndimmed`);
* timers keep their time when settings change (`LockTimerIsExact`,
  `CyclesInTime`) and idleness activates when it may (`IdleActivationIsAllowed`);
* one daemon serves a session and the tool ends (`ServesOnlyOwner`, `ToolEnds`);
* the slide show goes on (`OneInFlight`, `PullFindsResult`,
  `EveryPictureIsShown`).

The hazards, each at its line, are listed in `PROJECT.json`.

## The modules

The daemon:

* `GSManager` – the manager with its windows, jobs, idle sources and the grab.
  A window is named by its monitor. A Boolean field of `GSWindowPrivate` is the
  set of windows in which it is TRUE, so `win.lock_enabled` is the set of
  windows that ask for a password. `jobs.running` are the windows whose job has
  a process, `jobs.stopped` the ones whose process got SIGSTOP. `idles` counts
  the pending idle sources that end in a deactivation. `RequestUnlock` takes
  the state that the earlier part of a handler has produced, because it is the
  last call of four handlers. `emit_on_freed_window` is the idle source of a
  window that was destroyed: the code neither removes it nor holds a reference,
  so the model lets it do nothing or reach a new window.
* `ScreenLock` – the abstract specification: off, blank or locked, the same on
  every monitor, and no way from locked to blank.
* `GSListener` – the bus interface. `handled` is the answer of the
  "active-changed" handler; on its own the listener gets any answer. `clients`,
  `exited`, `session` and `away` describe the outside world: connections, the
  ones that have ended, the session manager's inhibitors with the number of
  calls to it that failed, and whether ConsoleKit has announced another session.
  An entry made for ConsoleKit is marked (`ck`), because its owner is a name of
  the system bus and may equal a client's name on the session bus (`CkName`).
  `namesake` is history: such a client has ended or given up a name while the
  session was away, so that its NameOwnerChanged may have taken the throttle.
* `GSWatcher` – the idle watcher, as operators on its state.
* `GSMonitor` – extends the three and joins their operators into the handlers
  of `gs-monitor.c`. A step is a handler with everything its signals do in the
  other components; `Answers` says what the manager replies.
* `GSGrab` – a call of the grab object, one attempt per step, because other X
  clients run between attempts. `server` is what the X server knows: who holds
  each device and how deep it is grabbed; `grab` is what the code believes.
* `GSFade` – the fade, in steps of `Full`. `gamma` is what the server has: a ramp
  for each CRTC and the gamma number of XF86VidMode, which sets all ramps.
  `fade.info` is the array of the code: none, of size 0 (the gamma number
  `fade.vmg` is used) or with the ramps `fade.saved`. As in the code the choice
  is by the array and not by the kind of fade, so a ramp with a size that could
  not be read is written as the zeros it was allocated with.
* `Devices` – extends both with the handlers of the manager and the monitor
  that use them. A handler that makes a blocking call is two actions, the part
  before and the part after (`idle_notice` and `idle_notice_grabbed`); nothing
  but other clients runs between them.

The dialog:

* `GSWindow` – one window after another, with the dialog and the keyboard
  helper each spawns. `pipes` are the unread lines of a dialog. `shakes` is the
  stack of `shake_dialog` calls whose nested main loop is running. `answers` is
  history: the window and the dialog of each OK that was read. A call that
  returns to a window destroyed meanwhile uses freed memory, so the model lets
  it do nothing or crash.
* `DialogProtocol` – the abstract specification of the process: which line may
  follow which. `GSWindow` reads from processes that obey it (INSTANCE) and
  `LockDialog` implements it.
* `LockDialog` – the process: `pc` says in which of the three nested main loops
  the main thread is, `worker` where the PAM thread is.

Settings, bus and saver:

* `GSPrefs` – the settings as GSettings keeps them, the announcements that are
  still to be handled, and the daemon's converted copy.
* `PreferencesDialog` – its handlers as operators from widgets to widgets and
  writes; setting a widget calls its handler, which may write.
* `ManagerTimers` – the manager's lock and cycle timers with a clock in minutes,
  and the selection of a theme.
* `Settings` – composes the three with `_gs_monitor_update_from_prefs`.
* `SessionBus` – daemons that start, take the name, lose their buses and connect
  again, and tools with the calls of their options.
* `Slideshow` – the main loop and the loader thread; pushing a result is four
  steps, because the main loop runs between attaching the source and storing
  its id.

`MCManager`, `MCListener`, `MCMonitor`, `MCWindow`, `MCDialog`, `MCDevices`,
`MCSettings`, `MCBus` and `MCSlideshow` are the instances for TLC. The modules
whose names end in `Proofs` have the theorems about the module they are named
after; `GSMonitorProofs` extends those of the manager and is about the listener
too, `DevicesProofs` is about the grab and the fade, and `SettingsProofs` about
all four modules of the settings.

Operators whose comment begins with "mutant" are deliberately wrong variants of
the definition that follows them; `PROJECT.json` names the property that each
one breaks. No specification uses them.

## The runs

Passing runs:

| run | instance | shows |
|---|---|---|
| `manager` | 2 monitors, themes, failing dialogs | `LockCoversEveryMonitor`, `DialogOwnsInput`, `AcceptedIsPending`, `QuietJobs`, `ImplementsScreenLock`, `DialogUpIsServed` |
| `listener` | 2 clients, one with ConsoleKit's unique name, 2 cookies, 1 failing call | `ThrottledWhileRequested`, `EntriesAreOwned`, `FailuresOnlyLeak`, `ThrottleLasts`, `ExitEndsRequests` |
| `monitor` | 1 monitor, 1 client, 1 cookie, logind, the grab may fail | `ComponentsAgree`, `InputFreedWhenOff`, `IdleActivationIsAllowed` |
| `monitor_live` | 1 monitor, no client, failing dialogs, fairness | `LockIsDeliberate`, `NoticeGrabEnds`, `AcceptedUnlocks` |
| `window` | 2 windows in turn, 2 dialogs, 2 unread lines | `ChildrenAreKnown`, `KeysReachTheirDialog`, `OnlyAcceptedDeactivates`, `QuitIsGranted` |
| `dialog` | 3 attempts, 2 PAM messages each, 4 inputs | `ThreadWaitsWhileAsking`, `ImplementsProtocol`, `DialogEnds` |
| `devices` | 2 windows, 2 CRTCs, another client that grabs twice | `FadeIsReversible`, `RecordIsTrue`, `KeyboardIsKept`, `MovesEnd`, `ActiveIsUndimmed` |
| `settings` | 2 themes, 1 foreign write, 2 inputs, 2 minutes | `DaemonFollowsSettings`, `LockTimerIsExact`, `DialogShowsSettings`, `CyclesInTime`, `SettingsSettle` |
| `slideshow` | 3 files, 2 readable, 2 sizes, 3 events | `OneInFlight`, `PullFindsResult`, `EveryPictureIsShown` |
| `bus` | 2 daemons, 2 tools, 1 loss of a bus | `ServesOnlyOwner`, `InhibitedWhileBlocked`, `ToolEnds` |

The type invariant of a run's top module is the first conjunct of one of its
invariants (for example `ListenerType` of `EntriesAreOwned` and `WindowType`,
with the limit of the key queue, of `KeysReachTheirDialog`); the manager's
(`ManagerType`) is a part of `MonitorType`, the first conjunct of
`ComponentsAgree`, and `TypeCorrect` proves it for any set of monitors.

Violation runs, each a disagreement between the code and a line of its
documentation or comments (quoted in `PROJECT.json` "findings"):

| run | what happens |
|---|---|
| `lock_lost` | an idle source queued by user activity before a lock request undoes the lock without a password (the run locks only by requests) |
| `devices_unplug` | the monitor with the dialog is unplugged while another client has the pointer: the daemon retries with the X server grabbed, so the client can never let go |

### Bounds

* Monitors: two, which is enough for a window with the dialog and another one,
  for unplugging either, and for one plugged in under a dialog. The theorems
  below hold for any number. Monitors are symmetric in the `manager` run.
* `MaxIdles` = 1 pending idle source of each kind per window. A second one does
  what the first did, after it; two different ones (of the window, of a freed
  window and of the manager) are pending together. The `manager` run has the
  constraint `FewPending`: at most two of the five there could be are pending at
  once, which leaves every pair of them in either order; the theorems of
  `GSManagerProofs` hold without it.
* Cookies: two, so that two clients, or one client and ConsoleKit, hold entries
  at once. A cookie is the bound on the entries in a table. One call to the
  session manager fails: an inhibitor is leaked, and calls that succeed follow.
  `CkName` is one of the two clients, so entries of the two buses meet under one
  name, next to a client without a namesake.
* The `monitor` run has the constraint `NoDialog`: no dialog, no obscured
  window, no freed window. The properties checked there say nothing of these;
  the dialog is in `manager` and `monitor_live`.
* `lock_lost` has the constraint `OnlyRequestsLock`: no lock by a timer or a
  changed preference, so that what is undone was requested.
* `window`: a dialog and the one after it, a window and the one after it, so
  left-over responses, keys, watches and shakes of the first can reach the
  second; `MaxQueuedEvents` is 2 for the code's 16, and the bound is reached.
* `dialog`: three attempts (`MAX_FAILURES`) for the code's five; the four inputs
  can cancel, answer and type ahead in one attempt.
* `devices`: the code's twelve attempts are two; `Full` = 2 levels give a dimmed,
  a black and a bright screen; the other client grabs twice in all.
* `settings`: delays below the minimum, ordinary and above the limit; one list
  of themes that is not the installed one.
* `slideshow`: the events (resizes and changes of the directory) are bounded so
  that the size and the directory settle, which `EveryPictureIsShown` needs.
* Outside `ManagerTimers` timers have no clock: a timer that is set may fire at
  any later step. That includes every relative speed.

Deadlock is checked for the manager, the listener and the slide show. The others
end: Quit ends the main loop, the dialog process and the tools exit, and the
bounded inputs of the rest run out.

### Fairness

* `MonitorFairness`: weak fairness of the handlers that the main loop owes, the
  idle sources of `emit_deactivated_idle` and `window_deactivated_idle` and the
  timers of `on_idle_timeout` and `release_grab_timeout`, as long as the loop
  runs. GLib dispatches every ready source. Nothing is assumed of users,
  clients, X events or the dialog.
* `ListenerSpec`: the bus delivers NameOwnerChanged for a connection that ended.
* `WindowSpec`: the watch of each dialog is dispatched, and a shake, which lasts
  eight rounds of 10 ms, returns.
* `DialogSpec`: the main loop, its timers and the thread run, and PAM's modules
  return. Nothing is assumed of the user.
* `DevicesSpec`: the daemon and its fade timer run. The unfade timer and the
  other client's release need strong fairness: the main loop is blocked, and the
  server grabbed, again and again, but not for ever.
* `SettingsSpec`: both processes handle what is announced to them.
* `SlideSpec`: the thread, the timers and the idle source run.
* `BusSpec`: a tool that has started goes on; libdbus ends a call with a reply
  or a time-out.

## The proofs

Every invariant and every action property of the passing runs is a theorem for
all values of the constants. So are the two refinements. Each proof has the same shape: an inductive invariant that
TLC has checked on the instance of the run, one lemma for each handler or group
of handlers that it survives, and a temporal step at the end.

| module | theorems |
|---|---|
| `GSManagerProofs` | `TypeCorrect` (`ManagerType`), `LockCovers` (`LockCoversEveryMonitor`), `Implements` (`ImplementsScreenLock`), `DialogOwns` (`DialogOwnsInput`), `Quiet` (`QuietJobs`), `Accepted` (`AcceptedIsPending`), `DialogServed` (`DialogUpIsServed`) |
| `GSMonitorProofs` | `Owned` (`EntriesAreOwned`), `OnlyLeaks` (`FailuresOnlyLeak`), `Throttled` (`ThrottledWhileRequested`), `Lasts` (`ThrottleLasts`), `DrivesManager`, `DrivesListener`, `DaemonLocks` (the lock in the daemon), `Agreement` (`ComponentsAgree`), `InputFreed` (`InputFreedWhenOff`), `OnlyDeliberateLocks` (`LockIsDeliberate`), `OnlyAllowedActivations` (`IdleActivationIsAllowed`) |
| `GSWindowProofs` | `Children` (`ChildrenAreKnown`), `Keys` (`KeysReachTheirDialog`), `AcceptedOnly` (`OnlyAcceptedDeactivates`) |
| `LockDialogProofs` | `ThreadWaits` (`ThreadWaitsWhileAsking`), `ObeysProtocol` (`ImplementsProtocol`) |
| `DevicesProofs` | `Reversible` (`FadeIsReversible`), `Record` (`RecordIsTrue`), `Kept` (`KeyboardIsKept`) |
| `SettingsProofs` | `Follows` (`DaemonFollowsSettings`), `LockTimer` (`LockTimerIsExact`), `DialogShows` (`DialogShowsSettings`), `Cycles` (`CyclesInTime`) |
| `SlideshowProofs` | `AlwaysOneInFlight` (`OneInFlight`), `PullFinds` (`PullFindsResult`) |
| `SessionBusProofs` | `OneServes` (`ServesOnlyOwner`), `BlockInhibits` (`InhibitedWhileBlocked`) |

### The arguments

*The manager's lock.* `LockInv` adds to `LockCoversEveryMonitor` its types and
`monitors # {}`: without the latter an active manager could have no window, its
hotplug handlers would not be connected, and a monitor plugged in then would
stay uncovered. `LockMoves` sorts every step into six kinds (nothing of the lock
changes, locking, activation, deactivation, plugging, unplugging); `StepMoves`
and `CallMoves` show it handler by handler. Each kind keeps `LockInv`
(`LockStep`) and is a step of `ScreenLock` or a stutter (`RefinesNext`).

*The manager's dialog, jobs and answers.* The invariants build on each other:
`DialogInv` is `LockInv` with `DialogOwnsInput`; `KnownInv` adds that the fields
of windows are about windows that exist, without which a new window could
inherit an obscured or accepted state; `QuietInv` and `AcceptedInv` add their
property to it. `RequestUnlock`, the last call of four handlers, has one lemma
for each invariant.

*The daemon.* `CallsManager` and `CallsListener` show that each handler of
`gs-monitor.c` is a step of `GSManager` and a step of `GSListener`. Hence
`DrivesManager` and `DrivesListener`, and everything proved of the two carries
over (`DaemonLocks`). `DaemonInv` adds `Agree`, what the three components know
of each other, `InputFreedWhenOff`, and `LockPrefs`, that a manager
whose lock is enabled was told so while locking was not disabled. The two action properties are the conjuncts
`Deliberate` and `Allowed` of what every handler is shown to do.

*The listener.* `ThrottleInv` says what `away` means for the tables: ConsoleKit's
entry is there under the cookie that the listener keeps for it, or `namesake`
says how it went.

*The window.* `WindowInv` has an order for each of the things that outlive a
dialog: the pids that are kept are ones that were given out (`PidsOf`), queued
keys are for the dialog that is expected (`KeyOrder`), only a process that has
accepted the user has written RESPONSE=OK, read or unread (`ProcessOrder`), and
an OK that is kept was read by this window from such a dialog
(`ResponseOrder`). A `shake_dialog` that returns to a
destroyed window and does nothing is a stutter of all of them.

*The dialog process.* `ThreadOrder` relates the main thread's loop, the worker
and the mutex, `AttemptOrder` the attempt and what is accepted, `LineOrder` the
lines: nothing follows RESPONSE=OK. The refinement of `DialogProtocol` follows
from it action by action.

*The devices.* `FadeInv`: without the array no ramps are kept, so what is
read when it is made comes from an undimmed screen; a ramp that was not read
leaves the gamma number alone, which every later fade uses. `DevicesInv`: the depth of
the server grab is the one of the call in progress (`Depth`), and a call knows
what the handler that made it knew (`CallOrder`), since other clients run
between its attempts.

*The settings.* The properties speak of moments at which nothing is queued;
`SettingsInv` says what holds in between: of every key, the daemon's copy is
current or the key is queued for the daemon (`CopyFollows`), and its widget
shows it or the key is queued for the dialog (`WidgetsShow`). The manager has
the copy at any time (`ManagerFollows`). A handler of the dialog has one
obligation, `Leaves`: each widget shows its key, or the handler writes the key,
or the key was queued. Since what is written is announced to the writer as well,
the value that a chain of writes leaves does not matter (`WritesQueued`), only
that keys which are not written keep theirs (`WrittenTyped`). The box for
locking needs a fact of two keys: once the lockdown has been handled the box is
off and cannot be set, so nothing the user does later undoes what
`ui_disable_lock` cleared. `TimersRun` states the two timers with the clock, and
`IntervalKept` follows a changed delay through `CycleTimeoutSet`; `Cycles` also needs that the copy of `cycle-delay` is never 0
(`ConvertedTyped`), for with 0 `manager_show_window` starts no timer.

*The slide show.* `SlideInv` counts: the timer, the request, the load, the queued
result and the fade add up to one, `InFlight` = 1. That no fade is cut off and
that the assertion of `results_pull_func` holds both follow from the count.

*The bus.* `NameOrder`: a daemon is connected with filters only while it owns the
name, because `add_filters` comes after the request and a cut connection never
comes back with filters. `NewsOrder`: news of a tool's end is queued only for a
tool that has ended, so it cannot remove the inhibitor of one that blocks. What
the bus keeps when a tool leaves (`Without`, a recursive function) is shown to
be a sequence of calls of other tools (`WithoutTool`) by the least-number
principle, `Least`: a first prefix that is filtered wrongly would follow one
that is filtered rightly. That is how induction over data is done here; the
library's induction theorems take an operator as a parameter, which the provers
cannot instantiate.

### Assumptions

The named assumptions of the modules give the bounds their types
(`BoundsAssumption`, `WindowBoundsAssumption`, `DialogBoundsAssumption`,
`CallsAssumption`, `OthersAssumption`, `EventsAssumption`, `TicksAssumption`,
`FadeAssumption`, `TimeAssumption`), and so for what is written and installed
(`PrefsAssumption`, `WritersAssumption`, `InstalledAssumption`), keep "none"
apart from the values (`GrabTargetsAssumption`, `GrabAssumption`,
`CookiesAssumption`, `BusAssumption`) and the two special rows of the
preferences dialog from each other (`RowsAssumption`), say that a display has
finitely many monitors and at least one (`MonitorsAssumption`), and that the
pictures of the slide show are numbers other than 0, which stands for no file
(`FilesAssumption`). TLC evaluates all of them. No theorem has a hypothesis of
its own.

### Model-checked only

* Liveness: `ExitEndsRequests`, `NoticeGrabEnds`, `AcceptedUnlocks`,
  `QuitIsGranted`, `DialogEnds`, `MovesEnd`, `ActiveIsUndimmed`,
  `SettingsSettle`, `EveryPictureIsShown`, `ToolEnds`. The prover treats neither
  fairness nor ENABLED.
* The runs that expect a violation.

## Observations without a run

Behaviour of the code that the models contain, in so far as their state can
tell, and that a reader of the code should know. The first four depart from what
the documentation, a comment or the purpose of the code says; the properties
state each of them exactly, as what does happen:

* A dialog that could not be spawned or read from stays "up", and
  `gs_manager_request_unlock` (`gs-manager.c:1933`) refuses every request on the
  locked screen until a monitor is plugged in or the bus deactivates, although
  `dbus-interface.xml:79` says that "authentication will be requested if
  necessary". `DialogUpIsServed` has the two failures as the only way there.
* A client that only gives up a well-known name loses its inhibitors and its
  throttlers (`gs-listener-dbus.c:1103`), although `dbus-interface.xml:159` says
  "until UnThrottle is called or the calling process exits". And unique names of
  the two buses are compared, so a client with ConsoleKit's takes the throttle
  of a session that is away along; the cookie that the listener keeps may then
  be given to a client, whose throttler goes when the session is active again.
  `ThrottleLasts` and `ThrottledWhileRequested` have these and no other case.
* A ramp whose size can be read and whose contents cannot (`gs-fade.c:332`) is
  written as zeros at every level (`gs-fade.c:189`): a cancelled fade, too,
  leaves the screen black (`Blackened`). `FadeIsReversible` and
  `ActiveIsUndimmed` have this as their only exception.
* A change of the cycle delay leaves the repeating timer with what was left of
  the new delay, 0 when nothing was (`gs-manager.c:787`), so themes change before
  "the number of minutes to run before changing the screensaver theme" (the
  schema) are over. `CyclesInTime` says how short the interval gets, and that
  the first change is never early.

Manager and window: a window that is mapped after the dialog has come up grabs
the pointer again (`gs-manager.c:1245`). A throttle that begins while the dialog
is up and ends after it leaves the job stopped (`gs-manager.c:423`). The idle
source of a destroyed window uses freed memory (`gs-window-x11.c:652`). A
deactivation with a dialog up grabs the devices once more after releasing them;
they go with the window. After a monitor is removed nobody grabs again until
the next window or dialog does. `prepare_for_sleep_cb` locks nothing: a sleep
goes ahead on an unlocked screen.

Idle: the idle timer is kept when the watcher ignores a status
(`gs-watcher-x11.c:368`) and may activate in a session in use; an idle state
accepted while activation is disabled is never left (`gs-watcher-x11.c:225`).
The timer that frees the grab of a notice is not removed when the next notice
begins, and then frees that one's grab early (`gs-monitor.c:154`).

Bus: after `reinit_dbus` the daemon has no name, no object and no filter: it is mute,
a second loss is not seen, and inhibitors of tools stay for ever. A client that
leaves between the request for the name and the match for NameOwnerChanged
leaks its inhibitor. `mate-screensaver-command -i` goes on blocking when the
daemon it inhibits has ended. For `--time` the tool reads the reply to
GetActiveTime also when there is none.

Grab and fade: the second attempt of `gs_grab_move` cannot succeed where the
first failed, for the server stays grabbed in between; the old grab is resumed
with the new `no_pointer_grab`. A failed set-up of the RandR fade leaves the
array of ramps in place, so the next fade starts without reading them.

Settings: opening the dialog may write `mode` and `themes`, and with locking
disabled by the administrator it clears `lock-enabled`, which stays cleared
when the lockdown ends. The scales end at two hours and write their limit back.
An idle delay below 1 is shown as 1 and taken as 10 by the daemon. Enabling
the lock after its timer has fired locks nothing before the next activation. A
monitor plugged in restarts the lock timer.

Dialog: a delayed `reset_idle_cb` makes the entry sensitive in a later state.
RESPONSE=CANCEL may be followed by other lines, which the window no longer
reads. Every message of PAM that is not a prompt interrupts the conversation.
`g_cond_wait` in `gs-auth-pam.c:224` tests no predicate; spurious wake-ups, which
GLib permits, are not in the model, and with them the handler would use data
of a call that has returned.

Slide show: after a resize the window stays blank until the next picture. An
empty or unreadable directory is polled every 10 ms. Width and height are read
without a lock, so one picture may have a size the window never had.

## Not modelled

Drawing, geometry, themes' names and command lines, the info bar, the X event
filter that keeps windows on top, the text of messages, D-Bus introspection, the
watchdog of the X screensaver. The synchronous fade has no caller. Of the
dialog: the Log Out button, the layout, the face image, caps lock and the back
ends other than PAM, which are single blocking calls. Of the preferences
dialog: installing themes and the picture chooser's preview. Theme lookup is a
query of libmate-menu. Privileges are a sequence of system calls whose failure
is a choice of `LockDialog`. The other savers are single-threaded animations
whose state is floating-point geometry.

## Plan

1. (done) `GSManager`, `ScreenLock`, `GSListener`, `GSWatcher`, `GSMonitor`, their
   runs, and the proofs of the manager's lock.
2. (done) `GSWindow`, `LockDialog` and their protocol; `GSGrab`, `GSFade` and
   `Devices`; `GSPrefs`, `PreferencesDialog`, `ManagerTimers` and `Settings`;
   `SessionBus`; `Slideshow`.
3. (done) Proofs of the safety properties of the manager, the listener, the
   daemon, the window, the dialog process, the devices, the slide show and the
   bus, for any number of monitors, clients, dialogs, attempts, CRTCs, files,
   daemons and tools.
4. (done) Proofs about the settings: that the daemon and the dialog follow what
   is written, and that both timers of the manager keep their time.
