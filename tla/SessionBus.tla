------------------------------ MODULE SessionBus ------------------------------
(***************************************************************************)
(* The daemon and mate-screensaver-command on the session bus: how a       *)
(* daemon starts and takes its name (mate-screensaver.c and                *)
(* gs_listener_acquire), how it loses the bus and connects again           *)
(* (reinit_dbus), and how the tool talks to it.  The bus starts a daemon   *)
(* when a call needs one.                                                  *)
(*                                                                         *)
(* What the daemon does with a call is in GSMonitor; here it is who        *)
(* inhibits it, and whether it is active is the answer that it gives.      *)
(***************************************************************************)
EXTENDS Naturals, Sequences

CONSTANTS
  Daemons,      \* processes that run mate-screensaver
  Tools,        \* processes that run mate-screensaver-command
  Invocations,  \* the sets of options that they may be given
  NoDaemon,     \* nobody owns the name
  MaxLosses     \* bound: how often a bus is lost

ASSUME BusAssumption == NoDaemon \notin Daemons /\ MaxLosses \in Nat

VARIABLES
  bus,      \* external: the session bus
  daemon,   \* for each daemon: its progress and its connections
  inbox,    \* for each daemon: what the bus has delivered to it
  tool      \* for each tool: its progress

busVars == <<bus, daemon, inbox, tool>>

(***************************************************************************)
(* A connection: none; connected but without filter, match and name; up;   *)
(* lost, which the filter has yet to see; gone, which nobody will see.     *)
(***************************************************************************)
Conn == {"none", "deaf", "up", "lost", "gone"}

DaemonPcs == {"off", "init", "checked", "named", "running", "exited"}
ToolPcs == {"off", "check", "run", "wait", "block", "ended"}

\* The calls that a tool makes.
Calls == {"Quit", "GetActive", "GetInhibitors", "GetActive -t", "GetActiveTime",
          "Lock", "Unlock", "Cycle", "SimulateUserActivity", "SetActive TRUE",
          "SetActive FALSE", "Inhibit"}

BusType ==
  /\ bus \in [up: BOOLEAN, owner: Daemons \cup {NoDaemon}, losses: 0..MaxLosses,
              pending: Seq(Tools \X Calls)]
  /\ daemon \in [Daemons -> [pc: DaemonPcs, session: Conn, system: Conn,
                             timer: BOOLEAN, inhibitors: SUBSET Tools]]
  /\ \A t \in Tools :
       /\ tool[t].pc \in ToolPcs /\ tool[t].by \in Daemons \cup {NoDaemon}
       /\ tool[t].pc = "wait" => tool[t].todo # <<>>

BusInit ==
  /\ bus = [up |-> TRUE, owner |-> NoDaemon, losses |-> 0, pending |-> <<>>]
  /\ daemon = [d \in Daemons |->
       [pc |-> "off", session |-> "none", system |-> "none", timer |-> FALSE,
        inhibitors |-> {}]]
  /\ inbox = [d \in Daemons |-> <<>>]
  /\ tool = [t \in Tools |-> [pc |-> "off", todo |-> <<>>, by |-> NoDaemon]]

\* processes that have ended
Exited == [pc |-> "exited", session |-> "none", system |-> "none",
           timer |-> FALSE, inhibitors |-> {}]
Ended == [pc |-> "ended", todo |-> <<>>, by |-> NoDaemon]

Serves(d) == daemon[d].pc = "running" /\ daemon[d].session = "up"

-----------------------------------------------------------------------------
(* Messages *)

\* a call to the name; without an owner it is kept while the bus starts one
Sent(t, m) ==
  IF bus.owner = NoDaemon
  THEN bus' = [bus EXCEPT !.pending = Append(@, <<t, m>>)] /\ UNCHANGED inbox
  ELSE inbox' = [inbox EXCEPT ![bus.owner] = Append(@, <<t, m>>)] /\ UNCHANGED bus

\* the calls s, in their order, without those of tool t
Without(s, t) ==
  LET kept[i \in 0..Len(s)] == IF i = 0 THEN <<>>
                               ELSE IF s[i][1] = t THEN kept[i - 1]
                               ELSE Append(kept[i - 1], s[i])
  IN kept[Len(s)]

\* the bus tells that a tool has left to the daemons that asked for it, and
\* drops what it has kept of its calls
Left(t) ==
  /\ inbox' = [d \in Daemons |->
       IF Serves(d) THEN Append(inbox[d], <<t, "NameOwnerChanged">>) ELSE inbox[d]]
  /\ bus' = [bus EXCEPT !.pending = Without(@, t)]

-----------------------------------------------------------------------------
(* The daemon starts *)

\* main and gs_listener_dbus_init
daemon_starts(d) ==
  /\ daemon[d].pc = "off"
  /\ \E system \in {"none", "deaf"} :
       daemon' = [daemon EXCEPT ![d] =
         IF bus.up THEN [@ EXCEPT !.pc = "init", !.session = "deaf",
                                  !.system = system]
         ELSE Exited]
  /\ UNCHANGED <<bus, inbox, tool>>

\* gs_listener_acquire: is there a connection, and no daemon yet?
screensaver_is_running(d) ==
  /\ daemon[d].pc = "init"
  /\ daemon' = [daemon EXCEPT ![d] =
       IF daemon[d].session = "gone" \/ bus.owner # NoDaemon
       THEN Exited ELSE [@ EXCEPT !.pc = "checked"]]
  /\ UNCHANGED <<bus, inbox, tool>>

\* mutant: the answer of the bus is not looked at
request_name_unchecked(d) ==
  /\ daemon[d].pc = "checked"
  /\ IF daemon[d].session = "gone"
     THEN /\ daemon' = [daemon EXCEPT ![d] = Exited]
          /\ UNCHANGED <<bus, inbox>>
     ELSE /\ daemon' = [daemon EXCEPT ![d].pc = "named"]
          /\ bus' = [bus EXCEPT !.owner = IF @ = NoDaemon THEN d ELSE @,
                                !.pending = <<>>]
          /\ inbox' = [inbox EXCEPT ![d] = bus.pending]
  /\ UNCHANGED tool

\* it requests the name, which another may have taken since
request_name(d) ==
  /\ daemon[d].pc = "checked"
  /\ IF daemon[d].session = "gone" \/ bus.owner # NoDaemon
     THEN /\ daemon' = [daemon EXCEPT ![d] = Exited]
          /\ UNCHANGED <<bus, inbox>>
     ELSE /\ daemon' = [daemon EXCEPT ![d].pc = "named"]
          /\ bus' = [bus EXCEPT !.owner = d, !.pending = <<>>]
          /\ inbox' = [inbox EXCEPT ![d] = bus.pending]
  /\ UNCHANGED tool

\* a filter on a connection: a loss so far is still queued, and it sees it
Filtered(c) == IF c = "deaf" THEN "up" ELSE IF c = "gone" THEN "lost" ELSE c

\* the filters and matches come last, on both buses
add_filters(d) ==
  /\ daemon[d].pc = "named"
  /\ daemon' = [daemon EXCEPT
       ![d].pc = "running",
       ![d].session = Filtered(@), ![d].system = Filtered(@)]
  /\ UNCHANGED <<bus, inbox, tool>>

-----------------------------------------------------------------------------
(* Connections get lost *)

Cut(c) == IF c = "up" THEN "lost" ELSE IF c = "deaf" THEN "gone" ELSE c

\* external: the session bus ends, and with it the tools (libdbus exits)
session_bus_lost ==
  /\ bus.up /\ bus.losses < MaxLosses
  /\ bus' = [up |-> FALSE, owner |-> NoDaemon, losses |-> bus.losses + 1,
             pending |-> <<>>]
  /\ daemon' = [d \in Daemons |-> [daemon[d] EXCEPT !.session = Cut(@)]]
  /\ inbox' = [d \in Daemons |-> <<>>]
  /\ tool' = [t \in Tools |-> IF tool[t].pc = "off" THEN tool[t]
                              ELSE Ended]

\* external: it comes back under the same address
session_bus_back ==
  /\ ~bus.up
  /\ bus' = [bus EXCEPT !.up = TRUE]
  /\ UNCHANGED <<daemon, inbox, tool>>

\* external: the system bus drops the connection of a daemon
system_bus_lost(d) ==
  /\ bus.losses < MaxLosses
  /\ daemon[d].system \in {"deaf", "up"} /\ daemon[d].pc # "exited"
  /\ bus' = [bus EXCEPT !.losses = @ + 1]
  /\ daemon' = [daemon EXCEPT ![d].system = Cut(@)]
  /\ UNCHANGED <<inbox, tool>>

\* "Disconnected" in listener_dbus_filter_function and in the system's one
disconnected(d) ==
  /\ daemon[d].pc = "running"
  /\ \/ /\ daemon[d].session = "lost"
        /\ daemon' = [daemon EXCEPT ![d].session = "none", ![d].timer = TRUE]
     \/ /\ daemon[d].system = "lost"
        /\ daemon' = [daemon EXCEPT ![d].system = "none", ![d].timer = TRUE]
  /\ UNCHANGED <<bus, inbox, tool>>

\* reinit_dbus: what is missing is connected again, and nothing else is done
reinit_dbus(d) ==
  /\ daemon[d].pc = "running" /\ daemon[d].timer
  /\ LET session == IF daemon[d].session = "none" /\ bus.up
                    THEN "deaf" ELSE daemon[d].session
     IN IF session = "none" THEN UNCHANGED daemon
        ELSE \E system \in IF daemon[d].system = "none" THEN {"none", "deaf"}
                                                        ELSE {daemon[d].system} :
               daemon' = [daemon EXCEPT ![d].session = session,
                                        ![d].system = system,
                                        ![d].timer = system = "none"]
  /\ UNCHANGED <<bus, inbox, tool>>

-----------------------------------------------------------------------------
(* The daemon handles messages *)

\* the reply goes to the tool if it still waits for this call; when it says
\* that the screensaver is not active, the time is not asked for
Replied(t, m, active) ==
  IF tool[t].pc = "wait" /\ Head(tool[t].todo) = m
  THEN [tool EXCEPT ![t].pc = IF m = "Inhibit" THEN "block" ELSE "run",
                    ![t].todo = IF m = "GetActive -t" /\ ~active
                                THEN SubSeq(@, 3, Len(@)) ELSE Tail(@),
                    ![t].by = IF m = "Inhibit" THEN bus.owner ELSE @]
  ELSE tool

\* mutant: the inhibitors of all are removed
Handled_all(x, t, m) ==
  CASE m = "Inhibit" -> [x EXCEPT !.inhibitors = @ \cup {t}]
    [] m = "NameOwnerChanged" -> [x EXCEPT !.inhibitors = {}]
    [] m = "Quit" -> Exited
    [] OTHER -> x

\* what a message m of tool t makes of daemon x
Handled(x, t, m) ==
  CASE m = "Inhibit" -> [x EXCEPT !.inhibitors = @ \cup {t}]
    [] m = "NameOwnerChanged" -> [x EXCEPT !.inhibitors = @ \ {t}]
    [] m = "Quit" -> Exited
    [] OTHER -> x

listener_dbus_handle_session_message(d) ==
  /\ Serves(d) /\ inbox[d] # <<>>
  /\ LET t == Head(inbox[d])[1]
         m == Head(inbox[d])[2]
     IN /\ daemon' = [daemon EXCEPT ![d] = Handled(@, t, m)]
        /\ inbox' = [inbox EXCEPT ![d] = IF m = "Quit" THEN <<>> ELSE Tail(@)]
        /\ bus' = IF m = "Quit" THEN [bus EXCEPT !.owner = NoDaemon] ELSE bus
        /\ \E active \in BOOLEAN : tool' = Replied(t, m, active)

-----------------------------------------------------------------------------
(* The tool *)

\* the calls of each option
CallsOf(o) ==
  CASE o = "exit" -> <<"Quit">>
    [] o = "query" -> <<"GetActive", "GetInhibitors">>
    [] o = "time" -> <<"GetActive -t", "GetActiveTime">>
    [] o = "lock" -> <<"Lock">>
    [] o = "unlock" -> <<"Unlock">>
    [] o = "cycle" -> <<"Cycle">>
    [] o = "poke" -> <<"SimulateUserActivity">>
    [] o = "activate" -> <<"SetActive TRUE">>
    [] o = "deactivate" -> <<"SetActive FALSE">>
    [] o = "inhibit" -> <<"Inhibit">>

\* the order of do_command; --exit stops at once
CallsFor(O) ==
  LET c(o) == IF o \in O THEN CallsOf(o) ELSE <<>>
  IN IF "exit" \in O THEN CallsOf("exit")
     ELSE c("query") \o c("time") \o c("lock") \o c("unlock") \o c("cycle")
          \o c("poke") \o c("activate") \o c("deactivate") \o c("inhibit")

Void == {"Quit", "Lock", "Unlock", "Cycle", "SimulateUserActivity"}

\* main of the tool
tool_starts(t) ==
  /\ tool[t].pc = "off"
  /\ \E O \in Invocations :
       tool' = [tool EXCEPT ![t] =
         IF bus.up THEN [@ EXCEPT !.pc = "check", !.todo = CallsFor(O)] ELSE Ended]
  /\ UNCHANGED <<bus, daemon, inbox>>

\* its screensaver_is_running: without a daemon it ends
tool_checks(t) ==
  /\ tool[t].pc = "check"
  /\ tool' = [tool EXCEPT ![t] =
       IF bus.owner = NoDaemon THEN Ended ELSE [@ EXCEPT !.pc = "run"]]
  /\ UNCHANGED <<bus, daemon, inbox>>

\* the screensaver_send_message_ functions; some wait for the reply
tool_sends(t) ==
  /\ tool[t].pc = "run" /\ tool[t].todo # <<>>
  /\ Sent(t, Head(tool[t].todo))
  /\ tool' = IF Head(tool[t].todo) \in Void THEN [tool EXCEPT ![t].todo = Tail(@)]
             ELSE [tool EXCEPT ![t].pc = "wait"]
  /\ UNCHANGED daemon

\* mutant: the loop is not ended when there is no reply
call_fails_stuck(t) == tool[t].pc = "wait" /\ UNCHANGED busVars

(***************************************************************************)
(* No reply: an error, or the time-out of the call, whose reply may still  *)
(* come.  The tool ends, except that for GetActiveTime it reads the reply  *)
(* that it has not got, and may survive that.                              *)
(***************************************************************************)
call_fails(t) ==
  /\ tool[t].pc = "wait"
  /\ \/ tool' = [tool EXCEPT ![t] = Ended] /\ Left(t)
     \/ /\ Head(tool[t].todo) = "GetActiveTime"
        /\ tool' = [tool EXCEPT ![t].pc = "run", ![t].todo = Tail(@)]
        /\ UNCHANGED <<bus, inbox>>
  /\ UNCHANGED daemon

\* do_command quits the loop
tool_done(t) ==
  /\ tool[t].pc = "run" /\ tool[t].todo = <<>>
  /\ tool' = [tool EXCEPT ![t] = Ended] /\ Left(t)
  /\ UNCHANGED daemon

\* the user ends a tool that blocks
tool_interrupted(t) ==
  /\ tool[t].pc = "block"
  /\ tool' = [tool EXCEPT ![t] = Ended] /\ Left(t)
  /\ UNCHANGED daemon

-----------------------------------------------------------------------------

DaemonStep(d) ==
  \/ daemon_starts(d) \/ screensaver_is_running(d) \/ request_name(d)
  \/ add_filters(d) \/ disconnected(d) \/ reinit_dbus(d)
  \/ listener_dbus_handle_session_message(d)

ToolStep(t) == tool_checks(t) \/ tool_sends(t) \/ call_fails(t) \/ tool_done(t)

BusNext ==
  \/ \E d \in Daemons : DaemonStep(d) \/ system_bus_lost(d)
  \/ \E t \in Tools : ToolStep(t) \/ tool_starts(t) \/ tool_interrupted(t)
  \/ session_bus_lost \/ session_bus_back

\* a tool that has started goes on: its calls end with a reply or a time-out
BusSpec ==
  /\ BusInit /\ [][BusNext]_busVars
  /\ \A t \in Tools : WF_busVars(ToolStep(t))

-----------------------------------------------------------------------------
(* Properties *)

(***************************************************************************)
(* One daemon serves a session: whatever the order in which daemons start, *)
(* check for each other and request the name, a running one that has not   *)
(* lost the bus owns the name.  The state is of its type.                  *)
(***************************************************************************)
ServesOnlyOwner ==
  /\ BusType
  /\ \A d \in Daemons : Serves(d) => bus.owner = d

(***************************************************************************)
(* While the tool blocks, the daemon that has answered it is inhibited, or *)
(* has ended: neither the end of another tool nor the loss of a connection *)
(* takes its inhibitor away.                                               *)
(***************************************************************************)
InhibitedWhileBlocked ==
  \A t \in Tools : tool[t].pc = "block" =>
    /\ tool[t].by # NoDaemon
    /\ t \in daemon[tool[t].by].inhibitors \/ daemon[tool[t].by].pc = "exited"

(***************************************************************************)
(* A tool that does not inhibit ends, also when no daemon answers, when    *)
(* the daemon quits before the answer or the bus is lost.                  *)
(***************************************************************************)
ToolEnds ==
  \A t \in Tools : tool[t].pc = "check" ~> tool[t].pc \in {"block", "ended"}
=============================================================================
