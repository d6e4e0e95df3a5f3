------------------------------ MODULE GSListener ------------------------------
(***************************************************************************)
(* The bus interface of the daemon (gs-listener-dbus.c): whether the       *)
(* screensaver is active and the session idle, and the tables of           *)
(* inhibitors and throttlers with their owners.                            *)
(*                                                                         *)
(* gs_listener_set_active emits "active-changed" and changes its state     *)
(* only when the handler (gs-monitor.c) says so: that answer is the        *)
(* parameter `handled' of the operators below.  A bus message is handled   *)
(* to its end before the next one, and the blocking calls to the session   *)
(* manager dispatch nothing, so a handler is one action.                   *)
(***************************************************************************)
EXTENDS Naturals, FiniteSets

CONSTANTS
  Clients,         \* unique names of connections on the session bus
  CkName,          \* ConsoleKit's unique name on the system bus; a client
                   \* may have the same one on the session bus
  Cookies,         \* what generate_cookie may return; bound: live entries
  NoCookie,        \* the zero of cookies
  MaxFailures      \* bound: how many of the blocking bus calls fail

ASSUME CookiesAssumption == NoCookie \notin Cookies
ASSUME CallsAssumption == MaxFailures \in Nat

VARIABLES
  listener,    \* GSListenerPrivate
  inhibitors,  \* the hash table of REF_ENTRY_TYPE_INHIBIT, a set of entries
  throttlers,  \* the one of REF_ENTRY_TYPE_THROTTLE
  session,     \* external: inhibitors the session manager holds for us, and
               \* how many calls to it have failed
  clients,     \* external: connections whose end has not been handled yet
  exited,      \* external: the ones among them that have ended
  namesake,    \* history: since the session left, a connection with
               \* ConsoleKit's unique name has ended or given up a name
  away         \* external: ConsoleKit has told us our session is not active

listenerVars ==
  <<listener, inhibitors, throttlers, session, clients, exited, namesake, away>>

Entry == [cookie: Cookies, connection: Clients \cup {CkName},
          foreign: Cookies \cup {NoCookie}, ck: BOOLEAN]

ListenerState == [active: BOOLEAN, session_idle: BOOLEAN,
                  activation_enabled: BOOLEAN, throttled: BOOLEAN,
                  ck_throttle_cookie: Cookies \cup {NoCookie}]

ListenerType ==
  /\ listener \in ListenerState
  /\ inhibitors \in SUBSET Entry
  /\ throttlers \in SUBSET Entry
  /\ session \in [held: SUBSET Cookies, failed: 0..MaxFailures]
  /\ clients \in SUBSET Clients
  /\ exited \in SUBSET clients
  /\ namesake \in BOOLEAN /\ away \in BOOLEAN

ListenerInit ==
  /\ listener \in [active: {FALSE}, session_idle: {FALSE},
                   activation_enabled: BOOLEAN, throttled: {FALSE},
                   ck_throttle_cookie: {NoCookie}]
  /\ inhibitors = {} /\ throttlers = {} 
  /\ session = [held |-> {}, failed |-> 0]
  /\ clients = Clients /\ exited = {} /\ namesake = FALSE /\ away = FALSE

-----------------------------------------------------------------------------
(* The active and the idle state *)

\* gs_listener_set_active with listener_set_active_internal, on the state l
SetActive(l, active, handled) ==
  IF l.active = active THEN l
  ELSE IF handled
       THEN [l EXCEPT !.active = active, !.session_idle = active]
       ELSE [l EXCEPT !.session_idle = @ /\ ~active]

\* mutant: activation_enabled is not tested
WantsActivation_always(l, inh) == l.session_idle /\ inh = {}

\* listener_check_activation gets as far as gs_listener_set_active (TRUE)
WantsActivation(l, inh) ==
  l.activation_enabled /\ l.session_idle /\ inh = {}

CheckActivation(l, inh, handled) ==
  IF WantsActivation(l, inh) THEN SetActive(l, TRUE, handled) ELSE l

\* gs_listener_set_session_idle: what it returns, and the state after it
SessionIdleAccepted(idle, handled) ==
  LET l == [listener EXCEPT !.session_idle = idle]
  IN /\ listener.session_idle # idle
     /\ idle => inhibitors = {}
     /\ WantsActivation(l, inhibitors) => ~l.active /\ handled

SessionIdleSet(idle, handled) ==
  LET l == [listener EXCEPT !.session_idle = idle]
  IN IF SessionIdleAccepted(idle, handled)
     THEN CheckActivation(l, inhibitors, handled) ELSE listener

gs_listener_set_session_idle(idle, handled) ==
  /\ listener' = SessionIdleSet(idle, handled)
  /\ UNCHANGED <<inhibitors, throttlers, session, clients, exited, namesake, away>>

\* SetActive, Unlock and the logind and ConsoleKit Unlock signals
gs_listener_set_active(active, handled) ==
  /\ listener' = SetActive(listener, active, handled)
  /\ UNCHANGED <<inhibitors, throttlers, session, clients, exited, namesake, away>>

gs_listener_set_activation_enabled(enabled) ==
  /\ listener' = [listener EXCEPT !.activation_enabled = enabled]
  /\ UNCHANGED <<inhibitors, throttlers, session, clients, exited, namesake, away>>

-----------------------------------------------------------------------------
(* Inhibitors, proxied to the session manager *)

CookiesOf(entries) == {e.cookie : e \in entries}

\* mutant: a call that fails leaves some other foreign cookie
add_session_inhibit_stale(foreign) ==
  /\ foreign \in Cookies /\ session.failed < MaxFailures
  /\ session' = [session EXCEPT !.failed = @ + 1]

(***************************************************************************)
(* add_session_inhibit: the foreign cookie of the new entry.  A call that  *)
(* fails leaves it zero, and the session manager may or may not hold the   *)
(* inhibitor when only the reply was lost.                                 *)
(***************************************************************************)
add_session_inhibit(foreign) ==
  \/ /\ foreign \in Cookies \ session.held
     /\ session' = [session EXCEPT !.held = @ \cup {foreign}]
  \/ /\ session.failed < MaxFailures /\ foreign = NoCookie
     /\ \E f \in Cookies \cup {NoCookie} :
          session' = [held |-> session.held \cup ({f} \ {NoCookie}),
                      failed |-> session.failed + 1]

\* remove_session_inhibit for the entries in E: Uninhibit may fail
remove_session_inhibit(E) ==
  LET f == {e.foreign : e \in E}
  IN \/ session' = [session EXCEPT !.held = @ \ f]
     \/ /\ session.failed < MaxFailures
        /\ \E g \in SUBSET f :
             session' = [held |-> session.held \ g, failed |-> session.failed + 1]

\* Inhibit, ending in listener_check_activation on a table that has entries
Inhibit(c, cookie, foreign) ==
  /\ c \in clients
  /\ cookie \in Cookies \ CookiesOf(inhibitors)
  /\ add_session_inhibit(foreign)
  /\ inhibitors' = inhibitors \cup {[cookie |-> cookie, connection |-> c,
                                     foreign |-> foreign, ck |-> FALSE]}
  /\ UNCHANGED <<listener, throttlers, clients, exited, namesake, away>>

\* UnInhibit from any client: the sender is not compared with the owner
UnInhibit(cookie, handled) ==
  LET E == {e \in inhibitors : e.cookie = cookie}
  IN /\ E # {}
     /\ clients # {}
     /\ remove_session_inhibit(E)
     /\ inhibitors' = inhibitors \ E
     /\ listener' = CheckActivation(listener, inhibitors', handled)
     /\ UNCHANGED <<throttlers, clients, exited, namesake, away>>

-----------------------------------------------------------------------------
(* Throttlers *)

\* listener_check_throttle
CheckThrottle(l, thr) == [l EXCEPT !.throttled = thr # {}]

Throttle(c, cookie) ==
  /\ c \in clients
  /\ cookie \in Cookies \ CookiesOf(throttlers)
  /\ throttlers' = throttlers \cup {[cookie |-> cookie, connection |-> c,
                                     foreign |-> NoCookie, ck |-> FALSE]}
  /\ listener' = CheckThrottle(listener, throttlers')
  /\ UNCHANGED <<inhibitors, session, clients, exited, namesake, away>>

\* from any client, with a cookie some client got: ConsoleKit's is not sent
UnThrottle(cookie) ==
  /\ cookie \in CookiesOf({e \in throttlers : ~e.ck})
  /\ clients # {}
  /\ throttlers' = {e \in throttlers : e.cookie # cookie}
  /\ listener' = CheckThrottle(listener, throttlers')
  /\ UNCHANGED <<inhibitors, session, clients, exited, namesake, away>>

(***************************************************************************)
(* ConsoleKit's ActiveChanged, sent when it changes.  The throttle that a  *)
(* session which is not on the screen gets is an entry like the others, of *)
(* the application "ConsoleKit" (ck), owned by the sender of the signal: a *)
(* name of the system bus, which may be a client's on the session bus.     *)
(***************************************************************************)
ck_session_left(cookie) ==
  LET others == {e \in throttlers : e.cookie # listener.ck_throttle_cookie}
  IN /\ ~away
     /\ cookie \in Cookies \ CookiesOf(others)
     /\ throttlers' = others \cup {[cookie |-> cookie, connection |-> CkName,
                                    foreign |-> NoCookie, ck |-> TRUE]}
     /\ listener' = [CheckThrottle(listener, throttlers') EXCEPT
                       !.ck_throttle_cookie = cookie]
     /\ away' = TRUE /\ namesake' = FALSE
     /\ UNCHANGED <<inhibitors, session, clients, exited>>

\* mutant: listener_check_throttle is not called
ck_session_entered_unchecked ==
  /\ away
  /\ throttlers' = {e \in throttlers : e.cookie # listener.ck_throttle_cookie}
  /\ listener' = [listener EXCEPT !.ck_throttle_cookie = NoCookie]
  /\ away' = FALSE
  /\ UNCHANGED <<inhibitors, session, clients, exited, namesake>>

\* mutant: all that the sender of the signal owns is removed
ck_session_entered_connection ==
  /\ away
  /\ throttlers' = {e \in throttlers : e.connection # CkName}
  /\ listener' = [CheckThrottle(listener, throttlers') EXCEPT
                    !.ck_throttle_cookie = NoCookie]
  /\ away' = FALSE
  /\ UNCHANGED <<inhibitors, session, clients, exited, namesake>>

ck_session_entered ==
  /\ away
  /\ throttlers' = {e \in throttlers : e.cookie # listener.ck_throttle_cookie}
  /\ listener' = [CheckThrottle(listener, throttlers') EXCEPT
                    !.ck_throttle_cookie = NoCookie]
  /\ away' = FALSE
  /\ UNCHANGED <<inhibitors, session, clients, exited, namesake>>

-----------------------------------------------------------------------------
(* The end of a connection *)

client_exits(c) ==
  /\ c \in clients \ exited
  /\ exited' = exited \cup {c}
  /\ UNCHANGED <<listener, inhibitors, throttlers, session, clients, namesake, away>>

\* mutant: the throttlers of the connection are kept
listener_service_deleted_throttlers(c, handled) ==
  LET E == {e \in inhibitors : e.connection = c}
  IN /\ inhibitors' = inhibitors \ E
     /\ remove_session_inhibit(E)
     /\ listener' = IF E = {} THEN listener
                    ELSE CheckActivation(listener, inhibitors', handled)
     /\ namesake' = (namesake \/ c = CkName)
     /\ UNCHANGED <<throttlers, away>>

(***************************************************************************)
(* listener_service_deleted, with the name of the old owner: the           *)
(* throttlers of that connection go and are checked, then the inhibitors.  *)
(***************************************************************************)
listener_service_deleted(c, handled) ==
  LET E == {e \in inhibitors : e.connection = c}
      T == {e \in throttlers : e.connection = c}
      l == IF T = {} THEN listener ELSE CheckThrottle(listener, throttlers \ T)
  IN /\ throttlers' = throttlers \ T
     /\ inhibitors' = inhibitors \ E
     /\ remove_session_inhibit(E)
     /\ listener' = IF E = {} THEN l
                    ELSE CheckActivation(l, inhibitors', handled)
     /\ namesake' = (namesake \/ c = CkName)
     /\ UNCHANGED away

\* mutant: not matched for a connection that has inhibitors
name_owner_lost_unmatched(c, handled) ==
  /\ c \in exited
  /\ \A e \in inhibitors : e.connection # c
  /\ listener_service_deleted(c, handled)
  /\ clients' = clients \ {c}
  /\ exited' = exited \ {c}

\* NameOwnerChanged for the unique name of a connection that has ended
name_owner_lost(c, handled) ==
  /\ c \in exited
  /\ listener_service_deleted(c, handled)
  /\ clients' = clients \ {c}
  /\ exited' = exited \ {c}

\* NameOwnerChanged for a well-known name that a live connection gives up
name_released(c, handled) ==
  /\ c \in clients
  /\ listener_service_deleted(c, handled)
  /\ UNCHANGED <<clients, exited>>

-----------------------------------------------------------------------------
(* The listener on its own: `handled' is any answer *)

\* the handlers that cannot lead to an activation
ListenerStep ==
  \/ \E c \in Clients, k \in Cookies, f \in Cookies \cup {NoCookie} :
       Inhibit(c, k, f)
  \/ \E c \in Clients : client_exits(c)
  \/ \E b \in BOOLEAN : gs_listener_set_activation_enabled(b)

\* the ones that change what is throttled
ListenerThrottle ==
  \/ \E c \in Clients, k \in Cookies : Throttle(c, k)
  \/ \E k \in Cookies : UnThrottle(k) \/ ck_session_left(k)
  \/ ck_session_entered

\* the ones that end in listener_check_activation
ListenerCheck(handled) ==
  \/ \E k \in Cookies : UnInhibit(k, handled)
  \/ \E c \in Clients :
       name_owner_lost(c, handled) \/ name_released(c, handled)

ListenerNext ==
  \/ ListenerStep
  \/ ListenerThrottle
  \/ \E handled \in BOOLEAN :
       \/ ListenerCheck(handled)
       \/ \E b \in BOOLEAN : \/ gs_listener_set_session_idle(b, handled)
                             \/ gs_listener_set_active(b, handled)

\* the bus tells of every exit, and the daemon handles it
ListenerSpec ==
  /\ ListenerInit /\ [][ListenerNext]_listenerVars
  /\ \A c \in Clients :
       WF_listenerVars(\E handled \in BOOLEAN : name_owner_lost(c, handled))

-----------------------------------------------------------------------------
(* Properties *)

(***************************************************************************)
(* The manager is throttled exactly while there is a throttler, whatever   *)
(* mixture of UnThrottle, exits and session switches removes them; and the *)
(* implicit throttle of a session that is not active (the comment on       *)
(* ActiveChanged) lasts until the session is active again, unless a client *)
(* has ConsoleKit's unique name on the other bus and meanwhile ends or     *)
(* gives up a name (listener_ref_entry_remove_for_connection compares).    *)
(***************************************************************************)
ThrottledWhileRequested ==
  /\ listener.throttled <=> throttlers # {}
  /\ away => \/ \E e \in throttlers :
                 e.ck /\ e.cookie = listener.ck_throttle_cookie
             \/ namesake

\* a reason for the throttler e to be removed in this step
ThrottlerGoes(e) ==
  \/ UnThrottle(e.cookie)
  \/ e.connection \in exited \ clients'
  \/ \E handled \in BOOLEAN : name_released(e.connection, handled)
  \/ away /\ ~away' /\ (e.ck \/ namesake)

(***************************************************************************)
(* A throttler goes by UnThrottle, with its owner, or with a name that its *)
(* owner gave up: listener_service_deleted tells the last two not apart,   *)
(* although the interface promises throttling "until UnThrottle is called  *)
(* or the calling process exits".  The session that is active again takes  *)
(* ConsoleKit's throttler and no other; but once a namesake has taken that *)
(* one, its cookie may be a client's, whose throttler goes instead.        *)
(***************************************************************************)
ThrottleLasts ==
  [][\A e \in throttlers \ throttlers' : ThrottlerGoes(e)]_listenerVars

(***************************************************************************)
(* A cookie names one entry of its table (listener_generate_unique_key),   *)
(* and an entry's owner is still connected or its end is to be handled,    *)
(* also when a client and ConsoleKit have the same unique name; the state  *)
(* is of its type.                                                         *)
(***************************************************************************)
EntriesAreOwned ==
  /\ ListenerType
  /\ \A e, f \in inhibitors : e.cookie = f.cookie => e = f
  /\ \A e, f \in throttlers : e.cookie = f.cookie => e = f
  /\ \A e \in inhibitors : e.connection \in clients
  /\ \A e \in throttlers : IF e.ck THEN e.connection = CkName
                            ELSE e.connection \in clients

(***************************************************************************)
(* Until a call fails, the session manager holds one inhibitor for each of *)
(* ours.  After one has failed it can be left with an inhibitor too many   *)
(* but never with one too few: an inhibitor of ours that has a foreign     *)
(* cookie is there, and the cookie is of that one only.                    *)
(***************************************************************************)
FailuresOnlyLeak ==
  /\ session.failed = 0 => session.held = {e.foreign : e \in inhibitors}
  /\ \A e \in inhibitors : e.foreign # NoCookie =>
       /\ e.foreign \in session.held
       /\ \A f \in inhibitors : e.foreign = f.foreign => e = f

(***************************************************************************)
(* What a client that has exited asked for does not last.                  *)
(***************************************************************************)
ExitEndsRequests ==
  \A c \in Clients :
    c \in exited ~> \A e \in inhibitors \cup throttlers :
                       e.connection = c => e.ck
=============================================================================
