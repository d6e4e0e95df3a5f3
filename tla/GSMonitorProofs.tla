--------------------------- MODULE GSMonitorProofs ---------------------------
(***************************************************************************)
(* Proofs about the listener and about the daemon.  In the listener        *)
(* entries have live owners and cookies of their own, failing calls only   *)
(* leak, and jobs are throttled exactly while somebody asks for it.  Every *)
(* handler of gs-monitor.c uses the manager and the listener as their own  *)
(* specifications allow, so that what is proved of each of them holds in   *)
(* the daemon too; and the components agree, free the input and lock only  *)
(* deliberately.                                                           *)
(***************************************************************************)
EXTENDS GSMonitor, GSManagerProofs

-----------------------------------------------------------------------------
(* The operators on the listener's state *)

\* Activating and checking keep the type of the state and what is throttled.
LEMMA StateTypes ==
  ASSUME NEW l \in ListenerState, NEW b \in BOOLEAN, NEW h \in BOOLEAN, NEW inh
  PROVE  /\ SetActive(l, b, h) \in ListenerState
         /\ SetActive(l, b, h).throttled = l.throttled
         /\ SetActive(l, b, h).ck_throttle_cookie = l.ck_throttle_cookie
         /\ CheckActivation(l, inh, h) \in ListenerState
         /\ CheckActivation(l, inh, h).throttled = l.throttled
         /\ CheckActivation(l, inh, h).ck_throttle_cookie = l.ck_throttle_cookie
<1>1. \A c \in BOOLEAN :
        /\ SetActive(l, c, h) \in ListenerState
        /\ SetActive(l, c, h).throttled = l.throttled
        /\ SetActive(l, c, h).ck_throttle_cookie = l.ck_throttle_cookie
  BY DEF SetActive, ListenerState
<1> QED BY <1>1 DEF CheckActivation

\* listener_check_throttle changes only what is throttled.
LEMMA CheckThrottleState ==
  ASSUME NEW l \in ListenerState, NEW thr
  PROVE  /\ CheckThrottle(l, thr) \in ListenerState
         /\ CheckThrottle(l, thr).throttled <=> thr # {}
         /\ CheckThrottle(l, thr).ck_throttle_cookie = l.ck_throttle_cookie
         /\ CheckThrottle(l, thr).active = l.active
         /\ CheckThrottle(l, thr).session_idle = l.session_idle
         /\ CheckThrottle(l, thr).activation_enabled = l.activation_enabled
BY DEF CheckThrottle, ListenerState

\* What a new session_idle leads to.
LEMMA SessionIdleType ==
  ASSUME listener \in ListenerState, NEW b \in BOOLEAN, NEW h \in BOOLEAN
  PROVE  /\ SessionIdleSet(b, h) \in ListenerState
         /\ SessionIdleSet(b, h).throttled = listener.throttled
         /\ SessionIdleSet(b, h).ck_throttle_cookie = listener.ck_throttle_cookie
<1> DEFINE l == [listener EXCEPT !.session_idle = b]
<1>1. /\ l \in ListenerState /\ l.throttled = listener.throttled
      /\ l.ck_throttle_cookie = listener.ck_throttle_cookie
  BY DEF ListenerState
<1>2. SessionIdleSet(b, h) \in {CheckActivation(l, inhibitors, h), listener}
  BY DEF SessionIdleSet
<1> HIDE DEF l
<1> QED BY <1>1, <1>2, StateTypes

-----------------------------------------------------------------------------
(* What a step may do to the two tables and to the session manager *)

Calls == [held: SUBSET Cookies, failed: 0..MaxFailures]

\* The entries E go, and the session manager is told.
InhibitorsGo(E) == inhibitors' = inhibitors \ E /\ remove_session_inhibit(E)

\* One comes, with a cookie that no other has.
InhibitorComes ==
  \E c \in clients, k \in Cookies \ CookiesOf(inhibitors), f \in Cookies \cup {NoCookie} :
    /\ add_session_inhibit(f)
    /\ inhibitors' = inhibitors \cup {[cookie |-> k, connection |-> c, foreign |-> f,
                                       ck |-> FALSE]}

\* The throttlers are some of the old ones and at most a new one.
ThrottlersMove ==
  \/ throttlers' \in SUBSET throttlers
  \/ \E ck \in BOOLEAN, c \in clients \cup {CkName}, k \in Cookies, T \in SUBSET throttlers :
       /\ k \notin CookiesOf(T) /\ IF ck THEN c = CkName ELSE c \in clients
       /\ throttlers' = T \cup {[cookie |-> k, connection |-> c, foreign |-> NoCookie,
                                 ck |-> ck]}

\* A connection is forgotten when no entry of it is left.
ClientsMove ==
  /\ clients' \in SUBSET clients
  /\ exited' \in SUBSET clients'
  /\ \A e \in inhibitors' \cup throttlers' : e.connection \notin clients \ clients'

ListenerMoves ==
  /\ listener' \in ListenerState /\ away' \in BOOLEAN /\ namesake' \in BOOLEAN
  /\ \/ inhibitors' = inhibitors /\ session' = session
     \/ InhibitorComes
     \/ \E E \in SUBSET inhibitors : InhibitorsGo(E)
  /\ ThrottlersMove
  /\ ClientsMove

\* The end of a name takes its throttlers and its inhibitors with it.
LEMMA ServiceDeleted ==
  ASSUME ListenerType, NEW c \in clients, NEW h \in BOOLEAN, listener_service_deleted(c, h)
  PROVE  /\ listener' \in ListenerState
         /\ throttlers' \in SUBSET throttlers
         /\ \E E \in SUBSET inhibitors : InhibitorsGo(E)
         /\ \A e \in inhibitors' \cup throttlers' : e.connection # c
         /\ UNCHANGED away /\ namesake' \in BOOLEAN
<1> DEFINE E == {e \in inhibitors : e.connection = c}
           T == {e \in throttlers : e.connection = c}
           l == IF T = {} THEN listener ELSE CheckThrottle(listener, throttlers \ T)
<1>1. l \in ListenerState
  BY CheckThrottleState DEF ListenerType
<1>2. listener' = IF E = {} THEN l ELSE CheckActivation(l, inhibitors', h)
  BY DEF listener_service_deleted
<1>3. listener' \in ListenerState
  <2> HIDE DEF l
  <2> QED BY <1>1, <1>2, StateTypes
<1>4. InhibitorsGo(E) /\ E \in SUBSET inhibitors
  BY DEF listener_service_deleted, InhibitorsGo
<1>5. throttlers' = throttlers \ T /\ UNCHANGED away /\ namesake' \in BOOLEAN
  BY DEF listener_service_deleted
<1> QED BY <1>3, <1>4, <1>5 DEF InhibitorsGo

LEMMA ListenerNextMoves == ListenerType /\ [ListenerNext]_listenerVars => ListenerMoves
<1> SUFFICES ASSUME ListenerType, [ListenerNext]_listenerVars PROVE ListenerMoves
  OBVIOUS
<1>0. /\ listener \in ListenerState /\ away \in BOOLEAN /\ namesake \in BOOLEAN
      /\ clients \in SUBSET Clients /\ exited \in SUBSET clients
      /\ throttlers \in SUBSET Entry /\ inhibitors \in SUBSET Entry
  BY DEF ListenerType
<1>1. ASSUME NEW c \in Clients, NEW k \in Cookies, NEW f \in Cookies \cup {NoCookie},
             Inhibit(c, k, f)
      PROVE  ListenerMoves
  <2>1. InhibitorComes
    BY <1>1 DEF Inhibit, InhibitorComes
  <2> QED BY <1>0, <1>1, <2>1 DEF Inhibit, ListenerMoves, ThrottlersMove, ClientsMove
<1>2. ASSUME NEW c \in Clients, client_exits(c)
      PROVE  ListenerMoves
  BY <1>0, <1>2 DEF client_exits, ListenerMoves, ThrottlersMove, ClientsMove
<1>3. ASSUME NEW b \in BOOLEAN, gs_listener_set_activation_enabled(b)
      PROVE  ListenerMoves
  <2>1. listener' \in ListenerState
    BY <1>0, <1>3 DEF gs_listener_set_activation_enabled, ListenerState
  <2> QED BY <1>0, <1>3, <2>1
          DEF gs_listener_set_activation_enabled, ListenerMoves, ThrottlersMove, ClientsMove
<1>4. ASSUME NEW c \in Clients, NEW k \in Cookies, Throttle(c, k)
      PROVE  ListenerMoves
  <2>1. ThrottlersMove
    BY <1>4 DEF Throttle, ThrottlersMove
  <2>2. listener' \in ListenerState
    BY <1>0, <1>4, CheckThrottleState DEF Throttle
  <2> QED BY <1>0, <1>4, <2>1, <2>2 DEF Throttle, ListenerMoves, ClientsMove
<1>5. ASSUME NEW k \in Cookies, UnThrottle(k)
      PROVE  ListenerMoves
  <2>1. ThrottlersMove
    BY <1>5 DEF UnThrottle, ThrottlersMove
  <2>2. listener' \in ListenerState
    BY <1>0, <1>5, CheckThrottleState DEF UnThrottle
  <2> QED BY <1>0, <1>5, <2>1, <2>2 DEF UnThrottle, ListenerMoves, ClientsMove
<1>6. ASSUME NEW k \in Cookies, ck_session_left(k)
      PROVE  ListenerMoves
  <2>1. ThrottlersMove
    BY <1>6 DEF ck_session_left, ThrottlersMove
  <2>2. listener' \in ListenerState
    <3>1. CheckThrottle(listener, throttlers') \in ListenerState
      BY <1>0, CheckThrottleState
    <3>2. \A l \in ListenerState : [l EXCEPT !.ck_throttle_cookie = k] \in ListenerState
      BY DEF ListenerState
    <3> QED BY <1>6, <3>1, <3>2 DEF ck_session_left
  <2> QED BY <1>0, <1>6, <2>1, <2>2 DEF ck_session_left, ListenerMoves, ClientsMove
<1>7. CASE ck_session_entered
  <2>1. ThrottlersMove
    BY <1>7 DEF ck_session_entered, ThrottlersMove
  <2>2. listener' \in ListenerState
    <3>1. CheckThrottle(listener, throttlers') \in ListenerState
      BY <1>0, CheckThrottleState
    <3>2. \A l \in ListenerState :
             [l EXCEPT !.ck_throttle_cookie = NoCookie] \in ListenerState
      BY DEF ListenerState
    <3> QED BY <1>7, <3>1, <3>2 DEF ck_session_entered
  <2> QED BY <1>0, <1>7, <2>1, <2>2 DEF ck_session_entered, ListenerMoves, ClientsMove
<1>8. ASSUME NEW k \in Cookies, NEW h \in BOOLEAN, UnInhibit(k, h)
      PROVE  ListenerMoves
  <2>1. \E E \in SUBSET inhibitors : InhibitorsGo(E)
    BY <1>8 DEF UnInhibit, InhibitorsGo
  <2>2. listener' \in ListenerState
    BY <1>0, <1>8, StateTypes DEF UnInhibit
  <2> QED BY <1>0, <1>8, <2>1, <2>2 DEF UnInhibit, ListenerMoves, ThrottlersMove, ClientsMove
<1>9. ASSUME NEW c \in Clients, NEW h \in BOOLEAN, name_owner_lost(c, h)
      PROVE  ListenerMoves
  <2>1. c \in clients /\ listener_service_deleted(c, h)
    BY <1>0, <1>9 DEF name_owner_lost
  <2>2. ClientsMove
    BY <1>0, <1>9, <2>1, ServiceDeleted DEF name_owner_lost, ClientsMove
  <2> QED BY <1>0, <2>1, <2>2, ServiceDeleted DEF ListenerMoves, ThrottlersMove
<1>10. ASSUME NEW c \in Clients, NEW h \in BOOLEAN, name_released(c, h)
       PROVE  ListenerMoves
  <2>1. c \in clients /\ listener_service_deleted(c, h)
    BY <1>10 DEF name_released
  <2>2. ClientsMove
    BY <1>0, <1>10 DEF name_released, ClientsMove
  <2> QED BY <1>0, <2>1, <2>2, ServiceDeleted DEF ListenerMoves, ThrottlersMove
<1>11. ASSUME NEW b \in BOOLEAN, NEW h \in BOOLEAN, gs_listener_set_session_idle(b, h)
       PROVE  ListenerMoves
  BY <1>0, <1>11, SessionIdleType
  DEF gs_listener_set_session_idle, ListenerMoves, ThrottlersMove, ClientsMove
<1>12. ASSUME NEW b \in BOOLEAN, NEW h \in BOOLEAN, gs_listener_set_active(b, h)
       PROVE  ListenerMoves
  BY <1>0, <1>12, StateTypes
  DEF gs_listener_set_active, ListenerMoves, ThrottlersMove, ClientsMove
<1>13. CASE UNCHANGED listenerVars
  BY <1>0, <1>13 DEF listenerVars, ListenerMoves, ThrottlersMove, ClientsMove
<1> QED
  BY <1>1, <1>2, <1>3, <1>4, <1>5, <1>6, <1>7, <1>8, <1>9, <1>10, <1>11, <1>12, <1>13
  DEF ListenerNext, ListenerStep, ListenerThrottle, ListenerCheck
-----------------------------------------------------------------------------
(* Owners and cookies *)

\* Calls to the session manager keep the type of what it holds.
LEMMA SessionTypes ==
  ASSUME session \in Calls
  PROVE  /\ \A f : add_session_inhibit(f) => session' \in Calls
         /\ \A E : remove_session_inhibit(E) => session' \in Calls
<1>0. session.held \in SUBSET Cookies /\ session.failed \in 0..MaxFailures
  BY DEF Calls
<1>1. ASSUME NEW f, add_session_inhibit(f) PROVE session' \in Calls
  <2>1. CASE f \in Cookies \ session.held
               /\ session' = [session EXCEPT !.held = @ \cup {f}]
    BY <1>0, <2>1 DEF Calls
  <2>2. ASSUME session.failed < MaxFailures, NEW g \in Cookies \cup {NoCookie},
               session' = [held |-> session.held \cup ({g} \ {NoCookie}),
                           failed |-> session.failed + 1]
        PROVE  session' \in Calls
    <3>1. session.failed + 1 \in 0..MaxFailures
      BY <1>0, <2>2, CallsAssumption
    <3> QED BY <1>0, <2>2, <3>1 DEF Calls
  <2> QED BY <1>1, <2>1, <2>2 DEF add_session_inhibit
<1>2. ASSUME NEW E, remove_session_inhibit(E) PROVE session' \in Calls
  <2> DEFINE f == {e.foreign : e \in E}
  <2>1. CASE session' = [session EXCEPT !.held = @ \ f]
    BY <1>0, <2>1 DEF Calls
  <2>2. ASSUME session.failed < MaxFailures, NEW g \in SUBSET f,
               session' = [held |-> session.held \ g, failed |-> session.failed + 1]
        PROVE  session' \in Calls
    <3>1. session.failed + 1 \in 0..MaxFailures
      BY <1>0, <2>2, CallsAssumption
    <3> QED BY <1>0, <2>2, <3>1 DEF Calls
  <2> QED BY <1>2, <2>1, <2>2 DEF remove_session_inhibit
<1> QED BY <1>1, <1>2

LEMMA InitOwned == ListenerInit => EntriesAreOwned
<1> SUFFICES ASSUME ListenerInit PROVE EntriesAreOwned
  OBVIOUS
<1>1. listener \in ListenerState
  BY DEF ListenerInit, ListenerState
<1>2. session \in [held: SUBSET Cookies, failed: 0..MaxFailures]
  BY CallsAssumption DEF ListenerInit
<1> QED BY <1>1, <1>2 DEF ListenerInit, ListenerType, EntriesAreOwned

LEMMA StepOwned ==
  EntriesAreOwned /\ [ListenerNext]_listenerVars => EntriesAreOwned'
<1> SUFFICES ASSUME EntriesAreOwned, [ListenerNext]_listenerVars
             PROVE  EntriesAreOwned'
  OBVIOUS
<1>1. ListenerMoves
  BY ListenerNextMoves DEF EntriesAreOwned
<1>2. /\ inhibitors \in SUBSET Entry /\ throttlers \in SUBSET Entry
      /\ clients \in SUBSET Clients /\ session \in Calls
  BY DEF EntriesAreOwned, ListenerType, Calls
<1>3. /\ inhibitors' \in SUBSET Entry /\ session' \in Calls
      /\ \A e, f \in inhibitors' : e.cookie = f.cookie => e = f
      /\ \A e \in inhibitors' : e.connection \in clients
  <2>1. CASE inhibitors' = inhibitors /\ session' = session
    BY <1>2, <2>1 DEF EntriesAreOwned
  <2>2. CASE InhibitorComes
    <3>1. PICK c \in clients, k \in Cookies \ CookiesOf(inhibitors),
               f \in Cookies \cup {NoCookie} :
             /\ add_session_inhibit(f)
             /\ inhibitors' = inhibitors \cup {[cookie |-> k, connection |-> c,
                                                foreign |-> f, ck |-> FALSE]}
      BY <2>2 DEF InhibitorComes
    <3> DEFINE n == [cookie |-> k, connection |-> c, foreign |-> f, ck |-> FALSE]
    <3>2. n \in Entry /\ n.cookie = k /\ n.connection = c
      BY <1>2 DEF Entry
    <3>3. \A e \in inhibitors : e.cookie # k
      BY DEF CookiesOf
    <3>4. inhibitors' = inhibitors \cup {n}
      BY <3>1
    <3> HIDE DEF n
    <3> QED BY <1>2, <3>1, <3>2, <3>3, <3>4, SessionTypes DEF EntriesAreOwned
  <2>3. CASE \E E \in SUBSET inhibitors : InhibitorsGo(E)
    BY <1>2, <2>3, SessionTypes DEF InhibitorsGo, EntriesAreOwned
  <2> QED BY <1>1, <2>1, <2>2, <2>3 DEF ListenerMoves
<1>4. /\ throttlers' \in SUBSET Entry
      /\ \A e, f \in throttlers' : e.cookie = f.cookie => e = f
      /\ \A e \in throttlers' : IF e.ck THEN e.connection = CkName
                                ELSE e.connection \in clients
  <2>1. CASE throttlers' \in SUBSET throttlers
    BY <1>2, <2>1 DEF EntriesAreOwned
  <2>2. CASE throttlers' \notin SUBSET throttlers
    <3>1. PICK ck \in BOOLEAN, c \in clients \cup {CkName}, k \in Cookies,
               T \in SUBSET throttlers :
             /\ k \notin CookiesOf(T) /\ IF ck THEN c = CkName ELSE c \in clients
             /\ throttlers' = T \cup {[cookie |-> k, connection |-> c,
                                       foreign |-> NoCookie, ck |-> ck]}
      BY <1>1, <2>2 DEF ListenerMoves, ThrottlersMove
    <3> DEFINE n == [cookie |-> k, connection |-> c, foreign |-> NoCookie, ck |-> ck]
    <3>2. n \in Entry /\ n.cookie = k /\ n.connection = c /\ n.ck = ck
      BY <1>2 DEF Entry
    <3>3. \A e \in T : e.cookie # k
      BY <3>1 DEF CookiesOf
    <3>4. throttlers' = T \cup {n}
      BY <3>1
    <3> HIDE DEF n
    <3> QED BY <1>2, <3>1, <3>2, <3>3, <3>4 DEF EntriesAreOwned
  <2> QED BY <2>1, <2>2
<1>5. /\ \A e \in inhibitors' : e.connection \in clients'
      /\ \A e \in throttlers' : IF e.ck THEN e.connection = CkName
                                ELSE e.connection \in clients'
  BY <1>1, <1>3, <1>4 DEF ListenerMoves, ClientsMove
<1>6. ListenerType'
  BY <1>1, <1>2, <1>3, <1>4 DEF ListenerType, ListenerMoves, ClientsMove, Calls
<1> QED BY <1>3, <1>4, <1>5, <1>6 DEF EntriesAreOwned

\* For any number of clients and cookies and whatever ends a request: the
\* cookie that a client was given names one entry, and no entry outlives the
\* connection that owns it.  The state is of its type.
THEOREM Owned == ListenerSpec => []EntriesAreOwned
BY InitOwned, StepOwned, PTL DEF ListenerSpec

-----------------------------------------------------------------------------
(* The session manager *)

LEMMA StepLeaks ==
  ListenerType /\ FailuresOnlyLeak /\ [ListenerNext]_listenerVars => FailuresOnlyLeak'
<1> SUFFICES ASSUME ListenerType, FailuresOnlyLeak, [ListenerNext]_listenerVars
             PROVE  FailuresOnlyLeak'
  OBVIOUS
<1>1. ListenerMoves
  BY ListenerNextMoves
<1>2. /\ inhibitors \in SUBSET Entry /\ session \in Calls
      /\ session.held \in SUBSET Cookies /\ session.failed \in Nat
  BY DEF ListenerType, Calls
<1>3. CASE inhibitors' = inhibitors /\ session' = session
  BY <1>3 DEF FailuresOnlyLeak
<1>4. CASE InhibitorComes
  <2>1. PICK c \in clients, k \in Cookies, f \in Cookies \cup {NoCookie} :
           /\ add_session_inhibit(f)
           /\ inhibitors' = inhibitors \cup {[cookie |-> k, connection |-> c,
                                              foreign |-> f, ck |-> FALSE]}
    BY <1>4 DEF InhibitorComes
  <2>2. CASE f \in Cookies \ session.held
               /\ session' = [session EXCEPT !.held = @ \cup {f}]
    <3>1. session'.held = session.held \cup {f} /\ session'.failed = session.failed
      BY <1>2, <2>2 DEF Calls
    <3>2. f # NoCookie /\ \A e \in inhibitors : e.foreign # f
      BY <2>2, CookiesAssumption DEF FailuresOnlyLeak
    <3>3. {e.foreign : e \in inhibitors'} = {e.foreign : e \in inhibitors} \cup {f}
      <4> DEFINE n == [cookie |-> k, connection |-> c, foreign |-> f, ck |-> FALSE]
      <4>1. n.foreign = f /\ inhibitors' = inhibitors \cup {n}
        BY <2>1
      <4> HIDE DEF n
      <4> QED BY <4>1
    <3>4. \A e \in inhibitors' : e \in inhibitors \/ e.foreign = f
      BY <2>1
    <3>5. \A e, g \in inhibitors' \ inhibitors : e = g
      BY <2>1
    <3>6. session'.failed = 0 => session'.held = {e.foreign : e \in inhibitors'}
      BY <3>1, <3>3 DEF FailuresOnlyLeak
    <3>7. ASSUME NEW e \in inhibitors', e.foreign # NoCookie
          PROVE  /\ e.foreign \in session'.held
                 /\ \A g \in inhibitors' : e.foreign = g.foreign => e = g
      BY <3>1, <3>2, <3>4, <3>5, <3>7 DEF FailuresOnlyLeak
    <3> QED BY <3>6, <3>7 DEF FailuresOnlyLeak
  <2>3. CASE ~(f \in Cookies \ session.held
                 /\ session' = [session EXCEPT !.held = @ \cup {f}])
    <3>1. /\ f = NoCookie /\ session.held \subseteq session'.held
          /\ session'.failed = session.failed + 1
      BY <2>1, <2>3 DEF add_session_inhibit
    <3>2. session'.failed # 0
      BY <1>2, <3>1
    <3> QED BY <2>1, <3>1, <3>2 DEF FailuresOnlyLeak
  <2> QED BY <2>2, <2>3
<1>5. ASSUME NEW E \in SUBSET inhibitors, InhibitorsGo(E)
      PROVE  FailuresOnlyLeak'
  <2> DEFINE f == {e.foreign : e \in E}
  <2>1. \A e \in inhibitors \ E : e.foreign # NoCookie => e.foreign \notin f
    BY <1>5 DEF FailuresOnlyLeak
  <2>2. CASE session' = [session EXCEPT !.held = @ \ f]
    <3>1. session'.held = session.held \ f /\ session'.failed = session.failed
      BY <1>2, <2>2 DEF Calls
    <3>2. inhibitors' = inhibitors \ E
      BY <1>5 DEF InhibitorsGo
    <3>3. session.failed = 0 => session'.held = {e.foreign : e \in inhibitors'}
      <4> SUFFICES ASSUME session.failed = 0
                   PROVE  session'.held = {e.foreign : e \in inhibitors \ E}
        BY <3>2
      <4>1. session.held = {e.foreign : e \in inhibitors}
        BY DEF FailuresOnlyLeak
      <4>2. \A e \in inhibitors : e.foreign # NoCookie
        BY <1>2, <4>1, CookiesAssumption
      <4> QED BY <2>1, <3>1, <4>1, <4>2
    <3> QED BY <2>1, <3>1, <3>2, <3>3 DEF FailuresOnlyLeak
  <2>3. CASE session' # [session EXCEPT !.held = @ \ f]
    <3>1. PICK g \in SUBSET f :
             session' = [held |-> session.held \ g, failed |-> session.failed + 1]
      BY <1>5, <2>3 DEF InhibitorsGo, remove_session_inhibit
    <3>2. session'.failed # 0 /\ session'.held = session.held \ g
      BY <1>2, <3>1
    <3> QED BY <1>5, <2>1, <3>2 DEF FailuresOnlyLeak, InhibitorsGo
  <2> QED BY <2>2, <2>3
<1> QED BY <1>1, <1>3, <1>4, <1>5 DEF ListenerMoves

\* Whatever calls to the session manager fail and however often: an inhibitor
\* of ours that was answered is held there, under a cookie of its own, and as
\* long as none has failed it holds nothing else.
THEOREM OnlyLeaks == ListenerSpec => []FailuresOnlyLeak
<1>1. ListenerInit => FailuresOnlyLeak
  <2> SUFFICES ASSUME ListenerInit PROVE FailuresOnlyLeak
    OBVIOUS
  <2>1. inhibitors = {} /\ session.held = {}
    BY DEF ListenerInit
  <2>2. {e.foreign : e \in {}} = {}
    OBVIOUS
  <2> QED BY <2>1, <2>2 DEF FailuresOnlyLeak
<1>2. EntriesAreOwned => ListenerType
  BY DEF EntriesAreOwned
<1> QED BY <1>1, <1>2, Owned, StepLeaks, PTL DEF ListenerSpec
-----------------------------------------------------------------------------
(* Throttling *)

(***************************************************************************)
(* The inductive invariant of ThrottledWhileRequested: away from its       *)
(* session, ConsoleKit's entry is in the table under the cookie that the   *)
(* listener keeps for it, or a namesake has taken it along, and only then  *)
(* does the listener keep a cookie.                                        *)
(***************************************************************************)
ThrottleInv ==
  /\ ListenerType
  /\ \A e, f \in throttlers : e.cookie = f.cookie => e = f
  /\ listener.throttled <=> throttlers # {}
  /\ away => \/ \E e \in throttlers : /\ e.cookie = listener.ck_throttle_cookie
                                       /\ e.ck /\ e.connection = CkName
             \/ namesake
  /\ listener.ck_throttle_cookie # NoCookie => away

\* A step that leaves the throttlers and what the listener knows of them.
ThrottleSame ==
  UNCHANGED <<throttlers, listener.throttled, listener.ck_throttle_cookie, away,
              namesake>>

LEMMA StepThrottled ==
  ThrottleInv /\ EntriesAreOwned' /\ [ListenerNext]_listenerVars => ThrottleInv'
<1> SUFFICES ASSUME ThrottleInv, EntriesAreOwned', [ListenerNext]_listenerVars
             PROVE  ThrottleInv'
  OBVIOUS
<1>0. /\ ListenerType /\ listener \in ListenerState /\ throttlers \in SUBSET Entry
      /\ clients \in SUBSET Clients /\ exited \in SUBSET clients
  BY DEF ThrottleInv, ListenerType
<1>a. ListenerType' /\ \A e, f \in throttlers' : e.cookie = f.cookie => e = f
  BY DEF EntriesAreOwned
<1>b. CASE ThrottleSame
  BY <1>a, <1>b DEF ThrottleSame, ThrottleInv
<1>1. ASSUME NEW c \in Clients, NEW k \in Cookies, NEW f \in Cookies \cup {NoCookie},
             Inhibit(c, k, f)
      PROVE  ThrottleSame
  BY <1>1 DEF Inhibit, ThrottleSame
<1>2. ASSUME NEW c \in Clients, client_exits(c)
      PROVE  ThrottleSame
  BY <1>2 DEF client_exits, ThrottleSame
<1>3. ASSUME NEW b \in BOOLEAN, gs_listener_set_activation_enabled(b)
      PROVE  ThrottleSame
  BY <1>0, <1>3 DEF gs_listener_set_activation_enabled, ListenerState, ThrottleSame
<1>4. ASSUME NEW c \in Clients, NEW k \in Cookies, Throttle(c, k)
      PROVE  ThrottleInv'
  <2>1. /\ listener'.throttled <=> throttlers' # {}
        /\ listener'.ck_throttle_cookie = listener.ck_throttle_cookie
    BY <1>0, <1>4, CheckThrottleState DEF Throttle
  <2> QED BY <1>4, <1>a, <2>1 DEF Throttle, ThrottleInv
<1>5. ASSUME NEW k \in Cookies, UnThrottle(k)
      PROVE  ThrottleInv'
  <2>1. /\ listener'.throttled <=> throttlers' # {}
        /\ listener'.ck_throttle_cookie = listener.ck_throttle_cookie
    BY <1>0, <1>5, CheckThrottleState DEF UnThrottle
  <2>2. \A e \in throttlers : e.ck => e \in throttlers'
    BY <1>5 DEF UnThrottle, CookiesOf, ThrottleInv
  <2> QED BY <1>5, <1>a, <2>1, <2>2 DEF UnThrottle, ThrottleInv
<1>6. ASSUME NEW k \in Cookies, ck_session_left(k)
      PROVE  ThrottleInv'
  <2> DEFINE l == CheckThrottle(listener, throttlers')
  <2>1. l \in ListenerState /\ (l.throttled <=> throttlers' # {})
    BY <1>0, CheckThrottleState
  <2>2. listener' = [l EXCEPT !.ck_throttle_cookie = k]
    BY <1>6 DEF ck_session_left
  <2> HIDE DEF l
  <2>3. (listener'.throttled <=> throttlers' # {}) /\ listener'.ck_throttle_cookie = k
    BY <2>1, <2>2 DEF ListenerState
  <2>4. \E e \in throttlers' : e.cookie = k /\ e.ck /\ e.connection = CkName
    <3> DEFINE n == [cookie |-> k, connection |-> CkName, foreign |-> NoCookie,
                     ck |-> TRUE]
    <3>1. n \in throttlers'
      BY <1>6 DEF ck_session_left
    <3>2. n.cookie = k /\ n.ck /\ n.connection = CkName
      OBVIOUS
    <3> HIDE DEF n
    <3> QED BY <3>1, <3>2
  <2> QED BY <1>6, <1>a, <2>3, <2>4 DEF ck_session_left, ThrottleInv
<1>7. ASSUME ck_session_entered
      PROVE  ThrottleInv'
  <2> DEFINE l == CheckThrottle(listener, throttlers')
  <2>1. l \in ListenerState /\ (l.throttled <=> throttlers' # {})
    BY <1>0, CheckThrottleState
  <2>2. listener' = [l EXCEPT !.ck_throttle_cookie = NoCookie]
    BY <1>7 DEF ck_session_entered
  <2> HIDE DEF l
  <2>3. (listener'.throttled <=> throttlers' # {}) /\ listener'.ck_throttle_cookie = NoCookie
    BY <2>1, <2>2 DEF ListenerState
  <2> QED BY <1>7, <1>a, <2>3 DEF ck_session_entered, ThrottleInv
<1>8. ASSUME NEW k \in Cookies, NEW h \in BOOLEAN, UnInhibit(k, h)
      PROVE  ThrottleSame
  BY <1>0, <1>8, StateTypes DEF UnInhibit, ThrottleSame
<1>9. ASSUME NEW c \in Clients, NEW h \in BOOLEAN, listener_service_deleted(c, h)
      PROVE  ThrottleInv'
  <2> DEFINE E == {e \in inhibitors : e.connection = c}
             T == {e \in throttlers : e.connection = c}
             l == IF T = {} THEN listener ELSE CheckThrottle(listener, throttlers \ T)
  <2>1. /\ l \in ListenerState /\ l.ck_throttle_cookie = listener.ck_throttle_cookie
        /\ l.throttled <=> throttlers \ T # {}
    <3>1. CASE T = {}
      BY <1>0, <3>1 DEF ThrottleInv
    <3>2. CASE T # {}
      BY <1>0, <3>2, CheckThrottleState
    <3> QED BY <3>1, <3>2
  <2>2. /\ listener' = IF E = {} THEN l ELSE CheckActivation(l, inhibitors', h)
        /\ throttlers' = throttlers \ T /\ away' = away
        /\ namesake' <=> (namesake \/ c = CkName)
    BY <1>9 DEF listener_service_deleted
  <2>3. /\ listener'.throttled = l.throttled
        /\ listener'.ck_throttle_cookie = l.ck_throttle_cookie
    <3> HIDE DEF l
    <3> QED BY <2>1, <2>2, StateTypes
  <2>4. \A e \in throttlers : e.connection # c => e \in throttlers'
    BY <2>2
  <2> HIDE DEF l, T
  <2> QED BY <1>a, <2>1, <2>2, <2>3, <2>4 DEF ThrottleInv
<1>10. ASSUME NEW b \in BOOLEAN, NEW h \in BOOLEAN, gs_listener_set_session_idle(b, h)
       PROVE  ThrottleSame
  BY <1>0, <1>10, SessionIdleType DEF gs_listener_set_session_idle, ThrottleSame
<1>11. ASSUME NEW b \in BOOLEAN, NEW h \in BOOLEAN, gs_listener_set_active(b, h)
       PROVE  ThrottleSame
  BY <1>0, <1>11, StateTypes DEF gs_listener_set_active, ThrottleSame
<1>12. CASE UNCHANGED listenerVars
  BY <1>12, <1>b DEF listenerVars, ThrottleSame
<1> QED
  BY <1>b, <1>1, <1>2, <1>3, <1>4, <1>5, <1>6, <1>7, <1>8, <1>9, <1>10, <1>11, <1>12
  DEF ListenerNext, ListenerStep, ListenerThrottle, ListenerCheck, name_owner_lost,
      name_released

LEMMA ThrottleHolds == ListenerSpec => []ThrottleInv
<1>1. ListenerInit => ThrottleInv
  <2> SUFFICES ASSUME ListenerInit PROVE ThrottleInv
    OBVIOUS
  <2>1. ListenerType
    BY InitOwned DEF EntriesAreOwned
  <2>2. listener.throttled = FALSE /\ listener.ck_throttle_cookie = NoCookie
    BY DEF ListenerInit
  <2> QED BY <2>1, <2>2 DEF ListenerInit, ThrottleInv
<1>2. ThrottleInv /\ EntriesAreOwned' /\ [ListenerNext]_listenerVars => ThrottleInv'
  BY StepThrottled
<1> QED BY <1>1, <1>2, Owned, PTL DEF ListenerSpec

\* The manager is throttled exactly while some client or ConsoleKit asks for
\* it, for any number of clients that come, ask and go, and ConsoleKit's
\* throttle lasts all the time that the session is away; only a client with
\* the unique name that ConsoleKit has on the other bus can take it along.
THEOREM Throttled == ListenerSpec => []ThrottledWhileRequested
<1>1. ThrottleInv => ThrottledWhileRequested
  BY DEF ThrottleInv, ThrottledWhileRequested
<1> QED BY <1>1, ThrottleHolds, PTL

\* Of the steps that remove a throttler each has a reason that ThrottlerGoes
\* lists: the entry that listener_remove_ck_ref_entry finds under the cookie
\* that is kept is ConsoleKit's, unless a namesake took that along.
LEMMA StepLasts ==
  ASSUME ThrottleInv, ListenerNext, NEW e \in throttlers \ throttlers'
  PROVE  ThrottlerGoes(e)
<1>0. /\ throttlers \in SUBSET Entry /\ e \in throttlers /\ e \notin throttlers'
      /\ clients \in SUBSET Clients
  BY DEF ThrottleInv, ListenerType
<1>1. ASSUME UNCHANGED throttlers
      PROVE  ThrottlerGoes(e)
  BY <1>0, <1>1
<1>2. ASSUME NEW c \in Clients, NEW k \in Cookies, Throttle(c, k)
      PROVE  ThrottlerGoes(e)
  BY <1>0, <1>2 DEF Throttle
<1>3. ASSUME NEW k \in Cookies, UnThrottle(k)
      PROVE  ThrottlerGoes(e)
  <2>1. e.cookie = k
    BY <1>0, <1>3 DEF UnThrottle
  <2> QED BY <1>3, <2>1 DEF ThrottlerGoes
<1>4. ASSUME NEW k \in Cookies, ck_session_left(k)
      PROVE  ThrottlerGoes(e)
  <2>1. ~away /\ e.cookie = listener.ck_throttle_cookie
    BY <1>0, <1>4 DEF ck_session_left
  <2>2. listener.ck_throttle_cookie = NoCookie
    BY <2>1 DEF ThrottleInv
  <2>3. e.cookie # NoCookie
    BY <1>0, CookiesAssumption DEF Entry
  <2> QED BY <2>1, <2>2, <2>3
<1>5. ASSUME ck_session_entered
      PROVE  ThrottlerGoes(e)
  <2>1. away /\ ~away' /\ e.cookie = listener.ck_throttle_cookie
    BY <1>0, <1>5 DEF ck_session_entered
  <2>2. e.ck \/ namesake
    BY <1>0, <2>1 DEF ThrottleInv
  <2> QED BY <2>1, <2>2 DEF ThrottlerGoes
<1>6. ASSUME NEW c \in Clients, NEW h \in BOOLEAN, listener_service_deleted(c, h)
      PROVE  e.connection = c
  BY <1>0, <1>6 DEF listener_service_deleted
<1>7. ASSUME NEW c \in Clients, NEW h \in BOOLEAN, name_owner_lost(c, h)
      PROVE  ThrottlerGoes(e)
  <2>1. e.connection = c /\ c \in exited /\ c \notin clients'
    BY <1>6, <1>7 DEF name_owner_lost
  <2> QED BY <2>1 DEF ThrottlerGoes
<1>8. ASSUME NEW c \in Clients, NEW h \in BOOLEAN, name_released(c, h)
      PROVE  ThrottlerGoes(e)
  <2>1. e.connection = c
    BY <1>6, <1>8 DEF name_released
  <2> QED BY <1>8, <2>1 DEF ThrottlerGoes
<1>9. ASSUME NEW h \in BOOLEAN, NEW b \in BOOLEAN,
             gs_listener_set_session_idle(b, h) \/ gs_listener_set_active(b, h)
      PROVE  ThrottlerGoes(e)
  BY <1>1, <1>9 DEF gs_listener_set_session_idle, gs_listener_set_active
<1>10. ASSUME ListenerStep
       PROVE  ThrottlerGoes(e)
  BY <1>1, <1>10 DEF ListenerStep, Inhibit, client_exits,
                     gs_listener_set_activation_enabled
<1>11. ASSUME NEW k \in Cookies, NEW h \in BOOLEAN, UnInhibit(k, h)
       PROVE  ThrottlerGoes(e)
  BY <1>1, <1>11 DEF UnInhibit
<1> QED BY <1>2, <1>3, <1>4, <1>5, <1>7, <1>8, <1>9, <1>10, <1>11
        DEF ListenerNext, ListenerThrottle, ListenerCheck

\* A throttler is removed by UnThrottle, with the end of its owner or with a
\* name that its owner gave up, for any clients and cookies; the session that
\* is active again takes only ConsoleKit's, or the one that has the cookie of
\* an entry which a namesake took along.
THEOREM Lasts == ListenerSpec => ThrottleLasts
<1>1. ThrottleInv /\ [ListenerNext]_listenerVars
        => [\A e \in throttlers \ throttlers' : ThrottlerGoes(e)]_listenerVars
  BY StepLasts
<1>2. ListenerSpec => []ThrottleInv
  BY ThrottleHolds
<1>3. ListenerSpec => [][ListenerNext]_listenerVars
  BY PTL DEF ListenerSpec
<1> QED BY <1>1, <1>2, <1>3, PTL DEF ThrottleLasts

-----------------------------------------------------------------------------
(* The daemon uses its components as they are meant to be used *)

\* The answers are Booleans.
LEMMA AnswersType ==
  ASSUME ManagerType, NEW b \in BOOLEAN
  PROVE  Answers(b) \subseteq BOOLEAN
BY DEF Answers, ManagerType, ManagerState

\* A manager with other values of lock_active and throttled may be activated.
LEMMA ActivateIsCall ==
  ASSUME ManagerType, NEW lock \in BOOLEAN, NEW t \in BOOLEAN,
         gs_manager_activate([manager EXCEPT !.lock_active = lock, !.throttled = t])
  PROVE  ManagerCall
BY DEF ManagerCall

\* The three managers that gs-monitor.c activates are of this form.
LEMMA ActivatedManagers ==
  ASSUME ManagerType, NEW t \in BOOLEAN
  PROVE  /\ manager = [manager EXCEPT !.lock_active = manager.lock_active,
                                      !.throttled = manager.throttled]
         /\ LockedManager(manager) = [manager EXCEPT !.lock_active = TRUE,
                                                     !.throttled = manager.throttled]
         /\ [manager EXCEPT !.throttled = t]
              = [manager EXCEPT !.lock_active = manager.lock_active, !.throttled = t]
BY DEF ManagerType, ManagerState, LockedManager

LEMMA ActivatedIsCall ==
  ASSUME ManagerType, NEW m, gs_manager_activate(m),
         \/ m = manager \/ m = LockedManager(manager)
         \/ \E t \in BOOLEAN : m = [manager EXCEPT !.throttled = t]
  PROVE  ManagerCall
<1>0. manager.lock_active \in BOOLEAN /\ manager.throttled \in BOOLEAN
  BY DEF ManagerType, ManagerState
<1>1. \E lock, t \in BOOLEAN :
        m = [manager EXCEPT !.lock_active = lock, !.throttled = t]
  <2>1. CASE m = manager \/ m = LockedManager(manager)
    BY <1>0, <2>1, ActivatedManagers
  <2>2. ASSUME NEW t \in BOOLEAN, m = [manager EXCEPT !.throttled = t]
        PROVE  m = [manager EXCEPT !.lock_active = manager.lock_active, !.throttled = t]
    BY <2>2, ActivatedManagers
  <2> QED BY <1>0, <2>1, <2>2
<1> QED BY <1>1, ActivateIsCall

\* Every handler of the daemon calls the manager as ManagerNext allows.
LEMMA CallsManager ==
  ASSUME ManagerType, ListenerType', [MonitorNext]_monitorVars
  PROVE  [ManagerNext]_managerVars
<1>0. listener'.throttled \in BOOLEAN
  BY DEF ListenerType, ListenerState
<1>1. CASE UNCHANGED monitorVars
  BY <1>1 DEF monitorVars
<1>2. CASE ActivateMessage
  BY <1>2, ActivatedIsCall DEF ActivateMessage, Activated, ManagerNext
<1>3. ASSUME NEW quit \in BOOLEAN, DeactivateMessage(quit)
      PROVE  [ManagerNext]_managerVars
  BY <1>3 DEF DeactivateMessage, Deactivated, ManagerNext, ManagerCall
<1>4. CASE manager_deactivated_cb
  BY <1>4
  DEF manager_deactivated_cb, Deactivated, window_deactivated_idle, ManagerNext, ManagerCall
<1>5. CASE listener_lock_cb
  <2>1. CASE UNCHANGED monitorVars
    BY <2>1 DEF monitorVars
  <2>2. CASE gs_manager_set_lock_active
    BY <2>2 DEF ManagerNext, ManagerCall
  <2>3. CASE gs_manager_activate(LockedManager(manager)) \/ UNCHANGED managerVars
    BY <2>3, ActivatedIsCall DEF ManagerNext
  <2> QED BY <1>5, <2>1, <2>2, <2>3 DEF listener_lock_cb, Activated
<1>6. ASSUME throttle_changed
      PROVE  [ManagerNext]_managerVars
  BY <1>0, <1>6 DEF throttle_changed, ManagerNext, ManagerCall
<1>7. CASE ThrottleMessage
  BY <1>6, <1>7 DEF ThrottleMessage
<1>8. CASE CheckMessage
  BY <1>0, <1>6, <1>8, ActivatedIsCall DEF CheckMessage, Activated, ManagerNext
<1>9. ASSUME NEW b \in BOOLEAN, on_presence_status_changed(b)
      PROVE  [ManagerNext]_managerVars
  BY <1>9
  DEF on_presence_status_changed, StatusIdle, StatusAvailable, NoticeEnds, ManagerNext,
      ManagerCall
<1>10. CASE on_idle_timeout
  <2>1. CASE gs_manager_activate(manager)
    BY <2>1, ActivatedIsCall DEF ManagerNext
  <2>2. CASE NoticeEnds \/ UNCHANGED managerVars
    BY <2>2 DEF NoticeEnds, ManagerNext, ManagerCall
  <2> QED BY <1>10, <2>1, <2>2 DEF on_idle_timeout
<1>11. CASE release_grab_timeout
  BY <1>11 DEF release_grab_timeout, ManagerNext, ManagerCall
<1>12. ASSUME NEW le \in BOOLEAN, NEW ld \in BOOLEAN, NEW ia \in BOOLEAN,
              NEW t \in {"same", "elapsed", "later"}, update_from_prefs(le, ld, t, ia)
       PROVE  [ManagerNext]_managerVars
  <2>1. (le /\ ~ld) \in BOOLEAN
    OBVIOUS
  <2> QED BY <1>12, <2>1 DEF update_from_prefs, ManagerNext, ManagerCall
<1>13. ASSUME NEW p \in Monitors, SleepMessage(p) \/ WakeMessage(p)
       PROVE  [ManagerNext]_managerVars
  BY <1>13
  DEF SleepMessage, WakeMessage, prepare_for_sleep_cb, ManagerNext, ManagerStep
<1> QED
  BY <1>1, <1>2, <1>3, <1>4, <1>5, <1>7, <1>8, <1>9, <1>10, <1>11, <1>12, <1>13
  DEF MonitorNext, ManagerNext

\* And the listener as ListenerNext allows.
LEMMA CallsListener ==
  ASSUME ManagerType, [MonitorNext]_monitorVars
  PROVE  [ListenerNext]_listenerVars
<1>0. Answers(TRUE) \subseteq BOOLEAN /\ Answers(FALSE) \subseteq BOOLEAN
  BY AnswersType
<1>1. CASE UNCHANGED monitorVars
  BY <1>1 DEF monitorVars
<1>2. CASE ActivateMessage
  BY <1>0, <1>2 DEF ActivateMessage, ListenerNext
<1>3. ASSUME NEW quit \in BOOLEAN, DeactivateMessage(quit)
      PROVE  [ListenerNext]_listenerVars
  BY <1>0, <1>3 DEF DeactivateMessage, ListenerNext
<1>4. CASE manager_deactivated_cb
  BY <1>0, <1>4 DEF manager_deactivated_cb, ListenerNext
<1>5. CASE listener_lock_cb
  BY <1>0, <1>5 DEF listener_lock_cb, ListenerNext, monitorVars
<1>6. CASE ThrottleMessage
  BY <1>6 DEF ThrottleMessage, ListenerNext, ListenerThrottle
<1>7. CASE CheckMessage
  BY <1>0, <1>7 DEF CheckMessage, ListenerNext
<1>8. ASSUME NEW b \in BOOLEAN, on_presence_status_changed(b)
      PROVE  [ListenerNext]_listenerVars
  BY <1>8 DEF on_presence_status_changed, StatusIdle, StatusAvailable, ListenerNext
<1>9. CASE on_idle_timeout
  BY <1>0, <1>9 DEF on_idle_timeout, ListenerNext
<1>10. CASE release_grab_timeout
  BY <1>10 DEF release_grab_timeout
<1>11. ASSUME NEW le \in BOOLEAN, NEW ld \in BOOLEAN, NEW ia \in BOOLEAN,
              NEW t \in {"same", "elapsed", "later"}, update_from_prefs(le, ld, t, ia)
       PROVE  [ListenerNext]_listenerVars
  BY <1>11 DEF update_from_prefs, ListenerNext, ListenerStep
<1>12. ASSUME NEW p \in Monitors, SleepMessage(p) \/ WakeMessage(p)
       PROVE  [ListenerNext]_listenerVars
  BY <1>12 DEF SleepMessage, WakeMessage
<1> QED
  BY <1>1, <1>2, <1>3, <1>4, <1>5, <1>6, <1>7, <1>8, <1>9, <1>10, <1>11, <1>12
  DEF MonitorNext, ListenerNext

-----------------------------------------------------------------------------
(* What is proved of the components holds in the daemon *)

\* The invariants of the two components.
ComponentInv == KnownInv /\ EntriesAreOwned

LEMMA ComponentStep ==
  ComponentInv /\ [MonitorNext]_monitorVars
    => ComponentInv' /\ [ManagerNext]_managerVars /\ [ListenerNext]_listenerVars
<1> SUFFICES ASSUME ComponentInv, [MonitorNext]_monitorVars
             PROVE  ComponentInv' /\ [ManagerNext]_managerVars /\ [ListenerNext]_listenerVars
  OBVIOUS
<1>1. ManagerType
  BY DEF ComponentInv, KnownInv, DialogInv, LockInv
<1>2. [ListenerNext]_listenerVars
  BY <1>1, CallsListener
<1>3. EntriesAreOwned' /\ ListenerType'
  BY <1>2, StepOwned DEF ComponentInv, EntriesAreOwned
<1>4. [ManagerNext]_managerVars
  BY <1>1, <1>3, CallsManager
<1> QED BY <1>2, <1>3, <1>4, KnownStep DEF ComponentInv

LEMMA ComponentInit == MonitorInit => ComponentInv
BY KnownInit, InitOwned DEF MonitorInit, ComponentInv

\* The daemon drives the manager as its specification allows, so every
\* safety property of the manager holds in the daemon.
THEOREM DrivesManager == MonitorSpec => ManagerSpec
<1>1. MonitorInit => ManagerInit
  BY DEF MonitorInit
<1> QED BY <1>1, ComponentInit, ComponentStep, PTL DEF MonitorSpec, ManagerSpec

\* And the listener, up to the fairness of the bus.
THEOREM DrivesListener == MonitorSpec => ListenerInit /\ [][ListenerNext]_listenerVars
<1>1. MonitorInit => ListenerInit
  BY DEF MonitorInit
<1> QED BY <1>1, ComponentInit, ComponentStep, PTL DEF MonitorSpec

\* In the daemon too a lock covers every monitor and no answer of a dialog
\* is lost, whatever the bus, the session manager and the preferences do.
THEOREM DaemonLocks ==
  MonitorSpec => ImplementsScreenLock /\ []LockCoversEveryMonitor /\ []AcceptedIsPending
BY DrivesManager, Implements, LockCovers, Accepted, PTL
-----------------------------------------------------------------------------
(* What each call does to the state that the components share *)

\* A step of the main loop inside the manager neither turns the screensaver
\* on or off nor throttles it; it locks only by the lock timer and never
\* unlocks; it grabs the devices only while active, and unfades or leaves
\* the unfade timer set.
StepKeeps ==
  /\ UNCHANGED <<manager.active, manager.throttled, manager.lock_enabled>>
  /\ manager.lock_active => manager'.lock_active
  /\ manager'.lock_active => manager.lock_active \/ manager.lock_enabled
  /\ manager.active \/ grab' = grab \/ grab'.window = None
  /\ dimmed' => dimmed /\ (manager.unfade => manager'.unfade)

\* The same of an unlock request that ends a handler.
LEMMA RequestUnlockKeeps ==
  ASSUME NEW m \in ManagerState, NEW ws, NEW w, NEW j, NEW g, NEW p,
         RequestUnlock(m, ws, w, j, g, p)
  PROVE  /\ manager'.active = m.active /\ manager'.throttled = m.throttled
         /\ manager'.lock_enabled = m.lock_enabled
         /\ manager'.lock_active = m.lock_active /\ manager'.unfade = m.unfade
         /\ m.active \/ grab' = g
BY DEF RequestUnlock, DialogUp, ManagerState

LEMMA PoppedKeeps ==
  ASSUME ManagerType, NEW W
  PROVE  /\ PoppedManager(W).active = manager.active
         /\ PoppedManager(W).throttled = manager.throttled
         /\ PoppedManager(W).lock_enabled = manager.lock_enabled
         /\ PoppedManager(W).lock_active = manager.lock_active
         /\ PoppedManager(W).unfade = manager.unfade
BY DEF ManagerType, PoppedManager, ManagerState

LEMMA LockTimeoutKeeps ==
  ASSUME NEW m \in ManagerState, LockTimeout(m)
  PROVE  /\ manager'.active = m.active /\ manager'.throttled = m.throttled
         /\ manager'.lock_enabled = m.lock_enabled /\ manager'.unfade = m.unfade
         /\ m.lock_active => manager'.lock_active
         /\ manager'.lock_active => m.lock_active \/ m.lock_enabled
BY DEF LockTimeout, LockedManager, ManagerState

LEMMA StepsKeep == KnownInv /\ ManagerStep => StepKeeps
<1> SUFFICES ASSUME KnownInv, ManagerStep PROVE StepKeeps
  OBVIOUS
<1>0. /\ ManagerType /\ manager \in ManagerState /\ windows \in SUBSET Monitors
      /\ windows # {} => manager.active
      /\ win.lock_watch \cup win.unmapped \subseteq windows
  BY DEF KnownInv, DialogInv, LockInv, ManagerType, LockCoversEveryMonitor,
     DialogOwnsInput, FieldsOfWindows
<1>1. ASSUME NEW p \in Monitors, gs_manager_request_unlock(p)
      PROVE  StepKeeps
  BY <1>0, <1>1, RequestUnlockKeeps DEF gs_manager_request_unlock, StepKeeps
<1>2. ASSUME NEW w \in Monitors,
             \/ popup_dialog_idle(w) \/ lock_command_error(w) \/ emit_deactivated_idle(w)
             \/ emit_on_freed_window(w) \/ gs_job_died(w) \/ window_obscured(w)
      PROVE  StepKeeps
  BY <1>2
  DEF popup_dialog_idle, lock_command_error, emit_deactivated_idle, emit_on_freed_window,
      gs_job_died, window_obscured, StepKeeps
<1>3. ASSUME NEW w \in Monitors, NEW r \in {"ok", "cancel", "eof"},
             lock_command_watch(w, r)
      PROVE  StepKeeps
  <2>1. /\ manager.active /\ manager' = PoppedManager({w}) /\ dimmed' = dimmed
    BY <1>0, <1>3 DEF lock_command_watch
  <2> QED BY <1>0, <2>1, PoppedKeeps DEF StepKeeps
<1>4. ASSUME NEW w \in Monitors, NEW p \in Monitors, window_map_event_cb(w, p)
      PROVE  StepKeeps
  BY <1>0, <1>4 DEF window_map_event_cb, StepKeeps
<1>5. ASSUME NEW w \in Monitors, NEW p \in Monitors, window_unobscured(w, p)
      PROVE  StepKeeps
  <2>1. /\ \E v, j : RequestUnlock(manager, windows, v, j, grab, p)
        /\ dimmed' = dimmed
    BY <1>5 DEF window_unobscured
  <2> QED BY <1>0, <2>1, RequestUnlockKeeps DEF StepKeeps
<1>6. ASSUME activate_lock_timeout
      PROVE  StepKeeps
  BY <1>0, <1>6, LockTimeoutKeeps DEF activate_lock_timeout, StepKeeps
<1>7. ASSUME gs_manager_cycle
      PROVE  StepKeeps
  BY <1>7 DEF gs_manager_cycle, StepKeeps
<1>8. ASSUME window_grab_broken_cb
      PROVE  StepKeeps
  BY <1>0, <1>8 DEF window_grab_broken_cb, StepKeeps
<1>9. ASSUME unfade_idle
      PROVE  StepKeeps
  BY <1>0, <1>9 DEF unfade_idle, ManagerState, StepKeeps
<1>10. ASSUME NEW m \in Monitors, on_display_monitor_removed(m)
       PROVE  StepKeeps
  <2>1. CASE windows = {}
    BY <1>10, <2>1 DEF on_display_monitor_removed, StepKeeps
  <2>2. CASE windows # {}
    <3>1. manager' = PoppedManager({m}) /\ dimmed' = dimmed
      BY <1>10, <2>2 DEF on_display_monitor_removed
    <3> QED BY <1>0, <2>2, <3>1, PoppedKeeps DEF StepKeeps
  <2> QED BY <2>1, <2>2
<1>11. ASSUME NEW m \in Monitors, NEW p \in Monitors, on_display_monitor_added(m, p)
       PROVE  StepKeeps
  <2>1. CASE windows = {}
    BY <1>11, <2>1 DEF on_display_monitor_added, StepKeeps
  <2>2. CASE windows # {}
    <3> DEFINE m0 == [PoppedManager(windows) EXCEPT !.lock_timer = TRUE,
                                                    !.unfade = TRUE]
    <3>1. PoppedManager(windows) \in ManagerState
      BY <1>0, PoppedTypes
    <3>2. /\ m0 \in ManagerState /\ m0.unfade
          /\ m0.active = manager.active /\ m0.throttled = manager.throttled
          /\ m0.lock_enabled = manager.lock_enabled
          /\ m0.lock_active = manager.lock_active
      BY <1>0, <3>1, PoppedKeeps DEF ManagerState
    <3>3. /\ \E v, j : RequestUnlock(m0, windows', v, j, PoppedGrab(windows), p)
          /\ dimmed' = dimmed
      BY <1>11, <2>2 DEF on_display_monitor_added
    <3> HIDE DEF m0
    <3> QED BY <1>0, <2>2, <3>2, <3>3, RequestUnlockKeeps DEF StepKeeps
  <2> QED BY <2>1, <2>2
<1> QED
  BY <1>1, <1>2, <1>3, <1>4, <1>5, <1>6, <1>7, <1>8, <1>9, <1>10, <1>11
  DEF ManagerStep, maybe_handle_activity

\* Turning the screensaver on and off.
LEMMA ActivateDoes ==
  ASSUME NEW m \in ManagerState, gs_manager_activate(m)
  PROVE  /\ manager'.active /\ manager'.unfade /\ manager'.throttled = m.throttled
         /\ manager'.lock_active = m.lock_active /\ manager'.lock_enabled = m.lock_enabled
BY DEF gs_manager_activate, ManagerState

LEMMA DeactivateDoes ==
  ASSUME manager \in ManagerState, NEW i, gs_manager_deactivate(i)
  PROVE  /\ manager.active /\ ~manager'.active /\ ~manager'.lock_active
         /\ manager'.throttled = manager.throttled
         /\ manager'.lock_enabled = manager.lock_enabled
         /\ grab'.window = None /\ dimmed' = FALSE
BY DEF gs_manager_deactivate, ManagerState, NoGrab

\* What an activation or deactivation of the listener leaves of it.
LEMMA SetActiveOn ==
  ASSUME NEW l \in ListenerState, NEW h \in BOOLEAN
  PROVE  LET c == SetActive(l, TRUE, h)
         IN /\ c \in ListenerState /\ (c.throttled <=> l.throttled)
            /\ l.active => c = l
            /\ ~l.active /\ h => c.active /\ c.session_idle
            /\ ~l.active /\ ~h => ~c.active
<1>1. CASE l.active
  BY <1>1 DEF SetActive, ListenerState
<1>2. CASE ~l.active /\ h
  <2>1. SetActive(l, TRUE, h) = [l EXCEPT !.active = TRUE, !.session_idle = TRUE]
    BY <1>2 DEF SetActive
  <2> QED BY <1>2, <2>1 DEF ListenerState
<1>3. CASE ~l.active /\ ~h
  <2>1. SetActive(l, TRUE, h) = [l EXCEPT !.session_idle = FALSE]
    BY <1>3 DEF SetActive, ListenerState
  <2> QED BY <1>3, <2>1 DEF ListenerState
<1> QED BY <1>1, <1>2, <1>3

LEMMA SetActiveOff ==
  ASSUME NEW l \in ListenerState
  PROVE  LET c == SetActive(l, FALSE, TRUE)
         IN c \in ListenerState /\ ~c.active /\ (c.throttled <=> l.throttled)
<1>1. CASE ~l.active
  BY <1>1 DEF SetActive, ListenerState
<1>2. CASE l.active
  <2>1. SetActive(l, FALSE, TRUE) = [l EXCEPT !.active = FALSE, !.session_idle = FALSE]
    BY <1>2 DEF SetActive
  <2> QED BY <1>2, <2>1 DEF ListenerState
<1> QED BY <1>1, <1>2

LEMMA CheckActivationDoes ==
  ASSUME NEW l \in ListenerState, NEW inh, NEW h \in BOOLEAN,
         l.active => l.session_idle
  PROVE  LET c == CheckActivation(l, inh, h)
         IN /\ c \in ListenerState /\ (c.throttled <=> l.throttled)
            /\ c.active => c.session_idle
            /\ l.active => c.active
            /\ c.active /\ ~l.active => h /\ l.activation_enabled /\ inh = {}
<1>1. CASE WantsActivation(l, inh)
  <2> DEFINE c == SetActive(l, TRUE, h)
  <2>1. l.activation_enabled /\ inh = {} /\ CheckActivation(l, inh, h) = c
    BY <1>1 DEF WantsActivation, CheckActivation
  <2>2. /\ c \in ListenerState /\ (c.throttled <=> l.throttled)
        /\ l.active => c = l
        /\ ~l.active /\ h => c.active /\ c.session_idle
        /\ ~l.active /\ ~h => ~c.active
    BY SetActiveOn
  <2> HIDE DEF c
  <2> QED BY <2>1, <2>2
<1>2. CASE ~WantsActivation(l, inh)
  BY <1>2 DEF CheckActivation
<1> QED BY <1>1, <1>2
-----------------------------------------------------------------------------
(* The daemon's invariant *)

GlueType ==
  /\ watcher \in WatcherState /\ presence \in BOOLEAN
  /\ monitor \in [release_grab: BOOLEAN, lock_disabled: BOOLEAN]
  /\ logind \in [lock: BOOLEAN, asleep: BOOLEAN]
  /\ running \in BOOLEAN

Agree ==
  /\ listener.active <=> manager.active
  /\ listener.active => listener.session_idle
  /\ listener.throttled <=> manager.throttled
  /\ watcher.active <=> ~manager.active
  /\ watcher.idle_notice => watcher.active /\ watcher.idle_id

LockPrefs == manager.lock_enabled => ~monitor.lock_disabled

(***************************************************************************)
(* ComponentsAgree is inductive with the invariants of the components;     *)
(* InputFreedWhenOff needs it, since only a watcher that is not watching   *)
(* while the screensaver is active loses no notice; and LockIsDeliberate   *)
(* needs that the lock preference the manager was told includes the        *)
(* administrator's.                                                        *)
(***************************************************************************)
DaemonInv ==
  ComponentInv /\ GlueType /\ Agree /\ InputFreedWhenOff /\ LockPrefs

\* The two action properties, as what a step does.
Deliberate ==
  /\ ~manager.lock_active /\ manager'.lock_active => ~monitor'.lock_disabled
  /\ manager.lock_active /\ ~manager'.lock_active => ~manager'.active

Allowed ==
  ~manager.active /\ manager'.active /\ (watcher'.idle \/ inhibitors' # inhibitors)
    => listener.activation_enabled /\ inhibitors' = {}

Good ==
  GlueType' /\ Agree' /\ InputFreedWhenOff' /\ LockPrefs' /\ Deliberate /\ Allowed

\* The facts about a state that the steps below start from.
LEMMA DaemonFacts ==
  ASSUME DaemonInv
  PROVE  /\ KnownInv /\ ManagerType /\ manager \in ManagerState
         /\ listener \in ListenerState /\ watcher \in WatcherState
         /\ manager.lock_active => manager.active
BY DEF DaemonInv, ComponentInv, KnownInv, DialogInv, LockInv, LockCoversEveryMonitor,
   ManagerType, EntriesAreOwned, ListenerType, GlueType

\* When its timer fires, a notice is over.
LEMMA TimedOut ==
  ASSUME NEW w \in WatcherState, NEW h \in BOOLEAN
  PROVE  /\ IdleTimedOut(w, h) \in WatcherState
         /\ IdleTimedOut(w, h).active <=> w.active
         /\ ~IdleTimedOut(w, h).idle_notice
BY DEF IdleTimedOut, NoticeSet, IdleSet, WatcherState

\* A watcher that is stopped, or started, has nothing left of a notice.
LEMMA Watching ==
  ASSUME watcher \in WatcherState
  PROVE  /\ SetWatching(watcher, FALSE) \in WatcherState
         /\ ~SetWatching(watcher, FALSE).active
         /\ watcher.active => /\ ~SetWatching(watcher, FALSE).idle
                              /\ ~SetWatching(watcher, FALSE).idle_notice
         /\ SetWatching(watcher, TRUE) \in WatcherState
         /\ SetWatching(watcher, TRUE).active
         /\ ~watcher.active => ~SetWatching(watcher, TRUE).idle_notice
         /\ watcher.active => SetWatching(watcher, TRUE) = watcher
BY DEF SetWatching, WatcherState

\* The screensaver and the listener turn on together.
LEMMA TurnsOn ==
  ASSUME DaemonInv, NEW m \in ManagerState, gs_manager_activate(m), ~manager.active,
         m.lock_enabled = manager.lock_enabled,
         m.lock_active => manager.lock_active \/ ~monitor.lock_disabled,
         listener'.active, listener'.session_idle, listener'.throttled <=> m.throttled,
         watcher' \in WatcherState, ~watcher'.active, ~watcher'.idle_notice,
         presence' = presence, UNCHANGED glueVars, Allowed
  PROVE  Good
<1>0. /\ manager'.active /\ manager'.unfade /\ manager'.throttled = m.throttled
      /\ manager'.lock_active = m.lock_active /\ manager'.lock_enabled = m.lock_enabled
  BY ActivateDoes
<1>1. GlueType'
  BY DEF DaemonInv, GlueType, glueVars
<1>2. Agree'
  BY <1>0 DEF Agree
<1>3. InputFreedWhenOff'
  BY <1>0 DEF InputFreedWhenOff
<1>4. LockPrefs' /\ Deliberate
  BY <1>0, DaemonFacts DEF DaemonInv, LockPrefs, Deliberate, glueVars
<1> QED BY <1>1, <1>2, <1>3, <1>4 DEF Good

\* They turn off together.
LEMMA TurnsOff ==
  ASSUME DaemonInv, NEW i, Deactivated(i), running' \in BOOLEAN,
         ~listener'.active, listener'.throttled <=> listener.throttled
  PROVE  Good
<1>0. /\ manager.active /\ ~manager'.active /\ ~manager'.lock_active
      /\ manager'.throttled = manager.throttled
      /\ manager'.lock_enabled = manager.lock_enabled
      /\ grab'.window = None /\ dimmed' = FALSE
  BY DaemonFacts, DeactivateDoes DEF Deactivated
<1>1. watcher' \in WatcherState /\ watcher'.active /\ ~watcher'.idle_notice
  BY <1>0, DaemonFacts, Watching DEF Deactivated, DaemonInv, Agree
<1>2. GlueType'
  BY <1>1 DEF Deactivated, DaemonInv, GlueType
<1>3. Agree'
  BY <1>0, <1>1 DEF DaemonInv, Agree
<1>4. InputFreedWhenOff'
  BY <1>0 DEF InputFreedWhenOff
<1>5. LockPrefs' /\ Deliberate /\ Allowed
  BY <1>0 DEF Deactivated, DaemonInv, LockPrefs, Deliberate, Allowed
<1> QED BY <1>2, <1>3, <1>4, <1>5 DEF Good

\* A step of the manager alone.
LEMMA Stays ==
  ASSUME DaemonInv, StepKeeps, GlueType', UNCHANGED <<watcher, monitor>>,
         listener'.active <=> listener.active, listener'.active => listener'.session_idle,
         listener'.throttled <=> listener.throttled
  PROVE  Good
<1>1. Agree'
  BY DEF DaemonInv, StepKeeps, Agree
<1>2. InputFreedWhenOff'
  BY DEF DaemonInv, StepKeeps, InputFreedWhenOff
<1>3. LockPrefs' /\ Deliberate /\ Allowed
  BY DEF DaemonInv, StepKeeps, LockPrefs, Deliberate, Allowed
<1> QED BY <1>1, <1>2, <1>3 DEF Good

LEMMA UnchangedKeeps == UNCHANGED managerVars => StepKeeps
BY DEF managerVars, StepKeeps

\* The handlers that end in listener_check_activation.
LEMMA CheckDoes ==
  ASSUME ListenerType, NEW h \in BOOLEAN, ListenerCheck(h),
         listener.active => listener.session_idle
  PROVE  /\ listener'.active => listener'.session_idle
         /\ listener.active => listener'.active
         /\ listener'.active /\ ~listener.active
              => h /\ listener.activation_enabled /\ inhibitors' = {}
<1>0. listener \in ListenerState
  BY DEF ListenerType
<1>1. ASSUME NEW k \in Cookies, UnInhibit(k, h)
      PROVE  listener' = CheckActivation(listener, inhibitors', h)
  BY <1>1 DEF UnInhibit
<1>2. ASSUME NEW c \in Clients, name_owner_lost(c, h) \/ name_released(c, h)
      PROVE  \E l \in ListenerState :
               /\ l.active = listener.active /\ l.session_idle = listener.session_idle
               /\ l.activation_enabled = listener.activation_enabled
               /\ listener' = l \/ listener' = CheckActivation(l, inhibitors', h)
  <2> DEFINE E == {e \in inhibitors : e.connection = c}
             T == {e \in throttlers : e.connection = c}
             l == IF T = {} THEN listener ELSE CheckThrottle(listener, throttlers \ T)
  <2>1. /\ l \in ListenerState
        /\ l.active = listener.active /\ l.session_idle = listener.session_idle
        /\ l.activation_enabled = listener.activation_enabled
    BY <1>0, CheckThrottleState
  <2>2. listener' = IF E = {} THEN l ELSE CheckActivation(l, inhibitors', h)
    BY <1>2 DEF name_owner_lost, name_released, listener_service_deleted
  <2> HIDE DEF l
  <2> QED BY <2>1, <2>2
<1> QED BY <1>0, <1>1, <1>2, CheckActivationDoes DEF ListenerCheck

LEMMA DaemonGood ==
  ASSUME DaemonInv, ListenerType', [MonitorNext]_monitorVars
  PROVE  Good
<1>0. /\ KnownInv /\ ManagerType /\ manager \in ManagerState
      /\ ListenerType /\ listener \in ListenerState
      /\ watcher \in WatcherState /\ GlueType /\ Agree
      /\ listener' \in ListenerState
      /\ Answers(TRUE) \subseteq BOOLEAN
  BY DaemonFacts, AnswersType DEF DaemonInv, ComponentInv, EntriesAreOwned, ListenerType
<1>1. CASE UNCHANGED monitorVars
  BY <1>0, <1>1, Stays, UnchangedKeeps
  DEF monitorVars, listenerVars, watcherVars, glueVars, GlueType, Agree
<1>2. CASE ManagerStep /\ UNCHANGED <<listenerVars, watcherVars, glueVars>>
  BY <1>0, <1>2, Stays, StepsKeep DEF listenerVars, watcherVars, glueVars, GlueType, Agree
<1>3. CASE ListenerStep /\ UNCHANGED <<managerVars, watcherVars, glueVars>>
  <2>1. /\ listener'.active <=> listener.active
        /\ listener'.session_idle <=> listener.session_idle
        /\ listener'.throttled <=> listener.throttled
    BY <1>0, <1>3
    DEF ListenerStep, Inhibit, client_exits, gs_listener_set_activation_enabled,
        ListenerState
  <2> QED BY <1>0, <1>3, <2>1, Stays, UnchangedKeeps
          DEF watcherVars, glueVars, GlueType, Agree
<1>4. ASSUME NEW h \in Answers(TRUE), gs_listener_set_active(TRUE, h),
             listener'.active = listener.active,
             UNCHANGED <<managerVars, watcherVars, glueVars>>
      PROVE  Good
  <2>1. /\ listener'.throttled <=> listener.throttled
        /\ listener'.active => listener'.session_idle
    BY <1>0, <1>4, SetActiveOn DEF gs_listener_set_active, Agree
  <2> QED BY <1>0, <1>4, <2>1, Stays, UnchangedKeeps
          DEF watcherVars, glueVars, GlueType, Agree
<1>5. ASSUME NEW h \in Answers(TRUE), gs_listener_set_active(TRUE, h),
             listener'.active # listener.active,
             NEW m, m = manager \/ (m = LockedManager(manager) /\ ~monitor.lock_disabled),
             Activated(m)
      PROVE  Good
  <2>1. ~listener.active /\ listener'.active /\ listener'.session_idle
    <3> DEFINE c == SetActive(listener, TRUE, h)
    <3>1. /\ listener.active => c = listener
          /\ ~listener.active /\ h => c.active /\ c.session_idle
          /\ ~listener.active /\ ~h => ~c.active
          /\ h \in BOOLEAN
      BY <1>0, <1>5, SetActiveOn
    <3>2. listener' = c
      BY <1>5 DEF gs_listener_set_active
    <3>3. listener.active \in BOOLEAN /\ listener'.active \in BOOLEAN
      BY <1>0 DEF ListenerState
    <3> HIDE DEF c
    <3> QED BY <1>5, <3>1, <3>2, <3>3
  <2>2. listener'.throttled <=> listener.throttled
    BY <1>0, <1>5, SetActiveOn DEF gs_listener_set_active
  <2>3. /\ m \in ManagerState /\ m.lock_enabled = manager.lock_enabled
        /\ m.throttled = manager.throttled
        /\ m.lock_active => manager.lock_active \/ ~monitor.lock_disabled
    BY <1>0, <1>5 DEF LockedManager, ManagerState
  <2>4. watcher.active /\ ~manager.active
    BY <1>0, <2>1 DEF Agree
  <2>5. /\ watcher' \in WatcherState /\ ~watcher'.active /\ ~watcher'.idle_notice
        /\ ~watcher'.idle
    BY <1>0, <1>5, <2>4, Watching DEF Activated
  <2>6. Allowed
    BY <1>5, <2>5 DEF Allowed, gs_listener_set_active
  <2> QED BY <1>0, <1>5, <2>1, <2>2, <2>3, <2>4, <2>5, <2>6, TurnsOn DEF Activated, Agree
<1>6. CASE ActivateMessage
  BY <1>4, <1>5, <1>6 DEF ActivateMessage
<1>7. ASSUME NEW i, gs_listener_set_active(FALSE, manager.active),
             listener'.active # listener.active, Deactivated(i), running' \in BOOLEAN
      PROVE  Good
  <2>1. manager.active /\ listener' = SetActive(listener, FALSE, TRUE)
    BY <1>0, <1>7
    DEF Deactivated, gs_manager_deactivate, gs_listener_set_active, ManagerState
  <2>2. ~listener'.active /\ (listener'.throttled <=> listener.throttled)
    BY <1>0, <2>1, SetActiveOff
  <2> QED BY <1>7, <2>2, TurnsOff
<1>8. ASSUME gs_listener_set_active(FALSE, manager.active),
             listener'.active = listener.active
      PROVE  listener' = listener /\ ~manager.active
  <2>1. CASE manager.active
    <3>1. listener' = SetActive(listener, FALSE, TRUE) /\ listener.active
      BY <1>0, <1>8, <2>1 DEF gs_listener_set_active, ManagerState, Agree
    <3> QED BY <1>0, <1>8, <3>1, SetActiveOff
  <2>2. CASE ~manager.active
    BY <1>0, <1>8, <2>2 DEF gs_listener_set_active, SetActive, ListenerState, Agree
  <2> QED BY <2>1, <2>2
<1>9. ASSUME NEW quit \in BOOLEAN, DeactivateMessage(quit)
      PROVE  Good
  <2>1. gs_listener_set_active(FALSE, manager.active) /\ running' \in BOOLEAN
    BY <1>9 DEF DeactivateMessage, Answers
  <2>2. CASE listener'.active # listener.active
    BY <1>7, <1>9, <2>1, <2>2 DEF DeactivateMessage
  <2>3. CASE listener'.active = listener.active
    <3>1. listener' = listener /\ UNCHANGED <<managerVars, watcherVars, monitor, logind>>
      BY <1>8, <1>9, <2>1, <2>3 DEF DeactivateMessage
    <3> QED BY <1>0, <2>1, <3>1, Stays, UnchangedKeeps DEF watcherVars, GlueType, Agree
  <2> QED BY <2>2, <2>3
<1>10. CASE manager_deactivated_cb
  <2>1. gs_listener_set_active(FALSE, manager.active) /\ running' \in BOOLEAN
    BY <1>0, <1>10 DEF manager_deactivated_cb, Answers, GlueType
  <2>2. CASE listener'.active # listener.active
    BY <1>7, <1>10, <2>1, <2>2 DEF manager_deactivated_cb
  <2>3. CASE listener'.active = listener.active
    <3>1. /\ listener' = listener /\ ~manager.active
          /\ window_deactivated_idle /\ UNCHANGED <<watcherVars, monitor, logind>>
      BY <1>8, <1>10, <2>1, <2>3 DEF manager_deactivated_cb
    <3>2. StepKeeps
      BY <3>1 DEF window_deactivated_idle, gs_manager_deactivate, StepKeeps
    <3> QED BY <1>0, <2>1, <3>1, <3>2, Stays DEF watcherVars, GlueType, Agree
  <2> QED BY <2>2, <2>3
<1>11. CASE listener_lock_cb
  <2>1. CASE ~monitor.lock_disabled /\ manager.active /\ gs_manager_set_lock_active
               /\ UNCHANGED <<listenerVars, watcherVars, glueVars>>
    <3>1. /\ UNCHANGED <<grab, dimmed>>
          /\ manager'.active /\ (manager'.throttled <=> manager.throttled)
          /\ manager'.unfade <=> manager.unfade
          /\ manager'.lock_active
          /\ manager'.lock_enabled <=> manager.lock_enabled
      BY <1>0, <2>1 DEF gs_manager_set_lock_active, LockedManager, ManagerState
    <3>2. GlueType' /\ Agree'
      BY <1>0, <2>1, <3>1 DEF listenerVars, watcherVars, glueVars, GlueType, Agree
    <3>3. InputFreedWhenOff' /\ LockPrefs' /\ Deliberate /\ Allowed
      BY <2>1, <3>1
      DEF DaemonInv, InputFreedWhenOff, watcherVars, glueVars, LockPrefs, Deliberate, Allowed
    <3> QED BY <3>2, <3>3 DEF Good
  <2>2. CASE ~monitor.lock_disabled /\ ~manager.active
    BY <1>4, <1>5, <1>11, <2>2 DEF listener_lock_cb
  <2> QED BY <1>1, <1>11, <2>1, <2>2 DEF listener_lock_cb
<1>12. ASSUME throttle_changed, UNCHANGED <<watcherVars, glueVars>>,
              listener'.active <=> listener.active,
              listener'.active => listener'.session_idle
       PROVE  Good
  <2>1. CASE listener'.throttled = listener.throttled
    BY <1>0, <1>12, <2>1, Stays, UnchangedKeeps
    DEF throttle_changed, watcherVars, glueVars, GlueType, Agree
  <2>2. CASE listener'.throttled # listener.throttled
    <3>1. /\ UNCHANGED <<grab, dimmed>>
          /\ manager'.throttled <=> listener'.throttled
          /\ manager'.active <=> manager.active
          /\ manager'.unfade <=> manager.unfade
          /\ manager'.lock_active <=> manager.lock_active
          /\ manager'.lock_enabled <=> manager.lock_enabled
      BY <1>0, <1>12, <2>2 DEF throttle_changed, gs_manager_set_throttled, ManagerState
    <3>2. GlueType' /\ Agree'
      BY <1>0, <1>12, <3>1 DEF watcherVars, glueVars, GlueType, Agree
    <3>3. InputFreedWhenOff' /\ LockPrefs' /\ Deliberate /\ Allowed
      BY <1>12, <3>1
      DEF DaemonInv, InputFreedWhenOff, watcherVars, glueVars, LockPrefs, Deliberate, Allowed
    <3> QED BY <3>2, <3>3 DEF Good
  <2> QED BY <2>1, <2>2
<1>13. CASE ThrottleMessage
  <2>1. \E thr : listener' = CheckThrottle(listener, thr)
    BY <1>13 DEF ThrottleMessage, Throttle, UnThrottle
  <2>2. /\ listener'.active <=> listener.active
        /\ listener'.active => listener'.session_idle
    BY <1>0, <2>1, CheckThrottleState DEF Agree
  <2> QED BY <1>12, <1>13, <2>2 DEF ThrottleMessage
<1>14. CASE CheckMessage
  <2>1. PICK h \in Answers(TRUE) :
          /\ ListenerCheck(h)
          /\ IF listener'.active # listener.active
             THEN Activated([manager EXCEPT !.throttled = listener'.throttled])
             ELSE throttle_changed /\ UNCHANGED <<watcherVars, glueVars>>
    BY <1>14 DEF CheckMessage
  <2>2. /\ listener'.active => listener'.session_idle
        /\ listener.active => listener'.active
        /\ listener'.active /\ ~listener.active
             => listener.activation_enabled /\ inhibitors' = {}
    BY <1>0, <2>1, CheckDoes DEF Agree
  <2>3. CASE listener'.active = listener.active
    BY <1>12, <2>1, <2>2, <2>3
  <2>4. CASE listener'.active # listener.active
    <3> DEFINE m == [manager EXCEPT !.throttled = listener'.throttled]
    <3>1. ~listener.active /\ listener'.active
      BY <1>0, <2>2, <2>4 DEF ListenerState
    <3>2. watcher.active /\ ~manager.active
      BY <1>0, <3>1 DEF Agree
    <3>3. /\ m \in ManagerState /\ m.lock_enabled = manager.lock_enabled
          /\ m.throttled <=> listener'.throttled
          /\ m.lock_active => manager.lock_active
      BY <1>0 DEF ManagerState, ListenerState
    <3>4. Activated(m)
      BY <2>1, <2>4
    <3> HIDE DEF m
    <3>5. /\ watcher' \in WatcherState /\ ~watcher'.active /\ ~watcher'.idle_notice
      BY <1>0, <3>2, <3>4, Watching DEF Activated
    <3>6. Allowed
      BY <2>2, <3>1 DEF Allowed
    <3> QED BY <2>2, <3>1, <3>2, <3>3, <3>4, <3>5, <3>6, TurnsOn DEF Activated
  <2> QED BY <2>3, <2>4
<1>15. ASSUME NEW b \in BOOLEAN, on_presence_status_changed(b)
       PROVE  Good
  <2>0. presence' \in BOOLEAN
    BY <1>15 DEF on_presence_status_changed
  <2>1. CASE UNCHANGED <<watcher, listenerVars, managerVars, glueVars>>
    BY <1>0, <2>0, <2>1, Stays, UnchangedKeeps DEF listenerVars, glueVars, GlueType, Agree
  <2>2. CASE StatusIdle
    <3>1. /\ watcher.active /\ ~manager.active
          /\ watcher' = IdleReported(NoticeHandled)
          /\ UNCHANGED <<listenerVars, glueVars>>
      BY <1>0, <2>2 DEF StatusIdle, StatusIgnored, Agree
    <3>2. /\ watcher' \in WatcherState /\ watcher'.active /\ watcher'.idle_id
          /\ NoticeHandled => watcher'.idle_notice
          /\ ~NoticeHandled => (watcher'.idle_notice <=> watcher.idle_notice)
      BY <1>0, <3>1 DEF IdleReported, NoticeSet, WatcherState
    <3>3. manager' = manager
      BY <2>2 DEF StatusIdle, FadeBegins, managerVars
    <3>4. GlueType' /\ Agree'
      BY <1>0, <2>0, <3>1, <3>2, <3>3 DEF listenerVars, glueVars, GlueType, Agree
    <3>5. NoticeHandled \/ UNCHANGED <<grab, dimmed>>
      BY <2>2 DEF StatusIdle, managerVars
    <3>6. InputFreedWhenOff'
      BY <3>1, <3>2, <3>3, <3>5 DEF DaemonInv, InputFreedWhenOff, glueVars
    <3>7. LockPrefs' /\ Deliberate /\ Allowed
      BY <3>1, <3>3 DEF DaemonInv, LockPrefs, Deliberate, Allowed, glueVars
    <3> QED BY <3>4, <3>6, <3>7 DEF Good
  <2>3. CASE StatusAvailable
    <3> DEFINE a == SessionIdleAccepted(FALSE, FALSE)
    <3>1. /\ watcher.active /\ ~manager.active /\ ~listener.active
          /\ watcher' = ActivityReported(a)
          /\ UNCHANGED <<logind, running>>
      BY <1>0, <2>3 DEF StatusAvailable, StatusIgnored, Agree
    <3>2. watcher' \in WatcherState /\ watcher'.active /\ ~watcher'.idle_notice
      <4>1. \A h \in BOOLEAN :
              /\ ActivityReported(h) \in WatcherState
              /\ ActivityReported(h).active <=> watcher.active
              /\ ~ActivityReported(h).idle_notice
        BY <1>0 DEF ActivityReported, NoticeSet, IdleSet, WatcherState
      <4>2. a \in BOOLEAN
        BY DEF SessionIdleAccepted
      <4> HIDE DEF a
      <4> QED BY <3>1, <4>1, <4>2
    <3>3. /\ manager' = manager /\ dimmed' = FALSE
          /\ monitor' = [monitor EXCEPT !.release_grab = TRUE]
      BY <2>3 DEF StatusAvailable, NoticeEnds, FadeCancelled
    <3>4. /\ monitor'.release_grab /\ (monitor'.lock_disabled <=> monitor.lock_disabled)
          /\ monitor' \in [release_grab: BOOLEAN, lock_disabled: BOOLEAN]
      BY <1>0, <3>3 DEF GlueType
    <3>5. ~listener'.active /\ (listener'.throttled <=> listener.throttled)
      <4>1. CASE watcher.idle
        <5> DEFINE l == [listener EXCEPT !.session_idle = FALSE]
        <5>1. l \in ListenerState /\ ~l.active /\ ~l.session_idle
              /\ (l.throttled <=> listener.throttled)
          BY <1>0, <3>1 DEF ListenerState
        <5>2. CheckActivation(l, inhibitors, FALSE) = l
          BY <5>1 DEF CheckActivation, WantsActivation
        <5>3. listener' \in {l, listener}
          BY <2>3, <4>1, <5>2
          DEF StatusAvailable, gs_listener_set_session_idle, SessionIdleSet
        <5> QED BY <3>1, <5>1, <5>3
      <4>2. CASE ~watcher.idle
        BY <2>3, <3>1, <4>2 DEF StatusAvailable, listenerVars
      <4> QED BY <4>1, <4>2
    <3>6. GlueType' /\ Agree'
      BY <1>0, <2>0, <3>1, <3>2, <3>3, <3>4, <3>5 DEF GlueType, Agree
    <3>7. InputFreedWhenOff' /\ LockPrefs' /\ Deliberate /\ Allowed
      BY <3>1, <3>3, <3>4
      DEF DaemonInv, InputFreedWhenOff, LockPrefs, Deliberate, Allowed
    <3> QED BY <3>6, <3>7 DEF Good
  <2> QED BY <1>15, <2>1, <2>2, <2>3 DEF on_presence_status_changed
<1>16. CASE on_idle_timeout
  <2>1. PICK h \in Answers(TRUE) :
          LET accepted == ~watcher.idle /\ SessionIdleAccepted(TRUE, h)
          IN /\ IF watcher.idle THEN UNCHANGED listenerVars
                ELSE gs_listener_set_session_idle(TRUE, h)
             /\ IF listener'.active # listener.active
                THEN /\ gs_manager_activate(manager)
                     /\ watcher' = IdleTimedOut(SetWatching(watcher, FALSE), TRUE)
                     /\ UNCHANGED glueVars
                ELSE /\ watcher' = IdleTimedOut(watcher, accepted)
                     /\ IF watcher.idle_notice /\ ~manager.active
                        THEN NoticeEnds /\ UNCHANGED <<logind, running>>
                        ELSE UNCHANGED <<managerVars, glueVars>>
    BY <1>16 DEF on_idle_timeout
  <2>2. presence' = presence
    BY <1>16 DEF on_idle_timeout
  <2>3. /\ listener'.throttled <=> listener.throttled
        /\ listener'.active => listener'.session_idle
        /\ listener.active => listener'.active
        /\ listener'.active /\ ~listener.active
             => listener.activation_enabled /\ inhibitors' = {}
    <3> DEFINE l == [listener EXCEPT !.session_idle = TRUE]
               c == CheckActivation(l, inhibitors, h)
    <3>1. CASE listener' = listener
      BY <1>0, <3>1 DEF Agree
    <3>2. CASE listener' = c /\ inhibitors' = inhibitors
      <4>1. /\ l \in ListenerState /\ l.session_idle
            /\ l.throttled <=> listener.throttled
            /\ l.active <=> listener.active
            /\ l.activation_enabled <=> listener.activation_enabled
        BY <1>0 DEF ListenerState
      <4> HIDE DEF l
      <4>2. /\ c.throttled <=> l.throttled
            /\ c.active => c.session_idle
            /\ l.active => c.active
            /\ c.active /\ ~l.active => l.activation_enabled /\ inhibitors = {}
        BY <1>0, <4>1, CheckActivationDoes
      <4> QED BY <3>2, <4>1, <4>2
    <3> QED
      BY <2>1, <3>1, <3>2
      DEF gs_listener_set_session_idle, SessionIdleSet, listenerVars
  <2>4. CASE listener'.active # listener.active
    <3>1. ~listener.active /\ listener'.active
      BY <1>0, <2>3, <2>4 DEF ListenerState
    <3>2. watcher.active /\ ~manager.active
      BY <1>0, <3>1 DEF Agree
    <3> DEFINE w == SetWatching(watcher, FALSE)
    <3>3. w \in WatcherState /\ ~w.active
      BY <1>0, Watching
    <3> HIDE DEF w
    <3>4. watcher' = IdleTimedOut(w, TRUE)
      BY <2>1, <2>4 DEF w
    <3>5. watcher' \in WatcherState /\ ~watcher'.active /\ ~watcher'.idle_notice
      BY <3>3, <3>4 DEF IdleTimedOut, NoticeSet, IdleSet, WatcherState
    <3>6. Allowed
      BY <2>3, <3>1 DEF Allowed
    <3>7. gs_manager_activate(manager) /\ UNCHANGED glueVars
      BY <2>1, <2>4
    <3> QED BY <1>0, <2>2, <2>3, <3>1, <3>2, <3>5, <3>6, <3>7, TurnsOn DEF Agree
  <2>5. CASE listener'.active = listener.active
    <3> DEFINE a == ~watcher.idle /\ SessionIdleAccepted(TRUE, h)
    <3>1. a \in BOOLEAN /\ watcher' = IdleTimedOut(watcher, a)
      BY <2>1, <2>5
    <3> HIDE DEF a
    <3>2. /\ watcher' \in WatcherState /\ (watcher'.active <=> watcher.active)
          /\ ~watcher'.idle_notice
      BY <1>0, <3>1, TimedOut
    <3>3. CASE watcher.idle_notice
      <4>1. ~manager.active
        BY <1>0, <3>3 DEF Agree
      <4>2. NoticeEnds /\ UNCHANGED <<logind, running>>
        BY <2>1, <2>5, <3>3, <4>1
      <4>3. /\ manager' = manager /\ dimmed' = FALSE
            /\ monitor' = [monitor EXCEPT !.release_grab = TRUE]
        BY <4>2 DEF NoticeEnds, FadeCancelled
      <4>4. /\ monitor'.release_grab /\ (monitor'.lock_disabled <=> monitor.lock_disabled)
            /\ monitor' \in [release_grab: BOOLEAN, lock_disabled: BOOLEAN]
        BY <1>0, <4>3 DEF GlueType
      <4>5. GlueType' /\ Agree'
        BY <1>0, <2>2, <2>3, <2>5, <3>2, <4>2, <4>3, <4>4 DEF GlueType, Agree
      <4>6. InputFreedWhenOff' /\ LockPrefs' /\ Deliberate /\ Allowed
        BY <4>1, <4>3, <4>4
        DEF DaemonInv, InputFreedWhenOff, LockPrefs, Deliberate, Allowed
      <4> QED BY <4>5, <4>6 DEF Good
    <3>4. CASE ~watcher.idle_notice
      <4>1. UNCHANGED <<managerVars, glueVars>>
        BY <2>1, <2>5, <3>4
      <4>2. GlueType' /\ Agree'
        BY <1>0, <2>2, <2>3, <2>5, <3>2, <4>1 DEF managerVars, glueVars, GlueType, Agree
      <4>3. InputFreedWhenOff' /\ LockPrefs' /\ Deliberate /\ Allowed
        BY <3>4, <4>1
        DEF managerVars, glueVars, DaemonInv, InputFreedWhenOff, LockPrefs, Deliberate, Allowed
      <4> QED BY <4>2, <4>3 DEF Good
    <3> QED BY <3>3, <3>4
  <2> QED BY <2>4, <2>5
<1>17. CASE release_grab_timeout
  <2>1. /\ monitor' \in [release_grab: BOOLEAN, lock_disabled: BOOLEAN]
        /\ monitor'.lock_disabled <=> monitor.lock_disabled
    BY <1>0, <1>17 DEF release_grab_timeout, GlueType
  <2>2. /\ UNCHANGED <<listenerVars, watcherVars, logind, running>>
        /\ manager' = manager /\ dimmed' = dimmed
        /\ manager.active \/ grab'.window = None
    BY <1>0, <1>17 DEF release_grab_timeout, GrabReleased, managerVars, GrabState, ManagerType
  <2>3. GlueType' /\ Agree'
    BY <1>0, <2>1, <2>2 DEF listenerVars, watcherVars, GlueType, Agree
  <2>4. InputFreedWhenOff' /\ LockPrefs' /\ Deliberate /\ Allowed
    BY <2>1, <2>2
    DEF watcherVars, DaemonInv, InputFreedWhenOff, LockPrefs, Deliberate, Allowed
  <2> QED BY <2>3, <2>4 DEF Good
<1>18. ASSUME NEW le \in BOOLEAN, NEW ld \in BOOLEAN, NEW ia \in BOOLEAN,
              NEW t \in {"same", "elapsed", "later"}, update_from_prefs(le, ld, t, ia)
       PROVE  Good
  <2> DEFINE m == [manager EXCEPT !.lock_enabled = le /\ ~ld]
  <2>1. /\ m \in ManagerState /\ (m.lock_enabled <=> (le /\ ~ld))
        /\ m.active = manager.active /\ m.throttled = manager.throttled
        /\ m.unfade = manager.unfade /\ m.lock_active = manager.lock_active
    BY <1>0 DEF ManagerState
  <2>2. \/ manager' = m \/ LockTimeout(m) \/ manager' = [m EXCEPT !.lock_timer = TRUE]
    BY <1>18 DEF update_from_prefs, gs_manager_set_lock_prefs
  <2> HIDE DEF m
  <2>3. /\ manager'.lock_enabled <=> m.lock_enabled
        /\ manager'.active <=> m.active
        /\ manager'.throttled <=> m.throttled
        /\ manager'.unfade <=> m.unfade
        /\ m.lock_active => manager'.lock_active
        /\ manager'.lock_active => m.lock_active \/ m.lock_enabled
    <3>1. CASE manager' = m \/ manager' = [m EXCEPT !.lock_timer = TRUE]
      BY <2>1, <3>1 DEF ManagerState
    <3>2. CASE LockTimeout(m)
      BY <2>1, <3>2, LockTimeoutKeeps
    <3> QED BY <2>2, <3>1, <3>2
  <2>4. /\ monitor' \in [release_grab: BOOLEAN, lock_disabled: BOOLEAN]
        /\ monitor'.lock_disabled <=> ld
        /\ monitor'.release_grab <=> monitor.release_grab
    BY <1>0, <1>18 DEF update_from_prefs, GlueType
  <2>5. watcher' = watcher
    BY <1>0, <1>18, Watching DEF update_from_prefs, Agree
  <2>6. /\ listener'.active <=> listener.active
        /\ listener'.session_idle <=> listener.session_idle
        /\ listener'.throttled <=> listener.throttled
    BY <1>0, <1>18
    DEF update_from_prefs, gs_listener_set_activation_enabled, ListenerState
  <2>7. UNCHANGED <<presence, logind, running, grab, dimmed>>
    BY <1>18 DEF update_from_prefs, gs_manager_set_lock_prefs
  <2>8. GlueType' /\ Agree'
    BY <1>0, <2>1, <2>3, <2>4, <2>5, <2>6, <2>7 DEF GlueType, Agree
  <2>9. InputFreedWhenOff' /\ LockPrefs' /\ Deliberate /\ Allowed
    BY <2>1, <2>3, <2>4, <2>5, <2>7
    DEF DaemonInv, InputFreedWhenOff, LockPrefs, Deliberate, Allowed
  <2> QED BY <2>8, <2>9 DEF Good
<1>19. ASSUME NEW p \in Monitors, SleepMessage(p) \/ WakeMessage(p)
       PROVE  Good
  <2>1. StepKeeps
    BY <1>0, <1>19, StepsKeep, UnchangedKeeps
    DEF SleepMessage, WakeMessage, prepare_for_sleep_cb, ManagerStep
  <2>2. /\ logind' \in [lock: BOOLEAN, asleep: BOOLEAN]
        /\ UNCHANGED <<listenerVars, watcherVars, monitor, running>>
    <3>1. {TRUE, MaxFailures = 0} \subseteq BOOLEAN
      OBVIOUS
    <3>2. CASE SleepMessage(p)
      BY <3>2 DEF SleepMessage
    <3>3. CASE WakeMessage(p)
      BY <3>1, <3>3 DEF WakeMessage
    <3> QED BY <1>19, <3>2, <3>3
  <2> QED BY <1>0, <2>1, <2>2, Stays DEF listenerVars, watcherVars, GlueType, Agree
<1> QED
  BY <1>1, <1>2, <1>3, <1>6, <1>9, <1>10, <1>11, <1>13, <1>14, <1>15, <1>16, <1>17,
     <1>18, <1>19
  DEF MonitorNext
-----------------------------------------------------------------------------
(* The properties of the daemon *)

LEMMA DaemonStep ==
  DaemonInv /\ [MonitorNext]_monitorVars => DaemonInv' /\ Deliberate /\ Allowed
<1> SUFFICES ASSUME DaemonInv, [MonitorNext]_monitorVars
             PROVE  DaemonInv' /\ Deliberate /\ Allowed
  OBVIOUS
<1>1. ComponentInv'
  BY ComponentStep DEF DaemonInv
<1>2. ListenerType'
  BY <1>1 DEF ComponentInv, EntriesAreOwned
<1>3. Good
  BY <1>2, DaemonGood
<1> QED BY <1>1, <1>3 DEF DaemonInv, Good

LEMMA DaemonInit == MonitorInit => DaemonInv
<1> SUFFICES ASSUME MonitorInit PROVE DaemonInv
  OBVIOUS
<1>1. ComponentInv
  BY ComponentInit
<1>2. /\ manager \in ManagerState /\ ~manager.active /\ ~manager.throttled
      /\ manager.lock_enabled => ~monitor.lock_disabled
  BY DEF MonitorInit, ManagerInit, ManagerState
<1>3. ~listener.active /\ ~listener.throttled
  BY DEF MonitorInit, ListenerInit
<1>4. /\ watcher \in WatcherState /\ presence \in BOOLEAN
      /\ watcher.active /\ ~watcher.idle_notice
  BY DEF MonitorInit, WatcherInit, WatcherState
<1>5. GlueType
  BY <1>4, MonitorAssumption DEF MonitorInit, GlueType
<1>6. grab.window = None /\ dimmed = FALSE
  BY DEF MonitorInit, ManagerInit, NoGrab
<1> QED BY <1>1, <1>2, <1>3, <1>4, <1>5, <1>6
        DEF DaemonInv, Agree, InputFreedWhenOff, LockPrefs

\* The manager, the listener and the watcher never disagree on whether the
\* screensaver is active, throttled and watched for, whatever answers they
\* give each other: a failed grab, an inhibitor that goes, a notice that is
\* refused.  The state of the daemon is of its type.
THEOREM Agreement == MonitorSpec => []ComponentsAgree
<1>1. DaemonInv => ComponentsAgree
  <2> SUFFICES ASSUME DaemonInv PROVE ComponentsAgree
    OBVIOUS
  <2>1. /\ manager \in ManagerState /\ listener \in ListenerState
        /\ watcher \in WatcherState /\ ManagerType
    BY DaemonFacts
  <2>2. MonitorType
    BY <2>1 DEF DaemonInv, ComponentInv, EntriesAreOwned, GlueType, MonitorType, WatcherType
  <2>3. /\ manager.active \in BOOLEAN /\ manager.throttled \in BOOLEAN
        /\ listener.active \in BOOLEAN /\ listener.throttled \in BOOLEAN
        /\ watcher.active \in BOOLEAN
    BY <2>1 DEF ManagerState, ListenerState, WatcherState
  <2>4. Agree
    BY DEF DaemonInv
  <2> QED BY <2>2, <2>3, <2>4 DEF Agree, ComponentsAgree
<1> QED BY <1>1, DaemonInit, DaemonStep, PTL DEF MonitorSpec

\* The devices are grabbed only while the screensaver is active, a notice is
\* in effect or the timer that frees them is set, and the screen is dark
\* only until the notice ends or the unfade timer of the activation runs.
THEOREM InputFreed == MonitorSpec => []InputFreedWhenOff
<1>1. DaemonInv => InputFreedWhenOff
  BY DEF DaemonInv
<1> QED BY <1>1, DaemonInit, DaemonStep, PTL DEF MonitorSpec

\* Neither a request nor the lock timer locks the screen while the
\* administrator has disabled locking, and a locked screen stays locked until
\* the screensaver is off.
THEOREM OnlyDeliberateLocks == MonitorSpec => LockIsDeliberate
<1>1. Deliberate
      => [/\ ~manager.lock_active /\ manager'.lock_active => ~monitor'.lock_disabled
          /\ manager.lock_active /\ ~manager'.lock_active => ~manager'.active]_monitorVars
  BY DEF Deliberate
<1> QED BY <1>1, DaemonInit, DaemonStep, PTL DEF MonitorSpec, LockIsDeliberate

\* Neither idleness nor the end of an inhibitor turns the screensaver on while
\* idle activation is disabled or another inhibitor is left.
THEOREM OnlyAllowedActivations == MonitorSpec => IdleActivationIsAllowed
<1>1. Allowed
      => [~manager.active /\ manager'.active
            /\ (watcher'.idle \/ inhibitors' # inhibitors)
          => listener.activation_enabled /\ inhibitors' = {}]_monitorVars
  BY DEF Allowed
<1> QED BY <1>1, DaemonInit, DaemonStep, PTL DEF MonitorSpec, IdleActivationIsAllowed
=============================================================================
