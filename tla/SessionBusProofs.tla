--------------------------- MODULE SessionBusProofs ---------------------------
(***************************************************************************)
(* Proofs about the daemons and tools on the session bus, for any number   *)
(* of them and any invocations: one daemon serves the session, and a tool  *)
(* that blocks inhibits the daemon that answered it.                       *)
(***************************************************************************)
EXTENDS SessionBus, WellFoundedInduction, TLAPS

-----------------------------------------------------------------------------
(* The inductive invariant *)

News == "NameOwnerChanged"

\* What the bus delivers: the tool, and its call or the news of its end.
Messages == Tools \X (Calls \cup {News})

BusState == [up: BOOLEAN, owner: Daemons \cup {NoDaemon}, losses: 0..MaxLosses,
             pending: Seq(Tools \X Calls)]
DaemonState == [pc: DaemonPcs, session: Conn, system: Conn, timer: BOOLEAN,
                inhibitors: SUBSET Tools]
ToolState == [pc: ToolPcs, todo: Seq(Calls), by: Daemons \cup {NoDaemon}]

(***************************************************************************)
(* The daemon x, known as d: the connection is up only with the filters,   *)
(* which are added by the owner of the name, and until then no loss of the *)
(* connection has been seen.                                               *)
(***************************************************************************)
NameOrder(x, d, owner) ==
  /\ x.session = "up" => x.pc = "running" /\ owner = d
  /\ x.pc = "named" /\ x.session = "deaf" => owner = d
  /\ x.pc \in {"init", "checked", "named"} => x.session \in {"deaf", "gone"}

\* A daemon is told that a tool has left when it has.
NewsOrder ==
  \A d \in Daemons : \A i \in 1..Len(inbox[d]) :
    inbox[d][i][2] = News => tool[inbox[d][i][1]].pc = "ended"

\* A tool that waits for a reply has the call at the head of its list.
WaitOrder == \A t \in Tools : tool[t].pc = "wait" => tool[t].todo # <<>>

BusInv ==
  /\ bus \in BusState /\ daemon \in [Daemons -> DaemonState]
  /\ inbox \in [Daemons -> Seq(Messages)]
  /\ tool \in [Tools -> ToolState]
  /\ \A d \in Daemons : NameOrder(daemon[d], d, bus.owner)
  /\ NewsOrder /\ WaitOrder /\ InhibitedWhileBlocked

-----------------------------------------------------------------------------
(* Sequences *)

\* A set of numbers has a least one, by which what follows is induction.
LEMMA Least ==
  ASSUME NEW T, T \subseteq Nat, T # {}
  PROVE  \E n \in T : \A m \in T : n <= m
<1> DEFINE R == OpToRel(<, Nat)
<1>1. IsWellFoundedOn(R, Nat)
  BY NatLessThanWellFounded
<1>2. \A x, y \in Nat : x < y => <<x, y>> \in R
  BY DEF OpToRel
<1> HIDE DEF R
<1>3. PICK n \in T : \A m \in T : ~(<<m, n>> \in R)
  BY <1>1, WFMin
<1>4. ASSUME NEW m \in T PROVE n <= m
  <2>1. ~(m < n) /\ m \in Nat /\ n \in Nat
    BY <1>2, <1>3
  <2> QED BY <2>1
<1> QED BY <1>4

\* The function that Without computes, up to n.
Keeps(f, s, t, n) ==
  f = [i \in 0..n |-> IF i = 0 THEN <<>>
                      ELSE IF s[i][1] = t THEN f[i - 1] ELSE Append(f[i - 1], s[i])]

LEMMA KeepsExists ==
  ASSUME NEW s, NEW t, NEW n \in Nat
  PROVE  \E f : Keeps(f, s, t, n)
<1> DEFINE T == {k \in Nat : ~\E f : Keeps(f, s, t, k)}
<1>1. CASE T = {}
  BY <1>1
<1>2. CASE T # {}
  <2>1. PICK k \in T : \A m \in T : k <= m
    <3> HIDE DEF T
    <3>1. T \subseteq Nat
      BY DEF T
    <3> QED BY <1>2, <3>1, Least
  <2>2. k # 0
    <3>1. Keeps([i \in 0..0 |-> <<>>], s, t, 0)
      BY DEF Keeps
    <3> QED BY <3>1
  <2>3. k - 1 \in Nat /\ k - 1 \notin T /\ k \in Nat
    BY <2>1, <2>2
  <2>4. PICK f : Keeps(f, s, t, k - 1)
    BY <2>3
  <2>5. \A i \in 0..(k - 1) :
          f[i] = IF i = 0 THEN <<>>
                 ELSE IF s[i][1] = t THEN f[i - 1] ELSE Append(f[i - 1], s[i])
    BY <2>4 DEF Keeps
  <2> DEFINE x == IF s[k][1] = t THEN f[k - 1] ELSE Append(f[k - 1], s[k])
             g == [i \in 0..k |-> IF i = k THEN x ELSE f[i]]
             h == [i \in 0..k |->
                     IF i = 0 THEN <<>>
                     ELSE IF s[i][1] = t THEN g[i - 1] ELSE Append(g[i - 1], s[i])]
  <2>6. g[k] = x /\ \A i \in 0..(k - 1) : g[i] = f[i]
    BY <2>3
  <2> HIDE DEF x
  <2>7. \A i \in 0..k : g[i] = h[i]
    <3> SUFFICES ASSUME NEW i \in 0..k PROVE g[i] = h[i]
      OBVIOUS
    <3>1. CASE i = k
      BY <2>2, <2>3, <2>6, <3>1 DEF x
    <3>2. CASE i # k
      <4>1. i \in 0..(k - 1) /\ (i # 0 => i - 1 \in 0..(k - 1))
        BY <2>3, <3>2
      <4> QED BY <2>5, <2>6, <4>1
    <3> QED BY <3>1, <3>2
  <2>8. g = h
    BY <2>7
  <2>9. Keeps(g, s, t, k)
    BY <2>8 DEF Keeps
  <2> QED BY <2>9
<1> QED BY <1>1, <1>2

(***************************************************************************)
(* What the bus keeps when tool t leaves are calls, and none of them is of *)
(* tool t: every prefix of the calls is filtered to such a sequence.       *)
(***************************************************************************)
LEMMA WithoutTool ==
  ASSUME NEW S, NEW s \in Seq(S), NEW t
  PROVE  /\ Without(s, t) \in Seq(S)
         /\ \A i \in 1..Len(Without(s, t)) : Without(s, t)[i][1] # t
<1> DEFINE F == CHOOSE f : f = [i \in 0..Len(s) |->
                  IF i = 0 THEN <<>>
                  ELSE IF s[i][1] = t THEN f[i - 1] ELSE Append(f[i - 1], s[i])]
<1>1. Without(s, t) = F[Len(s)]
  BY DEF Without
<1>2. F = [i \in 0..Len(s) |->
             IF i = 0 THEN <<>>
             ELSE IF s[i][1] = t THEN F[i - 1] ELSE Append(F[i - 1], s[i])]
  <2>1. \E f : f = [i \in 0..Len(s) |->
          IF i = 0 THEN <<>>
          ELSE IF s[i][1] = t THEN f[i - 1] ELSE Append(f[i - 1], s[i])]
    <3>1. \E f : Keeps(f, s, t, Len(s))
      <4>1. Len(s) \in Nat
        OBVIOUS
      <4> QED BY <4>1, KeepsExists
    <3> QED BY <3>1 DEF Keeps
  <2> QED BY <2>1
<1> HIDE DEF F
<1> DEFINE Good(i) == F[i] \in Seq(S) /\ \A j \in 1..Len(F[i]) : F[i][j][1] # t
           T == {i \in 0..Len(s) : ~Good(i)}
<1>3. CASE T = {}
  BY <1>1, <1>3
<1>4. CASE T # {}
  <2>1. PICK k \in T : \A m \in T : k <= m
    <3> HIDE DEF T
    <3>1. T \subseteq Nat
      BY DEF T
    <3> QED BY <1>4, <3>1, Least
  <2>2. k # 0
    <3>1. F[0] = <<>>
      BY <1>2
    <3>2. Good(0)
      BY <3>1
    <3> QED BY <3>2
  <2>3. k - 1 \in 0..Len(s) /\ k - 1 \notin T /\ k \in 1..Len(s) /\ ~Good(k)
    BY <2>1, <2>2
  <2>4. Good(k - 1)
    BY <2>3
  <2>5. F[k] = IF s[k][1] = t THEN F[k - 1] ELSE Append(F[k - 1], s[k])
    BY <1>2, <2>2, <2>3
  <2>6. s[k] \in S
    BY <2>3
  <2>7. CASE s[k][1] = t
    BY <2>3, <2>4, <2>5, <2>7
  <2>8. CASE s[k][1] # t
    <3> DEFINE a == F[k - 1]
               b == Append(a, s[k])
    <3>1. a \in Seq(S) /\ \A j \in 1..Len(a) : a[j][1] # t
      BY <2>4
    <3>2. F[k] = b
      BY <2>5, <2>8
    <3> HIDE DEF a
    <3>3. b \in Seq(S) /\ Len(b) = Len(a) + 1 /\ b[Len(a) + 1] = s[k]
          /\ \A j \in 1..Len(a) : b[j] = a[j]
      BY <2>6, <3>1
    <3> HIDE DEF b
    <3>4. \A j \in 1..Len(b) : b[j][1] # t
      <4> SUFFICES ASSUME NEW j \in 1..Len(b) PROVE b[j][1] # t
        OBVIOUS
      <4>1. j \in 1..Len(a) \/ j = Len(a) + 1
        BY <3>1, <3>3
      <4> QED BY <2>8, <3>1, <3>3, <4>1
    <3> QED BY <2>3, <3>2, <3>3, <3>4
  <2> QED BY <2>7, <2>8
<1> QED BY <1>3, <1>4

\* The calls that a tool makes for the options it is given.
LEMMA CallsForType ==
  ASSUME NEW O
  PROVE  CallsFor(O) \in Seq(Calls)
<1> DEFINE c(o) == IF o \in O THEN CallsOf(o) ELSE <<>>
<1>1. /\ CallsOf("exit") = <<"Quit">> /\ CallsOf("lock") = <<"Lock">>
      /\ CallsOf("query") = <<"GetActive", "GetInhibitors">>
      /\ CallsOf("time") = <<"GetActive -t", "GetActiveTime">>
      /\ CallsOf("unlock") = <<"Unlock">> /\ CallsOf("cycle") = <<"Cycle">>
      /\ CallsOf("poke") = <<"SimulateUserActivity">>
      /\ CallsOf("activate") = <<"SetActive TRUE">>
      /\ CallsOf("deactivate") = <<"SetActive FALSE">>
      /\ CallsOf("inhibit") = <<"Inhibit">>
  BY DEF CallsOf
<1>2. /\ CallsOf("exit") \in Seq(Calls) /\ CallsOf("query") \in Seq(Calls)
      /\ CallsOf("time") \in Seq(Calls) /\ CallsOf("lock") \in Seq(Calls)
      /\ CallsOf("unlock") \in Seq(Calls) /\ CallsOf("cycle") \in Seq(Calls)
      /\ CallsOf("poke") \in Seq(Calls) /\ CallsOf("activate") \in Seq(Calls)
      /\ CallsOf("deactivate") \in Seq(Calls) /\ CallsOf("inhibit") \in Seq(Calls)
  <2>1. \A a, b \in Calls : <<a>> \in Seq(Calls) /\ <<a, b>> \in Seq(Calls)
    OBVIOUS
  <2>2. /\ "Quit" \in Calls /\ "GetActive" \in Calls /\ "GetInhibitors" \in Calls
        /\ "GetActive -t" \in Calls /\ "GetActiveTime" \in Calls /\ "Lock" \in Calls
        /\ "Unlock" \in Calls /\ "Cycle" \in Calls /\ "SimulateUserActivity" \in Calls
        /\ "SetActive TRUE" \in Calls /\ "SetActive FALSE" \in Calls
        /\ "Inhibit" \in Calls
    BY DEF Calls
  <2> QED BY <1>1, <2>1, <2>2
<1>3. /\ c("query") \in Seq(Calls) /\ c("time") \in Seq(Calls) /\ c("lock") \in Seq(Calls)
      /\ c("unlock") \in Seq(Calls) /\ c("cycle") \in Seq(Calls)
      /\ c("poke") \in Seq(Calls) /\ c("activate") \in Seq(Calls)
      /\ c("deactivate") \in Seq(Calls) /\ c("inhibit") \in Seq(Calls)
  <2>1. <<>> \in Seq(Calls)
    OBVIOUS
  <2> QED BY <1>2, <2>1
<1>4. CallsFor(O) = IF "exit" \in O THEN CallsOf("exit")
                    ELSE c("query") \o c("time") \o c("lock") \o c("unlock") \o c("cycle")
                         \o c("poke") \o c("activate") \o c("deactivate") \o c("inhibit")
  BY DEF CallsFor
<1> HIDE DEF c
<1>5. \A a, b \in Seq(Calls) : a \o b \in Seq(Calls)
  OBVIOUS
<1>6. c("query") \o c("time") \o c("lock") \o c("unlock") \o c("cycle")
        \o c("poke") \o c("activate") \o c("deactivate") \o c("inhibit") \in Seq(Calls)
  BY <1>3, <1>5, Zenon
<1> QED BY <1>2, <1>4, <1>6

-----------------------------------------------------------------------------
(* The steps *)

LEMMA BusStarts == BusInit => BusInv
<1> SUFFICES ASSUME BusInit PROVE BusInv
  OBVIOUS
<1>1. bus \in BusState /\ bus.owner = NoDaemon
  <2>1. <<>> \in Seq(Tools \X Calls) /\ 0 \in 0..MaxLosses
    BY BusAssumption
  <2> QED BY <2>1 DEF BusInit, BusState
<1>2. daemon \in [Daemons -> DaemonState]
      /\ \A d \in Daemons : daemon[d].pc = "off" /\ daemon[d].session = "none"
  BY DEF BusInit, DaemonState, DaemonPcs, Conn
<1>3. /\ inbox \in [Daemons -> Seq(Messages)]
      /\ \A d \in Daemons : inbox[d] = <<>>
  <2>1. <<>> \in Seq(Messages)
    OBVIOUS
  <2> QED BY <2>1 DEF BusInit
<1>4. tool \in [Tools -> ToolState] /\ \A t \in Tools : tool[t].pc = "off"
  <2>1. <<>> \in Seq(Calls)
    OBVIOUS
  <2> QED BY <2>1 DEF BusInit, ToolState, ToolPcs
<1>5. NewsOrder
  <2>1. Len(<<>>) = 0
    OBVIOUS
  <2> QED BY <1>3, <2>1 DEF NewsOrder
<1> QED BY <1>1, <1>2, <1>3, <1>4, <1>5
        DEF BusInv, NameOrder, WaitOrder, InhibitedWhileBlocked

\* The parts of the invariant that a step of the other kind leaves alone.
LEMMA ToolsStay ==
  ASSUME BusInv, UNCHANGED <<inbox, tool>>
  PROVE  NewsOrder' /\ WaitOrder'
BY DEF BusInv, NewsOrder, WaitOrder

\* A step of daemon d that ends with x: the name is another's or still d's,
\* and who has inhibited it still does, or it has ended.
LEMMA DaemonMoves ==
  ASSUME BusInv, NEW d \in Daemons, NEW x \in DaemonState,
         daemon' = [daemon EXCEPT ![d] = x], UNCHANGED <<inbox, tool>>,
         bus' \in BusState, bus'.owner = bus.owner, NameOrder(x, d, bus.owner),
         x.pc = "exited" \/ (x.inhibitors = daemon[d].inhibitors /\ daemon[d].pc # "exited")
  PROVE  BusInv'
<1>1. daemon' \in [Daemons -> DaemonState] /\ daemon'[d] = x
      /\ \A e \in Daemons : e # d => daemon'[e] = daemon[e]
  BY DEF BusInv
<1>2. \A e \in Daemons : NameOrder(daemon'[e], e, bus'.owner)
  BY <1>1 DEF BusInv
<1>3. InhibitedWhileBlocked'
  <2> SUFFICES ASSUME NEW t \in Tools, tool[t].pc = "block"
               PROVE  /\ tool[t].by # NoDaemon
                      /\ t \in daemon'[tool[t].by].inhibitors
                           \/ daemon'[tool[t].by].pc = "exited"
    BY DEF InhibitedWhileBlocked
  <2>1. /\ tool[t].by \in Daemons
        /\ t \in daemon[tool[t].by].inhibitors \/ daemon[tool[t].by].pc = "exited"
    BY DEF BusInv, ToolState, InhibitedWhileBlocked
  <2> QED BY <1>1, <2>1, BusAssumption
<1> QED BY <1>1, <1>2, <1>3, ToolsStay DEF BusInv

\* A process that has ended.
LEMMA ExitedDaemon ==
  ASSUME NEW d, NEW owner
  PROVE  Exited \in DaemonState /\ NameOrder(Exited, d, owner) /\ Exited.pc = "exited"
BY DEF Exited, DaemonState, DaemonPcs, Conn, NameOrder

LEMMA EndedTool == Ended \in ToolState /\ Ended.pc = "ended"
<1>1. <<>> \in Seq(Calls)
  OBVIOUS
<1> QED BY <1>1 DEF Ended, ToolState, ToolPcs

\* The start of a daemon: it exits when there is one already.
LEMMA StartsKeep ==
  ASSUME BusInv, NEW d \in Daemons, daemon_starts(d) \/ screensaver_is_running(d)
  PROVE  BusInv'
<1>1. daemon \in [Daemons -> DaemonState] /\ daemon[d] \in DaemonState
      /\ NameOrder(daemon[d], d, bus.owner) /\ bus \in BusState
  BY DEF BusInv
<1>2. UNCHANGED <<bus, inbox, tool>> /\ daemon[d].pc \in {"off", "init"}
  BY DEF daemon_starts, screensaver_is_running
<1>3. CASE daemon' = [daemon EXCEPT ![d] = Exited]
  BY <1>1, <1>2, <1>3, ExitedDaemon, DaemonMoves
<1>4. ASSUME NEW x, daemon' = [daemon EXCEPT ![d] = x], x \in DaemonState,
             x.inhibitors = daemon[d].inhibitors, NameOrder(x, d, bus.owner)
      PROVE  BusInv'
  BY <1>1, <1>2, <1>4, DaemonMoves
<1>5. CASE daemon_starts(d)
  <2>1. PICK system \in {"none", "deaf"} :
          \/ daemon' = [daemon EXCEPT ![d] = Exited]
          \/ daemon' = [daemon EXCEPT ![d] = [daemon[d] EXCEPT !.pc = "init",
                                                !.session = "deaf", !.system = system]]
    BY <1>1, <1>5 DEF daemon_starts
  <2> DEFINE x == [daemon[d] EXCEPT !.pc = "init", !.session = "deaf", !.system = system]
  <2>2. /\ x \in DaemonState /\ x.inhibitors = daemon[d].inhibitors /\ x.pc = "init"
        /\ x.session = "deaf"
    BY <1>1 DEF DaemonState, DaemonPcs, Conn
  <2> HIDE DEF x
  <2>3. NameOrder(x, d, bus.owner)
    BY <2>2 DEF NameOrder
  <2> QED BY <1>3, <1>4, <2>1, <2>2, <2>3 DEF x
<1>6. CASE screensaver_is_running(d)
  <2> DEFINE x == [daemon[d] EXCEPT !.pc = "checked"]
  <2>1. \/ daemon' = [daemon EXCEPT ![d] = Exited]
        \/ daemon' = [daemon EXCEPT ![d] = x]
    BY <1>1, <1>6 DEF screensaver_is_running
  <2>2. /\ x \in DaemonState /\ x.inhibitors = daemon[d].inhibitors /\ x.pc = "checked"
        /\ x.session = daemon[d].session /\ daemon[d].session \in {"deaf", "gone"}
    BY <1>1, <1>6 DEF DaemonState, DaemonPcs, screensaver_is_running, NameOrder
  <2> HIDE DEF x
  <2>3. NameOrder(x, d, bus.owner)
    BY <2>2 DEF NameOrder
  <2> QED BY <1>3, <1>4, <2>1, <2>2, <2>3
<1> QED BY <1>5, <1>6

\* The name is taken by one daemon at most.
LEMMA RequestKeeps ==
  ASSUME BusInv, NEW d \in Daemons, request_name(d)
  PROVE  BusInv'
<1>1. daemon \in [Daemons -> DaemonState] /\ daemon[d] \in DaemonState
      /\ NameOrder(daemon[d], d, bus.owner) /\ bus \in BusState
      /\ daemon[d].pc = "checked" /\ tool' = tool
  BY DEF BusInv, request_name
<1>2. CASE daemon[d].session = "gone" \/ bus.owner # NoDaemon
  <2>1. daemon' = [daemon EXCEPT ![d] = Exited] /\ UNCHANGED <<bus, inbox>>
    BY <1>2 DEF request_name
  <2> QED BY <1>1, <2>1, ExitedDaemon, DaemonMoves
<1>3. CASE ~(daemon[d].session = "gone" \/ bus.owner # NoDaemon)
  <2> DEFINE x == [daemon[d] EXCEPT !.pc = "named"]
  <2>1. /\ daemon' = [daemon EXCEPT ![d] = x]
        /\ bus' = [bus EXCEPT !.owner = d, !.pending = <<>>]
        /\ inbox' = [inbox EXCEPT ![d] = bus.pending]
    BY <1>1, <1>3 DEF request_name
  <2>2. /\ x \in DaemonState /\ x.pc = "named" /\ x.session = "deaf"
        /\ x.inhibitors = daemon[d].inhibitors
    BY <1>1, <1>3 DEF DaemonState, DaemonPcs, NameOrder
  <2>3. bus' \in BusState /\ bus'.owner = d
    <3>1. <<>> \in Seq(Tools \X Calls)
      OBVIOUS
    <3> QED BY <1>1, <2>1, <3>1 DEF BusState
  <2> HIDE DEF x
  <2>4. /\ daemon' \in [Daemons -> DaemonState] /\ daemon'[d] = x
        /\ \A e \in Daemons : e # d => daemon'[e] = daemon[e]
    BY <1>1, <2>1, <2>2
  <2>5. \A e \in Daemons : NameOrder(daemon'[e], e, bus'.owner)
    <3> SUFFICES ASSUME NEW e \in Daemons PROVE NameOrder(daemon'[e], e, d)
      BY <2>3
    <3>1. CASE e = d
      BY <2>2, <2>4, <3>1 DEF NameOrder
    <3>2. CASE e # d
      <4>1. daemon'[e] = daemon[e] /\ NameOrder(daemon[e], e, NoDaemon) /\ e # NoDaemon
        BY <1>3, <2>4, <3>2, BusAssumption DEF BusInv
      <4> QED BY <4>1 DEF NameOrder
    <3> QED BY <3>1, <3>2
  <2>6. /\ inbox' \in [Daemons -> Seq(Messages)] /\ NewsOrder'
    <3> DEFINE p == bus.pending
    <3>1. p \in Seq(Tools \X Calls) /\ inbox' = [inbox EXCEPT ![d] = p]
      BY <1>1, <2>1 DEF BusState
    <3> HIDE DEF p
    <3>2. \A i \in 1..Len(p) : p[i] \in Tools \X Calls
      BY <3>1
    <3>3. \A i \in 1..Len(p) : p[i] \in Messages /\ p[i][2] # News
      BY <3>2 DEF Calls, News, Messages
    <3>4. p \in Seq(Messages)
      BY <3>1, <3>3
    <3>5. /\ inbox' \in [Daemons -> Seq(Messages)] /\ inbox'[d] = p
          /\ \A e \in Daemons : e # d => inbox'[e] = inbox[e]
      BY <3>1, <3>4 DEF BusInv
    <3>6. NewsOrder'
      <4> SUFFICES ASSUME NEW e \in Daemons, NEW i \in 1..Len(inbox'[e]),
                          inbox'[e][i][2] = News
                   PROVE  tool[inbox'[e][i][1]].pc = "ended"
        BY <1>1 DEF NewsOrder
      <4>1. CASE e = d
        BY <3>3, <3>5, <4>1
      <4>2. CASE e # d
        BY <3>5, <4>2 DEF BusInv, NewsOrder
      <4> QED BY <4>1, <4>2
    <3> QED BY <3>5, <3>6
  <2>7. InhibitedWhileBlocked'
    <3> SUFFICES ASSUME NEW t \in Tools, tool[t].pc = "block"
                 PROVE  /\ tool[t].by # NoDaemon
                        /\ t \in daemon'[tool[t].by].inhibitors
                             \/ daemon'[tool[t].by].pc = "exited"
      BY <1>1 DEF InhibitedWhileBlocked
    <3>1. /\ tool[t].by \in Daemons
          /\ t \in daemon[tool[t].by].inhibitors \/ daemon[tool[t].by].pc = "exited"
      BY DEF BusInv, ToolState, InhibitedWhileBlocked
    <3> QED BY <1>1, <2>2, <2>4, <3>1, BusAssumption
  <2>8. WaitOrder'
    BY <1>1 DEF BusInv, WaitOrder
  <2> QED BY <1>1, <2>3, <2>4, <2>5, <2>6, <2>7, <2>8 DEF BusInv
<1> QED BY <1>2, <1>3

\* The filters are added, connections are lost and made again.
LEMMA ConnectionKeeps ==
  ASSUME BusInv, NEW d \in Daemons,
         add_filters(d) \/ disconnected(d) \/ reinit_dbus(d) \/ system_bus_lost(d)
  PROVE  BusInv'
<1>1. daemon \in [Daemons -> DaemonState] /\ daemon[d] \in DaemonState
      /\ NameOrder(daemon[d], d, bus.owner) /\ bus \in BusState
  BY DEF BusInv
<1>2. UNCHANGED <<inbox, tool>> /\ daemon[d].pc # "exited" /\ bus' \in BusState
      /\ bus'.owner = bus.owner
  <2>1. UNCHANGED <<inbox, tool>> /\ daemon[d].pc # "exited"
    BY DEF add_filters, disconnected, reinit_dbus, system_bus_lost
  <2>2. CASE bus' = bus
    BY <1>1, <2>1, <2>2
  <2>3. CASE system_bus_lost(d)
    <3>1. bus.losses + 1 \in 0..MaxLosses /\ bus' = [bus EXCEPT !.losses = bus.losses + 1]
      BY <1>1, <2>3, BusAssumption DEF system_bus_lost, BusState
    <3> QED BY <1>1, <2>1, <3>1 DEF BusState
  <2> QED BY <2>2, <2>3 DEF add_filters, disconnected, reinit_dbus
<1>3. ASSUME NEW pc \in DaemonPcs, NEW session \in Conn, NEW system \in Conn,
             NEW timer \in BOOLEAN,
             daemon' = [daemon EXCEPT ![d] = [daemon[d] EXCEPT !.pc = pc,
                          !.session = session, !.system = system, !.timer = timer]],
             \/ pc = daemon[d].pc /\ session = daemon[d].session
             \/ pc = "running" /\ session \in {"none", "deaf", "lost"}
             \/ pc = "running" /\ session = "up" /\ bus.owner = d
      PROVE  BusInv'
  <2> DEFINE x == [daemon[d] EXCEPT !.pc = pc, !.session = session, !.system = system,
                                    !.timer = timer]
  <2>1. /\ x \in DaemonState /\ x.pc = pc /\ x.session = session
        /\ x.inhibitors = daemon[d].inhibitors
    BY <1>1 DEF DaemonState
  <2>2. daemon' = [daemon EXCEPT ![d] = x]
    BY <1>3
  <2> HIDE DEF x
  <2>3. NameOrder(x, d, bus.owner)
    BY <1>1, <1>3, <2>1 DEF NameOrder
  <2> QED BY <1>2, <2>1, <2>2, <2>3, DaemonMoves
<1>4. /\ daemon[d].pc \in DaemonPcs /\ daemon[d].session \in Conn /\ daemon[d].system \in Conn
      /\ daemon[d].timer \in BOOLEAN /\ "running" \in DaemonPcs
      /\ "none" \in Conn /\ "deaf" \in Conn /\ "lost" \in Conn /\ "gone" \in Conn
      /\ "up" \in Conn
  BY <1>1 DEF DaemonState, DaemonPcs, Conn
<1>5. CASE add_filters(d)
  <2> DEFINE session == Filtered(daemon[d].session)
             system == Filtered(daemon[d].system)
  <2>1. daemon' = [daemon EXCEPT ![d] = [daemon[d] EXCEPT !.pc = "running",
                     !.session = session, !.system = system, !.timer = daemon[d].timer]]
    BY <1>1, <1>5 DEF add_filters, DaemonState
  <2>2. session \in Conn /\ system \in Conn /\ session \in {"lost", "up"}
        /\ (session = "up" => bus.owner = d)
    BY <1>1, <1>4, <1>5 DEF add_filters, NameOrder, Filtered
  <2> HIDE DEF session, system
  <2> QED BY <1>3, <1>4, <2>1, <2>2
<1>6. CASE disconnected(d)
  <2>1. PICK session \in Conn, system \in Conn, timer \in BOOLEAN :
          /\ daemon' = [daemon EXCEPT ![d] = [daemon[d] EXCEPT !.pc = "running",
                          !.session = session, !.system = system, !.timer = timer]]
          /\ session \in {daemon[d].session, "none"}
    <3> DEFINE timer == TRUE
    <3>1. /\ timer \in BOOLEAN /\ daemon[d].pc = "running"
          /\ \/ daemon' = [daemon EXCEPT ![d].session = "none", ![d].timer = timer]
             \/ daemon' = [daemon EXCEPT ![d].system = "none", ![d].timer = timer]
      BY <1>6 DEF disconnected
    <3> HIDE DEF timer
    <3>2. CASE daemon' = [daemon EXCEPT ![d].session = "none", ![d].timer = timer]
      <4>1. [daemon[d] EXCEPT !.session = "none", !.timer = timer]
              = [daemon[d] EXCEPT !.pc = "running", !.session = "none",
                                  !.system = daemon[d].system, !.timer = timer]
        BY <1>1, <3>1 DEF DaemonState
      <4>2. daemon' = [daemon EXCEPT ![d] = [daemon[d] EXCEPT !.session = "none",
                                                              !.timer = timer]]
        BY <1>1, <3>2
      <4> QED BY <1>4, <3>1, <4>1, <4>2
    <3>3. CASE daemon' = [daemon EXCEPT ![d].system = "none", ![d].timer = timer]
      <4>1. daemon' = [daemon EXCEPT ![d] = [daemon[d] EXCEPT !.pc = "running",
                         !.session = daemon[d].session, !.system = "none", !.timer = timer]]
        BY <1>1, <3>1, <3>3 DEF DaemonState
      <4> QED BY <1>4, <3>1, <4>1
    <3> QED BY <3>1, <3>2, <3>3
  <2>2. daemon[d].pc = "running"
    BY <1>6 DEF disconnected
  <2> QED BY <1>3, <1>4, <2>1, <2>2
<1>7. CASE reinit_dbus(d)
  <2> DEFINE session == IF daemon[d].session = "none" /\ bus.up
                        THEN "deaf" ELSE daemon[d].session
  <2>1. session \in Conn /\ session \in {daemon[d].session, "deaf"}
        /\ daemon[d].pc = "running"
    BY <1>4, <1>7 DEF reinit_dbus
  <2>2. CASE session = "none"
    <3>1. daemon' = daemon
      BY <1>7, <2>2 DEF reinit_dbus
    <3>2. daemon' = [daemon EXCEPT ![d] = daemon[d]]
      BY <1>1, <3>1
    <3> QED BY <1>1, <1>2, <3>2, DaemonMoves
  <2>3. CASE session # "none"
    <3>1. PICK system \in IF daemon[d].system = "none" THEN {"none", "deaf"}
                                                       ELSE {daemon[d].system} :
            daemon' = [daemon EXCEPT ![d].session = session, ![d].system = system,
                                     ![d].timer = (system = "none")]
      BY <1>7, <2>3 DEF reinit_dbus
    <3>2. system \in Conn
      BY <1>4
    <3> DEFINE timer == (system = "none")
    <3>3. timer \in BOOLEAN
      OBVIOUS
    <3> HIDE DEF session
    <3>4. daemon' = [daemon EXCEPT ![d] = [daemon[d] EXCEPT !.pc = "running",
                       !.session = session, !.system = system, !.timer = timer]]
      BY <1>1, <2>1, <3>1 DEF DaemonState
    <3> HIDE DEF timer
    <3> QED BY <1>3, <1>4, <2>1, <3>2, <3>3, <3>4
  <2> QED BY <2>2, <2>3
<1>8. CASE system_bus_lost(d)
  <2> DEFINE system == Cut(daemon[d].system)
  <2>1. system \in Conn
    BY <1>4 DEF Cut
  <2>2. daemon' = [daemon EXCEPT ![d] = [daemon[d] EXCEPT !.pc = daemon[d].pc,
                     !.session = daemon[d].session, !.system = system,
                     !.timer = daemon[d].timer]]
    BY <1>1, <1>8 DEF system_bus_lost, DaemonState
  <2> HIDE DEF system
  <2> QED BY <1>3, <1>4, <2>1, <2>2
<1> QED BY <1>5, <1>6, <1>7, <1>8

\* The bus is lost, and comes back.
LEMMA LossKeeps ==
  ASSUME BusInv, session_bus_lost
  PROVE  BusInv'
<1>1. /\ daemon \in [Daemons -> DaemonState] /\ tool \in [Tools -> ToolState]
      /\ bus \in BusState /\ bus.losses < MaxLosses
      /\ bus' = [up |-> FALSE, owner |-> NoDaemon, losses |-> bus.losses + 1,
                 pending |-> <<>>]
      /\ daemon' = [d \in Daemons |-> [daemon[d] EXCEPT !.session = Cut(@)]]
      /\ inbox' = [d \in Daemons |-> <<>>]
      /\ tool' = [t \in Tools |-> IF tool[t].pc = "off" THEN tool[t] ELSE Ended]
  BY DEF BusInv, session_bus_lost
<1>2. bus' \in BusState /\ bus'.owner = NoDaemon
  <2> DEFINE n == bus.losses + 1
  <2>1. n \in 0..MaxLosses /\ <<>> \in Seq(Tools \X Calls)
    BY <1>1, BusAssumption DEF BusState
  <2> HIDE DEF n
  <2>2. bus' = [up |-> FALSE, owner |-> NoDaemon, losses |-> n, pending |-> <<>>]
    BY <1>1 DEF n
  <2> QED BY <2>1, <2>2 DEF BusState
<1>3. \A d \in Daemons : /\ daemon'[d] \in DaemonState
                         /\ NameOrder(daemon'[d], d, NoDaemon)
  <2> SUFFICES ASSUME NEW d \in Daemons
               PROVE  daemon'[d] \in DaemonState /\ NameOrder(daemon'[d], d, NoDaemon)
    OBVIOUS
  <2> DEFINE c == Cut(daemon[d].session)
  <2>1. daemon[d] \in DaemonState /\ NameOrder(daemon[d], d, bus.owner)
    BY <1>1 DEF BusInv
  <2>2. c \in Conn /\ c \notin {"up", "deaf"}
        /\ (daemon[d].session \in {"deaf", "gone"} => c = "gone")
    BY <2>1 DEF DaemonState, Conn, Cut
  <2>3. daemon'[d] = [daemon[d] EXCEPT !.session = c]
    BY <1>1
  <2> HIDE DEF c
  <2>4. /\ daemon'[d] \in DaemonState /\ daemon'[d].session = c
        /\ daemon'[d].pc = daemon[d].pc
    BY <2>1, <2>2, <2>3 DEF DaemonState
  <2> QED BY <2>1, <2>2, <2>4 DEF NameOrder
<1>4. daemon' \in [Daemons -> DaemonState]
  <2>1. daemon' = [d \in Daemons |-> daemon'[d]]
    BY <1>1
  <2> QED BY <1>3, <2>1
<1>5. /\ inbox' \in [Daemons -> Seq(Messages)] /\ NewsOrder'
  <2>1. <<>> \in Seq(Messages) /\ Len(<<>>) = 0
    OBVIOUS
  <2> QED BY <1>1, <2>1 DEF NewsOrder
<1>6. /\ tool' \in [Tools -> ToolState] /\ \A t \in Tools : tool'[t].pc \in {"off", "ended"}
  BY <1>1, EndedTool
<1> QED BY <1>2, <1>3, <1>4, <1>5, <1>6 DEF BusInv, WaitOrder, InhibitedWhileBlocked

LEMMA BackKeeps ==
  ASSUME BusInv, session_bus_back
  PROVE  BusInv'
<1>1. bus' = [bus EXCEPT !.up = TRUE] /\ UNCHANGED <<daemon, inbox, tool>>
  BY DEF session_bus_back
<1>2. bus' \in BusState /\ bus'.owner = bus.owner
  BY <1>1 DEF BusInv, BusState
<1> QED BY <1>1, <1>2 DEF BusInv, NewsOrder, WaitOrder, InhibitedWhileBlocked

\* A tool t goes on to y, which does not begin to block: what the daemons
\* are told is old, or that t has ended.
LEMMA ToolMoves ==
  ASSUME BusInv, NEW t \in Tools, NEW y \in ToolState, tool' = [tool EXCEPT ![t] = y],
         daemon' = daemon, bus' \in BusState, bus'.owner = bus.owner,
         inbox' \in [Daemons -> Seq(Messages)],
         \A d \in Daemons : \A i \in 1..Len(inbox'[d]) :
           inbox'[d][i][2] = News =>
             \/ i \in 1..Len(inbox[d]) /\ inbox'[d][i] = inbox[d][i]
             \/ inbox'[d][i][1] = t /\ y.pc = "ended",
         tool[t].pc # "ended", y.pc # "block", y.pc = "wait" => y.todo # <<>>
  PROVE  BusInv'
<1>1. /\ tool' \in [Tools -> ToolState] /\ tool'[t] = y
      /\ \A u \in Tools : u # t => tool'[u] = tool[u]
  BY DEF BusInv
<1>2. NewsOrder'
  <2> SUFFICES ASSUME NEW d \in Daemons, NEW i \in 1..Len(inbox'[d]),
                      inbox'[d][i][2] = News
               PROVE  tool'[inbox'[d][i][1]].pc = "ended"
    BY DEF NewsOrder
  <2> DEFINE u == inbox'[d][i][1]
  <2>1. u \in Tools
    <3>1. inbox'[d] \in Seq(Messages)
      OBVIOUS
    <3>2. inbox'[d][i] \in Messages
      BY <3>1
    <3> QED BY <3>2 DEF Messages
  <2>2. CASE i \in 1..Len(inbox[d]) /\ inbox'[d][i] = inbox[d][i]
    <3>1. tool[u].pc = "ended"
      BY <2>2 DEF BusInv, NewsOrder
    <3>2. u # t
      BY <3>1
    <3> HIDE DEF u
    <3>3. tool'[u].pc = "ended"
      BY <1>1, <2>1, <3>1, <3>2
    <3> QED BY <3>3 DEF u
  <2>3. CASE u = t /\ y.pc = "ended"
    BY <1>1, <2>3
  <2> QED BY <2>2, <2>3
<1>3. WaitOrder'
  BY <1>1 DEF BusInv, WaitOrder
<1>4. InhibitedWhileBlocked'
  BY <1>1 DEF BusInv, InhibitedWhileBlocked
<1> QED BY <1>1, <1>2, <1>3, <1>4 DEF BusInv

\* The same when the messages stay.
LEMMA ToolMovesAlone ==
  ASSUME BusInv, NEW t \in Tools, NEW y \in ToolState, tool' = [tool EXCEPT ![t] = y],
         UNCHANGED <<daemon, bus, inbox>>,
         tool[t].pc # "ended", y.pc # "block", y.pc = "wait" => y.todo # <<>>
  PROVE  BusInv'
<1>1. /\ bus' \in BusState /\ inbox' \in [Daemons -> Seq(Messages)]
  BY DEF BusInv
<1>2. \A d \in Daemons : \A i \in 1..Len(inbox'[d]) :
        i \in 1..Len(inbox[d]) /\ inbox'[d][i] = inbox[d][i]
  OBVIOUS
<1> QED BY <1>1, <1>2, ToolMoves

\* A message e that is added to those of the daemons in D.
LEMMA InboxGrows ==
  ASSUME BusInv, NEW D \in SUBSET Daemons, NEW e \in Messages,
         inbox' = [d \in Daemons |-> inbox'[d]],
         \A d \in Daemons :
           inbox'[d] = IF d \in D THEN Append(inbox[d], e) ELSE inbox[d]
  PROVE  /\ inbox' \in [Daemons -> Seq(Messages)]
         /\ \A d \in Daemons : \A i \in 1..Len(inbox'[d]) :
              \/ i \in 1..Len(inbox[d]) /\ inbox'[d][i] = inbox[d][i]
              \/ inbox'[d][i] = e
<1>1. inbox \in [Daemons -> Seq(Messages)]
  BY DEF BusInv
<1>2. ASSUME NEW d \in Daemons
      PROVE  /\ inbox'[d] \in Seq(Messages)
             /\ \A i \in 1..Len(inbox'[d]) :
                  \/ i \in 1..Len(inbox[d]) /\ inbox'[d][i] = inbox[d][i]
                  \/ inbox'[d][i] = e
  <2> DEFINE a == inbox[d]
             b == inbox'[d]
  <2>1. a \in Seq(Messages) /\ (b = a \/ b = Append(a, e))
    BY <1>1
  <2> HIDE DEF a, b
  <2>2. CASE b = a
    BY <2>1, <2>2 DEF a, b
  <2>3. CASE b = Append(a, e)
    <3>1. b \in Seq(Messages) /\ Len(b) = Len(a) + 1 /\ b[Len(a) + 1] = e
          /\ \A i \in 1..Len(a) : b[i] = a[i]
      BY <1>1, <2>1, <2>3
    <3>2. \A i \in 1..Len(b) : (i \in 1..Len(a) /\ b[i] = a[i]) \/ b[i] = e
      <4> SUFFICES ASSUME NEW i \in 1..Len(b)
                   PROVE  (i \in 1..Len(a) /\ b[i] = a[i]) \/ b[i] = e
        OBVIOUS
      <4>1. i \in 1..Len(a) \/ i = Len(a) + 1
        BY <2>1, <3>1
      <4> QED BY <3>1, <4>1
    <3> QED BY <3>1, <3>2 DEF a, b
  <2> QED BY <2>1, <2>2, <2>3
<1>3. inbox' \in [Daemons -> Seq(Messages)]
  BY <1>2
<1> QED BY <1>2, <1>3

\* A tool ends, and the bus tells those that have asked for it.
LEMMA LeavesKeep ==
  ASSUME BusInv, NEW t \in Tools, tool' = [tool EXCEPT ![t] = Ended], Left(t),
         daemon' = daemon, tool[t].pc # "ended"
  PROVE  BusInv'
<1>1. Ended \in ToolState /\ Ended.pc = "ended"
  BY EndedTool
<1> DEFINE e == <<t, News>>
           D == {d \in Daemons : Serves(d)}
<1>2. e \in Messages /\ e[1] = t
  BY DEF Messages
<1>3. /\ inbox' = [d \in Daemons |-> inbox'[d]]
      /\ \A d \in Daemons :
           inbox'[d] = IF d \in D THEN Append(inbox[d], e) ELSE inbox[d]
  BY DEF Left, News
<1>4. bus' \in BusState /\ bus'.owner = bus.owner
  <2> DEFINE p == Without(bus.pending, t)
             S == Tools \X Calls
  <2>1. bus \in BusState /\ bus' = [bus EXCEPT !.pending = p]
    BY DEF BusInv, Left
  <2>2. bus.pending \in Seq(S)
    BY <2>1 DEF BusState
  <2>3. p \in Seq(S)
    <3> HIDE DEF S
    <3> QED BY <2>2, WithoutTool
  <2> HIDE DEF p
  <2> QED BY <2>1, <2>3 DEF BusState
<1>5. D \in SUBSET Daemons
  OBVIOUS
<1> HIDE DEF D, e
<1>6. /\ inbox' \in [Daemons -> Seq(Messages)]
      /\ \A d \in Daemons : \A i \in 1..Len(inbox'[d]) :
           \/ i \in 1..Len(inbox[d]) /\ inbox'[d][i] = inbox[d][i]
           \/ inbox'[d][i] = e
  BY <1>2, <1>3, <1>5, InboxGrows
<1> HIDE DEF Ended
<1>7. \A d \in Daemons : \A i \in 1..Len(inbox'[d]) :
        inbox'[d][i][2] = News =>
          \/ i \in 1..Len(inbox[d]) /\ inbox'[d][i] = inbox[d][i]
          \/ inbox'[d][i][1] = t /\ Ended.pc = "ended"
  BY <1>1, <1>2, <1>6
<1>8. Ended.pc # "block" /\ Ended.pc # "wait"
  BY <1>1
<1> QED BY <1>1, <1>4, <1>6, <1>7, <1>8, ToolMoves

\* What a tool does by itself.
LEMMA ToolKeeps ==
  ASSUME BusInv, NEW t \in Tools, ToolStep(t) \/ tool_starts(t) \/ tool_interrupted(t)
  PROVE  BusInv'
<1>1. /\ tool \in [Tools -> ToolState] /\ tool[t] \in ToolState /\ bus \in BusState
      /\ inbox \in [Daemons -> Seq(Messages)]
      /\ tool[t].todo \in Seq(Calls)
  BY DEF BusInv, ToolState
<1>2. "check" \in ToolPcs /\ "run" \in ToolPcs /\ "wait" \in ToolPcs
  BY DEF ToolPcs
<1>3. ASSUME NEW pc \in ToolPcs, NEW todo \in Seq(Calls)
      PROVE  /\ [tool[t] EXCEPT !.pc = pc, !.todo = todo] \in ToolState
             /\ [tool[t] EXCEPT !.pc = pc, !.todo = todo].pc = pc
             /\ [tool[t] EXCEPT !.pc = pc, !.todo = todo].todo = todo
  BY <1>1 DEF ToolState
<1>4. tool[t].todo # <<>> => Tail(tool[t].todo) \in Seq(Calls)
  BY <1>1
<1>5. Ended \in ToolState /\ Ended.pc = "ended"
  BY EndedTool
<1>6. CASE tool_starts(t)
  <2>1. PICK O \in Invocations :
          \/ tool' = [tool EXCEPT ![t] = [tool[t] EXCEPT !.pc = "check", !.todo = CallsFor(O)]]
          \/ tool' = [tool EXCEPT ![t] = Ended]
    BY <1>1, <1>6 DEF tool_starts
  <2>2. CallsFor(O) \in Seq(Calls)
    BY CallsForType
  <2> DEFINE y == [tool[t] EXCEPT !.pc = "check", !.todo = CallsFor(O)]
  <2>3. y \in ToolState /\ y.pc = "check"
    BY <1>2, <1>3, <2>2
  <2> HIDE DEF y
  <2>4. UNCHANGED <<bus, daemon, inbox>> /\ tool[t].pc # "ended"
    BY <1>6 DEF tool_starts
  <2> QED BY <1>5, <2>1, <2>3, <2>4, ToolMovesAlone DEF y
<1>7. CASE tool_checks(t)
  <2> DEFINE y == [tool[t] EXCEPT !.pc = "run", !.todo = tool[t].todo]
  <2>1. \/ tool' = [tool EXCEPT ![t] = Ended]
        \/ tool' = [tool EXCEPT ![t] = [tool[t] EXCEPT !.pc = "run"]]
    BY <1>1, <1>7 DEF tool_checks
  <2>2. y \in ToolState /\ y.pc = "run" /\ y = [tool[t] EXCEPT !.pc = "run"]
    BY <1>1, <1>2, <1>3 DEF ToolState
  <2> HIDE DEF y
  <2>3. UNCHANGED <<bus, daemon, inbox>> /\ tool[t].pc # "ended"
    BY <1>7 DEF tool_checks
  <2> QED BY <1>5, <2>1, <2>2, <2>3, ToolMovesAlone
<1>8. CASE tool_sends(t)
  <2> DEFINE m == Head(tool[t].todo)
             e == <<t, m>>
             y == IF m \in Void THEN [tool[t] EXCEPT !.pc = "run", !.todo = Tail(tool[t].todo)]
                  ELSE [tool[t] EXCEPT !.pc = "wait", !.todo = tool[t].todo]
  <2>1. /\ tool[t].pc = "run" /\ tool[t].todo # <<>> /\ Sent(t, m) /\ daemon' = daemon
    BY <1>8 DEF tool_sends
  <2>2. y \in ToolState /\ y.pc # "block" /\ (y.pc = "wait" => y.todo # <<>>)
    BY <1>1, <1>2, <1>3, <1>4, <2>1
  <2>3. tool' = [tool EXCEPT ![t] = y]
    <3>1. CASE m \in Void
      BY <1>1, <1>8, <2>1, <3>1 DEF tool_sends, ToolState
    <3>2. CASE m \notin Void
      BY <1>1, <1>8, <2>1, <3>2 DEF tool_sends, ToolState
    <3> QED BY <3>1, <3>2
  <2>4. m \in Calls
    BY <1>1, <2>1
  <2>5. m # News
    BY <2>4 DEF Calls, News
  <2> HIDE DEF y, m
  <2>6. e \in Tools \X Calls /\ e \in Messages /\ e[2] # News
    BY <2>4, <2>5 DEF Messages
  <2>7. CASE bus.owner = NoDaemon
    <3>1. bus' = [bus EXCEPT !.pending = Append(@, e)] /\ inbox' = inbox
      BY <2>1, <2>7 DEF Sent
    <3>2. bus' \in BusState /\ bus'.owner = bus.owner
      <4> DEFINE S == Tools \X Calls
                 p == Append(bus.pending, e)
      <4>1. bus.pending \in Seq(S) /\ e \in S
        BY <1>1, <2>6 DEF BusState
      <4> HIDE DEF S, e
      <4>2. p \in Seq(S)
        BY <4>1
      <4>3. bus' = [bus EXCEPT !.pending = p]
        BY <3>1 DEF e
      <4> HIDE DEF p
      <4> QED BY <1>1, <4>2, <4>3 DEF BusState, S
    <3>3. \A d \in Daemons : \A i \in 1..Len(inbox'[d]) :
            i \in 1..Len(inbox[d]) /\ inbox'[d][i] = inbox[d][i]
      BY <3>1
    <3>4. inbox' \in [Daemons -> Seq(Messages)]
      BY <1>1, <3>1
    <3> QED BY <2>1, <2>2, <2>3, <3>2, <3>3, <3>4, ToolMoves
  <2>8. CASE bus.owner # NoDaemon
    <3> DEFINE D == {bus.owner}
    <3>1. bus' = bus /\ inbox' = [inbox EXCEPT ![bus.owner] = Append(@, e)]
      BY <2>1, <2>8 DEF Sent
    <3>2. /\ inbox' = [d \in Daemons |-> inbox'[d]]
          /\ \A d \in Daemons :
               inbox'[d] = IF d \in D THEN Append(inbox[d], e) ELSE inbox[d]
      BY <1>1, <3>1
    <3>3. D \in SUBSET Daemons
      BY <1>1, <2>8 DEF BusState
    <3> HIDE DEF D, e
    <3>4. /\ inbox' \in [Daemons -> Seq(Messages)]
          /\ \A d \in Daemons : \A i \in 1..Len(inbox'[d]) :
               \/ i \in 1..Len(inbox[d]) /\ inbox'[d][i] = inbox[d][i]
               \/ inbox'[d][i] = e
      BY <2>6, <3>2, <3>3, InboxGrows
    <3>5. \A d \in Daemons : \A i \in 1..Len(inbox'[d]) :
            inbox'[d][i][2] = News =>
              i \in 1..Len(inbox[d]) /\ inbox'[d][i] = inbox[d][i]
      BY <2>6, <3>4
    <3>6. bus' \in BusState /\ bus'.owner = bus.owner
      BY <1>1, <3>1
    <3> QED BY <2>1, <2>2, <2>3, <3>4, <3>5, <3>6, ToolMoves
  <2> QED BY <2>7, <2>8
<1>9. CASE call_fails(t)
  <2>1. tool[t].pc = "wait" /\ daemon' = daemon /\ tool[t].todo # <<>>
    BY <1>9 DEF call_fails, BusInv, WaitOrder
  <2>2. CASE tool' = [tool EXCEPT ![t] = Ended] /\ Left(t)
    BY <2>1, <2>2, LeavesKeep
  <2>3. CASE /\ tool' = [tool EXCEPT ![t].pc = "run", ![t].todo = Tail(@)]
             /\ UNCHANGED <<bus, inbox>>
    <3> DEFINE y == [tool[t] EXCEPT !.pc = "run", !.todo = Tail(tool[t].todo)]
    <3>1. y \in ToolState /\ y.pc = "run" /\ tool' = [tool EXCEPT ![t] = y]
      BY <1>1, <1>2, <1>3, <1>4, <2>1, <2>3
    <3> HIDE DEF y
    <3> QED BY <2>1, <2>3, <3>1, ToolMovesAlone
  <2> QED BY <1>9, <2>2, <2>3 DEF call_fails
<1>10. CASE tool_done(t) \/ tool_interrupted(t)
  BY <1>10, LeavesKeep DEF tool_done, tool_interrupted
<1> QED BY <1>6, <1>7, <1>8, <1>9, <1>10 DEF ToolStep

\* A reply to the call m of tool t, whatever it says.
Answered(t, m) == \E active \in BOOLEAN : tool' = Replied(t, m, active)

\* What a reply makes of the tool t: it goes on when it still waits for the
\* call, and blocks only by the daemon that owns the name.
LEMMA RepliedTo ==
  ASSUME BusInv, NEW t \in Tools, NEW m, Answered(t, m), tool' # tool
  PROVE  /\ tool[t].pc = "wait"
         /\ \E y \in ToolState : /\ tool' = [tool EXCEPT ![t] = y]
                                 /\ y.pc \in {"block", "run"}
                                 /\ y.pc = "block" => m = "Inhibit" /\ y.by = bus.owner
<1> PICK active \in BOOLEAN : tool' = Replied(t, m, active)
  BY DEF Answered
<1>1. /\ tool \in [Tools -> ToolState] /\ tool[t] \in ToolState
      /\ tool[t].pc = "wait" /\ tool[t].todo # <<>> /\ tool[t].todo \in Seq(Calls)
      /\ bus.owner \in Daemons \cup {NoDaemon}
      /\ tool[t].by \in Daemons \cup {NoDaemon}
  BY DEF BusInv, Replied, WaitOrder, ToolState, BusState
<1> DEFINE s == tool[t].todo
           pc == IF m = "Inhibit" THEN "block" ELSE "run"
           todo == IF m = "GetActive -t" /\ ~active THEN SubSeq(s, 3, Len(s)) ELSE Tail(s)
           by == IF m = "Inhibit" THEN bus.owner ELSE tool[t].by
           y == [tool[t] EXCEPT !.pc = pc, !.todo = todo, !.by = by]
<1>2. tool' = [tool EXCEPT ![t].pc = pc, ![t].todo = todo, ![t].by = by]
  BY DEF Replied
<1>3. pc \in ToolPcs /\ by \in Daemons \cup {NoDaemon} /\ pc \in {"block", "run"}
      /\ (pc = "block" => m = "Inhibit" /\ by = bus.owner)
  BY <1>1 DEF ToolPcs
<1>4. todo \in Seq(Calls)
  <2>1. s \in Seq(Calls) /\ s # <<>>
    BY <1>1
  <2> HIDE DEF s
  <2>2. Tail(s) \in Seq(Calls)
    BY <2>1
  <2>3. SubSeq(s, 3, Len(s)) \in Seq(Calls)
    <3>1. Len(s) \in Nat /\ \A i \in 3..Len(s) : s[i] \in Calls
      BY <2>1
    <3> QED BY <2>1, <3>1
  <2> QED BY <2>2, <2>3
<1> HIDE DEF pc, todo, by
<1>5. tool' = [tool EXCEPT ![t] = y]
  BY <1>1, <1>2 DEF ToolState
<1>6. y \in ToolState /\ y.pc = pc /\ y.by = by
  BY <1>1, <1>3, <1>4 DEF ToolState
<1> HIDE DEF y
<1> QED BY <1>1, <1>3, <1>5, <1>6

\* What a message makes of the daemon that serves: its inhibitors stay, but
\* for the tool that has left, unless it quits.
LEMMA HandledBy ==
  ASSUME NEW x \in DaemonState, NEW t \in Tools, NEW m
  PROVE  /\ Handled(x, t, m) \in DaemonState
         /\ m = "Quit" => Handled(x, t, m) = Exited
         /\ m # "Quit" => /\ Handled(x, t, m).pc = x.pc
                          /\ Handled(x, t, m).session = x.session
                          /\ \A u \in x.inhibitors :
                               \/ u \in Handled(x, t, m).inhibitors
                               \/ u = t /\ m = News
         /\ m = "Inhibit" => t \in Handled(x, t, m).inhibitors
<1>1. Exited \in DaemonState
  BY ExitedDaemon
<1>2. CASE m = "Inhibit"
  BY <1>2 DEF Handled, DaemonState
<1>3. CASE m = News
  BY <1>3 DEF Handled, DaemonState, News
<1>4. CASE m = "Quit"
  BY <1>1, <1>4 DEF Handled
<1>5. CASE m \notin {"Inhibit", News, "Quit"}
  BY <1>5 DEF Handled, News
<1> QED BY <1>2, <1>3, <1>4, <1>5

LEMMA MessageKeeps ==
  ASSUME BusInv, NEW d \in Daemons, listener_dbus_handle_session_message(d)
  PROVE  BusInv'
<1> DEFINE h == inbox[d]
           t == Head(h)[1]
           m == Head(h)[2]
           x == Handled(daemon[d], t, m)
<1>1. /\ daemon \in [Daemons -> DaemonState] /\ daemon[d] \in DaemonState
      /\ tool \in [Tools -> ToolState] /\ bus \in BusState
      /\ inbox \in [Daemons -> Seq(Messages)] /\ h \in Seq(Messages) /\ h # <<>>
      /\ daemon[d].pc = "running" /\ daemon[d].session = "up"
      /\ NameOrder(daemon[d], d, bus.owner)
  BY DEF BusInv, listener_dbus_handle_session_message, Serves
<1>2. /\ daemon' = [daemon EXCEPT ![d] = x]
      /\ inbox' = [inbox EXCEPT ![d] = IF m = "Quit" THEN <<>> ELSE Tail(h)]
      /\ bus' = IF m = "Quit" THEN [bus EXCEPT !.owner = NoDaemon] ELSE bus
      /\ Answered(t, m)
  BY <1>1 DEF listener_dbus_handle_session_message, Answered
<1>3. bus.owner = d
  BY <1>1 DEF NameOrder
<1>4. Head(h) = h[1] /\ h[1] \in Messages /\ 1 \in 1..Len(h)
  <2> HIDE DEF h
  <2> QED BY <1>1
<1>5. t \in Tools /\ m \in Calls \cup {News} /\ t = h[1][1] /\ m = h[1][2]
  BY <1>4 DEF Messages
<1>6. m = News => tool[t].pc = "ended"
  BY <1>4, <1>5 DEF BusInv, NewsOrder
<1> HIDE DEF t, m
<1>7. /\ x \in DaemonState /\ (m = "Quit" => x = Exited)
      /\ m # "Quit" => /\ x.pc = "running" /\ x.session = "up"
                       /\ \A u \in daemon[d].inhibitors :
                            u \in x.inhibitors \/ (u = t /\ m = News)
      /\ m = "Inhibit" => t \in x.inhibitors
  BY <1>1, <1>5, HandledBy
<1> HIDE DEF x
<1>8. /\ daemon' \in [Daemons -> DaemonState] /\ daemon'[d] = x
      /\ \A e \in Daemons : e # d => daemon'[e] = daemon[e]
  BY <1>1, <1>2, <1>7
<1>9. /\ bus' \in BusState /\ (m # "Quit" => bus'.owner = d)
      /\ (m = "Quit" => bus'.owner = NoDaemon)
  BY <1>1, <1>2, <1>3 DEF BusState
<1>10. \A e \in Daemons : NameOrder(daemon'[e], e, bus'.owner)
  <2> SUFFICES ASSUME NEW e \in Daemons PROVE NameOrder(daemon'[e], e, bus'.owner)
    OBVIOUS
  <2>1. CASE e = d /\ m = "Quit"
    BY <1>7, <1>8, <2>1, ExitedDaemon
  <2>2. CASE e = d /\ m # "Quit"
    BY <1>7, <1>8, <1>9, <2>2 DEF NameOrder
  <2>3. CASE e # d
    <3>1. daemon'[e] = daemon[e] /\ NameOrder(daemon[e], e, d)
      BY <1>3, <1>8, <2>3 DEF BusInv
    <3> QED BY <2>3, <3>1 DEF NameOrder
  <2> QED BY <2>1, <2>2, <2>3
<1>11. /\ inbox' \in [Daemons -> Seq(Messages)]
       /\ \A e \in Daemons : \A i \in 1..Len(inbox'[e]) :
            \E j \in 1..Len(inbox[e]) : inbox'[e][i] = inbox[e][j]
  <2> DEFINE s == IF m = "Quit" THEN <<>> ELSE Tail(h)
  <2>1. /\ s \in Seq(Messages)
        /\ \A i \in 1..Len(s) : \E j \in 1..Len(h) : s[i] = h[j]
    <3> HIDE DEF h
    <3>1. /\ Tail(h) \in Seq(Messages) /\ Len(Tail(h)) = Len(h) - 1 /\ Len(h) \in Nat
          /\ \A i \in 1..(Len(h) - 1) : Tail(h)[i] = h[i + 1]
      BY <1>1
    <3>2. \A i \in 1..(Len(h) - 1) : i + 1 \in 1..Len(h)
      BY <3>1
    <3>3. <<>> \in Seq(Messages) /\ Len(<<>>) = 0
      OBVIOUS
    <3>4. CASE m = "Quit"
      BY <3>3, <3>4
    <3>5. CASE m # "Quit"
      BY <3>1, <3>2, <3>5
    <3> QED BY <3>4, <3>5
  <2> HIDE DEF s
  <2>2. inbox' = [inbox EXCEPT ![d] = s]
    BY <1>2 DEF s
  <2>3. /\ inbox' \in [Daemons -> Seq(Messages)] /\ inbox'[d] = s
        /\ \A e \in Daemons : e # d => inbox'[e] = inbox[e]
    BY <1>1, <2>1, <2>2
  <2> QED BY <2>1, <2>3
<1>12. tool' # tool =>
         /\ tool[t].pc = "wait"
         /\ \E y \in ToolState : /\ tool' = [tool EXCEPT ![t] = y]
                                 /\ y.pc \in {"block", "run"}
                                 /\ y.pc = "block" => m = "Inhibit" /\ y.by = d
  <2>1. ASSUME tool' # tool
        PROVE  /\ tool[t].pc = "wait"
               /\ \E y \in ToolState :
                    /\ tool' = [tool EXCEPT ![t] = y] /\ y.pc \in {"block", "run"}
                    /\ y.pc = "block" => m = "Inhibit" /\ y.by = bus.owner
    BY <1>2, <1>5, <2>1, RepliedTo
  <2> QED BY <1>3, <2>1
<1>13. /\ tool' \in [Tools -> ToolState] /\ WaitOrder'
       /\ \A u \in Tools : \/ tool'[u] = tool[u]
                           \/ /\ u = t /\ tool[u].pc = "wait"
                              /\ tool'[u].pc \in {"block", "run"}
                              /\ tool'[u].pc = "block" => m = "Inhibit" /\ tool'[u].by = d
  <2>1. CASE tool' = tool
    BY <1>1, <2>1 DEF BusInv, WaitOrder
  <2>2. CASE tool' # tool
    <3>1. PICK y \in ToolState : /\ tool' = [tool EXCEPT ![t] = y]
                                 /\ y.pc \in {"block", "run"}
                                 /\ y.pc = "block" => m = "Inhibit" /\ y.by = d
      BY <1>12, <2>2
    <3>2. /\ tool' \in [Tools -> ToolState] /\ tool'[t] = y /\ tool[t].pc = "wait"
          /\ \A u \in Tools : u # t => tool'[u] = tool[u]
      BY <1>1, <1>5, <1>12, <2>2, <3>1
    <3> QED BY <3>1, <3>2 DEF BusInv, WaitOrder
  <2> QED BY <2>1, <2>2
<1>14. NewsOrder'
  <2> SUFFICES ASSUME NEW e \in Daemons, NEW i \in 1..Len(inbox'[e]),
                      inbox'[e][i][2] = News
               PROVE  tool'[inbox'[e][i][1]].pc = "ended"
    BY DEF NewsOrder
  <2>1. PICK j \in 1..Len(inbox[e]) : inbox'[e][i] = inbox[e][j]
    BY <1>11
  <2> DEFINE u == inbox[e][j][1]
  <2>2. tool[u].pc = "ended"
    BY <2>1 DEF BusInv, NewsOrder
  <2>3. u \in Tools
    <3>1. inbox[e] \in Seq(Messages)
      BY <1>1
    <3>2. inbox[e][j] \in Messages
      BY <3>1
    <3> QED BY <3>2 DEF Messages
  <2> HIDE DEF u
  <2>4. tool'[u] = tool[u]
    BY <1>13, <2>2, <2>3
  <2> QED BY <2>1, <2>2, <2>4 DEF u
<1>15. InhibitedWhileBlocked'
  <2> SUFFICES ASSUME NEW u \in Tools, tool'[u].pc = "block"
               PROVE  /\ tool'[u].by # NoDaemon
                      /\ \/ u \in daemon'[tool'[u].by].inhibitors
                         \/ daemon'[tool'[u].by].pc = "exited"
    BY DEF InhibitedWhileBlocked
  <2>1. CASE tool'[u] # tool[u]
    BY <1>7, <1>8, <1>13, <2>1, BusAssumption
  <2>2. CASE tool'[u] = tool[u]
    <3> DEFINE b == tool[u].by
    <3>1. b \in Daemons /\ (u \in daemon[b].inhibitors \/ daemon[b].pc = "exited")
      BY <2>2 DEF BusInv, ToolState, InhibitedWhileBlocked
    <3>2. tool'[u].by = b
      BY <2>2
    <3> HIDE DEF b
    <3>3. CASE b # d
      BY <1>8, <3>1, <3>2, <3>3, BusAssumption
    <3>4. CASE b = d /\ m = "Quit"
      BY <1>7, <1>8, <3>1, <3>2, <3>4, BusAssumption, ExitedDaemon
    <3>5. CASE b = d /\ m # "Quit"
      <4>1. u \in daemon[d].inhibitors
        BY <1>1, <3>1, <3>5
      <4>2. u \in x.inhibitors
        <5>1. CASE u = t /\ m = News
          BY <1>6, <2>2, <5>1
        <5> QED BY <1>7, <3>5, <4>1, <5>1
      <4> QED BY <1>8, <3>1, <3>2, <3>5, <4>2, BusAssumption
    <3> QED BY <3>3, <3>4, <3>5
  <2> QED BY <2>1, <2>2
<1> QED BY <1>8, <1>9, <1>10, <1>11, <1>13, <1>14, <1>15 DEF BusInv

LEMMA BusStep ==
  ASSUME BusInv, [BusNext]_busVars
  PROVE  BusInv'
<1>1. CASE UNCHANGED busVars
  BY <1>1 DEF busVars, BusInv, NewsOrder, WaitOrder, InhibitedWhileBlocked
<1>2. CASE \E d \in Daemons : DaemonStep(d) \/ system_bus_lost(d)
  BY <1>2, StartsKeep, RequestKeeps, ConnectionKeeps, MessageKeeps DEF DaemonStep
<1>3. CASE \E t \in Tools : ToolStep(t) \/ tool_starts(t) \/ tool_interrupted(t)
  BY <1>3, ToolKeeps
<1> QED BY <1>1, <1>2, <1>3, LossKeeps, BackKeeps DEF BusNext

LEMMA BusInvHolds == BusSpec => []BusInv
<1>1. BusInit => BusInv
  BY BusStarts
<1>2. BusInv /\ [BusNext]_busVars => BusInv'
  BY BusStep
<1> QED BY <1>1, <1>2, PTL DEF BusSpec

-----------------------------------------------------------------------------
(* The theorems *)

(***************************************************************************)
(* One daemon serves a session, whatever the number of daemons that are    *)
(* started and the order in which they look for each other, request the    *)
(* name and lose the bus: gs_listener_acquire looks at the answer to its   *)
(* request, and reinit_dbus does not make a daemon serve again that has    *)
(* lost the name.                                                          *)
(***************************************************************************)
THEOREM OneServes == BusSpec => []ServesOnlyOwner
<1>1. ASSUME BusInv PROVE ServesOnlyOwner
  <2>1. bus \in [up: BOOLEAN, owner: Daemons \cup {NoDaemon}, losses: 0..MaxLosses,
                 pending: Seq(Tools \X Calls)]
    BY <1>1 DEF BusInv, BusState
  <2>2. daemon \in [Daemons -> [pc: DaemonPcs, session: Conn, system: Conn,
                                timer: BOOLEAN, inhibitors: SUBSET Tools]]
    BY <1>1 DEF BusInv, DaemonState
  <2>3. \A t \in Tools :
          /\ tool[t].pc \in ToolPcs /\ tool[t].by \in Daemons \cup {NoDaemon}
          /\ tool[t].pc = "wait" => tool[t].todo # <<>>
    BY <1>1 DEF BusInv, ToolState, WaitOrder
  <2>4. \A d \in Daemons : Serves(d) => bus.owner = d
    BY <1>1 DEF BusInv, NameOrder, Serves
  <2> QED BY <2>1, <2>2, <2>3, <2>4 DEF ServesOnlyOwner, BusType
<1> QED BY <1>1, BusInvHolds, PTL

(***************************************************************************)
(* A tool that blocks inhibits the daemon that has answered it, however    *)
(* late the answers and the news of ended tools arrive: listener_dbus_     *)
(* handle_session_message removes the inhibitors only of a tool that has   *)
(* left, and a daemon that has lost its connection keeps them.             *)
(***************************************************************************)
THEOREM BlockInhibits == BusSpec => []InhibitedWhileBlocked
<1>1. BusInv => InhibitedWhileBlocked
  BY DEF BusInv
<1> QED BY <1>1, BusInvHolds, PTL
=============================================================================
