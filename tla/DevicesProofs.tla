----------------------------- MODULE DevicesProofs -----------------------------
(***************************************************************************)
(* Proofs about the grab of the input devices and the fade, for any number *)
(* of windows, retries, CRTCs and steps of the fade: a fade can be undone, *)
(* the record of the grab is true, and the daemon does not let go of the   *)
(* keyboard while the screensaver is active.                               *)
(***************************************************************************)
EXTENDS Devices, TLAPS

-----------------------------------------------------------------------------
(* The inductive invariants *)

(***************************************************************************)
(* Levels are read only when none are kept, and then the screen has its    *)
(* own brightness, or is black from a ramp that was not read and has the   *)
(* gamma number left.                                                      *)
(***************************************************************************)
FadeInv ==
  /\ FadeType /\ FadeIsReversible
  /\ fade.info # "ramps" => \A c \in Crtcs : fade.saved[c] = NoRamp
  /\ UnreadRamp => \A c \in Crtcs : fade.saved[c] = 0

GrabState == [window: Ours \cup {None}, no_pointer: BOOLEAN]

Thens == {"nothing", "fade", "activate", "down", "destroy", "unplug"}

CallState == [op: {"none", "window", "move", "retry", "done"},
              window: Ours \cup {None}, no_pointer: BOOLEAN, i: 0..Retries,
              old: Ours \cup {None}, then: Thens, result: BOOLEAN]

ScreenState == [active: BOOLEAN, windows: SUBSET Windows,
                unmapped: SUBSET Windows, dialog: Windows \cup {None},
                release_timer: BOOLEAN, unfade: BOOLEAN]

Holders == Ours \cup {None, Other}

ServerState == [keyboard: Holders, pointer: Holders, grabbed: Int]

\* The server is grabbed by a move that waits, and by an unplugged monitor.
Depth(c) == (IF c.op = "retry" THEN 1 ELSE 0) + (IF c.then = "unplug" THEN 1 ELSE 0)

RecordOf(g, s) ==
  g.window # None => /\ s.keyboard = g.window \/ s.pointer = g.window
                     /\ s.keyboard \in {g.window, None, Other}
                     /\ s.pointer \in {g.window, None, Other}

ScreenOrder ==
  /\ screen.unmapped \subseteq screen.windows
  /\ screen.dialog # None => screen.dialog \in screen.windows
  /\ ~screen.active => screen.windows = {}

(***************************************************************************)
(* What the call in progress knows: only an inactive screensaver grabs     *)
(* with gs_grab_grab_window, only a window that exists is destroyed, and a *)
(* window that is destroyed with all others has the only grab.             *)
(***************************************************************************)
CallOrder ==
  /\ call.op = "none" => call = NoCall
  /\ call.op = "window" => call.i < Retries /\ call.then \in {"fade", "activate"}
  /\ call.op \in {"window", "move", "retry"} => call.window \in Ours
  /\ call.op = "retry" => grab.window = None
  /\ call.then \in {"fade", "activate"} => ~screen.active
  /\ call.then \in {"destroy", "unplug"} => call.window \in screen.windows
  /\ call.then = "destroy" => grab.window \in {None, call.window}

\* While the screensaver is not active, a grab has the keyboard.
IdleGrab ==
  ~screen.active /\ grab.window # None => server.keyboard = grab.window

DevicesInv ==
  /\ grab \in GrabState /\ server \in ServerState /\ call \in CallState
  /\ screen \in ScreenState /\ others \in 0..MaxOtherGrabs
  /\ RecordOf(grab, server) /\ server.grabbed = Depth(call)
  /\ ScreenOrder /\ CallOrder /\ IdleGrab

-----------------------------------------------------------------------------
(* The fade *)

FadeState == [type: Types, active: BOOLEAN, timer: BOOLEAN, alpha: 0..Full,
              info: Infos, vmg: 0..Full, saved: [Crtcs -> {NoRamp} \cup 0..Full]]

GammaState == [ramp: [Crtcs -> 0..Full], number: 0..Full]

LEMMA FadeTypes == FadeType <=> fade \in FadeState /\ gamma \in GammaState
BY DEF FadeType, FadeState, GammaState

\* Full brightness times the ratio a of Full is a, and black is black.
LEMMA Ratio ==
  ASSUME NEW a \in 0..Full PROVE Scaled(Full, a) = a /\ Scaled(0, a) = 0
BY FadeAssumption DEF Scaled

LEMMA Levels ==
  ASSUME NEW a \in 0..Full
  PROVE  /\ Level(a) \in [Crtcs -> 0..Full]
         /\ Level(a) \in [Crtcs -> {NoRamp} \cup 0..Full]
         /\ \A c \in Crtcs : Level(a)[c] = a
BY DEF Level

\* The gamma number of the undimmed screen.
LEMMA WhacksNumber ==
  ASSUME FadeInv, NumberKept, NEW a \in 0..Full, NEW g, g = Whacked(fade, a)
  PROVE  g \in GammaState /\ g.ramp = Level(a) /\ g.number = a
<1>1. fade.info = "number" /\ fade.vmg = Full
  BY DEF FadeInv, FadeIsReversible, NumberKept
<1>2. g = [ramp |-> Level(a), number |-> a]
  BY <1>1, Ratio DEF Whacked
<1> QED BY <1>2, Levels DEF GammaState

\* The ramps, those of the undimmed screen or those that were not read.
LEMMA WhacksRamps ==
  ASSUME FadeInv, fade.info = "ramps", NEW a \in 0..Full, NEW g, g = Whacked(fade, a)
  PROVE  /\ g \in GammaState /\ g.number = gamma.number
         /\ UnreadRamp => \A c \in Crtcs : g.ramp[c] = 0
         /\ ~UnreadRamp => \A c \in Crtcs :
              g.ramp[c] = IF fade.saved[c] = NoRamp THEN gamma.ramp[c] ELSE a
<1> DEFINE level == [c \in Crtcs |-> IF fade.saved[c] = NoRamp THEN gamma.ramp[c]
                                     ELSE Scaled(fade.saved[c], a)]
<1>1. gamma \in GammaState
  BY FadeTypes DEF FadeInv
<1>2. \A c \in Crtcs : /\ UnreadRamp => level[c] = 0
                       /\ ~UnreadRamp => level[c] = IF fade.saved[c] = NoRamp
                                                    THEN gamma.ramp[c] ELSE a
  <2>1. TAKE c \in Crtcs
  <2>2. 0 # NoRamp
    BY DEF NoRamp
  <2>3. CASE UnreadRamp
    BY <2>2, <2>3, Ratio DEF FadeInv
  <2>4. CASE ~UnreadRamp
    BY <2>4, Ratio DEF FadeInv, FadeIsReversible
  <2> QED BY <2>3, <2>4
<1>3. level \in [Crtcs -> 0..Full]
  <2>1. 0 \in 0..Full /\ level = [c \in Crtcs |-> level[c]]
    BY FadeAssumption
  <2>2. \A c \in Crtcs : level[c] \in 0..Full
    BY <1>1, <1>2, <2>1 DEF GammaState
  <2> HIDE DEF level
  <2> QED BY <2>1, <2>2
<1>4. g = [gamma EXCEPT !.ramp = level]
  BY DEF Whacked
<1> HIDE DEF level
<1> QED BY <1>1, <1>2, <1>3, <1>4 DEF GammaState

LEMMA FadeStarts == FadeInit => FadeInv
<1> SUFFICES ASSUME FadeInit PROVE FadeInv
  OBVIOUS
<1>1. /\ fade \in [type: Types, active: {FALSE}, timer: {FALSE}, alpha: {Full},
                   info: {"none"}, vmg: {0}, saved: {NoRamps}]
      /\ gamma = [ramp |-> Level(Full), number |-> Full]
  BY DEF FadeInit
<1>2. NoRamps \in [Crtcs -> {NoRamp} \cup 0..Full] /\ \A c \in Crtcs : NoRamps[c] = NoRamp
  BY DEF NoRamps
<1>3. Full \in 0..Full /\ 0 \in 0..Full
  BY FadeAssumption
<1>4. /\ gamma \in GammaState /\ gamma.number = Full
      /\ \A c \in Crtcs : gamma.ramp[c] = Full
  BY <1>1, <1>3, Levels DEF GammaState
<1>5. fade \in FadeState /\ fade.info = "none" /\ fade.saved = NoRamps /\ ~fade.active /\ ~fade.timer
  BY <1>1, <1>2, <1>3 DEF FadeState, Infos
<1> QED BY <1>2, <1>4, <1>5, FadeTypes
        DEF FadeInv, FadeIsReversible, NumberKept, UnreadRamp

\* A fade in which only the flags are other.
LEMMA FlagsMove ==
  ASSUME FadeInv, UNCHANGED gamma, fade' \in FadeState, fade'.saved = fade.saved,
         fade'.type = fade.type, fade'.info = fade.info, fade'.vmg = fade.vmg,
         fade'.active <=> fade'.timer
  PROVE  FadeInv'
<1>1. FadeType'
  BY FadeTypes DEF FadeInv, FadeType, FadeState
<1>2. (NumberKept' <=> NumberKept) /\ (UnreadRamp' <=> UnreadRamp) /\ (Blackened' <=> Blackened)
  BY DEF NumberKept, UnreadRamp, Blackened
<1> QED BY <1>1, <1>2 DEF FadeInv, FadeIsReversible

\* gs_fade_stop, and gs_fade_start after it.
LEMMA Starts ==
  ASSUME NEW f \in FadeState
  PROVE  /\ Stopped(f) \in FadeState /\ Stopped(f).saved = f.saved
         /\ Stopped(f).info = f.info /\ Stopped(f).type = f.type
         /\ Stopped(f).alpha = f.alpha /\ Stopped(f).vmg = f.vmg
         /\ ~Stopped(f).active /\ ~Stopped(f).timer
         /\ Started(f) \in FadeState /\ Started(f).saved = f.saved
         /\ Started(f).info = f.info /\ Started(f).type = f.type
         /\ Started(f).vmg = f.vmg
         /\ ~f.timer => (Started(f).active <=> Started(f).timer)
BY DEF FadeState, Stopped, Started

\* gs_fade_async: levels are read only of a screen that is not dimmed.
LEMMA AsyncKeeps ==
  ASSUME FadeInv, gs_fade_async
  PROVE  FadeInv'
<1> DEFINE s == Stopped(fade)
<1>1. fade \in FadeState /\ gamma \in GammaState /\ gamma' = gamma
  BY FadeTypes DEF FadeInv, gs_fade_async
<1>2. /\ s \in FadeState /\ s.saved = fade.saved /\ s.info = fade.info
      /\ s.type = fade.type /\ s.vmg = fade.vmg /\ ~s.active /\ ~s.timer
  BY <1>1, Starts
<1>3. ASSUME NEW f \in FadeState, ~f.active, ~f.timer, fade' = f \/ fade' = Started(f)
      PROVE  /\ FadeType' /\ (fade'.active <=> fade'.timer) /\ fade'.saved = f.saved
             /\ fade'.type = f.type /\ fade'.info = f.info /\ fade'.vmg = f.vmg
  BY <1>1, <1>3, Starts DEF FadeType, FadeState, GammaState
<1>4. CASE fade' = Started(s)
  <2>1. /\ fade' \in FadeState /\ fade'.saved = fade.saved /\ fade'.info = fade.info
        /\ fade'.type = fade.type /\ fade'.vmg = fade.vmg
        /\ fade'.active <=> fade'.timer
    BY <1>2, <1>4, Starts
  <2> QED BY <1>1, <2>1, FlagsMove
\* nothing is kept: the screen is undimmed, or black from an unread ramp
<1>5. ASSUME fade.info = "none"
      PROVE  /\ gamma.number = Full
             /\ Blackened \/ \A c \in Crtcs : gamma.ramp[c] = Full
             /\ \A c \in Crtcs : fade.saved[c] = NoRamp
  BY <1>5 DEF FadeInv, FadeIsReversible, NumberKept
\* ramps are read
<1>6. ASSUME NEW f \in FadeState, ~f.active, ~f.timer, fade' = f \/ fade' = Started(f),
             fade.info = "none", f.info = "ramps", f.type = fade.type,
             fade.type \in {"xrandr", "gamma_ramp"},
             \A c \in Crtcs : f.saved[c] \in {NoRamp, gamma.ramp[c]}
      PROVE  FadeInv'
  <2>1. \A c \in Crtcs : gamma.ramp[c] = Full
    BY <1>5, <1>6 DEF Blackened
  <2>2. ~UnreadRamp' /\ ~NumberKept'
    BY <1>3, <1>6 DEF UnreadRamp, NumberKept
  <2> QED BY <1>1, <1>3, <1>5, <1>6, <2>1, <2>2 DEF FadeInv, FadeIsReversible
\* the gamma number is used, or there is no fade
<1>7. ASSUME NEW f \in FadeState, ~f.active, ~f.timer, fade' = f \/ fade' = Started(f),
             fade.info = "none", f.type \in {"gamma_number", "none"},
             \/ f.info = "number" /\ f.saved = fade.saved
             \/ f.info = "ramps" /\ \A c \in Crtcs : f.saved[c] = 0,
             f.type = "gamma_number" => f.vmg = gamma.number
      PROVE  FadeInv'
  <2>1. /\ fade'.saved = f.saved /\ fade'.type = f.type /\ fade'.info = f.info
        /\ fade'.vmg = f.vmg /\ FadeType' /\ (fade'.active <=> fade'.timer)
    BY <1>3, <1>7
  <2>2. Blackened => Blackened'
    BY <1>1, <1>7, <2>1 DEF Blackened
  <2>3. 0 # NoRamp
    BY DEF NoRamp
  <2>4. IF NumberKept' THEN fade'.vmg = Full ELSE gamma'.number = Full
    BY <1>1, <1>5, <1>7, <2>1 DEF NumberKept
  <2>5. /\ ~UnreadRamp' => \A c \in Crtcs : fade'.saved[c] = NoRamp
        /\ UnreadRamp' => \A c \in Crtcs : fade'.saved[c] = 0
        /\ fade'.info # "ramps" => \A c \in Crtcs : fade'.saved[c] = NoRamp
    BY <1>5, <1>7, <2>1 DEF UnreadRamp
  <2>6. Blackened' \/ \A c \in Crtcs : fade'.saved[c] = NoRamp => gamma'.ramp[c] = Full
    BY <1>1, <1>5, <1>7, <2>2
  <2> QED BY <2>1, <2>4, <2>5, <2>6 DEF FadeInv, FadeIsReversible
<1>8. ASSUME NEW S \in SUBSET Crtcs, NEW f, f = XrandrSetup(s, S), fade.info = "none",
             fade.type = "xrandr", fade' = f \/ fade' = Started(f)
      PROVE  FadeInv'
  <2> DEFINE r == [c \in Crtcs |-> IF c \in S THEN gamma.ramp[c] ELSE NoRamp]
  <2>1. /\ r \in [Crtcs -> {NoRamp} \cup 0..Full]
        /\ \A c \in Crtcs : r[c] \in {NoRamp, gamma.ramp[c]}
    BY <1>1 DEF GammaState
  <2>2. f = [s EXCEPT !.info = "ramps", !.saved = r]
    BY <1>8 DEF XrandrSetup
  <2> HIDE DEF r, s
  <2>3. /\ f \in FadeState /\ f.saved = r /\ f.info = "ramps" /\ f.type = s.type
        /\ ~f.active /\ ~f.timer
    BY <1>2, <2>1, <2>2 DEF FadeState, Infos
  <2> QED BY <1>2, <1>6, <1>8, <2>1, <2>3
<1>9. ASSUME NEW f \in GammaSetups(s), fade.info = "none",
             fade.type \in {"gamma_number", "gamma_ramp"}, fade' = f \/ fade' = Started(f)
      PROVE  FadeInv'
  <2> DEFINE z == Level(0)
             a1 == [s EXCEPT !.info = "number"]
             a2 == [s EXCEPT !.info = "ramps", !.saved = z]
             r == gamma.ramp
  <2>1. \/ \E a \in {a1, a2} : \/ f = [a EXCEPT !.type = "gamma_number", !.vmg = gamma.number]
                               \/ f = [a EXCEPT !.type = "none"]
        \/ fade.type = "gamma_ramp" /\ f = [s EXCEPT !.info = "ramps", !.saved = r]
    BY <1>2, <1>9 DEF GammaSetups
  <2>2. /\ z \in [Crtcs -> {NoRamp} \cup 0..Full] /\ \A c \in Crtcs : z[c] = 0
        /\ r \in [Crtcs -> {NoRamp} \cup 0..Full] /\ gamma.number \in 0..Full
    BY <1>1, Levels, FadeAssumption DEF GammaState
  <2> HIDE DEF s, z, r
  <2>3. \A a \in {a1, a2} :
          /\ a \in FadeState /\ ~a.active /\ ~a.timer
          /\ \/ a.info = "number" /\ a.saved = fade.saved
             \/ a.info = "ramps" /\ a.saved = z
    BY <1>2, <2>2 DEF FadeState, Infos
  <2> HIDE DEF a1, a2
  <2>4. CASE \E a \in {a1, a2} : \/ f = [a EXCEPT !.type = "gamma_number", !.vmg = gamma.number]
                                 \/ f = [a EXCEPT !.type = "none"]
    <3>1. PICK a \in {a1, a2} : \/ f = [a EXCEPT !.type = "gamma_number", !.vmg = gamma.number]
                                \/ f = [a EXCEPT !.type = "none"]
      BY <2>4
    <3>2. /\ f \in FadeState /\ ~f.active /\ ~f.timer /\ f.info = a.info /\ f.saved = a.saved
          /\ f.type \in {"gamma_number", "none"}
          /\ f.type = "gamma_number" => f.vmg = gamma.number
      BY <2>2, <2>3, <3>1 DEF FadeState, Types
    <3> QED BY <1>7, <1>9, <2>2, <2>3, <3>2
  <2>5. CASE fade.type = "gamma_ramp" /\ f = [s EXCEPT !.info = "ramps", !.saved = r]
    <3>1. /\ f \in FadeState /\ f.saved = r /\ f.info = "ramps" /\ f.type = s.type
          /\ ~f.active /\ ~f.timer
      BY <1>2, <2>2, <2>5 DEF FadeState, Infos
    <3>2. \A c \in Crtcs : f.saved[c] \in {NoRamp, gamma.ramp[c]}
      BY <3>1 DEF r
    <3>3. f.type = fade.type /\ fade.type \in {"xrandr", "gamma_ramp"}
      BY <1>2, <2>5, <3>1
    <3> HIDE DEF r
    <3> QED BY <1>6, <1>9, <3>1, <3>2, <3>3
  <2> QED BY <2>1, <2>4, <2>5
<1> QED
  <2>1. CASE fade' = Started(Stopped(fade))
    BY <1>4, <2>1
  <2>2. CASE /\ fade.info = "none" /\ fade.type = "xrandr"
             /\ \E S \in SUBSET Crtcs, ok \in BOOLEAN :
                  fade' = LET f == XrandrSetup(Stopped(fade), S)
                          IN IF ok THEN Started(f) ELSE f
    BY <1>8, <2>2
  <2>3. CASE /\ fade.info = "none" /\ fade.type \in {"gamma_number", "gamma_ramp"}
             /\ \E f \in GammaSetups(Stopped(fade)) :
                  fade' = IF f.type = "none" THEN f ELSE Started(f)
    BY <1>9, <2>3
  <2> QED BY <2>1, <2>2, <2>3 DEF gs_fade_async

\* What a level that is set makes of the gamma.
LEMMA AlphaKeeps ==
  ASSUME FadeInv, NEW f \in FadeState, f.type = fade.type, f.info = fade.info,
         f.vmg = fade.vmg, f.saved = fade.saved, gamma' = AlphaSet(f)
  PROVE  /\ gamma' \in GammaState
         /\ ~NumberKept => gamma'.number = Full
         /\ UnreadRamp /\ fade.type # "none" => \A c \in Crtcs : gamma'.ramp[c] = 0
         /\ \/ NumberKept
            \/ /\ fade.type \in {"gamma_number", "none"}
               /\ \A c \in Crtcs : gamma'.ramp[c] = 0
            \/ \A c \in Crtcs : fade.saved[c] = NoRamp => gamma'.ramp[c] = Full
         /\ f.alpha = Full /\ fade.type # "none" /\ fade.info # "none" /\ ~UnreadRamp =>
              gamma'.number = Full /\ \A c \in Crtcs : gamma'.ramp[c] = Full
<1>1. f.alpha \in 0..Full /\ gamma \in GammaState
  BY FadeTypes DEF FadeState, FadeInv
<1>2. fade.info \in Infos
  BY FadeTypes DEF FadeState, FadeInv
<1>3. CASE fade.type = "none" \/ fade.info = "none"
  <2>1. gamma' = gamma
    BY <1>3 DEF AlphaSet, Whacked
  <2> QED BY <1>1, <1>3, <2>1 DEF FadeInv, FadeIsReversible, Blackened, UnreadRamp
<1>4. CASE fade.type # "none" /\ fade.info # "none"
  <2>1. gamma' = Whacked(fade, f.alpha)
    BY <1>4 DEF AlphaSet, Whacked
  <2>2. CASE fade.info = "number"
    <3>1. NumberKept /\ ~UnreadRamp
      BY <1>4, <2>2 DEF NumberKept, UnreadRamp
    <3> QED BY <1>1, <2>1, <3>1, WhacksNumber, Levels
  <2>3. CASE fade.info = "ramps"
    <3>1. ~NumberKept /\ gamma.number = Full
      BY <2>3 DEF NumberKept, FadeInv, FadeIsReversible
    <3>2. /\ gamma' \in GammaState /\ gamma'.number = gamma.number
          /\ UnreadRamp => \A c \in Crtcs : gamma'.ramp[c] = 0
          /\ ~UnreadRamp => \A c \in Crtcs :
               gamma'.ramp[c] = IF fade.saved[c] = NoRamp THEN gamma.ramp[c] ELSE f.alpha
      BY <1>1, <2>1, <2>3, WhacksRamps
    <3>3. CASE UnreadRamp
      BY <3>1, <3>2, <3>3 DEF UnreadRamp
    <3>4. CASE ~UnreadRamp
      <4>1. fade.type \notin {"gamma_number", "none"}
        BY <2>3, <3>4 DEF UnreadRamp
      <4>2. \A c \in Crtcs : fade.saved[c] = NoRamp => gamma.ramp[c] = Full
        BY <3>1, <4>1 DEF FadeInv, FadeIsReversible, Blackened
      <4> QED BY <3>1, <3>2, <3>4, <4>2
    <3> QED BY <3>3, <3>4
  <2> QED BY <1>2, <1>4, <2>2, <2>3 DEF Infos
<1> QED BY <1>3, <1>4

\* fade_out_timer: one more step of the fade, or its end.
LEMMA TimerKeeps ==
  ASSUME FadeInv, fade_out_timer
  PROVE  FadeInv'
<1>1. fade \in FadeState /\ gamma \in GammaState /\ fade.timer
  BY FadeTypes DEF FadeInv, fade_out_timer
<1>2. CASE fade.alpha = 0
  <2>1. fade' = Stopped(fade) /\ gamma' = gamma
    BY <1>2 DEF fade_out_timer
  <2> QED BY <1>1, <2>1, Starts, FlagsMove
<1>3. CASE fade.alpha # 0
  <2> DEFINE a == fade.alpha - 1
  <2>1. a \in 0..Full
    BY <1>1, <1>3, FadeAssumption DEF FadeState
  <2>2. fade' = [fade EXCEPT !.alpha = a] /\ gamma' = AlphaSet(fade')
    BY <1>3 DEF fade_out_timer
  <2> HIDE DEF a
  <2>3. /\ fade' \in FadeState /\ fade'.saved = fade.saved /\ fade'.type = fade.type
        /\ fade'.info = fade.info /\ fade'.vmg = fade.vmg
        /\ fade'.active = fade.active /\ fade'.timer = fade.timer
    BY <1>1, <2>1, <2>2 DEF FadeState
  <2>4. (NumberKept' <=> NumberKept) /\ (UnreadRamp' <=> UnreadRamp)
    BY <2>3 DEF NumberKept, UnreadRamp
  <2>5. /\ gamma' \in GammaState
        /\ ~NumberKept => gamma'.number = Full
        /\ \/ NumberKept
           \/ /\ fade.type \in {"gamma_number", "none"}
              /\ \A c \in Crtcs : gamma'.ramp[c] = 0
           \/ \A c \in Crtcs : fade.saved[c] = NoRamp => gamma'.ramp[c] = Full
    BY <2>2, <2>3, AlphaKeeps
  <2>6. \/ NumberKept' \/ Blackened'
        \/ \A c \in Crtcs : fade'.saved[c] = NoRamp => gamma'.ramp[c] = Full
    BY <2>3, <2>4, <2>5 DEF Blackened
  <2>7. FadeType'
    BY <2>3, <2>5 DEF FadeType, FadeState, GammaState
  <2> QED BY <2>3, <2>4, <2>5, <2>6, <2>7 DEF FadeInv, FadeIsReversible
<1> QED BY <1>2, <1>3

\* gs_fade_reset: the screen is as it was before the fade, or black.
LEMMA ResetKeeps ==
  ASSUME FadeInv, gs_fade_reset
  PROVE  FadeInv'
<1> DEFINE f == [Stopped(fade) EXCEPT !.alpha = Full]
<1>1. fade \in FadeState /\ gamma \in GammaState /\ Full \in 0..Full
  BY FadeTypes, FadeAssumption DEF FadeInv
<1>2. /\ f \in FadeState /\ f.saved = fade.saved /\ f.alpha = Full /\ f.info = fade.info
      /\ f.type = fade.type /\ f.vmg = fade.vmg /\ ~f.active /\ ~f.timer
  BY <1>1, Starts DEF FadeState
<1>3. /\ gamma' = AlphaSet(f)
      /\ fade' = IF f.type = "none" THEN f
                 ELSE [f EXCEPT !.info = "none", !.saved = NoRamps]
  BY DEF gs_fade_reset
<1> HIDE DEF f
<1>4. CASE f.type = "none"
  BY <1>2, <1>3, <1>4, FlagsMove DEF AlphaSet
<1>5. CASE f.type # "none"
  <2>1. NoRamps \in [Crtcs -> {NoRamp} \cup 0..Full] /\ \A c \in Crtcs : NoRamps[c] = NoRamp
    BY DEF NoRamps
  <2>2. /\ fade' \in FadeState /\ fade'.saved = NoRamps /\ fade'.info = "none"
        /\ fade'.type = fade.type /\ ~fade'.active /\ ~fade'.timer
    BY <1>2, <1>3, <1>5, <2>1 DEF FadeState, Infos
  <2>3. ~NumberKept' /\ ~UnreadRamp'
    BY <2>2 DEF NumberKept, UnreadRamp
  <2>4. gamma' \in GammaState /\ gamma'.number = Full
        /\ (Blackened' \/ \A c \in Crtcs : gamma'.ramp[c] = Full)
    <3>1. CASE fade.info = "none"
      <4>1. gamma' = gamma
        BY <1>2, <1>3, <3>1 DEF AlphaSet, Whacked
      <4>2. gamma.number = Full /\ (Blackened \/ \A c \in Crtcs : gamma.ramp[c] = Full)
        BY <3>1 DEF FadeInv, FadeIsReversible, NumberKept
      <4> QED BY <1>1, <2>2, <4>1, <4>2 DEF Blackened
    <3>2. CASE UnreadRamp
      <4>1. /\ gamma' \in GammaState /\ gamma'.number = Full
            /\ \A c \in Crtcs : gamma'.ramp[c] = 0
        BY <1>2, <1>3, <1>5, <3>2, AlphaKeeps DEF UnreadRamp, NumberKept
      <4> QED BY <2>2, <3>2, <4>1 DEF Blackened, UnreadRamp
    <3>3. CASE fade.info # "none" /\ ~UnreadRamp
      BY <1>2, <1>3, <1>5, <3>3, AlphaKeeps
    <3> QED BY <3>1, <3>2, <3>3
  <2>5. FadeType'
    BY <2>2, <2>4 DEF FadeType, FadeState, GammaState
  <2> QED BY <2>1, <2>2, <2>3, <2>4, <2>5 DEF FadeInv, FadeIsReversible
<1> QED BY <1>4, <1>5

\* Every step of the devices fades, resets the fade or leaves it alone.
LEMMA FadeInvStep == FadeInv /\ [DevicesNext]_devicesVars => FadeInv'
<1> SUFFICES ASSUME FadeInv, [DevicesNext]_devicesVars PROVE FadeInv'
  OBVIOUS
<1>1. gs_fade_async \/ fade_out_timer \/ gs_fade_reset \/ UNCHANGED <<fade, gamma>>
  BY DEF DevicesNext, devicesVars, GrabStep, FadeStep, Continue, Handler, OtherStep,
         idle_notice, idle_notice_grabbed, idle_notice_ends, release_grab_timeout,
         gs_manager_activate, gs_manager_activated, window_map_event_cb, move_returns,
         unfade_idle, handle_window_dialog_up, handle_window_dialog_down, dialog_is_down,
         gs_manager_deactivate, gs_manager_destroy_windows, on_display_monitor_removed,
         monitor_is_removed, on_display_monitor_added, window_grab_broken_cb, other_grabs,
         other_releases
<1>2. CASE UNCHANGED <<fade, gamma>>
  BY <1>2 DEF FadeInv, FadeType, FadeIsReversible, NumberKept, UnreadRamp, Blackened
<1> QED BY <1>1, <1>2, AsyncKeeps, TimerKeeps, ResetKeeps

-----------------------------------------------------------------------------
(* The record of the grab *)

\* What the operations of GSGrab make of the server.
LEMMA SeizedRecord ==
  ASSUME NEW s \in ServerState, NEW w \in Ours, NEW no_pointer \in BOOLEAN
  PROVE  /\ Seized(s, w, no_pointer) \in ServerState
         /\ Seized(s, w, no_pointer).grabbed = s.grabbed
         /\ Seized(s, w, no_pointer).keyboard = w
         /\ RecordOf(Recorded(w, no_pointer), Seized(s, w, no_pointer))
         /\ Recorded(w, no_pointer) \in GrabState
         /\ Recorded(w, no_pointer).window = w
<1> DEFINE p == IF ~no_pointer THEN w ELSE IF s.pointer = Other THEN Other ELSE None
<1>1. p \in {w, None, Other} /\ p \in Holders /\ w \in Holders
  BY DEF Holders
<1>2. Seized(s, w, no_pointer) = [s EXCEPT !.keyboard = w, !.pointer = p]
  BY DEF Seized, ServerState
<1> HIDE DEF p
<1>3. /\ Seized(s, w, no_pointer) \in ServerState
      /\ Seized(s, w, no_pointer).grabbed = s.grabbed
      /\ Seized(s, w, no_pointer).keyboard = w
      /\ Seized(s, w, no_pointer).pointer = p
  BY <1>1, <1>2 DEF ServerState
<1>4. /\ Recorded(w, no_pointer) \in GrabState
      /\ Recorded(w, no_pointer).window = w
  BY DEF Recorded, GrabState
<1> QED BY <1>1, <1>3, <1>4 DEF RecordOf

LEMMA FailedServer ==
  ASSUME NEW s \in ServerState, NEW no_pointer \in BOOLEAN
  PROVE  /\ SeizeFailed(s, no_pointer) \in ServerState
         /\ SeizeFailed(s, no_pointer).grabbed = s.grabbed
         /\ SeizeFailed(s, no_pointer).keyboard = s.keyboard
         /\ SeizeFailed(s, no_pointer).pointer \in {s.pointer, None}
         /\ s.pointer = Other => SeizeFailed(s, no_pointer).pointer = Other
         /\ no_pointer => SeizeFailed(s, no_pointer).pointer = s.pointer
BY DEF SeizeFailed, ServerState, Holders

LEMMA UngrabbedServer ==
  ASSUME NEW s \in ServerState
  PROVE  /\ Ungrabbed(s) \in ServerState /\ Ungrabbed(s).grabbed = s.grabbed
         /\ Ungrabbed(s).keyboard = Other <=> s.keyboard = Other
         /\ Ungrabbed(s).pointer = Other <=> s.pointer = Other
BY GrabAssumption DEF Ungrabbed, ServerState, Holders

LEMMA CountedServer ==
  ASSUME NEW s \in ServerState
  PROVE  /\ ServerGrabbed(s) \in ServerState /\ ServerUngrabbed(s) \in ServerState
         /\ ServerGrabbed(s).grabbed = s.grabbed + 1
         /\ ServerUngrabbed(s).grabbed = s.grabbed - 1
         /\ ServerGrabbed(s).keyboard = s.keyboard /\ ServerGrabbed(s).pointer = s.pointer
         /\ ServerUngrabbed(s).keyboard = s.keyboard
         /\ ServerUngrabbed(s).pointer = s.pointer
BY DEF ServerGrabbed, ServerUngrabbed, ServerState

\* Windows that are destroyed take their grab and its record with them.
LEMMA LostRecord ==
  ASSUME NEW s \in ServerState, NEW g \in GrabState,
         NEW W \in SUBSET Windows, RecordOf(g, s)
  PROVE  /\ LostWith(s, W) \in ServerState /\ LostWith(s, W).grabbed = s.grabbed
         /\ GrabLost(g, W) \in GrabState
         /\ RecordOf(GrabLost(g, W), LostWith(s, W))
         /\ GrabLost(g, W).window \in {None, g.window} \ W
         /\ LostWith(s, W).keyboard # s.keyboard => s.keyboard \in W
<1> DEFINE t == LostWith(s, W)
<1>1. /\ t \in ServerState /\ t.grabbed = s.grabbed
      /\ t.keyboard = IF s.keyboard \in W THEN None ELSE s.keyboard
      /\ t.pointer = IF s.pointer \in W THEN None ELSE s.pointer
  BY DEF LostWith, ServerState, Holders
<1>2. /\ GrabLost(g, W) \in GrabState
      /\ GrabLost(g, W).window = IF g.window \in W THEN None ELSE g.window
  BY DEF GrabLost, Reset, GrabState
<1>3. None \notin W /\ Other \notin W
  BY GrabAssumption
<1> HIDE DEF t
<1>4. RecordOf(GrabLost(g, W), t)
  <2> SUFFICES ASSUME GrabLost(g, W).window # None
               PROVE  RecordOf(GrabLost(g, W), t)
    BY DEF RecordOf
  <2>1. GrabLost(g, W).window = g.window /\ g.window \notin W
    BY <1>2
  <2>2. t.keyboard \in {s.keyboard, None} /\ t.pointer \in {s.pointer, None}
        /\ (s.keyboard = g.window => t.keyboard = g.window)
        /\ (s.pointer = g.window => t.pointer = g.window)
    BY <1>1, <2>1
  <2> QED BY <2>1, <2>2 DEF RecordOf
<1> QED BY <1>1, <1>2, <1>3, <1>4 DEF t

-----------------------------------------------------------------------------
(* The steps *)

\* No call, and the calls that a handler makes.
LEMMA Calls ==
  /\ NoCall \in CallState /\ NoCall.op = "none" /\ NoCall.then = "nothing"
  /\ \A w \in Ours, then \in Thens, no_pointer \in BOOLEAN :
       /\ CallGrabWindow(w, no_pointer, then) \in CallState
       /\ CallGrabWindow(w, no_pointer, then).op = "window"
       /\ CallGrabWindow(w, no_pointer, then).i = 0
       /\ CallGrabWindow(w, no_pointer, then).window = w
       /\ CallGrabWindow(w, no_pointer, then).then = then
       /\ CallMoveToWindow(w, no_pointer, then) \in CallState
       /\ CallMoveToWindow(w, no_pointer, then).op = "move"
       /\ CallMoveToWindow(w, no_pointer, then).window = w
       /\ CallMoveToWindow(w, no_pointer, then).then = then
<1>1. 0 \in 0..Retries /\ "nothing" \in Thens
  BY GrabAssumption DEF Thens
<1>2. NoCall \in CallState /\ NoCall.op = "none" /\ NoCall.then = "nothing"
  BY <1>1 DEF NoCall, CallState
<1> SUFFICES ASSUME NEW w \in Ours, NEW then \in Thens, NEW no_pointer \in BOOLEAN
             PROVE  /\ CallGrabWindow(w, no_pointer, then) \in CallState
                    /\ CallGrabWindow(w, no_pointer, then).op = "window"
                    /\ CallGrabWindow(w, no_pointer, then).i = 0
                    /\ CallGrabWindow(w, no_pointer, then).window = w
                    /\ CallGrabWindow(w, no_pointer, then).then = then
                    /\ CallMoveToWindow(w, no_pointer, then) \in CallState
                    /\ CallMoveToWindow(w, no_pointer, then).op = "move"
                    /\ CallMoveToWindow(w, no_pointer, then).window = w
                    /\ CallMoveToWindow(w, no_pointer, then).then = then
  BY <1>2
<1> DEFINE c == CallGrabWindow(w, no_pointer, then)
<1>3. /\ c \in CallState /\ c.op = "window" /\ c.i = 0 /\ c.window = w /\ c.then = then
  BY <1>1 DEF CallGrabWindow, NoCall, CallState
<1>4. CallMoveToWindow(w, no_pointer, then) = [c EXCEPT !.op = "move"]
  BY DEF CallMoveToWindow
<1> HIDE DEF c
<1>5. /\ [c EXCEPT !.op = "move"] \in CallState /\ [c EXCEPT !.op = "move"].op = "move"
      /\ [c EXCEPT !.op = "move"].window = w /\ [c EXCEPT !.op = "move"].then = then
  BY <1>3 DEF CallState
<1> QED BY <1>3, <1>4, <1>5 DEF c

LEMMA DevicesStart == DevicesInit => DevicesInv
<1> SUFFICES ASSUME DevicesInit PROVE DevicesInv
  OBVIOUS
<1>1. /\ grab = NoGrab /\ call = NoCall /\ screen = NoScreen /\ others = 0
      /\ server = [keyboard |-> None, pointer |-> None, grabbed |-> 0]
  BY DEF DevicesInit, GrabInit
<1>2. grab \in GrabState /\ grab.window = None
  BY <1>1 DEF NoGrab, GrabState
<1>3. server \in ServerState /\ server.grabbed = 0
  BY <1>1 DEF ServerState, Holders
<1>4. call \in CallState /\ call.op = "none" /\ call.then = "nothing"
  BY <1>1, Calls
<1>5. /\ screen \in ScreenState /\ screen.windows = {} /\ screen.unmapped = {}
      /\ screen.dialog = None
  BY <1>1 DEF NoScreen, ScreenState
<1>6. others \in 0..MaxOtherGrabs
  BY <1>1, OthersAssumption
<1> QED BY <1>1, <1>2, <1>3, <1>4, <1>5, <1>6
        DEF DevicesInv, RecordOf, Depth, ScreenOrder, CallOrder, IdleGrab

\* Between the calls the server is not grabbed.
LEMMA Idle ==
  ASSUME DevicesInv, Dispatching
  PROVE  /\ call = NoCall /\ call.op = "none" /\ call.then = "nothing"
         /\ Depth(call) = 0 /\ server.grabbed = 0
BY Calls DEF DevicesInv, CallOrder, Dispatching, Depth

\* A handler that has done its work without a call: the server and the
\* record may have lost the grab.
LEMMA HandlerKeeps ==
  ASSUME DevicesInv, Dispatching, call' = call, others' = others,
         screen' \in ScreenState, ScreenOrder',
         grab' \in GrabState, server' \in ServerState, server'.grabbed = server.grabbed,
         RecordOf(grab', server'), IdleGrab'
  PROVE  DevicesInv'
<1>1. call = NoCall /\ call.op = "none" /\ call.then = "nothing"
  BY Idle
<1>2. CallOrder'
  BY <1>1 DEF CallOrder
<1> QED BY <1>1, <1>2 DEF DevicesInv

\* A handler that calls gs_grab_move_to_window.
LEMMA MoveBegins ==
  ASSUME DevicesInv, Dispatching, NEW w \in Windows, NEW no_pointer \in BOOLEAN,
         NEW then \in {"nothing", "down", "destroy", "unplug"},
         call' = CallMoveToWindow(w, no_pointer, then), others' = others,
         screen' \in ScreenState, ScreenOrder', w \in screen'.windows,
         grab' \in GrabState, server' \in ServerState,
         server'.grabbed = IF then = "unplug" THEN 1 ELSE 0,
         RecordOf(grab', server'), IdleGrab',
         then = "destroy" => grab'.window = None
  PROVE  DevicesInv'
<1>1. w \in Ours /\ then \in Thens
  BY DEF Ours, Thens
<1>2. call' \in CallState /\ call'.op = "move" /\ call'.window = w /\ call'.then = then
  BY <1>1, Calls
<1>3. CallOrder'
  BY <1>1, <1>2 DEF CallOrder
<1>4. server'.grabbed = Depth(call')
  BY <1>2 DEF Depth
<1> QED BY <1>2, <1>3, <1>4 DEF DevicesInv

\* A handler that goes on after its call and ends.
LEMMA ContinueKeeps ==
  ASSUME DevicesInv, call.op = "done", call' = NoCall, others' = others,
         screen' \in ScreenState, ScreenOrder',
         grab' \in GrabState, server' \in ServerState, server'.grabbed = 0,
         RecordOf(grab', server'), IdleGrab'
  PROVE  DevicesInv'
<1>1. call' \in CallState /\ call'.op = "none" /\ call'.then = "nothing"
  BY Calls
<1> QED BY <1>1 DEF DevicesInv, CallOrder, Depth

\* What Done makes of the call.
LEMMA CallDone ==
  ASSUME call \in CallState, NEW r \in BOOLEAN
  PROVE  /\ Done(r) \in CallState /\ Done(r).op = "done" /\ Done(r).window = call.window
         /\ Done(r).then = call.then
<1>1. 0 \in 0..Retries
  BY GrabAssumption
<1> QED BY <1>1 DEF Done, CallState

\* A round of a call that leaves the devices seized, or as they were.
LEMMA CallKeeps ==
  ASSUME DevicesInv, UNCHANGED <<screen, others>>,
         call' \in CallState, call'.window = call.window, call'.then = call.then,
         call'.op \in {"window", "move", "retry", "done"}, call.op # "none",
         call'.op = "window" => call'.i < Retries /\ call.op = "window",
         call'.op # "done" => call.window \in Ours,
         call'.op = "retry" => grab'.window = None,
         grab' \in GrabState, grab'.window \in {grab.window, None, call.window},
         server' \in ServerState, server'.grabbed = Depth(call'),
         RecordOf(grab', server'),
         grab'.window # None => server'.keyboard = grab'.window \/ screen.active
  PROVE  DevicesInv'
<1>1. CallOrder'
  BY DEF DevicesInv, CallOrder
<1>2. ScreenOrder' /\ IdleGrab'
  BY DEF DevicesInv, ScreenOrder, IdleGrab
<1> QED BY <1>1, <1>2 DEF DevicesInv

\* gs_grab_grab_window: who has the keyboard is refused the pointer only.
LEMMA GrabWindowKeeps ==
  ASSUME DevicesInv, gs_grab_grab_window, UNCHANGED <<screen, others>>
  PROVE  DevicesInv'
<1>1. /\ call \in CallState /\ call.op = "window" /\ call.window \in Ours
      /\ call.i < Retries /\ call.then \in {"fade", "activate"} /\ ~screen.active
      /\ call.no_pointer \in BOOLEAN /\ grab \in GrabState /\ server \in ServerState
      /\ RecordOf(grab, server) /\ server.grabbed = 0 /\ screen.active \in BOOLEAN
  BY DEF gs_grab_grab_window, DevicesInv, CallOrder, CallState, Depth, ScreenState
<1> DEFINE np == call.no_pointer
<1>2. CASE CanGrab(server, np)
  <2>1. /\ server' = Seized(server, call.window, np)
        /\ grab' = Recorded(call.window, np) /\ call' = Done(TRUE)
    BY <1>2 DEF gs_grab_grab_window
  <2>2. /\ call' \in CallState /\ call'.op = "done" /\ call'.window = call.window
        /\ call'.then = call.then
    BY <1>1, <2>1, CallDone
  <2>3. /\ server' \in ServerState /\ server'.grabbed = 0
        /\ server'.keyboard = call.window /\ RecordOf(grab', server')
        /\ grab' \in GrabState /\ grab'.window = call.window
    BY <1>1, <2>1, SeizedRecord
  <2>4. Depth(call') = 0
    BY <1>1, <2>2 DEF Depth
  <2> QED BY <1>1, <2>2, <2>3, <2>4, CallKeeps
<1>3. CASE ~CanGrab(server, np)
  <2>1. /\ server' = SeizeFailed(server, np) /\ grab' = grab
        /\ call' = IF call.i + 1 = Retries THEN Done(FALSE) ELSE [call EXCEPT !.i = @ + 1]
    BY <1>3 DEF gs_grab_grab_window
  <2>2. /\ call' \in CallState /\ call'.op \in {"window", "done"}
        /\ call'.window = call.window /\ call'.then = call.then
        /\ call'.op = "window" => call'.i < Retries
    <3>1. CASE call.i + 1 = Retries
      BY <1>1, <2>1, <3>1, CallDone
    <3>2. CASE call.i + 1 # Retries
      <4>1. call.i + 1 \in 0..Retries /\ call.i + 1 < Retries
        BY <1>1, <3>2, GrabAssumption DEF CallState
      <4>2. call' = [call EXCEPT !.i = call.i + 1]
        BY <2>1, <3>2
      <4> QED BY <1>1, <4>1, <4>2 DEF CallState
    <3> QED BY <3>1, <3>2
  <2>3. /\ server' \in ServerState /\ server'.grabbed = 0
        /\ server'.keyboard = server.keyboard
        /\ server.pointer = Other => server'.pointer = Other
    BY <1>1, <2>1, FailedServer
  <2>4. grab.window # None => server.keyboard = grab.window /\ server.pointer = Other
    BY <1>1, <1>3, GrabAssumption
    DEF DevicesInv, IdleGrab, CanGrab, GrabState, Ours
  <2>5. RecordOf(grab', server')
    BY <2>1, <2>3, <2>4 DEF RecordOf
  <2>6. Depth(call') = 0
    BY <1>1, <2>2 DEF Depth
  <2> QED BY <1>1, <2>1, <2>2, <2>3, <2>4, <2>5, <2>6, CallKeeps
<1> QED BY <1>2, <1>3

\* gs_grab_move up to its sleep.
LEMMA MoveKeeps ==
  ASSUME DevicesInv, gs_grab_move, UNCHANGED <<screen, others>>
  PROVE  DevicesInv'
<1> DEFINE s == IF grab.window = None THEN ServerGrabbed(server)
                                      ELSE ServerGrabbed(Ungrabbed(server))
           np == call.no_pointer
<1>1. /\ call \in CallState /\ call.op = "move" /\ call.window \in Ours
      /\ np \in BOOLEAN /\ grab \in GrabState /\ server \in ServerState
      /\ RecordOf(grab, server) /\ server.grabbed = Depth(call) /\ Depth(call) \in 0..1
  BY DEF gs_grab_move, DevicesInv, CallOrder, CallState, Depth
<1>2. s \in ServerState /\ s.grabbed = Depth(call) + 1
  BY <1>1, UngrabbedServer, CountedServer
<1>3. \/ call' = Done(TRUE) /\ UNCHANGED <<server, grab>>
      \/ /\ server' = ServerUngrabbed(Seized(s, call.window, np))
         /\ grab' = Recorded(call.window, np) /\ call' = Done(TRUE)
      \/ /\ server' = SeizeFailed(s, np) /\ grab' = Reset(grab)
         /\ call' = [call EXCEPT !.op = "retry", !.old = grab.window]
  BY DEF gs_grab_move
<1> HIDE DEF s
<1>4. ASSUME call' = Done(TRUE)
      PROVE  /\ call' \in CallState /\ call'.op = "done" /\ call'.window = call.window
             /\ call'.then = call.then /\ Depth(call') = Depth(call)
  <2>1. /\ call' \in CallState /\ call'.op = "done" /\ call'.window = call.window
        /\ call'.then = call.then
    BY <1>1, <1>4, CallDone
  <2> QED BY <1>1, <2>1 DEF Depth
<1>5. CASE call' = Done(TRUE) /\ UNCHANGED <<server, grab>>
  <2>1. grab.window # None => server.keyboard = grab.window \/ screen.active
    BY DEF DevicesInv, IdleGrab
  <2> QED BY <1>1, <1>4, <1>5, <2>1, CallKeeps
<1>6. CASE /\ server' = ServerUngrabbed(Seized(s, call.window, np))
           /\ grab' = Recorded(call.window, np) /\ call' = Done(TRUE)
  <2> DEFINE t == Seized(s, call.window, np)
  <2>1. /\ t \in ServerState /\ t.grabbed = Depth(call) + 1 /\ t.keyboard = call.window
        /\ RecordOf(grab', t) /\ grab' \in GrabState /\ grab'.window = call.window
    BY <1>1, <1>2, <1>6, SeizedRecord
  <2>2. server' = ServerUngrabbed(t)
    BY <1>6
  <2> HIDE DEF t
  <2>3. /\ server' \in ServerState /\ server'.grabbed = Depth(call)
        /\ server'.keyboard = t.keyboard /\ server'.pointer = t.pointer
    BY <1>1, <2>1, <2>2, CountedServer
  <2>4. RecordOf(grab', server')
    BY <2>1, <2>3 DEF RecordOf
  <2> QED BY <1>1, <1>4, <1>6, <2>1, <2>3, <2>4, CallKeeps
<1>7. CASE /\ server' = SeizeFailed(s, np) /\ grab' = Reset(grab)
           /\ call' = [call EXCEPT !.op = "retry", !.old = grab.window]
  <2>1. server' \in ServerState /\ server'.grabbed = Depth(call) + 1
    BY <1>1, <1>2, <1>7, FailedServer
  <2>2. grab' \in GrabState /\ grab'.window = None
    BY <1>1, <1>7 DEF Reset, GrabState
  <2>3. /\ call' \in CallState /\ call'.op = "retry" /\ call'.window = call.window
        /\ call'.then = call.then
    BY <1>1, <1>7 DEF CallState, GrabState
  <2>4. Depth(call') = Depth(call) + 1
    BY <1>1, <2>3 DEF Depth
  <2> QED BY <1>1, <2>1, <2>2, <2>3, <2>4, CallKeeps DEF RecordOf
<1> QED BY <1>3, <1>5, <1>6, <1>7

\* gs_grab_move after its sleep: the old grab is not resumed when the new
\* one is refused.
LEMMA RetryKeeps ==
  ASSUME DevicesInv, gs_grab_move_retry, UNCHANGED <<screen, others>>
  PROVE  DevicesInv'
<1> DEFINE np == call.no_pointer
<1>1. /\ call \in CallState /\ call.op = "retry" /\ call.window \in Ours
      /\ np \in BOOLEAN /\ grab \in GrabState /\ server \in ServerState
      /\ RecordOf(grab, server) /\ server.grabbed = Depth(call) /\ Depth(call) \in 1..2
  BY DEF gs_grab_move_retry, DevicesInv, CallOrder, CallState, Depth
<1>2. CASE CanGrab(server, np)
  <2> DEFINE t == Seized(server, call.window, np)
  <2>1. /\ server' = ServerUngrabbed(t) /\ grab' = Recorded(call.window, np)
        /\ call' = Done(TRUE)
    BY <1>2 DEF gs_grab_move_retry
  <2>2. /\ t \in ServerState /\ t.grabbed = Depth(call) /\ t.keyboard = call.window
        /\ RecordOf(grab', t) /\ grab' \in GrabState /\ grab'.window = call.window
    BY <1>1, <2>1, SeizedRecord
  <2> HIDE DEF t
  <2>3. /\ server' \in ServerState /\ server'.grabbed = Depth(call) - 1
        /\ server'.keyboard = t.keyboard /\ server'.pointer = t.pointer
    BY <1>1, <2>1, <2>2, CountedServer
  <2>4. RecordOf(grab', server')
    BY <2>2, <2>3 DEF RecordOf
  <2>5. /\ call' \in CallState /\ call'.op = "done" /\ call'.window = call.window
        /\ call'.then = call.then
    BY <1>1, <2>1, CallDone
  <2>6. Depth(call') = Depth(call) - 1
    BY <1>1, <2>5 DEF Depth
  <2> QED BY <1>1, <2>2, <2>3, <2>4, <2>5, <2>6, CallKeeps
<1>3. CASE ~CanGrab(server, np)
  <2> DEFINE t == SeizeFailed(server, np)
  <2>1. /\ server' = ServerUngrabbed(t) /\ grab' = grab
        /\ call' = [call EXCEPT !.op = "move", !.old = None]
    BY <1>3 DEF gs_grab_move_retry
  <2>2. /\ t \in ServerState /\ t.grabbed = Depth(call) /\ t.keyboard = server.keyboard
        /\ server.pointer = Other => t.pointer = Other
        /\ np => t.pointer = server.pointer
        /\ t.pointer \in {server.pointer, None}
    BY <1>1, FailedServer
  <2> HIDE DEF t
  <2>3. /\ server' \in ServerState /\ server'.grabbed = Depth(call) - 1
        /\ server'.keyboard = t.keyboard /\ server'.pointer = t.pointer
    BY <1>1, <2>1, <2>2, CountedServer
  <2>4. /\ call' \in CallState /\ call'.op = "move" /\ call'.window = call.window
        /\ call'.then = call.then
    BY <1>1, <2>1 DEF CallState
  <2>5. Depth(call') = Depth(call) - 1
    BY <1>1, <2>4 DEF Depth
  <2>6. grab.window = None
    BY <1>1 DEF DevicesInv, CallOrder
  <2> QED BY <1>1, <2>1, <2>3, <2>4, <2>5, <2>6, CallKeeps DEF RecordOf
<1> QED BY <1>2, <1>3

\* What a handler does once its call has returned.
LEMMA ReturnsKeep ==
  ASSUME DevicesInv, Continue
  PROVE  DevicesInv'
<1>1. /\ grab \in GrabState /\ server \in ServerState /\ call \in CallState
      /\ screen \in ScreenState /\ ScreenOrder /\ IdleGrab
      /\ RecordOf(grab, server) /\ server.grabbed = Depth(call)
      /\ screen.active \in BOOLEAN /\ screen.windows \in SUBSET Windows
  BY DEF DevicesInv, ScreenState
<1>2. ASSUME call.op = "done", call.then # "unplug" PROVE server.grabbed = 0
  BY <1>1, <1>2 DEF Depth
<1>3. CASE idle_notice_grabbed \/ move_returns
  <2>1. /\ call.op = "done" /\ call.then # "unplug" /\ call' = NoCall
        /\ UNCHANGED <<grab, server, screen, others>>
    BY <1>3 DEF idle_notice_grabbed, move_returns, Returned
  <2>2. ScreenOrder' /\ IdleGrab' /\ RecordOf(grab', server')
    BY <1>1, <2>1 DEF ScreenOrder, IdleGrab, RecordOf
  <2> QED BY <1>1, <1>2, <2>1, <2>2, ContinueKeeps
<1>4. CASE dialog_is_down
  <2>1. /\ call.op = "done" /\ call.then # "unplug" /\ call' = NoCall
        /\ screen' = [screen EXCEPT !.dialog = None]
        /\ UNCHANGED <<grab, server, others>>
    BY <1>4 DEF dialog_is_down, Returned
  <2>2. /\ screen' \in ScreenState /\ screen'.active = screen.active
        /\ screen'.windows = screen.windows /\ screen'.unmapped = screen.unmapped
        /\ screen'.dialog = None
    BY <1>1, <2>1 DEF ScreenState
  <2>3. ScreenOrder' /\ IdleGrab' /\ RecordOf(grab', server')
    BY <1>1, <2>1, <2>2 DEF ScreenOrder, IdleGrab, RecordOf
  <2> QED BY <1>1, <1>2, <2>1, <2>2, <2>3, ContinueKeeps
<1>5. ASSUME NEW W \in (SUBSET Windows) \ {{}}, gs_manager_activated(W) PROVE DevicesInv'
  <2>1. /\ call.op = "done" /\ call.then # "unplug" /\ call.then = "activate"
        /\ call' = NoCall /\ UNCHANGED <<grab, server, others>>
        /\ screen' = screen \/ screen' = [screen EXCEPT !.active = TRUE, !.windows = W,
                                                        !.unmapped = W, !.unfade = TRUE]
    BY <1>5 DEF gs_manager_activated, Returned
  <2>2. screen.windows = {} /\ screen.dialog = None
    BY <1>1, <2>1 DEF DevicesInv, CallOrder, ScreenOrder
  <2>3. CASE screen' = screen
    <3>1. ScreenOrder' /\ IdleGrab' /\ RecordOf(grab', server')
      BY <1>1, <2>1, <2>3 DEF ScreenOrder, IdleGrab, RecordOf
    <3> QED BY <1>1, <1>2, <2>1, <2>3, <3>1, ContinueKeeps
  <2>4. CASE screen' = [screen EXCEPT !.active = TRUE, !.windows = W,
                                      !.unmapped = W, !.unfade = TRUE]
    <3>1. /\ screen' \in ScreenState /\ screen'.active /\ screen'.windows = W
          /\ screen'.unmapped = W /\ screen'.dialog = None
      BY <1>1, <2>2, <2>4 DEF ScreenState
    <3>2. ScreenOrder' /\ IdleGrab' /\ RecordOf(grab', server')
      BY <1>1, <2>1, <3>1 DEF ScreenOrder, IdleGrab, RecordOf
    <3> QED BY <1>1, <1>2, <2>1, <3>1, <3>2, ContinueKeeps
  <2> QED BY <2>1, <2>3, <2>4
<1>6. CASE gs_manager_destroy_windows
  <2>1. /\ call.op = "done" /\ call.then = "destroy" /\ call' = NoCall /\ others' = others
        /\ server' = LostWith(server, screen.windows)
        /\ grab' = GrabLost(grab, screen.windows)
        /\ screen' = [NoScreen EXCEPT !.release_timer = screen.release_timer]
    BY <1>6 DEF gs_manager_destroy_windows, Returned
  <2>2. /\ screen' \in ScreenState /\ screen'.windows = {} /\ screen'.unmapped = {}
        /\ screen'.dialog = None
    <3>1. screen.release_timer \in BOOLEAN
      BY <1>1 DEF ScreenState
    <3> QED BY <2>1, <3>1 DEF NoScreen, ScreenState
  <2>3. /\ server' \in ServerState /\ server'.grabbed = server.grabbed
        /\ grab' \in GrabState /\ RecordOf(grab', server')
        /\ grab'.window \in {None, grab.window} \ screen.windows
    BY <1>1, <2>1, LostRecord
  <2>4. grab'.window = None
    BY <2>1, <2>3 DEF DevicesInv, CallOrder
  <2>5. ScreenOrder' /\ IdleGrab'
    BY <2>2, <2>4 DEF ScreenOrder, IdleGrab
  <2> QED BY <1>2, <2>1, <2>2, <2>3, <2>5, ContinueKeeps
<1>7. CASE monitor_is_removed
  <2> DEFINE w == call.window
             s == LostWith(server, {w})
  <2>1. /\ call.op = "done" /\ call.then = "unplug" /\ call' = NoCall /\ others' = others
        /\ server' = ServerUngrabbed(s) /\ grab' = GrabLost(grab, {w})
        /\ screen' = WithoutWindow(w)
    BY <1>7 DEF monitor_is_removed, Returned
  <2>2. w \in screen.windows /\ server.grabbed = 1 /\ {w} \in SUBSET Windows
    BY <1>1, <2>1 DEF DevicesInv, CallOrder, Depth
  <2>3. /\ s \in ServerState /\ s.grabbed = 1 /\ grab' \in GrabState
        /\ RecordOf(grab', s)
    BY <1>1, <2>1, <2>2, LostRecord
  <2> HIDE DEF s
  <2>4. /\ server' \in ServerState /\ server'.grabbed = 0
        /\ server'.keyboard = s.keyboard /\ server'.pointer = s.pointer
    BY <2>1, <2>3, CountedServer
  <2>5. RecordOf(grab', server')
    BY <2>3, <2>4 DEF RecordOf
  <2>6. /\ screen' \in ScreenState /\ screen'.active = screen.active
        /\ screen'.windows = screen.windows \ {w}
        /\ screen'.unmapped = screen.unmapped \ {w}
        /\ screen'.dialog = IF screen.dialog = w THEN None ELSE screen.dialog
    BY <1>1, <2>1 DEF WithoutWindow, ScreenState
  <2>7. ScreenOrder' /\ IdleGrab'
    BY <1>1, <2>2, <2>6 DEF ScreenOrder, IdleGrab
  <2> QED BY <2>1, <2>3, <2>4, <2>5, <2>6, <2>7, ContinueKeeps
<1> QED BY <1>3, <1>4, <1>5, <1>6, <1>7 DEF Continue

\* What a handler does when it is dispatched.
LEMMA HandlersKeep ==
  ASSUME DevicesInv, Handler
  PROVE  DevicesInv'
<1>1. /\ grab \in GrabState /\ server \in ServerState /\ call \in CallState
      /\ screen \in ScreenState /\ ScreenOrder /\ IdleGrab
      /\ RecordOf(grab, server) /\ server.grabbed = Depth(call)
      /\ screen.active \in BOOLEAN /\ screen.windows \in SUBSET Windows
  BY DEF DevicesInv, ScreenState
<1>2. Dispatching /\ call = NoCall /\ server.grabbed = 0
  <2>1. Dispatching
    BY DEF Handler, idle_notice, idle_notice_ends, release_grab_timeout,
           gs_manager_activate, unfade_idle, window_map_event_cb, handle_window_dialog_up,
           handle_window_dialog_down, gs_manager_deactivate, on_display_monitor_removed,
           on_display_monitor_added, window_grab_broken_cb
  <2> QED BY <2>1, Idle
<1>3. Ungrabbed(server) \in ServerState /\ Ungrabbed(server).grabbed = server.grabbed
      /\ Reset(grab) \in GrabState /\ Reset(grab).window = None
  <2>1. Reset(grab) \in GrabState /\ Reset(grab).window = None
    BY <1>1 DEF Reset, GrabState
  <2> QED BY <1>1, <2>1, UngrabbedServer
<1>4. CASE idle_notice \/ gs_manager_activate
  <2>1. PICK w \in Ours, then \in {"fade", "activate"} :
          call' = CallGrabWindow(w, FALSE, then)
    <3>1. Offscreen \in Ours /\ Root \in Ours
      BY DEF Ours
    <3>2. CASE idle_notice
      BY <3>1, <3>2 DEF idle_notice
    <3>3. CASE gs_manager_activate
      BY <3>1, <3>3 DEF gs_manager_activate
    <3> QED BY <1>4, <3>2, <3>3
  <2>2. UNCHANGED <<grab, server, screen, others>> /\ ~screen.active
    BY <1>4 DEF idle_notice, gs_manager_activate
  <2>3. then \in Thens /\ FALSE \in BOOLEAN
    BY DEF Thens
  <2>4. /\ call' \in CallState /\ call'.op = "window" /\ call'.i = 0 /\ call'.window = w
        /\ call'.then = then
    BY <2>1, <2>3, Calls
  <2>5. CallOrder' /\ ScreenOrder' /\ IdleGrab' /\ RecordOf(grab', server')
    BY <1>1, <2>2, <2>4, GrabAssumption DEF CallOrder, ScreenOrder, IdleGrab, RecordOf
  <2>6. server'.grabbed = Depth(call')
    BY <1>2, <2>2, <2>4 DEF Depth
  <2> QED BY <2>2, <2>4, <2>5, <2>6 DEF DevicesInv
<1>5. ASSUME NEW b \in BOOLEAN, NEW c \in BOOLEAN,
             screen' = [screen EXCEPT !.release_timer = b, !.unfade = c]
      PROVE  /\ screen' \in ScreenState /\ ScreenOrder' /\ screen'.active = screen.active
             /\ screen'.windows = screen.windows
  <2>1. /\ screen' \in ScreenState /\ screen'.active = screen.active
        /\ screen'.windows = screen.windows /\ screen'.unmapped = screen.unmapped
        /\ screen'.dialog = screen.dialog
    BY <1>1, <1>5 DEF ScreenState
  <2> QED BY <1>1, <2>1 DEF ScreenOrder
<1>6. CASE idle_notice_ends \/ unfade_idle
  <2>1. UNCHANGED <<grab, server, call, others>>
    BY <1>6 DEF idle_notice_ends, unfade_idle
  <2>2. PICK b \in BOOLEAN, c \in BOOLEAN :
          screen' = [screen EXCEPT !.release_timer = b, !.unfade = c]
    <3>1. screen.release_timer \in BOOLEAN /\ screen.unfade \in BOOLEAN
          /\ TRUE \in BOOLEAN /\ FALSE \in BOOLEAN
      BY <1>1 DEF ScreenState
    <3>2. \/ screen' = [screen EXCEPT !.release_timer = TRUE, !.unfade = screen.unfade]
          \/ screen' = [screen EXCEPT !.release_timer = screen.release_timer,
                                      !.unfade = FALSE]
      BY <1>1, <1>6 DEF idle_notice_ends, unfade_idle, ScreenState
    <3> QED BY <3>1, <3>2
  <2>3. RecordOf(grab', server') /\ IdleGrab'
    BY <1>1, <1>5, <2>1, <2>2 DEF RecordOf, IdleGrab
  <2> QED BY <1>1, <1>2, <1>5, <2>1, <2>2, <2>3, HandlerKeeps
<1>7. CASE release_grab_timeout
  <2>1. /\ screen' = [screen EXCEPT !.release_timer = FALSE]
        /\ UNCHANGED <<call, others>>
        /\ \/ UNCHANGED <<server, grab>>
           \/ server' = Ungrabbed(server) /\ grab' = Reset(grab)
    BY <1>7 DEF release_grab_timeout
  <2>2. /\ screen' \in ScreenState /\ ScreenOrder' /\ screen'.active = screen.active
    <3>1. screen.unfade \in BOOLEAN /\ FALSE \in BOOLEAN
          /\ screen' = [screen EXCEPT !.release_timer = FALSE, !.unfade = screen.unfade]
      BY <1>1, <2>1 DEF ScreenState
    <3> QED BY <1>5, <3>1
  <2>3. CASE UNCHANGED <<server, grab>>
    <3>1. RecordOf(grab', server') /\ IdleGrab'
      BY <1>1, <2>2, <2>3 DEF RecordOf, IdleGrab
    <3> QED BY <1>1, <1>2, <2>1, <2>2, <2>3, <3>1, HandlerKeeps
  <2>4. CASE server' = Ungrabbed(server) /\ grab' = Reset(grab)
    <3>1. RecordOf(grab', server') /\ IdleGrab'
      BY <1>3, <2>4 DEF RecordOf, IdleGrab
    <3> QED BY <1>2, <1>3, <2>1, <2>2, <2>4, <3>1, HandlerKeeps
  <2> QED BY <2>1, <2>3, <2>4
<1>8. ASSUME NEW w \in Windows, NEW at_pointer \in BOOLEAN,
             window_map_event_cb(w, at_pointer)
      PROVE  DevicesInv'
  <2>1. /\ w \in screen.unmapped /\ UNCHANGED <<grab, server, others>>
        /\ screen' = [screen EXCEPT !.unmapped = @ \ {w}]
        /\ call' = call \/ call' = CallMoveToWindow(w, FALSE, "nothing")
    BY <1>8 DEF window_map_event_cb
  <2>2. /\ screen' \in ScreenState /\ screen'.active = screen.active
        /\ screen'.windows = screen.windows /\ screen'.dialog = screen.dialog
        /\ screen'.unmapped = screen.unmapped \ {w}
    BY <1>1, <2>1 DEF ScreenState
  <2>3. ScreenOrder' /\ RecordOf(grab', server') /\ IdleGrab' /\ w \in screen'.windows
    BY <1>1, <2>1, <2>2 DEF ScreenOrder, RecordOf, IdleGrab
  <2>4. CASE call' = call
    BY <1>1, <1>2, <2>1, <2>2, <2>3, <2>4, HandlerKeeps
  <2>5. CASE call' = CallMoveToWindow(w, FALSE, "nothing")
    <3>1. "nothing" \in {"nothing", "down", "destroy", "unplug"} /\ FALSE \in BOOLEAN
          /\ server'.grabbed = IF "nothing" = "unplug" THEN 1 ELSE 0
      BY <1>2, <2>1
    <3> QED BY <1>1, <1>2, <2>1, <2>2, <2>3, <2>5, <3>1, MoveBegins
  <2> QED BY <2>1, <2>4, <2>5
<1>9. ASSUME NEW w \in Windows, handle_window_dialog_up(w) PROVE DevicesInv'
  <2>1. /\ w \in screen.windows /\ UNCHANGED <<grab, server, others>>
        /\ screen' = [screen EXCEPT !.dialog = w]
        /\ call' = CallMoveToWindow(w, TRUE, "nothing")
    BY <1>9 DEF handle_window_dialog_up
  <2>2. /\ screen' \in ScreenState /\ screen'.active = screen.active
        /\ screen'.windows = screen.windows /\ screen'.dialog = w
        /\ screen'.unmapped = screen.unmapped
    BY <1>1, <2>1 DEF ScreenState
  <2>3. ScreenOrder' /\ RecordOf(grab', server') /\ IdleGrab' /\ w \in screen'.windows
    BY <1>1, <2>1, <2>2 DEF ScreenOrder, RecordOf, IdleGrab
  <2>4. "nothing" \in {"nothing", "down", "destroy", "unplug"} /\ TRUE \in BOOLEAN
        /\ server'.grabbed = IF "nothing" = "unplug" THEN 1 ELSE 0
    BY <1>2, <2>1
  <2> QED BY <1>1, <1>2, <2>1, <2>2, <2>3, <2>4, MoveBegins
<1>10. CASE handle_window_dialog_down
  <2> DEFINE w == screen.dialog
  <2>1. /\ w # None /\ UNCHANGED <<grab, server, screen, others>>
        /\ call' = CallMoveToWindow(w, FALSE, "down")
    BY <1>10 DEF handle_window_dialog_down
  <2>2. w \in Windows /\ w \in screen'.windows
    BY <1>1, <2>1 DEF ScreenOrder, ScreenState
  <2>3. ScreenOrder' /\ RecordOf(grab', server') /\ IdleGrab'
    BY <1>1, <2>1 DEF ScreenOrder, RecordOf, IdleGrab
  <2>4. "down" \in {"nothing", "down", "destroy", "unplug"} /\ FALSE \in BOOLEAN
        /\ server'.grabbed = IF "down" = "unplug" THEN 1 ELSE 0
    BY <1>2, <2>1
  <2> HIDE DEF w
  <2> QED BY <1>1, <1>2, <2>1, <2>2, <2>3, <2>4, MoveBegins
<1>11. CASE gs_manager_deactivate
  <2>1. /\ server' = Ungrabbed(server) /\ grab' = Reset(grab) /\ others' = others
    BY <1>11 DEF gs_manager_deactivate
  <2>2. RecordOf(grab', server') /\ IdleGrab'
    BY <1>3, <2>1 DEF RecordOf, IdleGrab
  <2>3. CASE screen.dialog = None
    <3>1. /\ screen' = [NoScreen EXCEPT !.release_timer = screen.release_timer]
          /\ call' = call
      BY <1>11, <2>3 DEF gs_manager_deactivate
    <3>2. /\ screen' \in ScreenState /\ screen'.windows = {} /\ screen'.unmapped = {}
          /\ screen'.dialog = None
      <4>1. screen.release_timer \in BOOLEAN
        BY <1>1 DEF ScreenState
      <4> QED BY <3>1, <4>1 DEF NoScreen, ScreenState
    <3>3. ScreenOrder'
      BY <3>2 DEF ScreenOrder
    <3> QED BY <1>2, <1>3, <2>1, <2>2, <3>1, <3>2, <3>3, HandlerKeeps
  <2>4. CASE screen.dialog # None
    <3> DEFINE w == screen.dialog
    <3>1. /\ screen' = [screen EXCEPT !.unfade = FALSE]
          /\ call' = CallMoveToWindow(w, FALSE, "destroy")
      BY <1>11, <2>4 DEF gs_manager_deactivate
    <3>2. screen' \in ScreenState /\ ScreenOrder' /\ screen'.windows = screen.windows
      <4>1. screen.release_timer \in BOOLEAN /\ FALSE \in BOOLEAN
            /\ screen' = [screen EXCEPT !.release_timer = screen.release_timer,
                                        !.unfade = FALSE]
        BY <1>1, <3>1 DEF ScreenState
      <4> QED BY <1>5, <4>1
    <3>3. w \in Windows /\ w \in screen'.windows
      BY <1>1, <2>4, <3>2 DEF ScreenOrder, ScreenState
    <3>4. "destroy" \in {"nothing", "down", "destroy", "unplug"} /\ FALSE \in BOOLEAN
          /\ grab'.window = None
          /\ server'.grabbed = IF "destroy" = "unplug" THEN 1 ELSE 0
      BY <1>2, <1>3, <2>1
    <3> HIDE DEF w
    <3> QED BY <1>2, <1>3, <2>1, <2>2, <3>1, <3>2, <3>3, <3>4, MoveBegins
  <2> QED BY <2>3, <2>4
<1>12. ASSUME NEW w \in Windows, on_display_monitor_removed(w) PROVE DevicesInv'
  <2>1. w \in screen.windows /\ others' = others
    BY <1>12 DEF on_display_monitor_removed
  <2>2. CASE w = screen.dialog
    <3>1. /\ server' = ServerGrabbed(server) /\ UNCHANGED <<grab, screen>>
          /\ call' = CallMoveToWindow(w, FALSE, "unplug")
      BY <1>12, <2>2 DEF on_display_monitor_removed
    <3>2. /\ server' \in ServerState /\ server'.grabbed = 1
          /\ server'.keyboard = server.keyboard /\ server'.pointer = server.pointer
      BY <1>1, <1>2, <3>1, CountedServer
    <3>3. ScreenOrder' /\ RecordOf(grab', server') /\ IdleGrab'
      BY <1>1, <3>1, <3>2 DEF ScreenOrder, RecordOf, IdleGrab
    <3>4. "unplug" \in {"nothing", "down", "destroy", "unplug"} /\ FALSE \in BOOLEAN
          /\ server'.grabbed = IF "unplug" = "unplug" THEN 1 ELSE 0
      BY <3>2
    <3> QED BY <1>1, <1>2, <2>1, <3>1, <3>2, <3>3, <3>4, MoveBegins
  <2>3. CASE w # screen.dialog
    <3>1. /\ server' = LostWith(server, {w}) /\ grab' = GrabLost(grab, {w})
          /\ screen' = WithoutWindow(w) /\ call' = call
      BY <1>12, <2>3 DEF on_display_monitor_removed
    <3>2. {w} \in SUBSET Windows
      OBVIOUS
    <3>3. /\ server' \in ServerState /\ server'.grabbed = server.grabbed
          /\ grab' \in GrabState /\ RecordOf(grab', server')
      BY <1>1, <3>1, <3>2, LostRecord
    <3>4. /\ screen' \in ScreenState /\ screen'.active = screen.active
          /\ screen'.windows = screen.windows \ {w}
          /\ screen'.unmapped = screen.unmapped \ {w}
          /\ screen'.dialog = screen.dialog
      BY <1>1, <2>3, <3>1 DEF WithoutWindow, ScreenState
    <3>5. ScreenOrder' /\ IdleGrab'
      BY <1>1, <2>1, <2>3, <3>4 DEF ScreenOrder, IdleGrab
    <3> QED BY <1>2, <2>1, <3>1, <3>3, <3>4, <3>5, HandlerKeeps
  <2> QED BY <2>2, <2>3
<1>13. ASSUME NEW w \in Windows, on_display_monitor_added(w) PROVE DevicesInv'
  <2>1. /\ screen.active /\ screen.dialog = None
        /\ screen' = [screen EXCEPT !.windows = @ \cup {w}, !.unmapped = @ \cup {w},
                                    !.unfade = TRUE]
        /\ UNCHANGED <<grab, server, call, others>>
    BY <1>13 DEF on_display_monitor_added
  <2>2. /\ screen' \in ScreenState /\ screen'.active = screen.active
        /\ screen'.windows = screen.windows \cup {w}
        /\ screen'.unmapped = screen.unmapped \cup {w} /\ screen'.dialog = None
    BY <1>1, <2>1 DEF ScreenState
  <2>3. ScreenOrder' /\ RecordOf(grab', server') /\ IdleGrab'
    BY <1>1, <2>1, <2>2 DEF ScreenOrder, RecordOf, IdleGrab
  <2> QED BY <1>1, <1>2, <2>1, <2>2, <2>3, HandlerKeeps
<1>14. ASSUME NEW device \in {"keyboard", "pointer"}, window_grab_broken_cb(device)
       PROVE  DevicesInv'
  <2> DEFINE s == [server EXCEPT ![device] = None]
  <2>1. /\ server[device] \in screen.windows /\ server' = s
        /\ grab' = IF s.keyboard \in Ours \/ s.pointer \in Ours THEN grab ELSE Reset(grab)
        /\ UNCHANGED <<call, screen, others>>
    BY <1>14 DEF window_grab_broken_cb
  <2>2. /\ s \in ServerState /\ s.grabbed = server.grabbed
        /\ s.keyboard \in {server.keyboard, None} /\ s.pointer \in {server.pointer, None}
    BY <1>1 DEF ServerState, Holders
  <2>3. screen.active
    BY <1>1, <2>1 DEF ScreenOrder
  <2> HIDE DEF s
  <2>4. grab' \in GrabState /\ RecordOf(grab', server')
    <3>1. CASE s.keyboard \in Ours \/ s.pointer \in Ours
      <4>1. None \notin Ours /\ Other \notin Ours
        BY GrabAssumption DEF Ours
      <4>2. grab' = grab
        BY <2>1, <3>1
      <4> QED BY <1>1, <2>1, <2>2, <3>1, <4>1, <4>2 DEF RecordOf
    <3>2. CASE ~(s.keyboard \in Ours \/ s.pointer \in Ours)
      BY <1>3, <2>1, <3>2 DEF RecordOf
    <3> QED BY <3>1, <3>2
  <2>5. ScreenOrder' /\ IdleGrab'
    BY <1>1, <2>1, <2>3 DEF ScreenOrder, IdleGrab
  <2> QED BY <1>1, <1>2, <2>1, <2>2, <2>4, <2>5, HandlerKeeps
<1> QED
  BY <1>4, <1>6, <1>7, <1>8, <1>9, <1>10, <1>11, <1>12, <1>13, <1>14 DEF Handler

\* Another client takes only what nobody holds, and lets go of its own.
LEMMA OthersKeep ==
  ASSUME DevicesInv, OtherStep
  PROVE  DevicesInv'
<1>1. PICK device \in {"keyboard", "pointer"} :
        other_grabs(device) \/ other_releases(device)
  BY DEF OtherStep
<1>2. /\ grab \in GrabState /\ server \in ServerState /\ RecordOf(grab, server) /\ IdleGrab
      /\ others \in 0..MaxOtherGrabs
  BY DEF DevicesInv
<1>3. PICK x \in {None, Other} :
        server' = [server EXCEPT ![device] = x] /\ server[device] \in {None, Other}
  BY <1>1 DEF other_grabs, other_releases
<1>4. /\ server' \in ServerState /\ server'.grabbed = server.grabbed
      /\ server'.keyboard \in {server.keyboard, x} /\ server'.pointer \in {server.pointer, x}
      /\ server.keyboard \notin {None, Other} => server'.keyboard = server.keyboard
      /\ server.pointer \notin {None, Other} => server'.pointer = server.pointer
  BY <1>2, <1>3 DEF ServerState, Holders
<1>5. UNCHANGED <<grab, call, screen>> /\ others' \in 0..MaxOtherGrabs
  BY <1>1, <1>2, OthersAssumption DEF other_grabs, other_releases
<1>6. grab.window # None => grab.window \notin {None, Other}
  BY <1>2, GrabAssumption DEF GrabState, Ours
<1>7. RecordOf(grab', server')
  BY <1>2, <1>4, <1>5, <1>6 DEF RecordOf
<1>8. IdleGrab'
  BY <1>2, <1>4, <1>5, <1>6 DEF IdleGrab
<1>9. ScreenOrder' /\ CallOrder' /\ Depth(call') = Depth(call)
  BY <1>5 DEF DevicesInv, ScreenOrder, CallOrder
<1> QED BY <1>4, <1>5, <1>7, <1>8, <1>9 DEF DevicesInv

LEMMA DevicesStep == DevicesInv /\ [DevicesNext]_devicesVars => DevicesInv'
<1> SUFFICES ASSUME DevicesInv, [DevicesNext]_devicesVars PROVE DevicesInv'
  OBVIOUS
<1>1. CASE GrabStep
  BY <1>1, GrabWindowKeeps, MoveKeeps, RetryKeeps DEF GrabStep, CallStep
<1>2. CASE FadeStep \/ UNCHANGED devicesVars
  <2>1. UNCHANGED <<grab, server, call, screen, others>>
    BY <1>2 DEF FadeStep, devicesVars
  <2> QED BY <2>1 DEF DevicesInv, ScreenOrder, CallOrder, IdleGrab
<1> QED BY <1>1, <1>2, ReturnsKeep, HandlersKeep, OthersKeep DEF DevicesNext

LEMMA DevicesInvHolds == DevicesSpec => [](FadeInv /\ DevicesInv)
<1>1. DevicesInit => FadeInv /\ DevicesInv
  BY FadeStarts, DevicesStart DEF DevicesInit
<1> QED BY <1>1, FadeInvStep, DevicesStep, PTL DEF DevicesSpec

-----------------------------------------------------------------------------
(* Theorems *)

(***************************************************************************)
(* gs_fade_reset always brings back the full brightness: the ramps it sets *)
(* were read from a screen that was not dimmed, whatever fades were        *)
(* stopped, restarted or failed to set up before.  A ramp that has a size  *)
(* and could not be read is black instead, and leaves the gamma number.    *)
(***************************************************************************)
THEOREM Reversible == DevicesSpec => []FadeIsReversible
<1>1. FadeInv /\ DevicesInv => FadeIsReversible
  BY DEF FadeInv
<1> QED BY <1>1, DevicesInvHolds, PTL

(***************************************************************************)
(* The window that GSGrab has on record holds a device and nobody else of  *)
(* the daemon does, so gs_grab_move_to_window is right to return at once   *)
(* when it is asked for that window.                                       *)
(***************************************************************************)
THEOREM Record == DevicesSpec => []RecordIsTrue
<1>1. ASSUME FadeInv, DevicesInv PROVE RecordIsTrue
  <2>1. server.grabbed \in 0..2
    BY <1>1 DEF DevicesInv, Depth
  <2>2. GrabType
    BY <1>1, <2>1
    DEF DevicesInv, GrabType, GrabState, ServerState, Holders, CallState, Thens
  <2>3. DevicesType
    BY <1>1, <2>2 DEF DevicesInv, DevicesType, ScreenState, FadeInv
  <2> QED BY <1>1, <2>3 DEF DevicesInv, RecordOf, RecordIsTrue
<1> QED BY <1>1, DevicesInvHolds, PTL

(***************************************************************************)
(* While the screensaver stays active the daemon loses the keyboard only   *)
(* with a window that is destroyed or whose grab is broken, when the       *)
(* deactivation has begun, or when another client has the pointer and the  *)
(* move of the grab fails: not by the delayed release after an idle        *)
(* notice, and not by a move that succeeds.                                *)
(***************************************************************************)
THEOREM Kept == DevicesSpec => KeyboardIsKept
<1> DEFINE A == screen.active /\ screen'.active /\ server.keyboard \in Ours
                  /\ server'.keyboard \notin Ours
                => \/ server.pointer = Other
                   \/ screen'.windows # screen.windows
                   \/ call'.then = "destroy"
                   \/ screen' = screen /\ call' = call /\ server.keyboard \in screen.windows
<1>1. ASSUME DevicesInv, [DevicesNext]_devicesVars PROVE [A]_devicesVars
  <2> SUFFICES ASSUME DevicesNext, screen.active, screen'.active,
                      server.keyboard \in Ours, server'.keyboard \notin Ours,
                      server.pointer # Other
               PROVE  \/ screen'.windows # screen.windows
                      \/ call'.then = "destroy"
                      \/ screen' = screen /\ call' = call
                           /\ server.keyboard \in screen.windows
    BY <1>1
  <2>1. /\ grab \in GrabState /\ server \in ServerState /\ call \in CallState
        /\ screen \in ScreenState /\ screen.windows \in SUBSET Windows
        /\ call.no_pointer \in BOOLEAN /\ server.keyboard # Other
        /\ RecordOf(grab, server)
    BY <1>1, GrabAssumption DEF DevicesInv, ScreenState, CallState, Ours
  <2>2. server' # server
    OBVIOUS
  <2>3. CASE GrabStep
    <3>1. call.op # "window"
      BY <1>1 DEF DevicesInv, CallOrder
    <3>2. ASSUME NEW s \in ServerState, s.keyboard # Other, s.pointer # Other
          PROVE  CanGrab(s, call.no_pointer)
      BY <3>2 DEF CanGrab
    <3>3. ASSUME NEW s \in ServerState, call.window \in Ours,
                 server' = ServerUngrabbed(Seized(s, call.window, call.no_pointer))
          PROVE  FALSE
      <4>1. /\ Seized(s, call.window, call.no_pointer) \in ServerState
            /\ Seized(s, call.window, call.no_pointer).keyboard = call.window
        BY <2>1, <3>3, SeizedRecord
      <4>2. server'.keyboard = call.window
        BY <3>3, <4>1, CountedServer
      <4> QED BY <3>3, <4>2
    <3>4. CASE gs_grab_move
      <4> DEFINE s == IF grab.window = None THEN ServerGrabbed(server)
                                            ELSE ServerGrabbed(Ungrabbed(server))
      <4>1. s \in ServerState /\ s.keyboard # Other /\ s.pointer # Other
        BY <2>1, UngrabbedServer, CountedServer
      <4>2. call.window \in Ours
        BY <1>1, <3>4 DEF gs_grab_move, DevicesInv, CallOrder
      <4>3. CanGrab(s, call.no_pointer)
        BY <3>2, <4>1
      <4>4. server' = ServerUngrabbed(Seized(s, call.window, call.no_pointer))
        BY <2>2, <3>4, <4>3 DEF gs_grab_move
      <4> HIDE DEF s
      <4> QED BY <3>3, <4>1, <4>2, <4>4
    <3>5. CASE gs_grab_move_retry
      <4>1. call.window \in Ours
        BY <1>1, <3>5 DEF gs_grab_move_retry, DevicesInv, CallOrder
      <4>2. CanGrab(server, call.no_pointer)
        BY <2>1, <3>2
      <4>3. server' = ServerUngrabbed(Seized(server, call.window, call.no_pointer))
        BY <3>5, <4>2 DEF gs_grab_move_retry
      <4> QED BY <2>1, <3>3, <4>1, <4>3
    <3>6. CASE gs_grab_grab_window
      BY <3>1, <3>6 DEF gs_grab_grab_window
    <3> QED BY <2>3, <3>4, <3>5, <3>6 DEF GrabStep, CallStep
  <2>4. CASE Continue
    <3>1. gs_manager_destroy_windows \/ monitor_is_removed
      BY <2>2, <2>4 DEF Continue, idle_notice_grabbed, move_returns, dialog_is_down,
                        gs_manager_activated
    <3>2. CASE gs_manager_destroy_windows
      <4>1. screen' = [NoScreen EXCEPT !.release_timer = screen.release_timer]
        BY <3>2 DEF gs_manager_destroy_windows
      <4> QED BY <4>1 DEF NoScreen
    <3>3. CASE monitor_is_removed
      <4>1. call.window \in screen.windows /\ screen' = WithoutWindow(call.window)
        BY <1>1, <3>3 DEF monitor_is_removed, Returned, DevicesInv, CallOrder
      <4>2. screen'.windows = screen.windows \ {call.window}
        BY <2>1, <4>1 DEF WithoutWindow, ScreenState
      <4> QED BY <4>1, <4>2
    <3> QED BY <3>1, <3>2, <3>3
  <2>5. CASE Handler
    <3>1. \/ gs_manager_deactivate
          \/ \E w \in Windows : on_display_monitor_removed(w)
          \/ \E device \in {"keyboard", "pointer"} : window_grab_broken_cb(device)
      BY <2>2, <2>5
      DEF Handler, idle_notice, idle_notice_ends, release_grab_timeout,
          gs_manager_activate, unfade_idle, window_map_event_cb, handle_window_dialog_up,
          handle_window_dialog_down, on_display_monitor_added
    <3>2. CASE gs_manager_deactivate
      <4>1. screen.dialog # None
        <5>1. CASE screen.dialog = None
          <6>1. screen' = [NoScreen EXCEPT !.release_timer = screen.release_timer]
            BY <3>2, <5>1 DEF gs_manager_deactivate
          <6> QED BY <6>1 DEF NoScreen
        <5> QED BY <5>1
      <4> DEFINE w == screen.dialog
                 np == FALSE
      <4>2. call' = CallMoveToWindow(w, np, "destroy")
        BY <3>2, <4>1 DEF gs_manager_deactivate
      <4>3. w \in Ours /\ "destroy" \in Thens /\ np \in BOOLEAN
        BY <2>1, <4>1 DEF ScreenState, Ours, Thens
      <4> HIDE DEF w, np
      <4> QED BY <4>2, <4>3, Calls
    <3>3. ASSUME NEW w \in Windows, on_display_monitor_removed(w)
          PROVE  screen'.windows # screen.windows
      <4>1. w \in screen.windows
        BY <3>3 DEF on_display_monitor_removed
      <4>2. w # screen.dialog
        <5>1. CASE w = screen.dialog
          <6>1. server' = ServerGrabbed(server)
            BY <3>3, <5>1 DEF on_display_monitor_removed
          <6>2. server'.keyboard = server.keyboard
            BY <2>1, <6>1, CountedServer
          <6> QED BY <6>2
        <5> QED BY <5>1
      <4>3. screen' = WithoutWindow(w)
        BY <3>3, <4>2 DEF on_display_monitor_removed
      <4>4. screen'.windows = screen.windows \ {w}
        BY <2>1, <4>3 DEF WithoutWindow, ScreenState
      <4> QED BY <4>1, <4>4
    <3>4. ASSUME NEW device \in {"keyboard", "pointer"}, window_grab_broken_cb(device)
          PROVE  screen' = screen /\ call' = call /\ server.keyboard \in screen.windows
      <4>1. /\ server' = [server EXCEPT ![device] = None] /\ screen' = screen /\ call' = call
            /\ server[device] \in screen.windows
        BY <3>4 DEF window_grab_broken_cb
      <4>2. CASE device = "keyboard"
        BY <2>1, <4>1, <4>2 DEF ServerState
      <4>3. CASE device = "pointer"
        <5>1. server'.keyboard = server.keyboard
          BY <2>1, <4>1, <4>3 DEF ServerState
        <5> QED BY <5>1
      <4> QED BY <4>2, <4>3
    <3> QED BY <3>1, <3>2, <3>3, <3>4
  <2>6. CASE FadeStep
    BY <2>2, <2>6 DEF FadeStep
  <2>7. CASE OtherStep
    <3>1. PICK device \in {"keyboard", "pointer"}, x \in {None, Other} :
            server' = [server EXCEPT ![device] = x] /\ server[device] \in {None, Other}
      BY <2>7 DEF OtherStep, other_grabs, other_releases
    <3>2. server.keyboard \notin {None, Other}
      BY GrabAssumption DEF Ours
    <3>3. server'.keyboard = server.keyboard
      BY <2>1, <3>1, <3>2 DEF ServerState
    <3> QED BY <3>3
  <2> QED BY <2>3, <2>4, <2>5, <2>6, <2>7 DEF DevicesNext
<1>2. DevicesInv /\ [DevicesNext]_devicesVars => [A]_devicesVars
  BY <1>1
<1> HIDE DEF A
<1>3. DevicesSpec => [][A]_devicesVars
  BY <1>2, DevicesInvHolds, PTL DEF DevicesSpec
<1> QED BY <1>3 DEF A, KeyboardIsKept
=============================================================================
