-------------------------------- MODULE GSFade --------------------------------
(***************************************************************************)
(* The gamma fade (gs-fade.c) and the gamma of the screens it changes.     *)
(* A level is a fraction of full brightness in steps of one iteration of   *)
(* the fade: Full is 1.0 and 0 is black.  `info' is the array that         *)
(* fade_setup allocates: none, one of size 0 that stands for the gamma     *)
(* number, or one with ramps.  `saved' holds the levels it has read, by    *)
(* CRTC; a CRTC without a mode, or one whose ramp RANDR could not read,    *)
(* has none and is left alone.  The fade that the daemon starts has no     *)
(* callback, so "faded" is heard by nobody.                                *)
(***************************************************************************)
EXTENDS Integers

CONSTANTS
  Crtcs,    \* the CRTCs of the display
  Full      \* iterations of a fade, from full brightness to black

ASSUME FadeAssumption == Full \in Nat \ {0}

VARIABLES
  fade,     \* GSFadePrivate
  gamma     \* external: the level of each CRTC, and the server's gamma number

fadeVars == <<fade, gamma>>

NoRamp == -1
Types == {"none", "gamma_number", "gamma_ramp", "xrandr"}
Infos == {"none", "number", "ramps"}
NoRamps == [c \in Crtcs |-> NoRamp]
Level(x) == [c \in Crtcs |-> x]

FadeType ==
  /\ fade \in [type: Types, active: BOOLEAN, timer: BOOLEAN, alpha: 0..Full,
               info: Infos, vmg: 0..Full, saved: [Crtcs -> {NoRamp} \cup 0..Full]]
  /\ gamma \in [ramp: [Crtcs -> 0..Full], number: 0..Full]

\* gs_fade_init: check_randr_extension, else check_gamma_extension
FadeInit ==
  /\ fade \in [type: Types, active: {FALSE}, timer: {FALSE}, alpha: {Full},
               info: {"none"}, vmg: {0}, saved: {NoRamps}]
  /\ gamma = [ramp |-> Level(Full), number |-> Full]

-----------------------------------------------------------------------------

\* a saved level times the ratio
Scaled(x, ratio) == (x * ratio) \div Full

(***************************************************************************)
(* xf86_whack_gamma, xrandr_crtc_whack_gamma: an array of size 0 has the   *)
(* gamma number, which the server applies to every CRTC; else the ramps    *)
(* are set, whatever has been read into them.                              *)
(***************************************************************************)
Whacked(f, ratio) ==
  LET level == [c \in Crtcs |-> IF f.saved[c] = NoRamp THEN gamma.ramp[c]
                                ELSE Scaled(f.saved[c], ratio)]
      number == Scaled(f.vmg, ratio)
  IN CASE f.info = "none"   -> gamma
       [] f.info = "number" -> [ramp |-> Level(number), number |-> number]
       [] f.info = "ramps"  -> [gamma EXCEPT !.ramp = level]

\* gs_fade_set_alpha, with the alpha of f
AlphaSet(f) == IF f.type = "none" THEN gamma ELSE Whacked(f, f.alpha)

\* gs_fade_stop: the level stays what it is
Stopped(f) == [f EXCEPT !.timer = FALSE, !.active = FALSE]

(***************************************************************************)
(* xrandr_fade_setup: the ramps of the CRTCs in S are read; when one fails *)
(* the ones before it are kept, and so is the array.                       *)
(***************************************************************************)
XrandrSetup(f, S) ==
  [f EXCEPT !.info = "ramps",
            !.saved = [c \in Crtcs |-> IF c \in S THEN gamma.ramp[c] ELSE NoRamp]]

(***************************************************************************)
(* gamma_fade_setup: a ramp whose size cannot be read falls back to the    *)
(* gamma number, and one of a known size that cannot be read leaves that   *)
(* size with arrays of zeros behind; a gamma number that cannot be read    *)
(* either leaves no fade at all.                                           *)
(***************************************************************************)
GammaSetups(f) ==
  LET arrays == {[f EXCEPT !.info = "number"]}
                  \cup (IF f.type = "gamma_ramp"
                        THEN {[f EXCEPT !.info = "ramps", !.saved = Level(0)]}
                        ELSE {})
      ramp == [f EXCEPT !.info = "ramps", !.saved = gamma.ramp]
  IN {[a EXCEPT !.type = "gamma_number", !.vmg = gamma.number] : a \in arrays}
       \cup {[a EXCEPT !.type = "none"] : a \in arrays}
       \cup (IF f.type = "gamma_ramp" THEN {ramp} ELSE {})

\* gs_fade_start after a setup that succeeded; a fade of no type is finished
Started(f) ==
  IF f.type = "none" THEN [f EXCEPT !.active = FALSE]
                     ELSE [Stopped(f) EXCEPT !.active = TRUE, !.timer = TRUE]

\* mutant: the ramps are read again for every fade
gs_fade_async_rereads ==
  /\ fade' = Started(XrandrSetup(Stopped(fade), Crtcs))
  /\ UNCHANGED gamma

(***************************************************************************)
(* gs_fade_async without a callback: an active fade is stopped, the ramps  *)
(* are read unless they have been, and the timer starts.  When they cannot *)
(* be read there is no fade.                                               *)
(***************************************************************************)
gs_fade_async ==
  /\ \/ /\ fade.type = "none" \/ fade.info # "none"
        /\ fade' = Started(Stopped(fade))
     \/ /\ fade.type = "xrandr" /\ fade.info = "none"
        /\ \E S \in SUBSET Crtcs, ok \in BOOLEAN :
             fade' = LET f == XrandrSetup(Stopped(fade), S)
                     IN IF ok THEN Started(f) ELSE f
     \/ /\ fade.type \in {"gamma_number", "gamma_ramp"} /\ fade.info = "none"
        /\ \E f \in GammaSetups(Stopped(fade)) :
             fade' = IF f.type = "none" THEN f ELSE Started(f)
  /\ UNCHANGED gamma

\* fade_out_timer: one iteration, or at black gs_fade_finish
fade_out_timer ==
  /\ fade.timer
  /\ IF fade.alpha = 0
     THEN fade' = Stopped(fade) /\ UNCHANGED gamma
     ELSE /\ fade' = [fade EXCEPT !.alpha = @ - 1]
          /\ gamma' = AlphaSet(fade')

(***************************************************************************)
(* gs_fade_reset: the fade stops, full brightness is set from the saved    *)
(* levels and the array is freed (screen_fade_finish).                     *)
(***************************************************************************)
gs_fade_reset ==
  LET f == [Stopped(fade) EXCEPT !.alpha = Full]
  IN /\ gamma' = AlphaSet(f)
     /\ fade' = IF f.type = "none" THEN f
                ELSE [f EXCEPT !.info = "none", !.saved = NoRamps]

-----------------------------------------------------------------------------
(* Properties *)

\* The fade sets the gamma number.
NumberKept == fade.info = "number" /\ fade.type # "none"

\* The ramp has a size and could not be read: it is black at every level.
UnreadRamp == fade.info = "ramps" /\ fade.type \in {"gamma_number", "none"}

(***************************************************************************)
(* An unread ramp has been set: the CRTCs are black while the server's     *)
(* gamma number is that of full brightness.  The fades that follow use the *)
(* gamma number, or are none at all.                                       *)
(***************************************************************************)
Blackened ==
  /\ fade.type \in {"gamma_number", "none"} /\ gamma.number = Full
  /\ \A c \in Crtcs : gamma.ramp[c] = 0

(***************************************************************************)
(* What gs_fade_reset sets is the brightness of the undimmed screen: the   *)
(* darkness of a fade is never read as the screen's own, however fades are *)
(* stopped, restarted, failed and reset.  Where nothing is kept the screen *)
(* is not dimmed.  The one exception is the ramp that could not be read    *)
(* (gs-fade.c:332), and it leaves the gamma number as it was, so that the  *)
(* next fade has the right one.  An active fade has its timer.             *)
(***************************************************************************)
FadeIsReversible ==
  /\ IF NumberKept THEN fade.vmg = Full ELSE gamma.number = Full
  /\ ~UnreadRamp => \A c \in Crtcs : fade.saved[c] \in {NoRamp, Full}
  /\ \/ NumberKept \/ Blackened
     \/ \A c \in Crtcs : fade.saved[c] = NoRamp => gamma.ramp[c] = Full
  /\ fade.active <=> fade.timer
=============================================================================
