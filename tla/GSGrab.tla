-------------------------------- MODULE GSGrab --------------------------------
(***************************************************************************)
(* The grab of the input devices (gs-grab-x11.c) and the X server it is    *)
(* asked of.  A call of gs_grab_grab_window or gs_grab_move_to_window      *)
(* blocks the daemon and repeats its attempts, so it takes many steps,     *)
(* between which the other clients of the server act: `call' is the call   *)
(* in progress.  While the server is grabbed no other client is served.    *)
(***************************************************************************)
EXTENDS Naturals

CONSTANTS
  Windows,     \* the windows of the screensaver
  Root,        \* the root window
  Offscreen,   \* the GtkInvisible of GSGrab
  None,        \* no window
  Other,       \* another client of the X server
  Retries      \* retries of gs_grab_grab_window

ASSUME GrabAssumption ==
  /\ None \notin Windows /\ Other \notin Windows /\ None # Other
  /\ Root \notin Windows \cup {None, Other}
  /\ Offscreen \notin Windows \cup {None, Other, Root}
  /\ Retries \in Nat \ {0}

VARIABLES
  grab,      \* GSGrabPrivate
  server,    \* the holder of each device, and the depth of our server grab
  call       \* the call of GSGrab that the daemon is in

grabVars == <<grab, server, call>>

Ours == Windows \cup {Root, Offscreen}

NoGrab == [window |-> None, no_pointer |-> FALSE]

NoCall == [op |-> "none", window |-> None, no_pointer |-> FALSE, i |-> 0,
           old |-> None, then |-> "nothing", result |-> FALSE]

GrabType ==
  /\ grab \in [window: Ours \cup {None}, no_pointer: BOOLEAN]
  /\ server \in [keyboard: Ours \cup {None, Other},
                 pointer: Ours \cup {None, Other}, grabbed: 0..2]
  /\ call \in [op: {"none", "window", "move", "retry", "done"},
               window: Ours \cup {None}, no_pointer: BOOLEAN, i: 0..Retries,
               old: Ours \cup {None},
               then: {"nothing", "fade", "activate", "down", "destroy",
                      "unplug"},
               result: BOOLEAN]

GrabInit ==
  /\ grab = NoGrab /\ call = NoCall
  /\ server = [keyboard |-> None, pointer |-> None, grabbed |-> 0]

-----------------------------------------------------------------------------
(* One attempt *)

\* external: gdk_seat_grab succeeds unless another client has a device
CanGrab(s, no_pointer) ==
  s.keyboard # Other /\ (no_pointer \/ s.pointer # Other)

(***************************************************************************)
(* gs_grab_get when it succeeds; a pointer that is still grabbed when only *)
(* the keyboard is wanted is released.                                     *)
(***************************************************************************)
Seized(s, w, no_pointer) ==
  [s EXCEPT !.keyboard = w,
            !.pointer = IF ~no_pointer THEN w
                        ELSE IF @ = Other THEN Other ELSE None]

\* external: when the keyboard cannot be grabbed the pointer is let go again
SeizeFailed(s, no_pointer) ==
  [s EXCEPT !.pointer = IF no_pointer \/ @ = Other THEN @ ELSE None]

\* gdk_seat_ungrab
Ungrabbed(s) ==
  [s EXCEPT !.keyboard = IF @ = Other THEN @ ELSE None,
            !.pointer = IF @ = Other THEN @ ELSE None]

Recorded(w, no_pointer) == [window |-> w, no_pointer |-> no_pointer]

\* mutant: the window is not forgotten
Reset_kept(g) == g

\* gs_grab_reset leaves no_pointer_grab alone
Reset(g) == [g EXCEPT !.window = None]

Done(result) == [call EXCEPT !.op = "done", !.result = result, !.i = 0]

-----------------------------------------------------------------------------
(* Calls *)

CallGrabWindow(w, no_pointer, then) ==
  [NoCall EXCEPT !.op = "window", !.window = w, !.no_pointer = no_pointer,
                 !.then = then]

CallMoveToWindow(w, no_pointer, then) ==
  [CallGrabWindow(w, no_pointer, then) EXCEPT !.op = "move"]

\* gs_grab_grab_window, one round of its loop
gs_grab_grab_window ==
  /\ call.op = "window"
  /\ IF CanGrab(server, call.no_pointer)
     THEN /\ server' = Seized(server, call.window, call.no_pointer)
          /\ grab' = Recorded(call.window, call.no_pointer)
          /\ call' = Done(TRUE)
     ELSE /\ server' = SeizeFailed(server, call.no_pointer)
          /\ call' = IF call.i + 1 = Retries THEN Done(FALSE)
                     ELSE [call EXCEPT !.i = @ + 1]
          /\ UNCHANGED grab

\* the grab of the server is counted
ServerGrabbed(s) == [s EXCEPT !.grabbed = @ + 1]
ServerUngrabbed(s) == [s EXCEPT !.grabbed = @ - 1]

(***************************************************************************)
(* gs_grab_move up to its g_usleep: nothing when the window is grabbed     *)
(* already; else the server is grabbed, the old grab is released and the   *)
(* new one is tried.                                                       *)
(***************************************************************************)
gs_grab_move ==
  LET s == IF grab.window = None THEN ServerGrabbed(server)
                                 ELSE ServerGrabbed(Ungrabbed(server))
      same == grab.window = call.window /\ grab.no_pointer = call.no_pointer
  IN /\ call.op = "move"
     /\ \/ /\ same
           /\ call' = Done(TRUE) /\ UNCHANGED <<server, grab>>
        \/ /\ ~same /\ CanGrab(s, call.no_pointer)
           /\ server' = ServerUngrabbed(Seized(s, call.window, call.no_pointer))
           /\ grab' = Recorded(call.window, call.no_pointer)
           /\ call' = Done(TRUE)
        \/ /\ ~same /\ ~CanGrab(s, call.no_pointer)
           /\ server' = SeizeFailed(s, call.no_pointer)
           /\ grab' = Reset(grab)
           /\ call' = [call EXCEPT !.op = "retry", !.old = grab.window]

\* mutant: the server stays grabbed when the move fails
gs_grab_move_retry_grabbed ==
  /\ call.op = "retry"
  /\ IF CanGrab(server, call.no_pointer)
     THEN /\ server' = ServerUngrabbed(
                         Seized(server, call.window, call.no_pointer))
          /\ grab' = Recorded(call.window, call.no_pointer)
          /\ call' = Done(TRUE)
     ELSE UNCHANGED <<call, grab, server>>

(***************************************************************************)
(* A second later, with the server grabbed all along: the second attempt,  *)
(* and when it fails one for the old window, with the new no_pointer_grab. *)
(* The loop of gs_grab_move_to_window then tries the move again.           *)
(***************************************************************************)
gs_grab_move_retry ==
  LET resumed == call.old # None /\ CanGrab(server, call.no_pointer)
  IN /\ call.op = "retry"
     /\ IF CanGrab(server, call.no_pointer)
        THEN /\ server' = ServerUngrabbed(
                            Seized(server, call.window, call.no_pointer))
             /\ grab' = Recorded(call.window, call.no_pointer)
             /\ call' = Done(TRUE)
        ELSE /\ server' = ServerUngrabbed(
                  IF resumed THEN Seized(server, call.old, call.no_pointer)
                  ELSE SeizeFailed(server, call.no_pointer))
             /\ grab' = IF resumed THEN Recorded(call.old, call.no_pointer)
                                   ELSE grab
             /\ call' = [call EXCEPT !.op = "move", !.old = None]

CallStep == gs_grab_grab_window \/ gs_grab_move \/ gs_grab_move_retry
=============================================================================
