------------------------------ MODULE MCMonitor ------------------------------
EXTENDS GSMonitor, TLC

(***************************************************************************)
(* Bound of the run with a client: it leaves the dialog, the visibility    *)
(* of the windows and the sources of freed windows to the other runs; no   *)
(* property it checks depends on them.                                     *)
(***************************************************************************)
NoDialog ==
  /\ ~manager.dialog_up /\ win.obscured = {}
  /\ \A w \in Monitors : idles.freed[w] = 0

(***************************************************************************)
(* Bound of the run about Lock requests: the screen is not locked after a  *)
(* time, so that no timer and no change of a preference locks it, and the  *)
(* administrator allows locking.                                           *)
(***************************************************************************)
OnlyRequestsLock == ~manager.lock_enabled /\ ~monitor.lock_disabled
=============================================================================
