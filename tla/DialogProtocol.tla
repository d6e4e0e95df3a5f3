---------------------------- MODULE DialogProtocol ----------------------------
(***************************************************************************)
(* What the daemon may rely on of one mate-screensaver-dialog process: the *)
(* lines it writes to its standard output and their order.  LockDialog is  *)
(* shown to implement it, and GSWindow reads from processes that obey it.  *)
(*                                                                         *)
(* A process is a record: whether it is alive, whether it has shown its    *)
(* plug ("WINDOW ID="), whether the user is accepted, and the last line.   *)
(* The user is accepted when PAM says so, or when locking could not be     *)
(* initialised, in which case the dialog drops the lock.                   *)
(***************************************************************************)

VARIABLE dialog

Lines == {"id", "failed", "ok", "cancel", "quit"}

Process == [alive: BOOLEAN, shown: BOOLEAN, accepted: BOOLEAN,
            last: Lines \cup {"none"}]

Fresh == [alive |-> TRUE, shown |-> FALSE, accepted |-> FALSE, last |-> "none"]

(***************************************************************************)
(* WINDOW ID= comes once; NOTICE=AUTH FAILED and REQUEST QUIT only from a  *)
(* dialog that has accepted nobody; RESPONSE=OK only from one that has,    *)
(* and nothing follows it; RESPONSE=CANCEL only from one that can be seen. *)
(* A dialog that was cancelled may still write before it ends.             *)
(***************************************************************************)
CanWrite(line) ==
  /\ dialog.alive /\ dialog.last # "ok"
  /\ CASE line = "id"     -> ~dialog.shown /\ dialog.last # "quit"
       [] line = "failed" -> ~dialog.accepted /\ dialog.last # "quit"
       [] line = "ok"     -> dialog.accepted
       [] line = "cancel" -> dialog.shown
       [] line = "quit"   -> ~dialog.accepted

Wrote(line) ==
  [alive |-> dialog.alive, shown |-> dialog.shown \/ line = "id",
   accepted |-> dialog.accepted, last |-> line]

CanAccept == dialog.alive /\ ~dialog.accepted /\ dialog.last # "quit"
Accepted ==
  [alive |-> dialog.alive, shown |-> dialog.shown, accepted |-> TRUE,
   last |-> dialog.last]

Exited ==
  [alive |-> FALSE, shown |-> dialog.shown, accepted |-> dialog.accepted,
   last |-> dialog.last]

Init == dialog = Fresh

Next ==
  \/ \E line \in Lines : CanWrite(line) /\ dialog' = Wrote(line)
  \/ CanAccept /\ dialog' = Accepted
  \/ dialog.alive /\ dialog' = Exited

Spec == Init /\ [][Next]_dialog
=============================================================================
