------------------------------ MODULE LockDialog ------------------------------
(***************************************************************************)
(* The mate-screensaver-dialog process: its program                        *)
(* (mate-screensaver-dialog.c), the plug with the password entry           *)
(* (gs-lock-plug.c) and the PAM conversation, which runs in a thread of    *)
(* its own (gs-auth-pam.c).                                                *)
(*                                                                         *)
(* The main thread has up to three nested main loops, and `pc' says where  *)
(* it is:                                                                  *)
(*   "loop1"    the gtk_main of main                                       *)
(*   "loop2"    the gtk_main of gs_auth_pam_verify_user, in auth_check_idle*)
(*   "handler"  gs_auth_queued_message_handler, before it has the mutex    *)
(*   "loop3"    the GMainLoop of gs_lock_plug_run, the user is asked       *)
(*   "drain"    the pending events at the end of auth_message_handler      *)
(* Timers and input are dispatched in every loop; a source that is being   *)
(* dispatched (auth_check_idle, the handler) is not dispatched again.      *)
(* PAM itself is external: it asks and informs as often as it likes and    *)
(* then succeeds or fails.                                                 *)
(***************************************************************************)
EXTENDS Naturals, Sequences

CONSTANTS
  MaxFailures,   \* MAX_FAILURES
  MaxMessages,   \* bound: messages of PAM in one authentication
  MaxInputs,     \* bound: the user's actions
  MaxKeys        \* bound: key events queued in the plug

ASSUME DialogBoundsAssumption ==
  /\ MaxFailures \in Nat \ {0} /\ MaxMessages \in Nat
  /\ MaxInputs \in Nat /\ MaxKeys \in Nat

VARIABLES
  pc,        \* where the main thread is
  sources,   \* its sources: popup, auth, ok, quit_request, quit_timeout, resets
  quit2,     \* gtk_main_quit has been called on loop 2
  failures,  \* loop_counter
  plug,      \* GSLockPlugPrivate
  worker,    \* the thread: pc, messages so far, the answers, its status
  handlers,  \* queued message handlers; TRUE: their data is still there
  mutex,     \* message_handler_mutex
  asked,     \* what the handler that runs got from the user
  accepted,  \* the user is accepted
  said,      \* the last line written
  inputs     \* the number of the user's actions

dialogVars == <<pc, sources, quit2, failures, plug, worker, handlers, mutex,
                asked, accepted, said, inputs>>

NoSources == [popup |-> FALSE, auth |-> FALSE, ok |-> FALSE,
              quit_request |-> FALSE, quit_timeout |-> FALSE, resets |-> 0]

\* gs_lock_plug_init
NewPlug == [visible |-> FALSE, prompt |-> FALSE, entry |-> TRUE, area |-> TRUE,
            cancel_timeout |-> FALSE, response_idle |-> FALSE, keys |-> 0]

NoWorker == [pc |-> "none", style |-> "info", messages |-> 0, answers |-> "none",
             interrupt |-> TRUE, status |-> "failure"]

SourceState ==
  [popup: BOOLEAN, auth: BOOLEAN, ok: BOOLEAN, quit_request: BOOLEAN,
   quit_timeout: BOOLEAN, resets: 0..MaxFailures]

PlugState ==
  [visible: BOOLEAN, prompt: BOOLEAN, entry: BOOLEAN, area: BOOLEAN,
   cancel_timeout: BOOLEAN, response_idle: BOOLEAN, keys: 0..MaxKeys]

WorkerState ==
  [pc: {"none", "pam", "message", "waiting", "woken", "closed"},
   style: {"prompt", "info"}, messages: 0..MaxMessages,
   answers: {"none", "right", "wrong"}, interrupt: BOOLEAN,
   status: {"success", "failure"}]

DialogType ==
  /\ pc \in {"init", "loop1", "loop2", "handler", "loop3", "drain", "leaving",
             "exited"}
  /\ sources \in SourceState /\ plug \in PlugState /\ worker \in WorkerState
  /\ quit2 \in BOOLEAN /\ failures \in 0..MaxFailures
  /\ handlers \in Seq(BOOLEAN)
  /\ mutex \in {"free", "main"}
  /\ asked \in {"none", "right", "wrong"}
  /\ accepted \in BOOLEAN
  /\ said \in {"none", "id", "failed", "ok", "cancel", "quit"}
  /\ inputs \in 0..MaxInputs

DialogInit ==
  /\ pc = "init" /\ sources = NoSources /\ quit2 = FALSE /\ failures = 0
  /\ plug = NewPlug /\ worker = NoWorker /\ handlers = <<>> /\ mutex = "free"
  /\ asked = "none" /\ accepted = FALSE /\ said = "none" /\ inputs = 0

\* the main thread dispatches sources
InLoop == pc \in {"loop1", "loop2", "loop3", "drain"} /\ ~(pc = "loop2" /\ quit2)

-----------------------------------------------------------------------------
(* main *)

(***************************************************************************)
(* privileged_initialization and lock_initialization: when one fails the   *)
(* lock is dropped with RESPONSE=OK; a failing gtk_init only exits.        *)
(***************************************************************************)
initialization ==
  /\ pc = "init" /\ ~accepted
  /\ \/ /\ pc' = "loop1" /\ sources' = [sources EXCEPT !.popup = TRUE]
        /\ UNCHANGED accepted
     \/ /\ accepted' = TRUE /\ UNCHANGED <<pc, sources>>
     \/ /\ pc' = "exited" /\ UNCHANGED <<sources, accepted>>
  /\ UNCHANGED <<quit2, failures, plug, worker, handlers, mutex, asked, said,
                 inputs>>

response_lock_init_failed ==
  /\ pc = "init" /\ accepted
  /\ said' = "ok" /\ pc' = "leaving"
  /\ UNCHANGED <<sources, quit2, failures, plug, worker, handlers, mutex, asked,
                 accepted, inputs>>

\* the process ends once the gtk_main of main has returned
main_returns ==
  /\ pc = "leaving"
  /\ pc' = "exited"
  /\ UNCHANGED <<sources, quit2, failures, plug, worker, handlers, mutex, asked,
                 accepted, said, inputs>>

\* popup_dialog_idle: the plug is created, not yet shown
popup_dialog_idle ==
  /\ pc = "loop1" /\ sources.popup
  /\ sources' = [sources EXCEPT !.popup = FALSE, !.auth = TRUE]
  /\ UNCHANGED <<pc, quit2, failures, plug, worker, handlers, mutex, asked,
                 accepted, said, inputs>>

\* gs_lock_plug_set_sensitive, _disable_prompt on the plug g
Sensitive(g, b) == [g EXCEPT !.entry = b, !.area = b]
PromptDisabled(g) == [g EXCEPT !.prompt = FALSE, !.entry = FALSE]

\* mutant: failing to get as far as PAM is taken for its success
auth_ends_trusting(success, g) ==
  /\ plug' = g /\ pc' = "loop1"
  /\ sources' = [sources EXCEPT !.auth = FALSE, !.ok = TRUE]
  /\ accepted' = success
  /\ UNCHANGED <<failures, said>>

(***************************************************************************)
(* The end of do_auth_check and auth_check_idle, on the plug g: on success *)
(* RESPONSE=OK is queued; a failure is announced and there is another      *)
(* attempt, or after the last one the daemon is asked to terminate us.     *)
(***************************************************************************)
auth_ends(success, g) ==
  /\ plug' = g /\ pc' = "loop1"
  /\ IF success
     THEN /\ accepted' = TRUE
          /\ sources' = [sources EXCEPT !.auth = FALSE, !.ok = TRUE]
          /\ UNCHANGED <<failures, said>>
     ELSE /\ said' = "failed"
          /\ failures' = failures + 1
          /\ sources' = IF failures' < MaxFailures
                        THEN [sources EXCEPT !.resets = @ + 1]
                        ELSE [sources EXCEPT !.auth = FALSE,
                                             !.quit_request = TRUE,
                                             !.quit_timeout = TRUE]
          /\ UNCHANGED accepted

(***************************************************************************)
(* auth_check_idle: gs_auth_verify_user fails before there is a thread     *)
(* (no such user, PAM handle, pipe), or starts it and enters loop 2.       *)
(***************************************************************************)
auth_check_idle ==
  /\ pc = "loop1" /\ sources.auth
  /\ \/ /\ auth_ends(FALSE, PromptDisabled(plug))
        /\ UNCHANGED <<quit2, worker>>
     \/ /\ pc' = "loop2" /\ quit2' = FALSE
        /\ plug' = PromptDisabled(plug)
        /\ worker' = [NoWorker EXCEPT !.pc = "pam"]
        /\ UNCHANGED <<sources, failures, accepted, said>>
  /\ UNCHANGED <<handlers, mutex, asked, inputs>>

\* gs_auth_loop_quit and the end of gs_auth_pam_verify_user: the thread is done
gs_auth_loop_quit ==
  /\ pc = "loop2" /\ worker.pc = "closed"
  /\ auth_ends(worker.status = "success", plug)
  /\ worker' = [worker EXCEPT !.pc = "none"]
  /\ quit2' = FALSE
  /\ UNCHANGED <<handlers, mutex, asked, inputs>>

\* loop 2 was left early: raise (SIGTERM)
gs_auth_raise ==
  /\ pc = "loop2" /\ quit2
  /\ pc' = "exited"
  /\ UNCHANGED <<sources, quit2, failures, plug, worker, handlers, mutex, asked,
                 accepted, said, inputs>>

quit_response_ok ==
  /\ pc = "loop1" /\ sources.ok
  /\ said' = "ok" /\ pc' = "leaving"
  /\ sources' = [sources EXCEPT !.ok = FALSE]
  /\ UNCHANGED <<quit2, failures, plug, worker, handlers, mutex, asked,
                 accepted, inputs>>

response_request_quit ==
  /\ pc = "loop1" /\ sources.quit_request
  /\ said' = "quit"
  /\ sources' = [sources EXCEPT !.quit_request = FALSE]
  /\ UNCHANGED <<pc, quit2, failures, plug, worker, handlers, mutex, asked,
                 accepted, inputs>>

quit_timeout_cb ==
  /\ pc = "loop1" /\ sources.quit_timeout
  /\ pc' = "leaving"
  /\ UNCHANGED <<sources, quit2, failures, plug, worker, handlers, mutex, asked,
                 accepted, said, inputs>>

-----------------------------------------------------------------------------
(* The thread *)

(***************************************************************************)
(* external: PAM sends another message, or ends.  It succeeds only when    *)
(* every prompt was answered, and rightly.                                 *)
(***************************************************************************)
pam_authenticate ==
  /\ worker.pc = "pam"
  /\ \/ /\ worker.messages < MaxMessages
        /\ \E style \in {"prompt", "info"} :
             worker' = [worker EXCEPT !.pc = "message", !.style = style,
                                      !.messages = @ + 1]
     \/ worker' = [worker EXCEPT !.pc = "closed", !.status = "failure"]
     \/ /\ worker.answers # "wrong"
        /\ worker' = [worker EXCEPT !.pc = "closed", !.status = "success"]
  /\ UNCHANGED <<pc, sources, quit2, failures, plug, handlers, mutex, asked,
                 accepted, said, inputs>>

\* gs_auth_run_message_handler: with the mutex, the handler is queued and
\* g_cond_wait gives the mutex back
gs_auth_run_message_handler ==
  /\ worker.pc = "message" /\ mutex = "free"
  /\ handlers' = Append(handlers, TRUE)
  /\ worker' = [worker EXCEPT !.pc = "waiting", !.interrupt = TRUE]
  /\ UNCHANGED <<pc, sources, quit2, failures, plug, mutex, asked, accepted, said,
                 inputs>>

(***************************************************************************)
(* g_cond_wait has the mutex again and the call returns, and with it goes  *)
(* the data that a handler still in the queue would use.  A prompt that    *)
(* was not answered interrupts PAM (PAM_CONV_ERR).                         *)
(***************************************************************************)
message_handler_returns ==
  /\ worker.pc = "woken" /\ mutex = "free"
  /\ worker' = [worker EXCEPT !.pc = "pam",
       !.answers = IF worker.style = "info" \/ @ = "wrong" THEN @
                   ELSE IF worker.interrupt THEN "wrong" ELSE asked]
  /\ handlers' = [i \in 1..Len(handlers) |-> FALSE]
  /\ UNCHANGED <<pc, sources, quit2, failures, plug, mutex, asked, accepted, said,
                 inputs>>

-----------------------------------------------------------------------------
(* The message handler, in the main thread *)

\* it stays the head of `handlers' until it has the mutex
gs_auth_queued_message_handler ==
  /\ pc = "loop2" /\ ~quit2 /\ handlers # <<>>
  /\ pc' = "handler"
  /\ UNCHANGED <<sources, quit2, failures, plug, worker, handlers, mutex, asked,
                 accepted, said, inputs>>

\* gs_lock_plug_enable_prompt: the queued keys go to the entry
PromptEnabled(g) ==
  [g EXCEPT !.entry = TRUE, !.area = TRUE, !.prompt = TRUE, !.keys = 0,
            !.cancel_timeout = TRUE]

\* gs_lock_plug_show, of a plug that is not shown yet
PlugShown ==
  IF plug.visible THEN plug
  ELSE [plug EXCEPT !.visible = TRUE, !.cancel_timeout = TRUE]

\* mutant: it signals and unlocks before the user is asked
auth_message_handler_early ==
  /\ pc = "handler" /\ mutex = "free" /\ Head(handlers)
  /\ handlers' = Tail(handlers)
  /\ said' = IF plug.visible THEN said ELSE "id"
  /\ pc' = "loop3" /\ plug' = PromptEnabled([plug EXCEPT !.visible = TRUE])
  /\ asked' = "none"
  /\ worker' = [worker EXCEPT !.pc = "woken"]
  /\ UNCHANGED <<sources, quit2, failures, mutex, accepted, inputs>>

(***************************************************************************)
(* It takes the mutex and calls auth_message_handler: the plug is shown,   *)
(* the first time with WINDOW ID=, and for a prompt the user is asked.     *)
(***************************************************************************)
auth_message_handler ==
  /\ pc = "handler" /\ mutex = "free" /\ Head(handlers)
  /\ handlers' = Tail(handlers)
  /\ mutex' = "main"
  /\ said' = IF plug.visible THEN said ELSE "id"
  /\ asked' = "none"
  /\ IF worker.style = "prompt"
     THEN pc' = "loop3" /\ plug' = PromptEnabled(PlugShown)
     ELSE pc' = "drain" /\ plug' = PlugShown
  /\ UNCHANGED <<sources, quit2, failures, worker, accepted, inputs>>

(***************************************************************************)
(* The pending events are done.  Without a response, and for every message *)
(* that is not a prompt, PAM is to be interrupted.                         *)
(***************************************************************************)
message_handled ==
  /\ pc = "drain"
  /\ pc' = "loop2" /\ mutex' = "free"
  /\ worker' = [worker EXCEPT !.pc = IF @ = "waiting" THEN "woken" ELSE @,
                              !.interrupt = asked = "none"]
  /\ UNCHANGED <<sources, quit2, failures, plug, handlers, asked, accepted, said,
                 inputs>>

-----------------------------------------------------------------------------
(* Responses of the plug *)

\* the loop of gs_lock_plug_run ends with the user's answer, or none
RunEnds(answer, g) ==
  /\ pc' = "drain" /\ asked' = answer
  /\ plug' = IF answer = "none" THEN PromptDisabled(g)
             ELSE Sensitive(PromptDisabled(g), FALSE)

Responded == [plug EXCEPT !.cancel_timeout = FALSE, !.response_idle = FALSE]

\* gs_lock_plug_response (OK): only the prompt has a button for it
response_ok ==
  /\ pc = "loop3"
  /\ \E answer \in {"right", "wrong"} : RunEnds(answer, Responded)
  /\ UNCHANGED <<sources, quit2, failures, worker, handlers, mutex, accepted,
                 said>>

(***************************************************************************)
(* gs_lock_plug_response (CANCEL) with response_cb: RESPONSE=CANCEL, and   *)
(* gtk_main_quit on the innermost gtk_main, whichever that is.             *)
(***************************************************************************)
response_cancel ==
  /\ said' = "cancel"
  /\ CASE pc = "loop1" -> pc' = "leaving" /\ plug' = Responded
                          /\ UNCHANGED <<quit2, asked>>
       [] pc = "loop3" -> RunEnds("none", Responded) /\ quit2' = TRUE
       [] OTHER -> quit2' = TRUE /\ plug' = Responded /\ UNCHANGED <<pc, asked>>
  /\ UNCHANGED <<sources, failures, worker, handlers, mutex, accepted>>

\* mutant: the plug is only made insensitive
dialog_timed_out_only ==
  /\ InLoop /\ plug.cancel_timeout
  /\ plug' = [Sensitive(plug, FALSE) EXCEPT !.cancel_timeout = FALSE]
  /\ UNCHANGED <<pc, sources, quit2, failures, worker, handlers, mutex, asked,
                 accepted, said, inputs>>

\* dialog_timed_out: "Time has expired.", and a cancellation two seconds later
dialog_timed_out ==
  /\ InLoop /\ plug.cancel_timeout
  /\ plug' = [Sensitive(plug, FALSE) EXCEPT !.cancel_timeout = FALSE,
                                            !.response_idle = TRUE]
  /\ UNCHANGED <<pc, sources, quit2, failures, worker, handlers, mutex, asked,
                 accepted, said, inputs>>

response_cancel_idle_cb ==
  /\ InLoop /\ plug.response_idle
  /\ response_cancel
  /\ UNCHANGED inputs

\* reset_idle_cb, three seconds after a failure, whatever happens then
reset_idle_cb ==
  /\ InLoop /\ sources.resets > 0
  /\ sources' = [sources EXCEPT !.resets = @ - 1]
  /\ plug' = Sensitive(plug, TRUE)
  /\ UNCHANGED <<pc, quit2, failures, worker, handlers, mutex, asked, accepted,
                 said, inputs>>

-----------------------------------------------------------------------------
(* The user *)

\* gs_lock_plug_close: the delete event of the plug cancels
gs_lock_plug_close == response_cancel

UserActs == InLoop /\ plug.visible /\ inputs < MaxInputs /\ inputs' = inputs + 1

\* restart_cancel_timeout
Restarted(g) == [g EXCEPT !.cancel_timeout = TRUE]

\* queue_key_event of the plug
KeyQueued(g) == [g EXCEPT !.keys = IF @ < MaxKeys THEN @ + 1 ELSE @]

PlugStep(g) ==
  /\ plug' = g
  /\ UNCHANGED <<pc, sources, quit2, failures, worker, handlers, mutex, asked,
                 accepted, said>>

(***************************************************************************)
(* entry_key_press: the timer restarts; a key for an entry that is not     *)
(* sensitive is queued, Return and Escape like the others.  Return in the  *)
(* entry activates the default button, which is Cancel without a prompt.   *)
(***************************************************************************)
entry_key_press(key) ==
  /\ UserActs
  /\ \/ /\ ~plug.entry
        /\ PlugStep(KeyQueued(Restarted(plug)))
     \/ /\ plug.entry
        /\ \/ key = "text" /\ PlugStep(Restarted(plug))
           \/ key = "return" /\ plug.prompt /\ response_ok
           \/ key = "return" /\ ~plug.prompt /\ plug.area /\ response_cancel
           \/ key = "escape" /\ gs_lock_plug_close

unlock_button_clicked ==
  UserActs /\ plug.prompt /\ plug.area /\ response_ok

cancel_button_clicked == UserActs /\ plug.area /\ response_cancel

\* a note is sent, and the dialog cancelled
submit_note == UserActs /\ plug.area /\ response_cancel

\* take_note and cancel_note restart the timer
take_note ==
  UserActs /\ plug.area /\ PlugStep(Restarted(plug))

switch_user_button_clicked ==
  /\ UserActs /\ plug.area
  /\ PlugStep([Sensitive(plug, FALSE) EXCEPT !.response_idle = TRUE])

-----------------------------------------------------------------------------

MainStep ==
  \/ initialization \/ response_lock_init_failed \/ main_returns
  \/ popup_dialog_idle \/ auth_check_idle \/ gs_auth_loop_quit \/ gs_auth_raise
  \/ quit_response_ok \/ response_request_quit
  \/ gs_auth_queued_message_handler \/ auth_message_handler \/ message_handled

Timer ==
  \/ quit_timeout_cb \/ dialog_timed_out \/ response_cancel_idle_cb
  \/ reset_idle_cb

WorkerStep ==
  \/ pam_authenticate \/ gs_auth_run_message_handler \/ message_handler_returns

UserStep ==
  \/ \E key \in {"text", "return", "escape"} : entry_key_press(key)
  \/ unlock_button_clicked \/ cancel_button_clicked \/ take_note
  \/ submit_note
  \/ switch_user_button_clicked

DialogNext == MainStep \/ Timer \/ WorkerStep \/ UserStep

(***************************************************************************)
(* The main loop dispatches what is ready, timers run out, the thread is   *)
(* scheduled and PAM's modules return.                                     *)
(***************************************************************************)
DialogSpec ==
  /\ DialogInit /\ [][DialogNext]_dialogVars
  /\ WF_dialogVars(MainStep) /\ WF_dialogVars(WorkerStep)
  /\ WF_dialogVars(dialog_timed_out) /\ WF_dialogVars(response_cancel_idle_cb)
  /\ WF_dialogVars(quit_timeout_cb) /\ WF_dialogVars(reset_idle_cb)

-----------------------------------------------------------------------------
(* Properties *)

(***************************************************************************)
(* The process implements what GSWindow assumes of it: in particular       *)
(* RESPONSE=OK comes only after PAM has succeeded (or locking could not be *)
(* initialised), whatever cancellations and time-outs race its thread.     *)
(***************************************************************************)
Protocol == INSTANCE DialogProtocol WITH
  dialog <- [alive |-> pc # "exited", shown |-> plug.visible,
             accepted |-> accepted, last |-> said]

ImplementsProtocol == Protocol!Spec

(***************************************************************************)
(* While the user is asked, and until the answer is stored, the thread     *)
(* that asked does not go on, whatever timers, cancellations and input the *)
(* nested loops of the handler dispatch.  The state is of its type.        *)
(***************************************************************************)
ThreadWaitsWhileAsking ==
  /\ DialogType
  /\ pc \in {"loop3", "drain"} =>
       mutex = "main" /\ worker.pc \in {"waiting", "woken"}

(***************************************************************************)
(* A dialog that nobody touches any more goes away: a prompt times out,    *)
(* failures are limited, and no combination of timers, nested loops and    *)
(* insensitive widgets leaves it on the screen.                            *)
(***************************************************************************)
DialogEnds == <>(pc = "exited")
=============================================================================
