--------------------------- MODULE LockDialogProofs ---------------------------
(***************************************************************************)
(* Proofs about the dialog process, for any number of attempts, messages   *)
(* of PAM and actions of the user: the thread that asked waits while the   *)
(* user is asked, and the lines that the process writes obey the protocol  *)
(* that the daemon's side (GSWindow) assumes.                              *)
(***************************************************************************)
EXTENDS LockDialog, TLAPS

-----------------------------------------------------------------------------
(* The inductive invariant *)

\* where auth_check_idle is being dispatched
Checking == {"loop2", "handler", "loop3", "drain"}

(***************************************************************************)
(* The thread: a handler whose data is there belongs to a thread that      *)
(* waits for it, so the one that is run finds it waiting and, with the     *)
(* mutex, keeps it so; outside of auth_check_idle there is no thread.      *)
(***************************************************************************)
ThreadOrder ==
  /\ pc \in {"init", "loop1", "leaving"} => worker.pc = "none"
  /\ \A i \in 1..Len(handlers) :
       handlers[i] => worker.pc \in {"waiting", "woken"}
  /\ pc = "handler" => handlers # <<>>
  /\ pc \in {"loop3", "drain"} =>
       mutex = "main" /\ worker.pc \in {"waiting", "woken"}

(***************************************************************************)
(* The attempts: there is one to come or going on exactly until the user   *)
(* is accepted or the attempts are used up, so the three ways to end       *)
(* exclude each other.                                                     *)
(***************************************************************************)
AttemptOrder ==
  /\ pc \in Checking => sources.auth
  /\ sources.popup => ~sources.auth /\ failures = 0 /\ ~plug.visible
  /\ sources.popup \/ sources.auth =>
       /\ ~accepted /\ ~sources.ok /\ ~sources.quit_request /\ said # "quit"
       /\ failures < MaxFailures
  /\ sources.resets <= failures
  /\ pc = "init" => sources = NoSources /\ failures = 0 /\ said = "none" /\ ~plug.visible
  /\ sources.ok => accepted
  /\ sources.quit_request => ~accepted

\* The lines: nothing follows RESPONSE=OK, and what cancels can be seen.
LineOrder ==
  /\ said = "ok" => pc \in {"leaving", "exited"}
  /\ said = "quit" => ~accepted
  /\ plug.cancel_timeout \/ plug.response_idle => plug.visible

DialogInv == DialogType /\ ThreadOrder /\ AttemptOrder /\ LineOrder

-----------------------------------------------------------------------------
(* Parts of the actions *)

\* What a response that cancels leaves.
LEMMA CancelKeeps ==
  ASSUME DialogInv, InLoop, plug.visible, response_cancel, inputs' \in 0..MaxInputs
  PROVE  DialogInv'
<1>1. DialogType'
  <2>1. plug' \in PlugState
    BY DialogBoundsAssumption
    DEF response_cancel, RunEnds, Responded, PromptDisabled, InLoop, DialogInv,
        DialogType, PlugState
  <2> QED
    BY DialogBoundsAssumption, <2>1
    DEF response_cancel, RunEnds, Responded, PromptDisabled, InLoop, DialogInv,
        DialogType, AttemptOrder, ThreadOrder
<1>2. ThreadOrder'
  BY DEF response_cancel, RunEnds, Responded, PromptDisabled, InLoop, DialogInv,
      DialogType, ThreadOrder, AttemptOrder, Checking, WorkerState
<1>3. AttemptOrder'
  BY DEF response_cancel, RunEnds, Responded, PromptDisabled, InLoop, DialogInv,
      DialogType, AttemptOrder, LineOrder, Checking, NoSources, SourceState, PlugState,
      WorkerState
<1>4. LineOrder'
  BY DEF response_cancel, RunEnds, Responded, PromptDisabled, InLoop, DialogInv,
      DialogType, AttemptOrder, LineOrder, Checking, SourceState, PlugState, WorkerState
<1> QED BY <1>1, <1>2, <1>3, <1>4 DEF DialogInv

\* What a response to the prompt leaves.
LEMMA OkKeeps ==
  ASSUME DialogInv, plug.visible, response_ok, inputs' \in 0..MaxInputs
  PROVE  DialogInv'
<1>1. DialogType'
  <2>1. plug' \in PlugState
    BY DialogBoundsAssumption
    DEF response_ok, RunEnds, Responded, PromptDisabled, Sensitive, DialogInv,
        DialogType, PlugState
  <2> QED
    BY DialogBoundsAssumption, <2>1
    DEF response_ok, RunEnds, Responded, PromptDisabled, Sensitive, DialogInv,
        DialogType, AttemptOrder, ThreadOrder
<1>2. ThreadOrder'
  BY DEF response_ok, RunEnds, Responded, PromptDisabled, Sensitive, DialogInv, DialogType,
      ThreadOrder, AttemptOrder, Checking, WorkerState
<1>3. AttemptOrder'
  BY DEF response_ok, RunEnds, Responded, PromptDisabled, Sensitive, DialogInv, DialogType,
      AttemptOrder, LineOrder, Checking, NoSources, SourceState, PlugState, WorkerState
<1>4. LineOrder'
  BY DEF response_ok, RunEnds, Responded, PromptDisabled, Sensitive, DialogInv, DialogType,
      AttemptOrder, LineOrder, Checking, SourceState, PlugState, WorkerState
<1> QED BY <1>1, <1>2, <1>3, <1>4 DEF DialogInv

\* What a step that only touches the plug leaves.
LEMMA PlugKeeps ==
  ASSUME DialogInv, plug.visible, NEW g \in PlugState, PlugStep(g), g.visible,
         inputs' \in 0..MaxInputs
  PROVE  DialogInv'
<1>1. DialogType'
  BY DialogBoundsAssumption DEF PlugStep, DialogInv, DialogType
<1>2. ThreadOrder'
  BY DEF PlugStep, DialogInv, DialogType, ThreadOrder, AttemptOrder, Checking, WorkerState
<1>3. AttemptOrder'
  BY DEF PlugStep, DialogInv, DialogType, AttemptOrder, LineOrder, Checking, NoSources,
      SourceState, PlugState, WorkerState
<1>4. LineOrder'
  BY DEF PlugStep, DialogInv, DialogType, AttemptOrder, LineOrder, Checking, SourceState,
      PlugState, WorkerState
<1> QED BY <1>1, <1>2, <1>3, <1>4 DEF DialogInv

\* What the end of an attempt leaves of the order of the attempts and lines:
\* of one that succeeds,
LEMMA AttemptSucceeds ==
  ASSUME DialogInv, sources.auth, said # "ok", pc' = "loop1", accepted',
         sources' = [sources EXCEPT !.auth = FALSE, !.ok = TRUE],
         UNCHANGED <<failures, said>>, plug'.visible <=> plug.visible,
         plug'.cancel_timeout <=> plug.cancel_timeout,
         plug'.response_idle <=> plug.response_idle
  PROVE  sources' \in SourceState /\ AttemptOrder' /\ LineOrder'
<1>1. sources' \in SourceState
  BY DEF DialogInv, DialogType, SourceState
<1>2. /\ ~sources'.auth /\ ~sources'.popup /\ sources'.ok
      /\ ~sources'.quit_request /\ sources'.resets = sources.resets
  BY DEF DialogInv, DialogType, SourceState, AttemptOrder
<1>3. AttemptOrder'
  BY <1>2 DEF DialogInv, AttemptOrder, Checking
<1>4. LineOrder'
  BY <1>2 DEF DialogInv, AttemptOrder, LineOrder
<1> QED BY <1>1, <1>3, <1>4

\* and of one that fails.
LEMMA AttemptFails ==
  ASSUME DialogInv, sources.auth, pc' = "loop1", said' = "failed",
         failures' = failures + 1, UNCHANGED accepted,
         sources' = IF failures' < MaxFailures
                    THEN [sources EXCEPT !.resets = @ + 1]
                    ELSE [sources EXCEPT !.auth = FALSE, !.quit_request = TRUE,
                                         !.quit_timeout = TRUE],
         plug'.visible <=> plug.visible,
         plug'.cancel_timeout <=> plug.cancel_timeout,
         plug'.response_idle <=> plug.response_idle
  PROVE  /\ sources' \in SourceState /\ failures' \in 0..MaxFailures
         /\ AttemptOrder' /\ LineOrder'
<1>1. /\ failures \in Nat /\ failures < MaxFailures /\ sources \in SourceState
      /\ sources.resets \in Nat /\ sources.resets <= failures
      /\ ~accepted /\ ~sources.popup /\ ~sources.ok /\ ~sources.quit_request
  BY DialogBoundsAssumption DEF DialogInv, DialogType, SourceState, AttemptOrder
<1>2. failures' \in 0..MaxFailures
  BY <1>1, DialogBoundsAssumption
<1>3. CASE failures' < MaxFailures
  <2>1. sources.resets + 1 \in 0..MaxFailures
    BY <1>1, <1>3, DialogBoundsAssumption
  <2>2. sources' = [sources EXCEPT !.resets = sources.resets + 1]
    BY <1>3
  <2>3. /\ sources' \in SourceState /\ sources'.auth /\ ~sources'.popup
        /\ ~sources'.ok /\ ~sources'.quit_request
        /\ sources'.resets = sources.resets + 1
    BY <1>1, <2>1, <2>2 DEF SourceState
  <2>4. sources'.resets <= failures'
    BY <1>1, <2>3
  <2> QED
    BY <1>1, <1>2, <1>3, <2>3, <2>4
    DEF DialogInv, AttemptOrder, LineOrder, Checking
<1>4. CASE ~(failures' < MaxFailures)
  <2>1. /\ sources' \in SourceState /\ ~sources'.auth /\ ~sources'.popup
        /\ ~sources'.ok /\ sources'.resets = sources.resets
    BY <1>1, <1>4 DEF SourceState
  <2>2. sources'.resets <= failures'
    BY <1>1, <2>1
  <2> QED BY <1>1, <1>2, <2>1, <2>2 DEF DialogInv, AttemptOrder, LineOrder, Checking
<1> QED BY <1>3, <1>4

-----------------------------------------------------------------------------

LEMMA DialogStarts == DialogInit => DialogInv
<1> SUFFICES ASSUME DialogInit PROVE DialogInv
  OBVIOUS
<1>1. sources \in SourceState
  BY DialogBoundsAssumption DEF DialogInit, NoSources, SourceState
<1>2. plug \in PlugState
  BY DialogBoundsAssumption DEF DialogInit, NewPlug, PlugState
<1>3. worker \in WorkerState
  BY DialogBoundsAssumption DEF DialogInit, NoWorker, WorkerState
<1>4. DialogType
  <2>1. 0 \in 0..MaxFailures /\ 0 \in 0..MaxInputs
    BY DialogBoundsAssumption
  <2>2. handlers \in Seq(BOOLEAN)
    BY DEF DialogInit
  <2> QED BY <1>1, <1>2, <1>3, <2>1, <2>2 DEF DialogInit, DialogType
<1>5. ThreadOrder
  BY DEF DialogInit, ThreadOrder, NoWorker
<1>6. AttemptOrder
  BY DialogBoundsAssumption DEF DialogInit, AttemptOrder, NoSources, NewPlug, Checking
<1>7. LineOrder
  BY DEF DialogInit, LineOrder, NewPlug
<1> QED BY <1>4, <1>5, <1>6, <1>7 DEF DialogInv

LEMMA DialogStep == DialogInv /\ [DialogNext]_dialogVars => DialogInv'
<1> SUFFICES ASSUME DialogInv, [DialogNext]_dialogVars PROVE DialogInv'
  OBVIOUS
<1>1. CASE UNCHANGED dialogVars
  BY <1>1 DEF dialogVars, DialogInv, DialogType, ThreadOrder, AttemptOrder, LineOrder
<1>2. CASE initialization
  <2>1. DialogType'
    <3>1. sources' \in SourceState
      BY <1>2, DialogBoundsAssumption
      DEF initialization, DialogInv, DialogType, SourceState, AttemptOrder
    <3> QED
      BY <1>2, DialogBoundsAssumption, <3>1
      DEF initialization, DialogInv, DialogType, AttemptOrder, ThreadOrder
  <2>2. ThreadOrder'
    BY <1>2
    DEF initialization, DialogInv, DialogType, ThreadOrder, AttemptOrder, Checking,
        WorkerState
  <2>3. AttemptOrder'
    BY <1>2, DialogBoundsAssumption
    DEF initialization, DialogInv, DialogType, AttemptOrder, LineOrder, Checking,
        NoSources, SourceState, PlugState, WorkerState
  <2>4. LineOrder'
    BY <1>2
    DEF initialization, DialogInv, DialogType, AttemptOrder, LineOrder, Checking,
        SourceState, PlugState, WorkerState
  <2> QED BY <2>1, <2>2, <2>3, <2>4 DEF DialogInv
<1>3. CASE response_lock_init_failed
  <2>1. DialogType'
    BY <1>3, DialogBoundsAssumption DEF response_lock_init_failed, DialogInv, DialogType
  <2>2. ThreadOrder'
    BY <1>3
    DEF response_lock_init_failed, DialogInv, DialogType, ThreadOrder, AttemptOrder,
        Checking, WorkerState
  <2>3. AttemptOrder'
    BY <1>3
    DEF response_lock_init_failed, DialogInv, DialogType, AttemptOrder, LineOrder,
        Checking, NoSources, SourceState, PlugState, WorkerState
  <2>4. LineOrder'
    BY <1>3
    DEF response_lock_init_failed, DialogInv, DialogType, AttemptOrder, LineOrder,
        Checking, SourceState, PlugState, WorkerState
  <2> QED BY <2>1, <2>2, <2>3, <2>4 DEF DialogInv
<1>4. CASE main_returns
  <2>1. DialogType'
    BY <1>4, DialogBoundsAssumption DEF main_returns, DialogInv, DialogType
  <2>2. ThreadOrder'
    BY <1>4
    DEF main_returns, DialogInv, DialogType, ThreadOrder, AttemptOrder, Checking,
        WorkerState
  <2>3. AttemptOrder'
    BY <1>4
    DEF main_returns, DialogInv, DialogType, AttemptOrder, LineOrder, Checking,
        NoSources, SourceState, PlugState, WorkerState
  <2>4. LineOrder'
    BY <1>4
    DEF main_returns, DialogInv, DialogType, AttemptOrder, LineOrder, Checking,
        SourceState, PlugState, WorkerState
  <2> QED BY <2>1, <2>2, <2>3, <2>4 DEF DialogInv
<1>5. CASE popup_dialog_idle
  <2>1. DialogType'
    <3>1. sources' \in SourceState
      BY <1>5, DialogBoundsAssumption
      DEF popup_dialog_idle, DialogInv, DialogType, SourceState, AttemptOrder
    <3> QED
      BY <1>5, DialogBoundsAssumption, <3>1
      DEF popup_dialog_idle, DialogInv, DialogType, AttemptOrder, ThreadOrder
  <2>2. ThreadOrder'
    BY <1>5
    DEF popup_dialog_idle, DialogInv, DialogType, ThreadOrder, AttemptOrder, Checking,
        WorkerState
  <2>3. AttemptOrder'
    BY <1>5
    DEF popup_dialog_idle, DialogInv, DialogType, AttemptOrder, LineOrder, Checking,
        NoSources, SourceState, PlugState, WorkerState
  <2>4. LineOrder'
    BY <1>5
    DEF popup_dialog_idle, DialogInv, DialogType, AttemptOrder, LineOrder, Checking,
        SourceState, PlugState, WorkerState
  <2> QED BY <2>1, <2>2, <2>3, <2>4 DEF DialogInv
<1>6. CASE auth_check_idle
  <2>1. /\ sources.auth /\ plug \in PlugState /\ worker \in WorkerState
        /\ worker.pc = "none" /\ plug' = PromptDisabled(plug)
        /\ UNCHANGED <<handlers, mutex, asked, inputs>>
    BY <1>6 DEF auth_check_idle, auth_ends, DialogInv, DialogType, ThreadOrder
  <2>2. /\ plug' \in PlugState /\ plug'.visible = plug.visible
        /\ plug'.cancel_timeout = plug.cancel_timeout
        /\ plug'.response_idle = plug.response_idle
    BY <2>1 DEF PromptDisabled, PlugState
  <2>3. CASE auth_ends(FALSE, PromptDisabled(plug)) /\ UNCHANGED <<quit2, worker>>
    <3>1. pc' = "loop1" /\ said' = "failed" /\ UNCHANGED accepted
      BY <2>3 DEF auth_ends
    <3>2. /\ sources' \in SourceState /\ failures' \in 0..MaxFailures
          /\ AttemptOrder' /\ LineOrder'
      BY <2>1, <2>2, <2>3, AttemptFails DEF auth_ends
    <3>3. DialogType'
      BY <2>1, <2>2, <2>3, <3>1, <3>2 DEF DialogInv, DialogType
    <3>4. ThreadOrder'
      BY <2>1, <2>3, <3>1 DEF DialogInv, ThreadOrder
    <3> QED BY <3>2, <3>3, <3>4 DEF DialogInv
  <2>4. CASE /\ pc' = "loop2" /\ quit2' = FALSE
             /\ worker' = [NoWorker EXCEPT !.pc = "pam"]
             /\ UNCHANGED <<sources, failures, accepted, said>>
    <3>1. worker' \in WorkerState
      <4>1. 0 \in 0..MaxMessages
        BY DialogBoundsAssumption
      <4> QED BY <2>4, <4>1 DEF NoWorker, WorkerState
    <3>2. DialogType'
      BY <2>1, <2>2, <2>4, <3>1 DEF DialogInv, DialogType
    <3>3. ThreadOrder'
      BY <2>1, <2>4 DEF DialogInv, ThreadOrder
    <3>4. AttemptOrder'
      BY <2>1, <2>2, <2>4 DEF DialogInv, AttemptOrder
    <3>5. pc = "loop1"
      BY <1>6 DEF auth_check_idle
    <3>6. LineOrder'
      BY <2>1, <2>2, <2>4, <3>5 DEF DialogInv, LineOrder
    <3> QED BY <3>2, <3>3, <3>4, <3>6 DEF DialogInv
  <2> QED BY <1>6, <2>3, <2>4 DEF auth_check_idle
<1>7. CASE gs_auth_loop_quit
  <2>1. /\ sources.auth /\ pc' = "loop1" /\ plug' = plug /\ plug \in PlugState
        /\ worker.pc = "closed" /\ worker' \in WorkerState /\ worker'.pc = "none"
        /\ quit2' = FALSE /\ UNCHANGED <<handlers, mutex, asked, inputs>>
    BY <1>7 DEF gs_auth_loop_quit, auth_ends, DialogInv, DialogType, AttemptOrder,
                Checking, WorkerState
  <2>2. ThreadOrder'
    BY <2>1 DEF DialogInv, ThreadOrder
  <2>3. CASE worker.status = "success"
    <3>1. /\ accepted' /\ sources' = [sources EXCEPT !.auth = FALSE, !.ok = TRUE]
          /\ UNCHANGED <<failures, said>>
      BY <1>7, <2>3 DEF gs_auth_loop_quit, auth_ends
    <3>2. sources' \in SourceState /\ AttemptOrder' /\ LineOrder'
      <4>1. said # "ok"
        BY <1>7 DEF gs_auth_loop_quit, DialogInv, LineOrder
      <4> QED BY <2>1, <3>1, <4>1, AttemptSucceeds
    <3>3. accepted' \in BOOLEAN
      BY <1>7, <2>3 DEF gs_auth_loop_quit, auth_ends
    <3>4. DialogType'
      BY <2>1, <3>1, <3>2, <3>3 DEF DialogInv, DialogType
    <3> QED BY <2>2, <3>2, <3>4 DEF DialogInv
  <2>4. CASE worker.status # "success"
    <3>1. said' = "failed" /\ UNCHANGED accepted
      BY <1>7, <2>4 DEF gs_auth_loop_quit, auth_ends
    <3>2. /\ sources' \in SourceState /\ failures' \in 0..MaxFailures
          /\ AttemptOrder' /\ LineOrder'
      BY <1>7, <2>1, <2>4, <3>1, AttemptFails DEF gs_auth_loop_quit, auth_ends
    <3>3. DialogType'
      BY <2>1, <3>1, <3>2 DEF DialogInv, DialogType
    <3> QED BY <2>2, <3>2, <3>3 DEF DialogInv
  <2> QED BY <2>3, <2>4
<1>8. CASE gs_auth_raise
  <2>1. DialogType'
    BY <1>8, DialogBoundsAssumption DEF gs_auth_raise, DialogInv, DialogType
  <2>2. ThreadOrder'
    BY <1>8
    DEF gs_auth_raise, DialogInv, DialogType, ThreadOrder, AttemptOrder, Checking,
        WorkerState
  <2>3. AttemptOrder'
    BY <1>8
    DEF gs_auth_raise, DialogInv, DialogType, AttemptOrder, LineOrder, Checking,
        NoSources, SourceState, PlugState, WorkerState
  <2>4. LineOrder'
    BY <1>8
    DEF gs_auth_raise, DialogInv, DialogType, AttemptOrder, LineOrder, Checking,
        SourceState, PlugState, WorkerState
  <2> QED BY <2>1, <2>2, <2>3, <2>4 DEF DialogInv
<1>9. CASE quit_response_ok
  <2>1. DialogType'
    <3>1. sources' \in SourceState
      BY <1>9, DialogBoundsAssumption
      DEF quit_response_ok, DialogInv, DialogType, SourceState, AttemptOrder
    <3> QED
      BY <1>9, DialogBoundsAssumption, <3>1
      DEF quit_response_ok, DialogInv, DialogType, AttemptOrder, ThreadOrder
  <2>2. ThreadOrder'
    BY <1>9
    DEF quit_response_ok, DialogInv, DialogType, ThreadOrder, AttemptOrder, Checking,
        WorkerState
  <2>3. AttemptOrder'
    BY <1>9
    DEF quit_response_ok, DialogInv, DialogType, AttemptOrder, LineOrder, Checking,
        NoSources, SourceState, PlugState, WorkerState
  <2>4. LineOrder'
    BY <1>9
    DEF quit_response_ok, DialogInv, DialogType, AttemptOrder, LineOrder, Checking,
        SourceState, PlugState, WorkerState
  <2> QED BY <2>1, <2>2, <2>3, <2>4 DEF DialogInv
<1>10. CASE response_request_quit
  <2>1. DialogType'
    <3>1. sources' \in SourceState
      BY <1>10, DialogBoundsAssumption
      DEF response_request_quit, DialogInv, DialogType, SourceState, AttemptOrder
    <3> QED
      BY <1>10, DialogBoundsAssumption, <3>1
      DEF response_request_quit, DialogInv, DialogType, AttemptOrder, ThreadOrder
  <2>2. ThreadOrder'
    BY <1>10
    DEF response_request_quit, DialogInv, DialogType, ThreadOrder, AttemptOrder,
        Checking, WorkerState
  <2>3. AttemptOrder'
    BY <1>10
    DEF response_request_quit, DialogInv, DialogType, AttemptOrder, LineOrder, Checking,
        NoSources, SourceState, PlugState, WorkerState
  <2>4. LineOrder'
    BY <1>10
    DEF response_request_quit, DialogInv, DialogType, AttemptOrder, LineOrder, Checking,
        SourceState, PlugState, WorkerState
  <2> QED BY <2>1, <2>2, <2>3, <2>4 DEF DialogInv
<1>11. CASE gs_auth_queued_message_handler
  <2>1. DialogType'
    BY <1>11, DialogBoundsAssumption
    DEF gs_auth_queued_message_handler, DialogInv, DialogType
  <2>2. ThreadOrder'
    BY <1>11
    DEF gs_auth_queued_message_handler, DialogInv, DialogType, ThreadOrder,
        AttemptOrder, Checking, WorkerState
  <2>3. AttemptOrder'
    BY <1>11
    DEF gs_auth_queued_message_handler, DialogInv, DialogType, AttemptOrder, LineOrder,
        Checking, NoSources, SourceState, PlugState, WorkerState
  <2>4. LineOrder'
    BY <1>11
    DEF gs_auth_queued_message_handler, DialogInv, DialogType, AttemptOrder, LineOrder,
        Checking, SourceState, PlugState, WorkerState
  <2> QED BY <2>1, <2>2, <2>3, <2>4 DEF DialogInv
<1>12. CASE auth_message_handler
  <2>1. DialogType'
    <3>1. plug' \in PlugState
      <4> DEFINE s == PlugShown
      <4>1. s \in PlugState
        BY DEF DialogInv, DialogType, PlugShown, PlugState
      <4>2. plug' = s \/ plug' = PromptEnabled(s)
        BY <1>12 DEF auth_message_handler
      <4>3. 0 \in 0..MaxKeys
        BY DialogBoundsAssumption
      <4> HIDE DEF s
      <4> QED BY <4>1, <4>2, <4>3 DEF PromptEnabled, PlugState
    <3> QED
      <4>1. /\ handlers \in Seq(BOOLEAN) /\ handlers # <<>>
        BY <1>12 DEF auth_message_handler, DialogInv, DialogType, ThreadOrder
      <4>2. Tail(handlers) \in Seq(BOOLEAN)
        BY <4>1
      <4> QED BY <1>12, <3>1, <4>2 DEF auth_message_handler, DialogInv, DialogType
  <2>2. ThreadOrder'
    <3>1. /\ handlers \in Seq(BOOLEAN) /\ handlers # <<>> /\ Head(handlers)
          /\ handlers' = Tail(handlers) /\ worker' = worker /\ mutex' = "main"
          /\ pc' \in {"loop3", "drain"}
      BY <1>12 DEF auth_message_handler, DialogInv, DialogType, ThreadOrder
    <3>0. handlers \in Seq(BOOLEAN) /\ handlers # <<>>
      BY <3>1
    <3>2. 1 \in 1..Len(handlers)
      BY <3>0
    <3>3. handlers[1]
      <4>1. Head(handlers) = handlers[1]
        BY <3>0
      <4> QED BY <3>1, <4>1, Zenon
    <3>4. worker.pc \in {"waiting", "woken"}
      BY <3>2, <3>3 DEF DialogInv, ThreadOrder
    <3> QED BY <3>1, <3>4 DEF ThreadOrder
  <2>3. AttemptOrder'
    BY <1>12
    DEF auth_message_handler, PromptEnabled, PlugShown, DialogInv, DialogType,
        AttemptOrder, LineOrder, Checking, NoSources, SourceState, PlugState,
        WorkerState
  <2>4. LineOrder'
    <3>1. plug'.visible
      BY <1>12
      DEF auth_message_handler, PromptEnabled, PlugShown, DialogInv, DialogType,
               PlugState
    <3>2. /\ said # "ok" /\ said' \in {said, "id"} /\ accepted' = accepted
      BY <1>12 DEF auth_message_handler, DialogInv, LineOrder
    <3> QED BY <3>1, <3>2 DEF DialogInv, LineOrder
  <2> QED BY <2>1, <2>2, <2>3, <2>4 DEF DialogInv
<1>13. CASE message_handled
  <2>1. DialogType'
    <3>1. worker' \in WorkerState
      BY <1>13, DialogBoundsAssumption
      DEF message_handled, DialogInv, DialogType, WorkerState
    <3> QED
      BY <1>13, DialogBoundsAssumption, <3>1
      DEF message_handled, DialogInv, DialogType, AttemptOrder, ThreadOrder
  <2>2. ThreadOrder'
    BY <1>13
    DEF message_handled, DialogInv, DialogType, ThreadOrder, AttemptOrder, Checking,
        WorkerState
  <2>3. AttemptOrder'
    BY <1>13
    DEF message_handled, DialogInv, DialogType, AttemptOrder, LineOrder, Checking,
        NoSources, SourceState, PlugState, WorkerState
  <2>4. LineOrder'
    BY <1>13
    DEF message_handled, DialogInv, DialogType, AttemptOrder, LineOrder, Checking,
        SourceState, PlugState, WorkerState
  <2> QED BY <2>1, <2>2, <2>3, <2>4 DEF DialogInv
<1>14. CASE quit_timeout_cb
  <2>1. DialogType'
    BY <1>14, DialogBoundsAssumption DEF quit_timeout_cb, DialogInv, DialogType
  <2>2. ThreadOrder'
    BY <1>14
    DEF quit_timeout_cb, DialogInv, DialogType, ThreadOrder, AttemptOrder, Checking,
        WorkerState
  <2>3. AttemptOrder'
    BY <1>14
    DEF quit_timeout_cb, DialogInv, DialogType, AttemptOrder, LineOrder, Checking,
        NoSources, SourceState, PlugState, WorkerState
  <2>4. LineOrder'
    BY <1>14
    DEF quit_timeout_cb, DialogInv, DialogType, AttemptOrder, LineOrder, Checking,
        SourceState, PlugState, WorkerState
  <2> QED BY <2>1, <2>2, <2>3, <2>4 DEF DialogInv
<1>15. CASE dialog_timed_out
  <2>1. DialogType'
    <3>1. plug' \in PlugState
      BY <1>15, DialogBoundsAssumption
      DEF dialog_timed_out, Sensitive, InLoop, DialogInv, DialogType, PlugState
    <3> QED
      BY <1>15, DialogBoundsAssumption, <3>1
      DEF dialog_timed_out, Sensitive, InLoop, DialogInv, DialogType, AttemptOrder,
          ThreadOrder
  <2>2. ThreadOrder'
    BY <1>15
    DEF dialog_timed_out, Sensitive, InLoop, DialogInv, DialogType, ThreadOrder,
        AttemptOrder, Checking, WorkerState
  <2>3. AttemptOrder'
    BY <1>15
    DEF dialog_timed_out, Sensitive, InLoop, DialogInv, DialogType, AttemptOrder,
        LineOrder, Checking, NoSources, SourceState, PlugState, WorkerState
  <2>4. LineOrder'
    BY <1>15
    DEF dialog_timed_out, Sensitive, InLoop, DialogInv, DialogType, AttemptOrder,
        LineOrder, Checking, SourceState, PlugState, WorkerState
  <2> QED BY <2>1, <2>2, <2>3, <2>4 DEF DialogInv
<1>16. CASE response_cancel_idle_cb
  <2>1. InLoop /\ plug.visible /\ response_cancel /\ inputs' \in 0..MaxInputs
    BY <1>16 DEF response_cancel_idle_cb, DialogInv, LineOrder, DialogType
  <2> QED BY <2>1, CancelKeeps
<1>17. CASE reset_idle_cb
  <2>1. DialogType'
    <3>1. sources' \in SourceState
      BY <1>17, DialogBoundsAssumption
      DEF reset_idle_cb, Sensitive, InLoop, DialogInv, DialogType, SourceState,
          AttemptOrder
    <3>2. plug' \in PlugState
      BY <1>17, DialogBoundsAssumption
      DEF reset_idle_cb, Sensitive, InLoop, DialogInv, DialogType, PlugState
    <3> QED
      BY <1>17, DialogBoundsAssumption, <3>1, <3>2
      DEF reset_idle_cb, Sensitive, InLoop, DialogInv, DialogType, AttemptOrder,
          ThreadOrder
  <2>2. ThreadOrder'
    BY <1>17
    DEF reset_idle_cb, Sensitive, InLoop, DialogInv, DialogType, ThreadOrder,
        AttemptOrder, Checking, WorkerState
  <2>3. AttemptOrder'
    BY <1>17
    DEF reset_idle_cb, Sensitive, InLoop, DialogInv, DialogType, AttemptOrder,
        LineOrder, Checking, NoSources, SourceState, PlugState, WorkerState
  <2>4. LineOrder'
    BY <1>17
    DEF reset_idle_cb, Sensitive, InLoop, DialogInv, DialogType, AttemptOrder,
        LineOrder, Checking, SourceState, PlugState, WorkerState
  <2> QED BY <2>1, <2>2, <2>3, <2>4 DEF DialogInv
<1>18. CASE pam_authenticate
  <2>1. DialogType'
    <3>1. worker' \in WorkerState
      <4>1. CASE worker.messages < MaxMessages
                 /\ \E style \in {"prompt", "info"} :
                      worker' = [worker EXCEPT !.pc = "message", !.style = style,
                                               !.messages = worker.messages + 1]
        <5>1. worker.messages + 1 \in 0..MaxMessages
          BY <4>1, DialogBoundsAssumption DEF DialogInv, DialogType, WorkerState
        <5>2. PICK style \in {"prompt", "info"} :
                worker' = [worker EXCEPT !.pc = "message", !.style = style,
                                         !.messages = worker.messages + 1]
          BY <4>1
        <5> QED BY <5>1, <5>2 DEF DialogInv, DialogType, WorkerState
      <4>2. CASE \E status \in {"failure", "success"} :
                   worker' = [worker EXCEPT !.pc = "closed", !.status = status]
        BY <4>2 DEF DialogInv, DialogType, WorkerState
      <4>3. \/ /\ worker.messages < MaxMessages
               /\ \E style \in {"prompt", "info"} :
                    worker' = [worker EXCEPT !.pc = "message", !.style = style,
                                             !.messages = worker.messages + 1]
            \/ worker' = [worker EXCEPT !.pc = "closed", !.status = "failure"]
            \/ worker' = [worker EXCEPT !.pc = "closed", !.status = "success"]
        BY <1>18 DEF pam_authenticate
      <4> QED BY <4>1, <4>2, <4>3
    <3> QED
      BY <1>18, DialogBoundsAssumption, <3>1
      DEF pam_authenticate, DialogInv, DialogType, AttemptOrder, ThreadOrder
  <2>2. ThreadOrder'
    BY <1>18
    DEF pam_authenticate, DialogInv, DialogType, ThreadOrder, AttemptOrder, Checking,
        WorkerState
  <2>3. AttemptOrder'
    BY <1>18
    DEF pam_authenticate, DialogInv, DialogType, AttemptOrder, LineOrder, Checking,
        NoSources, SourceState, PlugState, WorkerState
  <2>4. LineOrder'
    BY <1>18
    DEF pam_authenticate, DialogInv, DialogType, AttemptOrder, LineOrder, Checking,
        SourceState, PlugState, WorkerState
  <2> QED BY <2>1, <2>2, <2>3, <2>4 DEF DialogInv
<1>19. CASE gs_auth_run_message_handler
  <2>1. DialogType'
    <3>1. worker' \in WorkerState
      BY <1>19, DialogBoundsAssumption
      DEF gs_auth_run_message_handler, DialogInv, DialogType, WorkerState
    <3> QED
      BY <1>19, DialogBoundsAssumption, <3>1
      DEF gs_auth_run_message_handler, DialogInv, DialogType, AttemptOrder, ThreadOrder
  <2>2. ThreadOrder'
    <3>1. /\ handlers \in Seq(BOOLEAN) /\ handlers' = Append(handlers, TRUE)
          /\ worker.pc = "message" /\ worker'.pc = "waiting"
          /\ UNCHANGED <<pc, mutex>>
      BY <1>19 DEF gs_auth_run_message_handler, DialogInv, DialogType, WorkerState
    <3>2. handlers' # <<>>
      <4>1. Len(handlers') = Len(handlers) + 1 /\ Len(handlers) \in Nat
        BY <3>1
      <4>2. Len(<<>>) = 0
        OBVIOUS
      <4> QED BY <4>1, <4>2
    <3> QED BY <3>1, <3>2 DEF DialogInv, ThreadOrder
  <2>3. AttemptOrder'
    BY <1>19
    DEF gs_auth_run_message_handler, DialogInv, DialogType, AttemptOrder, LineOrder,
        Checking, NoSources, SourceState, PlugState, WorkerState
  <2>4. LineOrder'
    BY <1>19
    DEF gs_auth_run_message_handler, DialogInv, DialogType, AttemptOrder, LineOrder,
        Checking, SourceState, PlugState, WorkerState
  <2> QED BY <2>1, <2>2, <2>3, <2>4 DEF DialogInv
<1>20. CASE message_handler_returns
  <2>1. DialogType'
    <3>1. worker' \in WorkerState
      BY <1>20, DialogBoundsAssumption
      DEF message_handler_returns, DialogInv, DialogType, WorkerState
    <3> QED
      BY <1>20, DialogBoundsAssumption, <3>1
      DEF message_handler_returns, DialogInv, DialogType, AttemptOrder, ThreadOrder
  <2>2. ThreadOrder'
    <3>1. /\ handlers \in Seq(BOOLEAN)
          /\ handlers' = [i \in 1..Len(handlers) |-> FALSE]
          /\ worker.pc = "woken" /\ mutex = "free" /\ UNCHANGED <<pc, mutex>>
      BY <1>20 DEF message_handler_returns, DialogInv, DialogType
    <3>2. handlers' \in Seq(BOOLEAN) /\ Len(handlers') = Len(handlers)
      BY <3>1
    <3>3. \A i \in 1..Len(handlers') : ~handlers'[i]
      BY <3>1, <3>2
    <3>4. handlers # <<>> => handlers' # <<>>
      BY <3>1, <3>2
    <3> QED BY <3>1, <3>3, <3>4 DEF DialogInv, ThreadOrder
  <2>3. AttemptOrder'
    BY <1>20
    DEF message_handler_returns, DialogInv, DialogType, AttemptOrder, LineOrder,
        Checking, NoSources, SourceState, PlugState, WorkerState
  <2>4. LineOrder'
    BY <1>20
    DEF message_handler_returns, DialogInv, DialogType, AttemptOrder, LineOrder,
        Checking, SourceState, PlugState, WorkerState
  <2> QED BY <2>1, <2>2, <2>3, <2>4 DEF DialogInv
<1>21. CASE UserStep
  <2>0. InLoop /\ plug.visible /\ inputs' \in 0..MaxInputs /\ plug \in PlugState
    BY <1>21, DialogBoundsAssumption
    DEF UserStep, entry_key_press, unlock_button_clicked, cancel_button_clicked, take_note,
        submit_note, switch_user_button_clicked, UserActs, DialogInv, DialogType
  <2>1. \/ response_ok \/ response_cancel
        \/ PlugStep(KeyQueued(Restarted(plug))) \/ PlugStep(Restarted(plug))
        \/ PlugStep([Sensitive(plug, FALSE) EXCEPT !.response_idle = TRUE])
    BY <1>21
    DEF UserStep, entry_key_press, unlock_button_clicked, cancel_button_clicked,
        take_note, submit_note, switch_user_button_clicked, gs_lock_plug_close
  <2>2. CASE response_ok
    BY <2>0, <2>2, OkKeeps
  <2>3. CASE response_cancel
    BY <2>0, <2>3, CancelKeeps
  <2>4. Restarted(plug) \in PlugState /\ Restarted(plug).visible
    BY <2>0 DEF Restarted, PlugState
  <2>5. /\ KeyQueued(Restarted(plug)) \in PlugState
        /\ KeyQueued(Restarted(plug)).visible
    <3> DEFINE r == Restarted(plug)
    <3>1. r \in PlugState /\ r.visible
      BY <2>4
    <3> HIDE DEF r
    <3>2. KeyQueued(r) \in PlugState /\ KeyQueued(r).visible
      <4>1. r.keys \in 0..MaxKeys
        BY <3>1 DEF PlugState
      <4>2. (IF r.keys < MaxKeys THEN r.keys + 1 ELSE r.keys) \in 0..MaxKeys
        BY <4>1, DialogBoundsAssumption
      <4> QED BY <3>1, <4>2 DEF KeyQueued, PlugState
    <3> QED BY <3>2 DEF r
  <2>6. /\ [Sensitive(plug, FALSE) EXCEPT !.response_idle = TRUE] \in PlugState
        /\ [Sensitive(plug, FALSE) EXCEPT !.response_idle = TRUE].visible
    BY <2>0 DEF Sensitive, PlugState
  <2> QED BY <2>0, <2>1, <2>2, <2>3, <2>4, <2>5, <2>6, PlugKeeps
<1> QED
  BY <1>1, <1>2, <1>3, <1>4, <1>5, <1>6, <1>7, <1>8, <1>9, <1>10, <1>11, <1>12, <1>13,
     <1>14, <1>15, <1>16, <1>17, <1>18, <1>19, <1>20, <1>21
  DEF DialogNext, MainStep, Timer, WorkerStep

-----------------------------------------------------------------------------
(* The properties *)

\* The thread that asked waits, with the mutex in the main thread, until the
\* user's answer is stored, for any number of attempts, messages and actions.
THEOREM ThreadWaits == DialogSpec => []ThreadWaitsWhileAsking
<1>1. DialogInv => ThreadWaitsWhileAsking
  BY DEF DialogInv, ThreadOrder, ThreadWaitsWhileAsking
<1> QED BY <1>1, DialogStarts, DialogStep, PTL DEF DialogSpec

-----------------------------------------------------------------------------
(* The protocol *)

\* the process as the protocol sees it, and the protocol's view left alone
SeenUnchanged ==
  (pc' = "exited" <=> pc = "exited") /\ (plug'.visible <=> plug.visible)
    /\ accepted' = accepted /\ said' = said

\* What one line is in the protocol,
LEMMA LineIsAllowed ==
  ASSUME NEW line \in Protocol!Lines, DialogInv, DialogInv', pc # "exited",
         pc' # "exited", said # "ok", said' = line, accepted' = accepted,
         line = "id" => ~plug.visible /\ plug'.visible /\ said # "quit",
         line # "id" => (plug'.visible <=> plug.visible),
         line = "failed" => ~accepted /\ said # "quit",
         line = "ok" => accepted,
         line = "cancel" => plug.visible,
         line = "quit" => ~accepted
  PROVE  Protocol!Next
<1>1. Protocol!CanWrite(line)
  BY DEF Protocol!CanWrite, Protocol!Lines
<1>2. plug'.visible = (plug.visible \/ line = "id")
  BY DEF DialogInv, DialogType, PlugState
<1>3. [alive |-> pc' # "exited", shown |-> plug'.visible, accepted |-> accepted',
       last |-> said'] = Protocol!Wrote(line)
  <2>1. (pc' # "exited") = TRUE /\ (pc # "exited") = TRUE
    OBVIOUS
  <2> QED BY <1>2, <2>1 DEF Protocol!Wrote
<1> QED BY <1>1, <1>3 DEF Protocol!Next

\* an acceptance,
LEMMA AcceptIsAllowed ==
  ASSUME DialogInv, DialogInv', pc # "exited", pc' # "exited", ~accepted, accepted' = TRUE,
         said # "quit", said' = said, plug'.visible <=> plug.visible
  PROVE  Protocol!Next
<1>1. plug'.visible = plug.visible
  BY DEF DialogInv, DialogType, PlugState
<1>2. [alive |-> pc' # "exited", shown |-> plug'.visible, accepted |-> accepted',
       last |-> said'] = Protocol!Accepted
  <2>1. (pc' # "exited") = TRUE /\ (pc # "exited") = TRUE
    OBVIOUS
  <2> QED BY <1>1, <2>1 DEF Protocol!Accepted
<1> QED BY <1>2 DEF Protocol!Next, Protocol!CanAccept

\* and an end.
LEMMA ExitIsAllowed ==
  ASSUME pc # "exited", pc' = "exited", UNCHANGED <<accepted, said, plug>>
  PROVE  Protocol!Next
<1>1. (pc' # "exited") = FALSE /\ (pc # "exited") = TRUE
  OBVIOUS
<1>2. [alive |-> pc' # "exited", shown |-> plug'.visible, accepted |-> accepted',
       last |-> said'] = Protocol!Exited
  BY <1>1 DEF Protocol!Exited
<1> QED BY <1>2 DEF Protocol!Next

\* A cancellation is a line of a dialog that can be seen.
LEMMA CancelIsAllowed ==
  ASSUME DialogInv, DialogInv', InLoop, plug.visible, response_cancel
  PROVE  Protocol!Next
<1>1. /\ pc # "exited" /\ pc' # "exited" /\ said # "ok" /\ said' = "cancel"
      /\ accepted' = accepted
  BY DEF response_cancel, RunEnds, InLoop, DialogInv, LineOrder
<1>2. plug'.visible <=> plug.visible
  BY DEF response_cancel, RunEnds, Responded, PromptDisabled, DialogInv, DialogType,
         PlugState, InLoop
<1>3. "cancel" \in Protocol!Lines
  BY DEF Protocol!Lines
<1> QED BY <1>1, <1>2, <1>3, LineIsAllowed

\* A failed attempt is a line of a dialog that has accepted nobody.
LEMMA FailureIsAllowed ==
  ASSUME DialogInv, DialogInv', sources.auth, said # "ok", pc # "exited",
         pc' = "loop1", said' = "failed", accepted' = accepted,
         plug'.visible <=> plug.visible
  PROVE  Protocol!Next
<1>1. ~accepted /\ said # "quit"
  BY DEF DialogInv, AttemptOrder
<1>2. "failed" \in Protocol!Lines
  BY DEF Protocol!Lines
<1> QED BY <1>1, <1>2, LineIsAllowed

\* Every step of the process is a step of the protocol, or unseen.
LEMMA ProtocolStep ==
  ASSUME DialogInv, DialogInv', [DialogNext]_dialogVars
  PROVE  Protocol!Next \/ SeenUnchanged
<1>1. CASE \/ UNCHANGED dialogVars \/ popup_dialog_idle \/ gs_auth_queued_message_handler
           \/ message_handled \/ WorkerStep \/ quit_timeout_cb
  BY <1>1 DEF dialogVars, popup_dialog_idle, gs_auth_queued_message_handler,
              message_handled, WorkerStep, pam_authenticate,
              gs_auth_run_message_handler, message_handler_returns, quit_timeout_cb,
              SeenUnchanged
<1>2. CASE initialization
  <2>1. pc = "init" /\ ~accepted /\ said = "none" /\ UNCHANGED <<plug, said>>
    BY <1>2 DEF initialization, DialogInv, AttemptOrder
  <2>2. CASE pc' = "loop1" /\ UNCHANGED accepted
    BY <2>1, <2>2 DEF SeenUnchanged
  <2>3. CASE accepted' = TRUE /\ UNCHANGED pc
    BY <2>1, <2>3, AcceptIsAllowed
  <2>4. CASE pc' = "exited" /\ UNCHANGED accepted
    BY <2>1, <2>4, ExitIsAllowed
  <2> QED BY <1>2, <2>2, <2>3, <2>4 DEF initialization
<1>3. CASE response_lock_init_failed
  <2>1. /\ pc = "init" /\ pc' = "leaving" /\ accepted /\ said' = "ok" /\ said = "none"
        /\ UNCHANGED <<plug, accepted>>
    BY <1>3 DEF response_lock_init_failed, DialogInv, AttemptOrder
  <2>2. "ok" \in Protocol!Lines
    BY DEF Protocol!Lines
  <2> QED BY <2>1, <2>2, LineIsAllowed
<1>4. CASE main_returns \/ gs_auth_raise
  BY <1>4, ExitIsAllowed DEF main_returns, gs_auth_raise
<1>5. CASE auth_check_idle
  <2>1. /\ pc = "loop1" /\ sources.auth /\ said # "ok" /\ plug' = PromptDisabled(plug)
        /\ plug \in PlugState
    BY <1>5 DEF auth_check_idle, auth_ends, DialogInv, DialogType, LineOrder
  <2>2. plug'.visible <=> plug.visible
    BY <2>1 DEF PromptDisabled, PlugState
  <2>3. CASE auth_ends(FALSE, PromptDisabled(plug))
    BY <2>1, <2>2, <2>3, FailureIsAllowed DEF auth_ends
  <2>4. CASE pc' = "loop2" /\ UNCHANGED <<accepted, said>>
    BY <2>1, <2>2, <2>4 DEF SeenUnchanged
  <2> QED BY <1>5, <2>3, <2>4 DEF auth_check_idle
<1>6. CASE gs_auth_loop_quit
  <2>1. /\ pc = "loop2" /\ pc' = "loop1" /\ said # "ok" /\ plug' = plug /\ sources.auth
    BY <1>6
    DEF gs_auth_loop_quit, auth_ends, DialogInv, LineOrder, AttemptOrder, Checking
  <2>2. CASE worker.status = "success"
    <3>1. accepted' = TRUE /\ said' = said
      BY <1>6, <2>2 DEF gs_auth_loop_quit, auth_ends
    <3>2. ~accepted /\ said # "quit"
      BY <2>1 DEF DialogInv, AttemptOrder
    <3> QED BY <2>1, <3>1, <3>2, AcceptIsAllowed
  <2>3. CASE worker.status # "success"
    <3>1. said' = "failed" /\ accepted' = accepted
      BY <1>6, <2>3 DEF gs_auth_loop_quit, auth_ends
    <3> QED BY <2>1, <3>1, FailureIsAllowed
  <2> QED BY <2>2, <2>3
<1>7. CASE quit_response_ok
  <2>1. /\ pc = "loop1" /\ pc' = "leaving" /\ accepted /\ said' = "ok" /\ said # "ok"
        /\ UNCHANGED <<plug, accepted>>
    BY <1>7 DEF quit_response_ok, DialogInv, AttemptOrder, LineOrder
  <2>2. "ok" \in Protocol!Lines
    BY DEF Protocol!Lines
  <2> QED BY <2>1, <2>2, LineIsAllowed
<1>8. CASE response_request_quit
  <2>1. /\ pc = "loop1" /\ pc' = "loop1" /\ ~accepted /\ said' = "quit" /\ said # "ok"
        /\ UNCHANGED <<plug, accepted>>
    BY <1>8 DEF response_request_quit, DialogInv, AttemptOrder, LineOrder
  <2>2. "quit" \in Protocol!Lines
    BY DEF Protocol!Lines
  <2> QED BY <2>1, <2>2, LineIsAllowed
<1>9. CASE auth_message_handler
  <2>1. /\ pc = "handler" /\ pc' \in {"loop3", "drain"} /\ accepted' = accepted
        /\ said' = IF plug.visible THEN said ELSE "id"
        /\ said # "ok" /\ said # "quit"
    BY <1>9 DEF auth_message_handler, DialogInv, AttemptOrder, LineOrder, Checking
  <2>2. plug'.visible
    BY <1>9 DEF auth_message_handler, PromptEnabled, PlugShown, DialogInv, DialogType,
                PlugState
  <2>3. CASE plug.visible
    BY <2>1, <2>2, <2>3 DEF SeenUnchanged
  <2>4. CASE ~plug.visible
    <3>1. "id" \in Protocol!Lines
      BY DEF Protocol!Lines
    <3> QED BY <2>1, <2>2, <2>4, <3>1, LineIsAllowed
  <2> QED BY <2>3, <2>4
<1>10. CASE dialog_timed_out \/ reset_idle_cb
  <2>1. UNCHANGED <<pc, accepted, said>>
    BY <1>10 DEF dialog_timed_out, reset_idle_cb
  <2>2. plug'.visible <=> plug.visible
    BY <1>10 DEF dialog_timed_out, reset_idle_cb, Sensitive, DialogInv, DialogType,
                 PlugState
  <2> QED BY <2>1, <2>2 DEF SeenUnchanged
<1>11. CASE response_cancel_idle_cb
  <2>1. InLoop /\ plug.visible /\ response_cancel
    BY <1>11 DEF response_cancel_idle_cb, DialogInv, LineOrder
  <2> QED BY <2>1, CancelIsAllowed
<1>12. CASE UserStep
  <2>1. InLoop /\ plug.visible /\ plug \in PlugState
    BY <1>12
    DEF UserStep, entry_key_press, unlock_button_clicked, cancel_button_clicked, take_note,
        submit_note, switch_user_button_clicked, UserActs, DialogInv, DialogType
  <2>2. \/ response_ok \/ response_cancel
        \/ PlugStep(KeyQueued(Restarted(plug))) \/ PlugStep(Restarted(plug))
        \/ PlugStep([Sensitive(plug, FALSE) EXCEPT !.response_idle = TRUE])
    BY <1>12
    DEF UserStep, entry_key_press, unlock_button_clicked, cancel_button_clicked,
        take_note, submit_note, switch_user_button_clicked, gs_lock_plug_close
  <2>3. CASE response_cancel
    BY <2>1, <2>3, CancelIsAllowed
  <2>4. CASE response_ok
    <3>1. pc = "loop3" /\ pc' = "drain" /\ UNCHANGED <<accepted, said>>
      BY <2>4 DEF response_ok, RunEnds
    <3>2. plug'.visible <=> plug.visible
      BY <2>1, <2>4 DEF response_ok, RunEnds, Responded, PromptDisabled, Sensitive,
                        PlugState
    <3> QED BY <3>1, <3>2 DEF SeenUnchanged
  <2>5. CASE \/ PlugStep(KeyQueued(Restarted(plug))) \/ PlugStep(Restarted(plug))
             \/ PlugStep([Sensitive(plug, FALSE) EXCEPT !.response_idle = TRUE])
    <3>1. UNCHANGED <<pc, accepted, said>>
      BY <2>5 DEF PlugStep
    <3>2. plug'.visible <=> plug.visible
      BY <2>1, <2>5 DEF PlugStep, KeyQueued, Restarted, Sensitive, PlugState
    <3> QED BY <3>1, <3>2 DEF SeenUnchanged
  <2> QED BY <2>2, <2>3, <2>4, <2>5
<1> QED
  BY <1>1, <1>2, <1>3, <1>4, <1>5, <1>6, <1>7, <1>8, <1>9, <1>10, <1>11, <1>12
  DEF DialogNext, MainStep, Timer

\* The process implements the protocol that GSWindow relies on, however its
\* thread, the nested loops, the timers and the user interleave: RESPONSE=OK
\* is written only after PAM has succeeded or locking could not be
\* initialised, and nothing follows it.
THEOREM ObeysProtocol == DialogSpec => ImplementsProtocol
<1>1. DialogInit => Protocol!Init
  <2> SUFFICES ASSUME DialogInit PROVE Protocol!Init
    OBVIOUS
  <2>1. (pc # "exited") = TRUE /\ plug.visible = FALSE
    BY DEF DialogInit, NewPlug
  <2> QED BY <2>1 DEF DialogInit, Protocol!Init, Protocol!Fresh
<1>2. DialogInv /\ DialogInv' /\ [DialogNext]_dialogVars
        => [Protocol!Next]_([alive |-> pc # "exited", shown |-> plug.visible,
                             accepted |-> accepted, last |-> said])
  <2> SUFFICES ASSUME DialogInv, DialogInv', [DialogNext]_dialogVars
               PROVE  Protocol!Next \/ UNCHANGED [alive |-> pc # "exited",
                        shown |-> plug.visible, accepted |-> accepted, last |-> said]
    OBVIOUS
  <2>1. CASE SeenUnchanged
    <3>1. plug'.visible = plug.visible
      BY <2>1 DEF SeenUnchanged, DialogInv, DialogType, PlugState
    <3>2. (pc' # "exited") = (pc # "exited")
      BY <2>1 DEF SeenUnchanged
    <3> QED BY <2>1, <3>1, <3>2 DEF SeenUnchanged
  <2> QED BY <2>1, ProtocolStep
<1> QED
  BY <1>1, <1>2, DialogStarts, DialogStep, PTL
  DEF DialogSpec, ImplementsProtocol, Protocol!Spec
=============================================================================
