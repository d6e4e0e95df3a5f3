------------------------------ MODULE Slideshow ------------------------------
(***************************************************************************)
(* The slideshow saver (savers/gste-slideshow.c): the main loop asks a     *)
(* thread for the next picture through one queue and takes it from         *)
(* another, fades it in, and asks again.  The thread reads the size of the *)
(* window, which the main loop writes, and keeps the list of files.        *)
(*                                                                         *)
(* The second queue is used under its own lock, together with the id of    *)
(* the idle source that empties it.  Pixels are left out: a picture is its *)
(* file and the size it was scaled to.                                     *)
(***************************************************************************)
EXTENDS Naturals, Sequences, FiniteSets, SequencesExt

CONSTANTS
  Files,       \* 1..n: the names that the directory may hold, in their order
  Readable,    \* the ones that load and are not thumbnails
  Sizes,       \* sizes of the window: records of w and h
  FadeTicks,   \* N_FADE_TICKS
  MaxEvents    \* bound: resizes, and changes of the directory

ASSUME FilesAssumption == Files \subseteq Nat \ {0} /\ Readable \subseteq Files
ASSUME TicksAssumption == FadeTicks \in Nat \ {0}
ASSUME EventsAssumption == MaxEvents \in Nat

VARIABLES
  show,     \* GSTESlideshowPrivate: what the main loop writes
  files,    \* filename_list
  loader,   \* the thread: where it is, and the picture it works on
  op_q,     \* the number of requests queued for the thread
  results,  \* results_q, with its lock and the idle source attached for it
  dir,      \* external: the files in the directory
  events    \* the number of resizes and changes of the directory

slideVars == <<show, files, loader, op_q, results, dir, events>>

NoImage == [file |-> 0, w |-> 0, h |-> 0]
Blank == [file |-> 0, w |-> 1, h |-> 1]    \* a surface just made
Mixed == [file |-> 0, w |-> 2, h |-> 2]    \* two pictures, half faded

Images == [file: Files, w: {s.w : s \in Sizes}, h: {s.h : s \in Sizes}]

SlideType ==
  /\ show.pat1 \in Images \cup {NoImage} /\ show.pat2 \in Images \cup {NoImage}
  /\ show.surf \in Images \cup {Blank, Mixed}
  /\ show.size \in Sizes /\ show.fade_ticks \in 0..FadeTicks
  /\ files \in SUBSET Files /\ dir \in SUBSET Files
  /\ loader.image.file \in Files \cup {0}
  /\ op_q \in 0..1 /\ Len(results.queue) \in 0..1

(***************************************************************************)
(* gste_slideshow_init, gste_slideshow_real_show and the first configure   *)
(* event: the main loop begins with the timer of the first load.           *)
(***************************************************************************)
SlideInit ==
  /\ show \in [update_image_id: {TRUE}, pat1: {NoImage}, pat2: {NoImage},
               fade_ticks: {0}, fade_disabled: {FALSE}, surf: {Blank},
               size: Sizes, sort_images: BOOLEAN]
  /\ files = {}
  /\ loader = [pc |-> "pop", image |-> NoImage]
  /\ op_q = 0
  /\ results = [queue |-> <<>>, lock |-> FALSE, source |-> FALSE,
                results_pull_id |-> FALSE]
  /\ dir = Files /\ events = 0

-----------------------------------------------------------------------------
(* The thread *)

\* load_threadfunc takes a request; op_load_image reads the width
loader_pop ==
  /\ loader.pc = "pop" /\ op_q > 0
  /\ op_q' = op_q - 1
  /\ loader' = [pc |-> "height", image |-> [NoImage EXCEPT !.w = show.size.w]]
  /\ UNCHANGED <<show, files, results, dir, events>>

\* ... and the height, which may be that of another size by now
loader_height ==
  /\ loader.pc = "height"
  /\ loader' = [pc |-> "load", image |-> [loader.image EXCEPT !.h = show.size.h]]
  /\ UNCHANGED <<show, files, op_q, results, dir, events>>

\* the file that is next in the list l: the first one, or any
Candidates(l) == IF show.sort_images THEN {Min(l)} ELSE l

(***************************************************************************)
(* get_pixbuf: a list that is used up is built again, a file is taken from *)
(* it, and it becomes a picture if it is still there, can be read and is   *)
(* no thumbnail.                                                           *)
(***************************************************************************)
get_pixbuf ==
  LET list == IF files = {} THEN dir ELSE files
  IN /\ loader.pc = "load"
     /\ IF list = {}
        THEN files' = {} /\ loader' = [pc |-> "lock", image |-> NoImage]
        ELSE \E f \in Candidates(list) :
               /\ files' = list \ {f}
               /\ loader' = [pc |-> "lock",
                             image |-> IF f \in dir \cap Readable
                                       THEN [loader.image EXCEPT !.file = f]
                                       ELSE NoImage]
     /\ UNCHANGED <<show, op_q, results, dir, events>>

\* op_load_image: the result is queued under the lock of the queue
loader_push ==
  /\ loader.pc = "lock" /\ ~results.lock
  /\ results' = [results EXCEPT !.lock = TRUE, !.queue = Append(@, loader.image)]
  /\ loader' = [loader EXCEPT !.pc = "source"]
  /\ UNCHANGED <<show, files, op_q, dir, events>>

\* g_idle_add_full attaches the source, which the main loop may run at once
loader_add_source ==
  /\ loader.pc = "source"
  /\ IF results.results_pull_id
     THEN UNCHANGED results /\ loader' = [loader EXCEPT !.pc = "unlock"]
     ELSE /\ results' = [results EXCEPT !.source = TRUE]
          /\ loader' = [loader EXCEPT !.pc = "store"]
  /\ UNCHANGED <<show, files, op_q, dir, events>>

\* ... and its id is stored when it returns
loader_store_id ==
  /\ loader.pc = "store"
  /\ results' = [results EXCEPT !.results_pull_id = TRUE]
  /\ loader' = [loader EXCEPT !.pc = "unlock"]
  /\ UNCHANGED <<show, files, op_q, dir, events>>

loader_unlock ==
  /\ loader.pc = "unlock"
  /\ results' = [results EXCEPT !.lock = FALSE]
  /\ loader' = [pc |-> "pop", image |-> NoImage]
  /\ UNCHANGED <<show, files, op_q, dir, events>>

-----------------------------------------------------------------------------
(* The main loop *)

\* push_load_image_func, a timer
push_load_image_func ==
  /\ show.update_image_id
  /\ op_q' = op_q + 1
  /\ show' = [show EXCEPT !.update_image_id = FALSE]
  /\ UNCHANGED <<files, loader, results, dir, events>>

\* mutant: the next picture is asked for as soon as this one has come
process_new_pixbuf_ahead(s, image) ==
  [s EXCEPT !.update_image_id = TRUE,
            !.pat2 = IF image = NoImage THEN @ ELSE image, !.fade_ticks = 0]

\* process_new_pixbuf: start_fade, or start_new_load when there is no picture
process_new_pixbuf(s, image) ==
  IF image # NoImage THEN [s EXCEPT !.pat2 = image, !.fade_ticks = 0]
                     ELSE [s EXCEPT !.update_image_id = TRUE]

\* mutant: the source is not removed
Pulled_kept == [results EXCEPT !.queue = <<>>, !.results_pull_id = FALSE]

\* the results when all are taken, and the source removed
Pulled == [results EXCEPT !.queue = <<>>, !.results_pull_id = FALSE,
                          !.source = FALSE]

\* mutant: the id is reset without the lock of the queue
results_pull_func_unlocked ==
  /\ results.source
  /\ show' = FoldLeft(process_new_pixbuf, show, results.queue)
  /\ results' = Pulled
  /\ UNCHANGED <<files, loader, op_q, dir, events>>

\* results_pull_func, an idle source
results_pull_func ==
  /\ results.source /\ ~results.lock
  /\ show' = FoldLeft(process_new_pixbuf, show, results.queue)
  /\ results' = Pulled
  /\ UNCHANGED <<files, loader, op_q, dir, events>>

\* finish_fade
FadeFinished(s) ==
  [s EXCEPT !.pat1 = s.pat2, !.pat2 = NoImage, !.update_image_id = TRUE]

(***************************************************************************)
(* One frame of a fade: the last one paints the picture in full.  When the *)
(* frames come too slowly, fading is given up and one frame more is drawn. *)
(***************************************************************************)
FadeTicked(s, slow) ==
  LET t == s.fade_ticks + 1
      n == [s EXCEPT !.fade_ticks = IF slow THEN FadeTicks - 1 ELSE t,
                     !.fade_disabled = slow,
                     !.surf = IF t = FadeTicks THEN s.pat2 ELSE Mixed]
  IN IF n.fade_ticks >= FadeTicks THEN FadeFinished(n) ELSE n

\* draw_iter, a timer that always runs
draw_iter ==
  /\ CASE show.pat2 = NoImage -> UNCHANGED show
       [] show.pat2 # NoImage /\ show.fade_disabled ->
            show' = FadeFinished([show EXCEPT !.surf = show.pat2])
       [] OTHER -> \E slow \in BOOLEAN : show' = FadeTicked(show, slow)
  /\ UNCHANGED <<files, loader, op_q, results, dir, events>>

\* gste_slideshow_real_configure: a new size and an empty surface
gste_slideshow_real_configure ==
  /\ events < MaxEvents /\ events' = events + 1
  /\ \E size \in Sizes : show' = [show EXCEPT !.size = size, !.surf = Blank]
  /\ UNCHANGED <<files, loader, op_q, results, dir>>

\* external: a file appears or disappears
directory_changes ==
  /\ events < MaxEvents /\ events' = events + 1
  /\ \E f \in Files : dir' = IF f \in dir THEN dir \ {f} ELSE dir \cup {f}
  /\ UNCHANGED <<show, files, loader, op_q, results>>

-----------------------------------------------------------------------------

LoaderStep ==
  \/ loader_pop \/ loader_height \/ get_pixbuf \/ loader_push
  \/ loader_add_source \/ loader_store_id \/ loader_unlock

SlideNext ==
  \/ LoaderStep \/ push_load_image_func \/ results_pull_func \/ draw_iter
  \/ gste_slideshow_real_configure \/ directory_changes

\* the thread runs, and the main loop serves its timers and its idle source
SlideSpec ==
  /\ SlideInit /\ [][SlideNext]_slideVars
  /\ WF_slideVars(LoaderStep)
  /\ WF_slideVars(push_load_image_func)
  /\ WF_slideVars(results_pull_func)
  /\ WF_slideVars(draw_iter)

-----------------------------------------------------------------------------
(* Properties *)

B(p) == IF p THEN 1 ELSE 0

(***************************************************************************)
(* There is exactly one picture on its way, as a timer, a request, a load, *)
(* a result or a fade: a fade is never cut off by the next picture, and    *)
(* the show never comes to a halt.  Between two fades the surface is one   *)
(* picture, or empty since a resize: no fade ends half way, also not when  *)
(* fading is given up in the middle.  The state is of its type.            *)
(***************************************************************************)
OneInFlight ==
  /\ SlideType
  /\ B(show.update_image_id) + op_q
       + B(loader.pc \in {"height", "load", "lock"})
       + Len(results.queue) + B(show.pat2 # NoImage) = 1
  /\ show.pat2 = NoImage => show.surf # Mixed

\* g_assert (result) in results_pull_func: the source finds a result
PullFindsResult == results.source => results.queue # <<>>

(***************************************************************************)
(* Every readable picture that stays in the directory is shown again and   *)
(* again, in the size of the window, in order or at random, whatever was   *)
(* resized, removed or added before.                                       *)
(***************************************************************************)
EveryPictureIsShown ==
  \A f \in Readable :
    []<>(f \in dir =>
           show.surf = [file |-> f, w |-> show.size.w, h |-> show.size.h])
=============================================================================
