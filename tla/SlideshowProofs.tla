--------------------------- MODULE SlideshowProofs ---------------------------
(***************************************************************************)
(* Proofs about the slideshow, for any pictures, sizes and number of fade  *)
(* frames: exactly one picture is on its way between the main loop and the *)
(* thread, no fade ends half way, and the idle source that takes a result  *)
(* always finds one.                                                       *)
(***************************************************************************)
EXTENDS Slideshow, TLAPS

-----------------------------------------------------------------------------
(* The results *)

\* A queue of one result is folded in one step.
LEMMA FoldOne ==
  ASSUME NEW s, NEW x
  PROVE  FoldLeft(process_new_pixbuf, s, <<x>>) = process_new_pixbuf(s, x)
<1> DEFINE Body(f) == [t \in SUBSET {1} |->
                         IF t = {} THEN s
                         ELSE process_new_pixbuf(f[t \ {Max(t)}], <<x>>[Max(t)])]
           iter == CHOOSE f : f = Body(f)
           g == [t \in SUBSET {1} |-> IF t = {} THEN s ELSE process_new_pixbuf(s, x)]
<1> HIDE DEF process_new_pixbuf
<1>1. FoldLeft(process_new_pixbuf, s, <<x>>) = iter[{1}]
  BY DEF FoldLeft, MapThenFoldSet
<1>2. Max({1}) = 1
  BY DEF Max
<1>3. \A t \in SUBSET {1} : t = {} \/ t = {1}
  OBVIOUS
<1>4. \A f : Body(f) = [t \in SUBSET {1} |->
                          IF t = {} THEN s ELSE process_new_pixbuf(f[{}], x)]
  <2> TAKE f
  <2>1. ASSUME NEW t \in SUBSET {1}, t # {}
        PROVE  process_new_pixbuf(f[t \ {Max(t)}], <<x>>[Max(t)])
                 = process_new_pixbuf(f[{}], x)
    <3>1. t = {1}
      BY <1>3, <2>1
    <3>2. {1} \ {1} = {}
      OBVIOUS
    <3>3. <<x>>[1] = x
      OBVIOUS
    <3> QED BY <1>2, <3>1, <3>2, <3>3
  <2> QED BY <2>1
<1>5. g = Body(g)
  <2>1. g[{}] = s
    OBVIOUS
  <2> QED BY <1>4, <2>1
<1> HIDE DEF Body, g
<1>6. iter = Body(iter)
  BY <1>5
<1> HIDE DEF iter
<1>7. iter[{}] = s
  BY <1>4, <1>6
<1>8. iter[{1}] = process_new_pixbuf(iter[{}], x)
  BY <1>4, <1>6
<1> QED BY <1>1, <1>7, <1>8

\* results_pull_func on a queue of one result.
LEMMA PullOne ==
  ASSUME NEW S, results.queue \in Seq(S), Len(results.queue) = 1, results_pull_func
  PROVE  \E x \in S : show' = process_new_pixbuf(show, x)
<1>1. results.queue = <<results.queue[1]>> /\ results.queue[1] \in S
  OBVIOUS
<1>2. show' = FoldLeft(process_new_pixbuf, show, results.queue)
  BY DEF results_pull_func
<1>3. show' = FoldLeft(process_new_pixbuf, show, <<results.queue[1]>>)
  BY <1>1, <1>2
<1> QED BY <1>1, <1>3, FoldOne

-----------------------------------------------------------------------------
(* The inductive invariant *)

Pictures == Images \cup {NoImage}

ShowState ==
  [update_image_id: BOOLEAN, pat1: Pictures, pat2: Pictures, fade_ticks: 0..FadeTicks,
   fade_disabled: BOOLEAN, surf: Images \cup {Blank, Mixed}, size: Sizes,
   sort_images: BOOLEAN]

ResultState ==
  [queue: Seq(Pictures), lock: BOOLEAN, source: BOOLEAN, results_pull_id: BOOLEAN]

Loading == {"height", "load", "lock"}
Delivering == {"source", "store", "unlock"}

\* Every picture that the thread builds ends as one of the window's sizes.
LoaderState ==
  /\ loader \in [pc: {"pop"} \cup Loading \cup Delivering,
                 image: [file: Nat, w: Nat \cup {s.w : s \in Sizes},
                         h: Nat \cup {s.h : s \in Sizes}]]
  /\ loader.image.file \in Files \cup {0}
  /\ loader.pc \in {"height", "load"} => loader.image.w \in {s.w : s \in Sizes}
  /\ loader.pc = "load" => loader.image.h \in {s.h : s \in Sizes}
  /\ loader.pc \in {"lock"} \cup Delivering => loader.image \in Pictures

SlideState ==
  /\ show \in ShowState /\ results \in ResultState /\ LoaderState
  /\ files \in SUBSET Files /\ dir \in SUBSET Files /\ op_q \in Nat

\* How much of the picture on its way the main loop, the queues, the thread
\* and the fade hold.
Asking == B(show.update_image_id)
Loads == B(loader.pc \in Loading)
Fading == B(show.pat2 # NoImage)
InFlight == Asking + op_q + Loads + Len(results.queue) + Fading

(***************************************************************************)
(* A fade that goes on has a frame left, or its last frame would be        *)
(* missed; and the thread has the lock of the results from the moment it   *)
(* has queued one, so that the main loop cannot take it before the source  *)
(* is known.                                                               *)
(***************************************************************************)
SlideInv ==
  /\ SlideState
  /\ InFlight = 1
  /\ show.pat2 # NoImage => show.fade_ticks < FadeTicks
  /\ show.pat2 = NoImage => show.surf # Mixed
  /\ results.lock <=> loader.pc \in Delivering
  /\ loader.pc \in Delivering \/ results.source => Len(results.queue) > 0

\* What the timer, the thread and the fade count for.
LEMMA Counts ==
  /\ show.update_image_id => Asking = 1
  /\ ~show.update_image_id => Asking = 0
  /\ loader.pc \in Loading => Loads = 1
  /\ loader.pc \notin Loading => Loads = 0
  /\ show.pat2 # NoImage => Fading = 1
  /\ show.pat2 = NoImage => Fading = 0
BY DEF Asking, Loads, Fading, B

LEMMA CountsNext ==
  /\ show'.update_image_id => Asking' = 1
  /\ ~show'.update_image_id => Asking' = 0
  /\ loader'.pc \in Loading => Loads' = 1
  /\ loader'.pc \notin Loading => Loads' = 0
  /\ show'.pat2 # NoImage => Fading' = 1
  /\ show'.pat2 = NoImage => Fading' = 0
BY DEF Asking, Loads, Fading, B

\* The parts of a total of one.
LEMMA PartsOfOne ==
  ASSUME NEW a \in {0, 1}, NEW b \in Nat, NEW c \in {0, 1}, NEW d \in Nat,
         NEW e \in {0, 1}, a + b + c + d + e = 1
  PROVE  /\ b \in 0..1 /\ d \in 0..1
         /\ a = 1 => b = 0 /\ c = 0 /\ d = 0 /\ e = 0
         /\ b > 0 => a = 0 /\ b = 1 /\ c = 0 /\ d = 0 /\ e = 0
         /\ c = 1 => a = 0 /\ b = 0 /\ d = 0 /\ e = 0
         /\ d > 0 => a = 0 /\ b = 0 /\ c = 0 /\ d = 1 /\ e = 0
         /\ e = 1 => a = 0 /\ b = 0 /\ c = 0 /\ d = 0
OBVIOUS

\* An empty picture is none of the window's.
LEMMA ImagesAreReal ==
  /\ NoImage \notin Images /\ Blank \notin Images /\ Mixed \notin Images
  /\ Blank # Mixed
BY FilesAssumption DEF NoImage, Blank, Mixed, Images

LEMMA SlideStarts == SlideInit => SlideInv
<1> SUFFICES ASSUME SlideInit PROVE SlideInv
  OBVIOUS
<1>1. show \in ShowState
  <2>1. 0 \in 0..FadeTicks
    BY TicksAssumption
  <2> QED BY <2>1 DEF SlideInit, ShowState, Pictures
<1>2. results \in ResultState /\ results.queue = <<>> /\ ~results.lock /\ ~results.source
  BY DEF SlideInit, ResultState
<1>3. LoaderState /\ loader.pc = "pop"
  BY DEF SlideInit, LoaderState, NoImage, Pictures, Loading, Delivering
<1>4. SlideState
  BY <1>1, <1>2, <1>3 DEF SlideInit, SlideState
<1>5. show.update_image_id /\ show.pat2 = NoImage /\ show.surf # Mixed
  BY ImagesAreReal DEF SlideInit
<1>6. op_q = 0 /\ Len(results.queue) = 0
  BY <1>2 DEF SlideInit
<1> QED BY <1>2, <1>3, <1>4, <1>5, <1>6, Counts DEF SlideInv, InFlight, Loading, Delivering

LEMMA SlideStep == SlideInv /\ [SlideNext]_slideVars => SlideInv'
<1> SUFFICES ASSUME SlideInv, [SlideNext]_slideVars PROVE SlideInv'
  OBVIOUS
<1>0. /\ show \in ShowState /\ results \in ResultState /\ LoaderState
      /\ files \in SUBSET Files /\ dir \in SUBSET Files /\ op_q \in Nat
      /\ results.queue \in Seq(Pictures) /\ Len(results.queue) \in Nat
      /\ InFlight = 1
  BY DEF SlideInv, SlideState, ResultState
<1>p. /\ Asking \in {0, 1} /\ Loads \in {0, 1} /\ Fading \in {0, 1}
      /\ op_q \in 0..1 /\ Len(results.queue) \in 0..1
      /\ Asking = 1 => op_q = 0 /\ Loads = 0 /\ Len(results.queue) = 0 /\ Fading = 0
      /\ op_q > 0 => Asking = 0 /\ op_q = 1 /\ Loads = 0 /\ Len(results.queue) = 0 /\ Fading = 0
      /\ Loads = 1 => Asking = 0 /\ op_q = 0 /\ Len(results.queue) = 0 /\ Fading = 0
      /\ Len(results.queue) > 0 => /\ Asking = 0 /\ op_q = 0 /\ Loads = 0
                                   /\ Len(results.queue) = 1 /\ Fading = 0
      /\ Fading = 1 => Asking = 0 /\ op_q = 0 /\ Loads = 0 /\ Len(results.queue) = 0
  <2>1. Asking \in {0, 1} /\ Loads \in {0, 1} /\ Fading \in {0, 1}
    BY Counts
  <2>2. Asking + op_q + Loads + Len(results.queue) + Fading = 1
    BY <1>0 DEF InFlight
  <2> DEFINE d == Len(results.queue)
  <2>3. op_q \in Nat /\ d \in Nat /\ Asking + op_q + Loads + d + Fading = 1
    BY <1>0, <2>2
  <2> HIDE DEF d
  <2>4. /\ op_q \in 0..1 /\ d \in 0..1
        /\ Asking = 1 => op_q = 0 /\ Loads = 0 /\ d = 0 /\ Fading = 0
        /\ op_q > 0 => Asking = 0 /\ op_q = 1 /\ Loads = 0 /\ d = 0 /\ Fading = 0
        /\ Loads = 1 => Asking = 0 /\ op_q = 0 /\ d = 0 /\ Fading = 0
        /\ d > 0 => Asking = 0 /\ op_q = 0 /\ Loads = 0 /\ d = 1 /\ Fading = 0
        /\ Fading = 1 => Asking = 0 /\ op_q = 0 /\ Loads = 0 /\ d = 0
    BY <2>1, <2>3, PartsOfOne
  <2> QED BY <2>1, <2>4 DEF d
<1>1. CASE UNCHANGED slideVars
  BY <1>1 DEF slideVars, SlideInv, SlideState, LoaderState, InFlight, Asking, Loads, Fading, B
<1>2. CASE loader_pop
  <2>1. /\ UNCHANGED <<show, files, results, dir>> /\ op_q' = op_q - 1 /\ op_q > 0
        /\ loader.pc = "pop" /\ loader'.pc = "height"
    BY <1>2 DEF loader_pop
  <2>2. LoaderState'
    <3>1. show.size.w \in {s.w : s \in Sizes}
      BY <1>0 DEF ShowState
    <3>2. loader' = [pc |-> "height", image |-> [file |-> 0, w |-> show.size.w, h |-> 0]]
      BY <1>2 DEF loader_pop, NoImage
    <3> QED BY <3>1, <3>2 DEF LoaderState, Loading, Delivering
  <2>3. SlideState'
    BY <1>0, <2>1, <2>2 DEF SlideState
  <2>4. InFlight' = 1
    BY <1>0, <1>p, <2>1, Counts, CountsNext DEF InFlight, Loading
  <2> QED BY <2>1, <2>3, <2>4 DEF SlideInv, Delivering
<1>3. CASE loader_height
  <2>1. /\ UNCHANGED <<show, files, op_q, results, dir>>
        /\ loader.pc = "height" /\ loader'.pc = "load"
    BY <1>3 DEF loader_height
  <2>2. LoaderState'
    <3>1. show.size.h \in {s.h : s \in Sizes}
      BY <1>0 DEF ShowState
    <3>2. /\ loader'.image = [loader.image EXCEPT !.h = show.size.h]
          /\ loader' = [pc |-> "load", image |-> loader'.image]
      BY <1>3 DEF loader_height
    <3>3. /\ loader'.image \in [file: Nat, w: Nat \cup {s.w : s \in Sizes},
                                 h: Nat \cup {s.h : s \in Sizes}]
          /\ loader'.image.file = loader.image.file /\ loader'.image.w = loader.image.w
          /\ loader'.image.h = show.size.h
      BY <1>0, <3>1, <3>2 DEF LoaderState
    <3> QED BY <1>0, <2>1, <3>1, <3>2, <3>3 DEF LoaderState, Loading, Delivering
  <2>3. SlideState'
    BY <1>0, <2>1, <2>2 DEF SlideState
  <2>4. InFlight' = 1
    BY <1>0, <1>p, <2>1, Counts, CountsNext DEF InFlight, Loading
  <2> QED BY <2>1, <2>3, <2>4 DEF SlideInv, Delivering
<1>4. CASE get_pixbuf
  <2>1. /\ UNCHANGED <<show, op_q, results, dir>>
        /\ loader.pc = "load" /\ loader'.pc = "lock"
    BY <1>4 DEF get_pixbuf
  <2>2. files' \in SUBSET Files
    BY <1>0, <1>4 DEF get_pixbuf
  <2>3. LoaderState'
    <3>1. \/ loader' = [pc |-> "lock", image |-> NoImage]
          \/ \E f \in Files : loader' = [pc |-> "lock",
                                        image |-> [loader.image EXCEPT !.file = f]]
      BY <1>4, FilesAssumption DEF get_pixbuf
    <3>2. CASE loader' = [pc |-> "lock", image |-> NoImage]
      BY <3>2 DEF LoaderState, Loading, Delivering, Pictures, NoImage
    <3>3. ASSUME NEW f \in Files,
                 loader' = [pc |-> "lock", image |-> [loader.image EXCEPT !.file = f]]
          PROVE  LoaderState'
      <4> DEFINE i == [loader.image EXCEPT !.file = f]
      <4>1. /\ i \in Images
            /\ i \in [file: Nat, w: Nat \cup {s.w : s \in Sizes},
                     h: Nat \cup {s.h : s \in Sizes}]
            /\ i.file = f
        BY <1>0, <2>1, FilesAssumption DEF LoaderState, Images
      <4>2. loader' = [pc |-> "lock", image |-> i]
        BY <3>3
      <4> HIDE DEF i
      <4> QED BY <4>1, <4>2 DEF LoaderState, Loading, Delivering, Pictures
    <3> QED BY <3>1, <3>2, <3>3
  <2>4. SlideState'
    BY <1>0, <2>1, <2>2, <2>3 DEF SlideState
  <2>5. InFlight' = 1
    BY <1>0, <1>p, <2>1, Counts, CountsNext DEF InFlight, Loading
  <2> QED BY <2>1, <2>4, <2>5 DEF SlideInv, Delivering
<1>5. CASE loader_push
  <2>1. /\ UNCHANGED <<show, files, op_q, dir>>
        /\ loader.pc = "lock" /\ loader' = [loader EXCEPT !.pc = "source"]
        /\ results' = [results EXCEPT !.lock = TRUE, !.queue = Append(@, loader.image)]
    BY <1>5 DEF loader_push
  <2>2. loader'.pc = "source" /\ loader'.image = loader.image /\ LoaderState'
    BY <1>0, <2>1 DEF LoaderState, Loading, Delivering
  <2>3. loader.image \in Pictures
    BY <1>0, <2>1 DEF LoaderState
  <2>4. /\ results'.queue = Append(results.queue, loader.image) /\ results'.lock
        /\ results' \in ResultState
        /\ Len(results'.queue) = Len(results.queue) + 1
    <3> DEFINE q == Append(results.queue, loader.image)
    <3>1. q \in Seq(Pictures) /\ Len(q) = Len(results.queue) + 1
      BY <1>0, <2>3
    <3>2. results' = [results EXCEPT !.lock = TRUE, !.queue = q]
      BY <2>1
    <3> HIDE DEF q
    <3>3. results'.queue = q /\ results'.lock /\ results' \in ResultState
      BY <1>0, <3>1, <3>2 DEF ResultState
    <3> QED BY <3>1, <3>3 DEF q
  <2>5. SlideState'
    BY <1>0, <2>1, <2>2, <2>4 DEF SlideState
  <2>6. InFlight' = 1
    BY <1>0, <1>p, <2>1, <2>2, <2>4, Counts, CountsNext DEF InFlight, Loading
  <2> QED BY <1>0, <2>1, <2>2, <2>4, <2>5, <2>6 DEF SlideInv, Delivering
<1>6. CASE loader_add_source
  <2>1. /\ UNCHANGED <<show, files, op_q, dir>>
        /\ loader.pc = "source"
        /\ \E pc \in {"store", "unlock"} : loader' = [loader EXCEPT !.pc = pc]
        /\ results' = results \/ results' = [results EXCEPT !.source = TRUE]
    BY <1>6 DEF loader_add_source
  <2>2. loader'.pc \in {"store", "unlock"} /\ LoaderState'
    BY <1>0, <2>1 DEF LoaderState, Loading, Delivering
  <2>3. /\ results'.queue = results.queue /\ results'.lock = results.lock
        /\ results' \in ResultState
    BY <1>0, <2>1 DEF ResultState
  <2>4. SlideState'
    BY <1>0, <2>1, <2>2, <2>3 DEF SlideState
  <2>5. InFlight' = 1
    BY <1>0, <1>p, <2>1, <2>2, <2>3, Counts, CountsNext DEF InFlight, Loading
  <2> QED BY <2>1, <2>2, <2>3, <2>4, <2>5 DEF SlideInv, Delivering
<1>7. CASE loader_store_id
  <2>1. /\ UNCHANGED <<show, files, op_q, dir>>
        /\ loader.pc = "store" /\ loader' = [loader EXCEPT !.pc = "unlock"]
        /\ results' = [results EXCEPT !.results_pull_id = TRUE]
    BY <1>7 DEF loader_store_id
  <2>2. loader'.pc = "unlock" /\ LoaderState'
    BY <1>0, <2>1 DEF LoaderState, Loading, Delivering
  <2>3. /\ results'.queue = results.queue /\ results'.lock = results.lock
        /\ results' \in ResultState
    BY <1>0, <2>1 DEF ResultState
  <2>4. SlideState'
    BY <1>0, <2>1, <2>2, <2>3 DEF SlideState
  <2>5. InFlight' = 1
    BY <1>0, <1>p, <2>1, <2>2, <2>3, Counts, CountsNext DEF InFlight, Loading
  <2> QED BY <2>1, <2>2, <2>3, <2>4, <2>5 DEF SlideInv, Delivering
<1>8. CASE loader_unlock
  <2>1. /\ UNCHANGED <<show, files, op_q, dir>>
        /\ loader.pc = "unlock" /\ loader' = [pc |-> "pop", image |-> NoImage]
        /\ results' = [results EXCEPT !.lock = FALSE]
    BY <1>8 DEF loader_unlock
  <2>2. loader'.pc = "pop" /\ LoaderState'
    BY <2>1 DEF LoaderState, Loading, Delivering, NoImage
  <2>3. /\ results'.queue = results.queue /\ ~results'.lock
        /\ results' \in ResultState
    BY <1>0, <2>1 DEF ResultState
  <2>4. SlideState'
    BY <1>0, <2>1, <2>2, <2>3 DEF SlideState
  <2>5. InFlight' = 1
    BY <1>0, <1>p, <2>1, <2>2, <2>3, Counts, CountsNext DEF InFlight, Loading
  <2> QED BY <2>1, <2>2, <2>3, <2>4, <2>5 DEF SlideInv, Delivering
<1>9. CASE push_load_image_func
  <2>1. /\ UNCHANGED <<files, loader, results, dir>> /\ op_q' = op_q + 1
        /\ show.update_image_id
        /\ show' = [show EXCEPT !.update_image_id = FALSE]
    BY <1>9 DEF push_load_image_func
  <2>2. /\ show' \in ShowState /\ ~show'.update_image_id
        /\ show'.pat2 = show.pat2 /\ show'.surf = show.surf
        /\ show'.fade_ticks = show.fade_ticks
    BY <1>0, <2>1 DEF ShowState
  <2>3. SlideState'
    BY <1>0, <2>1, <2>2 DEF SlideState, LoaderState
  <2>4. InFlight' = 1
    BY <1>0, <1>p, <2>1, <2>2, Counts, CountsNext DEF InFlight
  <2> QED BY <2>1, <2>2, <2>3, <2>4 DEF SlideInv
<1>10. CASE results_pull_func
  <2>1. /\ UNCHANGED <<files, loader, op_q, dir>> /\ results' = Pulled
        /\ results.source /\ ~results.lock
    BY <1>10 DEF results_pull_func
  <2>2. /\ Len(results.queue) = 1 /\ op_q = 0 /\ ~show.update_image_id
        /\ show.pat2 = NoImage /\ loader.pc \notin Loading
    BY <1>p, <2>1, Counts DEF SlideInv
  <2>3. PICK x \in Pictures : show' = process_new_pixbuf(show, x)
    BY <1>0, <1>10, <2>2, PullOne
  <2>4. /\ show' \in ShowState
        /\ show'.surf = show.surf
        /\ show'.update_image_id <=> x = NoImage
        /\ show'.pat2 = x
        /\ x # NoImage => show'.fade_ticks = 0
    <3>1. 0 \in 0..FadeTicks
      BY TicksAssumption
    <3>2. CASE x = NoImage
      <4>1. show' = [show EXCEPT !.update_image_id = TRUE]
        BY <2>3, <3>2 DEF process_new_pixbuf
      <4> QED BY <1>0, <2>2, <3>2, <4>1 DEF ShowState
    <3>3. CASE x # NoImage
      <4>1. show' = [show EXCEPT !.pat2 = x, !.fade_ticks = 0]
        BY <2>3, <3>3 DEF process_new_pixbuf
      <4> QED BY <1>0, <2>2, <3>1, <3>3, <4>1 DEF ShowState
    <3> QED BY <3>2, <3>3
  <2>5. /\ results' \in ResultState /\ results'.queue = <<>>
        /\ ~results'.source /\ ~results'.lock
    <3>1. <<>> \in Seq(Pictures)
      OBVIOUS
    <3> DEFINE e == <<>>
    <3>2. results' = [results EXCEPT !.queue = e, !.results_pull_id = FALSE, !.source = FALSE]
      BY <2>1 DEF Pulled
    <3>3. e \in Seq(Pictures)
      BY <3>1
    <3> HIDE DEF e
    <3>4. /\ results' \in ResultState /\ results'.queue = e
          /\ ~results'.source /\ ~results'.lock
      BY <1>0, <2>1, <3>2, <3>3 DEF ResultState
    <3> QED BY <3>4 DEF e
  <2>6. Len(results'.queue) = 0
    BY <2>5
  <2>7. SlideState'
    BY <1>0, <2>1, <2>4, <2>5 DEF SlideState, LoaderState
  <2>8. InFlight' = 1
    BY <2>1, <2>2, <2>4, <2>6, <1>p, Counts, CountsNext DEF InFlight
  <2>9. loader.pc \notin Delivering
    BY <2>1 DEF SlideInv
  <2> QED BY <2>1, <2>2, <2>4, <2>5, <2>6, <2>7, <2>8, <2>9, TicksAssumption DEF SlideInv
<1>11. CASE draw_iter
  <2>1. UNCHANGED <<files, loader, op_q, results, dir>>
    BY <1>11 DEF draw_iter
  <2>2. ASSUME show' \in ShowState,
               show'.pat2 = show.pat2, show'.update_image_id = show.update_image_id,
               show.pat2 # NoImage => show'.fade_ticks < FadeTicks,
               show.pat2 = NoImage => show'.surf # Mixed
        PROVE  SlideInv'
    <3>1. SlideState'
      BY <1>0, <2>1, <2>2 DEF SlideState, LoaderState
    <3>2. InFlight' = 1
      BY <1>0, <1>p, <2>1, <2>2, Counts, CountsNext DEF InFlight
    <3> QED BY <2>1, <2>2, <3>1, <3>2 DEF SlideInv
  <2>3. ASSUME show.pat2 # NoImage, show' \in ShowState,
               show'.pat2 = NoImage, show'.update_image_id, show'.surf = show.pat2
        PROVE  SlideInv'
    <3>1. SlideState'
      BY <1>0, <2>1, <2>3 DEF SlideState, LoaderState
    <3>2. InFlight' = 1
      BY <1>0, <1>p, <2>1, <2>3, Counts, CountsNext DEF InFlight
    <3>3. show'.surf # Mixed
      BY <1>0, <2>3, ImagesAreReal DEF ShowState, Pictures
    <3> QED BY <2>1, <2>3, <3>1, <3>2, <3>3 DEF SlideInv
  <2>4. CASE show.pat2 = NoImage
    <3>1. show' = show
      BY <1>11, <2>4 DEF draw_iter
    <3> QED BY <1>0, <2>2, <2>4, <3>1 DEF SlideInv
  <2>5. CASE show.pat2 # NoImage /\ show.fade_disabled
    <3>1. show' = FadeFinished([show EXCEPT !.surf = show.pat2])
      BY <1>11, <2>5 DEF draw_iter
    <3>2. show.pat2 \in Images
      BY <1>0, <2>5 DEF ShowState, Pictures
    <3>3. /\ show' \in ShowState /\ show'.pat2 = NoImage /\ show'.update_image_id
          /\ show'.surf = show.pat2
      BY <1>0, <3>1, <3>2 DEF FadeFinished, ShowState, Pictures
    <3> QED BY <2>3, <2>5, <3>3
  <2>6. CASE show.pat2 # NoImage /\ ~show.fade_disabled
    <3>1. PICK slow \in BOOLEAN : show' = FadeTicked(show, slow)
      BY <1>11, <2>6 DEF draw_iter
    <3>2. show.pat2 \in Images /\ show.fade_ticks \in Nat /\ show.fade_ticks < FadeTicks
      BY <1>0, <2>6, TicksAssumption DEF ShowState, Pictures, SlideInv
    <3> DEFINE t == show.fade_ticks + 1
               n == [show EXCEPT !.fade_ticks = IF slow THEN FadeTicks - 1 ELSE t,
                                 !.fade_disabled = slow,
                                 !.surf = IF t = FadeTicks THEN show.pat2 ELSE Mixed]
    <3>3. /\ n \in ShowState /\ n.pat2 = show.pat2
          /\ n.update_image_id = show.update_image_id
          /\ n.fade_ticks = IF slow THEN FadeTicks - 1 ELSE t
          /\ n.surf = IF t = FadeTicks THEN show.pat2 ELSE Mixed
      <4> DEFINE k == IF slow THEN FadeTicks - 1 ELSE t
                 u == IF t = FadeTicks THEN show.pat2 ELSE Mixed
      <4>1. k \in 0..FadeTicks
        BY <3>2, TicksAssumption
      <4>2. u \in Images \cup {Blank, Mixed}
        BY <3>2
      <4>3. n = [show EXCEPT !.fade_ticks = k, !.fade_disabled = slow, !.surf = u]
        OBVIOUS
      <4> HIDE DEF k, u, n
      <4>4. /\ n \in ShowState /\ n.pat2 = show.pat2
            /\ n.update_image_id = show.update_image_id
            /\ n.fade_ticks = k /\ n.surf = u
        BY <1>0, <4>1, <4>2, <4>3 DEF ShowState
      <4> QED BY <4>4 DEF k, u
    <3>4. show' = IF n.fade_ticks >= FadeTicks THEN FadeFinished(n) ELSE n
      BY <3>1 DEF FadeTicked
    <3> HIDE DEF n
    <3>5. CASE n.fade_ticks >= FadeTicks
      <4>1. n.surf = show.pat2
        BY <3>2, <3>3, <3>5, TicksAssumption
      <4>2. /\ show' \in ShowState /\ show'.pat2 = NoImage /\ show'.update_image_id
            /\ show'.surf = n.surf
        BY <3>3, <3>4, <3>5 DEF FadeFinished, ShowState, Pictures
      <4> QED BY <2>3, <2>6, <4>1, <4>2
    <3>6. CASE ~(n.fade_ticks >= FadeTicks)
      <4>1. n.fade_ticks < FadeTicks
        BY <3>2, <3>3, <3>6, TicksAssumption
      <4> QED BY <2>2, <2>6, <3>3, <3>4, <3>6, <4>1
    <3> QED BY <3>5, <3>6
  <2> QED BY <1>0, <2>4, <2>5, <2>6 DEF ShowState
<1>12. CASE gste_slideshow_real_configure
  <2>1. UNCHANGED <<files, loader, op_q, results, dir>>
    BY <1>12 DEF gste_slideshow_real_configure
  <2>2. /\ show' \in ShowState /\ show'.pat2 = show.pat2 /\ show'.surf = Blank
        /\ show'.update_image_id = show.update_image_id
        /\ show'.fade_ticks = show.fade_ticks
    BY <1>0, <1>12 DEF gste_slideshow_real_configure, ShowState
  <2>3. SlideState'
    BY <1>0, <2>1, <2>2 DEF SlideState, LoaderState
  <2>4. InFlight' = 1
    BY <1>0, <1>p, <2>1, <2>2, Counts, CountsNext DEF InFlight
  <2> QED BY <2>1, <2>2, <2>3, <2>4, ImagesAreReal DEF SlideInv
<1>13. CASE directory_changes
  <2>1. UNCHANGED <<show, files, loader, op_q, results>> /\ dir' \in SUBSET Files
    BY <1>0, <1>13 DEF directory_changes
  <2> QED BY <1>0, <2>1 DEF SlideInv, SlideState, LoaderState, InFlight, Asking, Loads, Fading, B
<1> QED
  BY <1>1, <1>2, <1>3, <1>4, <1>5, <1>6, <1>7, <1>8, <1>9, <1>10, <1>11, <1>12, <1>13
  DEF SlideNext, LoaderStep

-----------------------------------------------------------------------------
(* The properties *)

\* Between the timer, the two queues, the thread and the fade there is always
\* exactly one picture on its way, however the window is resized and the
\* directory changes: a fade is never cut off, none ends half way, and the
\* next picture is always asked for.
THEOREM AlwaysOneInFlight == SlideSpec => []OneInFlight
<1>1. SlideInv => OneInFlight
  <2> SUFFICES ASSUME SlideInv PROVE OneInFlight
    OBVIOUS
  <2>1. /\ show \in ShowState /\ LoaderState /\ op_q \in Nat
        /\ files \in SUBSET Files /\ dir \in SUBSET Files
        /\ Len(results.queue) \in Nat
    BY DEF SlideInv, SlideState, ResultState
  <2>2. /\ Asking \in {0, 1} /\ Loads \in {0, 1} /\ Fading \in {0, 1}
        /\ Asking + op_q + Loads + Len(results.queue) + Fading = 1
    BY Counts DEF SlideInv, InFlight
  <2>3. op_q \in 0..1 /\ Len(results.queue) \in 0..1
    <3> DEFINE d == Len(results.queue)
    <3>1. d \in Nat /\ Asking + op_q + Loads + d + Fading = 1
      BY <2>1, <2>2
    <3> HIDE DEF d
    <3>2. op_q \in 0..1 /\ d \in 0..1
      BY <2>1, <2>2, <3>1
    <3> QED BY <3>2 DEF d
  <2>4. SlideType
    BY <2>1, <2>3 DEF SlideType, ShowState, Pictures, LoaderState
  <2> QED BY <2>2, <2>4 DEF SlideInv, Asking, Loads, Fading, Loading, OneInFlight
<1> QED BY <1>1, SlideStarts, SlideStep, PTL DEF SlideSpec

\* The assertion in results_pull_func never fails: the idle source is there
\* only while a result is queued, although the main loop may run it before
\* the thread has stored its id.
THEOREM PullFinds == SlideSpec => []PullFindsResult
<1>1. SlideInv => PullFindsResult
  <2> SUFFICES ASSUME SlideInv, results.source PROVE results.queue # <<>>
    BY DEF PullFindsResult
  <2>1. Len(results.queue) > 0
    BY DEF SlideInv
  <2>2. Len(<<>>) = 0
    OBVIOUS
  <2> QED BY <2>1, <2>2
<1> QED BY <1>1, SlideStarts, SlideStep, PTL DEF SlideSpec
=============================================================================
