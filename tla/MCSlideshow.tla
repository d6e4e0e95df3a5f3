----------------------------- MODULE MCSlideshow -----------------------------
EXTENDS Slideshow

MCSizes == {[w |-> 3, h |-> 3], [w |-> 4, h |-> 4]}
=============================================================================
