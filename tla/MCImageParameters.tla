------------------------- MODULE MCImageParameters -------------------------
(* ImageParameters with numbers on both sides of every limit: a detector of *)
(* 4 x 4 pixels, and a configuration file can hold no negative number.      *)
EXTENDS ImageParameters

MCNumbers == {-1, 0, 1, 2, 3, 5}
=============================================================================
