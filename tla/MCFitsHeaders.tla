--------------------------- MODULE MCFitsHeaders ---------------------------
(* FitsHeaders with four lines of Aristarchos: a key that fills its eight    *)
(* characters and that setup_acquisition() has too, one that it has and that *)
(* does not fill them, and one of the telescope alone, sent twice.           *)
EXTENDS FitsHeaders

MCFccHeaders == <<"GAIN", "AZIMUTH", "OBSERVER", "AZIMUTH">>
=============================================================================
