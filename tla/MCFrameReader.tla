--------------------------- MODULE MCFrameReader ---------------------------
(* FrameReader with clients that wait for their answers and clients that do *)
(* not.                                                                     *)
EXTENDS FrameReader
=============================================================================
