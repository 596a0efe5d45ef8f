----------------------------- MODULE MCMessages -----------------------------
(* Messages with integers of five groups; a stream has up to two fields,   *)
(* or is complete and has one more.                                        *)
EXTENDS Messages
=============================================================================
