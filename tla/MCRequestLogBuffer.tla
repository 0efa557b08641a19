------------------------- MODULE MCRequestLogBuffer -------------------------
(* Model of RequestLogBuffer for TLC.                                       *)
EXTENDS RequestLogBuffer
CONSTANT f1  \* a force-flush
=============================================================================
