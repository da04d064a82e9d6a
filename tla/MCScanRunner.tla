---------------------------- MODULE MCScanRunner ----------------------------
(* ScanRunner for TLC: its constants are model values and numbers.  The     *)
(* deliveries of one message are interchangeable, but every run of this     *)
(* module has a temporal property, for which TLC's symmetry is not sound.   *)
EXTENDS ScanRunner
=============================================================================
