---------------------------- MODULE MCIoUringFile ----------------------------
(***************************************************************************)
(* Instances of IoUringFile for TLC: a buffer of up to three chunks over a  *)
(* ring of two entries, and a file one byte shorter than the longest read.  *)
(***************************************************************************)
EXTENDS IoUringFile

OneCall  == << {0, 5} >>
TwoCalls == << {0, 5}, {2} >>
==============================================================================
