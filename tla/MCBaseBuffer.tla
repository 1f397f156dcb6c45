---------------------------- MODULE MCBaseBuffer ----------------------------
(* BaseBuffer for TLC.                                                     *)
EXTENDS BaseBuffer

=============================================================================
