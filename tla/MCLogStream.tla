----------------------------- MODULE MCLogStream -----------------------------
(***************************************************************************)
(* Buffers of three bytes: lines are blank, end with a buffer, or need two *)
(* or three of them.                                                       *)
(***************************************************************************)
EXTENDS LogStream
=============================================================================
