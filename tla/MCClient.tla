------------------------------- MODULE MCClient -------------------------------
(***************************************************************************)
(* Values for checking Client.                                             *)
(***************************************************************************)
EXTENDS ClientProps
TwoStreams == <<"stdout", "stderr">>
=============================================================================
