----------------------------- MODULE MCZbRadio -----------------------------
(***************************************************************************)
(* TLC instance of ZbRadio.                                                *)
(***************************************************************************)
EXTENDS ZbRadio
=============================================================================
