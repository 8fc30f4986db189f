----------------------------- MODULE MCModemOs -----------------------------
(***************************************************************************)
(* TLC instance of ModemOs alone, for the answer of a wait that times out  *)
(* at the tick rate of FreeRTOSConfig.h; its other properties are checked  *)
(* with MCModem.                                                           *)
(***************************************************************************)
EXTENDS ModemOs

MCTimeouts == {FOREVER, 1}
MCTimeoutsAll == MCTimeouts \cup {NO_WAIT}
=============================================================================
