---------------------------- MODULE MCBootChain -----------------------------
(* Small instances of BootChain for TLC.                                   *)
EXTENDS BootChain

CONSTANTS unit, op, eth, wlan, odd
=============================================================================
