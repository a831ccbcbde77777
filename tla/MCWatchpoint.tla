---------------------------- MODULE MCWatchpoint ----------------------------
(* Watchpoint on a pool of three slots.                                    *)
EXTENDS Watchpoint
=============================================================================
