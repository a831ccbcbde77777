------------------------------ MODULE MCAudio -------------------------------
(* Audio on a ring of three bytes that is filled more than twice.          *)
EXTENDS Audio
=============================================================================
