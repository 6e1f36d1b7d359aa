-------------------------- MODULE MCReceiverHealth --------------------------
(* The clock is set back, or forward by more than StaleAfter.               *)
EXTENDS ReceiverHealth

MCClockSteps == {-4, 7}
=============================================================================
