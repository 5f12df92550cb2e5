---------------------------- MODULE MCEventTimer ----------------------------
(* Two timers of one manager, as newViewTimer and vcResendTimer, one of   *)
(* which is halted while the other goes on.                                *)
EXTENDS EventTimer

CONSTANTS newViewTimer, vcResendTimer

TwoTimers == {newViewTimer, vcResendTimer}
OneAndManager == {vcResendTimer, Manager}

=============================================================================
