SPECIFICATION FairSpec

CONSTANTS
    newViewTimer = newViewTimer
    vcResendTimer = vcResendTimer
    Timer <- TwoTimers
    Event = {viewChange, resend}
    None = None
    Other = Other
    Haltable <- OneAndManager

INVARIANT TypeOK
PROPERTIES KeepsContract CallsReturn TimersFire HaltEnds

\* A halted manager has returned, or is blocked in a halted timer.
CHECK_DEADLOCK FALSE
