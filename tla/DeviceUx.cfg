\* Three transactions reviewed in turn.  handle_sign_tx refuses a fee
\* overflow with SW_TX_OVERFLOW before it formats, so the fee text it
\* passes is never "Overflow".  Quit (os_sched_exit) ends the application,
\* the one state with no further step.
CONSTANTS
    Displays = {d1, d2, d3}
    NoDisplay = NoDisplay
    FeeChecks = {FALSE}
SPECIFICATION Spec
CHECK_DEADLOCK FALSE
INVARIANT TypeOK
PROPERTY ApprovalAfterFieldPages
