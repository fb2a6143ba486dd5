------------------------------ MODULE DeviceUx ------------------------------
(***************************************************************************)
(* The screens of the device build: the idle menu of src/src/main.c and    *)
(* the review flow of src/src/tx_display.c.  A flow is a sequence of steps *)
(* the user walks with the left and right buttons; a flow with FLOW_LOOP   *)
(* wraps around at its ends, one without ignores a press past them.  Both  *)
(* buttons on a UX_STEP_CB step run its callback; on a UX_STEP_NOCB step   *)
(* they do nothing.  Ignored presses are stutters.                         *)
(*                                                                         *)
(* tx_display_show_approval points g_display_ptr at the formatted strings, *)
(* clears G_state.ui_result and starts the review flow; its Approve and    *)
(* Reject callbacks set ui_result and end the flow with ux_flow_over().    *)
(* The idle menu's Quit calls os_sched_exit, which ends the application.   *)
(* An I/O reset brings main() back to ui_idle().                           *)
(*                                                                         *)
(* flow is the flow on screen ("idle", "tx", "none" after ux_flow_over, or *)
(* "exited") and step its index.  shown is a history variable, not state   *)
(* of the code: the pairs <<display, field page>> on screen since the      *)
(* review flow was last started.                                           *)
(***************************************************************************)
EXTENDS Integers, Sequences

CONSTANTS
    Displays,   \* formatted tx_display_t structs the sign handler may pass
    NoDisplay,  \* g_display_ptr before the first call (NULL)
    FeeChecks   \* outcomes of the "Overflow" check the caller lets through

VARIABLES flow, step, ptr, shown, uiResult

vars == <<flow, step, ptr, shown, uiResult>>

\* UX_FLOW(ux_idle_flow, ...): "SUM Chain is ready", the version, Quit.
UX_IDLE_FLOW == <<"ready", "version", "quit">>

\* UX_FLOW(ux_tx_flow, ...): the review banner, the four bnnn_paging steps
\* that read *g_display_ptr, Approve and Reject.
UX_TX_FLOW ==
    <<"review", "chain_id", "recipient", "amount", "fee", "approve", "reject">>

FLOWS == [idle |-> UX_IDLE_FLOW, tx |-> UX_TX_FLOW]

\* Which flows end in FLOW_LOOP, for mutation analysis: a review flow
\* declared with FLOW_LOOP.
LOOPS_TX_TOO == [idle |-> TRUE, tx |-> TRUE]

LOOPS == [idle |-> TRUE, tx |-> FALSE]

\* The bnnn_paging steps of the review flow, each reading a field of
\* *g_display_ptr.
FIELD_PAGES == {"chain_id", "recipient", "amount", "fee"}

\* The steps with a callback (UX_STEP_CB) and the result they store.
CALLBACK == [approve |-> "APPROVED", reject |-> "REJECTED"]

\* A press that walks off the end of a flow without FLOW_LOOP, for
\* mutation analysis.
NeighbourNoEndCheck(f, i, dir) ==
    LET n == Len(FLOWS[f])
    IN  CASE 1 <= i + dir /\ i + dir <= n -> i + dir
          [] LOOPS[f] -> IF dir = 1 THEN 1 ELSE n
          [] OTHER -> i + dir

\* The step a press moves flow f from step i to: dir = 1 is the right
\* button, dir = -1 the left one.
Neighbour(f, i, dir) ==
    LET n == Len(FLOWS[f])
    IN  CASE 1 <= i + dir /\ i + dir <= n -> i + dir
          [] LOOPS[f] -> IF dir = 1 THEN 1 ELSE n
          [] OTHER -> i

\* The history entry for arriving at step i of flow f while ptr points at d.
Visit(f, d, i) ==
    {d} \X ({FLOWS[f][k] : k \in {i} \cap DOMAIN FLOWS[f]} \cap FIELD_PAGES)

\* ui_idle (main.c): ux_flow_init(0, ux_idle_flow, NULL).
UiIdle == flow' = "idle" /\ step' = 1

(***************************************************************************)
(* tx_display_show_approval(display), device build.  feeIsOverflow is      *)
(* strncmp(display->fee, "Overflow", 8) == 0: the call returns REJECTED    *)
(* without starting the flow, so whatever is on screen stays there.        *)
(***************************************************************************)
ShowApproval(d, feeIsOverflow) ==
    /\ flow # "exited"
    /\ ptr' = d
    /\ uiResult' = "NONE"
    /\ IF feeIsOverflow
       THEN UNCHANGED <<flow, step, shown>>
       ELSE /\ flow' = "tx" /\ step' = 1
            /\ shown' = Visit("tx", d, 1)

\* A button press that moves the flow on screen to another step.
Press(dir) ==
    /\ flow \in DOMAIN FLOWS
    /\ Neighbour(flow, step, dir) # step
    /\ step' = Neighbour(flow, step, dir)
    /\ shown' = shown \cup Visit(flow, ptr, step')
    /\ UNCHANGED <<flow, ptr, uiResult>>

\* Both buttons on Approve or Reject: the callback stores the result and
\* calls ux_flow_over().
Decide ==
    /\ flow = "tx"
    /\ FLOWS.tx[step] \in DOMAIN CALLBACK
    /\ uiResult' = CALLBACK[FLOWS.tx[step]]
    /\ flow' = "none" /\ step' = 0
    /\ UNCHANGED <<ptr, shown>>

\* Both buttons on Quit: os_sched_exit(-1).
Quit ==
    /\ flow = "idle" /\ FLOWS.idle[step] = "quit"
    /\ flow' = "exited" /\ step' = 0
    /\ UNCHANGED <<ptr, shown, uiResult>>

\* EXCEPTION_IO_RESET: main() runs UX_INIT and ui_idle again; G_state and
\* g_display_ptr are left as they were.
IoReset ==
    /\ flow # "exited"
    /\ UiIdle
    /\ UNCHANGED <<ptr, shown, uiResult>>

\* main(): UX_INIT, then ui_idle before app_main; G_state is zero.
Init ==
    /\ flow = "idle" /\ step = 1
    /\ ptr = NoDisplay
    /\ shown = {}
    /\ uiResult = "NONE"

Next ==
    \/ \E d \in Displays, feeIsOverflow \in FeeChecks :
          ShowApproval(d, feeIsOverflow)
    \/ \E dir \in {1, -1} : Press(dir)
    \/ Decide \/ Quit \/ IoReset

Spec == Init /\ [][Next]_vars

----------------------------------------------------------------------------
(* Properties.                                                             *)

TypeOK ==
    /\ flow \in {"idle", "tx", "none", "exited"}
    /\ flow \in DOMAIN FLOWS => step \in 1..Len(FLOWS[flow])
    /\ ptr \in Displays \cup {NoDisplay}
    /\ shown \subseteq Displays \X FIELD_PAGES
    /\ uiResult \in {"NONE", "APPROVED", "REJECTED"}

\* The Approve callback runs only after the user has had every field page
\* of the display g_display_ptr points at on screen since the review flow
\* was last started: the review flow does not wrap from its banner to
\* Approve, a new tx_display_show_approval restarts the walk, and an I/O
\* reset leaves the idle menu, from which no press reaches Approve.
ApprovalAfterFieldPages ==
    [][ uiResult' = "APPROVED" /\ uiResult # "APPROVED"
        => {ptr} \X FIELD_PAGES \subseteq shown ]_vars

\* Spec section 4.6 (display contract): the UI presents the decoded fields
\* chain_id, sender, recipient, amount, fee and nonce before approve can
\* lead to a signature.  ux_tx_flow has no step for the sender or the nonce.
ApprovalAfterContractFields ==
    [][ uiResult' = "APPROVED" /\ uiResult # "APPROVED"
        => {ptr} \X {"chain_id", "sender", "recipient", "amount", "fee",
                     "nonce"} \subseteq shown ]_vars
============================================================================
