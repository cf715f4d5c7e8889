----------------------------- MODULE RunStates -----------------------------
(***************************************************************************)
(* The run and stage state machines: the frozen enumerations and the       *)
(* transition tables of domain/state_machines/run_states.py and            *)
(* stage_states.py.  Pure definitions; the components that move runs and   *)
(* stages extend this module.                                              *)
(***************************************************************************)

RunState == {"INITIATED", "AGGREGATING", "READY", "SENDING",
             "SENT", "FAILED", "ORPHANED"}

TERMINAL_STATES == {"SENT", "FAILED", "ORPHANED"}

NON_TERMINAL_STATES == RunState \ TERMINAL_STATES

\* The forward chain, plus FAILED and ORPHANED from every non-terminal state.
TRANSITIONS ==
  {<<"INITIATED", "AGGREGATING">>, <<"AGGREGATING", "READY">>,
   <<"READY", "SENDING">>, <<"SENDING", "SENT">>}
  \union (NON_TERMINAL_STATES \X {"FAILED", "ORPHANED"})

\* run_states.can_transition, and the guard by which transition() raises
\* InvalidStateTransitionError.
CanTransition(from, to) == <<from, to>> \in TRANSITIONS

StageState == {"PENDING", "IN_PROGRESS", "SUBMITTED", "RETRIED",
               "ACCEPTED", "TIMEOUT", "FAILED"}

STAGE_TERMINAL == {"ACCEPTED", "TIMEOUT", "FAILED"}

\* IN_PROGRESS is reserved for a later version: nothing enters or leaves it.
STAGE_TRANSITIONS ==
  {<<"PENDING", "SUBMITTED">>,
   <<"SUBMITTED", "RETRIED">>, <<"SUBMITTED", "ACCEPTED">>,
   <<"RETRIED", "RETRIED">>, <<"RETRIED", "ACCEPTED">>}
  \union ((StageState \ (STAGE_TERMINAL \union {"IN_PROGRESS"}))
          \X {"TIMEOUT", "FAILED"})

CanTransitionStage(from, to) == <<from, to>> \in STAGE_TRANSITIONS
=============================================================================
