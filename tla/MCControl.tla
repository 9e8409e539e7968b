----------------------------- MODULE MCControl -----------------------------
(***************************************************************************)
(* The parts of the VM that Trace leaves out or only assumes: dispatch and *)
(* hooks, machine code areas, the stack, the fold engine.  They share no   *)
(* variables; in each behaviour one of them, the focus, moves.             *)
(***************************************************************************)
EXTENDS MCTrace, Dispatch, MCode, Stack

CONSTANTS NARROW_MAX_BACKPROP, MaxPow, Families

VARIABLES focus, raw, family

Code == INSTANCE Emit
irVars == <<raw, family>>

ControlInit ==
  /\ focus \in {"trace", "dispatch", "mcode", "stack", "ir"}
  /\ Init /\ DispatchInit /\ MCodeInit /\ StackInit /\ Code!EmitInit
  /\ focus # "ir" => family = CHOOSE f \in Families : TRUE
  /\ focus # "mcode" => sizemcode = CHOOSE sz \in MCSizes : TRUE

ControlNext ==
  /\ UNCHANGED focus
  /\ \/ focus = "trace" /\ Next /\ UNCHANGED <<dispVars, mcodeVars, stackVars, irVars>>
     \/ focus = "dispatch" /\ DispatchNext /\ UNCHANGED <<vars, mcodeVars, stackVars, irVars>>
     \/ focus = "mcode" /\ MCodeNext /\ UNCHANGED <<vars, dispVars, stackVars, irVars>>
     \/ focus = "stack" /\ StackNext /\ UNCHANGED <<vars, dispVars, mcodeVars, irVars>>
     \/ focus = "ir" /\ Code!EmitNext /\ UNCHANGED <<vars, dispVars, mcodeVars, stackVars>>

controlVars == <<vars, dispVars, mcodeVars, stackVars, irVars, focus>>
ControlSpec ==
  /\ ControlInit /\ [][ControlNext]_controlVars
  /\ WF_vars(Compile) /\ WF_vars(lj_record_stop \/ lj_trace_err)

\* The fold engine of lj_opt_fold.c and lj_opt_narrow.c keeps the meaning of what
\* the recorder emits: for all inputs the instructions that are left compute the
\* same values, and every guard that would fail makes the trace exit.
FoldSound == [][raw # raw' => Code!Sound(raw', family)]_irVars
=============================================================================
