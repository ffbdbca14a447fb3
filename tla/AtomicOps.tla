------------------------------ MODULE AtomicOps -------------------------------
(***************************************************************************)
(* What a register operation of the mdio tool promises: it happens at one  *)
(* instant between its submission and its answer, on the registers as they *)
(* are at that instant, or it is reported as failed and then has either    *)
(* happened completely or not at all.  Other users of the bus take their   *)
(* own steps in between.                                                   *)
(***************************************************************************)
CONSTANTS
  Clients,          \* who submits operations
  Ops,              \* the operations
  Apply(_, _),      \* registers after an operation
  Output(_, _),     \* what it outputs
  Others(_),        \* registers after another user's step
  Cells0,           \* the registers' possible initial values
  NoOp              \* stands for no operation

VARIABLES
  cells,            \* the registers
  phase,            \* "idle", "pending", "ok" or "failed", of each client
  op,               \* the operation it submitted
  out               \* its output

absVars == <<cells, phase, op, out>>

AbsInit ==
  /\ cells \in Cells0
  /\ phase = [c \in Clients |-> "idle"]
  /\ op = [c \in Clients |-> NoOp]
  /\ out = [c \in Clients |-> <<>>]

Submit(c) ==
  /\ phase[c] = "idle"
  /\ \E o \in Ops : op' = [op EXCEPT ![c] = o]
  /\ phase' = [phase EXCEPT ![c] = "pending"]
  /\ UNCHANGED <<cells, out>>

\* Refused before it is looked at.
Reject(c) ==
  /\ phase[c] = "idle"
  /\ \E o \in Ops : op' = [op EXCEPT ![c] = o]
  /\ phase' = [phase EXCEPT ![c] = "failed"]
  /\ UNCHANGED <<cells, out>>

Perform(c) ==
  /\ phase[c] = "pending"
  /\ cells' = Apply(op[c], cells)
  /\ out' = [out EXCEPT ![c] = Output(op[c], cells)]
  /\ phase' = [phase EXCEPT ![c] = "ok"]
  /\ UNCHANGED op

Abort(c) ==
  /\ phase[c] = "pending"
  /\ cells' \in {cells, Apply(op[c], cells)}
  /\ phase' = [phase EXCEPT ![c] = "failed"]
  /\ UNCHANGED <<op, out>>

Return(c) ==
  /\ phase[c] \in {"ok", "failed"}
  /\ phase' = [phase EXCEPT ![c] = "idle"]
  /\ op' = [op EXCEPT ![c] = NoOp]
  /\ out' = [out EXCEPT ![c] = <<>>]
  /\ UNCHANGED cells

Interfere ==
  /\ cells' \in Others(cells)
  /\ UNCHANGED <<phase, op, out>>

AbsNext ==
  \/ Interfere
  \/ \E c \in Clients : Submit(c) \/ Reject(c) \/ Perform(c) \/ Abort(c) \/ Return(c)

AbsSpec == AbsInit /\ [][AbsNext]_absVars
===============================================================================
