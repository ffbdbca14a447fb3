------------------------------- MODULE MCKernel -------------------------------
(***************************************************************************)
(* The kernel module by itself: every program of up to MaxLen instructions *)
(* from a pool that holds well-formed and malformed ones, programs that    *)
(* emit around the capacity of a message, and requests that are refused.   *)
(* One 16-bit register hangs off the bus.                                  *)
(***************************************************************************)
EXTENDS MdioNl

CONSTANTS MaxLen, MaxEmit, Cells

RegRead(d, addr, reg) == {[val |-> d, dev |-> d]}
RegWrite(d, addr, reg, val) == {val}
RegOther(d) == Cells

Pool == {
  INSN(READ, IMM(0), IMM(0), REG(0)),
  INSN(READ, IMM(0), IMM(0), IMM(0)),           \* destination is no register
  INSN(WRITE, IMM(33), REG(1), REG(9)),         \* register numbers wrap at 8
  INSN(ADD, REG(0), IMM(65535), REG(1)),
  INSN(OR, REG(0), IMM(2), REG(8)),
  INSN(AND, REG(1), ARG_RESERVED * U16, REG(1)),
  INSN(JEQ, REG(0), REG(1), IMM(-2)),           \* back, or before the program
  INSN(JNE, REG(0), IMM(0), REG(0)),            \* target is no immediate
  INSN(JNE, REG(0), IMM(1), IMM(32767)),        \* far behind the program
  INSN(EMIT, REG(1), 0, 0),
  INSN(EMIT, IMM(1), IMM(0), 0),                \* EMIT takes one argument
  INSN(0, IMM(0), IMM(0), IMM(0)),              \* MDIO_NL_OP_UNSPEC
  INSN(9, IMM(0), IMM(0), REG(0)) }             \* behind MDIO_NL_OP_MAX

Req(prog) == [attrs |-> TRUE, known |-> TRUE, aligned |-> TRUE, prog |-> prog]

\* n words out, then an instruction that may fail or be timed out.
Emits(n) == [i \in 1..n |-> INSN(EMIT, IMM(i), 0, 0)]
             \o <<INSN(READ, IMM(32769), IMM(1), REG(0))>>

PoolRequests == {Req(p) : p \in UNION {[1..n -> Pool] : n \in 0..MaxLen}}
EmitRequests == {Req(Emits(n)) : n \in 0..MaxEmit}
OddRequests  == {[Req(<<>>) EXCEPT !.attrs = FALSE], [Req(<<>>) EXCEPT !.known = FALSE],
                 [Req(<<>>) EXCEPT !.aligned = FALSE]}
\* A read-modify-write, a poll for a value another bus user may never write, and a
\* refused program, for transfers that compete for the bus.
Increment == <<INSN(READ, IMM(0), IMM(0), REG(0)), INSN(ADD, REG(0), IMM(1), REG(0)),
               INSN(AND, REG(0), IMM(1), REG(0)), INSN(WRITE, IMM(0), IMM(0), REG(0))>>
Poll      == <<INSN(READ, IMM(0), IMM(0), REG(0)), INSN(JNE, REG(0), IMM(1), GOTO(1, 0)),
               INSN(EMIT, REG(0), 0, 0)>>
BusyRequests == {Req(Increment), Req(Poll), [Req(<<>>) EXCEPT !.known = FALSE]}

AllRequests  == PoolRequests \cup EmitRequests \cup OddRequests

\* DATA holds nothing but what the program emitted, also when the program failed:
\* EMIT is how a program outputs ("Emit the contents of a register or immediate
\* value as an output of the program", man/mdio-netlink.9).
OnlyEmittedInData ==
  \A x \in Xfers : stage[x] = "done" /\ ~lost[x] => Words(Reply(x)) = emitted[x]
===============================================================================
