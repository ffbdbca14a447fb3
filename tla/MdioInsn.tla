------------------------------- MODULE MdioInsn -------------------------------
(***************************************************************************)
(* The byte code of the mdio-netlink virtual machine: how an instruction   *)
(* and its arguments are encoded (the header include/linux/mdio-netlink.h  *)
(* and the macros of src/mdio/mdio.h), the 16-bit arithmetic of the VM, and*)
(* the validator that decides which programs reach it.                     *)
(*                                                                         *)
(* An argument is an 18-bit number: two bits of mode above a 16-bit value. *)
(* It is kept as that number, because code that encodes an already encoded *)
(* argument once more is type-correct C and must be type-correct here.     *)
(***************************************************************************)
EXTENDS Integers, Sequences

U16     == 65536                \* how many values a u16 has
Word    == 0..(U16 - 1)         \* u16: a VM register, a bus datum
ArgBits == 0..(4 * U16 - 1)     \* mdio_nl_insn.arg{0,1,2} are 18 bits wide

(***************************************************************************)
(* Operation codes and argument modes.                                     *)
(***************************************************************************)
READ  == 1
WRITE == 2
AND   == 3
OR    == 4
ADD   == 5
JEQ   == 6
JNE   == 7
EMIT  == 8
OP_MAX == 8

ARG_NONE     == 0
ARG_REG      == 1
ARG_IMM      == 2
ARG_RESERVED == 3

Insn == [op: 0..255, arg0: ArgBits, arg1: ArgBits, arg2: ArgBits]

(***************************************************************************)
(* The macros programs are written with.  The (uint16_t) casts are the     *)
(* reductions modulo 2^16: they also encode negative jumps.                *)
(***************************************************************************)
REG(r) == ARG_REG * U16 + (r % U16)
IMM(n) == ARG_IMM * U16 + (n % U16)
GOTO(from, to) == IMM(to - from - 1)
INSN(op, a0, a1, a2) == [op |-> op, arg0 |-> a0, arg1 |-> a1, arg2 |-> a2]

\* arg >> 16, arg & 0xffff, and the (s16) cast of a jump's immediate.
ArgMode(arg)  == arg \div U16
ArgValue(arg) == arg % U16
S16(w) == IF w < 32768 THEN w ELSE w - U16

(***************************************************************************)
(* Bitwise operators on 16-bit words, as the sum of the powers of two for  *)
(* which F holds.                                                          *)
(***************************************************************************)
Bit(w, p) == (w \div p) % 2 = 1
SumBits(F(_)) ==
  LET b(p) == IF F(p) THEN p ELSE 0
  IN  b(1) + b(2) + b(4) + b(8) + b(16) + b(32) + b(64) + b(128) + b(256)
      + b(512) + b(1024) + b(2048) + b(4096) + b(8192) + b(16384) + b(32768)
BitAnd(a, b) == LET F(p) == Bit(a, p) /\ Bit(b, p) IN SumBits(F)
BitOr(a, b)  == LET F(p) == Bit(a, p) \/ Bit(b, p) IN SumBits(F)

\* Mutant of Alu: the sum is stored untruncated.
BadAlu(op, a, b) ==
  CASE op = AND -> BitAnd(a, b)
    [] op = OR  -> BitOr(a, b)
    [] op = ADD -> a + b

\* What the three arithmetic instructions store: the sum is truncated to u16.
Alu(op, a, b) ==
  CASE op = AND -> BitAnd(a, b)
    [] op = OR  -> BitOr(a, b)
    [] op = ADD -> (a + b) % U16

(***************************************************************************)
(* The validator.  mdio_nl_op_protos: the modes each argument may have.    *)
(* The entry of op 0 (UNSPEC) is all zeroes, so nothing matches it.        *)
(***************************************************************************)
RI == {ARG_REG, ARG_IMM}

op_protos(op) ==
  CASE op = 0            -> <<{}, {}, {}>>
    [] op \in {READ, AND, OR, ADD} -> <<RI, RI, {ARG_REG}>>
    [] op = WRITE        -> <<RI, RI, RI>>
    [] op \in {JEQ, JNE} -> <<RI, RI, {ARG_IMM}>>
    [] op = EMIT         -> <<RI, {ARG_NONE}, {ARG_NONE}>>

\* Mutant of validate_insn: argument 2 is not checked.
BadValidateInsn(insn) ==
  /\ insn.op <= OP_MAX
  /\ ArgMode(insn.arg0) \in op_protos(insn.op)[1]
  /\ ArgMode(insn.arg1) \in op_protos(insn.op)[2]

validate_insn(insn) ==
  /\ insn.op <= OP_MAX
  /\ ArgMode(insn.arg0) \in op_protos(insn.op)[1]
  /\ ArgMode(insn.arg1) \in op_protos(insn.op)[2]
  /\ ArgMode(insn.arg2) \in op_protos(insn.op)[3]

\* aligned: the attribute's length is a multiple of the instruction size.
validate_prog(prog, aligned) ==
  aligned /\ \A i \in 1..Len(prog) : validate_insn(prog[i])
===============================================================================
