-------------------------------- MODULE MdioNl --------------------------------
(***************************************************************************)
(* The kernel side, kernel/mdio-netlink.c: the handler of an MDIO_GENL_XFER*)
(* request (mdio_nl_cmd_xfer), the virtual machine that runs the request's *)
(* program under the bus lock (mdio_nl_eval), and the assembly of the reply*)
(* out of netlink messages of bounded size (mdio_nl_open, _emit, _flush,   *)
(* _close).                                                                *)
(*                                                                         *)
(* One bus is modelled; every transfer in Xfers is one client's request to *)
(* it.  What hangs off the bus is a parameter: DevRead and DevWrite give   *)
(* the outcomes of a successful bus cycle, OtherAccess what another user of*)
(* the bus (the kernel's own PHY and switch drivers) may do to it while it *)
(* holds the bus lock.                                                     *)
(***************************************************************************)
EXTENDS MdioInsn, FiniteSets

CONSTANTS
  Xfers,                \* the transfers (client requests) there can be at once
  Requests,             \* the requests clients may send, see Request below
  Cap,                  \* 32-bit words that fit behind the headers of a message
  RcvBuf,               \* messages that fit a client's receive buffer
  PcSpan,               \* values of the program counter, 2^32 in the code
  ParallelOps,          \* may handlers overlap?  FALSE for this genl_family
  Faults,               \* what may go wrong: "bus", "nomem", "peer"
  DevInit,              \* the devices on the bus: initial states,
  DevRead(_, _, _),     \*   [val, dev] outcomes of a read cycle,
  DevWrite(_, _, _, _), \*   states after a write cycle,
  OtherAccess(_)        \*   states after another bus user's access

\* A request whose BUS_ID and PROG, if there, are no longer than the policy allows.
Request(r) ==
  /\ r.attrs \in BOOLEAN        \* BUS_ID and PROG are there, DATA and ERROR not
  /\ r.known \in BOOLEAN        \* BUS_ID names a bus
  /\ r.aligned \in BOOLEAN      \* PROG's length is a multiple of 8
  /\ r.prog \in Seq(Insn)

ASSUME CapAssumption == Cap \in Nat /\ Cap >= 6
ASSUME RcvBufAssumption == RcvBuf \in Nat \ {0}
ASSUME PcSpanAssumption == PcSpan \in Nat /\ PcSpan >= U16
ASSUME FlagsAssumption == ParallelOps \in BOOLEAN
ASSUME RequestsAssumption == \A r \in Requests : Request(r)

VARIABLES
  stage,    \* where each transfer's handler is
  req,      \* the request it handles
  pc,       \* program counter, zero based
  regs,     \* the VM's eight registers
  ret,      \* result of mdio_nl_eval, then of the handler
  late,     \* has the transfer's deadline passed?
  msg,      \* the message under construction, xfer->msg
  sock,     \* messages delivered to the client's socket
  emitted,  \* history: what the program's EMITs have put out
  lost,     \* history: could a message not be allocated or delivered?
  lock,     \* the transfers that hold bus->mdio_lock
  dev,      \* the devices on the bus
  dev0,     \* history: the devices when the bus lock was last free
  refs      \* references mdio_find_bus took on the bus device

vmVars  == <<req, pc, regs, ret, late>>
msgVars == <<msg, sock, emitted, lost>>
devVars == <<lock, dev, dev0>>
vars    == <<stage, vmVars, msgVars, devVars, refs>>

EIO == 5
EAGAIN == 11
ENOMEM == 12
ENODEV == 19
EINVAL == 22
ETIMEDOUT == 110

NoReq == [attrs |-> FALSE, known |-> FALSE, aligned |-> FALSE, prog |-> <<>>]
Regs  == 0..7

-------------------------------------------------------------------------------
(***************************************************************************)
(* The reply.  A message holds the words of its DATA attribute, possibly an*)
(* ERROR attribute (two words) and an NLMSG_DONE header (four words).  ends*)
(* says whether genlmsg_end has made the message's length cover its        *)
(* attributes.  The operators give sets of outcomes [msg, sock, lost, ret].*)
(***************************************************************************)
Fresh == [st |-> "open", data |-> <<>>, err |-> 0, ends |-> FALSE, done |-> FALSE]
Null  == [Fresh EXCEPT !.st = "null"]       \* nlmsg_new returned NULL
Sent  == [Fresh EXCEPT !.st = "sent"]       \* given away, xfer->msg dangles
Misused == [Fresh EXCEPT !.st = "misused"]  \* used or freed after that

\* An attribute inside the DATA nest reads as two words: header and value.
ErrorWords(m) == IF m.err = 0 THEN <<>> ELSE <<327688, m.err>>
Used(m) == Len(m.data) + Len(ErrorWords(m))

\* The acknowledgement netlink sends when the handler has returned.
Ack(r)  == [kind |-> "ack", data |-> <<>>, err |-> r, ends |-> TRUE, done |-> TRUE]
Skb(m)  == [kind |-> "xfer", data |-> m.data, err |-> m.err, ends |-> m.ends, done |-> m.done]

Outcome(m, s, l, r) == [msg |-> m, sock |-> s, lost |-> l, ret |-> r]

\* nla_nest_end: DATA now reaches to the end of what the message holds.
nest_end(m) == [m EXCEPT !.data = m.data \o ErrorWords(m), !.err = 0]

\* genlmsg_unicast consumes the message, delivered or not.
unicast(m, s, l) ==
  LET delivered == {Outcome(Sent, Append(s, Skb(m)), l, 0)}
      dropped   == {Outcome(Sent, s, TRUE, -EAGAIN)}
  IN  IF Len(s) >= RcvBuf THEN dropped
      ELSE IF "peer" \in Faults THEN delivered \cup dropped
      ELSE delivered

mdio_nl_open(s, l) ==
  LET opened == {Outcome(Fresh, s, l, 0)}
  IN  IF "nomem" \in Faults
        THEN opened \cup {Outcome(Null, s, TRUE, -ENOMEM)} ELSE opened

\* Mutant of mdio_nl_flush: no new message is opened.
BadFlush(m, s, l) == unicast([nest_end(m) EXCEPT !.ends = TRUE], s, l)

\* mdio_nl_flush: mdio_nl_close(xfer, false, 0), then mdio_nl_open.
mdio_nl_flush(m, s, l) ==
  UNION {IF o.ret # 0 THEN {o} ELSE mdio_nl_open(o.sock, o.lost) :
            o \in unicast([nest_end(m) EXCEPT !.ends = TRUE], s, l)}

put_datum(m, datum) == [m EXCEPT !.data = Append(m.data, datum)]

\* Mutant of mdio_nl_emit: the datum that did not fit is not put again.
BadEmit(m, s, l, datum) ==
  IF Used(m) + 1 <= Cap
    THEN {Outcome(put_datum(m, datum), s, l, 0)}
    ELSE mdio_nl_flush(m, s, l)

mdio_nl_emit(m, s, l, datum) ==
  IF Used(m) + 1 <= Cap
    THEN {Outcome(put_datum(m, datum), s, l, 0)}
    ELSE {IF o.ret # 0 THEN o ELSE [o EXCEPT !.msg = put_datum(o.msg, datum)] :
             o \in mdio_nl_flush(m, s, l)}

\* Closing, first part: the ERROR attribute, in a new message if need be.
put_error(m, s, l, xerr) ==
  IF xerr = 0 THEN {Outcome(m, s, l, 0)}
  ELSE IF Used(m) + 2 <= Cap THEN {Outcome([m EXCEPT !.err = xerr], s, l, 0)}
  ELSE {IF o.ret # 0 THEN o ELSE [o EXCEPT !.msg.err = xerr] :
           o \in mdio_nl_flush(m, s, l)}

\* Second part: the NLMSG_DONE header.  The new message's genetlink header has
\* not seen genlmsg_end.
put_done(m, s, l) ==
  IF Used(m) + 4 <= Cap THEN {Outcome([m EXCEPT !.done = TRUE], s, l, 0)}
  ELSE {IF o.ret # 0 THEN o ELSE [o EXCEPT !.msg.done = TRUE] :
           o \in mdio_nl_flush(m, s, l)}

\* err_free, after a flush that failed: freeing NULL does nothing.
err_free(o) == IF o.msg = Null THEN o ELSE [o EXCEPT !.msg = Misused]

CloseWith(m, s, l, xerr) ==
  UNION {IF e.ret # 0 THEN {err_free(e)}
         ELSE UNION {IF d.ret # 0 THEN {err_free(d)}
                     ELSE unicast(d.msg, d.sock, d.lost) :
                       d \in put_done([e.msg EXCEPT !.ends = TRUE], e.sock, e.lost)} :
            e \in put_error(m, s, l, xerr)}

\* Mutant of mdio_nl_close: NLMSG_DONE is only sent when the program succeeded.
BadClose(m, s, l, xerr) ==
  IF xerr = 0 THEN CloseWith(nest_end(m), s, l, 0)
  ELSE unicast([nest_end(m) EXCEPT !.err = xerr, !.ends = TRUE], s, l)

\* mdio_nl_close(xfer, true, xerr).  It starts by writing to xfer->msg.
mdio_nl_close(m, s, l, xerr) ==
  IF m.st = "open" THEN CloseWith(nest_end(m), s, l, xerr)
  ELSE {Outcome(Misused, s, l, -EINVAL)}

-------------------------------------------------------------------------------
(***************************************************************************)
(* Instruction operands.  A misused mode is a BUG() in the code; NoBug     *)
(* below says that it cannot happen.                                       *)
(***************************************************************************)

\* Mutant of Running: the loop does not look at the deadline.
BadRunning(x) == stage[x] = "run" /\ pc[x] < Len(req[x].prog)

Running(x) == stage[x] = "run" /\ pc[x] < Len(req[x].prog) /\ ~late[x]
insn(x) == req[x].prog[pc[x] + 1]

arg_ri(x, arg) ==
  IF ArgMode(arg) = ARG_IMM THEN ArgValue(arg) ELSE regs[x][arg % 8]

A0(x) == arg_ri(x, insn(x).arg0)
A1(x) == arg_ri(x, insn(x).arg1)
A2(x) == arg_ri(x, insn(x).arg2)

\* *__arg_r(insn->arg2, regs) = val
SetReg(x, val) ==
  regs' = [regs EXCEPT ![x][insn(x).arg2 % 8] = val]

\* The operand accesses an instruction makes: arg0 and arg1 (RI), arg2 (R, RI or I).
OperandsOK(x) ==
  LET i == insn(x) IN
  /\ ArgMode(i.arg0) \in RI
  /\ i.op # EMIT => ArgMode(i.arg1) \in RI
  /\ i.op \in {READ, AND, OR, ADD} => ArgMode(i.arg2) = ARG_REG
  /\ i.op = WRITE => ArgMode(i.arg2) \in RI
  /\ (i.op = JEQ /\ A0(x) = A1(x)) \/ (i.op = JNE /\ A0(x) # A1(x))
       => ArgMode(i.arg2) = ARG_IMM

\* mdio_phy_id_is_c45: a Clause 45 id has bit 15 and otherwise only a port and a
\* device number; a Clause 22 id is the device's address.
BusAddr(id) ==
  IF id \in 32768..33791 THEN <<(id % 1024) \div 32, id % 32>> ELSE <<id>>

-------------------------------------------------------------------------------
Init ==
  /\ stage = [x \in Xfers |-> "idle"]
  /\ req = [x \in Xfers |-> NoReq]
  /\ pc = [x \in Xfers |-> 0]
  /\ regs = [x \in Xfers |-> [r \in Regs |-> 0]]
  /\ ret = [x \in Xfers |-> 0]
  /\ late = [x \in Xfers |-> FALSE]
  /\ msg = [x \in Xfers |-> Null]
  /\ sock = [x \in Xfers |-> <<>>]
  /\ emitted = [x \in Xfers |-> <<>>]
  /\ lost = [x \in Xfers |-> FALSE]
  /\ lock = {}
  /\ dev \in DevInit
  /\ dev0 = dev
  /\ refs = 0

\* Generic netlink runs one handler at a time unless the family says parallel_ops.
InHandler(x) == stage[x] \in {"lock", "run", "exit", "close", "fault"}
MayEnter == ParallelOps \/ \A y \in Xfers : ~InHandler(y)

\* The request the policy or the handler refuses before it takes anything.
RefusedWith(r) ==
  IF ~validate_prog(r.prog, r.aligned) THEN -EINVAL
  ELSE IF ~r.attrs THEN -EINVAL
  ELSE IF ~r.known THEN -ENODEV
  ELSE 0

Refuse(x, r) ==
  /\ stage[x] = "idle" /\ MayEnter
  /\ RefusedWith(r) # 0
  /\ stage' = [stage EXCEPT ![x] = "done"]
  /\ req' = [req EXCEPT ![x] = r]
  /\ ret' = [ret EXCEPT ![x] = RefusedWith(r)]
  /\ sock' = [sock EXCEPT ![x] = <<Ack(RefusedWith(r))>>]
  /\ UNCHANGED <<pc, regs, late, msg, emitted, lost, devVars, refs>>

\* Mutant of OpenFails: the reference is kept.
BadOpenFails(x, r) ==
  /\ stage[x] = "idle" /\ MayEnter
  /\ RefusedWith(r) = 0
  /\ \E o \in mdio_nl_open(<<>>, FALSE) :
       /\ o.ret # 0
       /\ stage' = [stage EXCEPT ![x] = "done"]
       /\ req' = [req EXCEPT ![x] = r]
       /\ ret' = [ret EXCEPT ![x] = o.ret]
       /\ msg' = [msg EXCEPT ![x] = o.msg]
       /\ lost' = [lost EXCEPT ![x] = TRUE]
       /\ sock' = [sock EXCEPT ![x] = <<Ack(o.ret)>>]
  /\ refs' = refs + 1
  /\ UNCHANGED <<pc, regs, late, emitted, devVars>>

\* mdio_find_bus, then the first mdio_nl_open fails: the reference is put.
OpenFails(x, r) ==
  /\ stage[x] = "idle" /\ MayEnter
  /\ RefusedWith(r) = 0
  /\ \E o \in mdio_nl_open(<<>>, FALSE) :
       /\ o.ret # 0
       /\ stage' = [stage EXCEPT ![x] = "done"]
       /\ req' = [req EXCEPT ![x] = r]
       /\ ret' = [ret EXCEPT ![x] = o.ret]
       /\ msg' = [msg EXCEPT ![x] = o.msg]
       /\ lost' = [lost EXCEPT ![x] = TRUE]
       /\ sock' = [sock EXCEPT ![x] = <<Ack(o.ret)>>]
  /\ UNCHANGED <<pc, regs, late, emitted, devVars, refs>>

\* The handler up to mutex_lock: the bus is found, a message opened, the registers
\* cleared and the deadline set.
Begin(x, r) ==
  /\ stage[x] = "idle" /\ MayEnter
  /\ RefusedWith(r) = 0
  /\ stage' = [stage EXCEPT ![x] = "lock"]
  /\ req' = [req EXCEPT ![x] = r]
  /\ pc' = [pc EXCEPT ![x] = 0]
  /\ regs' = [regs EXCEPT ![x] = [i \in Regs |-> 0]]
  /\ ret' = [ret EXCEPT ![x] = 0]
  /\ late' = [late EXCEPT ![x] = FALSE]
  /\ msg' = [msg EXCEPT ![x] = Fresh]
  /\ refs' = refs + 1
  /\ UNCHANGED <<sock, emitted, lost, devVars>>

\* Time passes the deadline, which runs from before the wait for the lock.
Expire(x) ==
  /\ stage[x] \in {"lock", "run"} /\ ~late[x]
  /\ late' = [late EXCEPT ![x] = TRUE]
  /\ UNCHANGED <<stage, req, pc, regs, ret, msgVars, devVars, refs>>

\* Mutant of Lock: the bus lock is not waited for.
BadLock(x) ==
  /\ stage[x] = "lock"
  /\ stage' = [stage EXCEPT ![x] = "run"]
  /\ lock' = lock \cup {x}
  /\ UNCHANGED <<vmVars, msgVars, dev, dev0, refs>>

Lock(x) ==
  /\ stage[x] = "lock" /\ lock = {}
  /\ stage' = [stage EXCEPT ![x] = "run"]
  /\ lock' = lock \cup {x}
  /\ UNCHANGED <<vmVars, msgVars, dev, dev0, refs>>

-------------------------------------------------------------------------------
(***************************************************************************)
(* The VM: one action per kind of instruction.                             *)
(***************************************************************************)
Goto(x, n) == pc' = [pc EXCEPT ![x] = n % PcSpan]
GoOn(x) == Goto(x, pc[x] + 1)

\* goto exit: leave the loop with an error.
ExitWith(x, err) ==
  /\ stage' = [stage EXCEPT ![x] = "exit"]
  /\ ret' = [ret EXCEPT ![x] = err]

ReadInsn(x) ==
  /\ Running(x) /\ insn(x).op = READ
  /\ \E o \in DevRead(dev, BusAddr(A0(x)), A1(x)) :
       /\ o.val \in Word
       /\ SetReg(x, o.val)
       /\ dev' = o.dev
  /\ GoOn(x)
  /\ UNCHANGED <<stage, req, ret, late, msgVars, lock, dev0, refs>>

WriteInsn(x) ==
  /\ Running(x) /\ insn(x).op = WRITE
  /\ \E d \in DevWrite(dev, BusAddr(A0(x)), A1(x), A2(x)) : dev' = d
  /\ GoOn(x)
  /\ UNCHANGED <<stage, req, regs, ret, late, msgVars, lock, dev0, refs>>

\* A bus cycle returns an error: the program stops there.
BusError(x) ==
  /\ Running(x) /\ insn(x).op \in {READ, WRITE} /\ "bus" \in Faults
  /\ ExitWith(x, -EIO)
  /\ UNCHANGED <<req, pc, regs, late, msgVars, devVars, refs>>

AluInsn(x) ==
  /\ Running(x) /\ insn(x).op \in {AND, OR, ADD}
  /\ SetReg(x, Alu(insn(x).op, A0(x), A1(x)))
  /\ GoOn(x)
  /\ UNCHANGED <<stage, req, ret, late, msgVars, devVars, refs>>

Taken(x) == IF insn(x).op = JEQ THEN A0(x) = A1(x) ELSE A0(x) # A1(x)

\* Mutant of JumpTarget: the jump replaces the loop's own increment.
BadJumpTarget(x) ==
  IF Taken(x) THEN pc[x] + S16(ArgValue(insn(x).arg2)) ELSE pc[x] + 1

\* pc += (s16)imm, then the loop's ++pc.
JumpTarget(x) ==
  IF Taken(x) THEN pc[x] + S16(ArgValue(insn(x).arg2)) + 1 ELSE pc[x] + 1

JumpInsn(x) ==
  /\ Running(x) /\ insn(x).op \in {JEQ, JNE}
  /\ Goto(x, JumpTarget(x))
  /\ UNCHANGED <<stage, req, regs, ret, late, msgVars, devVars, refs>>

EmitInsn(x) ==
  /\ Running(x) /\ insn(x).op = EMIT
  /\ \E o \in mdio_nl_emit(msg[x], sock[x], lost[x], A0(x)) :
       /\ msg' = [msg EXCEPT ![x] = o.msg]
       /\ sock' = [sock EXCEPT ![x] = o.sock]
       /\ lost' = [lost EXCEPT ![x] = o.lost]
       /\ IF o.ret = 0
            THEN /\ GoOn(x)
                 /\ emitted' = [emitted EXCEPT ![x] = Append(@, A0(x))]
                 /\ UNCHANGED <<stage, ret>>
            ELSE /\ ExitWith(x, o.ret)
                 /\ UNCHANGED <<pc, emitted>>
  /\ UNCHANGED <<req, regs, late, devVars, refs>>

\* The loop ends: past the program's end, out of time, or an unknown operation.
LeaveCode(x) ==
  IF pc[x] >= Len(req[x].prog) THEN 0 ELSE IF late[x] THEN -ETIMEDOUT ELSE -EINVAL

Leave(x) ==
  /\ stage[x] = "run"
  /\ ~(Running(x) /\ insn(x).op \in 1..OP_MAX)
  /\ ExitWith(x, LeaveCode(x))
  /\ UNCHANGED <<req, pc, regs, late, msgVars, devVars, refs>>

Unlock(x) ==
  /\ stage[x] = "exit"
  /\ stage' = [stage EXCEPT ![x] = "close"]
  /\ lock' = lock \ {x}
  /\ dev0' = dev
  /\ UNCHANGED <<vmVars, msgVars, dev, refs>>

\* The reply is closed, the bus put and the handler's result acknowledged.  What
\* the kernel does once it has used a message it no longer owns is undefined: the
\* handler stops there.
Close(x) ==
  /\ stage[x] = "close"
  /\ \E o \in mdio_nl_close(msg[x], sock[x], lost[x], ret[x]) :
       /\ msg' = [msg EXCEPT ![x] = o.msg]
       /\ lost' = [lost EXCEPT ![x] = o.lost]
       /\ IF o.msg = Misused
            THEN /\ stage' = [stage EXCEPT ![x] = "fault"]
                 /\ sock' = [sock EXCEPT ![x] = o.sock]
                 /\ refs' = refs
            ELSE /\ stage' = [stage EXCEPT ![x] = "done"]
                 /\ sock' = [sock EXCEPT ![x] = Append(o.sock, Ack(o.ret))]
                 /\ refs' = refs - 1
  /\ UNCHANGED <<vmVars, emitted, devVars>>

\* The client closes its socket; its next request comes over a new one.
Finish(x) ==
  /\ stage[x] = "done"
  /\ stage' = [stage EXCEPT ![x] = "idle"]
  /\ req' = [req EXCEPT ![x] = NoReq]
  /\ pc' = [pc EXCEPT ![x] = 0]
  /\ regs' = [regs EXCEPT ![x] = [i \in Regs |-> 0]]
  /\ ret' = [ret EXCEPT ![x] = 0]
  /\ late' = [late EXCEPT ![x] = FALSE]
  /\ msg' = [msg EXCEPT ![x] = Null]
  /\ sock' = [sock EXCEPT ![x] = <<>>]
  /\ emitted' = [emitted EXCEPT ![x] = <<>>]
  /\ lost' = [lost EXCEPT ![x] = FALSE]
  /\ UNCHANGED <<devVars, refs>>

\* Mutant of OtherUse: a bus user that does not take the bus lock.
BadOtherUse ==
  /\ \E d \in OtherAccess(dev) : dev' = d /\ dev0' = d
  /\ UNCHANGED <<stage, vmVars, msgVars, lock, refs>>

\* Another user of the bus: mdiobus_read or mdiobus_write, under the bus lock.
OtherUse ==
  /\ lock = {}
  /\ \E d \in OtherAccess(dev) : dev' = d /\ dev0' = d
  /\ UNCHANGED <<stage, vmVars, msgVars, lock, refs>>

Enter(x) ==
  \E r \in Requests : Refuse(x, r) \/ OpenFails(x, r) \/ Begin(x, r)

\* What the handler does by itself once it holds the lock.
Step(x) ==
  \/ ReadInsn(x) \/ WriteInsn(x) \/ BusError(x) \/ AluInsn(x) \/ JumpInsn(x)
  \/ EmitInsn(x) \/ Leave(x) \/ Unlock(x) \/ Close(x)

Next ==
  \/ OtherUse
  \/ \E x \in Xfers : Enter(x) \/ Expire(x) \/ Lock(x) \/ Step(x) \/ Finish(x)

Spec == Init /\ [][Next]_vars

\* The handler runs, time passes, and a waiter eventually gets the mutex.
Fairness ==
  \A x \in Xfers : WF_vars(Step(x)) /\ WF_vars(Expire(x)) /\ SF_vars(Lock(x))

FairSpec == Spec /\ Fairness

-------------------------------------------------------------------------------
(***************************************************************************)
(* Properties.                                                             *)
(***************************************************************************)
Stages == {"idle", "lock", "run", "exit", "close", "done", "fault"}
Msg == [st: {"open", "null", "sent", "misused"}, data: Seq(Int), err: Int,
        ends: BOOLEAN, done: BOOLEAN]
Datagram == [kind: {"xfer", "ack"}, data: Seq(Int), err: Int,
             ends: BOOLEAN, done: BOOLEAN]

\* Every variable has its type; in particular what the VM puts in its registers
\* is a 16-bit word whatever the program computes (mdio_nl_eval).
TypeOK ==
  /\ stage \in [Xfers -> Stages]
  /\ req = [x \in Xfers |-> req[x]] /\ \A x \in Xfers : Request(req[x])
  /\ pc \in [Xfers -> 0..(PcSpan - 1)]
  /\ regs \in [Xfers -> [Regs -> Word]]
  /\ ret \in [Xfers -> Int]
  /\ late \in [Xfers -> BOOLEAN]
  /\ msg \in [Xfers -> Msg]
  /\ sock \in [Xfers -> Seq(Datagram)]
  /\ emitted \in [Xfers -> Seq(Word)]
  /\ lost \in [Xfers -> BOOLEAN]
  /\ lock \subseteq Xfers
  /\ refs \in Int

\* No BUG_ON of the operand accessors and no unknown operation is reached: the
\* validator refuses, before a bus is looked up, every program the VM cannot run
\* (mdio_nl_validate_insn against __arg_r, __arg_i, __arg_ri and the default case).
NoBug ==
  \A x \in Xfers : Running(x) => insn(x).op \in 1..OP_MAX /\ OperandsOK(x)

\* The bus lock is held by the one transfer that is between mutex_lock and
\* mutex_unlock in mdio_nl_eval, and by nobody else.
LockHeld ==
  \A x, y \in Xfers :
    /\ (x \in lock) <=> (stage[x] \in {"run", "exit"})
    /\ x \in lock /\ y \in lock => x = y

\* While a transfer holds the bus lock the devices change only in a step of that
\* transfer's own program ("execute multiple reads/writes as an atomic transaction").
Isolated ==
  [][\A x \in Xfers :
       x \in lock /\ dev' # dev => pc'[x] # pc[x] /\ insn(x).op \in {READ, WRITE}]_vars

\* References on the bus are exactly those of the handlers that are under way:
\* every way out of mdio_nl_cmd_xfer puts the bus it found.
RefsBalance ==
  refs = Cardinality({x \in Xfers : stage[x] \in {"lock", "run", "exit", "close", "fault"}})

\* The messages of a reply, without the acknowledgement behind them.
Reply(x) ==
  LET s == sock[x]
  IN  IF s # <<>> /\ s[Len(s)].kind = "ack" THEN SubSeq(s, 1, Len(s) - 1) ELSE s

\* All the DATA words of a sequence of messages, in order.
Words(s) ==
  LET f[i \in 0..Len(s)] == IF i = 0 THEN <<>> ELSE f[i - 1] \o s[i].data
  IN  f[Len(s)]

\* A handler only ever touches a message it still owns, unless a message could
\* not be allocated or delivered (mdio_nl_flush failing under _emit or _close).
OwnsMessage ==
  \A x \in Xfers : stage[x] = "fault" => lost[x]

\* What the client is sent is what the program emitted: whatever the boundaries of
\* messages, the DATA of the delivered messages, and of the one under construction,
\* are the emitted words in order (mdio_nl_emit, _flush).
DataIsEmitted ==
  \A x \in Xfers :
    (ret[x] = 0 /\ ~lost[x] /\ stage[x] # "idle")
      => emitted[x] = Words(Reply(x)) \o (IF msg[x].st = "open" THEN msg[x].data ELSE <<>>)

\* A finished transfer nothing was lost of is answered with NLMSG_DONE in the last
\* message and only there, in front of the one acknowledgement (mdio_nl_close).
OneDone ==
  \A x \in Xfers :
    stage[x] = "done" /\ ~lost[x] /\ RefusedWith(req[x]) = 0 =>
      /\ Reply(x) # <<>>
      /\ \A i \in 1..Len(Reply(x)) :
           Reply(x)[i].kind = "xfer" /\ (Reply(x)[i].done <=> i = Len(Reply(x)))

\* Every request that got past the checks is answered and every handler returns,
\* whatever the program: a looping one runs into its deadline.
Completes ==
  \A x \in Xfers : stage[x] = "lock" ~> stage[x] \in {"done", "fault"}
===============================================================================
