----------------------------- MODULE MdioOpsProof -----------------------------
(***************************************************************************)
(* The programs of the drivers, executed symbolically.  An assertion for   *)
(* every position of every program says what the program has done there to *)
(* the device and to the VM's registers; each instruction leads from the   *)
(* assertion of its position to that of the next one.  From that: a        *)
(* register operation implements one atomic operation on the registers,    *)
(* and a paged PHY is left on its page.                                    *)
(***************************************************************************)
EXTENDS MdioOps, MdioNlProof, SequenceTheorems

-------------------------------------------------------------------------------
(***************************************************************************)
(* One instruction, as a relation between configurations: position in the  *)
(* program, VM registers, device.                                          *)
(***************************************************************************)

\* An operand: what is in it, or in the register it names.
Arg(r, arg) == IF ArgMode(arg) = ARG_IMM THEN ArgValue(arg) ELSE r[arg % 8]

\* Whether a jump is taken.
Jumps(i, r) ==
  IF i.op = JEQ THEN Arg(r, i.arg0) = Arg(r, i.arg1) ELSE Arg(r, i.arg0) # Arg(r, i.arg1)

\* g is f but for the value v at x.
Changed(g, f, x, v) == g = [f EXCEPT ![x] = v]

\* Instruction i, at position k with registers r and device d, leads to k2, r2 and d2.
Does(i, k, r, d, k2, r2, d2) ==
  \/ /\ i.op = READ /\ k2 = k + 1
     /\ \E o \in BusRead(d, BusAddr(Arg(r, i.arg0)), Arg(r, i.arg1)) :
          o.val \in Word /\ Changed(r2, r, i.arg2 % 8, o.val) /\ d2 = o.dev
  \/ /\ i.op = WRITE /\ k2 = k + 1 /\ r2 = r
     /\ d2 \in BusWrite(d, BusAddr(Arg(r, i.arg0)), Arg(r, i.arg1), Arg(r, i.arg2))
  \/ /\ i.op \in {AND, OR, ADD} /\ k2 = k + 1 /\ d2 = d
     /\ Changed(r2, r, i.arg2 % 8, Alu(i.op, Arg(r, i.arg0), Arg(r, i.arg1)))
  \/ /\ i.op \in {JEQ, JNE} /\ r2 = r /\ d2 = d
     /\ k2 = IF Jumps(i, r) THEN k + S16(ArgValue(i.arg2)) + 1 ELSE k + 1
  \/ /\ i.op = EMIT /\ k2 = k + 1 /\ r2 = r /\ d2 = d

-------------------------------------------------------------------------------
(***************************************************************************)
(* Devices and operations.                                                 *)
(***************************************************************************)

\* A device that may be on the bus.
IsDev(d) ==
  /\ d = [kind |-> d.kind, cells |-> d.cells, sel |-> d.sel, adr |-> d.adr,
          buf |-> d.buf, busy |-> d.busy]
  /\ d.kind \in Kinds
  /\ d.cells \in [Registers(d.kind) -> Word]
  /\ d.sel \in Word /\ d.adr \in Word /\ d.buf \in Word /\ d.busy \in BOOLEAN

\* The handle h is for device d.
On(h, d) == h = Handle(d.kind) \/ (d.kind = "mmd" /\ h = MmdC22)

\* What a read of the register gives, and the cells after a write to it.
Shown(h, reg, d) ==
  IF ~On(h, d) THEN 65535 ELSE IF reg \in DOMAIN d.cells THEN d.cells[reg] ELSE 0
Stored(h, reg, w, d) ==
  IF On(h, d) /\ reg \in DOMAIN d.cells THEN [d.cells EXCEPT ![reg] = w] ELSE d.cells

\* Where nothing has been written: the cells, and the page of a paged PHY.
Same(d, d0) ==
  d.kind = d0.kind /\ d.cells = d0.cells /\ (Paged(d0) => d.sel = d0.sel)

\* The page register itself.
IsPageReg(h, reg) == h.drv \in {"mva", "mscc"} /\ reg % 32 = h.page_reg

\* After the write: the page is back unless it was what was written.
Wrote(h, reg, w, d, d0) ==
  /\ d.kind = d0.kind /\ d.cells = Stored(h, reg, w, d0)
  /\ Paged(d0) /\ ~IsPageReg(h, reg) => d.sel = d0.sel

-------------------------------------------------------------------------------
(***************************************************************************)
(* Assertions for the positions of a driver's read, then of its write of   *)
(* the value w, which stands in argument v.                                *)
(***************************************************************************)

\* Handles whose registers are bus registers.
Direct(h) == h.drv \in {"phy", "mmd"} \/ (h.drv = "mvls" /\ h.id = 0)

\* The length of a read, and of a write.
ReadLen(h) ==
  CASE Direct(h) -> 1 [] h.drv = "mmd-c22" -> 4 [] h.drv \in {"mva", "mscc"} -> 6
    [] h.drv = "xrs" -> 3 [] OTHER -> 5
WriteLen(h) ==
  CASE Direct(h) -> 1 [] h.drv = "mmd-c22" -> 4 [] h.drv \in {"mva", "mscc"} -> 6
    [] h.drv = "xrs" -> 3 [] OTHER -> 5

\* The positions behind the instruction that reads or writes the register.
ReadDone(h, k) == k >= IF h.drv \in {"mva", "mscc"} THEN 4 ELSE ReadLen(h)
WriteDone(h, k) ==
  k >= IF h.drv \in {"mva", "mscc"} THEN 4 ELSE IF h.drv = "mvls" /\ h.id # 0 THEN 2 ELSE WriteLen(h)

\* The indirection: address registers, page, data register.
Selected(h, reg, k, r, d, d0) ==
  CASE Direct(h) -> TRUE
    [] h.drv = "mmd-c22" ->
         /\ k \in {1, 2} => d.sel = 7
         /\ k = 3 => d.sel = 16391
         /\ k \in {2, 3} => d.adr = reg
    [] h.drv \in {"mva", "mscc"} ->
         /\ k >= 1 => r[1] = d0.sel
         /\ k \in {0, 1, 2} => d.sel = d0.sel
         /\ k = 3 => d.sel = Page(reg)
    [] OTHER -> TRUE

\* What a read has done to the device it is for.
ReadOn(h, reg, k, r, d, d0) ==
  /\ Selected(h, reg, k, r, d, d0)
  /\ h.drv \in {"mva", "mscc"} =>
       (k \in {4, 5} => d.sel = Page(reg)) /\ (k = 6 => d.sel = d0.sel)
  /\ h.drv = "mvls" /\ h.id # 0 =>
       /\ k \in 1..4 => d.buf = d0.cells[reg]
       /\ k \in {2, 3} => (d.busy => r[0] = 32768)
       /\ k = 4 => ~d.busy
  /\ h.drv = "xrs" =>
       /\ k \in {1, 2} => d.sel = reg \div 65536
       /\ k = 2 => d.adr = reg % 65536

\* The assertion of position k of a read.
ReadAt(h, reg, k, r, d, d0) ==
  /\ k \in 0..ReadLen(h)
  /\ d.kind = d0.kind /\ d.cells = d0.cells
  /\ IF On(h, d0) THEN ReadOn(h, reg, k, r, d, d0) ELSE Same(d, d0)
  /\ ReadDone(h, k) => r[0] = Shown(h, reg, d0)

\* What a write has done to the device it is for.
WriteOn(h, reg, w, k, r, d, d0) ==
  /\ Selected(h, reg, k, r, d, d0)
  /\ h.drv \in {"mva", "mscc"} /\ ~IsPageReg(h, reg) =>
       (k \in {4, 5} => d.sel = Page(reg)) /\ (k = 6 => d.sel = d0.sel)
  /\ h.drv = "mvls" /\ h.id # 0 => (k = 1 => d.buf = w)
  /\ h.drv = "xrs" =>
       /\ k \in {1, 2} => d.buf = w
       /\ k = 2 => d.sel = reg \div 65536

\* The assertion of position k of a write.
WriteAt(h, reg, v, w, k, r, d, d0) ==
  /\ k \in 0..WriteLen(h)
  /\ d.kind = d0.kind
  /\ d.cells = IF WriteDone(h, k) THEN Stored(h, reg, w, d0) ELSE d0.cells
  /\ IF On(h, d0) THEN WriteOn(h, reg, w, k, r, d, d0) ELSE Paged(d0) => d.sel = d0.sel
  /\ ~WriteDone(h, k) /\ (h.drv \in {"mvls", "xrs"} => k = 0) => Arg(r, v) = w

-------------------------------------------------------------------------------
(***************************************************************************)
(* Assertions for the positions of an operation's program; e is what it    *)
(* has emitted.                                                            *)
(***************************************************************************)
Masked(o, d0) == BitAnd(Shown(o.dev, o.reg, d0), o.mask)

\* The value a write operation stores.
Datum(o, d0) == IF o.mask = 0 THEN o.val ELSE BitOr(Masked(o, d0), o.val)

\* A read, which ends with an emit.
ReadOpAt(o, n, r, d, d0, e) ==
  \/ n <= ReadLen(o.dev) /\ ReadAt(o.dev, o.reg, n, r, d, d0) /\ e = <<>>
  \/ n = ReadLen(o.dev) + 1 /\ Same(d, d0) /\ e = <<Shown(o.dev, o.reg, d0)>>

\* A write without mask.
PlainOpAt(o, n, r, d, d0, e) ==
  WriteAt(o.dev, o.reg, IMM(o.val), o.val, n, r, d, d0) /\ e = <<>>

\* A masked write: read, and, or, write.
MaskedOpAt(o, n, r, d, d0, e) ==
  LET l == ReadLen(o.dev) IN
  /\ e = <<>>
  /\ \/ n <= l /\ ReadAt(o.dev, o.reg, n, r, d, d0)
     \/ n = l + 1 /\ Same(d, d0) /\ r[0] = Masked(o, d0)
     \/ n >= l + 2 /\ WriteAt(o.dev, o.reg, REG(0), Datum(o, d0), n - l - 2, r, d, d0)

\* The assertion of position n of an operation.
At(o, n, r, d, d0, e) ==
  IF o.kind = "read" THEN ReadOpAt(o, n, r, d, d0, e)
  ELSE IF o.mask = 0 THEN PlainOpAt(o, n, r, d, d0, e)
  ELSE MaskedOpAt(o, n, r, d, d0, e)

\* At the end of the program.
Performed(o, d, d0, e) ==
  IF o.kind = "read" THEN Same(d, d0) /\ e = <<Shown(o.dev, o.reg, d0)>>
  ELSE Wrote(o.dev, o.reg, Datum(o, d0), d, d0) /\ e = <<>>

\* What is known of a transfer in stage s with request q, program counter n, registers
\* r, result t and output e, while the device is d, and was d0 when the lock was free.
XferAt(s, q, n, r, t, e, d, d0) ==
  /\ s # "idle" => q \in OpRequests
  /\ s \in {"idle", "lock"} => e = <<>>
  /\ s = "lock" => n = 0
  /\ s = "run" => At(q.op, n, r, d, d0, e)
  /\ s = "exit" =>
       /\ View(d) \in {View(d0), Effect(q.op, View(d0))}
       /\ t = 0 => Performed(q.op, d, d0, e)

\* The inductive invariant: a transfer in its program is at one of its assertions;
\* the device is as another user left it, or as the transfer that holds the lock
\* has made it.
OpInv ==
  /\ IsDev(dev) /\ IsDev(dev0)
  /\ lock = {} => dev = dev0
  /\ \A x \in Xfers :
       XferAt(stage[x], req[x], pc[x], regs[x], ret[x], emitted[x], dev, dev0)

-------------------------------------------------------------------------------
(***************************************************************************)
(* Instructions of the forms the drivers use.                              *)
(***************************************************************************)
VmRegs == [Regs -> Word]

\* An immediate operand is its value, a register operand what the register holds;
\* encoding an immediate twice gives the same argument.
LEMMA ImmArg ==
  ASSUME NEW n \in Word, NEW r
  PROVE  Arg(r, IMM(n)) = n /\ IMM(IMM(n)) = IMM(n)
<1>1. n \in Int /\ 0 <= n /\ n < 65536 BY WordInt, WordIs, SMTT(10) DEF U16
<1>2. IMM(n) = 131072 + n BY <1>1, SMTT(10) DEF IMM, U16, ARG_IMM
<1>3. ArgMode(IMM(n)) = 2 /\ ArgValue(IMM(n)) = n BY <1>1, <1>2, SMTT(10) DEF ArgMode, ArgValue, U16
<1>4. IMM(131072 + n) = 131072 + n BY <1>1, SMTT(10) DEF IMM, U16, ARG_IMM
<1> QED BY <1>2, <1>3, <1>4, SMTT(10) DEF Arg, ARG_IMM

\* A register operand.
LEMMA RegArg ==
  ASSUME NEW t \in 0..7, NEW r
  PROVE  Arg(r, REG(t)) = r[t] /\ REG(t) % 8 = t
<1>1. REG(t) = 65536 + t BY SMTT(10) DEF REG, U16, ARG_REG
<1>2. ArgMode(REG(t)) = 1 BY <1>1, SMTT(10) DEF ArgMode, U16
<1>3. REG(t) % 8 = t BY <1>1, SMTT(10)
<1> QED BY <1>2, <1>3, SMTT(10) DEF Arg, ARG_IMM

\* The fields of an instruction.
LEMMA InsnFields ==
  ASSUME NEW op, NEW a, NEW b, NEW c
  PROVE  /\ INSN(op, a, b, c).op = op /\ INSN(op, a, b, c).arg0 = a
         /\ INSN(op, a, b, c).arg1 = b /\ INSN(op, a, b, c).arg2 = c
  BY DEF INSN

\* Operation codes are different.
LEMMA OpCodes ==
  /\ READ # WRITE /\ READ \notin {AND, OR, ADD} /\ READ \notin {JEQ, JNE} /\ READ # EMIT
  /\ WRITE \notin {AND, OR, ADD} /\ WRITE \notin {JEQ, JNE} /\ WRITE # EMIT
  /\ AND \notin {JEQ, JNE} /\ AND # EMIT /\ AND # OR /\ OR \notin {JEQ, JNE} /\ OR # EMIT
  /\ JEQ \notin {AND, OR, ADD} /\ JEQ # EMIT /\ JEQ # JNE
  BY SMTT(10) DEF READ, WRITE, AND, OR, ADD, JEQ, JNE, EMIT

\* Storing a word in a VM register leaves the others alone.
LEMMA RegisterSet ==
  ASSUME NEW r \in VmRegs, NEW r2, NEW t \in 0..7, NEW w \in Word, Changed(r2, r, t, w)
  PROVE  r2 \in VmRegs /\ r2[t] = w /\ \A j \in 0..7 : j # t => r2[j] = r[j]
  BY DEF Changed, VmRegs, Regs

\* READ of a register of the device at an address, into VM register t.
LEMMA DoesRead ==
  ASSUME NEW a \in Word, NEW b \in Word, NEW t \in 0..7, NEW r \in VmRegs,
         NEW k, NEW d, NEW k2, NEW r2, NEW d2,
         Does(INSN(READ, IMM(a), IMM(b), REG(t)), k, r, d, k2, r2, d2)
  PROVE  /\ k2 = k + 1 /\ r2 \in VmRegs /\ \A j \in 0..7 : j # t => r2[j] = r[j]
         /\ \E o \in BusRead(d, BusAddr(a), b) : r2[t] = o.val /\ o.val \in Word /\ d2 = o.dev
<1> DEFINE i == INSN(READ, IMM(a), IMM(b), REG(t))
<1>1. /\ i.op = READ /\ Arg(r, i.arg0) = a /\ Arg(r, i.arg1) = b /\ i.arg2 % 8 = t
  BY InsnFields, ImmArg, RegArg
<1> HIDE DEF i
<1>2. /\ k2 = k + 1
      /\ \E o \in BusRead(d, BusAddr(a), b) : o.val \in Word /\ Changed(r2, r, t, o.val) /\ d2 = o.dev
  BY <1>1, OpCodes DEF Does, i
<1>3. PICK o \in BusRead(d, BusAddr(a), b) : o.val \in Word /\ Changed(r2, r, t, o.val) /\ d2 = o.dev
  BY <1>2
<1>4. r2 \in VmRegs /\ r2[t] = o.val /\ \A j \in 0..7 : j # t => r2[j] = r[j]
  BY <1>3, RegisterSet
<1> QED BY <1>2, <1>3, <1>4

\* WRITE of a register of the device at an address.
LEMMA DoesWrite ==
  ASSUME NEW a \in Word, NEW b \in Word, NEW v, NEW r, NEW k, NEW d, NEW k2, NEW r2, NEW d2,
         Does(INSN(WRITE, IMM(a), IMM(b), v), k, r, d, k2, r2, d2)
  PROVE  k2 = k + 1 /\ r2 = r /\ d2 \in BusWrite(d, BusAddr(a), b, Arg(r, v))
<1> DEFINE i == INSN(WRITE, IMM(a), IMM(b), v)
<1>1. i.op = WRITE /\ Arg(r, i.arg0) = a /\ Arg(r, i.arg1) = b /\ i.arg2 = v
  BY InsnFields, ImmArg
<1> HIDE DEF i
<1> QED BY <1>1, OpCodes DEF Does, i

\* AND and OR of R0 with a value.
LEMMA DoesLogic ==
  ASSUME NEW op \in {AND, OR}, NEW n \in Word, NEW r \in VmRegs,
         NEW k, NEW d, NEW k2, NEW r2, NEW d2,
         Does(INSN(op, REG(0), IMM(n), REG(0)), k, r, d, k2, r2, d2)
  PROVE  /\ k2 = k + 1 /\ d2 = d /\ r2 \in VmRegs /\ \A j \in 1..7 : r2[j] = r[j]
         /\ r2[0] = IF op = AND THEN BitAnd(r[0], n) ELSE BitOr(r[0], n)
<1> DEFINE i == INSN(op, REG(0), IMM(n), REG(0))
           w == IF op = AND THEN BitAnd(r[0], n) ELSE BitOr(r[0], n)
<1>1. i.op = op /\ Arg(r, i.arg0) = r[0] /\ Arg(r, i.arg1) = n /\ i.arg2 % 8 = 0
  BY InsnFields, ImmArg, RegArg
<1>2. Alu(op, r[0], n) = w BY SMTT(10) DEF Alu, AND, OR, ADD
<1>3. w \in Word BY BitAndWord, BitOrWord
<1> HIDE DEF i, w
<1>4. k2 = k + 1 /\ d2 = d /\ Changed(r2, r, 0, w)
  BY <1>1, <1>2, OpCodes DEF Does, i
<1>5. r2 \in VmRegs /\ r2[0] = w /\ \A j \in 0..7 : j # 0 => r2[j] = r[j]
  BY <1>3, <1>4, RegisterSet
<1> QED BY <1>4, <1>5 DEF w

\* JEQ of a VM register with a value.
LEMMA DoesJeq ==
  ASSUME NEW t \in 0..7, NEW n \in Word, NEW j, S16(ArgValue(IMM(j))) = j, NEW r,
         NEW k, NEW d, NEW k2, NEW r2, NEW d2,
         Does(INSN(JEQ, REG(t), IMM(n), IMM(j)), k, r, d, k2, r2, d2)
  PROVE  r2 = r /\ d2 = d /\ k2 = IF r[t] = n THEN k + j + 1 ELSE k + 1
<1> DEFINE i == INSN(JEQ, REG(t), IMM(n), IMM(j))
<1>1. i.op = JEQ /\ Arg(r, i.arg0) = r[t] /\ Arg(r, i.arg1) = n /\ i.arg2 = IMM(j)
  BY InsnFields, ImmArg, RegArg
<1>3. Jumps(i, r) <=> r[t] = n BY <1>1 DEF Jumps
<1> HIDE DEF i
<1>4. r2 = r /\ d2 = d /\ k2 = IF Jumps(i, r) THEN k + S16(ArgValue(IMM(j))) + 1 ELSE k + 1
  BY <1>1, OpCodes DEF Does, i
<1> QED BY <1>3, <1>4

\* The jumps of the drivers: over one instruction, and back to the poll.
LEMMA Displacements == S16(ArgValue(IMM(1))) = 1 /\ S16(ArgValue(IMM(-3))) = -3
  BY SMTT(10) DEF S16, ArgValue, IMM, U16, ARG_IMM

-------------------------------------------------------------------------------
(***************************************************************************)
(* The devices.                                                            *)
(***************************************************************************)

\* Small numbers are words.
LEMMA SmallWords ==
  /\ \A n \in 0..255 : n \in Word
  /\ 16391 \in Word /\ 32768 \in Word /\ 32871 \in Word /\ 65535 \in Word
<1>1. \A n \in 0..255 : n \in Word BY WordIs, SMTT(10) DEF U16
<1>2. 16391 \in Word /\ 32768 \in Word BY WordIs, SMTT(10) DEF U16
<1>3. 32871 \in Word /\ 65535 \in Word BY WordIs, SMTT(10) DEF U16
<1> QED BY <1>1, <1>2, <1>3

\* Writing one of the hidden registers changes nothing else.
LEMMA DevSel ==
  ASSUME NEW d, IsDev(d), NEW v \in Word, NEW e, e = [d EXCEPT !.sel = v]
  PROVE  /\ IsDev(e) /\ e.kind = d.kind /\ e.cells = d.cells
         /\ e.sel = v /\ e.adr = d.adr /\ e.buf = d.buf /\ e.busy = d.busy
  BY DEF IsDev

\* The same for the address register of an indirection.
LEMMA DevAdr ==
  ASSUME NEW d, IsDev(d), NEW v \in Word, NEW e, e = [d EXCEPT !.adr = v]
  PROVE  /\ IsDev(e) /\ e.kind = d.kind /\ e.cells = d.cells
         /\ e.sel = d.sel /\ e.adr = v /\ e.buf = d.buf /\ e.busy = d.busy
  BY DEF IsDev

\* The same for its data register.
LEMMA DevBuf ==
  ASSUME NEW d, IsDev(d), NEW v \in Word, NEW e, e = [d EXCEPT !.buf = v]
  PROVE  /\ IsDev(e) /\ e.kind = d.kind /\ e.cells = d.cells
         /\ e.sel = d.sel /\ e.adr = d.adr /\ e.buf = v /\ e.busy = d.busy
  BY DEF IsDev

\* The same for the busy flag of a switch.
LEMMA DevBusy ==
  ASSUME NEW d, IsDev(d), NEW v \in BOOLEAN, NEW e, e = [d EXCEPT !.busy = v]
  PROVE  /\ IsDev(e) /\ e.kind = d.kind /\ e.cells = d.cells
         /\ e.sel = d.sel /\ e.adr = d.adr /\ e.buf = d.buf /\ e.busy = v
  BY DEF IsDev

\* Writing a register changes that register, if the device has it.
LEMMA DevPoke ==
  ASSUME NEW d, IsDev(d), NEW reg, NEW v \in Word
  PROVE  /\ IsDev(Poke(d, reg, v)) /\ Poke(d, reg, v).kind = d.kind
         /\ Poke(d, reg, v).cells =
              IF reg \in DOMAIN d.cells THEN [d.cells EXCEPT ![reg] = v] ELSE d.cells
         /\ Poke(d, reg, v).sel = d.sel /\ Poke(d, reg, v).adr = d.adr
         /\ Poke(d, reg, v).buf = d.buf /\ Poke(d, reg, v).busy = d.busy
<1> DEFINE c == [d.cells EXCEPT ![reg] = v]
<1>1. CASE reg \notin DOMAIN d.cells BY <1>1 DEF Poke
<1>2. CASE reg \in DOMAIN d.cells
  <2>1. c \in [Registers(d.kind) -> Word] BY <1>2 DEF IsDev
  <2>2. Poke(d, reg, v) = [d EXCEPT !.cells = c] BY <1>2 DEF Poke
  <2> HIDE DEF c
  <2>3. Poke(d, reg, v) = [kind |-> d.kind, cells |-> c, sel |-> d.sel, adr |-> d.adr,
                           buf |-> d.buf, busy |-> d.busy]
    BY <2>2 DEF IsDev
  <2> QED BY <1>2, <2>1, <2>3 DEF IsDev, c
<1> QED BY <1>1, <1>2

\* What is read of a register is a word.
LEMMA PeekWord ==
  ASSUME NEW d, IsDev(d), NEW reg
  PROVE  Peek(d, reg) \in Word
  BY SmallWords DEF Peek, IsDev

\* The Clause 22 addresses a device answers.
Listens(kind) ==
  CASE kind = "phy" -> {1} [] kind = "mmd" -> {3} [] kind = "mva" -> {4}
    [] kind = "mscc" -> {5} [] kind = "mvls" -> {6} [] kind = "mvls1" -> 16..31
    [] kind = "xrs" -> {8}

\* The numbers in the handles.
LEMMA HandleIds ==
  /\ Handle("phy").id = 1 /\ Handle("mmd").id = 32871 /\ Handle("mva").id = 4
  /\ Handle("mscc").id = 5 /\ Handle("mvls").id = 6 /\ Handle("mvls1").id = 0
  /\ Handle("xrs").id = 8 /\ MmdC22.id = 32871
  /\ PrtAd(32871) = 3 /\ DevAd(32871) = 7
  /\ Handle("mva").page_reg = 22 /\ Handle("mscc").page_reg = 31
<1>1. 32768 + 3 * 32 + 7 = 32871 BY SMTT(10)
<1>2. PrtAd(32871) = 3 /\ DevAd(32871) = 7 BY SMTT(10) DEF PrtAd, DevAd
<1> QED BY <1>1, <1>2, SMTT(10) DEF Handle, MmdC22

\* The drivers of the handles.
LEMMA HandleDrvs ==
  /\ Handle("phy").drv = "phy" /\ Handle("mmd").drv = "mmd" /\ Handle("mva").drv = "mva"
  /\ Handle("mscc").drv = "mscc" /\ Handle("mvls").drv = "mvls" /\ Handle("mvls1").drv = "mvls"
  /\ Handle("xrs").drv = "xrs" /\ MmdC22.drv = "mmd-c22"
  BY SMTT(10) DEF Handle, MmdC22

\* The bus addresses of the ids in use.
LEMMA BusAddrs ==
  /\ \A n \in 0..31 : BusAddr(n) = <<n>>
  /\ BusAddr(32871) = <<3, 7>>
<1>1. \A n \in 0..31 : BusAddr(n) = <<n>> BY SMTT(10) DEF BusAddr
<1>2. (32871 % 1024) \div 32 = 3 /\ 32871 % 32 = 7 /\ 32871 \in 32768..33791 BY SMTT(10)
<1> QED BY <1>1, <1>2, SMTT(10) DEF BusAddr

\* An instruction of a driver's read at a position its assertion holds of, and what
\* the lemmas about the drivers say of it; the same of a write.
ReadStep(h, reg, k, r, d, d0, k2, r2, d2) ==
  /\ IsDev(d) /\ IsDev(d0) /\ r \in VmRegs /\ k < ReadLen(h) /\ ReadAt(h, reg, k, r, d, d0)
  /\ Does(driver_read(h, reg)[k + 1], k, r, d, k2, r2, d2)
ReadSteps(h, reg) ==
  \A k, r, d, d0, k2, r2, d2 :
    ReadStep(h, reg, k, r, d, d0, k2, r2, d2)
      => ReadAt(h, reg, k2, r2, d2, d0) /\ IsDev(d2) /\ r2 \in VmRegs

WriteStep(h, reg, v, w, k, r, d, d0, k2, r2, d2) ==
  /\ IsDev(d) /\ IsDev(d0) /\ r \in VmRegs /\ k < WriteLen(h) /\ WriteAt(h, reg, v, w, k, r, d, d0)
  /\ Does(driver_write(h, reg, v)[k + 1], k, r, d, k2, r2, d2)
WriteSteps(h, reg, v, w) ==
  \A k, r, d, d0, k2, r2, d2 :
    WriteStep(h, reg, v, w, k, r, d, d0, k2, r2, d2)
      => WriteAt(h, reg, v, w, k2, r2, d2, d0) /\ IsDev(d2) /\ r2 \in VmRegs

-------------------------------------------------------------------------------
(***************************************************************************)
(* Bus cycles.                                                             *)
(***************************************************************************)
Silent(d, a, b) ==
  BusRead(d, a, b) = {[val |-> 65535, dev |-> d]} /\ \A v : BusWrite(d, a, b, v) = {d}

\* A Clause 22 cycle to an address at which the device is not.
LEMMA Elsewhere22 ==
  ASSUME NEW d, IsDev(d), NEW n \in 0..31, n \notin Listens(d.kind), NEW b \in Word
  PROVE  Silent(d, <<n>>, b)
<1> USE SMTT(10), HandleIds
<1>1. CASE d.kind = "phy" BY <1>1 DEF Silent, BusRead, BusWrite, Listens, Reads, Paged
<1>2. CASE d.kind = "mmd" BY <1>2 DEF Silent, BusRead, BusWrite, Listens, Reads, Paged
<1>3. CASE d.kind = "mva" BY <1>3 DEF Silent, BusRead, BusWrite, Listens, Reads, Paged
<1>4. CASE d.kind = "mscc" BY <1>4 DEF Silent, BusRead, BusWrite, Listens, Reads, Paged
<1>5. CASE d.kind = "mvls" BY <1>5 DEF Silent, BusRead, BusWrite, Listens, Reads, Paged
<1>6. CASE d.kind = "xrs" BY <1>6 DEF Silent, BusRead, BusWrite, Listens, Reads, Paged
<1>7. CASE d.kind = "mvls1"
  <2> DEFINE c == MVLS_REG(n, b)
  <2>1. b \in Int /\ 0 <= b /\ b < 65536 BY WordInt, WordIs DEF U16
  <2>2. c \in Int /\ c \div 65536 = n BY <2>1 DEF MVLS_REG
  <2>3. n \notin 16..31 BY <1>7 DEF Listens
  <2>4. c \notin DOMAIN d.cells
    BY <1>7, <2>2, <2>3, RegistersAssumption DEF IsDev, PortAndReg, MvlsPort
  <2>5. c \notin SelfClearing
    <3>1. MVLS_REG(MVLS_G1, 11) \div 65536 = 27 /\ MVLS_REG(MVLS_G1, 29) \div 65536 = 27
      BY DEF MVLS_REG, MVLS_G1
    <3> HIDE DEF c
    <3> QED BY <2>2, <2>3, <3>1 DEF SelfClearing
  <2> HIDE DEF c
  <2>6. Settles(d, c) = {d} BY <2>5 DEF Settles
  <2>7. Peek(d, c) = 65535 BY <2>4 DEF Peek
  <2>8. \A v : Poke(d, c, v) = d BY <2>4 DEF Poke
  <2>9. Len(<<n>>) = 1 /\ <<n>>[1] = n OBVIOUS
  <2>10. BusRead(d, <<n>>, b) = UNION {Reads(e, Peek(e, c)) : e \in Settles(d, c)}
    BY <1>7, <2>9 DEF BusRead, Paged, c
  <2>11. \A v : BusWrite(d, <<n>>, b, v) = {Poke(d, c, v)}
    BY <1>7, <2>9 DEF BusWrite, Paged, c
  <2>12. UNION {Reads(e, Peek(e, c)) : e \in {d}} = Reads(d, Peek(d, c)) OBVIOUS
  <2> QED BY <2>6, <2>7, <2>8, <2>10, <2>11, <2>12 DEF Silent, Reads
<1> QED BY <1>1, <1>2, <1>3, <1>4, <1>5, <1>6, <1>7 DEF IsDev, Kinds

\* A Clause 45 cycle, where there is no MMD.
LEMMA Elsewhere45 ==
  ASSUME NEW d, IsDev(d), d.kind # "mmd", NEW b
  PROVE  Silent(d, <<3, 7>>, b)
<1>1. \A n : <<3, 7>> # <<n>> BY SMTT(10)
<1>2. Len(<<3, 7>>) # 1 BY SMTT(10)
<1> QED BY <1>1, <1>2, SMTT(10) DEF Silent, BusRead, BusWrite, Reads, Paged, IsDev, Kinds

\* A PHY, or an MMD reached directly.
LEMMA AtPhy ==
  ASSUME NEW d, d.kind = "phy", NEW b
  PROVE  /\ BusRead(d, <<1>>, b) = {[val |-> Peek(d, b), dev |-> d]}
         /\ \A v : BusWrite(d, <<1>>, b, v) = {Poke(d, b, v)}
  BY HandleIds, SMTT(10) DEF BusRead, BusWrite, Reads, Paged

\* An MMD answers clause 45 cycles with its registers, clause 22 cycles with registers
\* 13 and 14.
LEMMA AtMmd ==
  ASSUME NEW d, d.kind = "mmd", NEW b
  PROVE  /\ BusRead(d, <<3, 7>>, b) = {[val |-> Peek(d, b), dev |-> d]}
         /\ \A v : BusWrite(d, <<3, 7>>, b, v) = {Poke(d, b, v)}
         /\ BusRead(d, <<3>>, b) = MmdRead(d, b)
         /\ \A v : BusWrite(d, <<3>>, b, v) = MmdWrite(d, b, v)
<1>1. <<3>> # <<3, 7>> BY SMTT(10)
<1> QED BY <1>1, HandleIds, SMTT(10) DEF BusRead, BusWrite, Reads

\* A paged PHY answers at its address, on the page that is selected.
LEMMA AtPaged ==
  ASSUME NEW d, Paged(d), NEW b
  PROVE  /\ BusRead(d, <<Handle(d.kind).id>>, b) = PagedRead(d, b)
         /\ \A v : BusWrite(d, <<Handle(d.kind).id>>, b, v) = PagedWrite(d, b, v)
  BY SMTT(10) DEF BusRead, BusWrite, Paged

\* A multi-chip switch answers at its address, with its command and data registers.
LEMMA AtMvls ==
  ASSUME NEW d, d.kind = "mvls", NEW b
  PROVE  /\ BusRead(d, <<6>>, b) = MvlsRead(d, b)
         /\ \A v : BusWrite(d, <<6>>, b, v) = MvlsWrite(d, b, v)
  BY HandleIds, SMTT(10) DEF BusRead, BusWrite, Paged

\* An xrs answers at its address, with its indirect access registers.
LEMMA AtXrs ==
  ASSUME NEW d, d.kind = "xrs", NEW b
  PROVE  /\ BusRead(d, <<8>>, b) = XrsRead(d, b)
         /\ \A v : BusWrite(d, <<8>>, b, v) = XrsWrite(d, b, v)
  BY HandleIds, SMTT(10) DEF BusRead, BusWrite, Paged

\* A register of a switch in single-chip mode.
LEMMA AtPort ==
  ASSUME NEW d, IsDev(d), d.kind = "mvls1", NEW reg \in Registers("mvls1")
  PROVE  /\ BusRead(d, <<MvlsPort(reg)>>, reg % 65536) = {[val |-> Peek(d, reg), dev |-> d]}
         /\ \A v : BusWrite(d, <<MvlsPort(reg)>>, reg % 65536, v) = {Poke(d, reg, v)}
<1>1. reg \in Nat /\ reg \notin SelfClearing BY RegistersAssumption DEF PortAndReg
<1> DEFINE p == MvlsPort(reg)  b == reg % 65536
<1>2. MVLS_REG(p, b) = reg BY <1>1, SMTT(10) DEF MVLS_REG, MvlsPort
<1>3. Settles(d, reg) = {d} BY <1>1 DEF Settles
<1> HIDE DEF p, b
<1>4. Len(<<p>>) = 1 /\ <<p>>[1] = p OBVIOUS
<1>5. BusRead(d, <<p>>, b) = UNION {Reads(e, Peek(e, reg)) : e \in {d}}
  BY <1>2, <1>3, <1>4, SMTT(10) DEF BusRead, Paged
<1>6. \A v : BusWrite(d, <<p>>, b, v) = {Poke(d, reg, v)}
  BY <1>2, <1>4, SMTT(10) DEF BusWrite, Paged
<1>7. UNION {Reads(e, Peek(e, reg)) : e \in {d}} = Reads(d, Peek(d, reg)) OBVIOUS
<1> QED BY <1>5, <1>6, <1>7 DEF p, b, Reads

\* A handle is on the device of its kind only; MmdC22 is on the MMD too.
LEMMA OnIs ==
  ASSUME NEW d, d.kind \in Kinds
  PROVE  /\ \A k \in Kinds : On(Handle(k), d) <=> d.kind = k
         /\ On(MmdC22, d) <=> d.kind = "mmd"
<1>1. ASSUME NEW k \in Kinds PROVE Handle(k) # MmdC22 BY HandleDrvs DEF Kinds
<1>2. ASSUME NEW k \in Kinds, NEW l \in Kinds, Handle(k) = Handle(l) PROVE k = l
  BY <1>2, HandleIds, SMTT(10) DEF Kinds
<1> QED BY <1>1, <1>2 DEF On

\* READ and WRITE cycles nobody answers.
LEMMA SilentRead ==
  ASSUME NEW a \in Word, NEW b \in Word, NEW t \in 0..7, NEW r \in VmRegs,
         NEW k, NEW d, NEW k2, NEW r2, NEW d2, Silent(d, BusAddr(a), b),
         Does(INSN(READ, IMM(a), IMM(b), REG(t)), k, r, d, k2, r2, d2)
  PROVE  /\ k2 = k + 1 /\ r2 \in VmRegs /\ \A j \in 0..7 : j # t => r2[j] = r[j]
         /\ r2[t] = 65535 /\ d2 = d
<1>1. PICK o \in BusRead(d, BusAddr(a), b) : r2[t] = o.val /\ d2 = o.dev BY DoesRead
<1>2. o = [val |-> 65535, dev |-> d] BY DEF Silent
<1> QED BY <1>1, <1>2, DoesRead

\* A write cycle nobody answers changes nothing.
LEMMA SilentWrite ==
  ASSUME NEW a \in Word, NEW b \in Word, NEW v, NEW r, NEW k, NEW d, NEW k2, NEW r2, NEW d2,
         Silent(d, BusAddr(a), b), Does(INSN(WRITE, IMM(a), IMM(b), v), k, r, d, k2, r2, d2)
  PROVE  k2 = k + 1 /\ r2 = r /\ d2 = d
  BY DoesWrite DEF Silent

\* A read cycle with one outcome.
Sure(d, a, b, w) == BusRead(d, a, b) = {[val |-> w, dev |-> d]}

\* A READ cycle with one outcome.
LEMMA SureRead ==
  ASSUME NEW a \in Word, NEW b \in Word, NEW t \in 0..7, NEW r \in VmRegs,
         NEW k, NEW d, NEW k2, NEW r2, NEW d2, NEW w,
         Sure(d, BusAddr(a), b, w),
         Does(INSN(READ, IMM(a), IMM(b), REG(t)), k, r, d, k2, r2, d2)
  PROVE  /\ k2 = k + 1 /\ r2 \in VmRegs /\ \A j \in 0..7 : j # t => r2[j] = r[j]
         /\ r2[t] = w /\ d2 = d
<1>1. PICK o \in BusRead(d, BusAddr(a), b) : r2[t] = o.val /\ d2 = o.dev BY DoesRead
<1>2. o = [val |-> w, dev |-> d] BY DEF Sure
<1> QED BY <1>1, <1>2, DoesRead

-------------------------------------------------------------------------------
(***************************************************************************)
(* phy, mmd, and mvls in single-chip mode: one bus cycle.                  *)
(***************************************************************************)

\* The assertions of these drivers, without the cases of the others.
LEMMA DirectReadForm ==
  ASSUME NEW h, Direct(h), h.drv \notin {"mva", "mscc", "mmd-c22", "xrs"},
         h.drv = "mvls" => h.id = 0, NEW reg, NEW k, NEW r, NEW d, NEW d0
  PROVE  ReadAt(h, reg, k, r, d, d0) <=>
           /\ k \in 0..1 /\ d.kind = d0.kind /\ d.cells = d0.cells
           /\ ~On(h, d0) => Same(d, d0)
           /\ k >= 1 => r[0] = Shown(h, reg, d0)
<1>1. ReadLen(h) = 1 BY DEF ReadLen
<1>2. ReadDone(h, k) <=> k >= 1 BY <1>1 DEF ReadDone
<1>3. Selected(h, reg, k, r, d, d0) BY DEF Selected
<1>4. ReadOn(h, reg, k, r, d, d0) BY <1>3 DEF ReadOn
<1> QED BY <1>1, <1>2, <1>4 DEF ReadAt

\* And those of their writes.
LEMMA DirectWriteForm ==
  ASSUME NEW h, Direct(h), h.drv \notin {"mva", "mscc", "mmd-c22", "xrs"},
         h.drv = "mvls" => h.id = 0, NEW reg, NEW v, NEW w, NEW k, NEW r, NEW d, NEW d0
  PROVE  WriteAt(h, reg, v, w, k, r, d, d0) <=>
           /\ k \in 0..1 /\ d.kind = d0.kind
           /\ d.cells = IF k >= 1 THEN Stored(h, reg, w, d0) ELSE d0.cells
           /\ ~On(h, d0) => (Paged(d0) => d.sel = d0.sel)
           /\ k = 0 => Arg(r, v) = w
<1>1. WriteLen(h) = 1 BY DEF WriteLen
<1>2. WriteDone(h, k) <=> k >= 1 BY <1>1 DEF WriteDone
<1>3. Selected(h, reg, k, r, d, d0) BY DEF Selected
<1>4. WriteOn(h, reg, w, k, r, d, d0) BY <1>3 DEF WriteOn
<1>5. k \in 0..1 => (~(k >= 1) <=> k = 0) OBVIOUS
<1> QED BY <1>1, <1>2, <1>4, <1>5 DEF WriteAt

\* What the three have in common: the cycle to address a, register b, is to the
\* device's register reg, or to nobody.
DirectTo(h, reg, a, b) ==
  /\ a \in Word /\ b \in Word
  /\ driver_read(h, reg) = <<INSN(READ, IMM(a), IMM(b), REG(0))>>
  /\ \A v : driver_write(h, reg, v) = <<INSN(WRITE, IMM(a), IMM(b), v)>>
  /\ \A d : IsDev(d) =>
       IF On(h, d)
         THEN /\ reg \in DOMAIN d.cells /\ ~Paged(d)
              /\ BusRead(d, BusAddr(a), b) = {[val |-> Peek(d, reg), dev |-> d]}
              /\ \A v : BusWrite(d, BusAddr(a), b, v) = {Poke(d, reg, v)}
         ELSE Silent(d, BusAddr(a), b)

DirectHandle(h, reg) ==
  \/ h = Handle("phy") /\ reg \in Registers("phy")
  \/ h = Handle("mmd") /\ reg \in Registers("mmd")
  \/ h = Handle("mvls1") /\ reg \in Registers("mvls1")

\* Each of the three is one.
LEMMA DirectCycle ==
  ASSUME NEW h, NEW reg, DirectHandle(h, reg)
  PROVE  /\ Direct(h) /\ h.drv \notin {"mva", "mscc", "mmd-c22", "xrs"} /\ (h.drv = "mvls" => h.id = 0)
         /\ \E a, b : DirectTo(h, reg, a, b)
<1>1. CASE h = Handle("phy") /\ reg \in Registers("phy")
  <2>1. h.drv = "phy" /\ h.id = 1 BY <1>1, HandleIds, HandleDrvs
  <2>2. 1 \in Word /\ reg \in Word /\ BusAddr(1) = <<1>>
    BY <1>1, RegistersAssumption, SmallWords, BusAddrs, SMTT(10)
  <2>3. /\ driver_read(h, reg) = <<INSN(READ, IMM(1), IMM(reg), REG(0))>>
        /\ \A v : driver_write(h, reg, v) = <<INSN(WRITE, IMM(1), IMM(reg), v)>>
    BY <2>1 DEF driver_read, driver_write, phy_read, phy_write
  <2>4. ASSUME NEW d, IsDev(d), On(h, d)
        PROVE  /\ reg \in DOMAIN d.cells /\ ~Paged(d)
               /\ BusRead(d, <<1>>, reg) = {[val |-> Peek(d, reg), dev |-> d]}
               /\ \A v : BusWrite(d, <<1>>, reg, v) = {Poke(d, reg, v)}
    <3>1. d.kind = "phy" BY <1>1, <2>4, OnIs DEF IsDev, Kinds
    <3> QED BY <1>1, <2>4, <3>1, AtPhy DEF IsDev, Paged
  <2>5. ASSUME NEW d, IsDev(d), ~On(h, d) PROVE Silent(d, <<1>>, reg)
    <3>1. d.kind \in Kinds /\ d.kind # "phy" BY <1>1, <2>5, OnIs DEF IsDev, Kinds
    <3>2. 1 \in 0..31 /\ 1 \notin Listens(d.kind) BY <3>1, SMTT(10) DEF Listens, Kinds
    <3> QED BY <2>2, <2>5, <3>2, Elsewhere22
  <2>6. DirectTo(h, reg, 1, reg) BY <2>2, <2>3, <2>4, <2>5 DEF DirectTo
  <2> QED BY <2>1, <2>6 DEF Direct
<1>2. CASE h = Handle("mmd") /\ reg \in Registers("mmd")
  <2>1. h.drv = "mmd" /\ h.id = 32871 BY <1>2, HandleIds, HandleDrvs
  <2> DEFINE id == 32871
  <2>2. id \in Word /\ reg \in Word /\ BusAddr(id) = <<3, 7>>
    BY <1>2, RegistersAssumption, SmallWords, BusAddrs
  <2> HIDE DEF id
  <2>3. /\ driver_read(h, reg) = <<INSN(READ, IMM(id), IMM(reg), REG(0))>>
        /\ \A v : driver_write(h, reg, v) = <<INSN(WRITE, IMM(id), IMM(reg), v)>>
    BY <2>1 DEF driver_read, driver_write, phy_read, phy_write, id
  <2>4. ASSUME NEW d, IsDev(d), On(h, d)
        PROVE  /\ reg \in DOMAIN d.cells /\ ~Paged(d)
               /\ BusRead(d, <<3, 7>>, reg) = {[val |-> Peek(d, reg), dev |-> d]}
               /\ \A v : BusWrite(d, <<3, 7>>, reg, v) = {Poke(d, reg, v)}
    <3>1. d.kind = "mmd" BY <1>2, <2>4, OnIs DEF IsDev, Kinds
    <3> QED BY <1>2, <2>4, <3>1, AtMmd DEF IsDev, Paged
  <2>5. ASSUME NEW d, IsDev(d), ~On(h, d) PROVE Silent(d, <<3, 7>>, reg)
    <3>1. d.kind # "mmd" BY <1>2, <2>5, OnIs DEF IsDev, Kinds
    <3> QED BY <2>5, <3>1, Elsewhere45
  <2>6. DirectTo(h, reg, id, reg) BY <2>2, <2>3, <2>4, <2>5 DEF DirectTo
  <2> QED BY <2>1, <2>6 DEF Direct
<1>3. CASE h = Handle("mvls1") /\ reg \in Registers("mvls1")
  <2>1. h.drv = "mvls" /\ h.id = 0 BY <1>3, HandleIds, HandleDrvs
  <2> DEFINE p == MvlsPort(reg)  b == reg % 65536
  <2>2. p \in 16..31 /\ b \in 0..31 BY <1>3, RegistersAssumption DEF PortAndReg
  <2>3. p \in Word /\ b \in Word /\ BusAddr(p) = <<p>> BY <2>2, SmallWords, BusAddrs, SMTT(10)
  <2>4. /\ driver_read(h, reg) = <<INSN(READ, IMM(p), IMM(b), REG(0))>>
        /\ \A v : driver_write(h, reg, v) = <<INSN(WRITE, IMM(p), IMM(b), v)>>
    BY <2>1 DEF driver_read, driver_write, mvls_read, mvls_read_to, mvls_write
  <2>5. ASSUME NEW d, IsDev(d), On(h, d)
        PROVE  /\ reg \in DOMAIN d.cells /\ ~Paged(d)
               /\ BusRead(d, <<p>>, b) = {[val |-> Peek(d, reg), dev |-> d]}
               /\ \A v : BusWrite(d, <<p>>, b, v) = {Poke(d, reg, v)}
    <3>1. d.kind = "mvls1" BY <1>3, <2>5, OnIs DEF IsDev, Kinds
    <3>2. reg \in DOMAIN d.cells /\ ~Paged(d) BY <1>3, <2>5, <3>1 DEF IsDev, Paged
    <3> QED BY <1>3, <2>5, <3>1, <3>2, AtPort
  <2> HIDE DEF p, b
  <2>6. ASSUME NEW d, IsDev(d), ~On(h, d) PROVE Silent(d, <<p>>, b)
    <3>1. d.kind \in Kinds /\ d.kind # "mvls1" BY <1>3, <2>6, OnIs DEF IsDev, Kinds
    <3>2. p \in 0..31 /\ p \notin Listens(d.kind) BY <2>2, <3>1, SMTT(10) DEF Listens, Kinds
    <3> QED BY <2>3, <2>6, <3>2, Elsewhere22
  <2>7. DirectTo(h, reg, p, b) BY <2>3, <2>4, <2>5, <2>6 DEF DirectTo
  <2> QED BY <2>1, <2>7 DEF Direct
<1> QED BY <1>1, <1>2, <1>3 DEF DirectHandle

\* The one instruction of a read leads to its end.
LEMMA DirectReads ==
  ASSUME NEW h, NEW reg, DirectHandle(h, reg) PROVE ReadSteps(h, reg)
<1> SUFFICES ASSUME NEW k, NEW r, NEW d, NEW d0, NEW k2, NEW r2, NEW d2,
                    ReadStep(h, reg, k, r, d, d0, k2, r2, d2)
             PROVE  ReadAt(h, reg, k2, r2, d2, d0) /\ IsDev(d2) /\ r2 \in VmRegs
  BY DEF ReadSteps
<1>1. PICK a, b : DirectTo(h, reg, a, b) BY DirectCycle
<1>2. Direct(h) /\ h.drv \notin {"mva", "mscc", "mmd-c22", "xrs"} /\ (h.drv = "mvls" => h.id = 0)
  BY DirectCycle
<1>3. /\ IsDev(d) /\ IsDev(d0) /\ r \in VmRegs /\ k < 1
      /\ k \in 0..1 /\ d.kind = d0.kind /\ d.cells = d0.cells /\ (~On(h, d0) => Same(d, d0))
  <2>1. ReadLen(h) = 1 BY <1>2 DEF ReadLen
  <2>2. ReadAt(h, reg, k, r, d, d0) BY DEF ReadStep
  <2>3. k \in 0..1 /\ d.kind = d0.kind /\ d.cells = d0.cells /\ (~On(h, d0) => Same(d, d0))
    BY <1>2, <2>2, DirectReadForm
  <2> QED BY <2>1, <2>3 DEF ReadStep
<1>4. k = 0 BY <1>3
<1>5. Does(INSN(READ, IMM(a), IMM(b), REG(0)), k, r, d, k2, r2, d2)
  <2>1. driver_read(h, reg)[k + 1] = INSN(READ, IMM(a), IMM(b), REG(0)) BY <1>1, <1>4 DEF DirectTo
  <2> QED BY <2>1 DEF ReadStep
<1>6. On(h, d) <=> On(h, d0) BY <1>3 DEF On
<1>7. a \in Word /\ b \in Word /\ 0 \in 0..7 BY <1>1 DEF DirectTo
<1>8. CASE On(h, d0)
  <2>1. /\ reg \in DOMAIN d.cells
        /\ Sure(d, BusAddr(a), b, Peek(d, reg))
    BY <1>1, <1>3, <1>6, <1>8 DEF DirectTo, Sure
  <2>2. k2 = k + 1 /\ r2 \in VmRegs /\ r2[0] = Peek(d, reg) /\ d2 = d
    BY <1>3, <1>5, <1>7, <2>1, SureRead
  <2>3. Peek(d, reg) = Shown(h, reg, d0) BY <1>3, <1>8, <2>1 DEF Peek, Shown
  <2>4. k2 = 1 /\ k2 \in 0..1 BY <1>4, <2>2
  <2>5. d2.kind = d0.kind /\ d2.cells = d0.cells /\ r2[0] = Shown(h, reg, d0) BY <1>3, <2>2, <2>3
  <2>6. ReadAt(h, reg, k2, r2, d2, d0) BY <1>2, <1>8, <2>4, <2>5, DirectReadForm
  <2> QED BY <1>3, <2>2, <2>6
<1>9. CASE ~On(h, d0)
  <2>1. Silent(d, BusAddr(a), b) BY <1>1, <1>3, <1>6, <1>9 DEF DirectTo
  <2>2. k2 = k + 1 /\ r2 \in VmRegs /\ r2[0] = 65535 /\ d2 = d
    BY <1>3, <1>5, <1>7, <2>1, SilentRead
  <2>3. Shown(h, reg, d0) = 65535 BY <1>9 DEF Shown
  <2>4. k2 = 1 BY <1>4, <2>2
  <2> QED BY <1>2, <1>3, <2>2, <2>3, <2>4, DirectReadForm
<1> QED BY <1>8, <1>9

\* The one instruction of a write leads to its end.
LEMMA DirectWrites ==
  ASSUME NEW h, NEW reg, DirectHandle(h, reg), NEW v, NEW w \in Word PROVE WriteSteps(h, reg, v, w)
<1> SUFFICES ASSUME NEW k, NEW r, NEW d, NEW d0, NEW k2, NEW r2, NEW d2,
                    WriteStep(h, reg, v, w, k, r, d, d0, k2, r2, d2)
             PROVE  WriteAt(h, reg, v, w, k2, r2, d2, d0) /\ IsDev(d2) /\ r2 \in VmRegs
  BY DEF WriteSteps
<1>1. PICK a, b : DirectTo(h, reg, a, b) BY DirectCycle
<1>2. Direct(h) /\ h.drv \notin {"mva", "mscc", "mmd-c22", "xrs"} /\ (h.drv = "mvls" => h.id = 0)
  BY DirectCycle
<1>3. IsDev(d) /\ IsDev(d0) /\ r \in VmRegs /\ k < 1 /\ WriteAt(h, reg, v, w, k, r, d, d0)
  BY <1>2 DEF WriteStep, WriteLen
<1>4. k = 0
  <2>1. k \in 0..1 BY <1>2, <1>3, DirectWriteForm
  <2> QED BY <1>3, <2>1
<1>5. /\ d.kind = d0.kind /\ d.cells = d0.cells /\ (~On(h, d0) => (Paged(d0) => d.sel = d0.sel))
      /\ Arg(r, v) = w
  <2>1. ~(k >= 1) BY <1>4
  <2> QED BY <1>2, <1>3, <1>4, <2>1, DirectWriteForm
<1>6. Does(INSN(WRITE, IMM(a), IMM(b), v), k, r, d, k2, r2, d2)
  <2>1. driver_write(h, reg, v)[k + 1] = INSN(WRITE, IMM(a), IMM(b), v) BY <1>1, <1>4 DEF DirectTo
  <2> QED BY <2>1 DEF WriteStep
<1>7. On(h, d) <=> On(h, d0) BY <1>5 DEF On
<1>8. a \in Word /\ b \in Word BY <1>1 DEF DirectTo
<1>9. CASE On(h, d0)
  <2>1. reg \in DOMAIN d.cells /\ BusWrite(d, BusAddr(a), b, w) = {Poke(d, reg, w)}
    BY <1>1, <1>3, <1>7, <1>9 DEF DirectTo
  <2>2. k2 = k + 1 /\ r2 = r /\ d2 = Poke(d, reg, w) BY <1>5, <1>6, <1>8, <2>1, DoesWrite
  <2>3. IsDev(d2) /\ d2.kind = d.kind /\ d2.cells = [d.cells EXCEPT ![reg] = w]
    BY <1>3, <2>1, <2>2, DevPoke
  <2>4. d2.cells = Stored(h, reg, w, d0) BY <1>5, <1>9, <2>1, <2>3 DEF Stored
  <2>5. k2 = 1 BY <1>4, <2>2
  <2> QED BY <1>2, <1>3, <1>5, <1>9, <2>2, <2>3, <2>4, <2>5, DirectWriteForm
<1>10. CASE ~On(h, d0)
  <2>1. Silent(d, BusAddr(a), b) BY <1>1, <1>3, <1>7, <1>10 DEF DirectTo
  <2>2. k2 = k + 1 /\ r2 = r /\ d2 = d BY <1>6, <1>8, <2>1, SilentWrite
  <2>3. Stored(h, reg, w, d0) = d0.cells BY <1>10 DEF Stored
  <2>4. k2 = 1 BY <1>4, <2>2
  <2> QED BY <1>2, <1>3, <1>5, <2>2, <2>3, <2>4, DirectWriteForm
<1> QED BY <1>9, <1>10

-------------------------------------------------------------------------------
(***************************************************************************)
(* mmd-c22: an address, then the data register.                            *)
(***************************************************************************)
C22Selected(k, reg, d) ==
  /\ k \in {1, 2} => d.sel = 7
  /\ k = 3 => d.sel = 16391
  /\ k \in {2, 3} => d.adr = reg

\* The assertions of this driver, without the cases of the others.
LEMMA C22ReadForm ==
  ASSUME NEW reg, NEW k, NEW r, NEW d, NEW d0
  PROVE  ReadAt(MmdC22, reg, k, r, d, d0) <=>
           /\ k \in 0..4 /\ d.kind = d0.kind /\ d.cells = d0.cells
           /\ IF On(MmdC22, d0) THEN C22Selected(k, reg, d) ELSE Same(d, d0)
           /\ k >= 4 => r[0] = Shown(MmdC22, reg, d0)
<1> DEFINE h == MmdC22
<1>0. h.drv = "mmd-c22" /\ ~Direct(h) BY HandleDrvs DEF Direct
<1> HIDE DEF h
<1>1. ReadLen(h) = 4 BY <1>0 DEF ReadLen
<1>2. ReadDone(h, k) <=> k >= 4 BY <1>0, <1>1 DEF ReadDone
<1>3. Selected(h, reg, k, r, d, d0) <=> C22Selected(k, reg, d) BY <1>0 DEF Selected, C22Selected
<1>4. ReadOn(h, reg, k, r, d, d0) <=> C22Selected(k, reg, d) BY <1>0, <1>3 DEF ReadOn
<1>5. ReadAt(h, reg, k, r, d, d0) <=>
           /\ k \in 0..4 /\ d.kind = d0.kind /\ d.cells = d0.cells
           /\ IF On(h, d0) THEN C22Selected(k, reg, d) ELSE Same(d, d0)
           /\ k >= 4 => r[0] = Shown(h, reg, d0)
  BY <1>1, <1>2, <1>4 DEF ReadAt
<1> QED BY <1>5 DEF h

\* The assertions of a write through clause 22.
LEMMA C22WriteForm ==
  ASSUME NEW reg, NEW v, NEW w, NEW k, NEW r, NEW d, NEW d0
  PROVE  WriteAt(MmdC22, reg, v, w, k, r, d, d0) <=>
           /\ k \in 0..4 /\ d.kind = d0.kind
           /\ d.cells = IF k >= 4 THEN Stored(MmdC22, reg, w, d0) ELSE d0.cells
           /\ IF On(MmdC22, d0) THEN C22Selected(k, reg, d) ELSE Paged(d0) => d.sel = d0.sel
           /\ ~(k >= 4) => Arg(r, v) = w
<1> DEFINE h == MmdC22
<1>0. h.drv = "mmd-c22" /\ ~Direct(h) BY HandleDrvs DEF Direct
<1> HIDE DEF h
<1>1. WriteLen(h) = 4 BY <1>0 DEF WriteLen
<1>2. WriteDone(h, k) <=> k >= 4 BY <1>0, <1>1 DEF WriteDone
<1>3. Selected(h, reg, k, r, d, d0) <=> C22Selected(k, reg, d) BY <1>0 DEF Selected, C22Selected
<1>4. WriteOn(h, reg, w, k, r, d, d0) <=> C22Selected(k, reg, d) BY <1>0, <1>3 DEF WriteOn
<1>5. WriteAt(h, reg, v, w, k, r, d, d0) <=>
           /\ k \in 0..4 /\ d.kind = d0.kind
           /\ d.cells = IF k >= 4 THEN Stored(h, reg, w, d0) ELSE d0.cells
           /\ IF On(h, d0) THEN C22Selected(k, reg, d) ELSE Paged(d0) => d.sel = d0.sel
           /\ ~(k >= 4) => Arg(r, v) = w
  BY <1>0, <1>1, <1>2, <1>4 DEF WriteAt
<1> QED BY <1>5 DEF h

\* The instructions of a read and of a write.
LEMMA C22Code ==
  ASSUME NEW reg, NEW v
  PROVE  LET F == driver_read(MmdC22, reg)
             G == driver_write(MmdC22, reg, v)
         IN  /\ F[1] = INSN(WRITE, IMM(3), IMM(13), IMM(7)) /\ G[1] = F[1]
             /\ F[2] = INSN(WRITE, IMM(3), IMM(14), IMM(reg)) /\ G[2] = F[2]
             /\ F[3] = INSN(WRITE, IMM(3), IMM(13), IMM(16391)) /\ G[3] = F[3]
             /\ F[4] = INSN(READ, IMM(3), IMM(14), REG(0))
             /\ G[4] = INSN(WRITE, IMM(3), IMM(14), v)
             /\ Len(F) = 4 /\ Len(G) = 4
<1> DEFINE i1 == INSN(WRITE, IMM(3), IMM(13), IMM(7))
           i2 == INSN(WRITE, IMM(3), IMM(14), IMM(reg))
           i3 == INSN(WRITE, IMM(3), IMM(13), IMM(16391))
           i4 == INSN(READ, IMM(3), IMM(14), REG(0))
           i5 == INSN(WRITE, IMM(3), IMM(14), v)
           id == 32871
           n == 16391
<1>1. MmdC22.id = id /\ PrtAd(id) = 3 /\ DevAd(id) = 7 /\ DevAd(id) + 16384 = n
  BY HandleIds, SMTT(10)
<1> HIDE DEF id, n
<1>2. mmd_c22_address(MmdC22, reg) = <<i1, i2, i3>> BY <1>1 DEF mmd_c22_address, n
<1>3. driver_read(MmdC22, reg) = mmd_c22_read(MmdC22, reg) BY HandleDrvs DEF driver_read
<1>4. driver_write(MmdC22, reg, v) = mmd_c22_write(MmdC22, reg, v) BY HandleDrvs DEF driver_write
<1>5. mmd_c22_read(MmdC22, reg) = Append(<<i1, i2, i3>>, i4) BY <1>1, <1>2 DEF mmd_c22_read
<1>6. mmd_c22_write(MmdC22, reg, v) = Append(<<i1, i2, i3>>, i5) BY <1>1, <1>2 DEF mmd_c22_write
<1>7. ASSUME NEW a, NEW b, NEW c, NEW e
      PROVE  LET s == Append(<<a, b, c>>, e)
             IN  s[1] = a /\ s[2] = b /\ s[3] = c /\ s[4] = e /\ Len(s) = 4
  BY SMTT(10)
<1> HIDE DEF i1, i2, i3, i4, i5
<1>8. LET F == driver_read(MmdC22, reg)
          G == driver_write(MmdC22, reg, v)
      IN  /\ F[1] = i1 /\ G[1] = i1 /\ F[2] = i2 /\ G[2] = i2 /\ F[3] = i3 /\ G[3] = i3
          /\ F[4] = i4 /\ G[4] = i5 /\ Len(F) = 4 /\ Len(G) = 4
  BY <1>3, <1>4, <1>5, <1>6, <1>7
<1> QED BY <1>8 DEF i1, i2, i3, i4, i5

\* Where an MMD is not, nobody answers at its port either.
LEMMA C22Silent ==
  ASSUME NEW d, IsDev(d), ~On(MmdC22, d), NEW b \in Word
  PROVE  Silent(d, <<3>>, b)
<1>1. d.kind \in Kinds /\ d.kind # "mmd" BY OnIs DEF IsDev
<1>2. 3 \in 0..31 /\ 3 \notin Listens(d.kind) BY <1>1, SMTT(10) DEF Listens, Kinds
<1> QED BY <1>2, Elsewhere22

C22Insn(reg, k, i) == k \in 0..2 /\ i = driver_read(MmdC22, reg)[k + 1]
C22Next(reg, k, r, d, k2, r2, d2) ==
  /\ k2 = k + 1 /\ r2 = r /\ IsDev(d2) /\ d2.kind = d.kind /\ d2.cells = d.cells
  /\ IF On(MmdC22, d) THEN C22Selected(k2, reg, d2) ELSE d2 = d

\* The three writes that set the address.
LEMMA C22Addresses ==
  ASSUME NEW reg \in Registers("mmd"), NEW r, NEW d, IsDev(d), NEW k,
         NEW k2, NEW r2, NEW d2, NEW i, C22Insn(reg, k, i), Does(i, k, r, d, k2, r2, d2),
         On(MmdC22, d) => C22Selected(k, reg, d)
  PROVE  C22Next(reg, k, r, d, k2, r2, d2)
<1> USE DEF C22Next
<1>0. k \in 0..2 BY DEF C22Insn
<1> DEFINE n == 16391
<1>1. /\ 3 \in Word /\ 7 \in Word /\ 13 \in Word /\ 14 \in Word /\ n \in Word /\ reg \in Word
      /\ BusAddr(3) = <<3>>
  BY SmallWords, RegistersAssumption, BusAddrs, SMTT(10)
<1> HIDE DEF n
<1>2. CASE ~On(MmdC22, d)
  <2>1. Silent(d, BusAddr(3), 13) /\ Silent(d, BusAddr(3), 14) BY <1>1, <1>2, C22Silent
  <2>2. CASE k = 0
    <3>1. Does(INSN(WRITE, IMM(3), IMM(13), IMM(7)), k, r, d, k2, r2, d2) BY <2>2, C22Code DEF C22Insn
    <3> QED BY <1>1, <1>2, <2>1, <3>1, SilentWrite
  <2>3. CASE k = 1
    <3>1. Does(INSN(WRITE, IMM(3), IMM(14), IMM(reg)), k, r, d, k2, r2, d2) BY <2>3, C22Code DEF C22Insn
    <3> QED BY <1>1, <1>2, <2>1, <3>1, SilentWrite
  <2>4. CASE k = 2
    <3>1. Does(INSN(WRITE, IMM(3), IMM(13), IMM(n)), k, r, d, k2, r2, d2) BY <2>4, C22Code DEF C22Insn, n
    <3> QED BY <1>1, <1>2, <2>1, <3>1, SilentWrite
  <2> QED BY <1>0, <2>2, <2>3, <2>4
<1>3. CASE On(MmdC22, d)
  <2>1. d.kind = "mmd" BY <1>3, OnIs DEF IsDev
  <2>2. \A b, v : BusWrite(d, BusAddr(3), b, v) = MmdWrite(d, b, v) BY <1>1, <2>1, AtMmd
  <2>3. CASE k = 0
    <3>1. Does(INSN(WRITE, IMM(3), IMM(13), IMM(7)), k, r, d, k2, r2, d2) BY <2>3, C22Code DEF C22Insn
    <3>2. k2 = k + 1 /\ r2 = r /\ d2 \in MmdWrite(d, 13, 7)
      BY <1>1, <2>2, <3>1, DoesWrite, ImmArg
    <3>3. d2 = [d EXCEPT !.sel = 7] BY <3>2, SMTT(10) DEF MmdWrite
    <3>4. IsDev(d2) /\ d2.kind = d.kind /\ d2.cells = d.cells /\ d2.sel = 7
      BY <1>1, <3>3, DevSel
    <3>5. k2 = 1 BY <2>3, <3>2
    <3> QED BY <1>3, <3>2, <3>4, <3>5 DEF C22Selected
  <2>4. CASE k = 1
    <3>1. Does(INSN(WRITE, IMM(3), IMM(14), IMM(reg)), k, r, d, k2, r2, d2) BY <2>4, C22Code DEF C22Insn
    <3>2. k2 = k + 1 /\ r2 = r /\ d2 \in MmdWrite(d, 14, reg)
      BY <1>1, <2>2, <3>1, DoesWrite, ImmArg
    <3>3. d.sel = 7 BY <1>3, <2>4 DEF C22Selected
    <3>4. d2 = [d EXCEPT !.adr = reg] BY <3>2, <3>3, SMTT(10) DEF MmdWrite
    <3>5. IsDev(d2) /\ d2.kind = d.kind /\ d2.cells = d.cells /\ d2.sel = 7 /\ d2.adr = reg
      BY <1>1, <3>3, <3>4, DevAdr
    <3>6. k2 = 2 BY <2>4, <3>2
    <3> QED BY <1>3, <3>2, <3>5, <3>6 DEF C22Selected
  <2>5. CASE k = 2
    <3>1. Does(INSN(WRITE, IMM(3), IMM(13), IMM(n)), k, r, d, k2, r2, d2) BY <2>5, C22Code DEF C22Insn, n
    <3>2. k2 = k + 1 /\ r2 = r /\ d2 \in MmdWrite(d, 13, n)
      BY <1>1, <2>2, <3>1, DoesWrite, ImmArg
    <3>3. d2 = [d EXCEPT !.sel = n] BY <3>2, SMTT(10) DEF MmdWrite
    <3>4. d.adr = reg BY <1>3, <2>5 DEF C22Selected
    <3>5. IsDev(d2) /\ d2.kind = d.kind /\ d2.cells = d.cells /\ d2.sel = n /\ d2.adr = reg
      BY <1>1, <3>3, <3>4, DevSel
    <3>6. k2 = 3 BY <2>5, <3>2
    <3> QED BY <1>3, <3>2, <3>5, <3>6, SMTT(10) DEF C22Selected, n
  <2> QED BY <1>0, <2>3, <2>4, <2>5
<1> QED BY <1>2, <1>3

\* Each instruction of a read leads to the assertion behind it.
LEMMA C22Reads ==
  ASSUME NEW reg \in Registers("mmd") PROVE ReadSteps(MmdC22, reg)
<1> SUFFICES ASSUME NEW k, NEW r, NEW d, NEW d0, NEW k2, NEW r2, NEW d2,
                    ReadStep(MmdC22, reg, k, r, d, d0, k2, r2, d2)
             PROVE  ReadAt(MmdC22, reg, k2, r2, d2, d0) /\ IsDev(d2) /\ r2 \in VmRegs
  BY DEF ReadSteps
<1>1. /\ IsDev(d) /\ IsDev(d0) /\ r \in VmRegs /\ k < 4 /\ ReadAt(MmdC22, reg, k, r, d, d0)
      /\ Does(driver_read(MmdC22, reg)[k + 1], k, r, d, k2, r2, d2)
  BY HandleDrvs DEF ReadStep, ReadLen, Direct
<1>2. /\ k \in 0..4 /\ d.kind = d0.kind /\ d.cells = d0.cells
      /\ IF On(MmdC22, d0) THEN C22Selected(k, reg, d) ELSE Same(d, d0)
  BY <1>1, C22ReadForm
<1>3. On(MmdC22, d) <=> On(MmdC22, d0) BY <1>2 DEF On
<1>4. CASE k \in 0..2
  <2>1. /\ k2 = k + 1 /\ r2 = r /\ IsDev(d2) /\ d2.kind = d.kind /\ d2.cells = d.cells
        /\ IF On(MmdC22, d) THEN C22Selected(k2, reg, d2) ELSE d2 = d
    <3>1. On(MmdC22, d) => C22Selected(k, reg, d) BY <1>2, <1>3
    <3>2. PICK i : C22Insn(reg, k, i) /\ Does(i, k, r, d, k2, r2, d2) BY <1>1, <1>4 DEF C22Insn
    <3>3. IsDev(d) BY <1>1
    <3>4. C22Next(reg, k, r, d, k2, r2, d2) BY <3>1, <3>2, <3>3, C22Addresses
    <3> QED BY <3>4 DEF C22Next
  <2>2. k2 \in 0..4 /\ ~(k2 >= 4) BY <1>4, <2>1
  <2> QED BY <1>1, <1>2, <1>3, <2>1, <2>2, C22ReadForm
<1>5. CASE k = 3
  <2>0. 3 \in Word /\ 14 \in Word /\ BusAddr(3) = <<3>> /\ 0 \in 0..7 BY SmallWords, BusAddrs
  <2>1. Does(INSN(READ, IMM(3), IMM(14), REG(0)), k, r, d, k2, r2, d2) BY <1>1, <1>5, C22Code
  <2>2. r2 \in VmRegs /\ k2 = k + 1 /\ d2 = d /\ r2[0] = Shown(MmdC22, reg, d0)
    <3>1. CASE ~On(MmdC22, d0)
      <4>1. Silent(d, BusAddr(3), 14) BY <1>1, <1>3, <2>0, <3>1, C22Silent
      <4> QED BY <1>1, <2>0, <2>1, <3>1, <4>1, SilentRead DEF Shown
    <3>2. CASE On(MmdC22, d0)
      <4>1. d.kind = "mmd" BY <1>1, <1>3, <3>2, OnIs DEF IsDev
      <4>2. d.sel = 16391 /\ d.adr = reg BY <1>2, <1>5, <3>2 DEF C22Selected
      <4>3. MmdRead(d, 14) = {[val |-> Peek(d, reg), dev |-> d]}
        BY <4>2, SMTT(10) DEF MmdRead, Reads
      <4>4. Sure(d, BusAddr(3), 14, Peek(d, reg)) BY <2>0, <4>1, <4>3, AtMmd DEF Sure
      <4>5. r2 \in VmRegs /\ k2 = k + 1 /\ d2 = d /\ r2[0] = Peek(d, reg)
        BY <1>1, <2>0, <2>1, <4>4, SureRead
      <4>6. reg \in DOMAIN d.cells BY <1>1, <4>1 DEF IsDev
      <4> QED BY <1>2, <3>2, <4>5, <4>6 DEF Peek, Shown
    <3> QED BY <3>1, <3>2
  <2>3. k2 = 4 /\ k2 \in 0..4 BY <1>5, <2>2
  <2>4. C22Selected(k2, reg, d2) BY <2>3 DEF C22Selected
  <2> QED BY <1>1, <1>2, <2>2, <2>3, <2>4, C22ReadForm
<1>6. k \in 0..2 \/ k = 3 BY <1>1, <1>2
<1> QED BY <1>4, <1>5, <1>6

\* Each instruction of a write leads to the assertion behind it.
LEMMA C22Writes ==
  ASSUME NEW reg \in Registers("mmd"), NEW v, NEW w \in Word PROVE WriteSteps(MmdC22, reg, v, w)
<1> SUFFICES ASSUME NEW k, NEW r, NEW d, NEW d0, NEW k2, NEW r2, NEW d2,
                    WriteStep(MmdC22, reg, v, w, k, r, d, d0, k2, r2, d2)
             PROVE  WriteAt(MmdC22, reg, v, w, k2, r2, d2, d0) /\ IsDev(d2) /\ r2 \in VmRegs
  BY DEF WriteSteps
<1>1. /\ IsDev(d) /\ IsDev(d0) /\ r \in VmRegs /\ k < 4 /\ WriteAt(MmdC22, reg, v, w, k, r, d, d0)
      /\ Does(driver_write(MmdC22, reg, v)[k + 1], k, r, d, k2, r2, d2)
  BY HandleDrvs DEF WriteStep, WriteLen, Direct
<1>2. k \in 0..4 /\ k \in 0..3 /\ ~(k >= 4)
  <2>1. k \in 0..4 BY <1>1, C22WriteForm
  <2> QED BY <1>1, <2>1
<1>3. /\ d.kind = d0.kind /\ d.cells = d0.cells /\ Arg(r, v) = w
      /\ IF On(MmdC22, d0) THEN C22Selected(k, reg, d) ELSE Paged(d0) => d.sel = d0.sel
  BY <1>1, <1>2, C22WriteForm
<1>4. On(MmdC22, d) <=> On(MmdC22, d0) BY <1>3 DEF On
<1>5. CASE k \in 0..2
  <2>1. Does(driver_read(MmdC22, reg)[k + 1], k, r, d, k2, r2, d2)
    <3>1. driver_read(MmdC22, reg)[k + 1] = driver_write(MmdC22, reg, v)[k + 1]
      BY <1>5, C22Code
    <3> QED BY <1>1, <3>1
  <2>2. /\ k2 = k + 1 /\ r2 = r /\ IsDev(d2) /\ d2.kind = d.kind /\ d2.cells = d.cells
        /\ IF On(MmdC22, d) THEN C22Selected(k2, reg, d2) ELSE d2 = d
    <3>1. On(MmdC22, d) => C22Selected(k, reg, d) BY <1>3, <1>4
    <3>2. PICK i : C22Insn(reg, k, i) /\ Does(i, k, r, d, k2, r2, d2) BY <1>5, <2>1 DEF C22Insn
    <3>3. IsDev(d) BY <1>1
    <3>4. C22Next(reg, k, r, d, k2, r2, d2) BY <3>1, <3>2, <3>3, C22Addresses
    <3> QED BY <3>4 DEF C22Next
  <2>3. k2 \in 0..4 /\ ~(k2 >= 4) BY <1>5, <2>2
  <2> QED BY <1>1, <1>3, <1>4, <2>2, <2>3, C22WriteForm
<1>6. CASE k = 3
  <2>0. 3 \in Word /\ 14 \in Word /\ BusAddr(3) = <<3>> BY SmallWords, BusAddrs
  <2>1. Does(INSN(WRITE, IMM(3), IMM(14), v), k, r, d, k2, r2, d2) BY <1>1, <1>6, C22Code
  <2>2. k2 = k + 1 /\ r2 = r /\ d2 \in BusWrite(d, <<3>>, 14, w)
    BY <1>3, <2>0, <2>1, DoesWrite
  <2>3. k2 = 4 /\ k2 \in 0..4 /\ k2 >= 4 BY <1>6, <2>2
  <2>4. C22Selected(k2, reg, d2) BY <2>3 DEF C22Selected
  <2>5. /\ IsDev(d2) /\ d2.kind = d0.kind /\ d2.cells = Stored(MmdC22, reg, w, d0)
        /\ ~On(MmdC22, d0) => d2 = d
    <3>1. CASE ~On(MmdC22, d0)
      <4>1. Silent(d, <<3>>, 14) BY <1>1, <1>4, <2>0, <3>1, C22Silent
      <4> QED BY <1>1, <1>3, <2>2, <3>1, <4>1 DEF Silent, Stored
    <3>2. CASE On(MmdC22, d0)
      <4>1. d.kind = "mmd" BY <1>1, <1>4, <3>2, OnIs DEF IsDev
      <4>2. d.sel = 16391 /\ d.adr = reg BY <1>3, <1>6, <3>2 DEF C22Selected
      <4>3. MmdWrite(d, 14, w) = {Poke(d, reg, w)} BY <4>2, SMTT(10) DEF MmdWrite
      <4>4. d2 = Poke(d, reg, w) BY <2>2, <4>1, <4>3, AtMmd
      <4>5. reg \in DOMAIN d.cells BY <1>1, <4>1 DEF IsDev
      <4>6. IsDev(d2) /\ d2.kind = d.kind /\ d2.cells = [d.cells EXCEPT ![reg] = w]
        BY <1>1, <4>4, <4>5, DevPoke
      <4> QED BY <1>3, <3>2, <4>5, <4>6 DEF Stored
    <3> QED BY <3>1, <3>2
  <2> QED BY <1>1, <1>3, <2>2, <2>3, <2>4, <2>5, C22WriteForm
<1>7. k \in 0..2 \/ k = 3 BY <1>2
<1> QED BY <1>5, <1>6, <1>7

-------------------------------------------------------------------------------
(***************************************************************************)
(* mva and mscc: the page is saved, selected and restored.                 *)
(***************************************************************************)
PageSelected(pg, k, r, d, d0) ==
  /\ k >= 1 => r[1] = d0.sel
  /\ k \in {0, 1, 2} => d.sel = d0.sel
  /\ k = 3 => d.sel = pg
PageKept(pg, k, d, d0) ==
  (k \in {4, 5} => d.sel = pg) /\ (k = 6 => d.sel = d0.sel)

\* The assertions of these drivers, without the cases of the others.
LEMMA PagedReadForm ==
  ASSUME NEW h, h.drv \in {"mva", "mscc"}, NEW reg, NEW k, NEW r, NEW d, NEW d0
  PROVE  ReadAt(h, reg, k, r, d, d0) <=>
           /\ k \in 0..6 /\ d.kind = d0.kind /\ d.cells = d0.cells
           /\ IF On(h, d0) THEN PageSelected(Page(reg), k, r, d, d0) /\ PageKept(Page(reg), k, d, d0)
              ELSE Same(d, d0)
           /\ k >= 4 => r[0] = Shown(h, reg, d0)
<1>0. ~Direct(h) BY DEF Direct
<1>1. ReadLen(h) = 6 BY <1>0 DEF ReadLen
<1>2. ReadDone(h, k) <=> k >= 4 BY DEF ReadDone
<1>3. Selected(h, reg, k, r, d, d0) <=> PageSelected(Page(reg), k, r, d, d0)
  BY <1>0 DEF Selected, PageSelected
<1>4. ReadOn(h, reg, k, r, d, d0) <=>
        PageSelected(Page(reg), k, r, d, d0) /\ PageKept(Page(reg), k, d, d0)
  BY <1>3 DEF ReadOn, PageKept
<1> QED BY <1>1, <1>2, <1>4 DEF ReadAt

\* The assertions of a write on a page.
LEMMA PagedWriteForm ==
  ASSUME NEW h, h.drv \in {"mva", "mscc"}, NEW reg, NEW v, NEW w, NEW k, NEW r, NEW d, NEW d0
  PROVE  WriteAt(h, reg, v, w, k, r, d, d0) <=>
           /\ k \in 0..6 /\ d.kind = d0.kind
           /\ d.cells = IF k >= 4 THEN Stored(h, reg, w, d0) ELSE d0.cells
           /\ IF On(h, d0)
                THEN /\ PageSelected(Page(reg), k, r, d, d0)
                     /\ ~IsPageReg(h, reg) => PageKept(Page(reg), k, d, d0)
                ELSE Paged(d0) => d.sel = d0.sel
           /\ ~(k >= 4) => Arg(r, v) = w
<1>0. ~Direct(h) BY DEF Direct
<1>1. WriteLen(h) = 6 BY <1>0 DEF WriteLen
<1>2. WriteDone(h, k) <=> k >= 4 BY DEF WriteDone
<1>3. Selected(h, reg, k, r, d, d0) <=> PageSelected(Page(reg), k, r, d, d0)
  BY <1>0 DEF Selected, PageSelected
<1>4. WriteOn(h, reg, w, k, r, d, d0) <=>
        /\ PageSelected(Page(reg), k, r, d, d0)
        /\ ~IsPageReg(h, reg) => PageKept(Page(reg), k, d, d0)
  BY <1>3 DEF WriteOn, PageKept
<1> QED BY <1>1, <1>2, <1>4 DEF WriteAt

\* A number is its upper and lower half.
LEMMA Halves == \A n \in Nat : (n \div 65536) * 65536 + (n % 65536) = n
  BY SMTT(10)

\* A register that is on a page, or the page register of the mva.
PagedTarget(h, reg) ==
  \E kind \in {"mva", "mscc"} :
    h = Handle(kind) /\ (reg \in Registers(kind) \/ (kind = "mva" /\ reg = 22))

\* Address, page register, page and register of a target; what the device, if it is
\* there, does with cycles to it.
PagedTo(h, reg, id, pr, pg, b) ==
  /\ h.drv \in {"mva", "mscc"} /\ h.id = id /\ h.page_reg = pr /\ Page(reg) = pg /\ reg % 32 = b
  /\ id \in Word /\ pr \in Word /\ pg \in Word /\ b \in Word
  /\ IsPageReg(h, reg) <=> b = pr
  /\ b = pr => pg = 0
  /\ \A d : IsDev(d) =>
       IF On(h, d)
         THEN /\ reg \in DOMAIN d.cells <=> b # pr
              /\ Sure(d, BusAddr(id), pr, d.sel)
              /\ \A v : BusWrite(d, BusAddr(id), pr, v) = {[d EXCEPT !.sel = v]}
              /\ b # pr /\ d.sel = pg =>
                   /\ Sure(d, BusAddr(id), b, Peek(d, reg))
                   /\ \A v : BusWrite(d, BusAddr(id), b, v) = {Poke(d, reg, v)}
         ELSE Silent(d, BusAddr(id), pr) /\ Silent(d, BusAddr(id), b)

\* Every target has them.
LEMMA PagedCycle ==
  ASSUME NEW h, NEW reg, PagedTarget(h, reg)
  PROVE  \E id, pr, pg, b : PagedTo(h, reg, id, pr, pg, b)
<1>1. PICK kind \in {"mva", "mscc"} :
        h = Handle(kind) /\ (reg \in Registers(kind) \/ (kind = "mva" /\ reg = 22))
  BY DEF PagedTarget
<1> DEFINE id == h.id  pr == h.page_reg  pg == Page(reg)  b == reg % 32
<1>2. /\ h.drv \in {"mva", "mscc"} /\ kind \in Kinds
      /\ id \in {4, 5} /\ Listens(kind) = {id} /\ pr \in {22, 31} /\ (kind = "mva" => pr = 22)
  BY <1>1, HandleIds, HandleDrvs, SMTT(10) DEF Kinds, Listens
<1>3. /\ pg \in 0..255 /\ b \in 0..31 /\ (b = pr => pg = 0)
      /\ (b # pr => reg \in Registers(kind) /\ pg * 65536 + b = reg)
      /\ (b = pr => reg \notin Registers(kind))
  <2>1. CASE reg \in Registers(kind)
    <3>1. reg \in Nat /\ reg \div 65536 \in 0..255 /\ reg % 65536 \in 0..31 /\ reg % 65536 # pr
      BY <1>1, <2>1, RegistersAssumption
    <3>2. b = reg % 65536 /\ pg = reg \div 65536 BY <3>1, SMTT(10) DEF Page
    <3>3. pg * 65536 + b = reg BY <3>1, <3>2, Halves
    <3> HIDE DEF pr, pg, b
    <3> QED BY <2>1, <3>1, <3>2, <3>3, SMTT(10)
  <2>2. CASE reg = 22 /\ kind = "mva" /\ reg \notin Registers(kind)
    <3>1. b = 22 /\ pg = 0 BY <2>2, SMTT(10) DEF Page
    <3> QED BY <1>2, <2>2, <3>1, SMTT(10)
  <2> QED BY <1>1, <2>1, <2>2
<1>4. id \in 0..31 /\ pr \in 0..31 BY <1>2, SMTT(10)
<1>5. id \in Word /\ pr \in Word /\ pg \in Word /\ b \in Word /\ BusAddr(id) = <<id>>
  BY <1>3, <1>4, SmallWords, BusAddrs, SMTT(10)
<1>6. IsPageReg(h, reg) <=> b = pr BY <1>2 DEF IsPageReg
<1> HIDE DEF id, pr, pg, b
<1>7. ASSUME NEW d, IsDev(d), ~On(h, d)
      PROVE  Silent(d, <<id>>, pr) /\ Silent(d, <<id>>, b)
  <2>1. d.kind \in Kinds /\ d.kind # kind BY <1>1, <1>2, <1>7, OnIs DEF IsDev
  <2>2. id \notin Listens(d.kind) BY <1>1, <1>2, <2>1, SMTT(10) DEF Listens, Kinds
  <2> QED BY <1>4, <1>5, <1>7, <2>2, Elsewhere22
<1>8. ASSUME NEW d, IsDev(d), On(h, d)
      PROVE  /\ reg \in DOMAIN d.cells <=> b # pr
             /\ Sure(d, <<id>>, pr, d.sel)
             /\ \A v : BusWrite(d, <<id>>, pr, v) = {[d EXCEPT !.sel = v]}
             /\ b # pr /\ d.sel = pg =>
                  /\ Sure(d, <<id>>, b, Peek(d, reg))
                  /\ \A v : BusWrite(d, <<id>>, b, v) = {Poke(d, reg, v)}
  <2>1. d.kind = kind /\ Paged(d) BY <1>1, <1>2, <1>8, OnIs DEF IsDev, Paged
  <2>2. PageReg(d) = pr /\ Handle(d.kind).id = id BY <1>1, <2>1 DEF PageReg, pr, id
  <2>3. /\ \A x : BusRead(d, <<id>>, x) = PagedRead(d, x)
        /\ \A x, v : BusWrite(d, <<id>>, x, v) = PagedWrite(d, x, v)
    BY <2>1, <2>2, AtPaged
  <2>4. reg \in DOMAIN d.cells <=> b # pr BY <1>3, <1>8, <2>1 DEF IsDev
  <2>5. Sure(d, <<id>>, pr, d.sel) BY <2>2, <2>3 DEF Sure, PagedRead, Reads
  <2>6. \A v : BusWrite(d, <<id>>, pr, v) = {[d EXCEPT !.sel = v]}
    BY <2>2, <2>3 DEF PagedWrite
  <2>7. ASSUME b # pr, d.sel = pg
        PROVE  /\ Sure(d, <<id>>, b, Peek(d, reg))
               /\ \A v : BusWrite(d, <<id>>, b, v) = {Poke(d, reg, v)}
    <3>1. d.sel * 65536 + b = reg BY <1>3, <2>7
    <3>2. PagedRead(d, b) = Reads(d, Peek(d, reg)) BY <2>2, <2>7, <3>1 DEF PagedRead
    <3>3. \A v : PagedWrite(d, b, v) = {Poke(d, reg, v)} BY <2>2, <2>7, <3>1 DEF PagedWrite
    <3> QED BY <2>3, <3>2, <3>3 DEF Sure, Reads
  <2> QED BY <2>4, <2>5, <2>6, <2>7
<1>9. PagedTo(h, reg, id, pr, pg, b)
  <2>1. /\ h.drv \in {"mva", "mscc"} /\ h.id = id /\ h.page_reg = pr /\ Page(reg) = pg /\ reg % 32 = b
        /\ (b = pr => pg = 0)
    BY <1>2, <1>3 DEF id, pr, pg, b
  <2> QED BY <1>5, <1>6, <1>7, <1>8, <2>1 DEF PagedTo
<1> QED BY <1>9

\* The instructions of a read and of a write.
LEMMA PagedCode ==
  ASSUME NEW h, h.drv \in {"mva", "mscc"}, NEW reg, NEW v, NEW id, h.id = id, NEW pr, h.page_reg = pr,
         NEW pg, Page(reg) = pg, NEW b, reg % 32 = b
  PROVE  LET F == driver_read(h, reg)
             G == driver_write(h, reg, v)
         IN  /\ F[1] = INSN(READ, IMM(id), IMM(pr), REG(1)) /\ G[1] = F[1]
             /\ F[2] = INSN(JEQ, REG(1), IMM(pg), IMM(1)) /\ G[2] = F[2]
             /\ F[3] = INSN(WRITE, IMM(id), IMM(pr), IMM(pg)) /\ G[3] = F[3]
             /\ F[4] = INSN(READ, IMM(id), IMM(b), REG(0))
             /\ G[4] = INSN(WRITE, IMM(id), IMM(b), v)
             /\ F[5] = INSN(JEQ, REG(1), IMM(pg), IMM(1)) /\ G[5] = F[5]
             /\ F[6] = INSN(WRITE, IMM(id), IMM(pr), REG(1)) /\ G[6] = F[6]
             /\ Len(F) = 6 /\ Len(G) = 6
<1> DEFINE i1 == INSN(READ, IMM(id), IMM(pr), REG(1))
           i2 == INSN(JEQ, REG(1), IMM(pg), IMM(1))
           i3 == INSN(WRITE, IMM(id), IMM(pr), IMM(pg))
           i4 == INSN(READ, IMM(id), IMM(b), REG(0))
           j4 == INSN(WRITE, IMM(id), IMM(b), v)
           i6 == INSN(WRITE, IMM(id), IMM(pr), REG(1))
<1>1. driver_read(h, reg) = pphy_read(h, reg) /\ driver_write(h, reg, v) = pphy_write(h, reg, v)
  BY DEF driver_read, driver_write
<1>2. pphy_read(h, reg) = <<i1, i2, i3>> \o <<i4>> \o <<i2, i6>>
  BY DEF pphy_read, select_page, restore_page
<1>3. pphy_write(h, reg, v) = <<i1, i2, i3>> \o <<j4>> \o <<i2, i6>>
  BY DEF pphy_write, select_page, restore_page
<1> HIDE DEF i1, i2, i3, i4, j4, i6
<1>5. LET F == driver_read(h, reg)
      IN  /\ F[1] = i1 /\ F[2] = i2 /\ F[3] = i3 /\ F[4] = i4 /\ F[5] = i2 /\ F[6] = i6 /\ Len(F) = 6
  <2> DEFINE F == driver_read(h, reg)
  <2>1. F = <<i1, i2, i3>> \o <<i4>> \o <<i2, i6>> BY <1>1, <1>2
  <2> HIDE DEF F
  <2>2. F[1] = i1 /\ F[2] = i2 /\ F[3] = i3 /\ F[4] = i4 /\ F[5] = i2 /\ F[6] = i6 /\ Len(F) = 6
    BY <2>1, SMTT(10)
  <2> QED BY <2>2 DEF F
<1>6. LET G == driver_write(h, reg, v)
      IN  /\ G[1] = i1 /\ G[2] = i2 /\ G[3] = i3 /\ G[4] = j4 /\ G[5] = i2 /\ G[6] = i6 /\ Len(G) = 6
  <2> DEFINE G == driver_write(h, reg, v)
  <2>1. G = <<i1, i2, i3>> \o <<j4>> \o <<i2, i6>> BY <1>1, <1>3
  <2> HIDE DEF G
  <2>2. G[1] = i1 /\ G[2] = i2 /\ G[3] = i3 /\ G[4] = j4 /\ G[5] = i2 /\ G[6] = i6 /\ Len(G) = 6
    BY <2>1, SMTT(10)
  <2> QED BY <2>2 DEF G
<1> QED BY <1>5, <1>6 DEF i1, i2, i3, i4, j4, i6

\* An argument that reads the same when only R1 has changed.
Steady(v) == \A r, r2 : r[0] = r2[0] => Arg(r, v) = Arg(r2, v)

\* Immediates are, and R0 is.
LEMMA SteadyArgs == (\A n \in Word : Steady(IMM(n))) /\ Steady(REG(0))
<1>1. \A n \in Word : Steady(IMM(n)) BY ImmArg DEF Steady
<1>2. Steady(REG(0))
  <2>1. 0 \in 0..7 OBVIOUS
  <2> QED BY <2>1, RegArg DEF Steady
<1> QED BY <1>1, <1>2

\* The instructions around the one that reads or writes the register, at position k.
PageInsn(h, reg, k, i) == k \in {0, 1, 2, 4, 5} /\ i = driver_read(h, reg)[k + 1]
PageNext(h, pg, k, r, d, d0, k2, r2, d2) ==
  /\ k2 \in k + 1 .. 6 /\ (k2 >= 4 <=> k >= 4) /\ r2 \in VmRegs /\ r2[0] = r[0]
  /\ IsDev(d2) /\ d2.kind = d.kind /\ d2.cells = d.cells
  /\ IF On(h, d)
       THEN PageSelected(pg, k2, r2, d2, d0) /\ (PageKept(pg, k, d, d0) => PageKept(pg, k2, d2, d0))
       ELSE d2 = d

\* Saving, selecting and restoring the page.
LEMMA PageChanges ==
  ASSUME NEW h, NEW reg, NEW id, NEW pr, NEW pg, NEW b, PagedTo(h, reg, id, pr, pg, b),
         NEW k, NEW r \in VmRegs, NEW d, IsDev(d), NEW d0, IsDev(d0), d.kind = d0.kind,
         NEW k2, NEW r2, NEW d2, NEW i, PageInsn(h, reg, k, i), Does(i, k, r, d, k2, r2, d2),
         On(h, d) => PageSelected(pg, k, r, d, d0)
  PROVE  PageNext(h, pg, k, r, d, d0, k2, r2, d2)
<1>0. k \in {0, 1, 2, 4, 5} BY DEF PageInsn
<1>1. /\ h.drv \in {"mva", "mscc"} /\ h.id = id /\ h.page_reg = pr /\ Page(reg) = pg /\ reg % 32 = b
      /\ id \in Word /\ pr \in Word /\ pg \in Word
  BY DEF PagedTo
<1>2. /\ On(h, d) => /\ Sure(d, BusAddr(id), pr, d.sel)
                     /\ \A v : BusWrite(d, BusAddr(id), pr, v) = {[d EXCEPT !.sel = v]}
      /\ ~On(h, d) => Silent(d, BusAddr(id), pr)
  BY DEF PagedTo
<1>3. 1 \in 0..7 /\ 0 \in 0..7 /\ 1 # 0 OBVIOUS
<1>4. d.sel \in Word /\ d0.sel \in Word /\ r[1] \in Word BY DEF IsDev, VmRegs, Regs
<1>5. CASE k = 0
  <2>1. Does(INSN(READ, IMM(id), IMM(pr), REG(1)), k, r, d, k2, r2, d2)
    BY <1>1, <1>5, PagedCode DEF PageInsn
  <2>2. k2 = k + 1 /\ r2 \in VmRegs /\ r2[0] = r[0] /\ d2 = d /\ (On(h, d) => r2[1] = d.sel)
    <3>1. CASE On(h, d) BY <1>1, <1>2, <1>3, <2>1, <3>1, SureRead
    <3>2. CASE ~On(h, d) BY <1>1, <1>2, <1>3, <2>1, <3>2, SilentRead
    <3> QED BY <3>1, <3>2
  <2>3. k2 = 1 BY <1>5, <2>2
  <2> QED BY <1>5, <2>2, <2>3 DEF PageNext, PageSelected, PageKept
<1>6. CASE k \in {1, 4}
  <2>1. Does(INSN(JEQ, REG(1), IMM(pg), IMM(1)), k, r, d, k2, r2, d2)
    BY <1>1, <1>6, PagedCode DEF PageInsn
  <2>2. r2 = r /\ d2 = d /\ k2 = IF r[1] = pg THEN k + 1 + 1 ELSE k + 1
    BY <1>1, <1>3, <2>1, Displacements, DoesJeq
  <2>3. k2 = IF r[1] = pg THEN k + 2 ELSE k + 1 BY <1>6, <2>2
  <2>4. CASE k = 1
    <3>1. k2 \in {2, 3} /\ (k2 = 3 => r[1] = pg) BY <2>3, <2>4
    <3> QED BY <2>2, <2>4, <3>1 DEF PageNext, PageSelected, PageKept
  <2>5. CASE k = 4
    <3>1. k2 \in {5, 6} /\ (k2 = 6 => r[1] = pg) BY <2>3, <2>5
    <3> QED BY <2>2, <2>5, <3>1 DEF PageNext, PageSelected, PageKept
  <2> QED BY <1>6, <2>4, <2>5
<1>7. CASE k = 2
  <2>1. Does(INSN(WRITE, IMM(id), IMM(pr), IMM(pg)), k, r, d, k2, r2, d2)
    BY <1>1, <1>7, PagedCode DEF PageInsn
  <2>2. k2 = k + 1 /\ r2 = r /\ d2 \in BusWrite(d, BusAddr(id), pr, pg)
    BY <1>1, <2>1, DoesWrite, ImmArg
  <2>3. k2 = 3 BY <1>7, <2>2
  <2>4. CASE On(h, d)
    <3>1. d2 = [d EXCEPT !.sel = pg] BY <1>2, <2>2, <2>4
    <3>2. IsDev(d2) /\ d2.kind = d.kind /\ d2.cells = d.cells /\ d2.sel = pg BY <1>1, <3>1, DevSel
    <3> QED BY <1>7, <2>2, <2>3, <2>4, <3>2 DEF PageNext, PageSelected, PageKept
  <2>5. CASE ~On(h, d)
    <3>1. d2 = d BY <1>2, <2>2, <2>5 DEF Silent
    <3> QED BY <1>7, <2>2, <2>3, <2>5, <3>1 DEF PageNext
  <2> QED BY <2>4, <2>5
<1>8. CASE k = 5
  <2>1. Does(INSN(WRITE, IMM(id), IMM(pr), REG(1)), k, r, d, k2, r2, d2)
    BY <1>1, <1>8, PagedCode DEF PageInsn
  <2>2. k2 = k + 1 /\ r2 = r /\ d2 \in BusWrite(d, BusAddr(id), pr, r[1])
    BY <1>1, <1>3, <2>1, DoesWrite, RegArg
  <2>3. k2 = 6 BY <1>8, <2>2
  <2>4. CASE On(h, d)
    <3>1. d2 = [d EXCEPT !.sel = r[1]] BY <1>2, <2>2, <2>4
    <3>2. IsDev(d2) /\ d2.kind = d.kind /\ d2.cells = d.cells /\ d2.sel = r[1] BY <1>4, <3>1, DevSel
    <3> QED BY <1>8, <2>2, <2>3, <2>4, <3>2 DEF PageNext, PageSelected, PageKept
  <2>5. CASE ~On(h, d)
    <3>1. d2 = d BY <1>2, <2>2, <2>5 DEF Silent
    <3> QED BY <1>8, <2>2, <2>3, <2>5, <3>1 DEF PageNext
  <2> QED BY <2>4, <2>5
<1> QED BY <1>0, <1>5, <1>6, <1>7, <1>8

\* Each instruction of a read leads to the assertion behind it.
LEMMA PagedReads ==
  ASSUME NEW h, NEW reg, PagedTarget(h, reg) PROVE ReadSteps(h, reg)
<1> SUFFICES ASSUME NEW k, NEW r, NEW d, NEW d0, NEW k2, NEW r2, NEW d2,
                    ReadStep(h, reg, k, r, d, d0, k2, r2, d2)
             PROVE  ReadAt(h, reg, k2, r2, d2, d0) /\ IsDev(d2) /\ r2 \in VmRegs
  BY DEF ReadSteps
<1>1. PICK id, pr, pg, b : PagedTo(h, reg, id, pr, pg, b) BY PagedCycle
<1>2. /\ h.drv \in {"mva", "mscc"} /\ h.id = id /\ h.page_reg = pr /\ Page(reg) = pg /\ reg % 32 = b
      /\ id \in Word /\ b \in Word /\ (b = pr => pg = 0)
  BY <1>1 DEF PagedTo
<1>3. /\ IsDev(d) /\ IsDev(d0) /\ r \in VmRegs /\ k < 6 /\ ReadAt(h, reg, k, r, d, d0)
      /\ Does(driver_read(h, reg)[k + 1], k, r, d, k2, r2, d2)
  BY <1>2 DEF ReadStep, ReadLen, Direct
<1>4. /\ k \in 0..6 /\ d.kind = d0.kind /\ d.cells = d0.cells
      /\ IF On(h, d0) THEN PageSelected(pg, k, r, d, d0) /\ PageKept(pg, k, d, d0) ELSE Same(d, d0)
      /\ k >= 4 => r[0] = Shown(h, reg, d0)
  BY <1>2, <1>3, PagedReadForm
<1>5. On(h, d) <=> On(h, d0) BY <1>4 DEF On
<1>6. CASE k \in {0, 1, 2, 4, 5}
  <2>1. On(h, d) => PageSelected(pg, k, r, d, d0) BY <1>4, <1>5
  <2>2. PICK i : PageInsn(h, reg, k, i) /\ Does(i, k, r, d, k2, r2, d2) BY <1>3, <1>6 DEF PageInsn
  <2>3. IsDev(d) /\ IsDev(d0) /\ r \in VmRegs /\ d.kind = d0.kind BY <1>3, <1>4
  <2>4. PageNext(h, pg, k, r, d, d0, k2, r2, d2) BY <1>1, <2>1, <2>2, <2>3, PageChanges
  <2>5. /\ k2 \in 0..6 /\ (k2 >= 4 <=> k >= 4) /\ r2 \in VmRegs /\ r2[0] = r[0]
        /\ IsDev(d2) /\ d2.kind = d0.kind /\ d2.cells = d0.cells
        /\ IF On(h, d0) THEN PageSelected(pg, k2, r2, d2, d0) /\ PageKept(pg, k2, d2, d0) ELSE d2 = d
    BY <1>4, <1>5, <2>4 DEF PageNext
  <2>6. ReadAt(h, reg, k2, r2, d2, d0) BY <1>2, <1>4, <2>5, PagedReadForm
  <2> QED BY <2>5, <2>6
<1>7. CASE k = 3
  <2>1. Does(INSN(READ, IMM(id), IMM(b), REG(0)), k, r, d, k2, r2, d2) BY <1>2, <1>3, <1>7, PagedCode
  <2>2. 0 \in 0..7 /\ 1 \in 0..7 /\ 1 # 0 OBVIOUS
  <2>3. /\ k2 = k + 1 /\ r2 \in VmRegs /\ r2[1] = r[1] /\ d2 = d
        /\ r2[0] = Shown(h, reg, d0)
    <3>1. CASE ~On(h, d0)
      <4>1. Silent(d, BusAddr(id), b) BY <1>1, <1>3, <1>5, <3>1 DEF PagedTo
      <4>2. k2 = k + 1 /\ r2 \in VmRegs /\ r2[1] = r[1] /\ d2 = d /\ r2[0] = 65535
        BY <1>2, <1>3, <2>1, <2>2, <4>1, SilentRead
      <4> QED BY <3>1, <4>2 DEF Shown
    <3>2. CASE On(h, d0)
      <4>1. d.sel = pg BY <1>4, <1>7, <3>2 DEF PageSelected
      <4>2. CASE b = pr
        <5>1. Sure(d, BusAddr(id), b, 0) /\ reg \notin DOMAIN d0.cells
          <6>1. On(h, d) BY <1>5, <3>2
          <6>2. Sure(d, BusAddr(id), pr, d.sel) BY <1>1, <1>3, <6>1 DEF PagedTo
          <6>3. reg \notin DOMAIN d0.cells BY <1>1, <1>3, <3>2, <4>2 DEF PagedTo
          <6> QED BY <1>2, <4>1, <4>2, <6>2, <6>3
        <5>2. k2 = k + 1 /\ r2 \in VmRegs /\ r2[1] = r[1] /\ d2 = d /\ r2[0] = 0
          BY <1>2, <1>3, <2>1, <2>2, <5>1, SureRead
        <5> QED BY <3>2, <5>1, <5>2 DEF Shown
      <4>3. CASE b # pr
        <5>1. Sure(d, BusAddr(id), b, Peek(d, reg)) /\ reg \in DOMAIN d.cells
          <6>1. On(h, d) BY <1>5, <3>2
          <6> QED BY <1>1, <1>3, <4>1, <4>3, <6>1 DEF PagedTo
        <5>2. k2 = k + 1 /\ r2 \in VmRegs /\ r2[1] = r[1] /\ d2 = d /\ r2[0] = Peek(d, reg)
          BY <1>2, <1>3, <2>1, <2>2, <5>1, SureRead
        <5> QED BY <1>4, <3>2, <5>1, <5>2 DEF Shown, Peek
      <4> QED BY <4>2, <4>3
    <3> QED BY <3>1, <3>2
  <2>4. k2 = 4 /\ k2 \in 0..6 BY <1>7, <2>3
  <2>5. On(h, d0) => PageSelected(pg, k2, r2, d2, d0) /\ PageKept(pg, k2, d2, d0)
    BY <1>4, <1>7, <2>3, <2>4 DEF PageSelected, PageKept
  <2>6. ReadAt(h, reg, k2, r2, d2, d0) BY <1>2, <1>4, <2>3, <2>4, <2>5, PagedReadForm
  <2> QED BY <1>3, <2>3, <2>6
<1>8. k \in {0, 1, 2, 4, 5} \/ k = 3 BY <1>3, <1>4
<1> QED BY <1>6, <1>7, <1>8

\* Each instruction of a write leads to the assertion behind it.
LEMMA PagedWrites ==
  ASSUME NEW h, NEW reg, PagedTarget(h, reg), NEW v, Steady(v), NEW w \in Word
  PROVE  WriteSteps(h, reg, v, w)
<1> SUFFICES ASSUME NEW k, NEW r, NEW d, NEW d0, NEW k2, NEW r2, NEW d2,
                    WriteStep(h, reg, v, w, k, r, d, d0, k2, r2, d2)
             PROVE  WriteAt(h, reg, v, w, k2, r2, d2, d0) /\ IsDev(d2) /\ r2 \in VmRegs
  BY DEF WriteSteps
<1>1. PICK id, pr, pg, b : PagedTo(h, reg, id, pr, pg, b) BY PagedCycle
<1>2. /\ h.drv \in {"mva", "mscc"} /\ h.id = id /\ h.page_reg = pr /\ Page(reg) = pg /\ reg % 32 = b
      /\ id \in Word /\ b \in Word /\ (b = pr => pg = 0) /\ (IsPageReg(h, reg) <=> b = pr)
  BY <1>1 DEF PagedTo
<1>3. /\ IsDev(d) /\ IsDev(d0) /\ r \in VmRegs /\ k < 6 /\ WriteAt(h, reg, v, w, k, r, d, d0)
      /\ Does(driver_write(h, reg, v)[k + 1], k, r, d, k2, r2, d2)
  BY <1>2 DEF WriteStep, WriteLen, Direct
<1>4. /\ k \in 0..6 /\ d.kind = d0.kind
      /\ d.cells = IF k >= 4 THEN Stored(h, reg, w, d0) ELSE d0.cells
      /\ IF On(h, d0)
           THEN PageSelected(pg, k, r, d, d0) /\ (~IsPageReg(h, reg) => PageKept(pg, k, d, d0))
           ELSE Paged(d0) => d.sel = d0.sel
      /\ ~(k >= 4) => Arg(r, v) = w
  BY <1>2, <1>3, PagedWriteForm
<1>5. On(h, d) <=> On(h, d0) BY <1>4 DEF On
<1>6. CASE k \in {0, 1, 2, 4, 5}
  <2>1. On(h, d) => PageSelected(pg, k, r, d, d0) BY <1>4, <1>5
  <2>2. PICK i : PageInsn(h, reg, k, i) /\ Does(i, k, r, d, k2, r2, d2)
    <3>1. driver_read(h, reg)[k + 1] = driver_write(h, reg, v)[k + 1] BY <1>2, <1>6, PagedCode
    <3> QED BY <1>3, <1>6, <3>1 DEF PageInsn
  <2>3. IsDev(d) /\ IsDev(d0) /\ r \in VmRegs /\ d.kind = d0.kind BY <1>3, <1>4
  <2>4. PageNext(h, pg, k, r, d, d0, k2, r2, d2) BY <1>1, <2>1, <2>2, <2>3, PageChanges
  <2>5. /\ k2 \in 0..6 /\ (k2 >= 4 <=> k >= 4) /\ r2 \in VmRegs /\ r2[0] = r[0]
        /\ IsDev(d2) /\ d2.kind = d0.kind /\ d2.cells = d.cells
        /\ IF On(h, d0)
             THEN /\ PageSelected(pg, k2, r2, d2, d0)
                  /\ ~IsPageReg(h, reg) => PageKept(pg, k2, d2, d0)
             ELSE d2 = d
    BY <1>4, <1>5, <2>4 DEF PageNext
  <2>6. ~(k2 >= 4) => Arg(r2, v) = w BY <1>4, <2>5 DEF Steady
  <2>7. WriteAt(h, reg, v, w, k2, r2, d2, d0) BY <1>2, <1>4, <2>5, <2>6, PagedWriteForm
  <2> QED BY <2>5, <2>7
<1>7. CASE k = 3
  <2>1. Does(INSN(WRITE, IMM(id), IMM(b), v), k, r, d, k2, r2, d2) BY <1>2, <1>3, <1>7, PagedCode
  <2>2. d.cells = d0.cells /\ Arg(r, v) = w BY <1>4, <1>7
  <2>3. k2 = k + 1 /\ r2 = r /\ d2 \in BusWrite(d, BusAddr(id), b, w) BY <1>2, <2>1, <2>2, DoesWrite
  <2>4. k2 = 4 /\ k2 \in 0..6 BY <1>7, <2>3
  <2>5. CASE ~On(h, d0)
    <3>1. Silent(d, BusAddr(id), b) BY <1>1, <1>3, <1>5, <2>5 DEF PagedTo
    <3>2. d2 = d BY <2>3, <3>1 DEF Silent
    <3>3. d2.cells = Stored(h, reg, w, d0) BY <2>2, <2>5, <3>2 DEF Stored
    <3>4. WriteAt(h, reg, v, w, k2, r2, d2, d0) BY <1>2, <1>4, <2>4, <2>5, <3>2, <3>3, PagedWriteForm
    <3> QED BY <1>3, <2>3, <3>2, <3>4
  <2>6. CASE On(h, d0)
    <3>0. On(h, d) BY <1>5, <2>6
    <3>1. d.sel = pg /\ r[1] = d0.sel BY <1>4, <1>7, <2>6 DEF PageSelected
    <3>2. PageSelected(pg, k2, r2, d2, d0) BY <2>3, <2>4, <3>1 DEF PageSelected
    <3>3. CASE b = pr
      <4>1. reg \notin DOMAIN d0.cells /\ d2 = [d EXCEPT !.sel = w]
        BY <1>1, <1>3, <2>3, <2>6, <3>0, <3>3 DEF PagedTo
      <4>2. IsDev(d2) /\ d2.kind = d.kind /\ d2.cells = d.cells BY <1>3, <4>1, DevSel
      <4>3. d2.cells = Stored(h, reg, w, d0) BY <2>2, <4>1, <4>2 DEF Stored
      <4>4. WriteAt(h, reg, v, w, k2, r2, d2, d0)
        BY <1>2, <1>4, <2>4, <2>6, <3>2, <3>3, <4>2, <4>3, PagedWriteForm
      <4> QED BY <1>3, <2>3, <4>2, <4>4
    <3>4. CASE b # pr
      <4>1. reg \in DOMAIN d.cells /\ d2 = Poke(d, reg, w)
        BY <1>1, <1>3, <2>3, <3>0, <3>1, <3>4 DEF PagedTo
      <4>2. /\ IsDev(d2) /\ d2.kind = d.kind /\ d2.cells = [d.cells EXCEPT ![reg] = w]
            /\ d2.sel = pg
        BY <1>3, <3>1, <4>1, DevPoke
      <4>3. d2.cells = Stored(h, reg, w, d0) BY <2>2, <2>6, <4>1, <4>2 DEF Stored
      <4>4. PageKept(pg, k2, d2, d0) BY <2>4, <4>2 DEF PageKept
      <4>5. WriteAt(h, reg, v, w, k2, r2, d2, d0)
        BY <1>2, <1>4, <2>4, <2>6, <3>2, <4>2, <4>3, <4>4, PagedWriteForm
      <4> QED BY <1>3, <2>3, <4>2, <4>5
    <3> QED BY <3>3, <3>4
  <2> QED BY <2>5, <2>6
<1>8. k \in {0, 1, 2, 4, 5} \/ k = 3 BY <1>3, <1>4
<1> QED BY <1>6, <1>7, <1>8

-------------------------------------------------------------------------------
(***************************************************************************)
(* mvls in multi-chip mode: a command is given, polled, and its data moved.*)
(***************************************************************************)

\* The assertions of this driver, without the cases of the others.
LEMMA MvlsReadForm ==
  ASSUME NEW reg, NEW k, NEW r, NEW d, NEW d0
  PROVE  ReadAt(Handle("mvls"), reg, k, r, d, d0) <=>
           /\ k \in 0..5 /\ d.kind = d0.kind /\ d.cells = d0.cells
           /\ IF On(Handle("mvls"), d0)
                THEN /\ k \in 1..4 => d.buf = d0.cells[reg]
                     /\ k \in {2, 3} => (d.busy => r[0] = 32768)
                     /\ k = 4 => ~d.busy
                ELSE Same(d, d0)
           /\ k >= 5 => r[0] = Shown(Handle("mvls"), reg, d0)
<1> DEFINE h == Handle("mvls")
           busy == k \in {2, 3} => (d.busy => r[0] = 32768)
<1>0. h.drv = "mvls" /\ h.id # 0 BY HandleDrvs, HandleIds
<1>1. ~Direct(h) BY <1>0 DEF Direct
<1> HIDE DEF h
<1>2. ReadLen(h) = 5 BY <1>0, <1>1 DEF ReadLen
<1>3. ReadDone(h, k) <=> k >= 5 BY <1>0, <1>2 DEF ReadDone
<1>4. Selected(h, reg, k, r, d, d0) BY <1>0, <1>1 DEF Selected
<1>5. ReadOn(h, reg, k, r, d, d0) <=>
        (k \in 1..4 => d.buf = d0.cells[reg]) /\ busy /\ (k = 4 => ~d.busy)
  BY <1>0, <1>4 DEF ReadOn
<1> HIDE DEF busy
<1>6. ReadAt(h, reg, k, r, d, d0) <=>
           /\ k \in 0..5 /\ d.kind = d0.kind /\ d.cells = d0.cells
           /\ IF On(h, d0)
                THEN (k \in 1..4 => d.buf = d0.cells[reg]) /\ busy /\ (k = 4 => ~d.busy)
                ELSE Same(d, d0)
           /\ k >= 5 => r[0] = Shown(h, reg, d0)
  BY <1>2, <1>3, <1>5 DEF ReadAt
<1> QED BY <1>6 DEF h, busy

\* The same of a write.
LEMMA MvlsWriteForm ==
  ASSUME NEW reg, NEW v, NEW w, NEW k, NEW r, NEW d, NEW d0
  PROVE  WriteAt(Handle("mvls"), reg, v, w, k, r, d, d0) <=>
           /\ k \in 0..5 /\ d.kind = d0.kind
           /\ d.cells = IF k >= 2 THEN Stored(Handle("mvls"), reg, w, d0) ELSE d0.cells
           /\ IF On(Handle("mvls"), d0) THEN k = 1 => d.buf = w ELSE Paged(d0) => d.sel = d0.sel
           /\ ~(k >= 2) /\ k = 0 => Arg(r, v) = w
<1> DEFINE h == Handle("mvls")
<1>0. h.drv = "mvls" /\ h.id # 0 BY HandleDrvs, HandleIds
<1>1. ~Direct(h) BY <1>0 DEF Direct
<1> HIDE DEF h
<1>2. WriteLen(h) = 5 BY <1>0, <1>1 DEF WriteLen
<1>3. WriteDone(h, k) <=> k >= 2 BY <1>0, <1>2 DEF WriteDone
<1>4. Selected(h, reg, k, r, d, d0) BY <1>0, <1>1 DEF Selected
<1>5. WriteOn(h, reg, w, k, r, d, d0) <=> (k = 1 => d.buf = w) BY <1>0, <1>4 DEF WriteOn
<1>6. WriteAt(h, reg, v, w, k, r, d, d0) <=>
           /\ k \in 0..5 /\ d.kind = d0.kind
           /\ d.cells = IF k >= 2 THEN Stored(h, reg, w, d0) ELSE d0.cells
           /\ IF On(h, d0) THEN k = 1 => d.buf = w ELSE Paged(d0) => d.sel = d0.sel
           /\ ~(k >= 2) /\ k = 0 => Arg(r, v) = w
  BY <1>0, <1>2, <1>3, <1>5 DEF WriteAt
<1> QED BY <1>6 DEF h

\* What a poll of the command register finds.
Polled(d, o) ==
  \/ o.val = 0 /\ o.dev = [d EXCEPT !.busy = FALSE]
  \/ d.busy /\ o.val = 32768 /\ o.dev = d

\* The commands that read and write a register, and what the switch, if it is there,
\* does with them.
MvlsDoes(d, reg, rc, wc) ==
  /\ reg \in DOMAIN d.cells /\ ~Paged(d)
  /\ \A v : BusWrite(d, <<6>>, 1, v) = {[d EXCEPT !.buf = v]}
  /\ BusWrite(d, <<6>>, 0, rc) = {[d EXCEPT !.buf = Peek(d, reg), !.busy = TRUE]}
  /\ BusWrite(d, <<6>>, 0, wc) = {[Poke(d, reg, d.buf) EXCEPT !.busy = TRUE]}
  /\ \A o \in BusRead(d, <<6>>, 0) : Polled(d, o)
  /\ ~d.busy => Sure(d, <<6>>, 1, d.buf)

ReadCmd(reg) == mvls_multi_cmd(MvlsPort(reg), reg % 65536, FALSE)
WriteCmd(reg) == mvls_multi_cmd(MvlsPort(reg), reg % 65536, TRUE)
MvlsTo(reg, rc, wc) ==
  /\ rc \in Word /\ wc \in Word /\ rc = ReadCmd(reg) /\ wc = WriteCmd(reg)
  /\ \A d : IsDev(d) =>
       IF On(Handle("mvls"), d) THEN MvlsDoes(d, reg, rc, wc)
       ELSE Silent(d, <<6>>, 0) /\ Silent(d, <<6>>, 1)

\* The commands of every register.
LEMMA MvlsCycle ==
  ASSUME NEW reg \in Registers("mvls")
  PROVE  \E rc, wc : MvlsTo(reg, rc, wc)
<1> DEFINE p == MvlsPort(reg)  b == reg % 65536
           rc == mvls_multi_cmd(p, b, FALSE)
           wc == mvls_multi_cmd(p, b, TRUE)
<1>1. reg \in Nat /\ reg \notin SelfClearing /\ p \in 0..31 /\ b \in 0..31
  BY RegistersAssumption DEF PortAndReg
<1>2. MVLS_REG(p, b) = reg BY <1>1, SMTT(10) DEF MVLS_REG, MvlsPort
<1> HIDE DEF p, b
<1>3. rc = 38912 + p * 32 + b /\ wc = 37888 + p * 32 + b
  BY <1>1, SMTT(10) DEF mvls_multi_cmd, MVLS_BUSY
<1> HIDE DEF rc, wc
<1>4. rc \in Word /\ wc \in Word BY <1>1, <1>3, WordIs, SMTT(10) DEF U16
<1>5. /\ (rc % 1024) \div 32 = p /\ rc % 32 = b /\ (rc % 4096) \div 1024 = 2
      /\ (wc % 1024) \div 32 = p /\ wc % 32 = b /\ (wc % 4096) \div 1024 = 1
  BY <1>1, <1>3, SMTT(20)
<1>6. ASSUME NEW d, IsDev(d), ~On(Handle("mvls"), d)
      PROVE  Silent(d, <<6>>, 0) /\ Silent(d, <<6>>, 1)
  <2>1. d.kind \in Kinds /\ d.kind # "mvls" BY <1>6, OnIs DEF IsDev, Kinds
  <2>2. 6 \in 0..31 /\ 6 \notin Listens(d.kind) /\ 0 \in 0..255 /\ 1 \in 0..255
    BY <2>1, SMTT(10) DEF Listens, Kinds
  <2>3. 0 \in Word /\ 1 \in Word BY <2>2, SmallWords
  <2> QED BY <1>6, <2>2, <2>3, Elsewhere22
<1>7. ASSUME NEW d, IsDev(d), On(Handle("mvls"), d)
      PROVE  MvlsDoes(d, reg, rc, wc)
  <2>1. d.kind = "mvls" BY <1>7, OnIs DEF IsDev, Kinds
  <2>2. reg \in DOMAIN d.cells /\ ~Paged(d) BY <1>7, <2>1 DEF IsDev, Paged
  <2>3. /\ \A x : BusRead(d, <<6>>, x) = MvlsRead(d, x)
        /\ \A x, v : BusWrite(d, <<6>>, x, v) = MvlsWrite(d, x, v)
    BY <2>1, AtMvls
  <2>4. \A v : MvlsWrite(d, 1, v) = {[d EXCEPT !.buf = v]}
    BY SMTT(10) DEF MvlsWrite, MVLS_DATA, MVLS_CMD
  <2>5. Settles(d, reg) = {d} BY <1>1 DEF Settles
  <2> DEFINE cell(x) == MVLS_REG((x % 1024) \div 32, x % 32)
             wr(x) == (x % 4096) \div 1024 = 1
             f(e, c) == [e EXCEPT !.buf = Peek(e, c), !.busy = TRUE]
             g(c) == [Poke(d, c, d.buf) EXCEPT !.busy = TRUE]
             idle == [d EXCEPT !.busy = FALSE]
             t == 32768
  <2>6. \A x : MvlsWrite(d, 0, x) =
                 IF wr(x) THEN {g(cell(x))} ELSE {f(e, cell(x)) : e \in Settles(d, cell(x))}
    <3> DEFINE one == 1
    <3>1. 0 # one OBVIOUS
    <3> HIDE DEF one
    <3> SUFFICES ASSUME NEW x
                 PROVE  MvlsWrite(d, 0, x) =
                          IF wr(x) THEN {g(cell(x))} ELSE {f(e, cell(x)) : e \in Settles(d, cell(x))}
      OBVIOUS
    <3>2. MvlsWrite(d, 0, x) =
            CASE 0 = one -> {[d EXCEPT !.buf = x]}
              [] 0 = 0 -> IF wr(x) THEN {g(cell(x))} ELSE {f(e, cell(x)) : e \in Settles(d, cell(x))}
              [] OTHER -> {d}
      BY DEF MvlsWrite, MVLS_DATA, MVLS_CMD, one
    <3> HIDE DEF wr, cell, f, g
    <3> QED BY <3>1, <3>2
  <2>7. cell(rc) = reg /\ cell(wc) = reg /\ ~wr(rc) /\ wr(wc) BY <1>2, <1>5
  <2>8. \A o \in MvlsRead(d, 0) : (o.val = 0 /\ o.dev = idle) \/ (d.busy /\ o.val = t /\ o.dev = d)
    <3>1. MvlsRead(d, 0) = {[val |-> 0, dev |-> idle]} \cup (IF d.busy THEN {[val |-> t, dev |-> d]} ELSE {})
      <4> DEFINE one == 1
      <4>1. 0 # one OBVIOUS
      <4> HIDE DEF one
      <4>2. MvlsRead(d, 0) =
              CASE 0 = 0 -> Reads(idle, 0) \cup (IF d.busy THEN Reads(d, t) ELSE {})
                [] 0 = one -> Reads(d, IF d.busy THEN 65535 ELSE d.buf)
                [] OTHER -> Reads(d, 65535)
        BY DEF MvlsRead, MVLS_DATA, MVLS_CMD, MVLS_BUSY, one
      <4> HIDE DEF idle, t
      <4>3. MvlsRead(d, 0) = Reads(idle, 0) \cup (IF d.busy THEN Reads(d, t) ELSE {}) BY <4>1, <4>2
      <4> QED BY <4>3 DEF Reads
    <3> HIDE DEF idle, t
    <3> QED BY <3>1
  <2>10. MvlsWrite(d, 0, rc) = {f(d, reg)} /\ MvlsWrite(d, 0, wc) = {g(reg)}
    <3> HIDE DEF f, g, cell, wr
    <3>1. MvlsWrite(d, 0, rc) = {f(e, reg) : e \in {d}} BY <2>5, <2>6, <2>7
    <3>2. MvlsWrite(d, 0, wc) = {g(reg)} BY <2>6, <2>7
    <3> QED BY <3>1, <3>2
  <2>9. ~d.busy => MvlsRead(d, 1) = {[val |-> d.buf, dev |-> d]}
    BY SMTT(10) DEF MvlsRead, MVLS_DATA, MVLS_CMD, Reads
  <2>11. \A v : BusWrite(d, <<6>>, 1, v) = {[d EXCEPT !.buf = v]} BY <2>3, <2>4
  <2>12. BusWrite(d, <<6>>, 0, rc) = {f(d, reg)} /\ BusWrite(d, <<6>>, 0, wc) = {g(reg)}
    <3> HIDE DEF f, g
    <3> QED BY <2>3, <2>10
  <2>13. \A o \in BusRead(d, <<6>>, 0) : Polled(d, o)
    <3>1. \A o \in BusRead(d, <<6>>, 0) : (o.val = 0 /\ o.dev = idle) \/ (d.busy /\ o.val = t /\ o.dev = d)
      <4> HIDE DEF idle, t
      <4> QED BY <2>3, <2>8
    <3> HIDE DEF idle, t
    <3>2. \A o : Polled(d, o) <=> (o.val = 0 /\ o.dev = idle) \/ (d.busy /\ o.val = t /\ o.dev = d)
      BY DEF Polled, idle, t
    <3> QED BY <3>1, <3>2
  <2>14. ~d.busy => Sure(d, <<6>>, 1, d.buf) BY <2>3, <2>9 DEF Sure
  <2> QED BY <2>2, <2>11, <2>12, <2>13, <2>14 DEF MvlsDoes
<1>8. MvlsTo(reg, rc, wc)
  <2>1. rc = ReadCmd(reg) /\ wc = WriteCmd(reg) BY DEF rc, wc, p, b, ReadCmd, WriteCmd
  <2> QED BY <1>4, <1>6, <1>7, <2>1 DEF MvlsTo
<1> QED BY <1>8

\* Masking the busy bit out of itself.
LEMMA BusyMasked == BitAnd(32768, 32768) = 32768
<1>1. /\ Bit(32768, 32768) /\ ~Bit(32768, 1) /\ ~Bit(32768, 2) /\ ~Bit(32768, 4) /\ ~Bit(32768, 8)
      /\ ~Bit(32768, 16) /\ ~Bit(32768, 32) /\ ~Bit(32768, 64) /\ ~Bit(32768, 128) /\ ~Bit(32768, 256)
      /\ ~Bit(32768, 512) /\ ~Bit(32768, 1024) /\ ~Bit(32768, 2048) /\ ~Bit(32768, 4096)
      /\ ~Bit(32768, 8192) /\ ~Bit(32768, 16384)
  BY SMTT(20) DEF Bit
<1> QED BY <1>1, SMTT(20) DEF BitAnd, SumBits

\* The poll of the command register: read, mask, and back while it is busy.
LEMMA Polling ==
  mvls_wait_cmd(6) =
    <<INSN(READ, IMM(6), IMM(0), REG(0))>>
      \o <<INSN(AND, REG(0), IMM(32768), REG(0)), INSN(JEQ, REG(0), IMM(32768), IMM(-3))>>
<1> DEFINE p == INSN(READ, IMM(6), IMM(0), REG(0))
           t == 32768
<1>1. 6 % 256 = 6 BY SMTT(10)
<1> HIDE DEF p
<1>2. Len(<<p>>) = 1 /\ 0 - (1 + 1) - 1 = -3 BY SMTT(10)
<1>3. GOTO(Len(<<p>>) + 1, 0) = IMM(-3) BY <1>2 DEF GOTO
<1>4. while_busy(<<p>>) = <<p>> \o <<INSN(AND, REG(0), IMM(t), REG(0)), INSN(JEQ, REG(0), IMM(t), IMM(-3))>>
  BY <1>3 DEF while_busy, MVLS_BUSY
<1>5. mvls_wait_cmd(6) = while_busy(<<p>>) BY <1>1 DEF mvls_wait_cmd, MVLS_CMD, p
<1> QED BY <1>4, <1>5 DEF p

PollRead == INSN(READ, IMM(6), IMM(0), REG(0))
PollMask == INSN(AND, REG(0), IMM(32768), REG(0))
PollAgain == INSN(JEQ, REG(0), IMM(32768), IMM(-3))

\* The instructions of a read.
LEMMA MvlsReadCode ==
  ASSUME NEW reg
  PROVE  LET F == driver_read(Handle("mvls"), reg)
         IN  /\ F[1] = INSN(WRITE, IMM(6), IMM(0), IMM(ReadCmd(reg)))
             /\ F[2] = PollRead /\ F[3] = PollMask /\ F[4] = PollAgain
             /\ F[5] = INSN(READ, IMM(6), IMM(1), REG(0)) /\ Len(F) = 5
<1> DEFINE h == Handle("mvls")
           F == driver_read(h, reg)
           i1 == INSN(WRITE, IMM(6), IMM(0), IMM(ReadCmd(reg)))
           i5 == INSN(READ, IMM(6), IMM(1), REG(0))
<1>1. h.drv = "mvls" /\ h.id = 6 /\ 6 # 0 BY HandleDrvs, HandleIds
<1>2. mvls_wait_cmd(6) = <<PollRead>> \o <<PollMask, PollAgain>> BY Polling DEF PollRead, PollMask, PollAgain
<1> HIDE DEF h
<1>3. F = mvls_read_to(h, reg, 0) BY <1>1 DEF driver_read, mvls_read
<1>4. F = <<i1>> \o mvls_wait_cmd(6) \o <<i5>>
  BY <1>1, <1>3 DEF mvls_read_to, ReadCmd, MVLS_CMD, MVLS_DATA
<1> HIDE DEF F, i1, i5
<1>6. F = <<i1>> \o (<<PollRead>> \o <<PollMask, PollAgain>>) \o <<i5>> BY <1>2, <1>4
<1>5. /\ F[1] = i1 /\ F[2] = PollRead /\ F[3] = PollMask /\ F[4] = PollAgain
      /\ F[5] = i5 /\ Len(F) = 5
  BY <1>6, SMTT(10)
<1> QED BY <1>5 DEF h, F, i1, i5

\* The instructions of a write.
LEMMA MvlsWriteCode ==
  ASSUME NEW reg, NEW v
  PROVE  LET G == driver_write(Handle("mvls"), reg, v)
         IN  /\ G[1] = INSN(WRITE, IMM(6), IMM(1), v)
             /\ G[2] = INSN(WRITE, IMM(6), IMM(0), IMM(WriteCmd(reg)))
             /\ G[3] = PollRead /\ G[4] = PollMask /\ G[5] = PollAgain /\ Len(G) = 5
<1> DEFINE h == Handle("mvls")
           G == driver_write(h, reg, v)
           i1 == INSN(WRITE, IMM(6), IMM(1), v)
           i2 == INSN(WRITE, IMM(6), IMM(0), IMM(WriteCmd(reg)))
<1>1. h.drv = "mvls" /\ h.id = 6 /\ 6 # 0 BY HandleDrvs, HandleIds
<1>2. mvls_wait_cmd(6) = <<PollRead>> \o <<PollMask, PollAgain>> BY Polling DEF PollRead, PollMask, PollAgain
<1> HIDE DEF h
<1>3. G = mvls_write(h, reg, v) BY <1>1 DEF driver_write
<1>4. G = <<i1, i2>> \o mvls_wait_cmd(6)
  BY <1>1, <1>3 DEF mvls_write, WriteCmd, MVLS_CMD, MVLS_DATA
<1> HIDE DEF G, i1, i2
<1>6. G = <<i1, i2>> \o (<<PollRead>> \o <<PollMask, PollAgain>>) BY <1>2, <1>4
<1>5. /\ G[1] = i1 /\ G[2] = i2 /\ G[3] = PollRead /\ G[4] = PollMask /\ G[5] = PollAgain
      /\ Len(G) = 5
  BY <1>6, SMTT(10)
<1> QED BY <1>5 DEF h, G, i1, i2

\* Position j of the poll: before it is read, masked and tested.
PollInsn(j, i) == (j = 0 /\ i = PollRead) \/ (j = 1 /\ i = PollMask) \/ (j = 2 /\ i = PollAgain)
Waits(j, r, d) == j \in {1, 2} => (d.busy => r[0] = 32768)
PollNext(j, k, r, d, k2, r2, d2) ==
  /\ k2 = k + 1 \/ (j = 2 /\ k2 = k - 2)
  /\ r2 \in VmRegs /\ IsDev(d2) /\ d2.kind = d.kind /\ d2.cells = d.cells
  /\ IF On(Handle("mvls"), d)
       THEN /\ d2.buf = d.buf
            /\ Waits(j, r, d) /\ k2 = k + 1 => (IF j = 2 THEN ~d2.busy ELSE d2.busy => r2[0] = 32768)
       ELSE d2 = d

\* The poll goes on until the switch is no longer busy.
LEMMA Polls ==
  ASSUME NEW reg, NEW rc, NEW wc, MvlsTo(reg, rc, wc), NEW j, NEW i, PollInsn(j, i),
         NEW k \in Int, NEW r \in VmRegs, NEW d, IsDev(d), NEW k2, NEW r2, NEW d2,
         Does(i, k, r, d, k2, r2, d2)
  PROVE  PollNext(j, k, r, d, k2, r2, d2)
<1> DEFINE h == Handle("mvls")  t == 32768
<1>0. 6 \in Word /\ 0 \in Word /\ t \in Word /\ 0 \in 0..7 /\ BusAddr(6) = <<6>>
  BY SmallWords, BusAddrs, SMTT(10)
<1>1. /\ On(h, d) => \A o \in BusRead(d, <<6>>, 0) : Polled(d, o)
      /\ ~On(h, d) => Silent(d, <<6>>, 0)
  BY DEF MvlsTo, MvlsDoes
<1> HIDE DEF h
<1>2. CASE j = 0
  <2>1. Does(INSN(READ, IMM(6), IMM(0), REG(0)), k, r, d, k2, r2, d2)
    BY <1>2 DEF PollInsn, PollRead
  <2>2. CASE ~On(h, d)
    <3>1. Silent(d, BusAddr(6), 0) BY <1>0, <1>1, <2>2
    <3>2. k2 = k + 1 /\ r2 \in VmRegs /\ d2 = d BY <1>0, <2>1, <3>1, SilentRead
    <3> QED BY <2>2, <3>2 DEF PollNext, h
  <2>3. CASE On(h, d)
    <3>1. PICK o \in BusRead(d, <<6>>, 0) : r2[0] = o.val /\ o.val \in Word /\ d2 = o.dev
      BY <1>0, <2>1, DoesRead
    <3>2. k2 = k + 1 /\ r2 \in VmRegs BY <1>0, <2>1, DoesRead
    <3>3. Polled(d, o) BY <1>1, <2>3, <3>1
    <3>4. CASE d.busy /\ o.val = t /\ o.dev = d
      BY <1>2, <2>3, <3>1, <3>2, <3>4 DEF PollNext, h, t
    <3>5. CASE o.dev = [d EXCEPT !.busy = FALSE]
      <4> DEFINE f == FALSE
      <4>1. f \in BOOLEAN /\ ~f OBVIOUS
      <4>2. d2 = [d EXCEPT !.busy = f] BY <3>1, <3>5
      <4> HIDE DEF f
      <4>3. IsDev(d2) /\ d2.kind = d.kind /\ d2.cells = d.cells /\ d2.buf = d.buf /\ d2.busy = f
        BY <4>1, <4>2, DevBusy
      <4>4. ~d2.busy BY <4>1, <4>3
      <4> QED BY <1>2, <2>3, <3>2, <4>3, <4>4 DEF PollNext, h
    <3> QED BY <3>3, <3>4, <3>5 DEF Polled, t
  <2> QED BY <2>2, <2>3
<1>3. CASE j = 1
  <2>1. Does(INSN(AND, REG(0), IMM(t), REG(0)), k, r, d, k2, r2, d2)
    <3>1. i = PollMask BY <1>3 DEF PollInsn
    <3> QED BY <3>1 DEF PollMask
  <2> HIDE DEF t
  <2>2. k2 = k + 1 /\ d2 = d /\ r2 \in VmRegs /\ r2[0] = BitAnd(r[0], t)
    BY <1>0, <2>1, DoesLogic
  <2>3. Waits(j, r, d) /\ d2.busy => r2[0] = t
    <3>1. Waits(j, r, d) /\ d.busy => r[0] = t BY <1>3 DEF Waits, t
    <3>2. BitAnd(t, t) = t BY BusyMasked DEF t
    <3> QED BY <2>2, <3>1, <3>2
  <2> QED BY <1>3, <2>2, <2>3 DEF PollNext, h, t
<1>4. CASE j = 2
  <2>1. Does(INSN(JEQ, REG(0), IMM(t), IMM(-3)), k, r, d, k2, r2, d2)
    <3>1. i = PollAgain BY <1>4 DEF PollInsn
    <3> QED BY <3>1 DEF PollAgain
  <2> HIDE DEF t
  <2>2. r2 = r /\ d2 = d /\ k2 = IF r[0] = t THEN k + (-3) + 1 ELSE k + 1
    BY <1>0, <2>1, Displacements, DoesJeq
  <2>3. k2 = IF r[0] = t THEN k - 2 ELSE k + 1 BY <2>2
  <2>4. Waits(j, r, d) /\ k2 = k + 1 => ~d.busy
    <3>1. Waits(j, r, d) /\ d.busy => r[0] = t BY <1>4 DEF Waits, t
    <3> QED BY <2>3, <3>1
  <2> QED BY <1>4, <2>2, <2>3, <2>4 DEF PollNext, h
<1> QED BY <1>2, <1>3, <1>4 DEF PollInsn

\* Each instruction of a read leads to the assertion behind it.
LEMMA MvlsReads ==
  ASSUME NEW reg \in Registers("mvls") PROVE ReadSteps(Handle("mvls"), reg)
<1> DEFINE h == Handle("mvls")  t == 32768
<1> SUFFICES ASSUME NEW k, NEW r, NEW d, NEW d0, NEW k2, NEW r2, NEW d2,
                    ReadStep(h, reg, k, r, d, d0, k2, r2, d2)
             PROVE  ReadAt(h, reg, k2, r2, d2, d0) /\ IsDev(d2) /\ r2 \in VmRegs
  BY DEF ReadSteps
<1>1. PICK rc, wc : MvlsTo(reg, rc, wc) BY MvlsCycle
<1>2. h.drv = "mvls" /\ h.id # 0 BY HandleDrvs, HandleIds
<1>3. /\ k \in 0..5 /\ d.kind = d0.kind /\ d.cells = d0.cells
      /\ IF On(h, d0)
           THEN /\ k \in 1..4 => d.buf = d0.cells[reg]
                /\ k \in {2, 3} => (d.busy => r[0] = t)
                /\ k = 4 => ~d.busy
           ELSE Same(d, d0)
  BY MvlsReadForm DEF ReadStep
<1>4. \A k3, r3, d3 :
        ReadAt(h, reg, k3, r3, d3, d0) <=>
           /\ k3 \in 0..5 /\ d3.kind = d0.kind /\ d3.cells = d0.cells
           /\ IF On(h, d0)
                THEN /\ k3 \in 1..4 => d3.buf = d0.cells[reg]
                     /\ k3 \in {2, 3} => (d3.busy => r3[0] = t)
                     /\ k3 = 4 => ~d3.busy
                ELSE Same(d3, d0)
           /\ k3 >= 5 => r3[0] = Shown(h, reg, d0)
  BY MvlsReadForm
<1>5. /\ driver_read(h, reg)[1] = INSN(WRITE, IMM(6), IMM(0), IMM(rc))
      /\ driver_read(h, reg)[2] = PollRead /\ driver_read(h, reg)[3] = PollMask
      /\ driver_read(h, reg)[4] = PollAgain
      /\ driver_read(h, reg)[5] = INSN(READ, IMM(6), IMM(1), REG(0))
  BY <1>1, MvlsReadCode DEF MvlsTo
<1> HIDE DEF h, t
<1>6. /\ IsDev(d) /\ IsDev(d0) /\ r \in VmRegs /\ k < 5
      /\ Does(driver_read(h, reg)[k + 1], k, r, d, k2, r2, d2)
  BY <1>2 DEF ReadStep, ReadLen, Direct
<1>7. On(h, d) <=> On(h, d0) BY <1>3 DEF On
<1>8. /\ On(h, d) => MvlsDoes(d, reg, rc, wc)
      /\ ~On(h, d) => Silent(d, <<6>>, 0) /\ Silent(d, <<6>>, 1)
      /\ rc \in Word
  BY <1>1, <1>6 DEF MvlsTo, h
<1>9. 6 \in Word /\ 0 \in Word /\ 1 \in Word /\ BusAddr(6) = <<6>> /\ 0 \in 0..7
  BY SmallWords, BusAddrs, SMTT(10)
<1>10. CASE k = 0
  <2>1. Does(INSN(WRITE, IMM(6), IMM(0), IMM(rc)), k, r, d, k2, r2, d2) BY <1>5, <1>6, <1>10
  <2>2. k2 = k + 1 /\ r2 = r /\ d2 \in BusWrite(d, <<6>>, 0, rc)
    BY <1>8, <1>9, <2>1, DoesWrite, ImmArg
  <2>3. k2 = 1 BY <1>10, <2>2
  <2>4. CASE On(h, d)
    <3> DEFINE w == Peek(d, reg)  y == TRUE  e == [d EXCEPT !.buf = w]
    <3>1. d2 = [d EXCEPT !.buf = w, !.busy = TRUE] BY <1>8, <2>2, <2>4 DEF MvlsDoes
    <3>2. w \in Word /\ y \in BOOLEAN BY <1>6, PeekWord
    <3>3. w = d0.cells[reg] BY <1>3, <1>8, <2>4 DEF MvlsDoes, Peek
    <3>4. d2 = [e EXCEPT !.busy = y] BY <3>1
    <3> HIDE DEF w, y, e
    <3>5. IsDev(e) /\ e.kind = d.kind /\ e.cells = d.cells /\ e.buf = w BY <1>6, <3>2, DevBuf DEF e
    <3>6. IsDev(d2) /\ d2.kind = d.kind /\ d2.cells = d.cells /\ d2.buf = w
      BY <3>2, <3>4, <3>5, DevBusy
    <3>7. ReadAt(h, reg, k2, r2, d2, d0) BY <1>3, <1>4, <1>7, <2>3, <2>4, <3>3, <3>6
    <3> QED BY <1>6, <2>2, <3>6, <3>7
  <2>5. CASE ~On(h, d)
    <3>1. d2 = d BY <1>8, <2>2, <2>5 DEF Silent
    <3>2. ReadAt(h, reg, k2, r2, d2, d0) BY <1>3, <1>4, <1>7, <2>3, <2>5, <3>1
    <3> QED BY <1>6, <2>2, <3>1, <3>2
  <2> QED BY <2>4, <2>5
<1>11. CASE k \in 1..3
  <2> DEFINE j == k - 1
  <2>1. j \in {0, 1, 2} /\ k \in Int BY <1>11
  <2>2. PICK i : PollInsn(j, i) /\ Does(i, k, r, d, k2, r2, d2)
    <3>1. k = 1 \/ k = 2 \/ k = 3 BY <1>11
    <3> QED BY <1>5, <1>6, <3>1 DEF PollInsn
  <2>3. On(h, d) => Waits(j, r, d) BY <1>3, <1>7, <1>11 DEF Waits, t
  <2> HIDE DEF j
  <2>4. PollNext(j, k, r, d, k2, r2, d2) BY <1>1, <1>6, <2>1, <2>2, Polls
  <2>5. /\ k2 \in 1..4 /\ (k2 \in {2, 3} => k2 = k + 1 /\ j # 2) /\ (k2 = 4 => k2 = k + 1 /\ j = 2)
    BY <1>11, <2>1, <2>4 DEF PollNext, j
  <2>6. ReadAt(h, reg, k2, r2, d2, d0)
    <3>1. k2 \in 0..5 /\ ~(k2 >= 5) BY <2>5
    <3>2. CASE On(h, d)
      <4>1. d2.buf = d0.cells[reg] BY <1>3, <1>7, <1>11, <2>4, <3>2 DEF PollNext, h
      <4>2. k2 \in {2, 3} => (d2.busy => r2[0] = t) BY <2>3, <2>4, <2>5, <3>2 DEF PollNext, h, t
      <4>3. k2 = 4 => ~d2.busy BY <2>3, <2>4, <2>5, <3>2 DEF PollNext, h
      <4>4. d2.kind = d0.kind /\ d2.cells = d0.cells BY <1>3, <2>4 DEF PollNext
      <4> QED BY <1>4, <1>7, <3>1, <3>2, <4>1, <4>2, <4>3, <4>4
    <3>3. CASE ~On(h, d)
      <4>1. d2 = d BY <2>4, <3>3 DEF PollNext, h
      <4> QED BY <1>3, <1>4, <1>7, <3>1, <3>3, <4>1
    <3> QED BY <3>2, <3>3
  <2> QED BY <2>4, <2>6 DEF PollNext
<1>12. CASE k = 4
  <2>1. Does(INSN(READ, IMM(6), IMM(1), REG(0)), k, r, d, k2, r2, d2) BY <1>5, <1>6, <1>12
  <2>2. k2 = k + 1 /\ r2 \in VmRegs /\ d2 = d /\ r2[0] = Shown(h, reg, d0)
    <3>1. CASE On(h, d)
      <4>1. Sure(d, BusAddr(6), 1, d.buf) BY <1>3, <1>7, <1>8, <1>9, <1>12, <3>1 DEF MvlsDoes
      <4>2. k2 = k + 1 /\ r2 \in VmRegs /\ d2 = d /\ r2[0] = d.buf
        BY <1>6, <1>9, <2>1, <4>1, SureRead
      <4>3. reg \in DOMAIN d0.cells BY <1>3, <1>8, <3>1 DEF MvlsDoes
      <4>4. d.buf = d0.cells[reg] BY <1>3, <1>7, <1>12, <3>1
      <4> QED BY <1>7, <3>1, <4>2, <4>3, <4>4 DEF Shown
    <3>2. CASE ~On(h, d)
      <4>1. Silent(d, BusAddr(6), 1) BY <1>8, <1>9, <3>2
      <4>2. k2 = k + 1 /\ r2 \in VmRegs /\ d2 = d /\ r2[0] = 65535
        BY <1>6, <1>9, <2>1, <4>1, SilentRead
      <4> QED BY <1>7, <3>2, <4>2 DEF Shown
    <3> QED BY <3>1, <3>2
  <2>3. k2 = 5 BY <1>12, <2>2
  <2>4. ReadAt(h, reg, k2, r2, d2, d0) BY <1>3, <1>4, <2>2, <2>3
  <2> QED BY <1>6, <2>2, <2>4
<1>13. k = 0 \/ k \in 1..3 \/ k = 4 BY <1>3, <1>6
<1> QED BY <1>10, <1>11, <1>12, <1>13

\* Each instruction of a write leads to the assertion behind it.
LEMMA MvlsWrites ==
  ASSUME NEW reg \in Registers("mvls"), NEW v, NEW w \in Word
  PROVE  WriteSteps(Handle("mvls"), reg, v, w)
<1> DEFINE h == Handle("mvls")
<1> SUFFICES ASSUME NEW k, NEW r, NEW d, NEW d0, NEW k2, NEW r2, NEW d2,
                    WriteStep(h, reg, v, w, k, r, d, d0, k2, r2, d2)
             PROVE  WriteAt(h, reg, v, w, k2, r2, d2, d0) /\ IsDev(d2) /\ r2 \in VmRegs
  BY DEF WriteSteps
<1>1. PICK rc, wc : MvlsTo(reg, rc, wc) BY MvlsCycle
<1>2. h.drv = "mvls" /\ h.id # 0 BY HandleDrvs, HandleIds
<1>3. /\ k \in 0..5 /\ d.kind = d0.kind
      /\ d.cells = IF k >= 2 THEN Stored(h, reg, w, d0) ELSE d0.cells
      /\ IF On(h, d0) THEN k = 1 => d.buf = w ELSE Paged(d0) => d.sel = d0.sel
      /\ ~(k >= 2) /\ k = 0 => Arg(r, v) = w
  BY MvlsWriteForm DEF WriteStep
<1>4. \A k3, r3, d3 :
        WriteAt(h, reg, v, w, k3, r3, d3, d0) <=>
           /\ k3 \in 0..5 /\ d3.kind = d0.kind
           /\ d3.cells = IF k3 >= 2 THEN Stored(h, reg, w, d0) ELSE d0.cells
           /\ IF On(h, d0) THEN k3 = 1 => d3.buf = w ELSE Paged(d0) => d3.sel = d0.sel
           /\ ~(k3 >= 2) /\ k3 = 0 => Arg(r3, v) = w
  BY MvlsWriteForm
<1>5. /\ driver_write(h, reg, v)[1] = INSN(WRITE, IMM(6), IMM(1), v)
      /\ driver_write(h, reg, v)[2] = INSN(WRITE, IMM(6), IMM(0), IMM(wc))
      /\ driver_write(h, reg, v)[3] = PollRead /\ driver_write(h, reg, v)[4] = PollMask
      /\ driver_write(h, reg, v)[5] = PollAgain
  BY <1>1, MvlsWriteCode DEF MvlsTo
<1> HIDE DEF h
<1>6. /\ IsDev(d) /\ IsDev(d0) /\ r \in VmRegs /\ k < 5
      /\ Does(driver_write(h, reg, v)[k + 1], k, r, d, k2, r2, d2)
  BY <1>2 DEF WriteStep, WriteLen, Direct
<1>7. On(h, d) <=> On(h, d0) BY <1>3 DEF On
<1>8. /\ On(h, d) => MvlsDoes(d, reg, rc, wc)
      /\ ~On(h, d) => Silent(d, <<6>>, 0) /\ Silent(d, <<6>>, 1)
      /\ wc \in Word
  BY <1>1, <1>6 DEF MvlsTo, h
<1>9. 6 \in Word /\ 0 \in Word /\ 1 \in Word /\ BusAddr(6) = <<6>> /\ 0 \in 0..7
  BY SmallWords, BusAddrs, SMTT(10)
<1>10. CASE k = 0
  <2>1. Does(INSN(WRITE, IMM(6), IMM(1), v), k, r, d, k2, r2, d2) BY <1>5, <1>6, <1>10
  <2>2. ~(k >= 2) /\ Arg(r, v) = w /\ d.cells = d0.cells BY <1>3, <1>10
  <2>3. k2 = k + 1 /\ r2 = r /\ d2 \in BusWrite(d, <<6>>, 1, w)
    BY <1>9, <2>1, <2>2, DoesWrite
  <2>4. k2 = 1 BY <1>10, <2>3
  <2>5. CASE On(h, d)
    <3>1. d2 = [d EXCEPT !.buf = w] BY <1>8, <2>3, <2>5 DEF MvlsDoes
    <3>2. IsDev(d2) /\ d2.kind = d.kind /\ d2.cells = d.cells /\ d2.buf = w BY <1>6, <3>1, DevBuf
    <3>3. WriteAt(h, reg, v, w, k2, r2, d2, d0) BY <1>3, <1>4, <1>7, <2>2, <2>4, <2>5, <3>2
    <3> QED BY <1>6, <2>3, <3>2, <3>3
  <2>6. CASE ~On(h, d)
    <3>1. d2 = d BY <1>8, <2>3, <2>6 DEF Silent
    <3>2. WriteAt(h, reg, v, w, k2, r2, d2, d0) BY <1>3, <1>4, <1>7, <2>2, <2>4, <2>6, <3>1
    <3> QED BY <1>6, <2>3, <3>1, <3>2
  <2> QED BY <2>5, <2>6
<1>11. CASE k = 1
  <2>1. Does(INSN(WRITE, IMM(6), IMM(0), IMM(wc)), k, r, d, k2, r2, d2) BY <1>5, <1>6, <1>11
  <2>2. k2 = k + 1 /\ r2 = r /\ d2 \in BusWrite(d, <<6>>, 0, wc)
    BY <1>8, <1>9, <2>1, DoesWrite, ImmArg
  <2>3. k2 = 2 /\ d.cells = d0.cells BY <1>3, <1>11, <2>2
  <2>4. CASE On(h, d)
    <3> DEFINE y == TRUE  e == Poke(d, reg, w)
    <3>0. d.buf = w BY <1>3, <1>7, <1>11, <2>4
    <3>1. d2 = [e EXCEPT !.busy = y] /\ reg \in DOMAIN d.cells BY <1>8, <2>2, <2>4, <3>0 DEF MvlsDoes
    <3>2. y \in BOOLEAN OBVIOUS
    <3>3. IsDev(e) /\ e.kind = d.kind /\ e.cells = [d.cells EXCEPT ![reg] = w]
      BY <1>6, <3>1, DevPoke
    <3> HIDE DEF y, e
    <3>4. IsDev(d2) /\ d2.kind = d.kind /\ d2.cells = [d.cells EXCEPT ![reg] = w]
      BY <3>1, <3>2, <3>3, DevBusy
    <3>5. d2.cells = Stored(h, reg, w, d0) BY <1>7, <2>3, <2>4, <3>1, <3>4 DEF Stored
    <3>6. WriteAt(h, reg, v, w, k2, r2, d2, d0) BY <1>3, <1>4, <1>7, <2>3, <2>4, <3>4, <3>5
    <3> QED BY <1>6, <2>2, <3>4, <3>6
  <2>5. CASE ~On(h, d)
    <3>1. d2 = d BY <1>8, <2>2, <2>5 DEF Silent
    <3>2. d2.cells = Stored(h, reg, w, d0) BY <1>7, <2>3, <2>5, <3>1 DEF Stored
    <3>3. WriteAt(h, reg, v, w, k2, r2, d2, d0) BY <1>3, <1>4, <1>7, <2>3, <2>5, <3>1, <3>2
    <3> QED BY <1>6, <2>2, <3>1, <3>3
  <2> QED BY <2>4, <2>5
<1>12. CASE k \in 2..4
  <2> DEFINE j == k - 2
  <2>1. j \in {0, 1, 2} /\ k \in Int /\ k >= 2 BY <1>12
  <2>2. PICK i : PollInsn(j, i) /\ Does(i, k, r, d, k2, r2, d2)
    <3>1. k = 2 \/ k = 3 \/ k = 4 BY <1>12
    <3> QED BY <1>5, <1>6, <3>1 DEF PollInsn
  <2> HIDE DEF j
  <2>3. PollNext(j, k, r, d, k2, r2, d2) BY <1>1, <1>6, <2>1, <2>2, Polls
  <2>4. k2 \in 0..5 /\ k2 >= 2 BY <1>12, <2>1, <2>3 DEF PollNext, j
  <2>5. d2.kind = d0.kind /\ d2.cells = Stored(h, reg, w, d0) /\ (~On(h, d) => d2 = d)
    BY <1>3, <2>1, <2>3 DEF PollNext, h
  <2>6. WriteAt(h, reg, v, w, k2, r2, d2, d0) BY <1>3, <1>4, <1>7, <2>4, <2>5
  <2> QED BY <2>3, <2>6 DEF PollNext
<1>13. k = 0 \/ k = 1 \/ k \in 2..4 BY <1>3, <1>6
<1> QED BY <1>10, <1>11, <1>12, <1>13

-------------------------------------------------------------------------------
(***************************************************************************)
(* xrs: two address registers and a data register.                         *)
(***************************************************************************)
Upper(reg) == reg \div 65536
Lower(reg) == reg % 65536
XrsSelected(k, reg, d) == (k \in {1, 2} => d.sel = Upper(reg)) /\ (k = 2 => d.adr = Lower(reg))
XrsPrepared(k, reg, w, d) == (k \in {1, 2} => d.buf = w) /\ (k = 2 => d.sel = Upper(reg))

\* The assertions of this driver, without the cases of the others.
LEMMA XrsReadForm ==
  ASSUME NEW reg, NEW k, NEW r, NEW d, NEW d0
  PROVE  ReadAt(Handle("xrs"), reg, k, r, d, d0) <=>
           /\ k \in 0..3 /\ d.kind = d0.kind /\ d.cells = d0.cells
           /\ IF On(Handle("xrs"), d0) THEN XrsSelected(k, reg, d) ELSE Same(d, d0)
           /\ k >= 3 => r[0] = Shown(Handle("xrs"), reg, d0)
<1> DEFINE h == Handle("xrs")
<1>0. h.drv = "xrs" /\ ~Direct(h) BY HandleDrvs DEF Direct
<1> HIDE DEF h
<1>1. ReadLen(h) = 3 BY <1>0 DEF ReadLen
<1>2. ReadDone(h, k) <=> k >= 3 BY <1>0, <1>1 DEF ReadDone
<1>3. Selected(h, reg, k, r, d, d0) BY <1>0 DEF Selected
<1>4. ReadOn(h, reg, k, r, d, d0) <=> XrsSelected(k, reg, d)
  <2>1. ReadOn(h, reg, k, r, d, d0) <=>
          (k \in {1, 2} => d.sel = Upper(reg)) /\ (k = 2 => d.adr = Lower(reg))
    BY <1>0, <1>3, SMTT(10) DEF ReadOn, Upper, Lower
  <2> QED BY <2>1 DEF XrsSelected
<1>5. ReadAt(h, reg, k, r, d, d0) <=>
           /\ k \in 0..3 /\ d.kind = d0.kind /\ d.cells = d0.cells
           /\ IF On(h, d0) THEN XrsSelected(k, reg, d) ELSE Same(d, d0)
           /\ k >= 3 => r[0] = Shown(h, reg, d0)
  BY <1>1, <1>2, <1>4 DEF ReadAt
<1> QED BY <1>5 DEF h

\* The same of a write.
LEMMA XrsWriteForm ==
  ASSUME NEW reg, NEW v, NEW w, NEW k, NEW r, NEW d, NEW d0
  PROVE  WriteAt(Handle("xrs"), reg, v, w, k, r, d, d0) <=>
           /\ k \in 0..3 /\ d.kind = d0.kind
           /\ d.cells = IF k >= 3 THEN Stored(Handle("xrs"), reg, w, d0) ELSE d0.cells
           /\ IF On(Handle("xrs"), d0) THEN XrsPrepared(k, reg, w, d) ELSE Paged(d0) => d.sel = d0.sel
           /\ ~(k >= 3) /\ k = 0 => Arg(r, v) = w
<1> DEFINE h == Handle("xrs")
<1>0. h.drv = "xrs" /\ ~Direct(h) BY HandleDrvs DEF Direct
<1> HIDE DEF h
<1>1. WriteLen(h) = 3 BY <1>0 DEF WriteLen
<1>2. WriteDone(h, k) <=> k >= 3 BY <1>0, <1>1 DEF WriteDone
<1>3. Selected(h, reg, k, r, d, d0) BY <1>0 DEF Selected
<1>4. WriteOn(h, reg, w, k, r, d, d0) <=> XrsPrepared(k, reg, w, d)
  <2>1. WriteOn(h, reg, w, k, r, d, d0) <=>
          (k \in {1, 2} => d.buf = w) /\ (k = 2 => d.sel = Upper(reg))
    BY <1>0, <1>3, SMTT(10) DEF WriteOn, Upper
  <2> QED BY <2>1 DEF XrsPrepared
<1>5. WriteAt(h, reg, v, w, k, r, d, d0) <=>
           /\ k \in 0..3 /\ d.kind = d0.kind
           /\ d.cells = IF k >= 3 THEN Stored(h, reg, w, d0) ELSE d0.cells
           /\ IF On(h, d0) THEN XrsPrepared(k, reg, w, d) ELSE Paged(d0) => d.sel = d0.sel
           /\ ~(k >= 3) /\ k = 0 => Arg(r, v) = w
  BY <1>0, <1>1, <1>2, <1>4 DEF WriteAt
<1> QED BY <1>5 DEF h

\* What the device, if it is there, does with the cycles of a read and a write.
XrsDoes(d, reg) ==
  /\ reg \in DOMAIN d.cells /\ ~Paged(d)
  /\ BusWrite(d, <<8>>, 17, Upper(reg)) = {[d EXCEPT !.sel = Upper(reg)]}
  /\ BusWrite(d, <<8>>, 16, Lower(reg)) = {[d EXCEPT !.adr = Lower(reg)]}
  /\ \A v : BusWrite(d, <<8>>, 20, v) = {[d EXCEPT !.buf = v]}
  /\ d.sel = Upper(reg) =>
       BusWrite(d, <<8>>, 16, Lower(reg) + 1) = {Poke([d EXCEPT !.adr = Lower(reg)], reg, d.buf)}
  /\ d.sel = Upper(reg) /\ d.adr = Lower(reg) => Sure(d, <<8>>, 20, Peek(d, reg))

\* The lower half of an even number is even.
LEMMA EvenHalf ==
  ASSUME NEW n \in Nat, n % 2 = 0
  PROVE  /\ n % 65536 \in Int /\ 0 <= n % 65536 /\ n % 65536 < 65535
         /\ (n % 65536) % 2 = 0 /\ ((n % 65536) + 1) % 2 = 1
<1>1. n % 65536 \in Int /\ 0 <= n % 65536 /\ n % 65536 < 65535 BY SMTT(10)
<1>2. (n % 65536) % 2 = 0 BY SMTT(10)
<1>3. ((n % 65536) + 1) % 2 = 1 BY SMTT(10)
<1> QED BY <1>1, <1>2, <1>3, SMTT(10)

\* The numbers of a register.
LEMMA XrsNumbers ==
  ASSUME NEW reg \in Registers("xrs")
  PROVE  /\ reg \in Nat /\ Upper(reg) \in Word /\ Lower(reg) \in Word /\ Lower(reg) + 1 \in Word
         /\ Even(reg) = Lower(reg) /\ Lower(reg) % 2 = 0 /\ (Lower(reg) + 1) % 2 = 1
         /\ Upper(reg) * 65536 + Lower(reg) = reg
         /\ Upper(reg) * 65536 + (Lower(reg) + 1) - 1 = reg
<1>1. reg \in Nat /\ reg \div 65536 \in Word /\ reg % 2 = 0 BY RegistersAssumption
<1>2. Upper(reg) * 65536 + Lower(reg) = reg BY <1>1, Halves DEF Upper, Lower
<1> DEFINE u == Upper(reg)  l == Lower(reg)
<1>3. /\ l \in Int /\ 0 <= l /\ l < 65535 /\ l % 2 = 0 /\ (l + 1) % 2 = 1
  BY <1>1, EvenHalf, SMTT(10) DEF Lower
<1>4. Even(reg) = l
  <2>1. Even(reg) = l - 0 BY <1>1 DEF Even, Lower
  <2> HIDE DEF l
  <2> QED BY <1>3, <2>1, SMTT(10)
<1>5. u \in Nat /\ u \in Word BY <1>1, WordIs, SMTT(10) DEF Upper
<1>6. u * 65536 + l = reg BY <1>2
<1> HIDE DEF u, l
<1>7. l \in Word /\ l + 1 \in Word BY <1>3, WordIs, SMTT(10) DEF U16
<1>8. u * 65536 + (l + 1) - 1 = u * 65536 + l BY <1>3, <1>5, SMTT(10)
<1>9. u * 65536 + (l + 1) - 1 = reg BY <1>6, <1>8
<1> QED BY <1>1, <1>3, <1>4, <1>5, <1>6, <1>7, <1>9 DEF u, l

\* It is there, or nobody answers.
LEMMA XrsCycle ==
  ASSUME NEW reg \in Registers("xrs"), NEW d, IsDev(d)
  PROVE  IF On(Handle("xrs"), d) THEN XrsDoes(d, reg)
         ELSE Silent(d, <<8>>, 16) /\ Silent(d, <<8>>, 17) /\ Silent(d, <<8>>, 20)
<1>1. CASE ~On(Handle("xrs"), d)
  <2>1. d.kind \in Kinds /\ d.kind # "xrs" BY <1>1, OnIs DEF IsDev, Kinds
  <2>2. 8 \in 0..31 /\ 8 \notin Listens(d.kind) BY <2>1, SMTT(10) DEF Listens, Kinds
  <2>3. 16 \in Word /\ 17 \in Word /\ 20 \in Word BY SmallWords, SMTT(10)
  <2> QED BY <1>1, <2>2, <2>3, Elsewhere22
<1>2. CASE On(Handle("xrs"), d)
  <2>1. d.kind = "xrs" BY <1>2, OnIs DEF IsDev, Kinds
  <2>2. reg \in DOMAIN d.cells /\ ~Paged(d) BY <2>1 DEF IsDev, Paged
  <2>3. /\ \A x : BusRead(d, <<8>>, x) = XrsRead(d, x)
        /\ \A x, v : BusWrite(d, <<8>>, x, v) = XrsWrite(d, x, v)
    BY <2>1, AtXrs
  <2> DEFINE u == Upper(reg)  l == Lower(reg)  l1 == l + 1
             m(v) == v % 2 = 0
  <2>4. /\ \A v : XrsWrite(d, 17, v) = {[d EXCEPT !.sel = v]}
        /\ \A v : XrsWrite(d, 20, v) = {[d EXCEPT !.buf = v]}
        /\ \A v : m(v) => XrsWrite(d, 16, v) = {[d EXCEPT !.adr = v]}
    BY SMTT(10) DEF XrsWrite, XRS_IBA0, XRS_IBA1, XRS_IBD
  <2>5. \A v : ~m(v) => XrsWrite(d, 16, v) = {Poke([d EXCEPT !.adr = v - 1], d.sel * 65536 + v - 1, d.buf)}
    BY SMTT(10) DEF XrsWrite, XRS_IBA0, XRS_IBA1, XRS_IBD
  <2>6. m(l) /\ ~m(l1) BY XrsNumbers, SMTT(10)
  <2> HIDE DEF m
  <2>7. l1 - 1 = l
    <3>1. l \in Int BY XrsNumbers, WordInt
    <3> HIDE DEF l
    <3> QED BY <3>1
  <2>8. u * 65536 + l1 - 1 = reg /\ u * 65536 + l = reg BY XrsNumbers, SMTT(10)
  <2> HIDE DEF u, l, l1
  <2>9. XrsWrite(d, 16, l) = {[d EXCEPT !.adr = l]} BY <2>4, <2>6
  <2>10. d.sel = u => XrsWrite(d, 16, l1) = {Poke([d EXCEPT !.adr = l], reg, d.buf)}
    BY <2>5, <2>6, <2>7, <2>8
  <2>11. d.sel = u /\ d.adr = l => XrsRead(d, 20) = {[val |-> Peek(d, reg), dev |-> d]}
    BY <2>8, SMTT(10) DEF XrsRead, XRS_IBD, Reads
  <2>12. /\ BusWrite(d, <<8>>, 17, u) = {[d EXCEPT !.sel = u]}
         /\ BusWrite(d, <<8>>, 16, l) = {[d EXCEPT !.adr = l]}
         /\ \A v : BusWrite(d, <<8>>, 20, v) = {[d EXCEPT !.buf = v]}
    BY <2>3, <2>4, <2>9
  <2>13. d.sel = u => BusWrite(d, <<8>>, 16, l1) = {Poke([d EXCEPT !.adr = l], reg, d.buf)}
    BY <2>3, <2>10
  <2>14. d.sel = u /\ d.adr = l => Sure(d, <<8>>, 20, Peek(d, reg)) BY <2>3, <2>11 DEF Sure
  <2>15. XrsDoes(d, reg) BY <2>2, <2>12, <2>13, <2>14 DEF XrsDoes, u, l, l1
  <2> QED BY <1>2, <2>15
<1> QED BY <1>1, <1>2

\* The instructions of a read, and of a write of an immediate value.
LEMMA XrsCode ==
  ASSUME NEW reg \in Registers("xrs"), NEW w \in Word
  PROVE  LET F == driver_read(Handle("xrs"), reg)
             G == driver_write(Handle("xrs"), reg, IMM(w))
         IN  /\ F[1] = INSN(WRITE, IMM(8), IMM(17), IMM(Upper(reg)))
             /\ F[2] = INSN(WRITE, IMM(8), IMM(16), IMM(Lower(reg)))
             /\ F[3] = INSN(READ, IMM(8), IMM(20), REG(0)) /\ Len(F) = 3
             /\ G[1] = INSN(WRITE, IMM(8), IMM(20), IMM(w))
             /\ G[2] = INSN(WRITE, IMM(8), IMM(17), IMM(Upper(reg)))
             /\ G[3] = INSN(WRITE, IMM(8), IMM(16), IMM(Lower(reg) + 1)) /\ Len(G) = 3
<1> DEFINE h == Handle("xrs")
           i1 == INSN(WRITE, IMM(8), IMM(17), IMM(Upper(reg)))
           i2 == INSN(WRITE, IMM(8), IMM(16), IMM(Lower(reg)))
           i3 == INSN(READ, IMM(8), IMM(20), REG(0))
           j1 == INSN(WRITE, IMM(8), IMM(20), IMM(w))
           j3 == INSN(WRITE, IMM(8), IMM(16), IMM(Lower(reg) + 1))
<1>1. h.drv = "xrs" /\ h.id = 8 BY HandleDrvs, HandleIds
<1>2. Even(reg) = Lower(reg) /\ IMM(IMM(w)) = IMM(w) BY XrsNumbers, ImmArg
<1> HIDE DEF h
<1>3. driver_read(h, reg) = xrs_read(h, reg) /\ driver_write(h, reg, IMM(w)) = xrs_write(h, reg, IMM(w))
  BY <1>1 DEF driver_read, driver_write
<1>4. xrs_read(h, reg) = <<i1, i2, i3>>
  BY <1>1, <1>2 DEF xrs_read, XRS_IBA0, XRS_IBA1, XRS_IBD, Upper
<1>5. xrs_write(h, reg, IMM(w)) = <<j1, i1, j3>>
  BY <1>1, <1>2 DEF xrs_write, XRS_IBA0, XRS_IBA1, XRS_IBD, Upper
<1> HIDE DEF i1, i2, i3, j1, j3
<1>6. /\ driver_read(h, reg)[1] = i1 /\ driver_read(h, reg)[2] = i2 /\ driver_read(h, reg)[3] = i3
      /\ Len(driver_read(h, reg)) = 3
  BY <1>3, <1>4
<1>7. /\ driver_write(h, reg, IMM(w))[1] = j1 /\ driver_write(h, reg, IMM(w))[2] = i1
      /\ driver_write(h, reg, IMM(w))[3] = j3 /\ Len(driver_write(h, reg, IMM(w))) = 3
  BY <1>3, <1>5
<1> QED BY <1>6, <1>7 DEF h, i1, i2, i3, j1, j3

\* Each instruction of a read leads to the assertion behind it.
LEMMA XrsReads ==
  ASSUME NEW reg \in Registers("xrs") PROVE ReadSteps(Handle("xrs"), reg)
<1> DEFINE h == Handle("xrs")
<1> SUFFICES ASSUME NEW k, NEW r, NEW d, NEW d0, NEW k2, NEW r2, NEW d2,
                    ReadStep(h, reg, k, r, d, d0, k2, r2, d2)
             PROVE  ReadAt(h, reg, k2, r2, d2, d0) /\ IsDev(d2) /\ r2 \in VmRegs
  BY DEF ReadSteps
<1>1. h.drv = "xrs" /\ ~Direct(h) BY HandleDrvs DEF Direct
<1>2. /\ k \in 0..3 /\ d.kind = d0.kind /\ d.cells = d0.cells
      /\ IF On(h, d0) THEN XrsSelected(k, reg, d) ELSE Same(d, d0)
  BY XrsReadForm DEF ReadStep
<1>3. \A k3, r3, d3 :
        ReadAt(h, reg, k3, r3, d3, d0) <=>
           /\ k3 \in 0..3 /\ d3.kind = d0.kind /\ d3.cells = d0.cells
           /\ IF On(h, d0) THEN XrsSelected(k3, reg, d3) ELSE Same(d3, d0)
           /\ k3 >= 3 => r3[0] = Shown(h, reg, d0)
  BY XrsReadForm
<1> DEFINE u == Upper(reg)  l == Lower(reg)
<1>4. u \in Word /\ l \in Word BY XrsNumbers
<1>5. /\ driver_read(h, reg)[1] = INSN(WRITE, IMM(8), IMM(17), IMM(u))
      /\ driver_read(h, reg)[2] = INSN(WRITE, IMM(8), IMM(16), IMM(l))
      /\ driver_read(h, reg)[3] = INSN(READ, IMM(8), IMM(20), REG(0))
  BY <1>4, XrsCode
<1>6. /\ IsDev(d) /\ IsDev(d0) /\ r \in VmRegs /\ k < 3
      /\ Does(driver_read(h, reg)[k + 1], k, r, d, k2, r2, d2)
  BY <1>1 DEF ReadStep, ReadLen
<1>7. On(h, d) <=> On(h, d0) BY <1>2 DEF On
<1>8. /\ On(h, d) => XrsDoes(d, reg)
      /\ ~On(h, d) => Silent(d, <<8>>, 16) /\ Silent(d, <<8>>, 17) /\ Silent(d, <<8>>, 20)
  BY <1>6, XrsCycle
<1> HIDE DEF h
<1>9. /\ 8 \in Word /\ 16 \in Word /\ 17 \in Word /\ 20 \in Word /\ BusAddr(8) = <<8>> /\ 0 \in 0..7
  BY SmallWords, BusAddrs, SMTT(10)
<1>10. CASE k = 0
  <2>1. Does(INSN(WRITE, IMM(8), IMM(17), IMM(u)), k, r, d, k2, r2, d2) BY <1>5, <1>6, <1>10
  <2>2. k2 = k + 1 /\ r2 = r /\ d2 \in BusWrite(d, <<8>>, 17, u) BY <1>4, <1>9, <2>1, DoesWrite, ImmArg
  <2>3. k2 = 1 BY <1>10, <2>2
  <2>4. /\ IsDev(d2) /\ d2.kind = d.kind /\ d2.cells = d.cells
        /\ IF On(h, d) THEN d2.sel = u ELSE d2 = d
    <3>1. CASE On(h, d)
      <4>1. d2 = [d EXCEPT !.sel = u] BY <1>8, <2>2, <3>1 DEF XrsDoes
      <4>2. IsDev(d2) /\ d2.kind = d.kind /\ d2.cells = d.cells /\ d2.sel = u BY <1>4, <1>6, <4>1, DevSel
      <4> QED BY <3>1, <4>2
    <3>2. CASE ~On(h, d) BY <1>6, <1>8, <2>2, <3>2 DEF Silent
    <3> QED BY <3>1, <3>2
  <2>5. On(h, d) => XrsSelected(k2, reg, d2) BY <2>3, <2>4 DEF XrsSelected
  <2>6. ReadAt(h, reg, k2, r2, d2, d0) BY <1>2, <1>3, <1>7, <2>3, <2>4, <2>5
  <2> QED BY <1>6, <2>2, <2>4, <2>6
<1>11. CASE k = 1
  <2>1. Does(INSN(WRITE, IMM(8), IMM(16), IMM(l)), k, r, d, k2, r2, d2) BY <1>5, <1>6, <1>11
  <2>2. k2 = k + 1 /\ r2 = r /\ d2 \in BusWrite(d, <<8>>, 16, l) BY <1>4, <1>9, <2>1, DoesWrite, ImmArg
  <2>3. k2 = 2 BY <1>11, <2>2
  <2>4. /\ IsDev(d2) /\ d2.kind = d.kind /\ d2.cells = d.cells
        /\ IF On(h, d) THEN d2.sel = u /\ d2.adr = l ELSE d2 = d
    <3>1. CASE On(h, d)
      <4>1. d2 = [d EXCEPT !.adr = l] BY <1>8, <2>2, <3>1 DEF XrsDoes
      <4>2. d.sel = u BY <1>2, <1>7, <1>11, <3>1 DEF XrsSelected
      <4>3. IsDev(d2) /\ d2.kind = d.kind /\ d2.cells = d.cells /\ d2.sel = u /\ d2.adr = l
        BY <1>4, <1>6, <4>1, <4>2, DevAdr
      <4> QED BY <3>1, <4>3
    <3>2. CASE ~On(h, d) BY <1>6, <1>8, <2>2, <3>2 DEF Silent
    <3> QED BY <3>1, <3>2
  <2>5. On(h, d) => XrsSelected(k2, reg, d2) BY <2>3, <2>4 DEF XrsSelected
  <2>6. ReadAt(h, reg, k2, r2, d2, d0) BY <1>2, <1>3, <1>7, <2>3, <2>4, <2>5
  <2> QED BY <1>6, <2>2, <2>4, <2>6
<1>12. CASE k = 2
  <2>1. Does(INSN(READ, IMM(8), IMM(20), REG(0)), k, r, d, k2, r2, d2) BY <1>5, <1>6, <1>12
  <2>2. k2 = k + 1 /\ r2 \in VmRegs /\ d2 = d /\ r2[0] = Shown(h, reg, d0)
    <3>1. CASE On(h, d)
      <4>1. d.sel = u /\ d.adr = l BY <1>2, <1>7, <1>12, <3>1 DEF XrsSelected
      <4>2. Sure(d, BusAddr(8), 20, Peek(d, reg)) /\ reg \in DOMAIN d.cells
        BY <1>8, <1>9, <3>1, <4>1 DEF XrsDoes
      <4>3. k2 = k + 1 /\ r2 \in VmRegs /\ d2 = d /\ r2[0] = Peek(d, reg)
        BY <1>6, <1>9, <2>1, <4>2, SureRead
      <4> QED BY <1>2, <1>7, <3>1, <4>2, <4>3 DEF Shown, Peek
    <3>2. CASE ~On(h, d)
      <4>1. Silent(d, BusAddr(8), 20) BY <1>8, <1>9, <3>2
      <4>2. k2 = k + 1 /\ r2 \in VmRegs /\ d2 = d /\ r2[0] = 65535
        BY <1>6, <1>9, <2>1, <4>1, SilentRead
      <4> QED BY <1>7, <3>2, <4>2 DEF Shown
    <3> QED BY <3>1, <3>2
  <2>3. k2 = 3 BY <1>12, <2>2
  <2>4. XrsSelected(k2, reg, d2) BY <2>3 DEF XrsSelected
  <2>5. ReadAt(h, reg, k2, r2, d2, d0) BY <1>2, <1>3, <2>2, <2>3, <2>4
  <2> QED BY <1>6, <2>2, <2>5
<1>13. k = 0 \/ k = 1 \/ k = 2 BY <1>2, <1>6
<1> QED BY <1>10, <1>11, <1>12, <1>13

\* Each instruction of a write of an immediate value leads to the assertion behind it.
LEMMA XrsWrites ==
  ASSUME NEW reg \in Registers("xrs"), NEW w \in Word PROVE WriteSteps(Handle("xrs"), reg, IMM(w), w)
<1> DEFINE h == Handle("xrs")  v == IMM(w)
<1> SUFFICES ASSUME NEW k, NEW r, NEW d, NEW d0, NEW k2, NEW r2, NEW d2,
                    WriteStep(h, reg, v, w, k, r, d, d0, k2, r2, d2)
             PROVE  WriteAt(h, reg, v, w, k2, r2, d2, d0) /\ IsDev(d2) /\ r2 \in VmRegs
  BY DEF WriteSteps
<1>1. h.drv = "xrs" /\ ~Direct(h) BY HandleDrvs DEF Direct
<1>2. /\ k \in 0..3 /\ d.kind = d0.kind
      /\ d.cells = IF k >= 3 THEN Stored(h, reg, w, d0) ELSE d0.cells
      /\ IF On(h, d0) THEN XrsPrepared(k, reg, w, d) ELSE Paged(d0) => d.sel = d0.sel
  BY XrsWriteForm DEF WriteStep
<1>3. \A k3, r3, d3 :
        WriteAt(h, reg, v, w, k3, r3, d3, d0) <=>
           /\ k3 \in 0..3 /\ d3.kind = d0.kind
           /\ d3.cells = IF k3 >= 3 THEN Stored(h, reg, w, d0) ELSE d0.cells
           /\ IF On(h, d0) THEN XrsPrepared(k3, reg, w, d3) ELSE Paged(d0) => d3.sel = d0.sel
           /\ ~(k3 >= 3) /\ k3 = 0 => Arg(r3, v) = w
  BY XrsWriteForm
<1> DEFINE u == Upper(reg)  l == Lower(reg)
<1>4. u \in Word /\ l \in Word /\ l + 1 \in Word BY XrsNumbers
<1>5. /\ driver_write(h, reg, v)[1] = INSN(WRITE, IMM(8), IMM(20), IMM(w))
      /\ driver_write(h, reg, v)[2] = INSN(WRITE, IMM(8), IMM(17), IMM(u))
      /\ driver_write(h, reg, v)[3] = INSN(WRITE, IMM(8), IMM(16), IMM(l + 1))
  BY XrsCode
<1>6. /\ IsDev(d) /\ IsDev(d0) /\ r \in VmRegs /\ k < 3
      /\ Does(driver_write(h, reg, v)[k + 1], k, r, d, k2, r2, d2)
  BY <1>1 DEF WriteStep, WriteLen
<1>7. On(h, d) <=> On(h, d0) BY <1>2 DEF On
<1>8. /\ On(h, d) => XrsDoes(d, reg)
      /\ ~On(h, d) => Silent(d, <<8>>, 16) /\ Silent(d, <<8>>, 17) /\ Silent(d, <<8>>, 20)
  BY <1>6, XrsCycle
<1> HIDE DEF h, v
<1>9. /\ 8 \in Word /\ 16 \in Word /\ 17 \in Word /\ 20 \in Word /\ BusAddr(8) = <<8>>
  BY SmallWords, BusAddrs, SMTT(10)
<1>10. d.cells = d0.cells
  <2>1. ~(k >= 3) BY <1>2, <1>6
  <2> QED BY <1>2, <2>1
<1>11. CASE k = 0
  <2>1. Does(INSN(WRITE, IMM(8), IMM(20), IMM(w)), k, r, d, k2, r2, d2) BY <1>5, <1>6, <1>11
  <2>2. k2 = k + 1 /\ r2 = r /\ d2 \in BusWrite(d, <<8>>, 20, w) BY <1>9, <2>1, DoesWrite, ImmArg
  <2>3. k2 = 1 BY <1>11, <2>2
  <2>4. /\ IsDev(d2) /\ d2.kind = d.kind /\ d2.cells = d.cells
        /\ IF On(h, d) THEN d2.buf = w ELSE d2 = d
    <3>1. CASE On(h, d)
      <4>1. d2 = [d EXCEPT !.buf = w] BY <1>8, <2>2, <3>1 DEF XrsDoes
      <4>2. IsDev(d2) /\ d2.kind = d.kind /\ d2.cells = d.cells /\ d2.buf = w BY <1>6, <4>1, DevBuf
      <4> QED BY <3>1, <4>2
    <3>2. CASE ~On(h, d) BY <1>6, <1>8, <2>2, <3>2 DEF Silent
    <3> QED BY <3>1, <3>2
  <2>5. On(h, d) => XrsPrepared(k2, reg, w, d2) BY <2>3, <2>4 DEF XrsPrepared
  <2>6. WriteAt(h, reg, v, w, k2, r2, d2, d0) BY <1>2, <1>3, <1>7, <1>10, <2>3, <2>4, <2>5
  <2> QED BY <1>6, <2>2, <2>4, <2>6
<1>12. CASE k = 1
  <2>1. Does(INSN(WRITE, IMM(8), IMM(17), IMM(u)), k, r, d, k2, r2, d2) BY <1>5, <1>6, <1>12
  <2>2. k2 = k + 1 /\ r2 = r /\ d2 \in BusWrite(d, <<8>>, 17, u) BY <1>4, <1>9, <2>1, DoesWrite, ImmArg
  <2>3. k2 = 2 BY <1>12, <2>2
  <2>4. /\ IsDev(d2) /\ d2.kind = d.kind /\ d2.cells = d.cells
        /\ IF On(h, d) THEN d2.sel = u /\ d2.buf = w ELSE d2 = d
    <3>1. CASE On(h, d)
      <4>1. d2 = [d EXCEPT !.sel = u] BY <1>8, <2>2, <3>1 DEF XrsDoes
      <4>2. d.buf = w BY <1>2, <1>7, <1>12, <3>1 DEF XrsPrepared
      <4>3. IsDev(d2) /\ d2.kind = d.kind /\ d2.cells = d.cells /\ d2.sel = u /\ d2.buf = w
        BY <1>4, <1>6, <4>1, <4>2, DevSel
      <4> QED BY <3>1, <4>3
    <3>2. CASE ~On(h, d) BY <1>6, <1>8, <2>2, <3>2 DEF Silent
    <3> QED BY <3>1, <3>2
  <2>5. On(h, d) => XrsPrepared(k2, reg, w, d2) BY <2>3, <2>4 DEF XrsPrepared
  <2>6. WriteAt(h, reg, v, w, k2, r2, d2, d0) BY <1>2, <1>3, <1>7, <1>10, <2>3, <2>4, <2>5
  <2> QED BY <1>6, <2>2, <2>4, <2>6
<1>13. CASE k = 2
  <2>1. Does(INSN(WRITE, IMM(8), IMM(16), IMM(l + 1)), k, r, d, k2, r2, d2) BY <1>5, <1>6, <1>13
  <2>2. k2 = k + 1 /\ r2 = r /\ d2 \in BusWrite(d, <<8>>, 16, l + 1)
    BY <1>4, <1>9, <2>1, DoesWrite, ImmArg
  <2>3. k2 = 3 BY <1>13, <2>2
  <2>4. IsDev(d2) /\ d2.kind = d.kind /\ d2.cells = Stored(h, reg, w, d0) /\ (~On(h, d) => d2 = d)
    <3>1. CASE On(h, d)
      <4> DEFINE e == [d EXCEPT !.adr = l]
      <4>1. d.sel = u /\ d.buf = w BY <1>2, <1>7, <1>13, <3>1 DEF XrsPrepared
      <4>2. d2 = Poke(e, reg, w) /\ reg \in DOMAIN d.cells BY <1>8, <2>2, <3>1, <4>1 DEF XrsDoes
      <4>3. IsDev(e) /\ e.kind = d.kind /\ e.cells = d.cells BY <1>4, <1>6, DevAdr
      <4> HIDE DEF e
      <4>4. IsDev(d2) /\ d2.kind = d.kind /\ d2.cells = [d.cells EXCEPT ![reg] = w]
        BY <4>2, <4>3, DevPoke
      <4> QED BY <1>7, <1>10, <3>1, <4>2, <4>4 DEF Stored
    <3>2. CASE ~On(h, d)
      <4>1. d2 = d BY <1>8, <2>2, <3>2 DEF Silent
      <4> QED BY <1>6, <1>7, <1>10, <3>2, <4>1 DEF Stored
    <3> QED BY <3>1, <3>2
  <2>5. XrsPrepared(k2, reg, w, d2) BY <2>3 DEF XrsPrepared
  <2>6. WriteAt(h, reg, v, w, k2, r2, d2, d0) BY <1>2, <1>3, <1>7, <2>3, <2>4, <2>5
  <2> QED BY <1>6, <2>2, <2>4, <2>6
<1>14. k = 0 \/ k = 1 \/ k = 2 BY <1>2, <1>6
<1> QED BY <1>11, <1>12, <1>13, <1>14

-------------------------------------------------------------------------------
(***************************************************************************)
(* Programs put together from the drivers' fragments.                      *)
(***************************************************************************)
IsCode(F) == \E S : F \in Seq(S) /\ \A i \in S : i.op # EMIT

\* What the drivers push are no EMITs.
LEMMA NoEmits ==
  \A op \in {READ, WRITE, AND, OR, ADD, JEQ, JNE} : \A a, b, c : INSN(op, a, b, c).op # EMIT
<1>1. \A op \in {READ, WRITE, AND, OR, ADD, JEQ, JNE} : op # EMIT
  BY SMTT(10) DEF READ, WRITE, AND, OR, ADD, JEQ, JNE, EMIT
<1> QED BY <1>1, InsnFields

\* Up to three instructions, and two fragments behind each other.
LEMMA Fragments ==
  /\ \A a : a.op # EMIT => IsCode(<<a>>)
  /\ \A a, b : a.op # EMIT /\ b.op # EMIT => IsCode(<<a, b>>)
  /\ \A a, b, c : a.op # EMIT /\ b.op # EMIT /\ c.op # EMIT => IsCode(<<a, b, c>>)
<1>1. ASSUME NEW F, NEW S, F \in Seq(S), \A i \in S : i.op # EMIT PROVE IsCode(F)
  BY <1>1 DEF IsCode
<1>2. \A a : <<a>> \in Seq({a}) OBVIOUS
<1>3. \A a, b : <<a, b>> \in Seq({a, b}) OBVIOUS
<1>4. \A a, b, c : <<a, b, c>> \in Seq({a, b, c}) OBVIOUS
<1>5. ASSUME NEW a, a.op # EMIT PROVE IsCode(<<a>>)
  <2> DEFINE F == <<a>>  S == {a}
  <2>1. F \in Seq(S) /\ \A i \in S : i.op # EMIT BY <1>2, <1>5
  <2> HIDE DEF F, S
  <2>2. IsCode(F) BY <1>1, <2>1
  <2> QED BY <2>2 DEF F
<1>6. ASSUME NEW a, NEW b, a.op # EMIT, b.op # EMIT PROVE IsCode(<<a, b>>)
  <2> DEFINE F == <<a, b>>  S == {a, b}
  <2>1. F \in Seq(S) /\ \A i \in S : i.op # EMIT BY <1>3, <1>6
  <2> HIDE DEF F, S
  <2>2. IsCode(F) BY <1>1, <2>1
  <2> QED BY <2>2 DEF F
<1>7. ASSUME NEW a, NEW b, NEW c, a.op # EMIT, b.op # EMIT, c.op # EMIT PROVE IsCode(<<a, b, c>>)
  <2> DEFINE F == <<a, b, c>>  S == {a, b, c}
  <2>1. F \in Seq(S) /\ \A i \in S : i.op # EMIT BY <1>4, <1>7
  <2> HIDE DEF F, S
  <2>2. IsCode(F) BY <1>1, <2>1
  <2> QED BY <2>2 DEF F
<1> QED BY <1>5, <1>6, <1>7

\* Two fragments behind each other: the instructions of the first, then those of the
\* second.
LEMMA Concats ==
  ASSUME NEW F, NEW G, IsCode(F), IsCode(G)
  PROVE  /\ IsCode(F \o G) /\ Len(F \o G) = Len(F) + Len(G)
         /\ \A i \in 1..Len(F) : (F \o G)[i] = F[i]
         /\ \A i \in 1..Len(G) : (F \o G)[Len(F) + i] = G[i]
         /\ Len(F) \in Nat /\ Len(G) \in Nat
<1>1. PICK S : F \in Seq(S) /\ \A i \in S : i.op # EMIT BY DEF IsCode
<1>2. PICK T : G \in Seq(T) /\ \A i \in T : i.op # EMIT BY DEF IsCode
<1>3. F \in Seq(S \cup T) /\ G \in Seq(S \cup T) BY <1>1, <1>2, SeqMonotonic
<1>4. /\ F \o G \in Seq(S \cup T) /\ Len(F \o G) = Len(F) + Len(G)
      /\ \A i \in 1 .. Len(F) + Len(G) : (F \o G)[i] = IF i <= Len(F) THEN F[i] ELSE G[i - Len(F)]
  BY <1>3, ConcatProperties
<1>5. \A i \in S \cup T : i.op # EMIT BY <1>1, <1>2
<1>6. IsCode(F \o G) BY <1>4, <1>5 DEF IsCode
<1>7. Len(F) \in Nat /\ Len(G) \in Nat BY <1>3
<1> DEFINE l == Len(F)  m == Len(G)  H == F \o G
<1>8. ASSUME NEW i \in 1..l PROVE H[i] = F[i]
  <2>1. i \in 1 .. l + m /\ i <= l BY <1>7
  <2> QED BY <1>4, <2>1
<1>9. ASSUME NEW i \in 1..m PROVE H[l + i] = G[i]
  <2> DEFINE j == l + i
  <2>1. j \in 1 .. l + m /\ ~(j <= l) /\ j - l = i BY <1>7
  <2> HIDE DEF j
  <2>2. H[j] = G[j - l] BY <1>4, <2>1
  <2> QED BY <2>1, <2>2 DEF j
<1> QED BY <1>4, <1>6, <1>7, <1>8, <1>9

\* An instruction behind a fragment.
LEMMA Appended ==
  ASSUME NEW F, IsCode(F), NEW a
  PROVE  /\ a.op # EMIT => IsCode(Append(F, a))
         /\ Len(Append(F, a)) = Len(F) + 1 /\ Len(F) \in Nat
         /\ \A i \in 1..Len(F) : Append(F, a)[i] = F[i]
         /\ Append(F, a)[Len(F) + 1] = a
<1>1. PICK S : F \in Seq(S) /\ \A i \in S : i.op # EMIT BY DEF IsCode
<1>2. F \in Seq(S \cup {a}) BY <1>1, SeqMonotonic
<1>3. a \in S \cup {a} OBVIOUS
<1>4. /\ Append(F, a) \in Seq(S \cup {a}) /\ Len(Append(F, a)) = Len(F) + 1
      /\ \A i \in 1..Len(F) : Append(F, a)[i] = F[i]
      /\ Append(F, a)[Len(F) + 1] = a
  BY <1>2, <1>3, AppendProperties
<1>5. a.op # EMIT => IsCode(Append(F, a)) BY <1>1, <1>4 DEF IsCode
<1>6. Len(F) \in Nat BY <1>1
<1> QED BY <1>4, <1>5, <1>6

\* What a driver pushes is such a fragment.
LEMMA DriverCode ==
  ASSUME NEW h, NEW reg, NEW v,
         h.drv \in {"phy", "mmd", "mmd-c22", "mva", "mscc", "mvls", "xrs"}
  PROVE  IsCode(driver_read(h, reg)) /\ IsCode(driver_write(h, reg, v))
<1>1. CASE h.drv \in {"phy", "mmd"}
  <2>1. IsCode(phy_read(h, reg)) /\ IsCode(phy_write(h, reg, v))
    BY NoEmits, Fragments DEF phy_read, phy_write
  <2> QED BY <1>1, <2>1 DEF driver_read, driver_write
<1>2. CASE h.drv = "mmd-c22"
  <2>1. IsCode(mmd_c22_address(h, reg)) BY NoEmits, Fragments DEF mmd_c22_address
  <2>2. IsCode(mmd_c22_read(h, reg)) /\ IsCode(mmd_c22_write(h, reg, v))
    BY <2>1, NoEmits, Appended DEF mmd_c22_read, mmd_c22_write
  <2> QED BY <1>2, <2>2 DEF driver_read, driver_write
<1>3. CASE h.drv \in {"mva", "mscc"}
  <2> DEFINE p == Page(reg)
             i == <<INSN(READ, IMM(h.id), IMM(reg % 32), REG(0))>>
             j == <<INSN(WRITE, IMM(h.id), IMM(reg % 32), v)>>
  <2>1. IsCode(select_page(h, p)) /\ IsCode(restore_page(h, p)) /\ IsCode(i) /\ IsCode(j)
    BY NoEmits, Fragments DEF select_page, restore_page
  <2>2. pphy_read(h, reg) = select_page(h, p) \o i \o restore_page(h, p) BY DEF pphy_read
  <2>3. pphy_write(h, reg, v) = select_page(h, p) \o j \o restore_page(h, p) BY DEF pphy_write
  <2> HIDE DEF i, j, p
  <2>4. IsCode(pphy_read(h, reg)) /\ IsCode(pphy_write(h, reg, v)) BY <2>1, <2>2, <2>3, Concats
  <2> QED BY <1>3, <2>4 DEF driver_read, driver_write
<1>4. CASE h.drv = "mvls"
  <2>1. \A n : IsCode(mvls_wait_cmd(n))
    <3> TAKE n
    <3> DEFINE p == <<INSN(READ, IMM(n % 256), IMM(MVLS_CMD), REG(0))>>
               q == <<INSN(AND, REG(0), IMM(MVLS_BUSY), REG(0)),
                      INSN(JEQ, REG(0), IMM(MVLS_BUSY), GOTO(Len(p) + 1, 0))>>
    <3>1. IsCode(p) /\ IsCode(q) BY NoEmits, Fragments
    <3>2. mvls_wait_cmd(n) = p \o q BY DEF mvls_wait_cmd, while_busy
    <3> HIDE DEF p, q
    <3> QED BY <3>1, <3>2, Concats
  <2>2. IsCode(mvls_read_to(h, reg, 0))
    <3>1. CASE h.id = 0 BY <3>1, NoEmits, Fragments DEF mvls_read_to
    <3>2. CASE h.id # 0
      <4> DEFINE c == IMM(mvls_multi_cmd(MvlsPort(reg), reg % 65536, FALSE))
                 a == <<INSN(WRITE, IMM(h.id), IMM(MVLS_CMD), c)>>
                 b == <<INSN(READ, IMM(h.id), IMM(MVLS_DATA), REG(0))>>
      <4> HIDE DEF c
      <4>1. IsCode(a) /\ IsCode(b) BY NoEmits, Fragments
      <4>2. mvls_read_to(h, reg, 0) = a \o mvls_wait_cmd(h.id) \o b BY <3>2 DEF mvls_read_to, c
      <4> HIDE DEF a, b
      <4> QED BY <2>1, <4>1, <4>2, Concats
    <3> QED BY <3>1, <3>2
  <2>3. IsCode(mvls_write(h, reg, v))
    <3>1. CASE h.id = 0 BY <3>1, NoEmits, Fragments DEF mvls_write
    <3>2. CASE h.id # 0
      <4> DEFINE c == IMM(mvls_multi_cmd(MvlsPort(reg), reg % 65536, TRUE))
                 a == <<INSN(WRITE, IMM(h.id), IMM(MVLS_DATA), v),
                        INSN(WRITE, IMM(h.id), IMM(MVLS_CMD), c)>>
      <4> HIDE DEF c
      <4>1. IsCode(a) BY NoEmits, Fragments
      <4>2. mvls_write(h, reg, v) = a \o mvls_wait_cmd(h.id) BY <3>2 DEF mvls_write, c
      <4> HIDE DEF a
      <4> QED BY <2>1, <4>1, <4>2, Concats
    <3> QED BY <3>1, <3>2
  <2> QED BY <1>4, <2>2, <2>3 DEF driver_read, driver_write, mvls_read
<1>5. CASE h.drv = "xrs"
  <2>1. IsCode(xrs_read(h, reg)) /\ IsCode(xrs_write(h, reg, v))
    BY NoEmits, Fragments DEF xrs_read, xrs_write
  <2> QED BY <1>5, <2>1 DEF driver_read, driver_write
<1> QED BY <1>1, <1>2, <1>3, <1>4, <1>5

-------------------------------------------------------------------------------
(***************************************************************************)
(* The drivers together.                                                   *)
(***************************************************************************)
IsMvls(h, reg) == h = Handle("mvls") /\ reg \in Registers("mvls")
IsXrs(h, reg) == h = Handle("xrs") /\ reg \in Registers("xrs")
IsC22(h, reg) == h = MmdC22 /\ reg \in Registers("mmd")
IsTarget(h, reg) ==
  DirectHandle(h, reg) \/ IsC22(h, reg) \/ PagedTarget(h, reg) \/ IsMvls(h, reg) \/ IsXrs(h, reg)

\* The arguments in which a value is handed to a driver's write.
IsArg(h, v, w) == w \in Word /\ (v = IMM(w) \/ (v = REG(0) /\ h.drv # "xrs"))

\* A target of an operation is a register of one of the drivers.
LEMMA TargetKinds ==
  ASSUME NEW t \in Targets PROVE IsTarget(t.dev, t.reg)
<1>1. CASE \E k \in Kinds : \E r \in Registers(k) : t = Target(Handle(k), r)
  <2>1. PICK k \in Kinds : \E r \in Registers(k) : t = Target(Handle(k), r) BY <1>1
  <2>6. PICK r \in Registers(k) : t = Target(Handle(k), r) BY <2>1
  <2>2. t.dev = Handle(k) /\ t.reg = r BY <2>6 DEF Target
  <2>3. CASE k \in {"phy", "mmd", "mvls1"}
    BY <2>2, <2>6, <2>3 DEF IsTarget, DirectHandle
  <2>4. CASE k \in {"mva", "mscc"}
    BY <2>2, <2>6, <2>4 DEF IsTarget, PagedTarget
  <2>5. CASE k \in {"mvls", "xrs"}
    BY <2>2, <2>6, <2>5 DEF IsTarget, IsMvls, IsXrs
  <2> QED BY <2>3, <2>4, <2>5 DEF Kinds
<1>2. CASE \E r \in Registers("mmd") : t = Target(MmdC22, r)
  BY <1>2 DEF IsTarget, IsC22, Target
<1>3. CASE t = Target(Handle("mva"), 22)
  <2>1. t.dev = Handle("mva") /\ t.reg = 22 BY <1>3 DEF Target
  <2>2. PagedTarget(t.dev, t.reg) BY <2>1 DEF PagedTarget
  <2> QED BY <2>2 DEF IsTarget
<1> DEFINE X == UNION {{Target(Handle(k), r) : r \in Registers(k)} : k \in Kinds}
           Y == {Target(MmdC22, r) : r \in Registers("mmd")}
           z == Target(Handle("mva"), 22)
<1>4. t \in X => \E k \in Kinds : \E r \in Registers(k) : t = Target(Handle(k), r) OBVIOUS
<1>5. t \in Y => \E r \in Registers("mmd") : t = Target(MmdC22, r) OBVIOUS
<1>6. Targets = X \cup Y \cup {z} BY DEF Targets
<1>7. CASE t \in X BY <1>1, <1>4, <1>7
<1>8. CASE t \in Y BY <1>2, <1>5, <1>8
<1>9. CASE t = z BY <1>3, <1>9
<1> HIDE DEF X, Y, z
<1> QED BY <1>6, <1>7, <1>8, <1>9

\* The driver of a target, and the lengths of its fragments.
LEMMA TargetDrivers ==
  ASSUME NEW h, NEW reg, IsTarget(h, reg)
  PROVE  /\ h.drv \in {"phy", "mmd", "mmd-c22", "mva", "mscc", "mvls", "xrs"}
         /\ ReadLen(h) = WriteLen(h) /\ ReadLen(h) \in 1..6
         /\ h.drv \in {"mva", "mscc"} => ReadLen(h) = 6
         /\ h.drv = "mvls" /\ h.id # 0 => ReadLen(h) = 5
<1>1. CASE DirectHandle(h, reg)
  <2>1. h.drv \in {"phy", "mmd"} \/ (h.drv = "mvls" /\ h.id = 0)
    BY <1>1, HandleDrvs, HandleIds DEF DirectHandle
  <2>2. Direct(h) BY <2>1 DEF Direct
  <2>3. ReadLen(h) = 1 /\ WriteLen(h) = 1 BY <2>1, <2>2 DEF ReadLen, WriteLen
  <2> QED BY <2>1, <2>3
<1>2. CASE IsC22(h, reg)
  <2>1. h.drv = "mmd-c22" BY <1>2, HandleDrvs DEF IsC22
  <2>2. ReadLen(h) = 4 /\ WriteLen(h) = 4 BY <2>1 DEF ReadLen, WriteLen, Direct
  <2> QED BY <2>1, <2>2
<1>3. CASE PagedTarget(h, reg)
  <2>1. h.drv \in {"mva", "mscc"} BY <1>3, HandleDrvs DEF PagedTarget
  <2>2. ReadLen(h) = 6 /\ WriteLen(h) = 6 BY <2>1 DEF ReadLen, WriteLen, Direct
  <2> QED BY <2>1, <2>2
<1>4. CASE IsMvls(h, reg)
  <2>1. h.drv = "mvls" /\ h.id = 6 BY <1>4, HandleDrvs, HandleIds DEF IsMvls
  <2>2. ReadLen(h) = 5 /\ WriteLen(h) = 5 BY <2>1 DEF ReadLen, WriteLen, Direct
  <2> QED BY <2>1, <2>2
<1>5. CASE IsXrs(h, reg)
  <2>1. h.drv = "xrs" BY <1>5, HandleDrvs DEF IsXrs
  <2>2. ReadLen(h) = 3 /\ WriteLen(h) = 3 BY <2>1 DEF ReadLen, WriteLen, Direct
  <2> QED BY <2>1, <2>2
<1> QED BY <1>1, <1>2, <1>3, <1>4, <1>5 DEF IsTarget

\* The lengths of a driver's fragments.
LEMMA TargetLengths ==
  ASSUME NEW h, NEW reg, IsTarget(h, reg), NEW v, NEW w, IsArg(h, v, w)
  PROVE  Len(driver_read(h, reg)) = ReadLen(h) /\ Len(driver_write(h, reg, v)) = WriteLen(h)
<1>1. CASE DirectHandle(h, reg)
  <2>1. PICK a, b : DirectTo(h, reg, a, b) BY <1>1, DirectCycle
  <2>2. Direct(h) /\ h.drv \notin {"mva", "mscc", "mmd-c22", "xrs"} BY <1>1, DirectCycle
  <2>3. Len(driver_read(h, reg)) = 1 /\ Len(driver_write(h, reg, v)) = 1 BY <2>1 DEF DirectTo
  <2> QED BY <2>2, <2>3 DEF ReadLen, WriteLen
<1>2. CASE IsC22(h, reg)
  <2>1. h = MmdC22 /\ h.drv = "mmd-c22" BY <1>2, HandleDrvs DEF IsC22
  <2>2. ReadLen(h) = 4 /\ WriteLen(h) = 4 BY <2>1 DEF ReadLen, WriteLen, Direct
  <2>3. Len(driver_read(h, reg)) = 4 /\ Len(driver_write(h, reg, v)) = 4 BY <2>1, C22Code
  <2> QED BY <2>2, <2>3
<1>3. CASE PagedTarget(h, reg)
  <2>1. h.drv \in {"mva", "mscc"} BY <1>3, HandleDrvs DEF PagedTarget
  <2>2. ReadLen(h) = 6 /\ WriteLen(h) = 6 BY <2>1 DEF ReadLen, WriteLen, Direct
  <2>3. Len(driver_read(h, reg)) = 6 /\ Len(driver_write(h, reg, v)) = 6 BY <2>1, PagedCode
  <2> QED BY <2>2, <2>3
<1>4. CASE IsMvls(h, reg)
  <2>1. h = Handle("mvls") /\ h.drv = "mvls" /\ h.id = 6 BY <1>4, HandleDrvs, HandleIds DEF IsMvls
  <2>2. ReadLen(h) = 5 /\ WriteLen(h) = 5 BY <2>1 DEF ReadLen, WriteLen, Direct
  <2>3. Len(driver_read(h, reg)) = 5 /\ Len(driver_write(h, reg, v)) = 5
    BY <2>1, MvlsReadCode, MvlsWriteCode
  <2> QED BY <2>2, <2>3
<1>5. CASE IsXrs(h, reg)
  <2>1. h = Handle("xrs") /\ h.drv = "xrs" /\ reg \in Registers("xrs") BY <1>5, HandleDrvs DEF IsXrs
  <2>2. ReadLen(h) = 3 /\ WriteLen(h) = 3 BY <2>1 DEF ReadLen, WriteLen, Direct
  <2>4. w \in Word /\ v = IMM(w) BY <2>1 DEF IsArg
  <2>3. Len(driver_read(h, reg)) = 3 /\ Len(driver_write(h, reg, v)) = 3 BY <2>1, <2>4, XrsCode
  <2> QED BY <2>2, <2>3
<1> QED BY <1>1, <1>2, <1>3, <1>4, <1>5 DEF IsTarget

\* Every instruction of a read and of a write leads to the next assertion.
LEMMA TargetReads ==
  ASSUME NEW h, NEW reg, IsTarget(h, reg) PROVE ReadSteps(h, reg)
  BY DirectReads, C22Reads, PagedReads, MvlsReads, XrsReads DEF IsTarget, IsC22, IsMvls, IsXrs

\* The same of a write.
LEMMA TargetWrites ==
  ASSUME NEW h, NEW reg, IsTarget(h, reg), NEW v, NEW w, IsArg(h, v, w)
  PROVE  WriteSteps(h, reg, v, w)
<1>1. w \in Word /\ Steady(v) BY SteadyArgs DEF IsArg
<1>2. CASE DirectHandle(h, reg) BY <1>1, <1>2, DirectWrites
<1>3. CASE IsC22(h, reg) BY <1>1, <1>3, C22Writes DEF IsC22
<1>4. CASE PagedTarget(h, reg) BY <1>1, <1>4, PagedWrites
<1>5. CASE IsMvls(h, reg) BY <1>1, <1>5, MvlsWrites DEF IsMvls
<1>6. CASE IsXrs(h, reg)
  <2>1. h.drv = "xrs" BY <1>6, HandleDrvs DEF IsXrs
  <2>2. v = IMM(w) BY <2>1 DEF IsArg
  <2> QED BY <1>1, <1>6, <2>2, XrsWrites DEF IsXrs
<1> QED BY <1>2, <1>3, <1>4, <1>5, <1>6 DEF IsTarget

-------------------------------------------------------------------------------
(***************************************************************************)
(* Where a fragment starts and ends.                                       *)
(***************************************************************************)

\* The paged PHY a driver of one is for.
LEMMA OnPaged ==
  ASSUME NEW h, NEW d, IsDev(d), On(h, d)
  PROVE  Paged(d) <=> h.drv \in {"mva", "mscc"}
<1>1. CASE h = MmdC22 /\ d.kind = "mmd" BY <1>1, HandleDrvs DEF Paged
<1>2. CASE h = Handle(d.kind) BY <1>2, HandleDrvs DEF Paged, IsDev, Kinds
<1> QED BY <1>1, <1>2 DEF On

\* Where nothing has been done, a read and a write are at their start.
LEMMA Starts ==
  ASSUME NEW h, NEW reg, IsTarget(h, reg), NEW r, NEW d, NEW d0, IsDev(d0), Same(d, d0)
  PROVE  /\ ReadAt(h, reg, 0, r, d, d0)
         /\ \A v, w : Arg(r, v) = w => WriteAt(h, reg, v, w, 0, r, d, d0)
<1>1. ReadLen(h) \in 1..6 /\ WriteLen(h) \in 1..6 BY TargetDrivers
<1>2. 0 \in 0..ReadLen(h) /\ 0 \in 0..WriteLen(h) BY <1>1
<1>3. ~ReadDone(h, 0) /\ ~WriteDone(h, 0) BY <1>1 DEF ReadDone, WriteDone
<1>4. h.drv \in {"mva", "mscc"} /\ On(h, d0) => d.sel = d0.sel BY OnPaged DEF Same
<1>5. On(h, d0) => Selected(h, reg, 0, r, d, d0) BY <1>4, TargetDrivers DEF Selected, Direct
<1>6. On(h, d0) => ReadOn(h, reg, 0, r, d, d0) BY <1>5 DEF ReadOn
<1>7. On(h, d0) => \A w : WriteOn(h, reg, w, 0, r, d, d0) BY <1>5 DEF WriteOn
<1>8. d.kind = d0.kind /\ d.cells = d0.cells /\ (Paged(d0) => d.sel = d0.sel) BY DEF Same
<1>9. ReadAt(h, reg, 0, r, d, d0) BY <1>2, <1>3, <1>6, <1>8 DEF ReadAt
<1>10. \A v, w : Arg(r, v) = w => WriteAt(h, reg, v, w, 0, r, d, d0)
  BY <1>2, <1>3, <1>7, <1>8 DEF WriteAt
<1> QED BY <1>9, <1>10

\* At the end of a read, R0 holds the register and nothing has changed.
LEMMA ReadEnds ==
  ASSUME NEW h, NEW reg, IsTarget(h, reg), NEW r, NEW d, NEW d0, IsDev(d0),
         ReadAt(h, reg, ReadLen(h), r, d, d0)
  PROVE  Same(d, d0) /\ r[0] = Shown(h, reg, d0)
<1> DEFINE l == ReadLen(h)
<1>1. l \in 1..6 /\ (h.drv \in {"mva", "mscc"} => l = 6) BY TargetDrivers
<1>2. ReadDone(h, l) BY <1>1 DEF ReadDone
<1>3. d.kind = d0.kind /\ d.cells = d0.cells /\ r[0] = Shown(h, reg, d0) BY <1>2 DEF ReadAt
<1>4. On(h, d0) /\ Paged(d0) => d.sel = d0.sel
  <2>1. SUFFICES ASSUME On(h, d0), Paged(d0) PROVE d.sel = d0.sel OBVIOUS
  <2>2. h.drv \in {"mva", "mscc"} /\ l = 6 BY <1>1, <2>1, OnPaged
  <2>3. ReadOn(h, reg, l, r, d, d0) BY <2>1 DEF ReadAt
  <2> HIDE DEF l
  <2> QED BY <2>2, <2>3 DEF ReadOn
<1>5. ~On(h, d0) => Same(d, d0) BY DEF ReadAt
<1> QED BY <1>3, <1>4, <1>5 DEF Same

\* At the end of a write, the register holds the value, and the page is back.
LEMMA WriteEnds ==
  ASSUME NEW h, NEW reg, IsTarget(h, reg), NEW v, NEW w, NEW r, NEW d, NEW d0, IsDev(d0),
         WriteAt(h, reg, v, w, WriteLen(h), r, d, d0)
  PROVE  Wrote(h, reg, w, d, d0)
<1> DEFINE l == WriteLen(h)
<1>1. /\ l \in 1..6 /\ (h.drv \in {"mva", "mscc"} => l = 6)
      /\ (h.drv = "mvls" /\ h.id # 0 => l = 5)
  BY TargetDrivers
<1>2. WriteDone(h, l) BY <1>1 DEF WriteDone
<1>3. d.kind = d0.kind /\ d.cells = Stored(h, reg, w, d0) BY <1>2 DEF WriteAt
<1>4. On(h, d0) /\ Paged(d0) /\ ~IsPageReg(h, reg) => d.sel = d0.sel
  <2>1. SUFFICES ASSUME On(h, d0), Paged(d0), ~IsPageReg(h, reg) PROVE d.sel = d0.sel OBVIOUS
  <2>2. h.drv \in {"mva", "mscc"} /\ l = 6 BY <1>1, <2>1, OnPaged
  <2>3. WriteOn(h, reg, w, l, r, d, d0) BY <2>1 DEF WriteAt
  <2> HIDE DEF l
  <2> QED BY <2>1, <2>2, <2>3 DEF WriteOn
<1>5. ~On(h, d0) /\ Paged(d0) => d.sel = d0.sel BY DEF WriteAt
<1> QED BY <1>3, <1>4, <1>5 DEF Wrote

\* On the way, the registers are as they were, or as they will be.
LEMMA OnTheWay ==
  ASSUME NEW h, NEW reg, NEW k, NEW r, NEW d, NEW d0
  PROVE  /\ ReadAt(h, reg, k, r, d, d0) => d.kind = d0.kind /\ d.cells = d0.cells
         /\ \A v, w : WriteAt(h, reg, v, w, k, r, d, d0)
              => d.kind = d0.kind /\ d.cells \in {d0.cells, Stored(h, reg, w, d0)}
  BY DEF ReadAt, WriteAt

-------------------------------------------------------------------------------
(***************************************************************************)
(* The programs of operations.                                             *)
(***************************************************************************)
IsOp(o) ==
  /\ IsTarget(o.dev, o.reg) /\ o.kind \in {"read", "write"}
  /\ o.val \in Word /\ o.mask \in Word
  /\ o.kind = "read" => o.mask = 0
  /\ o.mask # 0 => o.dev.drv # "xrs"

\* The operations there are, when a masked write of an xrs is none of them.
LEMMA OpForms ==
  ASSUME XrsMasked = FALSE, NEW o \in Ops PROVE IsOp(o)
<1>1. 0 \in Word BY SmallWords, SMTT(10)
<1>2. o.mask # 0 => o.dev.drv # "xrs" BY DEF Ops
<1>3. ASSUME NEW t \in Targets, NEW k, NEW v, NEW m, o = Op(t, k, v, m)
      PROVE  IsTarget(o.dev, o.reg) /\ o.kind = k /\ o.val = v /\ o.mask = m
  <2>1. o.dev = t.dev /\ o.reg = t.reg /\ o.kind = k /\ o.val = v /\ o.mask = m BY <1>3 DEF Op
  <2> QED BY <2>1, TargetKinds
<1>4. CASE o \in Reading
  <2>1. PICK t \in Targets : o = Op(t, "read", 0, 0) BY <1>4 DEF Reading
  <2>2. IsTarget(o.dev, o.reg) /\ o.kind = "read" /\ o.val = 0 /\ o.mask = 0 BY <1>3, <2>1
  <2> QED BY <1>1, <1>2, <2>2 DEF IsOp
<1>5. CASE o \in Writing
  <2>1. PICK t \in Targets, v \in Values : o = Op(t, "write", v, 0) BY <1>5 DEF Writing
  <2>2. IsTarget(o.dev, o.reg) /\ o.kind = "write" /\ o.val = v /\ o.mask = 0 BY <1>3, <2>1
  <2>3. v \in Word BY ValuesAssumption
  <2> QED BY <1>1, <1>2, <2>2, <2>3 DEF IsOp
<1>6. CASE o \in Masking
  <2>1. PICK t \in Targets, v \in MaskedValues, m \in Masks : o = Op(t, "write", v, m)
    BY <1>6 DEF Masking
  <2>2. IsTarget(o.dev, o.reg) /\ o.kind = "write" /\ o.val = v /\ o.mask = m BY <1>3, <2>1
  <2>3. v \in Word /\ m \in Word BY ValuesAssumption
  <2> QED BY <1>2, <2>2, <2>3 DEF IsOp
<1> QED BY <1>4, <1>5, <1>6 DEF Ops

\* A jump is relative: the instruction does the same m places further down.
LEMMA Shifts ==
  ASSUME NEW i \in Insn, NEW n \in Int, NEW m \in Int, NEW r, NEW d, NEW n2, NEW r2, NEW d2,
         Does(i, n, r, d, n2, r2, d2)
  PROVE  n2 \in Int /\ Does(i, n - m, r, d, n2 - m, r2, d2)
<1> DEFINE j == S16(ArgValue(i.arg2))
<1>1. j \in Int
  <2>1. i.arg2 \in ArgBits BY DEF Insn
  <2>2. \A a \in ArgBits : a \in Int BY U16Int, SMTT(10) DEF ArgBits
  <2>3. ArgValue(i.arg2) \in Int BY <2>1, <2>2, ModWord, WordInt DEF ArgValue
  <2>4. \A w \in Int : S16(w) \in Int BY U16Int, SMTT(10) DEF S16
  <2> QED BY <2>3, <2>4
<1> HIDE DEF j
<1>2. /\ n + 1 \in Int /\ (n + 1) - m = (n - m) + 1
      /\ n + j + 1 \in Int /\ (n + j + 1) - m = (n - m) + j + 1
  BY <1>1
<1>3. CASE i.op \in {JEQ, JNE} /\ r2 = r /\ d2 = d /\ n2 = IF Jumps(i, r) THEN n + j + 1 ELSE n + 1
  <2>1. n2 \in Int BY <1>2, <1>3
  <2>2. n2 - m = IF Jumps(i, r) THEN (n - m) + j + 1 ELSE (n - m) + 1 BY <1>2, <1>3
  <2> QED BY <1>3, <2>1, <2>2 DEF Does, j
<1>4. CASE n2 = n + 1 /\ Does(i, n, r, d, n2, r2, d2) /\ ~(i.op \in {JEQ, JNE} /\ r2 = r /\ d2 = d)
  <2>1. n2 \in Int /\ n2 - m = (n - m) + 1 BY <1>2, <1>4
  <2> QED BY <1>4, <2>1 DEF Does
<1> QED BY <1>3, <1>4 DEF Does, j

\* The program of a read: the driver's, and an EMIT.
LEMMA ReadProg ==
  ASSUME NEW o, IsOp(o), o.kind = "read"
  PROVE  /\ Len(Prog(o)) = ReadLen(o.dev) + 1
         /\ \A n \in 0..ReadLen(o.dev) : n < ReadLen(o.dev) =>
              /\ Prog(o)[n + 1] = driver_read(o.dev, o.reg)[n + 1]
              /\ Prog(o)[n + 1].op # EMIT
         /\ Prog(o)[ReadLen(o.dev) + 1] = EmitReg0
<1> DEFINE F == driver_read(o.dev, o.reg)  l == ReadLen(o.dev)
<1>1. IsTarget(o.dev, o.reg) /\ IsArg(o.dev, IMM(o.val), o.val) BY DEF IsOp, IsArg
<1>2. IsCode(F) BY <1>1, DriverCode, TargetDrivers
<1>3. Len(F) = l /\ l \in Nat BY <1>1, TargetLengths, TargetDrivers
<1>4. Prog(o) = Append(F, EmitReg0) BY DEF Prog, raw_read
<1>5. /\ Len(Prog(o)) = l + 1 /\ Prog(o)[l + 1] = EmitReg0
      /\ \A i \in 1..l : Prog(o)[i] = F[i]
  BY <1>2, <1>3, <1>4, Appended
<1>6. \A i \in 1..l : F[i].op # EMIT
  <2>1. PICK S : F \in Seq(S) /\ \A i \in S : i.op # EMIT BY <1>2 DEF IsCode
  <2>2. \A i \in 1..l : F[i] \in S BY <1>3, <2>1, ElementOfSeq
  <2> QED BY <2>1, <2>2
<1> HIDE DEF F, l
<1>7. ASSUME NEW n \in 0..l, n < l PROVE n + 1 \in 1..l BY <1>3, <1>7
<1>8. ASSUME NEW n \in 0..l, n < l PROVE Prog(o)[n + 1] = F[n + 1] /\ Prog(o)[n + 1].op # EMIT
  BY <1>5, <1>6, <1>7, <1>8
<1> QED BY <1>5, <1>8 DEF F, l

\* The program of a write without a mask: the driver's.
LEMMA PlainProg ==
  ASSUME NEW o, IsOp(o), o.kind = "write", o.mask = 0
  PROVE  /\ Prog(o) = driver_write(o.dev, o.reg, IMM(o.val)) /\ Len(Prog(o)) = WriteLen(o.dev)
         /\ \A n \in 0..WriteLen(o.dev) : n < WriteLen(o.dev) => Prog(o)[n + 1].op # EMIT
<1> DEFINE F == driver_write(o.dev, o.reg, IMM(o.val))  l == WriteLen(o.dev)
<1>1. IsTarget(o.dev, o.reg) /\ IsArg(o.dev, IMM(o.val), o.val) BY DEF IsOp, IsArg
<1>2. IsCode(F) BY <1>1, DriverCode, TargetDrivers
<1>3. Len(F) = l /\ l \in Nat BY <1>1, TargetLengths, TargetDrivers
<1>4. Prog(o) = F BY DEF Prog, raw_write
<1>5. \A i \in 1..l : F[i].op # EMIT
  <2>1. PICK S : F \in Seq(S) /\ \A i \in S : i.op # EMIT BY <1>2 DEF IsCode
  <2>2. \A i \in 1..l : F[i] \in S BY <1>3, <2>1, ElementOfSeq
  <2> QED BY <2>1, <2>2
<1> HIDE DEF F, l
<1>6. ASSUME NEW n \in 0..l, n < l PROVE n + 1 \in 1..l BY <1>3, <1>6
<1>7. ASSUME NEW n \in 0..l, n < l PROVE Prog(o)[n + 1].op # EMIT BY <1>4, <1>5, <1>6, <1>7
<1> QED BY <1>3, <1>4, <1>7 DEF F, l

MaskInsn(o) == INSN(AND, REG(0), IMM(o.mask), REG(0))
DataInsn(o) == INSN(OR, REG(0), IMM(o.val), REG(0))

\* The program of a write with a mask: read, AND, OR, write.
LEMMA MaskedProg ==
  ASSUME NEW o, IsOp(o), o.kind = "write", o.mask # 0
  PROVE  LET l == ReadLen(o.dev)
         IN  /\ Len(Prog(o)) = l + 2 + l
             /\ \A n \in 0..l : n < l => Prog(o)[n + 1] = driver_read(o.dev, o.reg)[n + 1]
             /\ Prog(o)[l + 1] = MaskInsn(o) /\ Prog(o)[l + 2] = DataInsn(o)
             /\ \A k \in 0..l : k < l =>
                  Prog(o)[l + 2 + k + 1] = driver_write(o.dev, o.reg, REG(0))[k + 1]
             /\ \A i \in 1..(l + 2 + l) : Prog(o)[i].op # EMIT
<1> DEFINE F == driver_read(o.dev, o.reg)  G == driver_write(o.dev, o.reg, REG(0))
           M == <<MaskInsn(o), DataInsn(o)>>
           l == ReadLen(o.dev)
           H == F \o M
           P == H \o G
<1>1. IsTarget(o.dev, o.reg) /\ \A w \in Word : IsArg(o.dev, REG(0), w) BY DEF IsOp, IsArg
<1>2. IsCode(F) /\ IsCode(G) BY <1>1, DriverCode, TargetDrivers
<1>3. IsCode(M) BY NoEmits, Fragments DEF MaskInsn, DataInsn
<1>4. Len(F) = l /\ Len(G) = l /\ l \in Nat
  <2>1. o.val \in Word BY DEF IsOp
  <2>2. Len(F) = l /\ Len(G) = WriteLen(o.dev) BY <1>1, <2>1, TargetLengths
  <2> QED BY <1>1, <2>2, TargetDrivers
<1>5. Len(M) = 2 /\ M[1] = MaskInsn(o) /\ M[2] = DataInsn(o) OBVIOUS
<1>6. Prog(o) = P BY DEF Prog, raw_write, MaskInsn, DataInsn
<1> HIDE DEF F, G, M, l
<1>7. /\ IsCode(H) /\ Len(H) = l + 2 /\ \A i \in 1..l : H[i] = F[i]
      /\ \A i \in 1..2 : H[l + i] = M[i]
  <2>1. /\ IsCode(H) /\ Len(H) = Len(F) + Len(M)
        /\ \A i \in 1..Len(F) : H[i] = F[i]
        /\ \A i \in 1..Len(M) : H[Len(F) + i] = M[i]
    BY <1>2, <1>3, Concats
  <2> HIDE DEF H
  <2> QED BY <1>4, <1>5, <2>1
<1> HIDE DEF H
<1>8. /\ IsCode(P) /\ Len(P) = l + 2 + l /\ \A i \in 1..(l + 2) : P[i] = H[i]
      /\ \A i \in 1..l : P[l + 2 + i] = G[i]
  BY <1>2, <1>4, <1>7, Concats
<1> HIDE DEF P
<1>9. ASSUME NEW n \in 0..l, n < l PROVE P[n + 1] = F[n + 1]
  <2>1. n + 1 \in 1..l /\ n + 1 \in 1..(l + 2) BY <1>4, <1>9
  <2> QED BY <1>7, <1>8, <2>1
<1>10. P[l + 1] = M[1] /\ P[l + 2] = M[2]
  <2>1. 1 \in 1..2 /\ 2 \in 1..2 /\ l + 1 \in 1..(l + 2) /\ l + 2 \in 1..(l + 2) BY <1>4
  <2> QED BY <1>7, <1>8, <2>1
<1>11. ASSUME NEW k \in 0..l, k < l PROVE P[l + 2 + k + 1] = G[k + 1]
  <2>1. k + 1 \in 1..l /\ l + 2 + (k + 1) = l + 2 + k + 1 BY <1>4, <1>11
  <2> QED BY <1>8, <2>1
<1>12. \A i \in 1..(l + 2 + l) : P[i].op # EMIT
  <2>1. PICK S : P \in Seq(S) /\ \A i \in S : i.op # EMIT BY <1>8 DEF IsCode
  <2>2. \A i \in 1..(l + 2 + l) : P[i] \in S BY <1>8, <2>1, ElementOfSeq
  <2> QED BY <2>1, <2>2
<1> QED BY <1>5, <1>6, <1>8, <1>9, <1>10, <1>11, <1>12 DEF F, G, l

-------------------------------------------------------------------------------
(***************************************************************************)
(* One instruction of an operation's program.                              *)
(***************************************************************************)
OpDoes(o, n, r, d, d0, n2, r2, d2) ==
  /\ IsDev(d) /\ IsDev(d0) /\ r \in VmRegs /\ n \in Int /\ n < Len(Prog(o))
  /\ Prog(o)[n + 1] \in Insn /\ Does(Prog(o)[n + 1], n, r, d, n2, r2, d2)

\* What the instruction adds to what was emitted.
Emits(i, r, e) == IF i.op = EMIT THEN Append(e, Arg(r, i.arg0)) ELSE e

\* In the program of a read.
LEMMA ReadOpSteps ==
  ASSUME NEW o, IsOp(o), o.kind = "read", NEW n, NEW r, NEW d, NEW d0, NEW n2, NEW r2, NEW d2,
         OpDoes(o, n, r, d, d0, n2, r2, d2), NEW e, ReadOpAt(o, n, r, d, d0, e)
  PROVE  /\ ReadOpAt(o, n2, r2, d2, d0, Emits(Prog(o)[n + 1], r, e))
         /\ IsDev(d2) /\ r2 \in VmRegs
<1> DEFINE h == o.dev  l == ReadLen(h)
<1>1. IsTarget(h, o.reg) BY DEF IsOp
<1>2. l \in Nat /\ Len(Prog(o)) = l + 1 BY <1>1, ReadProg, TargetDrivers
<1>3. n \in Int /\ n < l + 1 BY <1>2 DEF OpDoes
<1>4. n \in 0..l /\ ReadAt(h, o.reg, n, r, d, d0) /\ e = <<>>
  <2>1. n # l + 1 BY <1>2, <1>3
  <2>2. ReadAt(h, o.reg, n, r, d, d0) /\ e = <<>> BY <2>1 DEF ReadOpAt
  <2> QED BY <2>2 DEF ReadAt
<1>5. CASE n < l
  <2>1. Prog(o)[n + 1] = driver_read(h, o.reg)[n + 1] /\ Prog(o)[n + 1].op # EMIT
    BY <1>4, <1>5, ReadProg
  <2>2. ReadStep(h, o.reg, n, r, d, d0, n2, r2, d2) BY <1>4, <1>5, <2>1 DEF ReadStep, OpDoes
  <2>3. ReadAt(h, o.reg, n2, r2, d2, d0) /\ IsDev(d2) /\ r2 \in VmRegs
    BY <1>1, <2>2, TargetReads DEF ReadSteps
  <2>4. n2 \in 0..l BY <2>3 DEF ReadAt
  <2>5. n2 <= l BY <1>2, <2>4
  <2>6. Emits(Prog(o)[n + 1], r, e) = <<>> BY <1>4, <2>1 DEF Emits
  <2> QED BY <2>3, <2>5, <2>6 DEF ReadOpAt
<1>6. CASE n = l
  <2>1. Prog(o)[n + 1] = EmitReg0 BY <1>6, ReadProg
  <2>2. EmitReg0.op = EMIT /\ Arg(r, EmitReg0.arg0) = r[0]
    BY InsnFields, RegArg DEF EmitReg0
  <2>3. n2 = n + 1 /\ r2 = r /\ d2 = d
    <3>1. Does(EmitReg0, n, r, d, n2, r2, d2) BY <2>1 DEF OpDoes
    <3>2. EMIT \notin {AND, OR, ADD} /\ EMIT \notin {JEQ, JNE} /\ EMIT # READ /\ EMIT # WRITE
      BY SMTT(10) DEF READ, WRITE, AND, OR, ADD, JEQ, JNE, EMIT
    <3> QED BY <2>2, <3>1, <3>2 DEF Does
  <2>4. Same(d, d0) /\ r[0] = Shown(h, o.reg, d0)
    BY <1>1, <1>4, <1>6, ReadEnds DEF OpDoes
  <2>5. Emits(Prog(o)[n + 1], r, e) = <<Shown(h, o.reg, d0)>>
    <3>1. Emits(Prog(o)[n + 1], r, e) = Append(<<>>, r[0]) BY <1>4, <2>1, <2>2 DEF Emits
    <3> QED BY <2>4, <3>1
  <2> QED BY <1>6, <2>3, <2>4, <2>5 DEF ReadOpAt, OpDoes
<1>7. n < l \/ n = l BY <1>2, <1>4
<1> QED BY <1>5, <1>6, <1>7

\* In the program of a write without a mask.
LEMMA PlainOpSteps ==
  ASSUME NEW o, IsOp(o), o.kind = "write", o.mask = 0,
         NEW n, NEW r, NEW d, NEW d0, NEW n2, NEW r2, NEW d2,
         OpDoes(o, n, r, d, d0, n2, r2, d2), NEW e, PlainOpAt(o, n, r, d, d0, e)
  PROVE  /\ PlainOpAt(o, n2, r2, d2, d0, Emits(Prog(o)[n + 1], r, e))
         /\ IsDev(d2) /\ r2 \in VmRegs
<1> DEFINE h == o.dev  l == WriteLen(h)  v == IMM(o.val)
<1>1. IsTarget(h, o.reg) /\ IsArg(h, v, o.val) BY DEF IsOp, IsArg
<1>2. WriteAt(h, o.reg, v, o.val, n, r, d, d0) /\ e = <<>> BY DEF PlainOpAt
<1>3. n \in 0..l BY <1>2 DEF WriteAt
<1>4. Prog(o) = driver_write(h, o.reg, v) /\ Len(Prog(o)) = l BY PlainProg
<1>5. n < l BY <1>4 DEF OpDoes
<1>6. WriteStep(h, o.reg, v, o.val, n, r, d, d0, n2, r2, d2)
  BY <1>2, <1>4, <1>5 DEF WriteStep, OpDoes
<1>7. WriteAt(h, o.reg, v, o.val, n2, r2, d2, d0) /\ IsDev(d2) /\ r2 \in VmRegs
  BY <1>1, <1>6, TargetWrites DEF WriteSteps
<1>8. Prog(o)[n + 1].op # EMIT BY <1>3, <1>5, PlainProg
<1>9. Emits(Prog(o)[n + 1], r, e) = <<>> BY <1>2, <1>8 DEF Emits
<1> QED BY <1>7, <1>9 DEF PlainOpAt

\* In the program of a write with a mask.
LEMMA MaskedOpSteps ==
  ASSUME NEW o, IsOp(o), o.kind = "write", o.mask # 0,
         NEW n, NEW r, NEW d, NEW d0, NEW n2, NEW r2, NEW d2,
         OpDoes(o, n, r, d, d0, n2, r2, d2), NEW e, MaskedOpAt(o, n, r, d, d0, e)
  PROVE  /\ MaskedOpAt(o, n2, r2, d2, d0, Emits(Prog(o)[n + 1], r, e))
         /\ IsDev(d2) /\ r2 \in VmRegs
<1> DEFINE h == o.dev  l == ReadLen(h)  w == Datum(o, d0)
<1>1. /\ IsTarget(h, o.reg) /\ o.mask \in Word /\ o.val \in Word
      /\ \A u \in Word : IsArg(h, REG(0), u)
  BY DEF IsOp, IsArg
<1>2. l \in Nat /\ WriteLen(h) = l /\ Len(Prog(o)) = l + 2 + l BY <1>1, MaskedProg, TargetDrivers
<1>3. n \in Int /\ n < l + 2 + l BY <1>2 DEF OpDoes
<1>4. e = <<>> BY DEF MaskedOpAt
<1>5. w = BitOr(Masked(o, d0), o.val) /\ w \in Word BY BitOrWord DEF Datum
<1> HIDE DEF w
<1>6. Prog(o)[n + 1].op # EMIT
  <2>1. n <= l /\ ReadAt(h, o.reg, n, r, d, d0) => n \in 0..l BY DEF ReadAt
  <2>2. n >= 0 BY <1>2, <1>3, <2>1 DEF MaskedOpAt
  <2>3. n + 1 \in 1..(l + 2 + l) BY <1>2, <1>3, <2>2
  <2> QED BY <2>3, MaskedProg
<1>7. Emits(Prog(o)[n + 1], r, e) = <<>> BY <1>4, <1>6 DEF Emits
<1>8. CASE n < l /\ ReadAt(h, o.reg, n, r, d, d0)
  <2>0. n \in 0..l BY <1>8 DEF ReadAt
  <2>1. Prog(o)[n + 1] = driver_read(h, o.reg)[n + 1] BY <1>8, <2>0, MaskedProg
  <2>2. ReadStep(h, o.reg, n, r, d, d0, n2, r2, d2) BY <1>8, <2>1 DEF ReadStep, OpDoes
  <2>3. ReadAt(h, o.reg, n2, r2, d2, d0) /\ IsDev(d2) /\ r2 \in VmRegs
    BY <1>1, <2>2, TargetReads DEF ReadSteps
  <2>4. n2 \in 0..l BY <2>3 DEF ReadAt
  <2>5. n2 <= l BY <1>2, <2>4
  <2>6. MaskedOpAt(o, n2, r2, d2, d0, <<>>) BY <2>3, <2>5 DEF MaskedOpAt
  <2> QED BY <1>7, <2>3, <2>6
<1>9. CASE n = l /\ ReadAt(h, o.reg, n, r, d, d0)
  <2>1. Same(d, d0) /\ r[0] = Shown(h, o.reg, d0) BY <1>1, <1>9, ReadEnds DEF OpDoes
  <2>2. Prog(o)[n + 1] = MaskInsn(o) BY <1>9, MaskedProg
  <2>3. Does(INSN(AND, REG(0), IMM(o.mask), REG(0)), n, r, d, n2, r2, d2) /\ r \in VmRegs
    BY <2>2 DEF OpDoes, MaskInsn
  <2>4. n2 = n + 1 /\ d2 = d /\ r2 \in VmRegs /\ r2[0] = BitAnd(r[0], o.mask)
    BY <1>1, <2>3, DoesLogic
  <2>5. r2[0] = Masked(o, d0) BY <2>1, <2>4 DEF Masked
  <2>6. n2 = l + 1 /\ Same(d2, d0) BY <1>9, <2>1, <2>4
  <2>7. MaskedOpAt(o, n2, r2, d2, d0, <<>>) BY <2>5, <2>6 DEF MaskedOpAt
  <2> QED BY <1>7, <2>4, <2>7 DEF OpDoes
<1>10. CASE n = l + 1 /\ Same(d, d0) /\ r[0] = Masked(o, d0)
  <2>1. n + 1 = l + 2 BY <1>2, <1>10
  <2>2. Prog(o)[n + 1] = DataInsn(o) BY <2>1, MaskedProg
  <2>3. Does(INSN(OR, REG(0), IMM(o.val), REG(0)), n, r, d, n2, r2, d2) /\ r \in VmRegs
    BY <2>2 DEF OpDoes, DataInsn
  <2>4. n2 = n + 1 /\ d2 = d /\ r2 \in VmRegs /\ r2[0] = BitOr(r[0], o.val)
    BY <1>1, <2>3, DoesLogic, OpCodes
  <2>5. r2[0] = w BY <1>5, <1>10, <2>4
  <2>6. Arg(r2, REG(0)) = w
    <3>1. 0 \in 0..7 OBVIOUS
    <3> QED BY <2>5, <3>1, RegArg
  <2>7. WriteAt(h, o.reg, REG(0), w, 0, r2, d2, d0) BY <1>1, <1>10, <2>4, <2>6, Starts DEF OpDoes
  <2>8. n2 >= l + 2 /\ n2 - l - 2 = 0 BY <1>2, <1>10, <2>4
  <2>9. MaskedOpAt(o, n2, r2, d2, d0, <<>>) BY <2>7, <2>8 DEF MaskedOpAt, w
  <2> QED BY <1>7, <2>4, <2>9 DEF OpDoes
<1>11. CASE n >= l + 2 /\ WriteAt(h, o.reg, REG(0), w, n - l - 2, r, d, d0)
  <2> DEFINE k == n - l - 2  m == l + 2
  <2>1. k \in 0..l /\ k < l /\ m \in Int /\ n - m = k /\ l + 2 + k + 1 = n + 1 BY <1>2, <1>3, <1>11
  <2>2. Prog(o)[n + 1] = driver_write(h, o.reg, REG(0))[k + 1] BY <2>1, MaskedProg
  <2>3. n2 \in Int /\ Does(Prog(o)[n + 1], n - m, r, d, n2 - m, r2, d2)
    BY <1>3, <2>1, Shifts DEF OpDoes
  <2>4. WriteAt(h, o.reg, REG(0), w, k, r, d, d0) BY <1>11
  <2> HIDE DEF k
  <2>5. WriteStep(h, o.reg, REG(0), w, k, r, d, d0, n2 - m, r2, d2)
    BY <1>2, <2>1, <2>2, <2>3, <2>4 DEF WriteStep, OpDoes
  <2>6. WriteAt(h, o.reg, REG(0), w, n2 - m, r2, d2, d0) /\ IsDev(d2) /\ r2 \in VmRegs
    BY <1>1, <1>5, <2>5, TargetWrites DEF WriteSteps
  <2>7. n2 - m \in 0..l BY <1>2, <2>6 DEF WriteAt
  <2>8. n2 >= l + 2 /\ n2 - l - 2 = n2 - m BY <1>2, <2>3, <2>7
  <2>9. MaskedOpAt(o, n2, r2, d2, d0, <<>>) BY <2>6, <2>8 DEF MaskedOpAt, w
  <2> QED BY <1>7, <2>6, <2>9
<1>12. n <= l => n < l \/ n = l BY <1>2, <1>3
<1> QED BY <1>8, <1>9, <1>10, <1>11, <1>12 DEF MaskedOpAt, w

\* Every instruction of an operation's program leads to the assertion of the next.
LEMMA OpSteps ==
  ASSUME NEW o, IsOp(o), NEW n, NEW r, NEW d, NEW d0, NEW n2, NEW r2, NEW d2,
         OpDoes(o, n, r, d, d0, n2, r2, d2), NEW e, At(o, n, r, d, d0, e)
  PROVE  /\ At(o, n2, r2, d2, d0, Emits(Prog(o)[n + 1], r, e))
         /\ IsDev(d2) /\ r2 \in VmRegs
<1>1. CASE o.kind = "read" BY <1>1, ReadOpSteps DEF At
<1>2. CASE o.kind = "write" /\ o.mask = 0 BY <1>2, PlainOpSteps DEF At
<1>3. CASE o.kind = "write" /\ o.mask # 0 BY <1>3, MaskedOpSteps DEF At
<1> QED BY <1>1, <1>2, <1>3 DEF IsOp

-------------------------------------------------------------------------------
(***************************************************************************)
(* What an operation has done at its end.                                  *)
(***************************************************************************)

\* One binary digit of a number.
Digit(n, p) == IF Bit(n, p) THEN p ELSE 0

\* The digits of a word add up to it.
LEMMA Digits ==
  ASSUME NEW n \in Word
  PROVE  n = Digit(n, 1) + Digit(n, 2) + Digit(n, 4) + Digit(n, 8) + Digit(n, 16) + Digit(n, 32)
             + Digit(n, 64) + Digit(n, 128) + Digit(n, 256) + Digit(n, 512) + Digit(n, 1024)
             + Digit(n, 2048) + Digit(n, 4096) + Digit(n, 8192) + Digit(n, 16384) + Digit(n, 32768)
<1>0. n \in Int /\ 0 <= n /\ n < 65536 BY WordInt, WordIs, SMTT(10) DEF U16
<1>1. Digit(n, 1) = 1 * (n \div 1) - 2 * (n \div 2) BY <1>0, SMTT(10) DEF Digit, Bit
<1>2. Digit(n, 2) = 2 * (n \div 2) - 4 * (n \div 4) BY <1>0, SMTT(10) DEF Digit, Bit
<1>3. Digit(n, 4) = 4 * (n \div 4) - 8 * (n \div 8) BY <1>0, SMTT(10) DEF Digit, Bit
<1>4. Digit(n, 8) = 8 * (n \div 8) - 16 * (n \div 16) BY <1>0, SMTT(10) DEF Digit, Bit
<1>5. Digit(n, 16) = 16 * (n \div 16) - 32 * (n \div 32) BY <1>0, SMTT(10) DEF Digit, Bit
<1>6. Digit(n, 32) = 32 * (n \div 32) - 64 * (n \div 64) BY <1>0, SMTT(10) DEF Digit, Bit
<1>7. Digit(n, 64) = 64 * (n \div 64) - 128 * (n \div 128) BY <1>0, SMTT(10) DEF Digit, Bit
<1>8. Digit(n, 128) = 128 * (n \div 128) - 256 * (n \div 256) BY <1>0, SMTT(10) DEF Digit, Bit
<1>9. Digit(n, 256) = 256 * (n \div 256) - 512 * (n \div 512) BY <1>0, SMTT(10) DEF Digit, Bit
<1>10. Digit(n, 512) = 512 * (n \div 512) - 1024 * (n \div 1024) BY <1>0, SMTT(10) DEF Digit, Bit
<1>11. Digit(n, 1024) = 1024 * (n \div 1024) - 2048 * (n \div 2048) BY <1>0, SMTT(10) DEF Digit, Bit
<1>12. Digit(n, 2048) = 2048 * (n \div 2048) - 4096 * (n \div 4096) BY <1>0, SMTT(10) DEF Digit, Bit
<1>13. Digit(n, 4096) = 4096 * (n \div 4096) - 8192 * (n \div 8192) BY <1>0, SMTT(10) DEF Digit, Bit
<1>14. Digit(n, 8192) = 8192 * (n \div 8192) - 16384 * (n \div 16384) BY <1>0, SMTT(10) DEF Digit, Bit
<1>15. Digit(n, 16384) = 16384 * (n \div 16384) - 32768 * (n \div 32768) BY <1>0, SMTT(10) DEF Digit, Bit
<1>16. Digit(n, 32768) = 32768 * (n \div 32768) - 65536 * (n \div 65536) BY <1>0, SMTT(10) DEF Digit, Bit
<1>17. n \div 1 = n /\ n \div 65536 = 0 BY <1>0, SMTT(10)
<1> DEFINE q1 == n \div 2
           q2 == n \div 4
           q3 == n \div 8
           q4 == n \div 16
           q5 == n \div 32
           q6 == n \div 64
           q7 == n \div 128
           q8 == n \div 256
           q9 == n \div 512
           q10 == n \div 1024
           q11 == n \div 2048
           q12 == n \div 4096
           q13 == n \div 8192
           q14 == n \div 16384
           q15 == n \div 32768
<1>18. q1 \in Int /\ q2 \in Int /\ q3 \in Int /\ q4 \in Int /\ q5 \in Int /\ q6 \in Int /\ q7 \in Int /\ q8 \in Int
  BY <1>0, SMTT(10)
<1>19. q9 \in Int /\ q10 \in Int /\ q11 \in Int /\ q12 \in Int /\ q13 \in Int /\ q14 \in Int /\ q15 \in Int
  BY <1>0, SMTT(10)
<1> HIDE DEF q1, q2, q3, q4, q5, q6, q7, q8, q9, q10, q11, q12, q13, q14, q15
<1>20. Digit(n, 1) = 1 * n - 2 * q1 BY <1>1, <1>17 DEF q1
<1>21. Digit(n, 2) = 2 * q1 - 4 * q2 BY <1>2, <1>17 DEF q1, q2
<1>22. Digit(n, 4) = 4 * q2 - 8 * q3 BY <1>3, <1>17 DEF q2, q3
<1>23. Digit(n, 8) = 8 * q3 - 16 * q4 BY <1>4, <1>17 DEF q3, q4
<1>24. Digit(n, 16) = 16 * q4 - 32 * q5 BY <1>5, <1>17 DEF q4, q5
<1>25. Digit(n, 32) = 32 * q5 - 64 * q6 BY <1>6, <1>17 DEF q5, q6
<1>26. Digit(n, 64) = 64 * q6 - 128 * q7 BY <1>7, <1>17 DEF q6, q7
<1>27. Digit(n, 128) = 128 * q7 - 256 * q8 BY <1>8, <1>17 DEF q7, q8
<1>28. Digit(n, 256) = 256 * q8 - 512 * q9 BY <1>9, <1>17 DEF q8, q9
<1>29. Digit(n, 512) = 512 * q9 - 1024 * q10 BY <1>10, <1>17 DEF q9, q10
<1>30. Digit(n, 1024) = 1024 * q10 - 2048 * q11 BY <1>11, <1>17 DEF q10, q11
<1>31. Digit(n, 2048) = 2048 * q11 - 4096 * q12 BY <1>12, <1>17 DEF q11, q12
<1>32. Digit(n, 4096) = 4096 * q12 - 8192 * q13 BY <1>13, <1>17 DEF q12, q13
<1>33. Digit(n, 8192) = 8192 * q13 - 16384 * q14 BY <1>14, <1>17 DEF q13, q14
<1>34. Digit(n, 16384) = 16384 * q14 - 32768 * q15 BY <1>15, <1>17 DEF q14, q15
<1>35. Digit(n, 32768) = 32768 * q15 - 65536 * 0 BY <1>16, <1>17 DEF q15
<1> QED BY <1>0, <1>18, <1>19, <1>20, <1>21, <1>22, <1>23, <1>24, <1>25, <1>26, <1>27, <1>28, <1>29, <1>30, <1>31, <1>32, <1>33, <1>34, <1>35, SMTT(30)

\* No mask is mask zero: nothing is kept of the old value.
LEMMA NoMask ==
  ASSUME NEW c, NEW n \in Word PROVE BitOr(BitAnd(c, 0), n) = n
<1>1. \A p \in {1, 2, 4, 8, 16, 32, 64, 128, 256, 512, 1024, 2048, 4096, 8192, 16384, 32768} : ~Bit(0, p)
  BY SMTT(10) DEF Bit
<1>2. BitAnd(c, 0) = 0 BY <1>1, SMTT(10) DEF BitAnd, SumBits
<1>3. BitOr(0, n) = n BY <1>1, Digits, SMTT(10) DEF BitOr, SumBits, Digit
<1> QED BY <1>2, <1>3

\* An operation is at the start of its program when it gets the bus lock.
LEMMA OpStarts ==
  ASSUME NEW o, IsOp(o), NEW r, NEW d, IsDev(d) PROVE At(o, 0, r, d, d, <<>>)
<1>1. IsTarget(o.dev, o.reg) /\ Same(d, d) BY DEF IsOp, Same
<1>2. ReadAt(o.dev, o.reg, 0, r, d, d) BY <1>1, Starts
<1>3. Arg(r, IMM(o.val)) = o.val BY ImmArg DEF IsOp
<1>4. WriteAt(o.dev, o.reg, IMM(o.val), o.val, 0, r, d, d) BY <1>1, <1>3, Starts
<1>5. ReadLen(o.dev) \in Nat BY <1>1, TargetDrivers
<1>6. 0 <= ReadLen(o.dev) BY <1>5
<1> QED BY <1>2, <1>4, <1>6 DEF At, ReadOpAt, PlainOpAt, MaskedOpAt

\* It stays in its program, or just behind it, and there it is done.
LEMMA OpEnds ==
  ASSUME NEW o, IsOp(o), NEW n \in Int, NEW r, NEW d, NEW d0, IsDev(d0), NEW e, At(o, n, r, d, d0, e)
  PROVE  /\ 0 <= n /\ n <= Len(Prog(o)) /\ Len(Prog(o)) \in 0..14
         /\ n = Len(Prog(o)) => Performed(o, d, d0, e)
<1> DEFINE h == o.dev  l == ReadLen(h)
<1>1. IsTarget(h, o.reg) BY DEF IsOp
<1>2. l \in 1..6 /\ WriteLen(h) = l BY <1>1, TargetDrivers
<1>3. CASE o.kind = "read"
  <2>1. Len(Prog(o)) = l + 1 BY <1>3, ReadProg
  <2>2. ReadOpAt(o, n, r, d, d0, e) BY <1>3 DEF At
  <2>3. CASE n = l + 1 /\ Same(d, d0) /\ e = <<Shown(h, o.reg, d0)>>
    BY <1>2, <1>3, <2>1, <2>3 DEF Performed
  <2>4. CASE n <= l /\ ReadAt(h, o.reg, n, r, d, d0)
    <3>1. n \in 0..l BY <2>4 DEF ReadAt
    <3> HIDE DEF l
    <3> QED BY <1>2, <2>1, <3>1
  <2> QED BY <2>2, <2>3, <2>4 DEF ReadOpAt
<1>4. CASE o.kind = "write" /\ o.mask = 0
  <2>1. Len(Prog(o)) = l BY <1>2, <1>4, PlainProg
  <2>2. WriteAt(h, o.reg, IMM(o.val), o.val, n, r, d, d0) /\ e = <<>>
    BY <1>4 DEF At, PlainOpAt
  <2>3. n \in 0..l BY <1>2, <2>2 DEF WriteAt
  <2>4. n = l => Wrote(h, o.reg, o.val, d, d0) BY <1>1, <1>2, <2>2, WriteEnds
  <2>5. n = l => Performed(o, d, d0, e) BY <1>4, <2>2, <2>4 DEF Performed, Datum
  <2> HIDE DEF l
  <2> QED BY <1>2, <2>1, <2>3, <2>5
<1>5. CASE o.kind = "write" /\ o.mask # 0
  <2>1. Len(Prog(o)) = l + 2 + l BY <1>5, MaskedProg
  <2>2. MaskedOpAt(o, n, r, d, d0, e) BY <1>5 DEF At
  <2>3. CASE n <= l /\ ReadAt(h, o.reg, n, r, d, d0)
    <3>1. n \in 0..l BY <2>3 DEF ReadAt
    <3> HIDE DEF l
    <3> QED BY <1>2, <2>1, <3>1
  <2>4. CASE n = l + 1 BY <1>2, <2>1, <2>4
  <2>5. CASE n >= l + 2 /\ WriteAt(h, o.reg, REG(0), Datum(o, d0), n - l - 2, r, d, d0)
    <3> DEFINE k == n - l - 2
    <3>1. k \in 0..l BY <1>2, <2>5 DEF WriteAt
    <3>2. n = l + 2 + k BY <1>2, <3>1
    <3>3. k = l => Wrote(h, o.reg, Datum(o, d0), d, d0) BY <1>1, <1>2, <2>5, WriteEnds
    <3>5. k = l => Performed(o, d, d0, e) BY <1>5, <2>2, <3>3 DEF Performed, MaskedOpAt
    <3> HIDE DEF l, k
    <3> QED BY <1>2, <2>1, <3>1, <3>2, <3>5
  <2> QED BY <2>2, <2>3, <2>4, <2>5 DEF MaskedOpAt
<1> QED BY <1>3, <1>4, <1>5 DEF IsOp

\* An operation reaches the device its handle is on.
LEMMA Reaching ==
  ASSUME NEW o, NEW d
  PROVE  /\ Reaches(o.dev, View(d)) <=> On(o.dev, d)
         /\ View(d).kind = d.kind /\ View(d).cells = d.cells
  BY DEF Reaches, View, On

\* What a write operation stores is what it was asked to.
LEMMA Effects ==
  ASSUME NEW o, IsOp(o), o.kind = "write", NEW d, NEW d0, IsDev(d0), d.kind = d0.kind,
         d.cells = Stored(o.dev, o.reg, Datum(o, d0), d0)
  PROVE  View(d) = Effect(o, View(d0))
<1> DEFINE v == View(d0)
<1>1. v = [kind |-> d0.kind, cells |-> d0.cells] BY DEF View
<1>2. CASE On(o.dev, d0) /\ o.reg \in DOMAIN d0.cells
  <2> DEFINE c == d0.cells[o.reg]  w == BitOr(BitAnd(c, o.mask), o.val)
  <2>1. Shown(o.dev, o.reg, d0) = c BY <1>2 DEF Shown
  <2>2. Datum(o, d0) = w
    <3>1. o.mask = 0 => w = o.val BY NoMask DEF IsOp
    <3> QED BY <2>1, <3>1 DEF Datum, Masked
  <2>3. d.cells = [d0.cells EXCEPT ![o.reg] = w] BY <1>2, <2>2 DEF Stored
  <2>4. Effect(o, v) = [v EXCEPT !.cells[o.reg] = w]
    <3>1. Reaches(o.dev, v) /\ o.reg \in DOMAIN v.cells /\ v.cells[o.reg] = c BY <1>2, Reaching
    <3> QED BY <3>1 DEF Effect
  <2> HIDE DEF w
  <2>5. [v EXCEPT !.cells[o.reg] = w] = [kind |-> d0.kind, cells |-> [d0.cells EXCEPT ![o.reg] = w]]
    BY <1>1
  <2> QED BY <2>3, <2>4, <2>5 DEF View
<1>3. CASE ~(On(o.dev, d0) /\ o.reg \in DOMAIN d0.cells)
  <2>1. d.cells = d0.cells BY <1>3 DEF Stored
  <2>2. Effect(o, v) = v BY <1>3, Reaching DEF Effect
  <2> QED BY <2>1, <2>2 DEF View
<1> QED BY <1>2, <1>3

\* On the way the registers are untouched, or the operation has taken effect.
LEMMA OpView ==
  ASSUME NEW o, IsOp(o), NEW n, NEW r, NEW d, NEW d0, IsDev(d0), NEW e, At(o, n, r, d, d0, e)
  PROVE  View(d) \in {View(d0), Effect(o, View(d0))}
<1>1. ASSUME d.kind = d0.kind, d.cells = d0.cells PROVE View(d) = View(d0) BY <1>1 DEF View
<1>2. ASSUME Same(d, d0) PROVE View(d) = View(d0) BY <1>1, <1>2 DEF Same
<1>3. ASSUME NEW k, ReadAt(o.dev, o.reg, k, r, d, d0) PROVE View(d) = View(d0)
  BY <1>1, <1>3, OnTheWay
<1>4. ASSUME NEW k, NEW v, WriteAt(o.dev, o.reg, v, Datum(o, d0), k, r, d, d0), o.kind = "write"
      PROVE  View(d) \in {View(d0), Effect(o, View(d0))}
  <2>1. d.kind = d0.kind /\ d.cells \in {d0.cells, Stored(o.dev, o.reg, Datum(o, d0), d0)}
    BY <1>4, OnTheWay
  <2> QED BY <1>1, <1>4, <2>1, Effects
<1>5. CASE o.kind = "read" BY <1>2, <1>3, <1>5 DEF At, ReadOpAt
<1>6. CASE o.kind = "write" /\ o.mask = 0 BY <1>4, <1>6 DEF At, PlainOpAt, Datum
<1>7. CASE o.kind = "write" /\ o.mask # 0 BY <1>2, <1>3, <1>4, <1>7 DEF At, MaskedOpAt
<1> QED BY <1>5, <1>6, <1>7 DEF IsOp

\* An operation that is done has had its effect and has shown what it reads.
LEMMA OpDone ==
  ASSUME NEW o, IsOp(o), NEW d, NEW d0, IsDev(d0), NEW e, Performed(o, d, d0, e)
  PROVE  View(d) = Effect(o, View(d0)) /\ e = Shows(o, View(d0))
<1>1. CASE o.kind = "read"
  <2>1. Same(d, d0) /\ e = <<Shown(o.dev, o.reg, d0)>> BY <1>1 DEF Performed
  <2>2. View(d) = View(d0) BY <2>1 DEF Same, View
  <2>3. Effect(o, View(d0)) = View(d0) BY <1>1 DEF Effect
  <2>4. Shows(o, View(d0)) = <<Shown(o.dev, o.reg, d0)>>
    BY <1>1, Reaching DEF Shows, Shown
  <2> QED BY <2>1, <2>2, <2>3, <2>4
<1>2. CASE o.kind = "write"
  <2>1. Wrote(o.dev, o.reg, Datum(o, d0), d, d0) /\ e = <<>> BY <1>2 DEF Performed
  <2>2. View(d) = Effect(o, View(d0)) BY <1>2, <2>1, Effects DEF Wrote
  <2>3. Shows(o, View(d0)) = <<>> BY <1>2 DEF Shows
  <2> QED BY <2>1, <2>2, <2>3
<1> QED BY <1>1, <1>2 DEF IsOp

\* It has left a paged PHY on its page, unless it wrote the page register.
LEMMA OpPage ==
  ASSUME NEW o, IsOp(o), NEW d, NEW d0, NEW e, Performed(o, d, d0, e), Paged(d), ~WritesPageReg(o)
  PROVE  d.sel = d0.sel
<1>1. CASE o.kind = "read"
  <2>1. Same(d, d0) BY <1>1 DEF Performed
  <2> QED BY <2>1 DEF Same, Paged
<1>2. CASE o.kind = "write"
  <2>1. Wrote(o.dev, o.reg, Datum(o, d0), d, d0) BY <1>2 DEF Performed
  <2>2. ~IsPageReg(o.dev, o.reg)
    <3>1. CASE o.dev.drv = "mva" BY <1>2, <3>1 DEF WritesPageReg, IsPageReg
    <3>2. CASE o.dev.drv = "mscc"
      <4>1. o.dev = Handle("mscc") /\ o.reg \in Registers("mscc")
        <5>1. PagedTarget(o.dev, o.reg)
          BY <3>2, HandleDrvs DEF IsOp, IsTarget, DirectHandle, IsC22, IsMvls, IsXrs
        <5> QED BY <3>2, <5>1, HandleDrvs DEF PagedTarget
      <4>2. o.reg \in Nat /\ o.reg % 65536 \in (0..31) \ {31}
        BY <4>1, RegistersAssumption, HandleIds
      <4>3. \A n \in Nat : n % 65536 \in (0..31) \ {31} => n % 32 # 31 BY SMTT(10)
      <4>4. o.dev.page_reg = 31 BY <4>1, HandleIds
      <4> QED BY <4>2, <4>3, <4>4 DEF IsPageReg
    <3> QED BY <3>1, <3>2 DEF IsPageReg
  <2> QED BY <2>1, <2>2 DEF Wrote, Paged
<1> QED BY <1>1, <1>2 DEF IsOp

-------------------------------------------------------------------------------
\* What the kernel module finds on the bus is the device, and what clients send are
\* register operations, masked writes of an xrs excepted.
Bus ==
  /\ DevInit = Devices /\ Requests = OpRequests /\ XrsMasked = FALSE
  /\ \A d, a, r : DevRead(d, a, r) = BusRead(d, a, r)
  /\ \A d, a, r, v : DevWrite(d, a, r, v) = BusWrite(d, a, r, v)
  /\ \A d : OtherAccess(d) = BusOther(d)


-------------------------------------------------------------------------------
(***************************************************************************)
(* The VM runs the operations' programs.                                   *)
(***************************************************************************)

\* A request is for an operation, and carries that operation's program.
LEMMA OpRequest ==
  ASSUME Bus, NEW q \in OpRequests
  PROVE  IsOp(q.op) /\ q.op \in Ops /\ q.prog = Prog(q.op)
<1>1. PICK o \in Ops : q = [attrs |-> TRUE, known |-> TRUE, aligned |-> TRUE, prog |-> Prog(o), op |-> o]
  BY DEF OpRequests
<1>2. q.op = o /\ q.prog = Prog(o) BY <1>1
<1> QED BY <1>2, OpForms DEF Bus

\* What a step of the VM that does not leave the loop does to transfer x.
VmStep(x, n2) ==
  /\ Does(insn(x), pc[x], regs[x], dev, n2, regs'[x], dev')
  /\ pc'[x] = n2 % PcSpan
  /\ emitted'[x] = Emits(insn(x), regs[x], emitted[x])
  /\ stage' = stage /\ req' = req /\ ret' = ret /\ dev0' = dev0 /\ lock' = lock
  /\ \A y \in Xfers \ {x} : /\ pc'[y] = pc[y] /\ regs'[y] = regs[y]
                            /\ emitted'[y] = emitted[y]

\* An operand is the value the VM's accessor gives.
LEMMA Operands ==
  ASSUME NEW x PROVE \A a : Arg(regs[x], a) = arg_ri(x, a)
  BY DEF Arg, arg_ri

\* A step of the VM is its instruction.
LEMMA VmSteps ==
  ASSUME Bus, TypeOK, NEW x \in Xfers, stage' = stage,
         ReadInsn(x) \/ WriteInsn(x) \/ AluInsn(x) \/ JumpInsn(x) \/ EmitInsn(x)
  PROVE  \E n2 : VmStep(x, n2)
<1> DEFINE i == insn(x)  r == regs[x]  n == pc[x]
<1>1. A0(x) = Arg(r, i.arg0) /\ A1(x) = Arg(r, i.arg1) /\ A2(x) = Arg(r, i.arg2)
  BY Operands DEF A0, A1, A2
<1>2. i.arg2 % 8 \in Regs
  <2>1. Running(x) BY DEF ReadInsn, WriteInsn, AluInsn, JumpInsn, EmitInsn
  <2> QED BY <2>1, OperandWords
<1>3. ASSUME NEW k, Goto(x, k)
      PROVE  pc'[x] = k % PcSpan /\ \A y \in Xfers \ {x} : pc'[y] = pc[y]
  BY <1>3 DEF Goto, TypeOK
<1>4. ASSUME NEW w, SetReg(x, w)
      PROVE  Changed(regs'[x], r, i.arg2 % 8, w) /\ \A y \in Xfers \ {x} : regs'[y] = regs[y]
  BY <1>4 DEF SetReg, TypeOK, Changed
<1>5. CASE ReadInsn(x)
  <2>1. PICK o \in DevRead(dev, BusAddr(A0(x)), A1(x)) :
          o.val \in Word /\ SetReg(x, o.val) /\ dev' = o.dev
    BY <1>5 DEF ReadInsn
  <2>2. o \in BusRead(dev, BusAddr(Arg(r, i.arg0)), Arg(r, i.arg1)) BY <1>1, <2>1 DEF Bus
  <2>3. /\ i.op = READ /\ Goto(x, n + 1) /\ emitted' = emitted
        /\ req' = req /\ ret' = ret /\ dev0' = dev0 /\ lock' = lock
    BY <1>5 DEF ReadInsn, GoOn, msgVars
  <2>4. Changed(regs'[x], r, i.arg2 % 8, o.val) BY <1>4, <2>1
  <2>5. Does(i, n, r, dev, n + 1, regs'[x], dev') BY <2>1, <2>2, <2>3, <2>4 DEF Does
  <2>6. Emits(i, r, emitted[x]) = emitted[x] BY <2>3, OpCodes DEF Emits
  <2>7. VmStep(x, n + 1) BY <1>3, <1>4, <2>1, <2>3, <2>5, <2>6 DEF VmStep
  <2> QED BY <2>7
<1>6. CASE WriteInsn(x)
  <2>1. dev' \in BusWrite(dev, BusAddr(Arg(r, i.arg0)), Arg(r, i.arg1), Arg(r, i.arg2))
    BY <1>1, <1>6 DEF WriteInsn, Bus
  <2>3. /\ i.op = WRITE /\ Goto(x, n + 1) /\ emitted' = emitted /\ regs' = regs
        /\ req' = req /\ ret' = ret /\ dev0' = dev0 /\ lock' = lock
    BY <1>6 DEF WriteInsn, GoOn, msgVars
  <2>5. Does(i, n, r, dev, n + 1, regs'[x], dev') BY <2>1, <2>3 DEF Does
  <2>6. Emits(i, r, emitted[x]) = emitted[x] BY <2>3, OpCodes DEF Emits
  <2>7. VmStep(x, n + 1) BY <1>3, <2>3, <2>5, <2>6 DEF VmStep
  <2> QED BY <2>7
<1>7. CASE AluInsn(x)
  <2> DEFINE w == Alu(i.op, A0(x), A1(x))
  <2>3. /\ i.op \in {AND, OR, ADD} /\ Goto(x, n + 1) /\ emitted' = emitted /\ SetReg(x, w)
        /\ req' = req /\ ret' = ret /\ dev0' = dev0 /\ lock' = lock /\ dev' = dev
    BY <1>7 DEF AluInsn, GoOn, msgVars, devVars
  <2>4. Changed(regs'[x], r, i.arg2 % 8, Alu(i.op, Arg(r, i.arg0), Arg(r, i.arg1)))
    BY <1>1, <1>4, <2>3
  <2>5. Does(i, n, r, dev, n + 1, regs'[x], dev') BY <2>3, <2>4 DEF Does
  <2>6. i.op # EMIT BY <2>3, SMTT(10) DEF AND, OR, ADD, EMIT
  <2>7. Emits(i, r, emitted[x]) = emitted[x] BY <2>6 DEF Emits
  <2>8. VmStep(x, n + 1) BY <1>3, <1>4, <2>3, <2>5, <2>7 DEF VmStep
  <2> QED BY <2>8
<1>8. CASE JumpInsn(x)
  <2> DEFINE k == JumpTarget(x)
  <2>3. /\ i.op \in {JEQ, JNE} /\ Goto(x, k) /\ emitted' = emitted /\ regs' = regs
        /\ req' = req /\ ret' = ret /\ dev0' = dev0 /\ lock' = lock /\ dev' = dev
    BY <1>8 DEF JumpInsn, msgVars, devVars
  <2>4. k = IF Jumps(i, r) THEN n + S16(ArgValue(i.arg2)) + 1 ELSE n + 1
    BY <1>1 DEF JumpTarget, Taken, Jumps
  <2> HIDE DEF k
  <2>5. Does(i, n, r, dev, k, regs'[x], dev') BY <2>3, <2>4 DEF Does
  <2>6. i.op # EMIT BY <2>3, SMTT(10) DEF JEQ, JNE, EMIT
  <2>7. Emits(i, r, emitted[x]) = emitted[x] BY <2>6 DEF Emits
  <2>8. VmStep(x, k) BY <1>3, <2>3, <2>5, <2>7 DEF VmStep
  <2> QED BY <2>8
<1>9. CASE EmitInsn(x)
  <2>1. stage[x] = "run" /\ stage'[x] = "run" BY <1>9 DEF EmitInsn, Running
  <2>2. \A err : ~ExitWith(x, err) BY <2>1 DEF ExitWith, TypeOK
  <2>3. /\ i.op = EMIT /\ Goto(x, n + 1) /\ emitted' = [emitted EXCEPT ![x] = Append(@, A0(x))]
        /\ regs' = regs /\ req' = req /\ ret' = ret /\ dev0' = dev0 /\ lock' = lock /\ dev' = dev
    BY <1>9, <2>2 DEF EmitInsn, GoOn, devVars
  <2>4. Does(i, n, r, dev, n + 1, regs'[x], dev') BY <2>3 DEF Does
  <2>5. /\ emitted'[x] = Append(emitted[x], Arg(r, i.arg0))
        /\ \A y \in Xfers \ {x} : emitted'[y] = emitted[y]
    BY <1>1, <2>3 DEF TypeOK
  <2>6. emitted'[x] = Emits(i, r, emitted[x]) BY <2>3, <2>5 DEF Emits
  <2>7. VmStep(x, n + 1) BY <1>3, <2>3, <2>4, <2>5, <2>6 DEF VmStep
  <2> QED BY <2>7
<1> QED BY <1>5, <1>6, <1>7, <1>8, <1>9

\* The other transfers are not between lock and unlock when the device changes, so
\* what is known of them stays true.
LEMMA OtherXfers ==
  ASSUME TypeOK, LockHeld, OpInv, NEW x \in Xfers,
         \A y \in Xfers \ {x} :
           /\ stage'[y] = stage[y] /\ req'[y] = req[y] /\ pc'[y] = pc[y] /\ regs'[y] = regs[y]
           /\ ret'[y] = ret[y] /\ emitted'[y] = emitted[y],
         stage[x] \in {"run", "exit"} \/ (dev' = dev /\ dev0' = dev0)
  PROVE  \A y \in Xfers \ {x} :
           XferAt(stage'[y], req'[y], pc'[y], regs'[y], ret'[y], emitted'[y], dev', dev0')
<1> SUFFICES ASSUME NEW y \in Xfers \ {x}
             PROVE  XferAt(stage[y], req[y], pc[y], regs[y], ret[y], emitted[y], dev', dev0')
  OBVIOUS
<1>1. XferAt(stage[y], req[y], pc[y], regs[y], ret[y], emitted[y], dev, dev0) BY DEF OpInv
<1>2. CASE dev' = dev /\ dev0' = dev0 BY <1>1, <1>2
<1>3. CASE stage[x] \in {"run", "exit"}
  <2>1. x \in lock BY <1>3 DEF LockHeld
  <2>2. y \notin lock BY <2>1 DEF LockHeld
  <2>3. stage[y] \notin {"run", "exit"} BY <2>2 DEF LockHeld
  <2> QED BY <1>1, <2>3 DEF XferAt
<1> QED BY <1>2, <1>3

\* Put together: the invariant after a step of x.
LEMMA OpInvOne ==
  ASSUME TypeOK, LockHeld, OpInv, NEW x \in Xfers,
         \A y \in Xfers \ {x} :
           /\ stage'[y] = stage[y] /\ req'[y] = req[y] /\ pc'[y] = pc[y] /\ regs'[y] = regs[y]
           /\ ret'[y] = ret[y] /\ emitted'[y] = emitted[y],
         stage[x] \in {"run", "exit"} \/ (dev' = dev /\ dev0' = dev0),
         XferAt(stage'[x], req'[x], pc'[x], regs'[x], ret'[x], emitted'[x], dev', dev0'),
         IsDev(dev'), IsDev(dev0'), lock' = {} => dev' = dev0'
  PROVE  OpInv'
<1>1. \A y \in Xfers \ {x} :
        XferAt(stage'[y], req'[y], pc'[y], regs'[y], ret'[y], emitted'[y], dev', dev0')
  BY OtherXfers
<1>2. \A y \in Xfers :
        XferAt(stage'[y], req'[y], pc'[y], regs'[y], ret'[y], emitted'[y], dev', dev0')
  BY <1>1
<1> QED BY <1>2 DEF OpInv

\* An instruction.
LEMMA InvInsn ==
  ASSUME Bus, TypeOK, LockHeld, OpInv, NEW x \in Xfers, stage' = stage,
         ReadInsn(x) \/ WriteInsn(x) \/ AluInsn(x) \/ JumpInsn(x) \/ EmitInsn(x)
  PROVE  OpInv'
<1> DEFINE o == req[x].op  n == pc[x]  r == regs[x]  e == emitted[x]
<1>1. Running(x) /\ stage[x] = "run"
  BY DEF ReadInsn, WriteInsn, AluInsn, JumpInsn, EmitInsn, Running
<1>2. PICK n2 : VmStep(x, n2) BY VmSteps
<1>3. XferAt(stage[x], req[x], n, r, ret[x], e, dev, dev0) BY DEF OpInv
<1>4. req[x] \in OpRequests /\ At(o, n, r, dev, dev0, e) BY <1>1, <1>3 DEF XferAt
<1>5. IsOp(o) /\ req[x].prog = Prog(o) BY <1>4, OpRequest
<1>6. /\ n \in Int /\ n < Len(Prog(o)) /\ r \in VmRegs /\ Prog(o)[n + 1] \in Insn
      /\ insn(x) = Prog(o)[n + 1]
  <2>1. n \in Int /\ insn(x) \in Insn BY <1>1, InsnType
  <2>2. n < Len(Prog(o)) /\ insn(x) = Prog(o)[n + 1] BY <1>1, <1>5 DEF Running, insn
  <2>3. r \in VmRegs BY DEF TypeOK, VmRegs
  <2> QED BY <2>1, <2>2, <2>3
<1>7. Does(Prog(o)[n + 1], n, r, dev, n2, regs'[x], dev') BY <1>2, <1>6 DEF VmStep
<1>8. OpDoes(o, n, r, dev, dev0, n2, regs'[x], dev') BY <1>6, <1>7 DEF OpDoes, OpInv
<1>9. /\ At(o, n2, regs'[x], dev', dev0, Emits(Prog(o)[n + 1], r, e)) /\ IsDev(dev')
  BY <1>4, <1>5, <1>8, OpSteps
<1>10. n2 \in Int
  <2>1. 0 \in Int OBVIOUS
  <2> QED BY <1>6, <1>7, <2>1, Shifts
<1>11. 0 <= n2 /\ n2 <= 14
  <2>1. IsDev(dev0) BY DEF OpInv
  <2>2. 0 <= n2 /\ n2 <= Len(Prog(o)) /\ Len(Prog(o)) \in 0..14 BY <1>5, <1>9, <1>10, <2>1, OpEnds
  <2> DEFINE m == Len(Prog(o))
  <2>3. 0 <= n2 /\ n2 <= m /\ m \in 0..14 BY <2>2
  <2> HIDE DEF m
  <2> QED BY <1>10, <2>3
<1>12. pc'[x] = n2
  <2>1. PcSpan \in Int /\ PcSpan > 14 BY PcSpanAssumption, SMTT(10) DEF U16
  <2>2. n2 % PcSpan = n2 BY <1>10, <1>11, <2>1, SMTT(10)
  <2> QED BY <1>2, <2>2 DEF VmStep
<1>13. emitted'[x] = Emits(Prog(o)[n + 1], r, e) BY <1>2, <1>6 DEF VmStep
<1>14. /\ stage' = stage /\ req' = req /\ ret' = ret /\ dev0' = dev0 /\ lock' = lock
       /\ \A y \in Xfers \ {x} : pc'[y] = pc[y] /\ regs'[y] = regs[y] /\ emitted'[y] = emitted[y]
  BY <1>2 DEF VmStep
<1>15. At(req'[x].op, pc'[x], regs'[x], dev', dev0', emitted'[x]) BY <1>9, <1>12, <1>13, <1>14
<1>16. XferAt(stage'[x], req'[x], pc'[x], regs'[x], ret'[x], emitted'[x], dev', dev0')
  BY <1>1, <1>4, <1>14, <1>15 DEF XferAt
<1>17. x \in lock BY <1>1 DEF LockHeld
<1>18. IsDev(dev0') BY <1>14 DEF OpInv
<1> QED BY <1>1, <1>9, <1>14, <1>16, <1>17, <1>18, OpInvOne

\* Leaving the loop: at the end of the program with result zero, elsewhere with an
\* error.
LEMMA InvExit ==
  ASSUME Bus, TypeOK, LockHeld, OpInv, NEW x \in Xfers, stage' # stage,
         BusError(x) \/ EmitInsn(x) \/ Leave(x)
  PROVE  OpInv'
<1> DEFINE o == req[x].op  n == pc[x]  r == regs[x]  e == emitted[x]
<1>1. PICK err : /\ stage[x] = "run" /\ stage' = [stage EXCEPT ![x] = "exit"]
                 /\ ret' = [ret EXCEPT ![x] = err]
                 /\ UNCHANGED <<req, pc, regs, emitted, lock, dev, dev0>>
                 /\ err = 0 => pc[x] >= Len(req[x].prog)
  <2>1. CASE BusError(x)
    <3>1. -EIO # 0 BY SMTT(10) DEF EIO
    <3> QED BY <2>1, <3>1 DEF BusError, Running, ExitWith, msgVars, devVars
  <2>2. CASE EmitInsn(x)
    <3>1. PICK out \in mdio_nl_emit(msg[x], sock[x], lost[x], A0(x)) :
            out.ret # 0 /\ ExitWith(x, out.ret) /\ UNCHANGED <<pc, emitted>>
      BY <2>2 DEF EmitInsn
    <3> QED BY <2>2, <3>1 DEF EmitInsn, Running, ExitWith, devVars
  <2>3. CASE Leave(x)
    <3>1. LeaveCode(x) = 0 => pc[x] >= Len(req[x].prog)
      <4>1. -ETIMEDOUT # 0 /\ -EINVAL # 0 BY SMTT(10) DEF ETIMEDOUT, EINVAL
      <4> QED BY <4>1 DEF LeaveCode
    <3> QED BY <2>3, <3>1 DEF Leave, ExitWith, msgVars, devVars
  <2> QED BY <2>1, <2>2, <2>3
<1>2. /\ stage'[x] = "exit" /\ ret'[x] = err
      /\ \A y \in Xfers \ {x} : stage'[y] = stage[y] /\ ret'[y] = ret[y]
  BY <1>1 DEF TypeOK
<1>3. XferAt(stage[x], req[x], n, r, ret[x], e, dev, dev0) /\ IsDev(dev) /\ IsDev(dev0)
  BY DEF OpInv
<1>4. req[x] \in OpRequests /\ At(o, n, r, dev, dev0, e) BY <1>1, <1>3 DEF XferAt
<1>5. IsOp(o) /\ req[x].prog = Prog(o) BY <1>4, OpRequest
<1>6. n \in Int BY PcSpanAssumption DEF TypeOK
<1>7. View(dev) \in {View(dev0), Effect(o, View(dev0))} BY <1>3, <1>4, <1>5, OpView
<1>8. err = 0 => Performed(o, dev, dev0, e)
  <2> DEFINE m == Len(Prog(o))
  <2>1. n <= m /\ m \in 0..14 /\ (n = m => Performed(o, dev, dev0, e))
    BY <1>3, <1>4, <1>5, <1>6, OpEnds
  <2>2. err = 0 => n >= m BY <1>1, <1>5
  <2> HIDE DEF m, n
  <2>3. n \in Int BY <1>6 DEF n
  <2> QED BY <2>1, <2>2, <2>3
<1>9. XferAt(stage'[x], req'[x], pc'[x], regs'[x], ret'[x], emitted'[x], dev', dev0')
  BY <1>1, <1>2, <1>4, <1>7, <1>8 DEF XferAt
<1>10. x \in lock BY <1>1 DEF LockHeld
<1> QED BY <1>1, <1>2, <1>3, <1>9, <1>10, OpInvOne

\* The request comes in, waits for the lock, gets it; it gives the lock back and the
\* answer is read.
LEMMA InvXfer ==
  ASSUME Bus, TypeOK, LockHeld, OpInv, NEW x \in Xfers,
         Enter(x) \/ Expire(x) \/ Lock(x) \/ Unlock(x) \/ Close(x) \/ Finish(x)
  PROVE  OpInv'
<1>1. XferAt(stage[x], req[x], pc[x], regs[x], ret[x], emitted[x], dev, dev0)
      /\ IsDev(dev) /\ IsDev(dev0) /\ (lock = {} => dev = dev0)
  BY DEF OpInv
<1>2. CASE Enter(x)
  <2>1. PICK q \in OpRequests : Refuse(x, q) \/ OpenFails(x, q) \/ Begin(x, q) BY <1>2 DEF Enter, Bus
  <2>2. /\ stage[x] = "idle" /\ req' = [req EXCEPT ![x] = q] /\ emitted' = emitted
        /\ dev' = dev /\ dev0' = dev0 /\ lock' = lock
        /\ \/ /\ stage' = [stage EXCEPT ![x] = "lock"] /\ pc' = [pc EXCEPT ![x] = 0]
              /\ regs' = [regs EXCEPT ![x] = [j \in Regs |-> 0]]
           \/ stage' = [stage EXCEPT ![x] = "done"] /\ pc' = pc /\ regs' = regs
        /\ \A y \in Xfers \ {x} : ret'[y] = ret[y]
    <3>1. CASE Refuse(x, q) BY <3>1 DEF Refuse, devVars, TypeOK
    <3>2. CASE OpenFails(x, q) BY <3>2 DEF OpenFails, devVars, TypeOK
    <3>3. CASE Begin(x, q) BY <3>3 DEF Begin, devVars, TypeOK
    <3> QED BY <2>1, <3>1, <3>2, <3>3
  <2>3. \A y \in Xfers \ {x} :
          /\ stage'[y] = stage[y] /\ req'[y] = req[y] /\ pc'[y] = pc[y] /\ regs'[y] = regs[y]
          /\ ret'[y] = ret[y] /\ emitted'[y] = emitted[y]
    BY <2>2 DEF TypeOK
  <2>4. req'[x] = q /\ emitted'[x] = <<>> BY <1>1, <2>2 DEF TypeOK, XferAt
  <2>5. (stage'[x] = "lock" /\ pc'[x] = 0) \/ stage'[x] = "done" BY <2>2 DEF TypeOK
  <2>6. XferAt(stage'[x], req'[x], pc'[x], regs'[x], ret'[x], emitted'[x], dev', dev0')
    BY <2>4, <2>5 DEF XferAt
  <2> QED BY <1>1, <2>2, <2>3, <2>6, OpInvOne
<1>3. CASE Expire(x)
  <2>1. UNCHANGED <<stage, req, pc, regs, ret, emitted, lock, dev, dev0>>
    BY <1>3 DEF Expire, msgVars, devVars
  <2> QED BY <2>1 DEF OpInv
<1>4. CASE Lock(x)
  <2>1. /\ stage[x] = "lock" /\ lock = {} /\ stage' = [stage EXCEPT ![x] = "run"]
        /\ lock' = lock \cup {x}
        /\ UNCHANGED <<req, pc, regs, ret, emitted, dev, dev0>>
    BY <1>4 DEF Lock, vmVars, msgVars
  <2>2. stage'[x] = "run" /\ \A y \in Xfers \ {x} : stage'[y] = stage[y] BY <2>1 DEF TypeOK
  <2>3. req[x] \in OpRequests /\ emitted[x] = <<>> /\ pc[x] = 0 /\ dev = dev0
    BY <1>1, <2>1 DEF XferAt
  <2>4. IsOp(req[x].op) BY <2>3, OpRequest
  <2>5. At(req[x].op, 0, regs[x], dev, dev, <<>>) BY <1>1, <2>4, OpStarts
  <2>6. XferAt(stage'[x], req'[x], pc'[x], regs'[x], ret'[x], emitted'[x], dev', dev0')
    BY <2>1, <2>2, <2>3, <2>5 DEF XferAt
  <2> QED BY <1>1, <2>1, <2>2, <2>6, OpInvOne
<1>5. CASE Unlock(x)
  <2>1. /\ stage[x] = "exit" /\ stage' = [stage EXCEPT ![x] = "close"] /\ dev' = dev /\ dev0' = dev
        /\ UNCHANGED <<req, pc, regs, ret, emitted>>
    BY <1>5 DEF Unlock, vmVars, msgVars
  <2>2. stage'[x] = "close" /\ \A y \in Xfers \ {x} : stage'[y] = stage[y] BY <2>1 DEF TypeOK
  <2>3. XferAt(stage'[x], req'[x], pc'[x], regs'[x], ret'[x], emitted'[x], dev', dev0')
    BY <1>1, <2>1, <2>2 DEF XferAt
  <2> QED BY <1>1, <2>1, <2>2, <2>3, OpInvOne
<1>6. CASE Close(x)
  <2>1. /\ stage[x] = "close" /\ UNCHANGED <<req, pc, regs, ret, emitted, lock, dev, dev0>>
        /\ \/ stage' = [stage EXCEPT ![x] = "fault"]
           \/ stage' = [stage EXCEPT ![x] = "done"]
    BY <1>6 DEF Close, vmVars, devVars
  <2>2. stage'[x] \in {"fault", "done"} /\ \A y \in Xfers \ {x} : stage'[y] = stage[y]
    BY <2>1 DEF TypeOK
  <2>3. XferAt(stage'[x], req'[x], pc'[x], regs'[x], ret'[x], emitted'[x], dev', dev0')
    BY <1>1, <2>1, <2>2 DEF XferAt
  <2> QED BY <1>1, <2>1, <2>2, <2>3, OpInvOne
<1>7. CASE Finish(x)
  <2>1. stage'[x] = "idle" /\ emitted'[x] = <<>> /\ UNCHANGED <<lock, dev, dev0>>
    BY <1>7 DEF Finish, devVars, TypeOK
  <2>2. \A y \in Xfers \ {x} :
          /\ stage'[y] = stage[y] /\ req'[y] = req[y] /\ pc'[y] = pc[y] /\ regs'[y] = regs[y]
          /\ ret'[y] = ret[y] /\ emitted'[y] = emitted[y]
    BY <1>7 DEF Finish, TypeOK
  <2>3. XferAt(stage'[x], req'[x], pc'[x], regs'[x], ret'[x], emitted'[x], dev', dev0')
    BY <2>1 DEF XferAt
  <2> QED BY <1>1, <2>1, <2>2, <2>3, OpInvOne
<1> QED BY <1>2, <1>3, <1>4, <1>5, <1>6, <1>7

\* Another user of the bus leaves a device behind, and nobody holds the lock.
LEMMA InvOther ==
  ASSUME Bus, TypeOK, LockHeld, OpInv, OtherUse PROVE OpInv'
<1>1. PICK d \in BusOther(dev) : dev' = d /\ dev0' = d BY DEF OtherUse, Bus
<1>2. lock = {} /\ UNCHANGED <<stage, req, pc, regs, ret, emitted, lock>>
  BY DEF OtherUse, vmVars, msgVars
<1>3. IsDev(dev) BY DEF OpInv
<1>4. IsDev(d)
  <2>1. CASE \E c \in DOMAIN dev.cells, v \in Values : d = Poke(dev, c, v)
    BY <1>3, <2>1, DevPoke, ValuesAssumption
  <2>2. CASE d = [dev EXCEPT !.sel = IF dev.sel = 0 THEN 1 ELSE 0, !.adr = 1, !.buf = 1]
    <3>1. 0 \in Word /\ 1 \in Word BY SmallWords, SMTT(10)
    <3> DEFINE s == IF dev.sel = 0 THEN 1 ELSE 0
               one == 1
    <3>2. s \in Word /\ one \in Word BY <3>1
    <3>3. d = [dev EXCEPT !.sel = s, !.adr = one, !.buf = one] BY <2>2
    <3> HIDE DEF s, one
    <3> QED BY <1>3, <3>2, <3>3 DEF IsDev
  <2> QED BY <1>1, <2>1, <2>2 DEF BusOther
<1>5. ASSUME NEW x \in Xfers
      PROVE  XferAt(stage'[x], req'[x], pc'[x], regs'[x], ret'[x], emitted'[x], dev', dev0')
  <2>1. XferAt(stage[x], req[x], pc[x], regs[x], ret[x], emitted[x], dev, dev0) BY DEF OpInv
  <2>2. stage[x] \notin {"run", "exit"} BY <1>2 DEF LockHeld
  <2> QED BY <1>2, <2>1, <2>2 DEF XferAt
<1> QED BY <1>1, <1>4, <1>5 DEF OpInv
-------------------------------------------------------------------------------
(***************************************************************************)
(* The refinement: every step is a step of AtomicOps, or none.             *)
(***************************************************************************)
AbsOp == [x \in Xfers |-> IF stage[x] = "idle" THEN None ELSE req[x].op]
AbsOut == [x \in Xfers |-> IF AbsPhase[x] = "ok" THEN emitted[x] ELSE <<>>]

\* A transfer's phase, from its stage and result.
PhaseOf(s, e) ==
  CASE s = "idle" -> "idle"
    [] s \in {"lock", "run", "exit"} -> "pending"
    [] OTHER -> IF e = 0 THEN "ok" ELSE "failed"

\* The phase of each transfer is the one of its stage and result.
LEMMA PhaseIs ==
  /\ AbsPhase = [x \in Xfers |-> PhaseOf(stage[x], ret[x])]
  /\ AbsPhase' = [x \in Xfers |-> PhaseOf(stage'[x], ret'[x])]
  BY DEF AbsPhase, PhaseOf

\* A step that keeps the phases, the requests, the registers and what was output is
\* none of AtomicOps.
LEMMA Stutters ==
  ASSUME TypeOK, View(dev0)' = View(dev0),
         \A x \in Xfers : PhaseOf(stage'[x], ret'[x]) = PhaseOf(stage[x], ret[x]),
         \A x \in Xfers : stage'[x] = "idle" <=> stage[x] = "idle",
         req' = req,
         \A x \in Xfers : PhaseOf(stage[x], ret[x]) = "ok" => emitted'[x] = emitted[x]
  PROVE  UNCHANGED A!absVars
<1>1. AbsPhase' = AbsPhase BY PhaseIs
<1>2. AbsOp' = AbsOp BY DEF AbsOp
<1>3. \A x \in Xfers : AbsPhase[x] = PhaseOf(stage[x], ret[x]) BY PhaseIs
<1>4. AbsOut' = AbsOut BY <1>1, <1>3 DEF AbsOut
<1> QED BY <1>1, <1>2, <1>4 DEF A!absVars, AbsOp, AbsOut

\* What a transfer that succeeded did is what was asked for.
IsEffect(x) ==
  stage[x] = "exit" /\ ret[x] = 0 =>
    /\ View(dev) = Effect(req[x].op, View(dev0))
    /\ emitted[x] = Shows(req[x].op, View(dev0))

\* What changes of one transfer changes its phase, operation and output only.
LEMMA AbsOne ==
  ASSUME TypeOK, NEW x \in Xfers, NEW s \in Stages, NEW e \in Int,
         Changed(stage', stage, x, s), Changed(ret', ret, x, e),
         \A y \in Xfers \ {x} : emitted'[y] = emitted[y] /\ req'[y] = req[y]
  PROVE  /\ Changed(AbsPhase', AbsPhase, x, PhaseOf(s, e))
         /\ Changed(AbsOp', AbsOp, x, IF s = "idle" THEN None ELSE req'[x].op)
         /\ Changed(AbsOut', AbsOut, x, IF PhaseOf(s, e) = "ok" THEN emitted'[x] ELSE <<>>)
         /\ AbsPhase[x] = PhaseOf(stage[x], ret[x])
<1>1. \A y \in Xfers : /\ stage'[y] = IF y = x THEN s ELSE stage[y]
                       /\ ret'[y] = IF y = x THEN e ELSE ret[y]
  BY DEF TypeOK, Changed
<1> HIDE DEF PhaseOf
<1>2. AbsPhase' = [AbsPhase EXCEPT ![x] = PhaseOf(s, e)] BY <1>1, PhaseIs
<1>3. AbsOp' = [AbsOp EXCEPT ![x] = IF s = "idle" THEN None ELSE req'[x].op]
  BY <1>1 DEF AbsOp
<1>4. \A y \in Xfers : /\ AbsPhase[y] = PhaseOf(stage[y], ret[y])
                       /\ AbsPhase'[y] = PhaseOf(stage'[y], ret'[y])
  BY PhaseIs
<1>5. \A y \in Xfers : AbsPhase'[y] = IF y = x THEN PhaseOf(s, e) ELSE AbsPhase[y] BY <1>1, <1>4
<1>6. AbsOut' = [AbsOut EXCEPT ![x] = IF PhaseOf(s, e) = "ok" THEN emitted'[x] ELSE <<>>]
  BY <1>5 DEF AbsOut
<1> QED BY <1>2, <1>3, <1>4, <1>6 DEF Changed

\* Entering the handler is submitting an operation, or having it refused.
LEMMA MapsEnter ==
  ASSUME Bus, TypeOK, OpInv, NEW x \in Xfers, Enter(x)
  PROVE  A!Submit(x) \/ A!Reject(x)
<1>1. PICK r \in OpRequests : Refuse(x, r) \/ OpenFails(x, r) \/ Begin(x, r) BY DEF Enter, Bus
<1>2. r.op \in Ops BY DEF OpRequests
<1>3. /\ stage[x] = "idle" /\ req' = [req EXCEPT ![x] = r]
      /\ emitted' = emitted /\ dev0' = dev0
  BY <1>1 DEF Refuse, OpenFails, Begin, devVars
<1>4. AbsPhase[x] = "idle" BY <1>3, PhaseIs DEF PhaseOf
<1>5. req'[x] = r /\ \A y \in Xfers \ {x} : emitted'[y] = emitted[y] /\ req'[y] = req[y]
  BY <1>3 DEF TypeOK
<1>6. emitted[x] = <<>> BY <1>3 DEF OpInv, XferAt
<1>7. View(dev0)' = View(dev0) BY <1>3 DEF View
<1>8. CASE Begin(x, r)
  <2>1. /\ stage' = [stage EXCEPT ![x] = "lock"] /\ ret' = [ret EXCEPT ![x] = 0]
        /\ "lock" \in Stages /\ 0 \in Int
    BY <1>8 DEF Begin, Stages
  <2>2. PhaseOf("lock", 0) = "pending" BY DEF PhaseOf
  <2>3. /\ AbsPhase' = [AbsPhase EXCEPT ![x] = "pending"]
        /\ AbsOp' = [AbsOp EXCEPT ![x] = r.op]
        /\ AbsOut' = [AbsOut EXCEPT ![x] = <<>>]
    <3>1. Changed(stage', stage, x, "lock") /\ Changed(ret', ret, x, 0) BY <2>1 DEF Changed
    <3>2. /\ Changed(AbsPhase', AbsPhase, x, "pending")
          /\ Changed(AbsOp', AbsOp, x, r.op)
          /\ Changed(AbsOut', AbsOut, x, <<>>)
      BY <1>5, <2>1, <2>2, <3>1, AbsOne
    <3> QED BY <3>2 DEF Changed
  <2>4. AbsOut' = AbsOut BY <1>4, <2>3 DEF AbsOut
  <2> QED BY <1>2, <1>4, <1>7, <2>3, <2>4 DEF A!Submit, AbsOp, AbsOut
<1>9. CASE Refuse(x, r) \/ OpenFails(x, r)
  <2>1. PICK e \in Int : /\ stage' = [stage EXCEPT ![x] = "done"] /\ "done" \in Stages
                         /\ ret' = [ret EXCEPT ![x] = e] /\ e # 0
    <3>1. CASE Refuse(x, r)
      <4>1. RefusedWith(r) \in Int BY DEF RefusedWith, EINVAL, ENODEV
      <4> QED BY <3>1, <4>1 DEF Refuse, Stages
    <3>2. CASE OpenFails(x, r)
      <4>1. PICK o \in mdio_nl_open(<<>>, FALSE) :
              o.ret # 0 /\ stage' = [stage EXCEPT ![x] = "done"] /\ ret' = [ret EXCEPT ![x] = o.ret]
        BY <3>2 DEF OpenFails
      <4>2. <<>> \in Seq(Datagram) /\ FALSE \in BOOLEAN OBVIOUS
      <4>3. o.ret \in Int BY <4>2, OpenType DEF Outcomes
      <4> QED BY <4>1, <4>3 DEF Stages
    <3> QED BY <1>9, <3>1, <3>2
  <2>2. PhaseOf("done", e) = "failed" BY <2>1 DEF PhaseOf
  <2>3. /\ AbsPhase' = [AbsPhase EXCEPT ![x] = "failed"]
        /\ AbsOp' = [AbsOp EXCEPT ![x] = r.op]
        /\ AbsOut' = [AbsOut EXCEPT ![x] = <<>>]
    <3>1. Changed(stage', stage, x, "done") /\ Changed(ret', ret, x, e) BY <2>1 DEF Changed
    <3>2. /\ Changed(AbsPhase', AbsPhase, x, "failed")
          /\ Changed(AbsOp', AbsOp, x, r.op)
          /\ Changed(AbsOut', AbsOut, x, <<>>)
      BY <1>5, <2>1, <2>2, <3>1, AbsOne
    <3> QED BY <3>2 DEF Changed
  <2>4. AbsOut' = AbsOut BY <1>4, <2>3 DEF AbsOut
  <2> QED BY <1>2, <1>4, <1>7, <2>3, <2>4 DEF A!Reject, AbsOp, AbsOut
<1> QED BY <1>1, <1>8, <1>9

\* Releasing the lock is where the operation takes effect, or is given up.
LEMMA MapsUnlock ==
  ASSUME TypeOK, OpInv, NEW x \in Xfers, Unlock(x), IsEffect(x)
  PROVE  A!Perform(x) \/ A!Abort(x)
<1>1. /\ stage[x] = "exit" /\ stage' = [stage EXCEPT ![x] = "close"] /\ "close" \in Stages
      /\ ret' = ret /\ req' = req /\ emitted' = emitted /\ dev0' = dev /\ ret[x] \in Int
  BY DEF Unlock, vmVars, msgVars, Stages, TypeOK
<1>2. Changed(stage', stage, x, "close") /\ Changed(ret', ret, x, ret[x])
  BY <1>1 DEF Changed, TypeOK
<1>3. /\ Changed(AbsPhase', AbsPhase, x, PhaseOf("close", ret[x]))
      /\ Changed(AbsOp', AbsOp, x, req[x].op)
      /\ Changed(AbsOut', AbsOut, x, IF PhaseOf("close", ret[x]) = "ok" THEN emitted[x] ELSE <<>>)
      /\ AbsPhase[x] = PhaseOf(stage[x], ret[x])
  BY <1>1, <1>2, AbsOne
<1>4. AbsPhase[x] = "pending" BY <1>1, <1>3 DEF PhaseOf
<1>5. AbsOp[x] = req[x].op BY <1>1 DEF AbsOp
<1>6. AbsOp' = AbsOp BY <1>3, <1>5 DEF Changed, AbsOp
<1>7. View(dev0)' = View(dev) BY <1>1 DEF View
<1>8. CASE ret[x] = 0
  <2>1. PhaseOf("close", ret[x]) = "ok" BY <1>8 DEF PhaseOf
  <2>2. /\ AbsPhase' = [AbsPhase EXCEPT ![x] = "ok"]
        /\ AbsOut' = [AbsOut EXCEPT ![x] = emitted[x]]
    BY <1>3, <2>1 DEF Changed
  <2>3. View(dev) = Effect(AbsOp[x], View(dev0)) /\ emitted[x] = Shows(AbsOp[x], View(dev0))
    BY <1>1, <1>5, <1>8 DEF IsEffect
  <2> QED BY <1>4, <1>6, <1>7, <2>2, <2>3 DEF A!Perform, AbsOp, AbsOut
<1>9. CASE ret[x] # 0
  <2>1. PhaseOf("close", ret[x]) = "failed" BY <1>9 DEF PhaseOf
  <2>2. /\ AbsPhase' = [AbsPhase EXCEPT ![x] = "failed"]
        /\ AbsOut' = [AbsOut EXCEPT ![x] = <<>>]
    BY <1>3, <2>1 DEF Changed
  <2>3. AbsOut' = AbsOut BY <1>4, <2>2 DEF AbsOut
  <2>4. View(dev) \in {View(dev0), Effect(AbsOp[x], View(dev0))}
    BY <1>1, <1>5 DEF OpInv, XferAt
  <2> QED BY <1>4, <1>6, <1>7, <2>2, <2>3, <2>4 DEF A!Abort, AbsOp, AbsOut
<1> QED BY <1>8, <1>9

\* The client has its answer: it is idle again.
LEMMA MapsFinish ==
  ASSUME TypeOK, NEW x \in Xfers, Finish(x)
  PROVE  A!Return(x)
<1>1. /\ stage[x] = "done" /\ stage' = [stage EXCEPT ![x] = "idle"] /\ "idle" \in Stages
      /\ ret' = [ret EXCEPT ![x] = 0] /\ 0 \in Int /\ dev0' = dev0
      /\ \A y \in Xfers \ {x} : emitted'[y] = emitted[y] /\ req'[y] = req[y]
  BY DEF Finish, TypeOK, Stages, devVars
<1>2. Changed(stage', stage, x, "idle") /\ Changed(ret', ret, x, 0) BY <1>1 DEF Changed
<1>3. /\ Changed(AbsPhase', AbsPhase, x, PhaseOf("idle", 0))
      /\ Changed(AbsOp', AbsOp, x, None)
      /\ Changed(AbsOut', AbsOut, x, IF PhaseOf("idle", 0) = "ok" THEN emitted'[x] ELSE <<>>)
      /\ AbsPhase[x] = PhaseOf(stage[x], ret[x])
  BY <1>1, <1>2, AbsOne
<1>4. PhaseOf("idle", 0) = "idle" BY DEF PhaseOf
<1>5. AbsPhase[x] \in {"ok", "failed"} BY <1>1, <1>3 DEF PhaseOf
<1>6. View(dev0)' = View(dev0) BY <1>1 DEF View
<1> QED BY <1>3, <1>4, <1>5, <1>6 DEF Changed, A!Return, AbsOp, AbsOut

\* Another user of the bus writes a register, or changes nothing a user sees.
LEMMA MapsOther ==
  ASSUME Bus, TypeOK, OpInv, OtherUse
  PROVE  [A!AbsNext]_(A!absVars)
<1>1. PICK d \in BusOther(dev) : dev' = d /\ dev0' = d BY DEF OtherUse, Bus
<1>2. /\ UNCHANGED <<stage, ret, req, emitted>> /\ dev = dev0
  BY DEF OtherUse, vmVars, msgVars, OpInv
<1>3. AbsPhase' = AbsPhase /\ AbsOp' = AbsOp /\ AbsOut' = AbsOut
  BY <1>2 DEF AbsPhase, AbsOp, AbsOut
<1>4. View(dev0)' = View(d) BY <1>1 DEF View
<1>5. IsDev(dev) BY DEF OpInv
<1>6. CASE View(d) = View(dev)
  BY <1>2, <1>3, <1>4, <1>6 DEF A!absVars, AbsOp, AbsOut
<1>7. CASE View(d) # View(dev)
  <2>1. PICK r \in DOMAIN dev.cells, v \in Values : d = Poke(dev, r, v)
    <3>1. CASE d \in IF dev.kind \in {"phy", "mvls1"} THEN {}
                     ELSE {[dev EXCEPT !.sel = IF dev.sel = 0 THEN 1 ELSE 0, !.adr = 1, !.buf = 1]}
      <4>1. d.kind = dev.kind /\ d.cells = dev.cells BY <1>5, <3>1 DEF IsDev
      <4> QED BY <1>7, <4>1 DEF View
    <3> QED BY <1>1, <3>1 DEF BusOther
  <2>2. d.kind = dev.kind /\ d.cells = [dev.cells EXCEPT ![r] = v] BY <1>5, <2>1 DEF IsDev, Poke
  <2>3. View(d) = [View(dev0) EXCEPT !.cells[r] = v] BY <1>2, <2>2 DEF View
  <2>4. r \in DOMAIN View(dev0).cells BY <1>2, <2>1 DEF View
  <2>5. View(d) \in OtherViews(View(dev0))
    <3> DEFINE v0 == View(dev0)
               f(c, w) == [v0 EXCEPT !.cells[c] = w]
    <3>1. OtherViews(v0) = {f(c, w) : c \in DOMAIN v0.cells, w \in Values} BY DEF OtherViews
    <3>2. View(d) = f(r, v) /\ r \in DOMAIN v0.cells BY <2>3, <2>4
    <3> HIDE DEF f, v0
    <3>3. f(r, v) \in {f(c, w) : c \in DOMAIN v0.cells, w \in Values} BY <2>1, <3>2
    <3> QED BY <3>1, <3>2, <3>3 DEF v0
  <2> QED BY <1>3, <1>4, <2>5 DEF A!AbsNext, A!Interfere, AbsOp, AbsOut
<1> QED BY <1>6, <1>7

\* The VM's instructions and the end of its loop are within an operation.
LEMMA MapsRun ==
  ASSUME TypeOK, NEW x \in Xfers,
         \/ ReadInsn(x) \/ WriteInsn(x) \/ BusError(x) \/ AluInsn(x) \/ JumpInsn(x)
         \/ EmitInsn(x) \/ Leave(x) \/ Lock(x) \/ Expire(x)
  PROVE  UNCHANGED A!absVars
<1> DEFINE s == stage'[x]  e == ret'[x]
<1>1. /\ stage[x] \in {"lock", "run"} /\ req' = req /\ dev0' = dev0
      /\ \A y \in Xfers \ {x} : emitted'[y] = emitted[y]
      /\ \/ stage' = stage /\ ret' = ret
         \/ stage' = [stage EXCEPT ![x] = "run"] /\ ret' = ret
         \/ \E err : stage' = [stage EXCEPT ![x] = "exit"] /\ ret' = [ret EXCEPT ![x] = err]
  <2>1. CASE ReadInsn(x) BY <2>1 DEF ReadInsn, Running, msgVars
  <2>2. CASE WriteInsn(x) BY <2>2 DEF WriteInsn, Running, msgVars
  <2>3. CASE BusError(x) BY <2>3 DEF BusError, Running, ExitWith, msgVars, devVars
  <2>4. CASE AluInsn(x) BY <2>4 DEF AluInsn, Running, msgVars, devVars
  <2>5. CASE JumpInsn(x) BY <2>5 DEF JumpInsn, Running, msgVars, devVars
  <2>6. CASE EmitInsn(x)
    <3>1. \A y \in Xfers \ {x} : emitted'[y] = emitted[y] BY <2>6 DEF EmitInsn, TypeOK
    <3> QED BY <2>6, <3>1 DEF EmitInsn, Running, ExitWith, devVars
  <2>7. CASE Leave(x) BY <2>7 DEF Leave, ExitWith, msgVars, devVars
  <2>8. CASE Lock(x) BY <2>8 DEF Lock, vmVars, msgVars
  <2>9. CASE Expire(x) BY <2>9 DEF Expire, msgVars, devVars
  <2> QED BY <2>1, <2>2, <2>3, <2>4, <2>5, <2>6, <2>7, <2>8, <2>9
<1>2. \A y \in Xfers \ {x} : stage'[y] = stage[y] /\ ret'[y] = ret[y] BY <1>1 DEF TypeOK
<1>3. s \in {"lock", "run", "exit"} BY <1>1 DEF TypeOK
<1>4. PhaseOf(stage[x], ret[x]) = "pending" /\ PhaseOf(s, e) = "pending" BY <1>1, <1>3 DEF PhaseOf
<1>5. \A y \in Xfers : PhaseOf(stage'[y], ret'[y]) = PhaseOf(stage[y], ret[y])
  BY <1>2, <1>4
<1>6. \A y \in Xfers : stage'[y] = "idle" <=> stage[y] = "idle" BY <1>1, <1>2, <1>3
<1>7. \A y \in Xfers : PhaseOf(stage[y], ret[y]) = "ok" => emitted'[y] = emitted[y]
  BY <1>1, <1>4
<1>8. View(dev0)' = View(dev0) BY <1>1 DEF View
<1> QED BY <1>1, <1>5, <1>6, <1>7, <1>8, Stutters

\* Closing the reply comes after the operation.
LEMMA MapsClose ==
  ASSUME TypeOK, NEW x \in Xfers, Close(x)
  PROVE  UNCHANGED A!absVars
<1>1. /\ stage[x] = "close" /\ req' = req /\ ret' = ret /\ emitted' = emitted /\ dev0' = dev0
      /\ \/ stage' = [stage EXCEPT ![x] = "fault"]
         \/ stage' = [stage EXCEPT ![x] = "done"]
  BY DEF Close, vmVars, devVars
<1>2. stage'[x] \in {"fault", "done"} /\ \A y \in Xfers \ {x} : stage'[y] = stage[y]
  BY <1>1 DEF TypeOK
<1>3. PhaseOf(stage'[x], ret[x]) = PhaseOf(stage[x], ret[x]) BY <1>1, <1>2 DEF PhaseOf
<1>4. \A y \in Xfers : PhaseOf(stage'[y], ret'[y]) = PhaseOf(stage[y], ret[y])
  BY <1>1, <1>2, <1>3
<1>5. \A y \in Xfers : stage'[y] = "idle" <=> stage[y] = "idle" BY <1>1, <1>2
<1>6. \A y \in Xfers : emitted'[y] = emitted[y] BY <1>1
<1>7. View(dev0)' = View(dev0) BY <1>1 DEF View
<1> QED BY <1>1, <1>4, <1>5, <1>6, <1>7, Stutters

\* Every step of the kernel module with the drivers' programs is a step of AtomicOps.
LEMMA Maps ==
  ASSUME Bus, TypeOK, OpInv, \A x \in Xfers : IsEffect(x), [Next]_vars
  PROVE  [A!AbsNext]_(A!absVars)
<1>1. CASE OtherUse BY <1>1, MapsOther
<1>2. ASSUME NEW x \in Xfers, Enter(x) PROVE A!AbsNext BY <1>2, MapsEnter DEF A!AbsNext
<1>3. ASSUME NEW x \in Xfers, Expire(x) \/ Lock(x) PROVE UNCHANGED A!absVars BY <1>3, MapsRun
<1>4. ASSUME NEW x \in Xfers, Step(x) PROVE [A!AbsNext]_(A!absVars)
  <2>1. CASE Unlock(x) BY <2>1, MapsUnlock DEF A!AbsNext
  <2>2. CASE Close(x) BY <2>2, MapsClose
  <2> QED BY <1>4, <2>1, <2>2, MapsRun DEF Step
<1>5. ASSUME NEW x \in Xfers, Finish(x) PROVE A!AbsNext BY <1>5, MapsFinish DEF A!AbsNext
<1>6. CASE UNCHANGED vars
  BY <1>6 DEF A!absVars, vars, vmVars, msgVars, devVars, AbsPhase, View
<1> QED BY <1>1, <1>2, <1>3, <1>4, <1>5, <1>6 DEF Next

\* The registers start as they may, and no operation is under way.
LEMMA MapsInit ==
  ASSUME Bus, Init PROVE A!AbsInit
<1>1. dev \in Devices /\ dev0 = dev BY DEF Bus, Init
<1>2. View(dev0) \in {View(d) : d \in Devices} BY <1>1
<1>3. AbsPhase = [x \in Xfers |-> "idle"] BY DEF AbsPhase, Init
<1>4. AbsOp = [x \in Xfers |-> None] BY DEF AbsOp, Init
<1>5. AbsOut = [x \in Xfers |-> <<>>] BY <1>3 DEF AbsOut
<1> QED BY <1>2, <1>3, <1>4, <1>5 DEF A!AbsInit, AbsOp, AbsOut

-------------------------------------------------------------------------------
(***************************************************************************)
(* The theorems.                                                           *)
(***************************************************************************)

\* At the start the device is one there is, and nothing has been asked for.
LEMMA OpInit == ASSUME Bus, Init PROVE OpInv
<1>1. dev \in Devices /\ dev0 = dev BY DEF Bus, Init
<1>2. PICK k \in Kinds :
        dev \in {[kind |-> k, cells |-> c, sel |-> s, adr |-> 0, buf |-> 0, busy |-> FALSE] :
                   c \in [Registers(k) -> Values],
                   s \in IF k \in {"mva", "mscc"} THEN {0, 1} ELSE {0}}
  BY <1>1 DEF Devices
<1>3. PICK c \in [Registers(k) -> Values], s \in {0, 1} :
        dev = [kind |-> k, cells |-> c, sel |-> s, adr |-> 0, buf |-> 0, busy |-> FALSE]
  BY <1>2
<1>4. IsDev(dev)
  <2> DEFINE z == 0  no == FALSE
  <2>1. z \in Word /\ s \in Word BY <1>3, SmallWords, SMTT(10)
  <2>2. c \in [Registers(k) -> Word] BY <1>3, ValuesAssumption
  <2>3. dev = [kind |-> k, cells |-> c, sel |-> s, adr |-> z, buf |-> z, busy |-> no] /\ no \in BOOLEAN
    BY <1>3
  <2> HIDE DEF z, no
  <2> QED BY <1>2, <2>1, <2>2, <2>3 DEF IsDev
<1>5. ASSUME NEW x \in Xfers
      PROVE  XferAt(stage[x], req[x], pc[x], regs[x], ret[x], emitted[x], dev, dev0)
  <2>1. stage[x] = "idle" /\ emitted[x] = <<>> BY DEF Init
  <2> QED BY <2>1 DEF XferAt
<1> QED BY <1>1, <1>4, <1>5 DEF OpInv

\* Every step keeps the invariant.
LEMMA OpStep == ASSUME Bus, TypeOK, LockHeld, OpInv, [Next]_vars PROVE OpInv'
<1>1. CASE OtherUse BY <1>1, InvOther
<1>2. ASSUME NEW x \in Xfers, Enter(x) \/ Expire(x) \/ Lock(x) \/ Finish(x) PROVE OpInv'
  BY <1>2, InvXfer
<1>3. ASSUME NEW x \in Xfers, Step(x) PROVE OpInv'
  <2>1. CASE Unlock(x) \/ Close(x) BY <2>1, InvXfer
  <2>2. CASE ReadInsn(x) \/ WriteInsn(x) \/ AluInsn(x) \/ JumpInsn(x)
    <3>1. stage' = stage BY <2>2 DEF ReadInsn, WriteInsn, AluInsn, JumpInsn
    <3> QED BY <2>2, <3>1, InvInsn
  <2>3. CASE BusError(x) \/ Leave(x)
    <3>1. stage[x] = "run" /\ stage' = [stage EXCEPT ![x] = "exit"]
      BY <2>3 DEF BusError, Leave, Running, ExitWith
    <3>2. stage' # stage BY <3>1 DEF TypeOK
    <3> QED BY <2>3, <3>2, InvExit
  <2>4. CASE EmitInsn(x) BY <2>4, InvInsn, InvExit
  <2> QED BY <1>3, <2>1, <2>2, <2>3, <2>4 DEF Step
<1>4. CASE UNCHANGED vars
  BY <1>4 DEF vars, vmVars, msgVars, devVars, OpInv
<1> QED BY <1>1, <1>2, <1>3, <1>4 DEF Next

\* Under the invariant an operation that came to its end did what was asked for, and
\* left a paged PHY on its page.
LEMMA OpSays == ASSUME Bus, OpInv PROVE (\A x \in Xfers : IsEffect(x)) /\ PageRestored
<1> SUFFICES ASSUME NEW x \in Xfers, stage[x] = "exit", ret[x] = 0
             PROVE  /\ View(dev) = Effect(req[x].op, View(dev0))
                    /\ emitted[x] = Shows(req[x].op, View(dev0))
                    /\ Paged(dev) /\ ~WritesPageReg(req[x].op) => dev.sel = dev0.sel
  BY DEF IsEffect, PageRestored
<1>1. XferAt(stage[x], req[x], pc[x], regs[x], ret[x], emitted[x], dev, dev0) /\ IsDev(dev0)
  BY DEF OpInv
<1>2. req[x] \in OpRequests /\ Performed(req[x].op, dev, dev0, emitted[x]) BY <1>1 DEF XferAt
<1>3. IsOp(req[x].op) BY <1>2, OpRequest
<1> QED BY <1>1, <1>2, <1>3, OpDone, OpPage

\* A transfer is at an assertion of its program whenever it holds the lock, and the
\* device is then what that assertion says (mdio_nl_eval on the drivers' programs).
THEOREM OpInvariant == Bus => (Spec => []OpInv)
<1> SUFFICES ASSUME Bus PROVE Spec => []OpInv OBVIOUS
<1>1. Init => OpInv BY OpInit
<1>2. TypeOK /\ LockHeld /\ OpInv /\ [Next]_vars => OpInv' BY OpStep
<1> QED BY <1>1, <1>2, TypeCorrect, Locking, PTL DEF Spec

\* The refinement: whatever the clients, the registers and the other users of the bus
\* do, every register operation of every driver (mdio_common_raw_exec, the read and
\* write of each driver) takes effect at once, when the bus lock is released, shows
\* what the register held then, or fails and has done all of its effect or none.
THEOREM Atomicity == Bus => (Spec => Atomic)
<1> SUFFICES ASSUME Bus PROVE Spec => Atomic OBVIOUS
<1>1. Init => A!AbsInit BY MapsInit
<1>2. TypeOK /\ OpInv /\ [Next]_vars => [A!AbsNext]_(A!absVars) BY OpSays, Maps
<1>3. Spec => []OpInv BY OpInvariant
<1> QED BY <1>1, <1>2, <1>3, TypeCorrect, PTL DEF Spec, Atomic, A!AbsSpec

\* A program that ran to its end leaves a paged PHY on the page it found it on,
\* unless the page register is what it wrote (pphy_read, pphy_write).
THEOREM PageRestoring == Bus => (Spec => []PageRestored)
<1> SUFFICES ASSUME Bus PROVE Spec => []PageRestored OBVIOUS
<1>1. OpInv => PageRestored BY OpSays
<1>2. Spec => []OpInv BY OpInvariant
<1> QED BY <1>1, <1>2, PTL
===============================================================================
