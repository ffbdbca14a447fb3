------------------------------- MODULE MdioOps --------------------------------
(***************************************************************************)
(* Register operations: the programs the mdio tool sends to read, write or *)
(* masked-write one register of a device, run by the kernel module on the  *)
(* device they are written for, against the promise of AtomicOps.          *)
(***************************************************************************)
EXTENDS MdioNl, MdioDevices

CONSTANTS
  Registers(_),         \* the registers of each kind of device a user names
  MaskedValues, Masks,  \* data and masks of masked writes
  OpKinds,              \* the operations there are, of "read" and "write"
  XrsMasked             \* masked writes of an xrs, or everything else?

\* A register is a number a driver is handed.  Its page, port or address half is in
\* the upper 16 bits.  The bus address of a switch port is none of another device;
\* registers that change by themselves are not among the ones promised about.
PortAndReg(ports, reg) ==
  /\ reg \in Nat /\ reg \notin SelfClearing
  /\ MvlsPort(reg) \in ports /\ reg % 65536 \in 0..31

ASSUME RegistersAssumption ==
  /\ \A reg \in Registers("phy") : reg \in 0..31
  /\ \A reg \in Registers("mmd") : reg \in Word
  /\ \A k \in {"mva", "mscc"} : \A reg \in Registers(k) :
       /\ reg \in Nat /\ reg \div 65536 \in 0..255
       /\ reg % 65536 \in (0..31) \ {Handle(k).page_reg}
  /\ \A reg \in Registers("mvls") : PortAndReg(0..31, reg)
  /\ \A reg \in Registers("mvls1") : PortAndReg(16..31, reg)
  /\ \A reg \in Registers("xrs") :
       reg \in Nat /\ reg \div 65536 \in Word /\ reg % 2 = 0

ASSUME ValuesAssumption ==
  Values \subseteq Word /\ MaskedValues \subseteq Word /\ Masks \subseteq Word

Devices ==
  UNION {{[kind |-> k, cells |-> c, sel |-> s, adr |-> 0, buf |-> 0, busy |-> FALSE] :
            c \in [Registers(k) -> Values],
            s \in IF k \in {"mva", "mscc"} THEN {0, 1} ELSE {0}} : k \in Kinds}

Target(h, r) == [dev |-> h, reg |-> r]
Targets ==
  (UNION {{Target(Handle(k), r) : r \in Registers(k)} : k \in Kinds})
  \cup {Target(MmdC22, r) : r \in Registers("mmd")}
  \cup {Target(Handle("mva"), 22)}          \* the page register itself

Op(t, k, v, m) == [dev |-> t.dev, reg |-> t.reg, kind |-> k, val |-> v, mask |-> m]
Reading == {Op(t, "read", 0, 0) : t \in Targets}
Writing == {Op(t, "write", v, 0) : t \in Targets, v \in Values}
Masking == {Op(t, "write", v, m) : t \in Targets, v \in MaskedValues, m \in Masks}

Prog(o) == IF o.kind = "read" THEN raw_read(o.dev, o.reg)
           ELSE raw_write(o.dev, o.reg, o.val, o.mask)

None == Op(Target(Handle("phy"), 0), "none", 0, 0)

Ops == {o \in Reading \cup Writing \cup Masking :
          /\ o.kind \in OpKinds
          /\ (o.dev.drv = "xrs" /\ o.mask # 0) <=> XrsMasked}

OpRequests ==
  {[attrs |-> TRUE, known |-> TRUE, aligned |-> TRUE, prog |-> Prog(o), op |-> o] : o \in Ops}

-------------------------------------------------------------------------------
(* The registers a user names, and what an operation does to them.         *)

View(d) == [kind |-> d.kind, cells |-> d.cells]

Reaches(h, v) == h = Handle(v.kind) \/ (v.kind = "mmd" /\ h = MmdC22)

\* "write(REG, (read(REG) & MASK) | DATA)", src/mdio/main.c; no mask is mask zero.
Effect(o, v) ==
  IF o.kind = "write" /\ Reaches(o.dev, v) /\ o.reg \in DOMAIN v.cells
    THEN [v EXCEPT !.cells[o.reg] = BitOr(BitAnd(@, o.mask), o.val)]
    ELSE v

\* Reading the page register gives the page in use while it is read, which is 0.
Shows(o, v) ==
  IF o.kind = "write" THEN <<>>
  ELSE IF ~Reaches(o.dev, v) THEN <<65535>>
  ELSE IF o.reg \in DOMAIN v.cells THEN <<v.cells[o.reg]>> ELSE <<0>>

OtherViews(v) == {[v EXCEPT !.cells[r] = w] : r \in DOMAIN v.cells, w \in Values}

AbsPhase ==
  [x \in Xfers |->
     CASE stage[x] = "idle" -> "idle"
       [] stage[x] \in {"lock", "run", "exit"} -> "pending"
       [] OTHER -> IF ret[x] = 0 THEN "ok" ELSE "failed"]

A == INSTANCE AtomicOps WITH
       Clients <- Xfers, Apply <- Effect, Output <- Shows, Others <- OtherViews,
       Cells0 <- {View(d) : d \in Devices}, NoOp <- None,
       cells <- View(dev0), phase <- AbsPhase,
       op <- [x \in Xfers |-> IF stage[x] = "idle" THEN None ELSE req[x].op],
       out <- [x \in Xfers |-> IF AbsPhase[x] = "ok" THEN emitted[x] ELSE <<>>]

\* Every register operation of every driver, with its address and page selection,
\* polling and write-back, implements one atomic operation on the registers
\* ("race-free ... as an atomic transaction", man/mdio-netlink.9).
Atomic == A!AbsSpec

\* A masked write that succeeded has stored (read(REG) & MASK) | DATA: what the
\* tool's help says of it (src/mdio/main.c, mdio_common_raw_exec).
MaskedWriteEffect ==
  \A x \in Xfers :
    stage[x] = "exit" /\ ret[x] = 0 => View(dev) = Effect(req[x].op, View(dev0))

WritesPageReg(o) == o.kind = "write" /\ o.dev.drv = "mva" /\ o.reg % 32 = o.dev.page_reg

\* A program that ran to its end leaves a paged PHY on the page it found it on,
\* unless the page register is what it wrote (pphy_read, pphy_write).
PageRestored ==
  \A x \in Xfers :
    stage[x] = "exit" /\ ret[x] = 0 /\ Paged(dev) /\ ~WritesPageReg(req[x].op)
      => dev.sel = dev0.sel
===============================================================================
