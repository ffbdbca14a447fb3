----------------------------- MODULE MdioDevices ------------------------------
(***************************************************************************)
(* The hardware the drivers of src/mdio program, as far as those programs  *)
(* rely on it.  External: what a device does is inferred from how the      *)
(* drivers use it.                                                         *)
(*                                                                         *)
(* One device is on the bus.  Its state is a record: kind; cells, the      *)
(* registers a user of the tool names, a function from them to words; and  *)
(* the indirection registers: sel (page, MMD function or high address      *)
(* half), adr (selected register), buf (data register) and busy.  An       *)
(* address no device answers reads as all ones.                            *)
(***************************************************************************)
EXTENDS MdioDrivers

CONSTANTS Values        \* values registers start with and other users write

Kinds == {"phy", "mmd", "mva", "mscc", "mvls", "mvls1", "xrs"}

\* The tool's handle on the device of each kind.
Handle(kind) ==
  CASE kind = "phy"   -> [drv |-> "phy",  id |-> 1]
    [] kind = "mmd"   -> [drv |-> "mmd",  id |-> 32768 + 3 * 32 + 7]
    [] kind = "mva"   -> [drv |-> "mva",  id |-> 4, page_reg |-> 22]
    [] kind = "mscc"  -> [drv |-> "mscc", id |-> 5, page_reg |-> 31]
    [] kind = "mvls"  -> [drv |-> "mvls", id |-> 6]
    [] kind = "mvls1" -> [drv |-> "mvls", id |-> 0]
    [] kind = "xrs"   -> [drv |-> "xrs",  id |-> 8]

\* An MMD is reached directly or, as mmd-c22, through registers 13 and 14.
MmdC22 == [drv |-> "mmd-c22", id |-> 32768 + 3 * 32 + 7]

Paged(d) == d.kind \in {"mva", "mscc"}
PageReg(d) == Handle(d.kind).page_reg

Peek(d, reg) == IF reg \in DOMAIN d.cells THEN d.cells[reg] ELSE 65535
Poke(d, reg, val) ==
  IF reg \in DOMAIN d.cells THEN [d EXCEPT !.cells[reg] = val] ELSE d

Reads(d, val) == {[val |-> val, dev |-> d]}

\* The switch clears the busy bit and the operation of its ATU and statistics
\* operation registers by itself, some time after they were set.
SelfClearing == {MVLS_REG(MVLS_G1, 11), MVLS_REG(MVLS_G1, 29)}
Settles(d, reg) ==
  {d} \cup (IF reg \in SelfClearing /\ Peek(d, reg) \in 32768..65534
             THEN {Poke(d, reg, Peek(d, reg) % 4096)} ELSE {})

-------------------------------------------------------------------------------
(* Read and write cycles of each kind of device, addr as BusAddr gives it. *)

PagedRead(d, reg) ==
  Reads(d, IF reg = PageReg(d) THEN d.sel ELSE Peek(d, d.sel * 65536 + reg))

PagedWrite(d, reg, val) ==
  {IF reg = PageReg(d) THEN [d EXCEPT !.sel = val] ELSE Poke(d, d.sel * 65536 + reg, val)}

\* Register 13 selects the MMD and whether 14 is its address or its data.
MmdRead(d, reg) ==
  Reads(d, CASE reg = 13 -> d.sel
             [] reg = 14 -> IF d.sel = 16384 + 7 THEN Peek(d, d.adr)
                            ELSE IF d.sel = 7 THEN d.adr ELSE 65535
             [] OTHER    -> 65535)

MmdWrite(d, reg, val) ==
  {CASE reg = 13 -> [d EXCEPT !.sel = val]
     [] reg = 14 -> IF d.sel = 16384 + 7 THEN Poke(d, d.adr, val)
                    ELSE IF d.sel = 7 THEN [d EXCEPT !.adr = val] ELSE d
     [] OTHER    -> d}

\* A command is accepted at once; its data is there when busy has cleared, which
\* happens before some later poll.
MvlsRead(d, reg) ==
  CASE reg = MVLS_CMD ->
         LET idle == [d EXCEPT !.busy = FALSE]
         IN  Reads(idle, 0) \cup (IF d.busy THEN Reads(d, MVLS_BUSY) ELSE {})
    [] reg = MVLS_DATA -> Reads(d, IF d.busy THEN 65535 ELSE d.buf)
    [] OTHER -> Reads(d, 65535)

MvlsWrite(d, reg, val) ==
  LET cell == MVLS_REG((val % 1024) \div 32, val % 32)
  IN  CASE reg = MVLS_DATA -> {[d EXCEPT !.buf = val]}
        [] reg = MVLS_CMD  ->
             IF (val % 4096) \div 1024 = 1
               THEN {[Poke(d, cell, d.buf) EXCEPT !.busy = TRUE]}
               ELSE {[e EXCEPT !.buf = Peek(e, cell), !.busy = TRUE] : e \in Settles(d, cell)}
        [] OTHER -> {d}

XrsRead(d, reg) == Reads(d, IF reg = XRS_IBD THEN Peek(d, d.sel * 65536 + d.adr) ELSE 65535)

XrsWrite(d, reg, val) ==
  {CASE reg = XRS_IBA1 -> [d EXCEPT !.sel = val]
     [] reg = XRS_IBA0 ->
          IF val % 2 = 0 THEN [d EXCEPT !.adr = val]
          ELSE Poke([d EXCEPT !.adr = val - 1], d.sel * 65536 + val - 1, d.buf)
     [] reg = XRS_IBD -> [d EXCEPT !.buf = val]
     [] OTHER -> d}

\* The address the device listens to: a port and an MMD, or a Clause 22 address.
BusRead(d, addr, reg) ==
  LET id == Handle(d.kind).id IN
  CASE d.kind = "phy" /\ addr = <<id>> -> Reads(d, Peek(d, reg))
    [] d.kind = "mmd" /\ addr = <<PrtAd(id), DevAd(id)>> -> Reads(d, Peek(d, reg))
    [] d.kind = "mmd" /\ addr = <<PrtAd(id)>> -> MmdRead(d, reg)
    [] Paged(d) /\ addr = <<id>> -> PagedRead(d, reg)
    [] d.kind = "mvls" /\ addr = <<id>> -> MvlsRead(d, reg)
    [] d.kind = "mvls1" /\ Len(addr) = 1 ->
         LET cell == MVLS_REG(addr[1], reg)
         IN  UNION {Reads(e, Peek(e, cell)) : e \in Settles(d, cell)}
    [] d.kind = "xrs" /\ addr = <<id>> -> XrsRead(d, reg)
    [] OTHER -> Reads(d, 65535)

BusWrite(d, addr, reg, val) ==
  LET id == Handle(d.kind).id IN
  CASE d.kind = "phy" /\ addr = <<id>> -> {Poke(d, reg, val)}
    [] d.kind = "mmd" /\ addr = <<PrtAd(id), DevAd(id)>> -> {Poke(d, reg, val)}
    [] d.kind = "mmd" /\ addr = <<PrtAd(id)>> -> MmdWrite(d, reg, val)
    [] Paged(d) /\ addr = <<id>> -> PagedWrite(d, reg, val)
    [] d.kind = "mvls" /\ addr = <<id>> -> MvlsWrite(d, reg, val)
    [] d.kind = "mvls1" /\ Len(addr) = 1 -> {Poke(d, MVLS_REG(addr[1], reg), val)}
    [] d.kind = "xrs" /\ addr = <<id>> -> XrsWrite(d, reg, val)
    [] OTHER -> {d}

\* Other users of the bus: they change a register, or leave the indirection
\* registers, and on a paged PHY the page, pointing elsewhere.
BusOther(d) ==
  {Poke(d, r, v) : r \in DOMAIN d.cells, v \in Values}
  \cup (IF d.kind \in {"phy", "mvls1"} THEN {}
        ELSE {[d EXCEPT !.sel = IF d.sel = 0 THEN 1 ELSE 0, !.adr = 1, !.buf = 1]})
===============================================================================
