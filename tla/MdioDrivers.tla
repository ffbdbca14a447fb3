----------------------------- MODULE MdioDrivers ------------------------------
(***************************************************************************)
(* The programs the mdio tool sends: what the drivers of src/mdio push for *)
(* a register read or write (phy, mmd, mmd-c22, mva, mscc, mvls, xrs), and *)
(* what the commands build from them (raw, bench, dump, status, and the    *)
(* lag, counter and atu commands of mvls).                                 *)
(*                                                                         *)
(* A device is a record [drv, id, page_reg]; a register is the number the  *)
(* driver is handed, with the page or port in its upper half.  Where the   *)
(* code pushes instructions onto a program, the operators here give the    *)
(* instructions pushed: jumps are relative, so a fragment means the same   *)
(* wherever in a program it stands.                                        *)
(***************************************************************************)
EXTENDS MdioInsn

CONSTANT BenchReads     \* reads a benchmark makes, 1000 in the code

ASSUME BenchAssumption == BenchReads \in Nat

EmitReg0 == INSN(EMIT, REG(0), 0, 0)

\* for (i = lo; i <= hi; i++) push F(i), which is of the same length for every i
ForEach(lo, hi, F(_)) ==
  LET w == Len(F(lo))
  IN  [k \in 1..(IF hi < lo THEN 0 ELSE w * (hi - lo + 1)) |-> F(lo + (k - 1) \div w)[((k - 1) % w) + 1]]

-------------------------------------------------------------------------------
(* phy and mmd: the register is on the bus; mmd only has a Clause 45 id.   *)

phy_read(dev, reg) == <<INSN(READ, IMM(dev.id), IMM(reg), REG(0))>>

phy_write(dev, reg, val) == <<INSN(WRITE, IMM(dev.id), IMM(reg), val)>>

-------------------------------------------------------------------------------
(* mmd-c22: Clause 45 registers through the Clause 22 registers 13 and 14. *)

PrtAd(id) == (id % 1024) \div 32
DevAd(id) == id % 32

mmd_c22_address(dev, reg) ==
  <<INSN(WRITE, IMM(PrtAd(dev.id)), IMM(13), IMM(DevAd(dev.id))),
    INSN(WRITE, IMM(PrtAd(dev.id)), IMM(14), IMM(reg)),
    INSN(WRITE, IMM(PrtAd(dev.id)), IMM(13), IMM(DevAd(dev.id) + 16384))>>

mmd_c22_read(dev, reg) ==
  Append(mmd_c22_address(dev, reg), INSN(READ, IMM(PrtAd(dev.id)), IMM(14), REG(0)))

mmd_c22_write(dev, reg, val) ==
  Append(mmd_c22_address(dev, reg), INSN(WRITE, IMM(PrtAd(dev.id)), IMM(14), val))

-------------------------------------------------------------------------------
(* mva and mscc: paged PHYs.  The page in use is kept in R1 and restored.  *)

Page(reg) == (reg \div 65536) % 256

select_page(dev, page) ==
  <<INSN(READ, IMM(dev.id), IMM(dev.page_reg), REG(1)),
    INSN(JEQ, REG(1), IMM(page), IMM(1)),
    INSN(WRITE, IMM(dev.id), IMM(dev.page_reg), IMM(page))>>

\* Mutant of restore_page: the test is the wrong way round.
BadRestorePage(dev, page) ==
  <<INSN(JNE, REG(1), IMM(page), IMM(1)),
    INSN(WRITE, IMM(dev.id), IMM(dev.page_reg), REG(1))>>

restore_page(dev, page) ==
  <<INSN(JEQ, REG(1), IMM(page), IMM(1)),
    INSN(WRITE, IMM(dev.id), IMM(dev.page_reg), REG(1))>>

pphy_read(dev, reg) ==
  select_page(dev, Page(reg))
    \o <<INSN(READ, IMM(dev.id), IMM(reg % 32), REG(0))>>
    \o restore_page(dev, Page(reg))

pphy_write(dev, reg, val) ==
  select_page(dev, Page(reg))
    \o <<INSN(WRITE, IMM(dev.id), IMM(reg % 32), val)>>
    \o restore_page(dev, Page(reg))

ReadEmit(dev, reg) == <<INSN(READ, IMM(dev.id), IMM(reg), REG(0)), EmitReg0>>

\* Mutant of pphy_dump: the last register is left out.
BadPphyDump(dev, start, end) ==
  LET One(reg) == ReadEmit(dev, reg)
  IN  select_page(dev, Page(start)) \o ForEach(start % 32, end - 1, One)
        \o restore_page(dev, Page(start))

\* range.start carries the page, range.end does not.
pphy_dump(dev, start, end) ==
  LET One(reg) == ReadEmit(dev, reg)
  IN  select_page(dev, Page(start)) \o ForEach(start % 32, end, One)
        \o restore_page(dev, Page(start))

-------------------------------------------------------------------------------
(* mvls: LinkStreet switches.  With a non-zero id the switch's registers   *)
(* are reached through its command and data registers, which are polled.   *)

MVLS_CMD  == 0
MVLS_DATA == 1
MVLS_BUSY == 32768
MVLS_G1 == 27
MVLS_G2 == 28
MVLS_REG(port, reg) == port * 65536 + reg
MvlsPort(reg) == reg \div 65536

mvls_multi_cmd(port, reg, write) ==
  MVLS_BUSY + 4096 + (IF write THEN 1024 ELSE 2048) + port * 32 + reg

\* Repeat the fragment until it leaves the busy bit in R0 clear.
while_busy(poll) ==
  poll \o <<INSN(AND, REG(0), IMM(MVLS_BUSY), REG(0)),
            INSN(JEQ, REG(0), IMM(MVLS_BUSY), GOTO(Len(poll) + 1, 0))>>

\* The id is a uint8_t here.
mvls_wait_cmd(id) == while_busy(<<INSN(READ, IMM(id % 256), IMM(MVLS_CMD), REG(0))>>)

\* Mutant of mvls_read_to: the data register is read without waiting.
BadReadTo(dev, reg, to) ==
  IF dev.id = 0 THEN <<INSN(READ, IMM(MvlsPort(reg)), IMM(reg % 65536), REG(to))>>
  ELSE <<INSN(WRITE, IMM(dev.id), IMM(MVLS_CMD),
              IMM(mvls_multi_cmd(MvlsPort(reg), reg % 65536, FALSE))),
         INSN(READ, IMM(dev.id), IMM(MVLS_DATA), REG(to))>>

mvls_read_to(dev, reg, to) ==
  IF dev.id = 0 THEN <<INSN(READ, IMM(MvlsPort(reg)), IMM(reg % 65536), REG(to))>>
  ELSE <<INSN(WRITE, IMM(dev.id), IMM(MVLS_CMD),
              IMM(mvls_multi_cmd(MvlsPort(reg), reg % 65536, FALSE)))>>
         \o mvls_wait_cmd(dev.id)
         \o <<INSN(READ, IMM(dev.id), IMM(MVLS_DATA), REG(to))>>

mvls_read(dev, reg) == mvls_read_to(dev, reg, 0)

mvls_write(dev, reg, val) ==
  IF dev.id = 0 THEN <<INSN(WRITE, IMM(MvlsPort(reg)), IMM(reg % 65536), val)>>
  ELSE <<INSN(WRITE, IMM(dev.id), IMM(MVLS_DATA), val),
         INSN(WRITE, IMM(dev.id), IMM(MVLS_CMD),
              IMM(mvls_multi_cmd(MvlsPort(reg), reg % 65536, TRUE)))>>
         \o mvls_wait_cmd(dev.id)

mvls_wait(dev, reg) == while_busy(mvls_read_to(dev, reg, 0))

-------------------------------------------------------------------------------
(* xrs: 32-bit register addresses through an address and a data register.  *)
(* Bit 0 of the address starts a write.  The value is encoded once more.   *)

XRS_IBA0 == 16
XRS_IBA1 == 17
XRS_IBD  == 20
Even(reg) == (reg % 65536) - (reg % 2)

xrs_read(dev, reg) ==
  <<INSN(WRITE, IMM(dev.id), IMM(XRS_IBA1), IMM(reg \div 65536)),
    INSN(WRITE, IMM(dev.id), IMM(XRS_IBA0), IMM(Even(reg))),
    INSN(READ, IMM(dev.id), IMM(XRS_IBD), REG(0))>>

xrs_write(dev, reg, val) ==
  <<INSN(WRITE, IMM(dev.id), IMM(XRS_IBD), IMM(val)),
    INSN(WRITE, IMM(dev.id), IMM(XRS_IBA1), IMM(reg \div 65536)),
    INSN(WRITE, IMM(dev.id), IMM(XRS_IBA0), IMM(Even(reg) + 1))>>

-------------------------------------------------------------------------------
(* struct mdio_driver: the driver's read and write.                        *)

driver_read(dev, reg) ==
  CASE dev.drv \in {"phy", "mmd"}  -> phy_read(dev, reg)
    [] dev.drv = "mmd-c22"         -> mmd_c22_read(dev, reg)
    [] dev.drv \in {"mva", "mscc"} -> pphy_read(dev, reg)
    [] dev.drv = "mvls"            -> mvls_read(dev, reg)
    [] dev.drv = "xrs"             -> xrs_read(dev, reg)

driver_write(dev, reg, val) ==
  CASE dev.drv \in {"phy", "mmd"}  -> phy_write(dev, reg, val)
    [] dev.drv = "mmd-c22"         -> mmd_c22_write(dev, reg, val)
    [] dev.drv \in {"mva", "mscc"} -> pphy_write(dev, reg, val)
    [] dev.drv = "mvls"            -> mvls_write(dev, reg, val)
    [] dev.drv = "xrs"             -> xrs_write(dev, reg, val)

-------------------------------------------------------------------------------
(* The commands every driver has.                                          *)

\* Mutant of raw_write: data and mask are applied in the wrong order.
BadRawWrite(dev, reg, val, mask) ==
  IF mask = 0 THEN driver_write(dev, reg, IMM(val))
  ELSE driver_read(dev, reg)
         \o <<INSN(OR, REG(0), IMM(val), REG(0)), INSN(AND, REG(0), IMM(mask), REG(0))>>
         \o driver_write(dev, reg, REG(0))

\* A mask of zero is no mask.
raw_write(dev, reg, val, mask) ==
  IF mask = 0 THEN driver_write(dev, reg, IMM(val))
  ELSE driver_read(dev, reg)
         \o <<INSN(AND, REG(0), IMM(mask), REG(0)), INSN(OR, REG(0), IMM(val), REG(0))>>
         \o driver_write(dev, reg, REG(0))

raw_read(dev, reg) == Append(driver_read(dev, reg), EmitReg0)

dump(dev, start, end) ==
  LET One(reg) == Append(driver_read(dev, reg), EmitReg0)
  IN  IF dev.drv \in {"mva", "mscc"} THEN pphy_dump(dev, start, end)
      ELSE ForEach(start, end, One)

\* The reads of a benchmark, compared with the expected value in R7.
bench_loop(dev, reg) ==
  LET body == driver_read(dev, reg)
                \o <<INSN(JEQ, REG(0), REG(7), IMM(1)), EmitReg0,
                     INSN(ADD, REG(6), IMM(1), REG(6))>>
  IN  <<INSN(ADD, IMM(0), IMM(0), REG(6))>> \o body
        \o <<INSN(JNE, REG(6), IMM(BenchReads), GOTO(Len(body), 0))>>

bench_write(dev, reg, val) ==
  <<INSN(ADD, IMM(val), IMM(0), REG(7))>>
    \o driver_write(dev, reg, REG(7)) \o bench_loop(dev, reg)

bench_read(dev, reg) ==
  driver_read(dev, reg) \o <<INSN(ADD, REG(0), IMM(0), REG(7))>> \o bench_loop(dev, reg)

-------------------------------------------------------------------------------
(* Status and switch commands.                                             *)

phy_status(dev) ==
  ReadEmit(dev, 0) \o ReadEmit(dev, 1) \o ReadEmit(dev, 2)
    \o ReadEmit(dev, 3) \o ReadEmit(dev, 15)

mva_status(dev) ==
  ReadEmit(dev, 0) \o ReadEmit(dev, 1) \o ReadEmit(dev, 2)
    \o ReadEmit(dev, 3) \o ReadEmit(dev, dev.page_reg)

\* Also the status of mmd-c22: the device is read with Clause 45 cycles.
mmd_status(dev) ==
  <<INSN(ADD, IMM(0), IMM(0), REG(1)),
    INSN(READ, IMM(dev.id), REG(1), REG(0)), EmitReg0,
    INSN(ADD, REG(1), IMM(1), REG(1)),
    INSN(JNE, REG(1), IMM(16), IMM(-4))>>

MDIO_DEV_MAX == 32

bus_status ==
  <<INSN(ADD, IMM(0), IMM(0), REG(1)),
    INSN(READ, REG(1), IMM(1), REG(0)), EmitReg0,
    INSN(READ, REG(1), IMM(2), REG(0)), EmitReg0,
    INSN(READ, REG(1), IMM(3), REG(0)), EmitReg0,
    INSN(ADD, REG(1), IMM(1), REG(1)),
    INSN(JNE, REG(1), IMM(MDIO_DEV_MAX), IMM(-8))>>

\* The LAG table, then the LAG masks, whose HashTrunk bit is kept.
mvls_lag(dev) ==
  LET G2(reg) == MVLS_REG(MVLS_G2, reg)
      Lag(i)  == mvls_write(dev, G2(8), IMM(i * 2048))
                   \o mvls_read(dev, G2(8)) \o <<EmitReg0>>
      Mask(i) == mvls_read(dev, G2(7))
                   \o <<INSN(AND, REG(0), IMM(2048), REG(0)),
                        INSN(OR, REG(0), IMM(i * 4096), REG(0))>>
                   \o mvls_write(dev, G2(7), REG(0))
                   \o mvls_read(dev, G2(7)) \o <<EmitReg0>>
  IN  ForEach(0, 15, Lag) \o ForEach(0, 7, Mask)

mvls_id(dev) == Append(mvls_read(dev, MVLS_REG(16, 3)), EmitReg0)

STATS == MVLS_REG(MVLS_G1, 29)

mvls_counter_read_one(dev, counter) ==
  mvls_write(dev, STATS, IMM(32768 + 4 * 4096 + counter))
    \o mvls_wait(dev, STATS)
    \o mvls_read(dev, MVLS_REG(MVLS_G1, 30)) \o <<EmitReg0>>
    \o mvls_read(dev, MVLS_REG(MVLS_G1, 31)) \o <<EmitReg0>>

\* The family (mvls_id, read first) says how the port is coded in a capture.
get_family(id) ==
  CASE id \div 16 = 153 -> "opal"
    [] id \div 16 = 850 -> "agate"
    [] id \div 16 = 161 -> "peridot"
    [] OTHER             -> "unknown"

base(fam)  == IF fam \in {"agate", "peridot"} THEN 32 ELSE 0
shift(fam) == IF fam \in {"agate", "peridot"} THEN 32 ELSE 1

\* Mutant of mvls_counter: the last port is left out.
BadCounter(dev, fam) ==
  LET capture == 32768 + 5 * 4096 + base(fam)
      body == mvls_write(dev, STATS, REG(1)) \o mvls_wait(dev, STATS)
                \o mvls_counter_read_one(dev, 4) \o mvls_counter_read_one(dev, 6)
                \o mvls_counter_read_one(dev, 7) \o mvls_counter_read_one(dev, 16)
                \o mvls_counter_read_one(dev, 19) \o mvls_counter_read_one(dev, 18)
                \o <<INSN(ADD, REG(1), IMM(shift(fam)), REG(1))>>
  IN  mvls_wait(dev, STATS) \o <<INSN(ADD, IMM(capture), IMM(0), REG(1))>> \o body
        \o <<INSN(JNE, REG(1), IMM(capture + shift(fam) * 10), GOTO(Len(body), 0))>>

\* Mutant of mvls_counter: the loop ends at a value it does not meet in every family.
BadCounterEnd(dev, fam) ==
  LET capture == 32768 + 5 * 4096 + base(fam)
      body == mvls_write(dev, STATS, REG(1)) \o mvls_wait(dev, STATS)
                \o mvls_counter_read_one(dev, 4) \o mvls_counter_read_one(dev, 6)
                \o mvls_counter_read_one(dev, 7) \o mvls_counter_read_one(dev, 16)
                \o mvls_counter_read_one(dev, 19) \o mvls_counter_read_one(dev, 18)
                \o <<INSN(ADD, REG(1), IMM(shift(fam)), REG(1))>>
  IN  mvls_wait(dev, STATS) \o <<INSN(ADD, IMM(capture), IMM(0), REG(1))>> \o body
        \o <<INSN(JNE, REG(1), IMM(capture + 11), GOTO(Len(body), 0))>>

\* Six counters of each of the eleven ports.
mvls_counter(dev, fam) ==
  LET capture == 32768 + 5 * 4096 + base(fam)
      body == mvls_write(dev, STATS, REG(1)) \o mvls_wait(dev, STATS)
                \o mvls_counter_read_one(dev, 4) \o mvls_counter_read_one(dev, 6)
                \o mvls_counter_read_one(dev, 7) \o mvls_counter_read_one(dev, 16)
                \o mvls_counter_read_one(dev, 19) \o mvls_counter_read_one(dev, 18)
                \o <<INSN(ADD, REG(1), IMM(shift(fam)), REG(1))>>
  IN  mvls_wait(dev, STATS) \o <<INSN(ADD, IMM(capture), IMM(0), REG(1))>> \o body
        \o <<INSN(JNE, REG(1), IMM(capture + shift(fam) * 11), GOTO(Len(body), 0))>>

\* flush of one FID: its register is set first.  IMM keeps 16 bits of 0xf0000.
mvls_atu_fid(dev, fid) ==
  LET FID == MVLS_REG(MVLS_G1, 1)
  IN  mvls_read_to(dev, FID, 0)
        \o <<INSN(AND, REG(0), IMM(983040), REG(0)),
             INSN(OR, REG(0), IMM(fid % 4096), REG(0))>>
        \o mvls_write(dev, FID, REG(0))

mvls_atu(dev, op) ==
  LET ATU == MVLS_REG(MVLS_G1, 11)
  IN  mvls_wait(dev, ATU) \o mvls_read_to(dev, ATU, 0)
        \o <<INSN(AND, REG(0), IMM(4095), REG(0)),
             INSN(OR, REG(0), IMM(32768 + op * 4096), REG(0))>>
        \o mvls_write(dev, ATU, REG(0)) \o mvls_wait(dev, ATU)

\* An option that is not "static" is reported and adds nothing to the operation.
AtuOp(opt) == CASE opt = "none" -> 2 [] opt = "static" -> 1 [] opt = "other" -> 0

mvls_atu_flush_all(dev, opt) == mvls_atu(dev, AtuOp(opt))
mvls_atu_flush_fid(dev, fid, opt) == mvls_atu_fid(dev, fid) \o mvls_atu(dev, 4 + AtuOp(opt))
===============================================================================
