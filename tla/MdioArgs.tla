------------------------------- MODULE MdioArgs -------------------------------
(***************************************************************************)
(* What the mdio tool makes of its command line: main, the exec functions  *)
(* of the drivers and of the commands, and the parsers of devices,         *)
(* registers and values they call.                                         *)
(*                                                                         *)
(* An argument is the sequence of its lexemes, as the parsers take them    *)
(* apart: numbers, and words or separators.  5-7 is <<Num(5), Txt("-"),    *)
(* Num(7)>>, the empty argument <<>>.  A parser gives a record; ok says    *)
(* whether it returned 0 (which errno it returned otherwise makes no       *)
(* difference to main).  A command gives the plan of its transfers: the    *)
(* requests it sends one after the other as long as they succeed, and how  *)
(* it ends if they all do.                                                 *)
(***************************************************************************)
EXTENDS MdioDrivers, SequencesExt

CONSTANTS
  UINT32_MAX,   \* 2^32 - 1 in the code
  ULLONG_MAX,   \* 2^64 - 1, also the ULONG_MAX of a 64-bit build
  Glob          \* the buses a pattern matches under /sys/class/mdio_bus, in order

ASSUME WidthAssumption ==
  /\ UINT32_MAX \in Nat /\ ULLONG_MAX \in Nat
  /\ 256 * U16 <= UINT32_MAX /\ UINT32_MAX < ULLONG_MAX

Lexeme == [t: STRING, v: Int]
Num(n) == [t |-> "number", v |-> n]
Txt(s) == [t |-> s, v |-> 0]

Is(s, word) == s = <<Txt(word)>>
Has(s, sep) == \E i \in 1..Len(s) : s[i].t = sep

-------------------------------------------------------------------------------
(* strtoul, strtoull and strtok (external: the C library).                 *)

\* Without a number the value is 0 and the rest the whole string; a negative number
\* wraps, one too large is the largest there is, with errno set.
strtoull(s) ==
  IF s = <<>> \/ s[1].t # "number" THEN [val |-> 0, end |-> s, errno |-> FALSE]
  ELSE [val |-> IF s[1].v > ULLONG_MAX THEN ULLONG_MAX ELSE s[1].v % (ULLONG_MAX + 1),
        end |-> Tail(s), errno |-> s[1].v > ULLONG_MAX]

\* strtok(s, ":"): the first token, <<>> for none, and where the next one starts.
strtok(s) ==
  LET from == SelectInSeq(s, LAMBDA l : l.t # ":")
      str  == IF from = 0 THEN <<>> ELSE SubSeq(s, from, Len(s))
      to   == SelectInSeq(str, LAMBDA l : l.t = ":")
  IN  IF to = 0 THEN [tok |-> str, rest |-> <<>>]
      ELSE [tok |-> SubSeq(str, 1, to - 1), rest |-> SubSeq(str, to + 1, Len(str))]

-------------------------------------------------------------------------------
(* Devices.                                                                *)

MDIO_PHY_ID_C45 == 32768    \* the bit of a Clause 45 address

\* Mutant of mdio_parse_dev: the port of a Clause 45 address is not checked.
BadParseDev(s, allow_c45) ==
  LET C45(p, d) == [ok |-> p.end[1].t = ":" /\ allow_c45 /\ d.end = <<>> /\ d.val <= 31,
                    id |-> (MDIO_PHY_ID_C45 + p.val * 32 + d.val) % U16]
      Dev(p) == IF p.end = <<>> THEN [ok |-> p.val <= 31, id |-> p.val]
                ELSE C45(p, strtoull(Tail(p.end)))
  IN  Dev(strtoull(s))

\* A Clause 22 address, or PRTAD:DEVAD where the caller allows it.
mdio_parse_dev(s, allow_c45) ==
  LET C45(p, d) == [ok |-> p.end[1].t = ":" /\ allow_c45 /\ d.end = <<>> /\ d.val <= 31 /\ p.val <= 31,
                    id |-> (MDIO_PHY_ID_C45 + p.val * 32 + d.val) % U16]
      Dev(p) == IF p.end = <<>> THEN [ok |-> p.val <= 31, id |-> p.val]
                ELSE C45(p, strtoull(Tail(p.end)))
  IN  Dev(strtoull(s))

\* Mutant of mem_max: the paged PHYs are given the registers of an MMD.
BadMemMax(drv) ==
  CASE drv = "phy"  -> 31
    [] drv \in {"mmd", "mmd-c22", "mva", "mscc"} -> U16 - 1
    [] drv = "xrs"  -> UINT32_MAX

\* struct mdio_device of each driver, as its exec function sets it up.
mem_max(drv) ==
  CASE drv \in {"phy", "mva", "mscc"} -> 31
    [] drv \in {"mmd", "mmd-c22"}     -> U16 - 1
    [] drv = "xrs"                    -> UINT32_MAX

Device(drv, id) ==
  CASE drv = "mva"  -> [drv |-> drv, id |-> id, page_reg |-> 22]
    [] drv = "mscc" -> [drv |-> drv, id |-> id, page_reg |-> 31]
    [] OTHER        -> [drv |-> drv, id |-> id]

page_names(drv) ==
  [n \in IF drv = "mva" THEN {"copper", "cu", "fiber", "fibre"} ELSE {} |->
     IF n \in {"copper", "cu"} THEN 0 ELSE 1]

-------------------------------------------------------------------------------
(* Registers and values.  ranged: the caller takes a range.                *)

NoReg == [ok |-> FALSE, start |-> 0, end |-> 0]

\* What follows the second number is not looked at; N+M ends at N + M, modulo 2^64.
mdio_parse_range(drv, s, ranged) ==
  LET Checked(rs, re, max) ==
        IF rs > max \/ re > max THEN NoReg ELSE [ok |-> TRUE, start |-> rs, end |-> re]
      From(sep, add, a, b) ==
        IF sep \notin {"+", "-"} \/ ~ranged \/ b.errno THEN NoReg
        ELSE Checked(a.val, (b.val + add) % (ULLONG_MAX + 1), mem_max(drv))
      Bounds(a) ==
        IF a.errno THEN NoReg
        ELSE IF a.end = <<>> THEN Checked(a.val, a.val, mem_max(drv))
        ELSE From(a.end[1].t, IF a.end[1].t = "+" THEN a.val ELSE 0, a, strtoull(Tail(a.end)))
  IN  Bounds(strtoull(s))

\* A page by its name or its number.
pphy_parse_page(drv, tok) ==
  LET Number(r) == [ok |-> r.end = <<>> /\ r.val <= 255, page |-> r.val]
  IN  IF tok[1].t \in DOMAIN page_names(drv) /\ Len(tok) = 1
        THEN [ok |-> TRUE, page |-> page_names(drv)[tok[1].t]]
      ELSE Number(strtoull(tok))

\* PAGE:REG; what follows a second colon is not looked at.
pphy_parse_reg(drv, s, ranged) ==
  LET In(page, r) == IF ~page.ok \/ ~r.ok THEN NoReg ELSE [r EXCEPT !.start = @ + page.page * U16]
      Parse(tok1, tok2) ==
        IF tok1 = <<>> \/ tok2 = <<>> THEN NoReg
        ELSE In(pphy_parse_page(drv, tok1), mdio_parse_range(drv, tok2, ranged))
      Split(t) == Parse(t.tok, strtok(t.rest).tok)
  IN  Split(strtok(s))

\* A number of five bits.
Five(r) == [ok |-> r.end = <<>> /\ r.val <= 31, no |-> r.val]

mvls_parse_port(tok) ==
  IF Is(tok, "global1") \/ Is(tok, "g1") THEN [ok |-> TRUE, no |-> MVLS_G1]
  ELSE IF Is(tok, "global2") \/ Is(tok, "g2") THEN [ok |-> TRUE, no |-> MVLS_G2]
  ELSE Five(strtoull(tok))

mvls_parse_reg(s) ==
  LET In(port, r) ==
        IF ~port.ok \/ ~r.ok THEN NoReg
        ELSE [ok |-> TRUE, start |-> MVLS_REG(port.no, r.no), end |-> 0]
      Parse(tok1, tok2) ==
        IF tok1 = <<>> \/ tok2 = <<>> THEN NoReg
        ELSE In(mvls_parse_port(tok1), Five(strtoull(tok2)))
      Split(t) == Parse(t.tok, strtok(t.rest).tok)
  IN  Split(strtok(s))

\* mdio_device_parse_reg: the first of the arguments is popped.
parse_reg(drv, args, ranged) ==
  IF args = <<>> THEN NoReg
  ELSE CASE drv = "mvls" -> IF ranged THEN NoReg ELSE mvls_parse_reg(args[1])
         [] drv \in {"mva", "mscc"} -> pphy_parse_reg(drv, args[1], ranged)
         [] OTHER -> mdio_parse_range(drv, args[1], ranged)

\* mdio_device_parse_val: DATA, or DATA/MASK where the caller takes a mask.
parse_val(s, masked) ==
  LET Masked(v, m) ==
        [ok |-> v.end[1].t = "/" /\ masked /\ m.end = <<>> /\ v.val < U16 /\ m.val < U16,
         val |-> v.val, mask |-> m.val]
      Value(v) == IF v.end = <<>> THEN [ok |-> v.val < U16, val |-> v.val, mask |-> 0]
                  ELSE Masked(v, strtoull(Tail(v.end)))
  IN  Value(strtoull(s))

-------------------------------------------------------------------------------
(* The commands.  A request carries its device, the callback cb that takes *)
(* its reply and n, the registers a dump's callback expects.               *)

Cmd(dev, cb, prog) ==
  [attrs |-> TRUE, known |-> TRUE, aligned |-> TRUE, prog |-> prog, cb |-> cb, n |-> 0,
   dev |-> dev]

\* The request mdio_xfer_timeout builds: the two headers, the bus (61 characters at
\* most), the program and the timeout.
BUF_SIZE == 4096
ProgBytes(prog) == 8 * Len(prog)
RequestBytes(prog) == 16 + 4 + (4 + 64) + (4 + ProgBytes(prog)) + 8

\* end: how the command ends if every transfer succeeds, "ok", "error", or "endless"
\* for a loop that never gets there; again: the last request is repeated.
Plan(todo, end) == [todo |-> todo, end |-> end, again |-> FALSE]
Sends(request) == Plan(<<request>>, "ok")
Refused == Plan(<<>>, "error")

mdio_common_raw_exec(dev, args) ==
  LET Parsed(r, v) ==
        IF ~r.ok THEN Refused
        ELSE IF Len(args) = 1 THEN Sends(Cmd(dev, "raw_read", raw_read(dev, r.start)))
        ELSE IF ~v.ok \/ Len(args) > 2 THEN Refused
        ELSE Sends(Cmd(dev, "raw_write", raw_write(dev, r.start, v.val, v.mask)))
  IN  Parsed(parse_reg(dev.drv, args, FALSE), parse_val(args[2], TRUE))

mdio_common_bench_exec(dev, args) ==
  LET Parsed(r, v) ==
        IF ~r.ok THEN Refused
        ELSE IF Len(args) = 1 THEN Sends(Cmd(dev, "bench", bench_read(dev, r.start)))
        ELSE IF ~v.ok \/ Len(args) > 2 THEN Refused
        ELSE Sends(Cmd(dev, "bench", bench_write(dev, r.start, v.val)))
  IN  Parsed(parse_reg(dev.drv, args, FALSE), parse_val(args[2], FALSE))

\* for (reg = start; reg <= end; reg++) on 32 bits.
Endless(end) == end = UINT32_MAX

\* Mutant of DumpWords: the page is still in start.
BadDumpWords(dev, r) == r.end + 1 - r.start

\* The words the callback expects: pphy_dump has taken the page out of start.
DumpWords(dev, r) ==
  r.end + 1 - (IF dev.drv \in {"mva", "mscc"} THEN r.start % 32 ELSE r.start)

mdio_common_dump_exec_one(dev, args) ==
  LET Parsed(r) ==
        IF ~r.ok THEN Refused
        ELSE IF Endless(r.end) THEN Plan(<<>>, "endless")
        ELSE Sends([Cmd(dev, "dump", dump(dev, r.start, r.end)) EXCEPT !.n = DumpWords(dev, r)])
  IN  Parsed(parse_reg(dev.drv, args, TRUE))

\* Mutant of mdio_common_dump_exec: a range that cannot be had is passed over in silence.
BadDumpExec(dev, args) ==
  LET UpTo(one, bad) ==
        IF bad = 0 THEN Plan([i \in 1..Len(one) |-> one[i].todo[1]], "ok")
        ELSE Plan([i \in 1..(bad - 1) |-> one[i].todo[1]], "ok")
      All(one) == UpTo(one, SelectInSeq(one, LAMBDA p : p.end # "ok"))
  IN  All([i \in 1..Len(args) |-> mdio_common_dump_exec_one(dev, <<args[i]>>)])

\* One range after the other, up to the first that cannot be had.
mdio_common_dump_exec(dev, args) ==
  LET UpTo(one, bad) ==
        IF bad = 0 THEN Plan([i \in 1..Len(one) |-> one[i].todo[1]], "ok")
        ELSE Plan([i \in 1..(bad - 1) |-> one[i].todo[1]], one[bad].end)
      All(one) == UpTo(one, SelectInSeq(one, LAMBDA p : p.end # "ok"))
  IN  All([i \in 1..Len(args) |-> mdio_common_dump_exec_one(dev, <<args[i]>>)])

mdio_common_exec(dev, args) ==
  IF args = <<>> THEN Refused
  ELSE CASE Is(args[1], "bench") -> mdio_common_bench_exec(dev, Tail(args))
         [] Is(args[1], "dump")  -> mdio_common_dump_exec(dev, Tail(args))
         [] OTHER -> mdio_common_raw_exec(dev, IF Is(args[1], "raw") THEN Tail(args) ELSE args)

-------------------------------------------------------------------------------
(* The commands of mvls, with the name still in args[1].                   *)

mvls_lag_exec(dev, args) ==
  IF Len(args) > 1 THEN Refused ELSE Sends(Cmd(dev, "lag", mvls_lag(dev)))

\* The program of the second request is the one for the family the first one finds.
mvls_counter_exec(dev, args) ==
  IF Len(args) > 1 /\ ~Is(args[2], "repeat") THEN Refused
  ELSE [Plan(<<Cmd(dev, "id", mvls_id(dev)), Cmd(dev, "counter", mvls_counter(dev, "unknown"))>>, "ok")
          EXCEPT !.again = Len(args) > 1]

\* strtol: a word is FID 0.
mvls_atu_exec(dev, args) ==
  LET Option(i) == IF Len(args) < i THEN "none" ELSE IF Is(args[i], "static") THEN "static" ELSE "other"
      fid == IF args[3] # <<>> /\ args[3][1].t = "number" THEN args[3][1].v ELSE 0
  IN  IF Len(args) < 2 \/ ~Is(args[2], "flush") THEN Refused
      ELSE IF Len(args) = 2 THEN Sends(Cmd(dev, "atu", mvls_atu_flush_all(dev, "none")))
      ELSE IF Is(args[3], "all") THEN Sends(Cmd(dev, "atu", mvls_atu_flush_all(dev, Option(4))))
      ELSE IF fid < 0 THEN Refused
      ELSE Sends(Cmd(dev, "atu", mvls_atu_flush_fid(dev, fid, Option(4))))

-------------------------------------------------------------------------------
(* The drivers' exec functions, and main.                                  *)

Drivers == {"phy", "mmd", "mmd-c22", "mva", "mscc", "mvls", "xrs"}

HasStatus(drv) == drv \in {"phy", "mmd", "mmd-c22", "mva"}

status(dev) ==
  CASE dev.drv = "phy" -> Cmd(dev, "phy_status", phy_status(dev))
    [] dev.drv = "mva" -> Cmd(dev, "mva_status", mva_status(dev))
    [] OTHER           -> Cmd(dev, "mmd_status", mmd_status(dev))

\* The device, then what the driver does of its own, then the common commands.
exec(drv, args) ==
  LET Run(dev, op) ==
        IF HasStatus(drv) /\ (op = <<>> \/ Is(op[1], "status")) THEN Sends(status(dev))
        ELSE IF op = <<>> THEN Refused
        ELSE IF drv = "mvls" /\ Is(op[1], "atu") THEN mvls_atu_exec(dev, op)
        ELSE IF drv = "mvls" /\ Is(op[1], "counter") THEN mvls_counter_exec(dev, op)
        ELSE IF drv = "mvls" /\ Is(op[1], "lag") THEN mvls_lag_exec(dev, op)
        ELSE mdio_common_exec(dev, op)
      On(d) == IF ~d.ok \/ (drv \in {"mmd", "mmd-c22"} /\ d.id < MDIO_PHY_ID_C45) THEN Refused
               ELSE Run(Device(drv, d.id), Tail(args))
  IN  IF args = <<>> THEN Refused ELSE On(mdio_parse_dev(args[1], drv # "phy"))

\* mdio_parse_bus: the first bus the pattern matches.
mdio_parse_bus(s) == IF s \in DOMAIN Glob THEN Glob[s] ELSE <<>>

\* Mutant of main: the driver name may not be omitted for an MMD.
BadMain(argv) ==
  LET named == \E d \in Drivers : Is(argv[2], d)
      drv == IF named THEN argv[2][1].t ELSE "phy"
  IN  IF argv = <<>> THEN Plan(<<>>, "ok")
      ELSE IF mdio_parse_bus(argv[1]) = <<>> THEN Refused
      ELSE IF Len(argv) = 1 THEN Sends(Cmd(Device("phy", 0), "bus_status", bus_status))
      ELSE exec(drv, IF named THEN SubSeq(argv, 3, Len(argv)) ELSE Tail(argv))

\* main, behind getopt and the start-up: the list of buses, the devices on a bus, or
\* a command on a device, whose driver's name may be omitted.
main(argv) ==
  LET named == \E d \in Drivers : Is(argv[2], d)
      drv == IF named THEN argv[2][1].t ELSE IF Has(argv[2], ":") THEN "mmd" ELSE "phy"
  IN  IF argv = <<>> THEN Plan(<<>>, "ok")
      ELSE IF mdio_parse_bus(argv[1]) = <<>> THEN Refused
      ELSE IF Len(argv) = 1 THEN Sends(Cmd(Device("phy", 0), "bus_status", bus_status))
      ELSE exec(drv, IF named THEN SubSeq(argv, 3, Len(argv)) ELSE Tail(argv))

-------------------------------------------------------------------------------
(* What a request is to be.                                                *)

\* mva, mscc, mvls and xrs take a Clause 45 address, which the manual does not give
\* them and their programs are not written for.
OddlyAddressed(dev) == dev.drv \in {"mva", "mscc", "mvls", "xrs"} /\ dev.id > 31

\* The bus cycle of an instruction exists, as far as it names what it is for: Clause 22
\* cycles have a device and a register of five bits.
CycleExists(a) ==
  a.op \in {READ, WRITE} /\ ArgMode(a.arg0) = ARG_IMM =>
    \/ ArgValue(a.arg0) \in 32768..33791
    \/ ArgValue(a.arg0) <= 31 /\ (ArgMode(a.arg1) = ARG_IMM => ArgValue(a.arg1) <= 31)

\* The words a program emits that runs to its end, with no EMIT in a loop of its own.
EmitCount(prog) == Cardinality({i \in 1..Len(prog) : prog[i].op = EMIT})

\* The program is within the limit of its own, but the request it is in is not.
Overruns(prog) == ProgBytes(prog) <= BUF_SIZE /\ RequestBytes(prog) > BUF_SIZE
===============================================================================
