-------------------------------- MODULE MCTool --------------------------------
(***************************************************************************)
(* The mdio tool, the kernel module and a device together: every command   *)
(* of the tool, with the length its callback expects of the reply.         *)
(***************************************************************************)
EXTENDS MdioTool, MdioDevices

CONSTANTS MaxDump, CommandSet

Quiet(d) == {d}

\* One device of each kind, with the registers its commands use; switches of three
\* families.
ID == MVLS_REG(16, 3)
Wide(kind) ==
  CASE kind = "phy"              -> 0..15
    [] kind = "mmd"              -> 0..15
    [] kind \in {"mva", "mscc"}  -> 0..3 \cup 65536..65539
    [] kind \in {"mvls", "mvls1"} -> {ID, MVLS_REG(MVLS_G1, 11), STATS}
    [] kind = "xrs"              -> {4, 65540}
Ids(kind) == IF kind \in {"mvls", "mvls1"} /\ CommandSet = "long" THEN {2448, 13600, 2576} ELSE {5}

ToolDevices ==
  UNION {{[kind |-> k, cells |-> [r \in Wide(k) |-> IF r = ID THEN id ELSE 5], sel |-> 1, adr |-> 0,
           buf |-> 0, busy |-> FALSE] : id \in Ids(k)} : k \in Kinds}

-------------------------------------------------------------------------------
(* Command lines: the driver and the device of each kind, and the commands. *)

N(n) == <<Num(n)>>
W(s) == <<Txt(s)>>
Joined(a, sep, b) == a \o <<Txt(sep)>> \o b
Range2(a, b) == Joined(N(a), "-", N(b))

Bus == W("bus*")
Buses == [s \in {Bus} |-> <<"bus-0">>]

Phy == <<Bus, W("phy"), N(1)>>
Mmd == <<Bus, W("mmd"), Joined(N(3), ":", N(7))>>
C22 == <<Bus, W("mmd-c22"), Joined(N(3), ":", N(7))>>
Mva == <<Bus, W("mva"), N(4)>>
Xrs == <<Bus, W("xrs"), N(8)>>
Switches == {<<Bus, W("mvls"), N(6)>>, <<Bus, W("mvls"), N(0)>>}
Reg4(d) == IF d = Mva THEN Joined(N(1), ":", N(4)) ELSE N(4)

\* A read of a switch polls it.
RawLines == UNION {
  {d \o <<Reg4(d)>> : d \in {Phy, Mva, Xrs, C22}},
  {s \o <<Joined(W("g1"), ":", N(11))>> : s \in Switches},
  {d \o <<W("raw"), Reg4(d), v>> : d \in {Phy, Mva}, v \in {N(9), Joined(N(9), "/", N(6))}}}

\* Ranges of every length, on a paged PHY of some, one that runs backwards, and more than
\* one at a time; on a switch, a range and then the last register there is.
DumpLines == UNION {
  {Phy \o <<W("dump"), Range2(0, n)>> : n \in 0..(MaxDump - 1)},
  {Mva \o <<W("dump"), Joined(N(0), ":", Range2(0, n))>> : n \in {3, 6, 9, 12}},
  {Phy \o <<W("dump"), Range2(3, 2)>>, Phy \o <<W("dump"), Range2(0, 1), N(32), N(3)>>,
   Phy \o <<W("dump"), Range2(0, 1), N(3)>>,
   Xrs \o <<W("dump"), N(4), N(UINT32_MAX)>>}}

BenchLines == {Phy \o <<W("bench"), N(1)>>, Mva \o <<W("bench"), Joined(N(0), ":", N(1))>>,
               Phy \o <<W("bench"), N(1), N(9)>>}

\* The status of a PHY; the list of buses; no such bus, driver or register.
StatusLines == {Phy, Mva \o <<W("status")>>, <<>>, <<W("x"), N(1)>>, <<Bus, W("x")>>, Phy \o <<N(32)>>}

\* mvls has no status; its lag command takes no argument.
SwitchLines ==
  {s \o o : s \in Switches,
            o \in {<<W("lag")>>, <<W("counter")>>, <<W("atu"), W("flush")>>, <<>>, <<W("lag"), N(1)>>}
                  \cup {<<W("atu"), W("flush"), f, o>> : f \in {W("all"), N(3)}, o \in {W("static"), W("x")}}}
  \cup {<<Bus, W("mvls"), N(0), W("counter"), W("repeat")>>}

\* The status of a bus and of an MMD; one instruction pair more than a request holds, and
\* one that leaves no room for the headers.
LongLines == {<<Bus>>, Mmd, Mmd \o <<W("dump"), Range2(0, 256)>>,
              Mmd \o <<W("dump"), Range2(0, 254), Range2(0, 1)>>}

AllLines ==
  CASE CommandSet = "short" -> RawLines \cup DumpLines \cup BenchLines \cup StatusLines
    [] CommandSet = "long"  -> SwitchLines \cup LongLines \cup StatusLines
    [] CommandSet = "c22"   -> {C22 \o <<W("status")>>}

AllRequests == UNION {{p.todo[i] : i \in 1..Len(p.todo)} : p \in {main(l) : l \in AllLines}}

\* Bound of the run of the long programs: a command starts on a device in one of
\* the states of ToolDevices (what a command cut short leaves behind is not used
\* for the next one).
FreshDevice == \A x \in Xfers : cli[x].st = "none" => dev \in ToolDevices

OnBus(h) == h = Handle(dev.kind) \/ (dev.kind = "mmd" /\ h = MmdC22)

\* A transfer whose device is on the bus, whose program ran to its end and whose
\* output left room for NLMSG_DONE in its message, is reported as a success: its
\* callback expects exactly the words its program emits (the len checks of *_cb).
SuccessReported ==
  \A x \in Xfers :
    /\ cli[x].st = "got" /\ stage[x] = "done" /\ ret[x] = 0
    /\ Len(emitted[x]) + 4 <= Cap
    /\ OnBus(req[x].dev)
    => cli[x].res = 0

\* The words each callback takes: for a dump the request says how many.
Expects ==
  [cb \in {r.cb : r \in AllRequests} \ {"dump"} |->
     CHOOSE n \in 0..132 : Accepts([cb |-> cb], [i \in 1..n |-> 1])]
CountedOn(r) == IF r.cb = "dump" THEN r.n ELSE Expects[r.cb]

\* A program never emits more than its callback counts on, its deadline or an error
\* notwithstanding: the loops over registers, ports and devices, which end by comparing
\* a command word or a counter for equality, do not run on.  (A bench emits the reads
\* that differ, however many they are.)
NeverMore ==
  \A x \in Xfers :
    Running(x) /\ req[x].cb # "bench" => Len(emitted[x]) <= CountedOn(req[x])

\* The counters of a switch are captured with the layout of its family, which another
\* transfer has read before, unless that one failed (mvls_get_family against the
\* ports as mvls_counter_exec codes them).
LayoutRight ==
  \A x \in Xfers :
    /\ cli[x].st = "got" /\ stage[x] = "done" /\ req[x].cb = "counter"
    /\ OnBus(req[x].dev) /\ 1 \in cli[x].good
    => req[x].prog = mvls_counter(req[x].dev, get_family(dev.cells[ID]))

\* A device addressed as mmd-c22 is reached with Clause 22 bus cycles only: it is
\* "used to access MMDs attached to MDIO controllers without Clause 45 support by
\* using registers 13 and 14" (ChangeLog.md).
C22Only ==
  \A x \in Xfers :
    Running(x) /\ req[x].dev.drv = "mmd-c22" /\ insn(x).op \in {READ, WRITE}
      => Len(BusAddr(A0(x))) = 1
===============================================================================
