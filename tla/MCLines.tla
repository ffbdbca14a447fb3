-------------------------------- MODULE MCLines -------------------------------
(***************************************************************************)
(* Command lines of mdio: the lines the manual describes, with what they   *)
(* mean, and lines as they may be mistyped.                                *)
(***************************************************************************)
EXTENDS MdioLines

-------------------------------------------------------------------------------
(* Command lines of mdio.                                                  *)

N(n) == <<Num(n)>>
W(s) == <<Txt(s)>>
Joined(a, sep, b) == a \o <<Txt(sep)>> \o b

\* Two buses match the pattern.
Bus == W("bus*")
Buses == [s \in {Bus} |-> <<"bus-0", "bus-1">>]

\* The devices and registers of each driver, man/mdio.8 and usage: how they are
\* written and which they are.
DocDevs(drv) ==
  IF drv \in {"mmd", "mmd-c22"}
    THEN {[arg |-> Joined(N(p), ":", N(d)), dev |-> Device(drv, 32768 + p * 32 + d)] :
            p, d \in {0, 9, 31}}
    ELSE {[arg |-> N(n), dev |-> Device(drv, n)] : n \in {0, 4, 31}}

DocPages(drv) ==
  {[arg |-> N(n), no |-> n] : n \in {0, 1, 255}}
  \cup (IF drv = "mva" THEN {[arg |-> W("copper"), no |-> 0], [arg |-> W("fiber"), no |-> 1]} ELSE {})

DocPorts == {[arg |-> N(n), no |-> n] : n \in {0, 31}}
              \cup {[arg |-> W("g1"), no |-> 27], [arg |-> W("g2"), no |-> 28]}

DocRegs(drv) ==
  LET Plain(rs) == {[arg |-> N(r), reg |-> r] : r \in rs}
      Within(spaces) == {[arg |-> Joined(s.arg, ":", N(r)), reg |-> s.no * 65536 + r] :
                           s \in spaces, r \in {0, 31}}
  IN  CASE drv = "phy" -> Plain({0, 2, 31})
        [] drv \in {"mmd", "mmd-c22"} -> Plain({0, 4096, 65535})
        [] drv \in {"mva", "mscc"} -> Within(DocPages(drv))
        [] drv = "mvls" -> Within(DocPorts)
        [] drv = "xrs" -> Plain({0, 65540, UINT32_MAX - 1})

DocOps(dev, r) ==
  LET RawWrite(v, m) == Sends(Cmd(dev, "raw_write", raw_write(dev, r.reg, v, m)))
      Data == {0, 10, 65535}
  IN  {[args |-> <<W("raw"), r.arg>>, means |-> Sends(Cmd(dev, "raw_read", raw_read(dev, r.reg)))],
       [args |-> <<W("bench"), r.arg>>, means |-> Sends(Cmd(dev, "bench", bench_read(dev, r.reg)))],
       [args |-> <<W("bench"), r.arg, N(7)>>,
        means |-> Sends(Cmd(dev, "bench", bench_write(dev, r.reg, 7)))]}
      \cup {[args |-> <<W("raw"), r.arg, N(v)>>, means |-> RawWrite(v, 0)] : v \in Data}
      \cup {[args |-> <<W("raw"), r.arg, Joined(N(v), "/", N(m))>>, means |-> RawWrite(v, m)] :
               v, m \in Data}

DocStatus(dev) == IF HasStatus(dev.drv) THEN {[args |-> <<>>, means |-> Sends(status(dev))]} ELSE {}

\* The name of the driver, or none "in the common phy/mmd case" (main.c).
DocNames(drv) == {<<W(drv)>>} \cup (IF drv \in {"phy", "mmd"} THEN {<<>>} ELSE {})

DocLines(drv, d) ==
  {[kind |-> "doc", line |-> <<Bus>> \o name \o <<d.arg>> \o o.args, means |-> o.means] :
     name \in DocNames(drv),
     o \in DocStatus(d.dev) \cup UNION {DocOps(d.dev, r) : r \in DocRegs(drv)}}
DocInputs == UNION {UNION {DocLines(drv, d) : d \in DocDevs(drv)} : drv \in Drivers}

\* Anything else a user may type, in and out of bounds.
OddDevs == {<<>>, N(0), N(4), N(31), N(32), N(-1), W("x"), Joined(N(1), ":", N(2)),
            Joined(N(31), ":", N(31)), Joined(N(32), ":", N(1)), Joined(N(1), ":", N(32)),
            Joined(N(1), ":", W("x")), Joined(N(1), ":", <<>>)}
OddRegs ==
  LET Numbers == {<<>>, N(0), N(31), N(32), N(65535), N(65536), N(-1), N(UINT32_MAX), N(ULLONG_MAX + 1), W("x")}
      Ranges  == {Joined(N(5), "-", N(7)), Joined(N(5), "+", N(2)), Joined(N(5), "-", N(3)),
                  Joined(N(5), "-", <<>>), Joined(<<>>, "-", <<>>), Joined(N(5), "+", N(-1)),
                  Joined(N(0), "-", N(31)), Joined(N(5), "-", N(40)), Joined(N(0), "-", N(250)),
                  Joined(N(0), "-", N(255)),
                  Joined(N(5), "-", N(7)) \o W("x"), Joined(N(7), "-", N(ULLONG_MAX + 1)),
                  Joined(N(UINT32_MAX - 3), "-", N(UINT32_MAX)),
                  Joined(N(5), "-", N(UINT32_MAX)) \o W("x"),
                  Joined(N(UINT32_MAX - 3), "+", N(2)), Joined(N(UINT32_MAX - 3), "+", N(3)), Joined(N(5), "x", N(7))}
      Spaces  == {<<>>, N(0), N(255), N(256), W("fibre"), W("global2"), W("x")}
  IN  Numbers \cup Ranges \cup {Joined(s, ":", r) : s \in Spaces, r \in Numbers \cup Ranges}
        \cup {Joined(Joined(N(1), ":", N(2)), ":", N(3))}
OddVals == {<<>>, N(0), N(65535), N(65536), N(-1), W("x"), Joined(N(7), "/", N(3)),
            Joined(N(7), "/", N(65536)), Joined(N(7), "/", <<>>)}

OddOps ==
  {<<o>> : o \in {W("raw"), W("bench"), W("dump"), W("status"), W("lag"), W("x")}}
  \cup {<<o, r>> : o \in {W("raw"), W("dump"), W("bench")}, r \in OddRegs}
  \cup {<<r>> : r \in OddRegs}
  \cup {<<W("dump"), Joined(N(0), "-", N(3)), r, N(1)>> : r \in OddRegs}
  \cup {<<o, r, v>> : o \in {W("raw"), W("bench")}, r \in {N(1), Joined(N(1), ":", N(1))}, v \in OddVals}
  \cup {<<W("raw"), N(1), N(1), N(1)>>, <<W("counter"), W("repeat")>>, <<W("counter"), N(1)>>,
         <<W("lag"), N(1)>>}
  \cup {<<W("atu"), W("flush"), f, o>> : f \in {W("all"), W("x"), N(-1), N(4096)}, o \in {W("static"), W("x")}}

\* The driver, the device and what is asked of it, kept apart from one another.
OddLine(name, d, op) == [kind |-> "line", line |-> <<Bus>> \o name \o <<d>> \o op]
OddNames == {<<>>} \cup {<<W(drv)>> : drv \in Drivers}
OddInputs ==
  {OddLine(n, d, op) : n \in OddNames, d \in OddDevs, op \in {<<>>, <<N(1)>>, <<Joined(N(1), ":", N(1))>>}}
  \cup {OddLine(n, d, op) : n \in OddNames, d \in {N(0), N(4), Joined(N(1), ":", N(2))}, op \in OddOps}
  \cup {[kind |-> "line", line |-> l] : l \in {<<>>, <<Bus>>, <<W("x")>>, <<W("x"), N(1)>>, <<Bus, W("mmd")>>}}

AllInputs == DocInputs \cup OddInputs

-------------------------------------------------------------------------------
\* Every command line the manual describes is carried out as it says: one transfer, of
\* the program for that register of that device, with the driver named or implied
\* (main, mdio_common_exec and the parsers they share, against man/mdio.8).
LineMeans == typed.kind = "doc" => plan = typed.means
===============================================================================
