------------------------------ MODULE MvlsTables ------------------------------
(***************************************************************************)
(* The pure part of the mvls tool: the decoders of VTU, STU and ATU        *)
(* entries and of the port registers, the order of the devices, and what   *)
(* the views say of a table.  A region is a function from register numbers *)
(* or a sequence of entries.                                               *)
(***************************************************************************)
EXTENDS Integers, Sequences, FiniteSets, SequencesExt

bits(reg, bit, n) == (reg \div 2^bit) % 2^n
bit1(reg, bit) == bits(reg, bit, 1) = 1

MAX_PORTS == 11
PortNos == 0..(MAX_PORTS - 1)

\* Bits per port in the data words of the VTU and the STU.
mbits(family) == IF family = "opal" THEN 4 ELSE 2

-------------------------------------------------------------------------------
(* The decoders.  An entry whose valid bit or state is clear ends a table. *)

vtu_valid(k) == bit1(k.vid, 12)

\* Mutant of vtu_member: the words hold eight ports in every family.
BadVtuMember(data, i, m) == bits(data[i \div 8], (i * m) % 16, 2)

vtu_member(data, i, m) == bits(data[i \div (16 \div m)], (i * m) % 16, 2)

dev_vtu_parse(family, k) ==
  [vid |-> bits(k.vid, 0, 12), fid |-> bits(k.fid, 0, 12), sid |-> bits(k.sid, 0, 6),
   member |-> [i \in PortNos |-> vtu_member(k.data, i, mbits(family))],
   policy |-> bit1(k.fid, 12)]

stu_valid(k) == bit1(k.vid, 12)

stu_state(data, i, m) ==
  LET offs == IF m = 4 THEN 2 ELSE 0
  IN  bits(data[i \div (16 \div m)], (i * m + offs) % 16, 2)

dev_stu_parse(family, k) ==
  [sid |-> bits(k.sid, 0, 6),
   state |-> [i \in PortNos |-> stu_state(k.data, i, mbits(family))]]

atu_valid(k) == bits(k.atu_data, 0, 4) # 0

\* Mutant of prio_override_state: group addresses use the states of single ones.
BadPrioState(mc, state) == state \in {9, 11, 13, 15}

\* The second test is made of group addresses too.
prio_override_state(mc, state) ==
  (mc /\ state \in {12, 13, 14, 15}) \/ state \in {9, 11, 13, 15}

dev_atu_parse(family, k) ==
  LET mc == bit1(k.atu_01, 8)
      state == bits(k.atu_data, 0, 4)
      set == prio_override_state(mc, state)
      fset == set /\ family # "opal"
  IN  [fid |-> k.fid, mc |-> mc, lag |-> bit1(k.atu_data, 15),
       portvec |-> bits(k.atu_data, 4, 11), state |-> state,
       qpri |-> [set |-> set, pri |-> IF set THEN bits(k.atu_op, 8, 3) ELSE 0],
       fpri |-> [set |-> fset, pri |-> IF fset THEN bits(k.atu_op, 0, 3) ELSE 0]]

opal_port_lag(regs) == IF bit1(regs[5], 14) THEN bits(regs[5], 8, 4) ELSE -1

\* Mutant of opal_port_fid: the upper part is put where it is not in the way of eight
\* bits, not of four.
BadPortFid(regs) == bits(regs[6], 12, 4) + bits(regs[5], 0, 8) * 256

\* Twelve bits, from two registers.
opal_port_fid(regs) == bits(regs[6], 12, 4) + bits(regs[5], 0, 8) * 16

-------------------------------------------------------------------------------
(* The views, as the fields that a row shows.                              *)

\* The speed and whether it is full duplex, of a link that is up.
port_link_str(regs) ==
  IF bit1(regs[0], 11) THEN <<bits(regs[0], 8, 2), bit1(regs[0], 10)>> ELSE <<>>

\* What both views show of a port.
PortFields(regs) ==
  [fmode |-> bits(regs[4], 8, 2), emode |-> bits(regs[4], 12, 2), state |-> bits(regs[4], 0, 2),
   uc |-> bit1(regs[4], 2), mc |-> bit1(regs[4], 3), qmode |-> bits(regs[8], 10, 2),
   pvid |-> bits(regs[7], 0, 12), fid |-> opal_port_fid(regs), lag |-> opal_port_lag(regs)]

env_show_ports(regs) ==
  [common |-> PortFields(regs), link |-> port_link_str(regs), map |-> bit1(regs[8], 7),
   allow_untagged |-> ~bit1(regs[8], 8), allow_tagged |-> ~bit1(regs[8], 9)]

\* The same two bits, the other way round.
env_json_ports(regs) ==
  [common |-> PortFields(regs),
   allow_untagged |-> bit1(regs[8], 8), allow_tagged |-> bit1(regs[8], 9)]

\* A row of the ATU: the ports (dev_print_portvec), or the LAG, an address is at.
AtuRow(e) == [fid |-> e.fid, state |-> e.state, qpri |-> e.qpri, fpri |-> e.fpri,
              lag |-> IF e.lag THEN e.portvec ELSE -1,
              ports |-> IF e.lag THEN {} ELSE {i \in PortNos : bit1(e.portvec, i)}]

AtuEntries(table) ==
  SubSeq(table, 1, SelectInSeq(Append(table, [atu_data |-> 0]), LAMBDA k : ~atu_valid(k)) - 1)

env_show_atu(family, table) ==
  [n \in 1..Len(AtuEntries(table)) |-> AtuRow(dev_atu_parse(family, table[n]))]

\* dev_show_pvt: a row for each port of the device, then one for each entry of its PVT
\* that lets anything through.
PvtRow(d, p, vec) == [dev |-> d, port |-> p, to |-> {i \in PortNos : bit1(vec, i)}]
dev_show_pvt(dev) ==
  {PvtRow(dev.index, p, dev.ports[p][6]) : p \in DOMAIN dev.ports}
  \cup {PvtRow(k \div 16, k % 16, dev.pvt[k]) : k \in {k \in DOMAIN dev.pvt : dev.pvt[k] # 0}}

\* while (!parse(kentry, &entry)) kentry++: the entries in front of the first that
\* is not valid.
VtuEntries(table) ==
  SubSeq(table, 1, SelectInSeq(Append(table, [vid |-> 0]), LAMBDA k : ~vtu_valid(k)) - 1)

StuEntries(table) ==
  SubSeq(table, 1, SelectInSeq(Append(table, [vid |-> 0]), LAMBDA k : ~stu_valid(k)) - 1)

PortsIn(f, s) == {i \in PortNos : f[i] = s}

\* The cells of a row: a port the chip does not have is left blank in its reset state.
NoCell == -1
Cells(n_ports, f) == [i \in PortNos |-> IF f[i] = 0 /\ i >= n_ports THEN NoCell ELSE f[i]]

\* env_show_vtu: a state for every port.
env_show_vtu(family, n_ports, table) ==
  [n \in 1..Len(VtuEntries(table)) |-> Cells(n_ports, dev_vtu_parse(family, table[n]).member)]

\* env_json_vtu: three lists of ports, which are not emptied between two entries.
env_json_vtu(family, table) ==
  LET Listed(n, s) == UNION {PortsIn(dev_vtu_parse(family, table[m]).member, s) : m \in 1..n}
  IN  [n \in 1..Len(VtuEntries(table)) |->
         [unmodified |-> Listed(n, 0), untagged |-> Listed(n, 1), tagged |-> Listed(n, 2)]]

\* env_show_stu.
env_show_stu(family, n_ports, table) ==
  [n \in 1..Len(StuEntries(table)) |-> Cells(n_ports, dev_stu_parse(family, table[n]).state)]

\* env_json_stu: the same of the four states.
env_json_stu(family, table) ==
  LET Listed(n, s) == UNION {PortsIn(dev_stu_parse(family, table[m]).state, s) : m \in 1..n}
  IN  [n \in 1..Len(StuEntries(table)) |->
         [disabled |-> Listed(n, 0), blocking |-> Listed(n, 1),
          learning |-> Listed(n, 2), forwarding |-> Listed(n, 3)]]

pvt_print_cell(spvt, dpvt, src, dst) ==
  IF bit1(spvt, dst) /\ bit1(dpvt, src) THEN "x"
  ELSE IF bit1(spvt, dst) THEN "^"
  ELSE IF bit1(dpvt, src) THEN "<"
  ELSE "."

\* Mutant of PvtCell: the PVTs of the two devices are taken the wrong way round.
BadPvtCell(devs, src, port) ==
  LET Regs6(x) == devs[x.dev].ports[x.port][6]
      Pvt(d, x) == devs[d].pvt[devs[x.dev].index * 16 + x.port]
  IN  IF src.dev = port.dev
        THEN pvt_print_cell(Regs6(src), Regs6(port), src.port, port.port)
        ELSE pvt_print_cell(Pvt(src.dev, port), Pvt(port.dev, src), src.port, port.port)

\* env_show_pvt_port: within a device the ports' own VLAN maps, between two devices
\* what each one's PVT says of the other's port.
PvtCell(devs, src, port) ==
  LET Regs6(x) == devs[x.dev].ports[x.port][6]
      Pvt(d, x) == devs[d].pvt[devs[x.dev].index * 16 + x.port]
  IN  IF src.dev = port.dev
        THEN pvt_print_cell(Regs6(src), Regs6(port), src.port, port.port)
        ELSE pvt_print_cell(Pvt(port.dev, src), Pvt(src.dev, port), src.port, port.port)

\* The columns of the LAGs in use: which of them the port may be reached from.
lags_used(ports) == {opal_port_lag(regs) : regs \in ports} \ {-1}

PvtLagCell(devs, src, lag) ==
  pvt_print_cell(0, devs[src.dev].pvt[31 * 16 + lag], src.port, 0)

-------------------------------------------------------------------------------
(* env_init_dev_sort: one walk along the list; a device with a larger index*)
(* than its successor is moved in front of the first one behind it whose   *)
(* index is not smaller, and the walk goes on with the successor.          *)

SortStep(list, i) ==
  LET dev == list[i]
      later == {j \in (i + 1)..Len(list) : list[j].index >= dev.index}
      insert == IF later = {} THEN Len(list) + 1 ELSE CHOOSE j \in later : \A k \in later : j <= k
  IN  IF list[i + 1].index > dev.index THEN <<list, i + 1>>
      ELSE <<SubSeq(list, 1, i - 1) \o SubSeq(list, i + 1, insert - 1) \o <<dev>>
               \o SubSeq(list, insert, Len(list)),
             IF insert = i + 1 THEN i + 1 ELSE i>>

env_init_dev_sort(devs) ==
  LET walk[n \in 0..(Len(devs) * Len(devs))] ==
        IF n = 0 THEN <<devs, 1>>
        ELSE IF walk[n - 1][2] >= Len(devs) THEN walk[n - 1]
        ELSE SortStep(walk[n - 1][1], walk[n - 1][2])
  IN  walk[Len(devs) * Len(devs)][1]
===============================================================================
