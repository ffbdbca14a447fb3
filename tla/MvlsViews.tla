------------------------------- MODULE MvlsViews ------------------------------
(***************************************************************************)
(* What the views of mvls say of a switch against what the switch holds.   *)
(* Entries and registers are laid out here the way the switches do it      *)
(* (external: the regions of the mv88e6xxx driver), from what they mean,   *)
(* and each view is to give that meaning back.                             *)
(***************************************************************************)
EXTENDS MvlsTables

CONSTANTS Views         \* what there is to be shown: VLANs, ports, addresses, PVTs

VARIABLES in            \* the one under test

Families == {"opal", "peridot"}

-------------------------------------------------------------------------------
(* VLANs: rows of memberships m and states s, which are 0 for the ports    *)
(* the chip does not have.                                                 *)

IsVlan(v) ==
  /\ v.fam \in Families /\ v.n_ports \in 0..MAX_PORTS
  /\ v.rows \in Seq([m : [PortNos -> 0..3], s : [PortNos -> 0..3]])
  /\ \A n \in 1..Len(v.rows), i \in PortNos :
       i >= v.n_ports => v.rows[n].m[i] = 0 /\ v.rows[n].s[i] = 0

\* The bits of the ports in S.
PortVec(S) ==
  LET P(n) == IF n \in S THEN 2^n ELSE 0
  IN  P(0) + P(1) + P(2) + P(3) + P(4) + P(5) + P(6) + P(7) + P(8) + P(9) + P(10)

Sum4(a, b, c, d) == a + 16 * b + 256 * c + 4096 * d
At(f, i) == IF i \in PortNos THEN f[i] ELSE 0

\* Four bits a port, the membership below the state; or two bits a port, the words
\* of the STU being its own.
OpalData(m, s) ==
  LET Port(i) == At(m, i) + 4 * At(s, i)
  IN  [w \in 0..2 |-> Sum4(Port(4 * w), Port(4 * w + 1), Port(4 * w + 2), Port(4 * w + 3))]

PeridotData(f) ==
  LET Two(i) == At(f, i) + 4 * At(f, i + 1)
  IN  [w \in 0..2 |-> Sum4(Two(8 * w), Two(8 * w + 2), Two(8 * w + 4), Two(8 * w + 6))]

VtuData(fam, m, s) == IF fam = "opal" THEN OpalData(m, s) ELSE PeridotData(m)
StuData(fam, m, s) == IF fam = "opal" THEN OpalData(m, s) ELSE PeridotData(s)

VtuEntry(fam, m, s) == [vid |-> 4096 + 7, fid |-> 3, sid |-> 2, data |-> VtuData(fam, m, s)]
StuEntry(fam, m, s) == [vid |-> 4096, fid |-> 0, sid |-> 2, data |-> StuData(fam, m, s)]
Unused == [vid |-> 0, fid |-> 0, sid |-> 0, data |-> [w \in 0..2 |-> 0]]

VtuTable == [n \in 1..Len(in.rows) |-> VtuEntry(in.fam, in.rows[n].m, in.rows[n].s)] \o <<Unused>>
StuTable == [n \in 1..Len(in.rows) |-> StuEntry(in.fam, in.rows[n].m, in.rows[n].s)] \o <<Unused>>

-------------------------------------------------------------------------------
(* The PVT.  idx: the index of each device; ends: the ports there are; rel:*)
(* which of them may send to which; lags: which ports each LAG may send to;*)
(* of: the LAG each port is in, -1 for none; fid: bits next to the ports'. *)

End(d, p) == [dev |-> d, port |-> p]

IsPvt(v) ==
  /\ v.idx \in [DOMAIN v.idx -> 0..30]
  /\ \A d, e \in DOMAIN v.idx : v.idx[d] = v.idx[e] => d = e
  /\ v.ends \subseteq {End(d, p) : d \in DOMAIN v.idx, p \in PortNos}
  /\ v.rel \subseteq v.ends \X v.ends
  /\ v.lags \in [0..15 -> SUBSET v.ends]
  /\ v.of \in [v.ends -> -1..15] /\ v.fid \in 0..15

\* The bits of the ports of device d that are in S.
Vector(d, S) == PortVec({n \in PortNos : End(d, n) \in S})

SendsTo(e) == {dst \in in.ends : <<e, dst>> \in in.rel}

PortRegs(e) ==
  [r \in {5, 6} |-> IF r = 5 THEN (IF in.of[e] < 0 THEN 0 ELSE 16384 + 256 * in.of[e])
                    ELSE 4096 * in.fid + Vector(e.dev, SendsTo(e))]

\* Entry k of a PVT is of port k % 16 of device k \div 16; in the place of device 31
\* are the LAGs.
PvtGets(k) ==
  IF k \div 16 = 31 THEN in.lags[k % 16]
  ELSE UNION {SendsTo(e) : e \in {e \in in.ends : in.idx[e.dev] = k \div 16 /\ e.port = k % 16}}
Pvt(d) == [k \in 0..511 |-> Vector(d, PvtGets(k))]

Devs ==
  [d \in DOMAIN in.idx |->
    [index |-> in.idx[d], pvt |-> Pvt(d),
     ports |-> [p \in {p \in PortNos : End(d, p) \in in.ends} |-> PortRegs(End(d, p))]]]

-------------------------------------------------------------------------------
(* Addresses, at a LAG, or at the ports of at if lag is -1, with           *)
(* priorities q and f.                                                     *)

IsAtu(v) ==
  /\ v.fam \in Families /\ v.mc \in BOOLEAN /\ v.state \in 1..15
  /\ v.at \subseteq PortNos /\ v.lag \in -1..15
  /\ v.q \in 0..7 /\ v.f \in 0..7 /\ v.spare \in 0..1

\* A LAG's number is in the place of the ports.
Place == IF in.lag < 0 THEN PortVec(in.at) ELSE 2048 + in.lag

\* spare: the bits between the two priorities, and those next to that of a group.
AtuEntry == [fid |-> 1, atu_op |-> 256 * in.q + in.f + 2296 * in.spare,
             atu_data |-> in.state + 16 * Place,
             atu_01 |-> (IF in.mc THEN 256 ELSE 0) + 65279 * in.spare]

-------------------------------------------------------------------------------
(* Ports, and what the bits between their fields hold: spare.              *)

B(b) == IF b THEN 1 ELSE 0

IsPort(p) ==
  /\ {p.up, p.full, p.uc, p.mc, p.map, p.drop_untagged, p.drop_tagged} \subseteq BOOLEAN
  /\ {p.speed, p.fmode, p.emode, p.state, p.qmode} \subseteq 0..3
  /\ {p.pvid, p.fid} \subseteq 0..4095 /\ p.lag \in -1..15

IsSpare(s) ==
  /\ s[0] \in 0..255 /\ {s[1], s[2], s[8], s[10]} \subseteq 0..15 /\ {s[3], s[4], s[5]} \subseteq 0..3
  /\ s[6] \in 0..1 /\ s[7] \in 0..4095 /\ s[9] \in 0..127

PortRegion(p, s) ==
  [r \in {0, 4, 5, 6, 7, 8} |->
    CASE r = 0 -> s[0] + 256 * p.speed + 1024 * B(p.full) + 2048 * B(p.up) + 4096 * s[1]
      [] r = 4 -> p.state + 4 * B(p.uc) + 8 * B(p.mc) + 16 * s[2] + 256 * p.fmode + 1024 * s[3]
                    + 4096 * p.emode + 16384 * s[4]
      [] r = 5 -> (p.fid \div 16) + (IF p.lag < 0 THEN 0 ELSE 16384 + 256 * p.lag) + 4096 * s[5]
                    + 32768 * s[6]
      [] r = 6 -> s[7] + 4096 * (p.fid % 16)
      [] r = 7 -> p.pvid + 4096 * s[8]
      [] r = 8 -> s[9] + 128 * B(p.map) + 256 * B(p.drop_untagged) + 512 * B(p.drop_tagged)
                    + 1024 * p.qmode + 4096 * s[10]]

-------------------------------------------------------------------------------
IsView(v) ==
  \/ v.kind = "vlan" /\ IsVlan(v)
  \/ v.kind = "pvt" /\ IsPvt(v)
  \/ v.kind = "atu" /\ IsAtu(v)
  \/ v.kind = "port" /\ IsPort(v.port) /\ IsSpare(v.spare)

ASSUME ViewsAssumption == \A v \in Views : IsView(v)

Nothing == [kind |-> "none"]

ViewInit == in = Nothing
Pick == in = Nothing /\ in' \in Views
Drop == in # Nothing /\ in' = Nothing
ViewNext == Pick \/ Drop
ViewSpec == ViewInit /\ [][ViewNext]_in

-------------------------------------------------------------------------------
\* The rows shown of a VTU and of an STU are the memberships and states the switch
\* holds, for both layouts, which in the older one share their words; a port that the
\* chip does not have is left blank (__dev_vtu_parse, __dev_stu_parse, env_show_vtu,
\* env_show_stu).
VlansShown ==
  in.kind = "vlan" =>
    LET Shown(f) == [i \in PortNos |-> IF i < in.n_ports THEN f[i] ELSE NoCell]
    IN  /\ env_show_vtu(in.fam, in.n_ports, VtuTable) = [n \in 1..Len(in.rows) |-> Shown(in.rows[n].m)]
        /\ env_show_stu(in.fam, in.n_ports, StuTable) = [n \in 1..Len(in.rows) |-> Shown(in.rows[n].s)]

\* Each cell of the PVT matrix says which of its two ports may send to the other,
\* whether they are on one device or two, and the columns behind them which ports a
\* LAG in use may send to (env_show_pvt_port and usage: "Only communication from
\* column to row port allowed"); the view of one device lists the same of all ports
\* and LAGs that may send to its ports (dev_show_pvt).
PvtShown ==
  in.kind = "pvt" =>
    /\ lags_used({PortRegs(e) : e \in in.ends}) = {in.of[e] : e \in in.ends} \ {-1}
    /\ \A row \in in.ends, l \in 0..15 :
         PvtLagCell(Devs, row, l) = (IF row \in in.lags[l] THEN "<" ELSE ".")
    /\ \A row, col \in in.ends :
      LET up == <<row, col>> \in in.rel
          left == <<col, row>> \in in.rel
      IN  PvtCell(Devs, row, col) =
            (IF up /\ left THEN "x" ELSE IF up THEN "^" ELSE IF left THEN "<" ELSE ".")
    /\ \A d \in DOMAIN in.idx :
      LET To(S) == {p \in PortNos : End(d, p) \in S}
          Row(i, p, to) == [dev |-> i, port |-> p, to |-> to]
      IN  dev_show_pvt(Devs[d]) =
            {Row(in.idx[e.dev], e.port, To(SendsTo(e))) :
               e \in {e \in in.ends : e.dev = d \/ To(SendsTo(e)) # {}}}
            \cup {Row(31, l, To(in.lags[l])) : l \in {l \in 0..15 : To(in.lags[l]) # {}}}

\* Both views show a port as its registers have it, whatever the bits between the
\* fields hold; of the two filters the JSON view says the opposite and is left out
\* (env_show_ports, env_json_ports, opal_port_fid).
PortsShown ==
  in.kind = "port" =>
    LET p == in.port
        shown == env_show_ports(PortRegion(p, in.spare))
        json == env_json_ports(PortRegion(p, in.spare))
    IN  /\ shown.common = json.common
        /\ shown.common = [f \in DOMAIN shown.common |-> p[f]]
        /\ shown.link = (IF p.up THEN <<p.speed, p.full>> ELSE <<>>)
        /\ shown.map = p.map
        /\ shown.allow_untagged = ~p.drop_untagged /\ shown.allow_tagged = ~p.drop_tagged

\* An address is shown at exactly the ports that it is at, or at its LAG and no ports, the
\* table ending with the first entry that is not valid.  Its priorities are shown exactly if its state is one of those
\* named "-po" (prio_override_state against atu_uc_str, atu_mc_str), the frame priority
\* only where the family has it; states without a name are left open.
AddressesShown ==
  in.kind = "atu" =>
    LET rows == env_show_atu(in.fam, <<AtuEntry, [AtuEntry EXCEPT !.atu_data = 0], AtuEntry>>)
        po == in.state \in (IF in.mc THEN 12..15 ELSE {9, 11, 13, 15})
        Pri(set, p) == [set |-> set, pri |-> IF set THEN p ELSE 0]
    IN  /\ Len(rows) = 1 /\ rows[1].state = in.state
        /\ rows[1].lag = in.lag
        /\ rows[1].ports = (IF in.lag < 0 THEN in.at ELSE {})
        /\ ~(in.mc /\ in.state \in {1, 2, 3, 8, 9, 10, 11}) =>
             /\ rows[1].qpri = Pri(po, in.q)
             /\ rows[1].fpri = Pri(po /\ in.fam # "opal", in.f)

\* In a VTU or STU row of the JSON output a port is in one list, its state's ("Each
\* port will be in one of four states", man/mvls.8).
JsonOneState ==
  in.kind = "vlan" =>
    \A n \in 1..Len(in.rows) :
      LET v == env_json_vtu(in.fam, VtuTable)[n]
          s == env_json_stu(in.fam, StuTable)[n]
          Disjoint(lists) == \A i, j \in 1..Len(lists) : i # j => lists[i] \cap lists[j] = {}
      IN  /\ Disjoint(<<v.unmodified, v.untagged, v.tagged>>)
          /\ Disjoint(<<s.disabled, s.blocking, s.learning, s.forwarding>>)
===============================================================================
