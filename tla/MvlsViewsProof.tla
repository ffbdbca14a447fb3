---------------------------- MODULE MvlsViewsProof ----------------------------
(***************************************************************************)
(* The views of mvls, for everything a switch may hold: any number of VLANs*)
(* with any membership and state of each port, any value of each field of  *)
(* a port and of the bits between them, any address, and any number of     *)
(* devices and ports with any PVT.                                         *)
(***************************************************************************)
EXTENDS MvlsViews, TLAPS

-------------------------------------------------------------------------------
(* The fields of a register are what they were put together from.  The sums*)
(* have names: no prover finds a sum to instantiate a lemma with.          *)

\* Register 0: speed, duplex and link.
Is0(w, a, v, f, u, c) ==
  /\ a \in 0..255 /\ v \in 0..3 /\ f \in 0..1 /\ u \in 0..1 /\ c \in 0..15
  /\ w = a + 256 * v + 1024 * f + 2048 * u + 4096 * c

LEMMA Register0 ==
  ASSUME NEW w, NEW a, NEW v, NEW f, NEW u, NEW c, Is0(w, a, v, f, u, c)
  PROVE  bits(w, 8, 2) = v /\ bits(w, 10, 1) = f /\ bits(w, 11, 1) = u
  BY SMTT(30) DEF bits, Is0

\* Register 4: state, egress floods, frame and egress mode.
Is4(w, t, u, m, a, f, b, e, c) ==
  /\ t \in 0..3 /\ u \in 0..1 /\ m \in 0..1 /\ a \in 0..15 /\ f \in 0..3 /\ b \in 0..3
  /\ e \in 0..3 /\ c \in 0..3
  /\ w = t + 4 * u + 8 * m + 16 * a + 256 * f + 1024 * b + 4096 * e + 16384 * c

LEMMA Register4 ==
  ASSUME NEW w, NEW t, NEW u, NEW m, NEW a, NEW f, NEW b, NEW e, NEW c, Is4(w, t, u, m, a, f, b, e, c)
  PROVE  /\ bits(w, 0, 2) = t /\ bits(w, 2, 1) = u /\ bits(w, 3, 1) = m /\ bits(w, 8, 2) = f
         /\ bits(w, 12, 2) = e
<1> USE DEF Is4
<1>1. PICK h \in Nat : h = u + 2 * m + 4 * a + 64 * f + 256 * b + 1024 * e + 4096 * c OBVIOUS
<1>2. bits(w, 0, 2) = t
  <2>1. w = t + 4 * h BY <1>1
  <2> QED BY <2>1, SMTT(30) DEF bits
<1>3. PICK g \in Nat : g = f + 4 * b + 16 * e + 64 * c OBVIOUS
<1>4. PICK l \in 0..255 : l = t + 4 * u + 8 * m + 16 * a OBVIOUS
<1>5. w = l + 256 * g BY <1>3, <1>4
<1>6. PICK n \in Nat : n = a + 16 * g BY <1>3
<1>7. w = t + 4 * u + 8 * m + 16 * n BY <1>4, <1>5, <1>6
<1>8. bits(w, 2, 1) = u
  <2>1. w \div 4 = u + 2 * (m + 2 * n) BY <1>6, <1>7, SMTT(30)
  <2> QED BY <1>6, <2>1, SMTT(30) DEF bits
<1>9. bits(w, 3, 1) = m
  <2>1. w \div 8 = m + 2 * n BY <1>6, <1>7, SMTT(30)
  <2> QED BY <1>6, <2>1, SMTT(30) DEF bits
<1>10. bits(w, 8, 2) = f
  <2>1. w \div 256 = g BY <1>5, SMTT(30)
  <2>2. g % 4 = f BY <1>3, SMTT(30)
  <2> QED BY <2>1, <2>2, SMTT(30) DEF bits
<1>11. bits(w, 12, 2) = e
  <2>1. PICK k \in 0..4095 : k = l + 256 * f + 1024 * b BY <1>4
  <2>2. w = k + 4096 * e + 16384 * c BY <1>3, <1>5, <2>1
  <2> QED BY <2>2, SMTT(30) DEF bits
<1> QED BY <1>2, <1>8, <1>9, <1>10, <1>11

\* Registers 5 and 6: the two parts of the FID, and the LAG.
Is56(v, w, d, l, a, b, c) ==
  /\ d \in 0..4095 /\ l \in -1..15 /\ a \in 0..3 /\ b \in 0..1 /\ c \in 0..4095
  /\ v = (d \div 16) + (IF l < 0 THEN 0 ELSE 16384 + 256 * l) + 4096 * a + 32768 * b
  /\ w = c + 4096 * (d % 16)

LEMMA Registers56 ==
  ASSUME NEW v, NEW w, NEW d, NEW l, NEW a, NEW b, NEW c, Is56(v, w, d, l, a, b, c)
  PROVE  /\ bits(w, 12, 4) + bits(v, 0, 8) * 16 = d
         /\ l < 0 => bits(v, 14, 1) = 0
         /\ l >= 0 => bits(v, 14, 1) = 1 /\ bits(v, 8, 4) = l
  BY SMTT(30) DEF bits, Is56

\* Register 7: the default VID.
Is7(w, v, c) == v \in 0..4095 /\ c \in 0..15 /\ w = v + 4096 * c

LEMMA Register7 == ASSUME NEW w, NEW v, NEW c, Is7(w, v, c) PROVE bits(w, 0, 12) = v
  BY SMTT(30) DEF bits, Is7

\* Register 8: map, filters and 802.1Q mode.
Is8(w, a, m, u, t, q, c) ==
  /\ a \in 0..127 /\ m \in 0..1 /\ u \in 0..1 /\ t \in 0..1 /\ q \in 0..3 /\ c \in 0..15
  /\ w = a + 128 * m + 256 * u + 512 * t + 1024 * q + 4096 * c

LEMMA Register8 ==
  ASSUME NEW w, NEW a, NEW m, NEW u, NEW t, NEW q, NEW c, Is8(w, a, m, u, t, q, c)
  PROVE  /\ bits(w, 7, 1) = m /\ bits(w, 8, 1) = u /\ bits(w, 9, 1) = t /\ bits(w, 10, 2) = q
  BY SMTT(30) DEF bits, Is8

\* A flag is a bit.
LEMMA Flag == \A b \in BOOLEAN : B(b) \in 0..1 /\ ((B(b) = 1) = b)
  BY DEF B

\* The fields of a port, decoded.
LEMMA PortDecoded ==
  ASSUME NEW p, IsPort(p), NEW s, IsSpare(s), NEW r, r = PortRegion(p, s)
  PROVE  /\ bits(r[0], 8, 2) = p.speed /\ bit1(r[0], 10) = p.full /\ bit1(r[0], 11) = p.up
         /\ bits(r[4], 0, 2) = p.state /\ bit1(r[4], 2) = p.uc /\ bit1(r[4], 3) = p.mc
         /\ bits(r[4], 8, 2) = p.fmode /\ bits(r[4], 12, 2) = p.emode
         /\ opal_port_fid(r) = p.fid /\ opal_port_lag(r) = p.lag
         /\ bits(r[7], 0, 12) = p.pvid
         /\ bit1(r[8], 7) = p.map /\ bit1(r[8], 8) = p.drop_untagged /\ bit1(r[8], 9) = p.drop_tagged
         /\ bits(r[8], 10, 2) = p.qmode
<1>1. /\ p.speed \in 0..3 /\ p.fmode \in 0..3 /\ p.emode \in 0..3 /\ p.state \in 0..3
      /\ p.qmode \in 0..3 /\ p.pvid \in 0..4095 /\ p.fid \in 0..4095 /\ p.lag \in -1..15
  BY DEF IsPort
<1>2. /\ p.up \in BOOLEAN /\ p.full \in BOOLEAN /\ p.uc \in BOOLEAN /\ p.mc \in BOOLEAN
      /\ p.map \in BOOLEAN /\ p.drop_untagged \in BOOLEAN /\ p.drop_tagged \in BOOLEAN
  BY DEF IsPort
<1>3. /\ B(p.up) \in 0..1 /\ B(p.full) \in 0..1 /\ B(p.uc) \in 0..1 /\ B(p.mc) \in 0..1
      /\ B(p.map) \in 0..1 /\ B(p.drop_untagged) \in 0..1 /\ B(p.drop_tagged) \in 0..1
  BY <1>2, Flag
<1>4. /\ r[0] = s[0] + 256 * p.speed + 1024 * B(p.full) + 2048 * B(p.up) + 4096 * s[1]
      /\ r[4] = p.state + 4 * B(p.uc) + 8 * B(p.mc) + 16 * s[2] + 256 * p.fmode + 1024 * s[3]
                  + 4096 * p.emode + 16384 * s[4]
      /\ r[5] = (p.fid \div 16) + (IF p.lag < 0 THEN 0 ELSE 16384 + 256 * p.lag) + 4096 * s[5]
                  + 32768 * s[6]
      /\ r[6] = s[7] + 4096 * (p.fid % 16)
      /\ r[7] = p.pvid + 4096 * s[8]
      /\ r[8] = s[9] + 128 * B(p.map) + 256 * B(p.drop_untagged) + 512 * B(p.drop_tagged)
                  + 1024 * p.qmode + 4096 * s[10]
  BY SMTT(30) DEF PortRegion
<1>5. bits(r[0], 8, 2) = p.speed /\ bits(r[0], 10, 1) = B(p.full) /\ bits(r[0], 11, 1) = B(p.up)
  <2>1. Is0(r[0], s[0], p.speed, B(p.full), B(p.up), s[1]) BY <1>1, <1>3, <1>4 DEF Is0, IsSpare
  <2> QED BY <2>1, Register0, Zenon
<1>6. /\ bits(r[4], 0, 2) = p.state /\ bits(r[4], 2, 1) = B(p.uc) /\ bits(r[4], 3, 1) = B(p.mc)
      /\ bits(r[4], 8, 2) = p.fmode /\ bits(r[4], 12, 2) = p.emode
  <2>1. Is4(r[4], p.state, B(p.uc), B(p.mc), s[2], p.fmode, s[3], p.emode, s[4])
    BY <1>1, <1>3, <1>4 DEF Is4, IsSpare
  <2> QED BY <2>1, Register4, Zenon
<1>7. /\ bits(r[6], 12, 4) + bits(r[5], 0, 8) * 16 = p.fid
      /\ p.lag < 0 => bits(r[5], 14, 1) = 0
      /\ p.lag >= 0 => bits(r[5], 14, 1) = 1 /\ bits(r[5], 8, 4) = p.lag
  <2>1. Is56(r[5], r[6], p.fid, p.lag, s[5], s[6], s[7]) BY <1>1, <1>4 DEF Is56, IsSpare
  <2> QED BY <2>1, Registers56, SMTT(10)
<1>8. bits(r[7], 0, 12) = p.pvid
  <2>1. Is7(r[7], p.pvid, s[8]) BY <1>1, <1>4 DEF Is7, IsSpare
  <2> QED BY <2>1, Register7, Zenon
<1>9. /\ bits(r[8], 7, 1) = B(p.map) /\ bits(r[8], 8, 1) = B(p.drop_untagged)
      /\ bits(r[8], 9, 1) = B(p.drop_tagged) /\ bits(r[8], 10, 2) = p.qmode
  <2>1. Is8(r[8], s[9], B(p.map), B(p.drop_untagged), B(p.drop_tagged), p.qmode, s[10])
    BY <1>1, <1>3, <1>4 DEF Is8, IsSpare
  <2> QED BY <2>1, Register8, Zenon
<1>10. opal_port_fid(r) = p.fid BY <1>7 DEF opal_port_fid
<1>11. opal_port_lag(r) = p.lag
  <2>1. CASE p.lag < 0 
    <3>1. p.lag = -1 /\ ~bit1(r[5], 14) BY <1>1, <1>7, <2>1 DEF bit1
    <3> QED BY <3>1 DEF opal_port_lag
  <2>2. CASE p.lag >= 0 BY <1>7, <2>2 DEF opal_port_lag, bit1
  <2> QED BY <1>1, <2>1, <2>2
<1> QED BY <1>2, <1>5, <1>6, <1>8, <1>9, <1>10, <1>11, Flag DEF bit1

\* The two views show the port.
LEMMA PortShown == ASSUME in.kind = "port", IsPort(in.port), IsSpare(in.spare) PROVE PortsShown
<1> DEFINE p == in.port  r == PortRegion(p, in.spare)  c == PortFields(r)
<1>1. /\ bits(r[0], 8, 2) = p.speed /\ bit1(r[0], 10) = p.full /\ bit1(r[0], 11) = p.up
      /\ bits(r[4], 0, 2) = p.state /\ bit1(r[4], 2) = p.uc /\ bit1(r[4], 3) = p.mc
      /\ bits(r[4], 8, 2) = p.fmode /\ bits(r[4], 12, 2) = p.emode
      /\ opal_port_fid(r) = p.fid /\ opal_port_lag(r) = p.lag
      /\ bits(r[7], 0, 12) = p.pvid
      /\ bit1(r[8], 7) = p.map /\ bit1(r[8], 8) = p.drop_untagged /\ bit1(r[8], 9) = p.drop_tagged
      /\ bits(r[8], 10, 2) = p.qmode
  BY PortDecoded
<1> HIDE DEF r, p
<1>2. c = [fmode |-> p.fmode, emode |-> p.emode, state |-> p.state, uc |-> p.uc, mc |-> p.mc,
           qmode |-> p.qmode, pvid |-> p.pvid, fid |-> p.fid, lag |-> p.lag]
  BY <1>1, Zenon DEF PortFields
<1>3. c = [f \in DOMAIN c |-> p[f]] BY <1>2
<1>4. port_link_str(r) = IF p.up THEN <<p.speed, p.full>> ELSE <<>>
  BY <1>1, Zenon DEF port_link_str
<1> HIDE DEF c
<1>5. /\ env_show_ports(r).common = c /\ env_json_ports(r).common = c
      /\ env_show_ports(r).link = port_link_str(r)
      /\ env_show_ports(r).map = bit1(r[8], 7)
      /\ env_show_ports(r).allow_untagged = ~bit1(r[8], 8)
      /\ env_show_ports(r).allow_tagged = ~bit1(r[8], 9)
  BY DEF env_show_ports, env_json_ports, c
<1> QED BY <1>1, <1>3, <1>4, <1>5, Zenon DEF PortsShown, p, r

-------------------------------------------------------------------------------
(* Sets of ports.                                                          *)

LEMMA PortNumbers == PortNos = {0, 1, 2, 3, 4, 5, 6, 7, 8, 9, 10}
  BY SMTT(10) DEF PortNos, MAX_PORTS

\* A vector of eleven bits, and what is above it.
IsVec(w, b0, b1, b2, b3, b4, b5, b6, b7, b8, b9, b10, h) ==
  /\ {b0, b1, b2, b3, b4, b5, b6, b7, b8, b9, b10} \subseteq 0..1 /\ h \in Nat
  /\ w = b0 + 2 * b1 + 4 * b2 + 8 * b3 + 16 * b4 + 32 * b5 + 64 * b6 + 128 * b7 + 256 * b8
           + 512 * b9 + 1024 * b10 + 2048 * h

LEMMA Vec ==
  ASSUME NEW w, NEW b0, NEW b1, NEW b2, NEW b3, NEW b4, NEW b5, NEW b6, NEW b7, NEW b8, NEW b9, NEW b10,
         NEW h, IsVec(w, b0, b1, b2, b3, b4, b5, b6, b7, b8, b9, b10, h)
  PROVE  /\ bits(w, 0, 1) = b0 /\ bits(w, 1, 1) = b1 /\ bits(w, 2, 1) = b2 /\ bits(w, 3, 1) = b3
         /\ bits(w, 4, 1) = b4 /\ bits(w, 5, 1) = b5 /\ bits(w, 6, 1) = b6 /\ bits(w, 7, 1) = b7
         /\ bits(w, 8, 1) = b8 /\ bits(w, 9, 1) = b9 /\ bits(w, 10, 1) = b10
<1>1. /\ b0 \in 0..1 /\ b1 \in 0..1 /\ b2 \in 0..1 /\ b3 \in 0..1 /\ b4 \in 0..1 /\ b5 \in 0..1
      /\ b6 \in 0..1 /\ b7 \in 0..1 /\ b8 \in 0..1 /\ b9 \in 0..1 /\ b10 \in 0..1 /\ h \in Nat
  BY DEF IsVec
<1>2. w = b0 + 2 * b1 + 4 * b2 + 8 * b3 + 16 * b4 + 32 * b5 + 64 * b6 + 128 * b7 + 256 * b8
            + 512 * b9 + 1024 * b10 + 2048 * h
  BY Zenon DEF IsVec
<1>3. PICK t10 \in Nat : t10 = b10 + 2 * h BY <1>1
<1>4. PICK t9 \in Nat : t9 = b9 + 2 * t10 BY <1>1
<1>5. PICK t8 \in Nat : t8 = b8 + 2 * t9 BY <1>1
<1>6. PICK t7 \in Nat : t7 = b7 + 2 * t8 BY <1>1
<1>7. PICK t6 \in Nat : t6 = b6 + 2 * t7 BY <1>1
<1>8. PICK t5 \in Nat : t5 = b5 + 2 * t6 BY <1>1
<1>9. PICK t4 \in Nat : t4 = b4 + 2 * t5 BY <1>1
<1>10. PICK t3 \in Nat : t3 = b3 + 2 * t4 BY <1>1
<1>11. PICK t2 \in Nat : t2 = b2 + 2 * t3 BY <1>1
<1>12. PICK t1 \in Nat : t1 = b1 + 2 * t2 BY <1>1
<1>13. PICK t0 \in Nat : t0 = b0 + 2 * t1 BY <1>1
<1>14. w = t0 BY <1>1, <1>2, <1>3, <1>4, <1>5, <1>6, <1>7, <1>8, <1>9, <1>10, <1>11, <1>12, <1>13
<1>15. w \div 2 = t1
  BY <1>1, <1>14, <1>13, SMTT(30)
<1>16. w \div 4 = t2
  <2>1. PICK l \in 0..3 : l = b0 + 2 * b1 BY <1>1
  <2>2. w = l + 4 * t2 BY <1>1, <1>14, <1>13, <1>12, <2>1
  <2> QED BY <2>2, SMTT(30)
<1>17. w \div 8 = t3
  <2>1. PICK l \in 0..7 : l = b0 + 2 * b1 + 4 * b2 BY <1>1
  <2>2. w = l + 8 * t3 BY <1>1, <1>14, <1>13, <1>12, <1>11, <2>1
  <2> QED BY <2>2, SMTT(30)
<1>18. w \div 16 = t4
  <2>1. PICK l \in 0..15 : l = b0 + 2 * b1 + 4 * b2 + 8 * b3 BY <1>1
  <2>2. w = l + 16 * t4 BY <1>1, <1>14, <1>13, <1>12, <1>11, <1>10, <2>1
  <2> QED BY <2>2, SMTT(30)
<1>19. w \div 32 = t5
  <2>1. PICK l \in 0..31 : l = b0 + 2 * b1 + 4 * b2 + 8 * b3 + 16 * b4 BY <1>1
  <2>2. w = l + 32 * t5 BY <1>1, <1>14, <1>13, <1>12, <1>11, <1>10, <1>9, <2>1
  <2> QED BY <2>2, SMTT(30)
<1>20. w \div 64 = t6
  <2>1. PICK l \in 0..63 : l = b0 + 2 * b1 + 4 * b2 + 8 * b3 + 16 * b4 + 32 * b5 BY <1>1
  <2>2. w = l + 64 * t6 BY <1>1, <1>14, <1>13, <1>12, <1>11, <1>10, <1>9, <1>8, <2>1
  <2> QED BY <2>2, SMTT(30)
<1>21. w \div 128 = t7
  <2>1. PICK l \in 0..127 : l = b0 + 2 * b1 + 4 * b2 + 8 * b3 + 16 * b4 + 32 * b5 + 64 * b6 BY <1>1
  <2>2. w = l + 128 * t7 BY <1>1, <1>14, <1>13, <1>12, <1>11, <1>10, <1>9, <1>8, <1>7, <2>1
  <2> QED BY <2>2, SMTT(30)
<1>22. w \div 256 = t8
  <2>1. PICK l \in 0..255 : l = b0 + 2 * b1 + 4 * b2 + 8 * b3 + 16 * b4 + 32 * b5 + 64 * b6 + 128 * b7 BY <1>1
  <2>2. w = l + 256 * t8 BY <1>1, <1>14, <1>13, <1>12, <1>11, <1>10, <1>9, <1>8, <1>7, <1>6, <2>1
  <2> QED BY <2>2, SMTT(30)
<1>23. w \div 512 = t9
  <2>1. PICK l \in 0..511 : l = b0 + 2 * b1 + 4 * b2 + 8 * b3 + 16 * b4
           + 32 * b5 + 64 * b6 + 128 * b7 + 256 * b8 BY <1>1
  <2>2. w = l + 512 * t9 BY <1>1, <1>14, <1>13, <1>12, <1>11, <1>10, <1>9, <1>8, <1>7, <1>6, <1>5, <2>1
  <2> QED BY <2>2, SMTT(30)
<1>24. w \div 1024 = t10
  <2>1. PICK l \in 0..1023 : l = b0 + 2 * b1 + 4 * b2 + 8 * b3 + 16 * b4
           + 32 * b5 + 64 * b6 + 128 * b7 + 256 * b8 + 512 * b9 BY <1>1
  <2>2. w = l + 1024 * t10 BY <1>1, <1>14, <1>13, <1>12, <1>11, <1>10, <1>9, <1>8, <1>7, <1>6, <1>5, <1>4, <2>1
  <2> QED BY <2>2, SMTT(30)
<1>25. bits(w, 0, 1) = b0 BY <1>1, <1>14, <1>13, SMTT(30) DEF bits
<1>26. bits(w, 1, 1) = b1 BY <1>1, <1>12, <1>15, SMTT(30) DEF bits
<1>27. bits(w, 2, 1) = b2 BY <1>1, <1>11, <1>16, SMTT(30) DEF bits
<1>28. bits(w, 3, 1) = b3 BY <1>1, <1>10, <1>17, SMTT(30) DEF bits
<1>29. bits(w, 4, 1) = b4 BY <1>1, <1>9, <1>18, SMTT(30) DEF bits
<1>30. bits(w, 5, 1) = b5 BY <1>1, <1>8, <1>19, SMTT(30) DEF bits
<1>31. bits(w, 6, 1) = b6 BY <1>1, <1>7, <1>20, SMTT(30) DEF bits
<1>32. bits(w, 7, 1) = b7 BY <1>1, <1>6, <1>21, SMTT(30) DEF bits
<1>33. bits(w, 8, 1) = b8 BY <1>1, <1>5, <1>22, SMTT(30) DEF bits
<1>34. bits(w, 9, 1) = b9 BY <1>1, <1>4, <1>23, SMTT(30) DEF bits
<1>35. bits(w, 10, 1) = b10 BY <1>1, <1>3, <1>24, SMTT(30) DEF bits
<1> QED BY <1>25, <1>26, <1>27, <1>28, <1>29, <1>30, <1>31, <1>32, <1>33, <1>34, <1>35

\* A vector of ports has the bits of the ports in it, whatever is above it.
Above(S, h) == PortVec(S) + 2048 * h

LEMMA PortVecBound == ASSUME NEW S PROVE PortVec(S) \in 0..2047
<1> DEFINE N(i) == IF i \in S THEN 1 ELSE 0
<1>1. PortVec(S) = N(0) + 2 * N(1) + 4 * N(2) + 8 * N(3) + 16 * N(4) + 32 * N(5) + 64 * N(6) + 128 * N(7)
                     + 256 * N(8) + 512 * N(9) + 1024 * N(10)
  BY SMTT(30) DEF PortVec
<1>2. \A i : N(i) \in 0..1 OBVIOUS
<1> HIDE DEF N
<1>3. /\ N(0) \in 0..1 /\ N(1) \in 0..1 /\ N(2) \in 0..1 /\ N(3) \in 0..1 /\ N(4) \in 0..1 /\ N(5) \in 0..1
      /\ N(6) \in 0..1 /\ N(7) \in 0..1 /\ N(8) \in 0..1 /\ N(9) \in 0..1 /\ N(10) \in 0..1
  BY <1>2
<1> QED BY <1>1, <1>3, SMTT(30)

LEMMA PortVecBits ==
  ASSUME NEW S, S \subseteq PortNos, NEW h \in Nat
  PROVE  /\ PortVec(S) \in Nat
         /\ \A i \in PortNos : bit1(Above(S, h), i) <=> i \in S
         /\ PortVec(S) # 0 <=> \E i \in PortNos : i \in S
<1> DEFINE N(i) == IF i \in S THEN 1 ELSE 0
           V == PortVec(S)
<1>1. \A i \in PortNos : N(i) \in 0..1 /\ (N(i) = 1 <=> i \in S) OBVIOUS
<1>2. V = N(0) + 2 * N(1) + 4 * N(2) + 8 * N(3) + 16 * N(4) + 32 * N(5) + 64 * N(6) + 128 * N(7)
            + 256 * N(8) + 512 * N(9) + 1024 * N(10)
  BY SMTT(30) DEF PortVec
<1> HIDE DEF N, V
<1>3. IsVec(V + 2048 * h, N(0), N(1), N(2), N(3), N(4), N(5), N(6), N(7), N(8), N(9), N(10), h)
  BY <1>1, <1>2, PortNumbers DEF IsVec
<1>4. V \in Nat BY <1>1, <1>2, PortNumbers
<1>5. V # 0 <=> \E i \in PortNos : N(i) = 1 BY <1>1, <1>2, PortNumbers
<1> DEFINE W == Above(S, h)
<1> HIDE DEF W
<1>6. IsVec(W, N(0), N(1), N(2), N(3), N(4), N(5), N(6), N(7), N(8), N(9), N(10), h) BY <1>3 DEF W, V, Above
<1>7. /\ bits(W, 0, 1) = N(0) /\ bits(W, 1, 1) = N(1) /\ bits(W, 2, 1) = N(2) /\ bits(W, 3, 1) = N(3)
      /\ bits(W, 4, 1) = N(4) /\ bits(W, 5, 1) = N(5) /\ bits(W, 6, 1) = N(6) /\ bits(W, 7, 1) = N(7)
      /\ bits(W, 8, 1) = N(8) /\ bits(W, 9, 1) = N(9) /\ bits(W, 10, 1) = N(10)
  BY <1>6, Vec, SMTT(30)
<1>8. \A i \in PortNos : bits(W, i, 1) = N(i) BY <1>7, PortNumbers
<1>9. \A i \in PortNos : bit1(W, i) <=> i \in S BY <1>1, <1>8, Zenon DEF bit1
<1> QED BY <1>1, <1>4, <1>5, <1>9, Zenon DEF V, W

-------------------------------------------------------------------------------
(* Addresses.                                                              *)

\* A table ends in front of its first entry that is not valid.
LEMMA AtuEnd ==
  ASSUME NEW S, NEW table \in Seq(S), NEW n \in Nat, n < Len(table),
         \A i \in 1..n : atu_valid(table[i]), ~atu_valid(table[n + 1])
  PROVE  Len(AtuEntries(table)) = n
<1> DEFINE last == [atu_data |-> 0]
           T == Append(table, last)
           I == {i \in 1..Len(T) : ~atu_valid(T[i])}
           first == SelectInSeq(T, LAMBDA k : ~atu_valid(k))
<1>1. T \in Seq(S \cup {last}) /\ Len(T) = Len(table) + 1 /\ \A i \in 1..Len(table) : T[i] = table[i]
  OBVIOUS
<1>2. AtuEntries(table) = SubSeq(table, 1, first - 1) BY Zenon DEF AtuEntries
<1>3. first = IF I # {} THEN Min(I) ELSE 0 BY DEF SelectInSeq
<1> HIDE DEF T, first
<1>4. n + 1 \in I /\ \A i \in I : n + 1 <= i BY <1>1
<1> HIDE DEF I
<1>5. Min(I) = n + 1
  <2>1. \A x \in I : (\A y \in I : x <= y) => x = n + 1
    <3>1. I \subseteq Int BY <1>1 DEF I
    <3> QED BY <1>4, <3>1
  <2> QED BY <1>4, <2>1 DEF Min
<1>6. first - 1 = n BY <1>3, <1>4, <1>5
<1>7. AtuEntries(table) = SubSeq(table, 1, n) BY <1>2, <1>6, Zenon
<1> QED BY <1>7

LEMMA VtuEnd ==
  ASSUME NEW S, NEW table \in Seq(S), NEW n \in Nat, n < Len(table),
         \A i \in 1..n : vtu_valid(table[i]), ~vtu_valid(table[n + 1])
  PROVE  Len(VtuEntries(table)) = n
<1> DEFINE last == [vid |-> 0]
           T == Append(table, last)
           I == {i \in 1..Len(T) : ~vtu_valid(T[i])}
           first == SelectInSeq(T, LAMBDA k : ~vtu_valid(k))
<1>1. T \in Seq(S \cup {last}) /\ Len(T) = Len(table) + 1 /\ \A i \in 1..Len(table) : T[i] = table[i]
  OBVIOUS
<1>2. VtuEntries(table) = SubSeq(table, 1, first - 1) BY Zenon DEF VtuEntries
<1>3. first = IF I # {} THEN Min(I) ELSE 0 BY DEF SelectInSeq
<1> HIDE DEF T, first
<1>4. n + 1 \in I /\ \A i \in I : n + 1 <= i BY <1>1
<1> HIDE DEF I
<1>5. Min(I) = n + 1
  <2>1. \A x \in I : (\A y \in I : x <= y) => x = n + 1
    <3>1. I \subseteq Int BY <1>1 DEF I
    <3> QED BY <1>4, <3>1
  <2> QED BY <1>4, <2>1 DEF Min
<1>6. first - 1 = n BY <1>3, <1>4, <1>5
<1>7. VtuEntries(table) = SubSeq(table, 1, n) BY <1>2, <1>6, Zenon
<1> QED BY <1>7

LEMMA StuEnd ==
  ASSUME NEW S, NEW table \in Seq(S), NEW n \in Nat, n < Len(table),
         \A i \in 1..n : stu_valid(table[i]), ~stu_valid(table[n + 1])
  PROVE  Len(StuEntries(table)) = n
<1> DEFINE last == [vid |-> 0]
           T == Append(table, last)
           I == {i \in 1..Len(T) : ~stu_valid(T[i])}
           first == SelectInSeq(T, LAMBDA k : ~stu_valid(k))
<1>1. T \in Seq(S \cup {last}) /\ Len(T) = Len(table) + 1 /\ \A i \in 1..Len(table) : T[i] = table[i]
  OBVIOUS
<1>2. StuEntries(table) = SubSeq(table, 1, first - 1) BY Zenon DEF StuEntries
<1>3. first = IF I # {} THEN Min(I) ELSE 0 BY DEF SelectInSeq
<1> HIDE DEF T, first
<1>4. n + 1 \in I /\ \A i \in I : n + 1 <= i BY <1>1
<1> HIDE DEF I
<1>5. Min(I) = n + 1
  <2>1. \A x \in I : (\A y \in I : x <= y) => x = n + 1
    <3>1. I \subseteq Int BY <1>1 DEF I
    <3> QED BY <1>4, <3>1
  <2> QED BY <1>4, <2>1 DEF Min
<1>6. first - 1 = n BY <1>3, <1>4, <1>5
<1>7. StuEntries(table) = SubSeq(table, 1, n) BY <1>2, <1>6, Zenon
<1> QED BY <1>7

\* The words of an entry of the ATU.
IsAtuData(w, s, v, l) == s \in 1..15 /\ v \in 0..2047 /\ l \in 0..1 /\ w = s + 16 * (v + 2048 * l)

LEMMA AtuData ==
  ASSUME NEW w, NEW s, NEW v, NEW l, IsAtuData(w, s, v, l)
  PROVE  bits(w, 0, 4) = s /\ bits(w, 4, 11) = v /\ bits(w, 15, 1) = l /\ s # 0
  BY SMTT(30) DEF bits, IsAtuData

IsAtuOp(w, q, f, s) == q \in 0..7 /\ f \in 0..7 /\ s \in 0..1 /\ w = 256 * q + f + 2296 * s

LEMMA AtuOp ==
  ASSUME NEW w, NEW q, NEW f, NEW s, IsAtuOp(w, q, f, s)
  PROVE  bits(w, 8, 3) = q /\ bits(w, 0, 3) = f
<1>1. CASE s = 0 BY <1>1, SMTT(30) DEF bits, IsAtuOp
<1>2. CASE s = 1 BY <1>2, SMTT(30) DEF bits, IsAtuOp
<1> QED BY <1>1, <1>2 DEF IsAtuOp

IsAtu01(w, c, s) == c \in BOOLEAN /\ s \in 0..1 /\ w = (IF c THEN 256 ELSE 0) + 65279 * s

LEMMA Atu01 == ASSUME NEW w, NEW c, NEW s, IsAtu01(w, c, s) PROVE bit1(w, 8) = c
  BY SMTT(30) DEF bit1, bits, IsAtu01

\* An entry, decoded.
LEMMA AtuDecoded ==
  ASSUME in.kind = "atu", IsAtu(in)
  PROVE  LET e == dev_atu_parse(in.fam, AtuEntry)
             set == prio_override_state(in.mc, in.state)
             fset == set /\ in.fam # "opal"
         IN  /\ e.state = in.state /\ e.lag = (in.lag >= 0)
             /\ e.portvec = IF in.lag < 0 THEN PortVec(in.at) ELSE in.lag
             /\ e.qpri = [set |-> set, pri |-> IF set THEN in.q ELSE 0]
             /\ e.fpri = [set |-> fset, pri |-> IF fset THEN in.f ELSE 0]
             /\ atu_valid(AtuEntry)
<1> DEFINE k == AtuEntry
           vec == IF in.lag < 0 THEN PortVec(in.at) ELSE in.lag
           lag == IF in.lag < 0 THEN 0 ELSE 1
<1>1. IsAtuData(k.atu_data, in.state, vec, lag)
  <2>1. in.state \in 1..15 /\ in.at \subseteq PortNos /\ in.lag \in -1..15 BY DEF IsAtu
  <2>2. PortVec(in.at) \in 0..2047 BY PortVecBound
  <2>3. Place = vec + 2048 * lag BY <2>1, <2>2 DEF Place
  <2>4. vec \in 0..2047 /\ lag \in 0..1 BY <2>1, <2>2
  <2>5. k.atu_data = in.state + 16 * Place BY DEF AtuEntry
  <2> HIDE DEF vec, lag, k
  <2> QED BY <2>1, <2>3, <2>4, <2>5 DEF IsAtuData
<1>2. IsAtuOp(k.atu_op, in.q, in.f, in.spare) BY DEF AtuEntry, IsAtuOp, IsAtu
<1>3. IsAtu01(k.atu_01, in.mc, in.spare) BY DEF AtuEntry, IsAtu01, IsAtu
<1> HIDE DEF k, vec
<1>4. /\ bits(k.atu_data, 0, 4) = in.state /\ bits(k.atu_data, 4, 11) = vec
      /\ bits(k.atu_data, 15, 1) = lag /\ in.state # 0
  BY <1>1, AtuData, Zenon
<1>5. bits(k.atu_op, 8, 3) = in.q /\ bits(k.atu_op, 0, 3) = in.f BY <1>2, AtuOp, Zenon
<1>6. bit1(k.atu_01, 8) = in.mc BY <1>3, Atu01, Zenon
<1>7. bit1(k.atu_data, 15) = (in.lag >= 0)
  <2>1. in.lag \in -1..15 BY DEF IsAtu
  <2>2. (lag = 1) = (in.lag >= 0) BY <2>1
  <2>3. bit1(k.atu_data, 15) = (lag = 1) BY <1>4, Zenon DEF bit1
  <2> QED BY <2>2, <2>3
<1> HIDE DEF lag
<1>8. atu_valid(k) BY <1>4 DEF atu_valid
<1> DEFINE set == prio_override_state(in.mc, in.state)
           fset == set /\ in.fam # "opal"
<1>9. dev_atu_parse(in.fam, k) =
        [fid |-> k.fid, mc |-> in.mc, lag |-> (in.lag >= 0), portvec |-> vec, state |-> in.state,
         qpri |-> [set |-> set, pri |-> IF set THEN in.q ELSE 0],
         fpri |-> [set |-> fset, pri |-> IF fset THEN in.f ELSE 0]]
  BY <1>4, <1>5, <1>6, <1>7, Zenon DEF dev_atu_parse
<1> DEFINE qp == [set |-> set, pri |-> IF set THEN in.q ELSE 0]
           fp == [set |-> fset, pri |-> IF fset THEN in.f ELSE 0]
           e == dev_atu_parse(in.fam, k)
<1>10. /\ e.state = in.state /\ e.lag = (in.lag >= 0) /\ e.portvec = vec
       /\ e.qpri = qp /\ e.fpri = fp
  <2> HIDE DEF qp, fp, set
  <2>1. e = [fid |-> k.fid, mc |-> in.mc, lag |-> (in.lag >= 0), portvec |-> vec, state |-> in.state,
             qpri |-> qp, fpri |-> fp]
    BY <1>9 DEF qp, fp, set
  <2> HIDE DEF e
  <2> QED BY <2>1
<1> QED BY <1>8, <1>10, Zenon DEF k, vec

\* The view of the ATU shows the entry.
LEMMA AtuShown == ASSUME in.kind = "atu", IsAtu(in) PROVE AddressesShown
<1> DEFINE k == AtuEntry
           none == [k EXCEPT !.atu_data = 0]
           table == <<k, none, k>>
           e == dev_atu_parse(in.fam, k)
           rows == env_show_atu(in.fam, table)
           set == prio_override_state(in.mc, in.state)
           fset == set /\ in.fam # "opal"
<1>1. /\ e.state = in.state /\ e.lag = (in.lag >= 0)
      /\ e.portvec = IF in.lag < 0 THEN PortVec(in.at) ELSE in.lag
      /\ e.qpri = [set |-> set, pri |-> IF set THEN in.q ELSE 0]
      /\ e.fpri = [set |-> fset, pri |-> IF fset THEN in.f ELSE 0]
      /\ atu_valid(k)
  BY AtuDecoded
<1>2. none.atu_data = 0 BY DEF AtuEntry
<1>3. ~atu_valid(none)
  <2>1. bits(0, 0, 4) = 0 BY SMTT(10) DEF bits
  <2> QED BY <1>2, <2>1 DEF atu_valid
<1> HIDE DEF k, none
<1>4. table \in Seq({k, none}) /\ Len(table) = 3 /\ table[1] = k /\ table[2] = none OBVIOUS
<1> HIDE DEF table
<1>5. Len(AtuEntries(table)) = 1
  <2>1. \A i \in 1..1 : atu_valid(table[i]) BY <1>1, <1>4
  <2>2. ~atu_valid(table[1 + 1]) BY <1>3, <1>4
  <2>3. 1 \in Nat /\ 1 < Len(table) BY <1>4
  <2> QED BY <1>4, <2>1, <2>2, <2>3, AtuEnd, Zenon
<1>6. rows = [n \in 1..1 |-> AtuRow(dev_atu_parse(in.fam, table[n]))]
  BY <1>5, Zenon DEF env_show_atu
<1>7. Len(rows) = 1 /\ rows[1] = AtuRow(e)
  <2> HIDE DEF rows
  <2>1. rows[1] = AtuRow(dev_atu_parse(in.fam, table[1])) BY <1>6
  <2>2. Len(rows) = 1 BY <1>6
  <2> QED BY <1>4, <2>1, <2>2, Zenon
<1> HIDE DEF e, rows
<1>8. /\ AtuRow(e).state = e.state /\ AtuRow(e).qpri = e.qpri /\ AtuRow(e).fpri = e.fpri
      /\ AtuRow(e).lag = IF e.lag THEN e.portvec ELSE -1
      /\ AtuRow(e).ports = IF e.lag THEN {} ELSE {i \in PortNos : bit1(e.portvec, i)}
  BY DEF AtuRow
<1>9. ~(in.mc /\ in.state \in {1, 2, 3, 8, 9, 10, 11}) =>
         (set <=> in.state \in (IF in.mc THEN 12..15 ELSE {9, 11, 13, 15}))
  BY DEF prio_override_state, IsAtu
<1> DEFINE po == in.state \in (IF in.mc THEN 12..15 ELSE {9, 11, 13, 15})
           Pri(s, p) == [set |-> s, pri |-> IF s THEN p ELSE 0]
<1>10. /\ rows[1].lag = in.lag
       /\ rows[1].ports = IF in.lag < 0 THEN in.at ELSE {}
  <2>1. in.at \subseteq PortNos /\ in.lag \in -1..15 BY DEF IsAtu
  <2>2. in.lag >= 0 <=> ~(in.lag < 0) BY <2>1
  <2>3. CASE in.lag < 0
    <3>1. in.lag = -1 BY <2>1, <2>3
    <3>2. ~e.lag /\ e.portvec = PortVec(in.at) BY <1>1, <2>2, <2>3, Zenon
    <3>3. \A i \in PortNos : bit1(PortVec(in.at), i) <=> i \in in.at
      <4>1. 0 \in Nat OBVIOUS
      <4>2. /\ PortVec(in.at) \in Nat
            /\ \A i \in PortNos : bit1(Above(in.at, 0), i) <=> i \in in.at
        BY <2>1, <4>1, PortVecBits, Zenon
      <4>3. Above(in.at, 0) = PortVec(in.at) BY <4>2 DEF Above
      <4> QED BY <4>2, <4>3, Zenon
    <3>4. {i \in PortNos : bit1(PortVec(in.at), i)} = in.at BY <2>1, <3>3, Zenon
    <3>5. rows[1].lag = -1 /\ rows[1].ports = in.at BY <1>7, <1>8, <3>2, <3>4, Zenon
    <3> QED BY <2>3, <3>1, <3>5, Zenon
  <2>4. CASE ~(in.lag < 0)
    <3>1. e.lag /\ e.portvec = in.lag BY <1>1, <2>2, <2>4, Zenon
    <3> QED BY <1>7, <1>8, <2>4, <3>1, Zenon
  <2> QED BY <2>3, <2>4
<1>11. rows[1].state = in.state BY <1>1, <1>7, <1>8
<1>12. rows[1].qpri = Pri(set, in.q) /\ rows[1].fpri = Pri(fset, in.f)
  BY <1>1, <1>7, <1>8, Zenon
<1>13. ~(in.mc /\ in.state \in {1, 2, 3, 8, 9, 10, 11}) =>
         rows[1].qpri = Pri(po, in.q) /\ rows[1].fpri = Pri(po /\ in.fam # "opal", in.f)
  <2> HIDE DEF po
  <2>1. ASSUME ~(in.mc /\ in.state \in {1, 2, 3, 8, 9, 10, 11})
        PROVE  set = po
    <3>1. set \in BOOLEAN /\ po \in BOOLEAN BY DEF prio_override_state, po
    <3>2. set <=> po BY <1>9, <2>1 DEF po
    <3> QED BY <3>1, <3>2
  <2> HIDE DEF set
  <2> QED BY <1>12, <2>1
<1> QED BY <1>7, <1>10, <1>11, <1>13, Zenon DEF AddressesShown, rows, table, k, none, po

-------------------------------------------------------------------------------
(* VLANs.                                                                  *)

\* A word of four times four bits, each two times two.
IsWord(w, a, b, c, d, e, f, g, h) ==
  /\ {a, b, c, d, e, f, g, h} \subseteq 0..3
  /\ w = Sum4(a + 4 * b, c + 4 * d, e + 4 * f, g + 4 * h)

LEMMA Word ==
  ASSUME NEW w, NEW a, NEW b, NEW c, NEW d, NEW e, NEW f, NEW g, NEW h,
         IsWord(w, a, b, c, d, e, f, g, h)
  PROVE  /\ bits(w, 0, 2) = a /\ bits(w, 2, 2) = b /\ bits(w, 4, 2) = c /\ bits(w, 6, 2) = d
         /\ bits(w, 8, 2) = e /\ bits(w, 10, 2) = f /\ bits(w, 12, 2) = g /\ bits(w, 14, 2) = h
<1>1. /\ a \in 0..3 /\ b \in 0..3 /\ c \in 0..3 /\ d \in 0..3 /\ e \in 0..3 /\ f \in 0..3
      /\ g \in 0..3 /\ h \in 0..3
  BY DEF IsWord
<1>2. w = a + 4 * b + 16 * (c + 4 * d) + 256 * (e + 4 * f) + 4096 * (g + 4 * h) BY Zenon DEF IsWord, Sum4
<1>3. PICK l \in 0..255 : l = a + 4 * b + 16 * (c + 4 * d) BY <1>1
<1>4. PICK u \in 0..255 : u = e + 4 * f + 16 * (g + 4 * h) BY <1>1
<1>5. w = l + 256 * u BY <1>1, <1>2, <1>3, <1>4
<1>6. bits(w, 0, 2) = a
  <2>1. PICK k \in Nat : k = b + 4 * c + 16 * d + 64 * u BY <1>1
  <2>2. w = a + 4 * k BY <1>1, <1>3, <1>5, <2>1
  <2> QED BY <1>1, <2>1, <2>2, SMTT(30) DEF bits
<1>7. bits(w, 2, 2) = b
  <2>1. PICK k \in Nat : k = c + 4 * d + 16 * u BY <1>1
  <2>2. w = a + 4 * b + 16 * k BY <1>1, <1>3, <1>5, <2>1
  <2>3. w \div 4 = b + 4 * k BY <1>1, <2>1, <2>2, SMTT(30)
  <2>4. (b + 4 * k) % 4 = b BY <1>1, <2>1, SMTT(30)
  <2> QED BY <2>3, <2>4, SMTT(30) DEF bits
<1>8. bits(w, 4, 2) = c
  <2>1. PICK k \in Nat : k = d + 4 * u BY <1>1
  <2>2. w = a + 4 * b + 16 * c + 64 * k BY <1>1, <1>3, <1>5, <2>1
  <2>3. w \div 16 = c + 4 * k BY <1>1, <2>1, <2>2, SMTT(30)
  <2>4. (c + 4 * k) % 4 = c BY <1>1, <2>1, SMTT(30)
  <2> QED BY <2>3, <2>4, SMTT(30) DEF bits
<1>9. bits(w, 6, 2) = d
  <2>1. PICK k \in Nat : k = u BY <1>1
  <2>2. w = a + 4 * b + 16 * c + 64 * d + 256 * k BY <1>1, <1>3, <1>5, <2>1
  <2>3. w \div 64 = d + 4 * k BY <1>1, <2>1, <2>2, SMTT(30)
  <2>4. (d + 4 * k) % 4 = d BY <1>1, <2>1, SMTT(30)
  <2> QED BY <2>3, <2>4, SMTT(30) DEF bits
<1>10. bits(w, 8, 2) = e
  <2>1. PICK k \in 0..255 : k = l BY <1>1
  <2>2. w = k + 256 * (e + 4 * f + 16 * g + 64 * h) BY <1>1, <1>4, <1>5, <2>1
  <2>3. w \div 256 = e + 4 * f + 16 * g + 64 * h BY <1>1, <2>1, <2>2, SMTT(30)
  <2>4. (e + 4 * f + 16 * g + 64 * h) % 4 = e BY <1>1, SMTT(30)
  <2> QED BY <2>3, <2>4, SMTT(30) DEF bits
<1>11. bits(w, 10, 2) = f
  <2>1. PICK k \in 0..1023 : k = l + 256 * e BY <1>1
  <2>2. w = k + 1024 * (f + 4 * g + 16 * h) BY <1>1, <1>4, <1>5, <2>1
  <2>3. w \div 1024 = f + 4 * g + 16 * h BY <1>1, <2>1, <2>2, SMTT(30)
  <2>4. (f + 4 * g + 16 * h) % 4 = f BY <1>1, SMTT(30)
  <2> QED BY <2>3, <2>4, SMTT(30) DEF bits
<1>12. bits(w, 12, 2) = g
  <2>1. PICK k \in 0..4095 : k = l + 256 * e + 1024 * f BY <1>1
  <2>2. w = k + 4096 * (g + 4 * h) BY <1>1, <1>4, <1>5, <2>1
  <2>3. w \div 4096 = g + 4 * h BY <1>1, <2>1, <2>2, SMTT(30)
  <2>4. (g + 4 * h) % 4 = g BY <1>1, SMTT(30)
  <2> QED BY <2>3, <2>4, SMTT(30) DEF bits
<1>13. bits(w, 14, 2) = h
  <2>1. PICK k \in 0..16383 : k = l + 256 * e + 1024 * f + 4096 * g BY <1>1
  <2>2. w = k + 16384 * h
    <3>1. 256 * u = 256 * e + 1024 * f + 4096 * g + 16384 * h BY <1>1, <1>4
    <3> QED BY <1>1, <1>5, <2>1, <3>1
  <2>3. w \div 16384 = h BY <1>1, <2>1, <2>2, SMTT(30)
  <2>4. h % 4 = h BY <1>1, SMTT(30)
  <2> QED BY <2>3, <2>4, SMTT(30) DEF bits
<1> QED BY <1>6, <1>7, <1>8, <1>9, <1>10, <1>11, <1>12, <1>13

\* Which bits of which word the decoders take for port i.
LEMMA Places ==
  ASSUME NEW data
  PROVE  /\ \A i \in PortNos : vtu_member(data, i, 4) = bits(data[i \div 4], (i * 4) % 16, 2)
         /\ \A i \in PortNos : stu_state(data, i, 4) = bits(data[i \div 4], (i * 4 + 2) % 16, 2)
         /\ \A i \in PortNos : vtu_member(data, i, 2) = bits(data[i \div 8], (i * 2) % 16, 2)
         /\ \A i \in PortNos : stu_state(data, i, 2) = bits(data[i \div 8], (i * 2) % 16, 2)
<1>1. 16 \div 4 = 4 /\ 16 \div 2 = 8 BY SMTT(10)
<1>2. \A i \in PortNos : i * 2 + 0 = i * 2 BY SMTT(10) DEF PortNos, MAX_PORTS
<1>3. 2 # 4 OBVIOUS
<1>4. \A i \in PortNos : /\ vtu_member(data, i, 4) = bits(data[i \div 4], (i * 4) % 16, 2)
                         /\ vtu_member(data, i, 2) = bits(data[i \div 8], (i * 2) % 16, 2)
  BY <1>1, Zenon DEF vtu_member
<1>5. \A i \in PortNos : stu_state(data, i, 4) = bits(data[i \div 4], (i * 4 + 2) % 16, 2)
  BY <1>1, Zenon DEF stu_state
<1>6. \A i \in PortNos : stu_state(data, i, 2) = bits(data[i \div 8], (i * 2) % 16, 2)
  BY <1>1, <1>2, <1>3, Zenon DEF stu_state
<1> QED BY <1>4, <1>5, <1>6

LEMMA Inside == ASSUME NEW f \in [PortNos -> 0..3] PROVE
  /\ \A i \in PortNos : At(f, i) = f[i] /\ f[i] \in 0..3
  /\ At(f, 11) = 0 /\ At(f, 12) = 0 /\ At(f, 13) = 0 /\ At(f, 14) = 0 /\ At(f, 15) = 0
  BY SMTT(10) DEF At, PortNos, MAX_PORTS

\* The older layout.
LEMMA OpalRow ==
  ASSUME NEW m \in [PortNos -> 0..3], NEW s \in [PortNos -> 0..3]
  PROVE  \A i \in PortNos : /\ vtu_member(OpalData(m, s), i, 4) = m[i]
                            /\ stu_state(OpalData(m, s), i, 4) = s[i]
<1> DEFINE D == OpalData(m, s)
<1>1. /\ D[0] = Sum4(At(m, 0) + 4 * At(s, 0), At(m, 1) + 4 * At(s, 1),
                     At(m, 2) + 4 * At(s, 2), At(m, 3) + 4 * At(s, 3))
      /\ D[1] = Sum4(At(m, 4) + 4 * At(s, 4), At(m, 5) + 4 * At(s, 5),
                     At(m, 6) + 4 * At(s, 6), At(m, 7) + 4 * At(s, 7))
      /\ D[2] = Sum4(At(m, 8) + 4 * At(s, 8), At(m, 9) + 4 * At(s, 9),
                     At(m, 10) + 4 * At(s, 10), At(m, 11) + 4 * At(s, 11))
  BY SMTT(30) DEF OpalData
<1> HIDE DEF D
<1>2. /\ IsWord(D[0], m[0], s[0], m[1], s[1], m[2], s[2], m[3], s[3])
      /\ IsWord(D[1], m[4], s[4], m[5], s[5], m[6], s[6], m[7], s[7])
      /\ IsWord(D[2], m[8], s[8], m[9], s[9], m[10], s[10], 0, 0)
  BY <1>1, Inside, PortNumbers DEF IsWord
<1>3. /\ bits(D[0], 0, 2) = m[0] /\ bits(D[0], 2, 2) = s[0] /\ bits(D[0], 4, 2) = m[1]
      /\ bits(D[0], 6, 2) = s[1] /\ bits(D[0], 8, 2) = m[2] /\ bits(D[0], 10, 2) = s[2]
      /\ bits(D[0], 12, 2) = m[3] /\ bits(D[0], 14, 2) = s[3]
  BY <1>2, Word, SMTT(20)
<1>4. /\ bits(D[1], 0, 2) = m[4] /\ bits(D[1], 2, 2) = s[4] /\ bits(D[1], 4, 2) = m[5]
      /\ bits(D[1], 6, 2) = s[5] /\ bits(D[1], 8, 2) = m[6] /\ bits(D[1], 10, 2) = s[6]
      /\ bits(D[1], 12, 2) = m[7] /\ bits(D[1], 14, 2) = s[7]
  BY <1>2, Word, SMTT(20)
<1>5. /\ bits(D[2], 0, 2) = m[8] /\ bits(D[2], 2, 2) = s[8] /\ bits(D[2], 4, 2) = m[9]
      /\ bits(D[2], 6, 2) = s[9] /\ bits(D[2], 8, 2) = m[10] /\ bits(D[2], 10, 2) = s[10]
  BY <1>2, Word, SMTT(20)
<1>6. \A i \in PortNos : /\ bits(D[i \div 4], (i * 4) % 16, 2) = m[i]
                         /\ bits(D[i \div 4], (i * 4 + 2) % 16, 2) = s[i]
  BY <1>3, <1>4, <1>5, PortNumbers, SMTT(30)
<1> QED BY <1>6, Places, Zenon DEF D

\* The newer one, of either table.
LEMMA PeridotRow ==
  ASSUME NEW f \in [PortNos -> 0..3]
  PROVE  \A i \in PortNos : vtu_member(PeridotData(f), i, 2) = f[i] /\ stu_state(PeridotData(f), i, 2) = f[i]
<1> DEFINE D == PeridotData(f)
<1>1. /\ D[0] = Sum4(At(f, 0) + 4 * At(f, 1), At(f, 2) + 4 * At(f, 3),
                     At(f, 4) + 4 * At(f, 5), At(f, 6) + 4 * At(f, 7))
      /\ D[1] = Sum4(At(f, 8) + 4 * At(f, 9), At(f, 10) + 4 * At(f, 11),
                     At(f, 12) + 4 * At(f, 13), At(f, 14) + 4 * At(f, 15))
  BY SMTT(30) DEF PeridotData
<1> HIDE DEF D
<1>2. /\ IsWord(D[0], f[0], f[1], f[2], f[3], f[4], f[5], f[6], f[7])
      /\ IsWord(D[1], f[8], f[9], f[10], 0, 0, 0, 0, 0)
  BY <1>1, Inside, PortNumbers DEF IsWord
<1>3. /\ bits(D[0], 0, 2) = f[0] /\ bits(D[0], 2, 2) = f[1] /\ bits(D[0], 4, 2) = f[2]
      /\ bits(D[0], 6, 2) = f[3] /\ bits(D[0], 8, 2) = f[4] /\ bits(D[0], 10, 2) = f[5]
      /\ bits(D[0], 12, 2) = f[6] /\ bits(D[0], 14, 2) = f[7]
  BY <1>2, Word, SMTT(20)
<1>4. bits(D[1], 0, 2) = f[8] /\ bits(D[1], 2, 2) = f[9] /\ bits(D[1], 4, 2) = f[10]
  BY <1>2, Word, SMTT(20)
<1>5. \A i \in PortNos : bits(D[i \div 8], (i * 2) % 16, 2) = f[i]
  BY <1>3, <1>4, PortNumbers, SMTT(30)
<1> QED BY <1>5, Places, Zenon DEF D

\* The rows of a VTU, and of an STU.
LEMMA VtuShown ==
  ASSUME IsVlan(in)
  PROVE  env_show_vtu(in.fam, in.n_ports, VtuTable)
           = [n \in 1..Len(in.rows) |-> Cells(in.n_ports, in.rows[n].m)]
<1> DEFINE N == Len(in.rows)
           E(n) == VtuEntry(in.fam, in.rows[n].m, in.rows[n].s)
           F == [n \in 1..N |-> E(n)]
           S == {E(n) : n \in 1..N} \cup {Unused}
<1>1. /\ N \in Nat /\ in.fam \in Families
      /\ \A n \in 1..N : in.rows[n].m \in [PortNos -> 0..3] /\ in.rows[n].s \in [PortNos -> 0..3]
  <2> DEFINE R == [m : [PortNos -> 0..3], s : [PortNos -> 0..3]]
  <2>1. in.fam \in Families /\ in.rows \in Seq(R) BY Zenon DEF IsVlan
  <2>2. N \in Nat /\ \A n \in 1..N : in.rows[n] \in R
    <3> HIDE DEF R
    <3> QED BY <2>1
  <2>3. \A r \in R : r.m \in [PortNos -> 0..3] /\ r.s \in [PortNos -> 0..3] OBVIOUS
  <2> QED BY <2>1, <2>2, <2>3, Zenon
<1>2. /\ VtuTable \in Seq(S) /\ Len(VtuTable) = N + 1 /\ VtuTable[N + 1] = Unused
      /\ \A n \in 1..N : VtuTable[n] = E(n)
  <2>1. VtuTable = F \o <<Unused>> BY Zenon DEF VtuTable
  <2> HIDE DEF E, N
  <2>2. F \in Seq(S) /\ Len(F) = N /\ \A n \in 1..N : F[n] = E(n) BY <1>1
  <2> HIDE DEF F
  <2>3. <<Unused>> \in Seq(S) /\ Len(<<Unused>>) = 1 /\ <<Unused>>[1] = Unused OBVIOUS
  <2> HIDE DEF S
  <2> QED BY <1>1, <2>1, <2>2, <2>3
<1>3. \A n \in 1..N : vtu_valid(E(n))
  <2>1. bit1(4096 + 7, 12) BY SMTT(10) DEF bit1, bits
  <2>2. \A n \in 1..N : E(n).vid = 4096 + 7 BY DEF VtuEntry
  <2> QED BY <2>1, <2>2 DEF vtu_valid
<1>4. ~vtu_valid(Unused)
  <2>1. ~bit1(0, 12) BY SMTT(10) DEF bit1, bits
  <2> QED BY <2>1 DEF vtu_valid, Unused
<1>5. ASSUME NEW n \in 1..N PROVE dev_vtu_parse(in.fam, VtuTable[n]).member = in.rows[n].m
  <2> DEFINE m == in.rows[n].m  s == in.rows[n].s  f == in.rows[n].m  k == E(n)
  <2>1. m \in [PortNos -> 0..3] /\ s \in [PortNos -> 0..3] BY <1>1
  <2>2. k.data = VtuData(in.fam, m, s) BY DEF VtuEntry
  <2>3. dev_vtu_parse(in.fam, k).member = [i \in PortNos |-> vtu_member(k.data, i, mbits(in.fam))]
    BY DEF dev_vtu_parse
  <2> HIDE DEF k, m, s
  <2>4. \A i \in PortNos : vtu_member(k.data, i, mbits(in.fam)) = f[i]
    <3>1. CASE in.fam = "opal"
      <4>1. k.data = OpalData(m, s) /\ mbits(in.fam) = 4 BY <2>2, <3>1 DEF VtuData, mbits
      <4>2. \A i \in PortNos : vtu_member(OpalData(m, s), i, 4) = m[i] BY <2>1, OpalRow
      <4> QED BY <4>1, <4>2, Zenon DEF m
    <3>2. CASE in.fam = "peridot"
      <4>1. k.data = PeridotData(m) /\ mbits(in.fam) = 2 BY <2>2, <3>2 DEF VtuData, mbits
      <4>2. \A i \in PortNos : vtu_member(PeridotData(m), i, 2) = m[i] BY <2>1, PeridotRow
      <4> QED BY <4>1, <4>2, Zenon DEF m
    <3> QED BY <1>1, <3>1, <3>2 DEF Families
  <2>5. f \in [PortNos -> 0..3] BY <1>1
  <2>6. dev_vtu_parse(in.fam, k).member = f
    <3> HIDE DEF f
    <3> QED BY <2>3, <2>4, <2>5
  <2> QED BY <1>2, <2>6, Zenon DEF k
<1>6. Len(VtuEntries(VtuTable)) = N
  <2> HIDE DEF N, S
  <2>1. N < Len(VtuTable) BY <1>1, <1>2
  <2>2. \A i \in 1..N : vtu_valid(VtuTable[i]) BY <1>2, <1>3, Zenon
  <2>3. ~vtu_valid(VtuTable[N + 1]) BY <1>2, <1>4, Zenon
  <2> QED BY <1>1, <1>2, <2>1, <2>2, <2>3, VtuEnd, Zenon
<1>7. env_show_vtu(in.fam, in.n_ports, VtuTable)
        = [n \in 1..N |-> Cells(in.n_ports, dev_vtu_parse(in.fam, VtuTable[n]).member)]
  BY <1>6, Zenon DEF env_show_vtu
<1> QED BY <1>5, <1>7, Zenon

LEMMA StuShown ==
  ASSUME IsVlan(in)
  PROVE  env_show_stu(in.fam, in.n_ports, StuTable)
           = [n \in 1..Len(in.rows) |-> Cells(in.n_ports, in.rows[n].s)]
<1> DEFINE N == Len(in.rows)
           E(n) == StuEntry(in.fam, in.rows[n].m, in.rows[n].s)
           F == [n \in 1..N |-> E(n)]
           S == {E(n) : n \in 1..N} \cup {Unused}
<1>1. /\ N \in Nat /\ in.fam \in Families
      /\ \A n \in 1..N : in.rows[n].m \in [PortNos -> 0..3] /\ in.rows[n].s \in [PortNos -> 0..3]
  <2> DEFINE R == [m : [PortNos -> 0..3], s : [PortNos -> 0..3]]
  <2>1. in.fam \in Families /\ in.rows \in Seq(R) BY Zenon DEF IsVlan
  <2>2. N \in Nat /\ \A n \in 1..N : in.rows[n] \in R
    <3> HIDE DEF R
    <3> QED BY <2>1
  <2>3. \A r \in R : r.m \in [PortNos -> 0..3] /\ r.s \in [PortNos -> 0..3] OBVIOUS
  <2> QED BY <2>1, <2>2, <2>3, Zenon
<1>2. /\ StuTable \in Seq(S) /\ Len(StuTable) = N + 1 /\ StuTable[N + 1] = Unused
      /\ \A n \in 1..N : StuTable[n] = E(n)
  <2>1. StuTable = F \o <<Unused>> BY Zenon DEF StuTable
  <2> HIDE DEF E, N
  <2>2. F \in Seq(S) /\ Len(F) = N /\ \A n \in 1..N : F[n] = E(n) BY <1>1
  <2> HIDE DEF F
  <2>3. <<Unused>> \in Seq(S) /\ Len(<<Unused>>) = 1 /\ <<Unused>>[1] = Unused OBVIOUS
  <2> HIDE DEF S
  <2> QED BY <1>1, <2>1, <2>2, <2>3
<1>3. \A n \in 1..N : stu_valid(E(n))
  <2>1. bit1(4096, 12) BY SMTT(10) DEF bit1, bits
  <2>2. \A n \in 1..N : E(n).vid = 4096 BY DEF StuEntry
  <2> QED BY <2>1, <2>2 DEF stu_valid
<1>4. ~stu_valid(Unused)
  <2>1. ~bit1(0, 12) BY SMTT(10) DEF bit1, bits
  <2> QED BY <2>1 DEF stu_valid, Unused
<1>5. ASSUME NEW n \in 1..N PROVE dev_stu_parse(in.fam, StuTable[n]).state = in.rows[n].s
  <2> DEFINE m == in.rows[n].m  s == in.rows[n].s  f == in.rows[n].s  k == E(n)
  <2>1. m \in [PortNos -> 0..3] /\ s \in [PortNos -> 0..3] BY <1>1
  <2>2. k.data = StuData(in.fam, m, s) BY DEF StuEntry
  <2>3. dev_stu_parse(in.fam, k).state = [i \in PortNos |-> stu_state(k.data, i, mbits(in.fam))]
    BY DEF dev_stu_parse
  <2> HIDE DEF k, m, s
  <2>4. \A i \in PortNos : stu_state(k.data, i, mbits(in.fam)) = f[i]
    <3>1. CASE in.fam = "opal"
      <4>1. k.data = OpalData(m, s) /\ mbits(in.fam) = 4 BY <2>2, <3>1 DEF StuData, mbits
      <4>2. \A i \in PortNos : stu_state(OpalData(m, s), i, 4) = s[i] BY <2>1, OpalRow
      <4> QED BY <4>1, <4>2, Zenon DEF s
    <3>2. CASE in.fam = "peridot"
      <4>1. k.data = PeridotData(s) /\ mbits(in.fam) = 2 BY <2>2, <3>2 DEF StuData, mbits
      <4>2. \A i \in PortNos : stu_state(PeridotData(s), i, 2) = s[i] BY <2>1, PeridotRow
      <4> QED BY <4>1, <4>2, Zenon DEF s
    <3> QED BY <1>1, <3>1, <3>2 DEF Families
  <2>5. f \in [PortNos -> 0..3] BY <1>1
  <2>6. dev_stu_parse(in.fam, k).state = f
    <3> HIDE DEF f
    <3> QED BY <2>3, <2>4, <2>5
  <2> QED BY <1>2, <2>6, Zenon DEF k
<1>6. Len(StuEntries(StuTable)) = N
  <2> HIDE DEF N, S
  <2>1. N < Len(StuTable) BY <1>1, <1>2
  <2>2. \A i \in 1..N : stu_valid(StuTable[i]) BY <1>2, <1>3, Zenon
  <2>3. ~stu_valid(StuTable[N + 1]) BY <1>2, <1>4, Zenon
  <2> QED BY <1>1, <1>2, <2>1, <2>2, <2>3, StuEnd, Zenon
<1>7. env_show_stu(in.fam, in.n_ports, StuTable)
        = [n \in 1..N |-> Cells(in.n_ports, dev_stu_parse(in.fam, StuTable[n]).state)]
  BY <1>6, Zenon DEF env_show_stu
<1> QED BY <1>5, <1>7, Zenon

\* What is not blank is what is held.
LEMMA CellsAre ==
  ASSUME IsVlan(in), NEW f \in [PortNos -> 0..3], \A i \in PortNos : i >= in.n_ports => f[i] = 0
  PROVE  Cells(in.n_ports, f) = [i \in PortNos |-> IF i < in.n_ports THEN f[i] ELSE NoCell]
<1>1. in.n_ports \in 0..MAX_PORTS /\ MAX_PORTS = 11 BY Zenon DEF IsVlan, MAX_PORTS
<1>2. PortNos \subseteq Int BY PortNumbers
<1> QED BY <1>1, <1>2 DEF Cells

LEMMA VlanShown == ASSUME in.kind = "vlan", IsVlan(in) PROVE VlansShown
<1> DEFINE Shown(f) == [i \in PortNos |-> IF i < in.n_ports THEN f[i] ELSE NoCell]
<1>1. \A n \in 1..Len(in.rows) : in.rows[n].m \in [PortNos -> 0..3] /\ in.rows[n].s \in [PortNos -> 0..3]
  <2> DEFINE R == [m : [PortNos -> 0..3], s : [PortNos -> 0..3]]
  <2>1. in.rows \in Seq(R) BY Zenon DEF IsVlan
  <2>2. \A n \in 1..Len(in.rows) : in.rows[n] \in R
    <3> HIDE DEF R
    <3> QED BY <2>1
  <2>3. \A r \in R : r.m \in [PortNos -> 0..3] /\ r.s \in [PortNos -> 0..3] OBVIOUS
  <2> QED BY <2>2, <2>3, Zenon
<1>2. \A n \in 1..Len(in.rows), i \in PortNos :
        i >= in.n_ports => in.rows[n].m[i] = 0 /\ in.rows[n].s[i] = 0
  BY Zenon DEF IsVlan
<1>3. \A n \in 1..Len(in.rows) : /\ Cells(in.n_ports, in.rows[n].m) = Shown(in.rows[n].m)
                                 /\ Cells(in.n_ports, in.rows[n].s) = Shown(in.rows[n].s)
  BY <1>1, <1>2, CellsAre, Zenon
<1>4. env_show_vtu(in.fam, in.n_ports, VtuTable) = [n \in 1..Len(in.rows) |-> Shown(in.rows[n].m)]
  BY <1>3, VtuShown, Zenon
<1>5. env_show_stu(in.fam, in.n_ports, StuTable) = [n \in 1..Len(in.rows) |-> Shown(in.rows[n].s)]
  BY <1>3, StuShown, Zenon
<1> QED BY <1>4, <1>5, Zenon DEF VlansShown

-------------------------------------------------------------------------------
(* The PVT.                                                                *)

\* The same of the ports of a device.
Below(d, S, h) == Vector(d, S) + 2048 * h

LEMMA VectorBits ==
  ASSUME NEW d, NEW S, NEW h \in Nat
  PROVE  /\ Vector(d, S) \in Nat
         /\ \A i \in PortNos : bit1(Below(d, S, h), i) <=> End(d, i) \in S
         /\ Vector(d, S) # 0 <=> \E i \in PortNos : End(d, i) \in S
<1> DEFINE P == {n \in PortNos : End(d, n) \in S}
<1>1. Vector(d, S) = PortVec(P) /\ Below(d, S, h) = Above(P, h) BY DEF Vector, Below, Above
<1>2. \A i \in PortNos : i \in P <=> End(d, i) \in S OBVIOUS
<1>3. P \subseteq PortNos OBVIOUS
<1> HIDE DEF P
<1>4. /\ PortVec(P) \in Nat
      /\ \A i \in PortNos : bit1(Above(P, h), i) <=> i \in P
      /\ PortVec(P) # 0 <=> \E i \in PortNos : i \in P
  <2>1. h \in Nat OBVIOUS
  <2> QED BY <1>3, <2>1, PortVecBits, Zenon
<1> QED BY <1>1, <1>2, <1>4, Zenon

LEMMA VectorBit ==
  ASSUME NEW d, NEW S
  PROVE  \A i \in PortNos : bit1(Vector(d, S), i) <=> End(d, i) \in S
<1>1. Vector(d, S) \in Nat /\ \A i \in PortNos : bit1(Below(d, S, 0), i) <=> End(d, i) \in S
  <2>1. 0 \in Nat OBVIOUS
  <2> QED BY <2>1, VectorBits, Zenon
<1>2. Below(d, S, 0) = Vector(d, S) BY <1>1 DEF Below
<1> QED BY <1>1, <1>2, Zenon

-------------------------------------------------------------------------------
\* The ports there are, and their devices.
LEMMA EndsAre ==
  ASSUME IsPvt(in)
  PROVE  \A e \in in.ends : e.dev \in DOMAIN in.idx /\ e.port \in PortNos /\ e = End(e.dev, e.port)
<1>1. in.ends \subseteq {End(d, p) : d \in DOMAIN in.idx, p \in PortNos} BY SMTT(10) DEF IsPvt
<1> SUFFICES ASSUME NEW e \in in.ends
             PROVE  e.dev \in DOMAIN in.idx /\ e.port \in PortNos /\ e = End(e.dev, e.port)
  OBVIOUS
<1>2. PICK d \in DOMAIN in.idx, p \in PortNos : e = End(d, p) BY <1>1
<1>3. e.dev = d /\ e.port = p BY <1>2 DEF End
<1> QED BY <1>2, <1>3

LEMMA IndexIs == ASSUME IsPvt(in), NEW d \in DOMAIN in.idx PROVE in.idx[d] \in 0..30
<1> DEFINE f == in.idx
<1>1. f \in [DOMAIN f -> 0..30] BY SMTT(10) DEF IsPvt
<1> HIDE DEF f
<1>2. d \in DOMAIN f BY DEF f
<1>3. f[d] \in 0..30 BY <1>1, <1>2
<1> QED BY <1>3 DEF f

\* The place of a port in a PVT, and that of a LAG.
LEMMA PlaceOf ==
  ASSUME NEW i \in 0..31, NEW p \in 0..15
  PROVE  /\ i * 16 + p \in 0..511 /\ (i * 16 + p) \div 16 = i /\ (i * 16 + p) % 16 = p
  BY SMTT(30)

LEMMA PlaceIs ==
  ASSUME NEW k \in 0..511
  PROVE  k \div 16 \in 0..31 /\ k % 16 \in 0..15 /\ k = (k \div 16) * 16 + (k % 16)
  BY SMTT(30)

\* Only one port has a place.
LEMMA OnePlace ==
  ASSUME IsPvt(in), NEW e \in in.ends, NEW k, k \div 16 = in.idx[e.dev], k % 16 = e.port
  PROVE  PvtGets(k) = SendsTo(e)
<1> DEFINE A == {x \in in.ends : in.idx[x.dev] = k \div 16 /\ x.port = k % 16}
<1>1. k \div 16 # 31
  <2>1. in.idx[e.dev] \in 0..30 BY EndsAre, IndexIs, Zenon
  <2> QED BY <2>1
<1>2. A = {e}
  <2>1. ASSUME NEW x \in in.ends, in.idx[x.dev] = in.idx[e.dev], x.port = e.port PROVE x = e
    <3>1. /\ x.dev \in DOMAIN in.idx /\ x = End(x.dev, x.port)
          /\ e.dev \in DOMAIN in.idx /\ e = End(e.dev, e.port)
      BY EndsAre, Zenon
    <3>2. \A d, f \in DOMAIN in.idx : in.idx[d] = in.idx[f] => d = f BY SMTT(10) DEF IsPvt
    <3>3. x.dev = e.dev BY <2>1, <3>1, <3>2, Zenon
    <3> QED BY <2>1, <3>1, <3>3, Zenon
  <2> QED BY <2>1, Zenon
<1>3. PvtGets(k) = UNION {SendsTo(x) : x \in A} BY <1>1, Zenon DEF PvtGets
<1> HIDE DEF A
<1> QED BY <1>2, <1>3, Zenon

LEMMA PvtOfPort ==
  ASSUME IsPvt(in), NEW d, NEW e \in in.ends
  PROVE  /\ in.idx[e.dev] * 16 + e.port \in 0..511
         /\ Pvt(d)[in.idx[e.dev] * 16 + e.port] = Vector(d, SendsTo(e))
         /\ (in.idx[e.dev] * 16 + e.port) \div 16 = in.idx[e.dev]
         /\ (in.idx[e.dev] * 16 + e.port) % 16 = e.port
         /\ PvtGets(in.idx[e.dev] * 16 + e.port) = SendsTo(e)
<1> DEFINE i == in.idx[e.dev]  p == e.port  k == i * 16 + p
<1>1. i \in 0..31 /\ p \in 0..15
  <2>1. i \in 0..30 /\ p \in PortNos BY EndsAre, IndexIs, Zenon
  <2> QED BY <2>1, PortNumbers
<1>2. k \in 0..511 /\ k \div 16 = i /\ k % 16 = p
  <2> HIDE DEF i, p
  <2> QED BY <1>1, PlaceOf, Zenon
<1> HIDE DEF k
<1>3. PvtGets(k) = SendsTo(e) BY <1>2, OnePlace, Zenon
<1>4. Pvt(d)[k] = Vector(d, PvtGets(k)) BY <1>2, Zenon DEF Pvt
<1> QED BY <1>2, <1>3, <1>4, Zenon DEF k

LagPlace(l) == 31 * 16 + l

LEMMA PvtOfLag ==
  ASSUME NEW d, NEW l \in 0..15
  PROVE  /\ LagPlace(l) \in 0..511 /\ Pvt(d)[LagPlace(l)] = Vector(d, in.lags[l])
         /\ LagPlace(l) \div 16 = 31 /\ LagPlace(l) % 16 = l /\ PvtGets(LagPlace(l)) = in.lags[l]
<1> DEFINE k == LagPlace(l)
<1>1. k \in 0..511 /\ k \div 16 = 31 /\ k % 16 = l BY SMTT(10) DEF LagPlace
<1> HIDE DEF k
<1>2. PvtGets(k) = in.lags[l] BY <1>1 DEF PvtGets
<1>3. Pvt(d)[k] = Vector(d, PvtGets(k)) BY <1>1, Zenon DEF Pvt
<1> QED BY <1>1, <1>2, <1>3, Zenon DEF k

-------------------------------------------------------------------------------
\* What the devices hold: their indices, their PVTs and the maps of their ports.
LEMMA DevsAre ==
  ASSUME NEW d \in DOMAIN in.idx
  PROVE  /\ Devs[d].index = in.idx[d] /\ Devs[d].pvt = Pvt(d)
         /\ DOMAIN Devs[d].ports = {p \in PortNos : End(d, p) \in in.ends}
         /\ \A p \in PortNos : End(d, p) \in in.ends => Devs[d].ports[p] = PortRegs(End(d, p))
<1> DEFINE P == [p \in {p \in PortNos : End(d, p) \in in.ends} |-> PortRegs(End(d, p))]
<1>1. Devs[d] = [index |-> in.idx[d], pvt |-> Pvt(d), ports |-> P] BY Zenon DEF Devs
<1>2. /\ DOMAIN P = {p \in PortNos : End(d, p) \in in.ends}
      /\ \A p \in PortNos : End(d, p) \in in.ends => P[p] = PortRegs(End(d, p))
  BY Zenon
<1> HIDE DEF P
<1>3. Devs[d].index = in.idx[d] /\ Devs[d].pvt = Pvt(d) /\ Devs[d].ports = P BY <1>1
<1> QED BY <1>2, <1>3, Zenon

\* The map of a port has the ports of its device that it may send to.
LEMMA MapOf ==
  ASSUME IsPvt(in), NEW e \in in.ends
  PROVE  /\ Devs[e.dev].ports[e.port] = PortRegs(e)
         /\ \A i \in PortNos : bit1(PortRegs(e)[6], i) <=> End(e.dev, i) \in SendsTo(e)
<1>1. e.dev \in DOMAIN in.idx /\ e.port \in PortNos /\ e = End(e.dev, e.port) BY EndsAre, Zenon
<1>2. Devs[e.dev].ports[e.port] = PortRegs(e)
  <2> DEFINE d == e.dev  p == e.port
  <2>1. d \in DOMAIN in.idx /\ p \in PortNos /\ End(d, p) \in in.ends /\ e = End(d, p) BY <1>1, Zenon
  <2> HIDE DEF d, p
  <2>2. Devs[d].ports[p] = PortRegs(End(d, p)) BY <2>1, DevsAre, Zenon
  <2> QED BY <2>1, <2>2, Zenon DEF d, p
<1>3. PortRegs(e)[6] = 4096 * in.fid + Vector(e.dev, SendsTo(e)) BY SMTT(10) DEF PortRegs
<1>4. in.fid \in 0..15 BY SMTT(10) DEF IsPvt
<1>5. 0 \in Nat /\ 2 * in.fid \in Nat BY <1>4
<1>6. Vector(e.dev, SendsTo(e)) \in Nat BY <1>5, VectorBits, Zenon
<1>7. PortRegs(e)[6] = Below(e.dev, SendsTo(e), 2 * in.fid) BY <1>3, <1>4, <1>6 DEF Below
<1>8. \A i \in PortNos : bit1(Below(e.dev, SendsTo(e), 2 * in.fid), i) <=> End(e.dev, i) \in SendsTo(e)
  BY <1>5, VectorBits, Zenon
<1> QED BY <1>2, <1>7, <1>8, Zenon

\* The LAG of a port is the one it is in.
LEMMA LagOf == ASSUME IsPvt(in), NEW e \in in.ends PROVE opal_port_lag(PortRegs(e)) = in.of[e]
<1> DEFINE l == in.of[e]  v == PortRegs(e)[5]
<1>1. l \in -1..15
  <2>1. in.of \in [in.ends -> -1..15] BY SMTT(10) DEF IsPvt
  <2> QED BY <2>1
<1>2. v = IF l < 0 THEN 0 ELSE 16384 + 256 * l BY SMTT(10) DEF PortRegs
<1> HIDE DEF l, v
<1>3. Is56(v, 0, 0, l, 0, 0, 0) BY <1>1, <1>2, SMTT(10) DEF Is56
<1>4. (l < 0 => bits(v, 14, 1) = 0) /\ (l >= 0 => bits(v, 14, 1) = 1 /\ bits(v, 8, 4) = l)
  BY <1>3, Registers56, SMTT(10)
<1>5. CASE l < 0
  <2>1. l = -1 /\ ~bit1(v, 14) BY <1>1, <1>4, <1>5 DEF bit1
  <2> QED BY <2>1 DEF opal_port_lag, l, v
<1>6. CASE l >= 0
  <2>1. bit1(v, 14) /\ bits(v, 8, 4) = l BY <1>4, <1>6 DEF bit1
  <2> QED BY <2>1 DEF opal_port_lag, l, v
<1> QED BY <1>1, <1>5, <1>6

\* A cell of the matrix.
LEMMA CellShown ==
  ASSUME IsPvt(in), NEW row \in in.ends, NEW col \in in.ends
  PROVE  PvtCell(Devs, row, col) =
           LET up == <<row, col>> \in in.rel
               left == <<col, row>> \in in.rel
           IN  IF up /\ left THEN "x" ELSE IF up THEN "^" ELSE IF left THEN "<" ELSE "."
<1> DEFINE Regs6(x) == Devs[x.dev].ports[x.port][6]
           Q(d, x) == Devs[d].pvt[Devs[x.dev].index * 16 + x.port]
           s == IF row.dev = col.dev THEN Regs6(row) ELSE Q(col.dev, row)
           t == IF row.dev = col.dev THEN Regs6(col) ELSE Q(row.dev, col)
<1>1. /\ row.dev \in DOMAIN in.idx /\ row.port \in PortNos /\ row = End(row.dev, row.port)
      /\ col.dev \in DOMAIN in.idx /\ col.port \in PortNos /\ col = End(col.dev, col.port)
  BY EndsAre, Zenon
<1>2. \A a, b \in in.ends : b \in SendsTo(a) <=> <<a, b>> \in in.rel BY Zenon DEF SendsTo
<1>3. ASSUME NEW a \in in.ends, NEW b \in in.ends,
             a.dev \in DOMAIN in.idx, b.dev \in DOMAIN in.idx, b.port \in PortNos, b = End(b.dev, b.port)
      PROVE  bit1(IF a.dev = b.dev THEN Regs6(a) ELSE Q(b.dev, a), b.port) <=> <<a, b>> \in in.rel
  <2>1. CASE a.dev = b.dev
    <3>1. Regs6(a) = PortRegs(a)[6] BY MapOf, Zenon
    <3>2. bit1(PortRegs(a)[6], b.port) <=> End(a.dev, b.port) \in SendsTo(a) BY <1>3, MapOf, Zenon
    <3> HIDE DEF Regs6, Q
    <3>3. End(a.dev, b.port) = b BY <1>3, <2>1, Zenon
    <3> QED BY <1>2, <2>1, <3>1, <3>2, <3>3, Zenon
  <2>2. CASE a.dev # b.dev
    <3>1. Q(b.dev, a) = Pvt(b.dev)[in.idx[a.dev] * 16 + a.port] BY <1>3, DevsAre, Zenon
    <3>2. Pvt(b.dev)[in.idx[a.dev] * 16 + a.port] = Vector(b.dev, SendsTo(a))
      <4>1. ASSUME NEW d PROVE Pvt(d)[in.idx[a.dev] * 16 + a.port] = Vector(d, SendsTo(a))
        BY PvtOfPort, SMTT(10)
      <4> QED BY <4>1, Zenon
    <3>3. bit1(Vector(b.dev, SendsTo(a)), b.port) <=> End(b.dev, b.port) \in SendsTo(a)
      BY <1>3, VectorBit, Zenon
    <3> HIDE DEF Regs6, Q
    <3> QED BY <1>2, <1>3, <2>2, <3>1, <3>2, <3>3, Zenon
  <2> QED BY <2>1, <2>2, Zenon
<1>4. PvtCell(Devs, row, col) = pvt_print_cell(s, t, row.port, col.port) BY Zenon DEF PvtCell
<1>5. bit1(s, col.port) <=> <<row, col>> \in in.rel BY <1>1, <1>3, Zenon
<1>6. bit1(t, row.port) <=> <<col, row>> \in in.rel
  <2>1. bit1(IF col.dev = row.dev THEN Regs6(col) ELSE Q(row.dev, col), row.port) <=> <<col, row>> \in in.rel
    BY <1>1, <1>3, Zenon
  <2> HIDE DEF Regs6, Q
  <2> QED BY <2>1, Zenon
<1> HIDE DEF s, t
<1> QED BY <1>4, <1>5, <1>6, Zenon DEF pvt_print_cell

\* A cell in the column of a LAG.
LEMMA LagCellShown ==
  ASSUME IsPvt(in), NEW row \in in.ends, NEW l \in 0..15
  PROVE  PvtLagCell(Devs, row, l) = IF row \in in.lags[l] THEN "<" ELSE "."
<1> DEFINE v == Devs[row.dev].pvt[LagPlace(l)]
<1>1. row.dev \in DOMAIN in.idx /\ row.port \in PortNos /\ row = End(row.dev, row.port)
  BY EndsAre, Zenon
<1>2. Devs[row.dev].pvt = Pvt(row.dev) BY <1>1, DevsAre, Zenon
<1>3. v = Vector(row.dev, in.lags[l])
  <2>1. Pvt(row.dev)[LagPlace(l)] = Vector(row.dev, in.lags[l]) BY PvtOfLag, SMTT(10)
  <2> QED BY <1>2, <2>1
<1>4. PvtLagCell(Devs, row, l) = pvt_print_cell(0, v, row.port, 0) BY SMTT(10) DEF PvtLagCell, LagPlace
<1> HIDE DEF v
<1>5. bit1(v, row.port) <=> row \in in.lags[l]
  <2> DEFINE d == row.dev  p == row.port  S == in.lags[l]
  <2>1. p \in PortNos /\ row = End(d, p) /\ v = Vector(d, S) BY <1>1, <1>3
  <2> HIDE DEF d, p, S
  <2>2. bit1(v, p) <=> row \in S BY <2>1, VectorBit, Zenon
  <2> QED BY <2>2 DEF p, S
<1>6. ~bit1(0, 0) BY SMTT(10) DEF bit1, bits
<1> QED BY <1>4, <1>5, <1>6, Zenon DEF pvt_print_cell

-------------------------------------------------------------------------------
\* The view of one device.
LEMMA DeviceShown ==
  ASSUME IsPvt(in), NEW d \in DOMAIN in.idx
  PROVE  LET To(S) == {p \in PortNos : End(d, p) \in S}
             Row(i, p, to) == [dev |-> i, port |-> p, to |-> to]
         IN  dev_show_pvt(Devs[d]) =
               {Row(in.idx[e.dev], e.port, To(SendsTo(e))) :
                  e \in {e \in in.ends : e.dev = d \/ To(SendsTo(e)) # {}}}
               \cup {Row(31, l, To(in.lags[l])) : l \in {l \in 0..15 : To(in.lags[l]) # {}}}
<1> DEFINE To(S) == {p \in PortNos : End(d, p) \in S}
           Row(i, p, to) == [dev |-> i, port |-> p, to |-> to]
           ps == {p \in PortNos : End(d, p) \in in.ends}
           ks == {k \in 0..511 : Vector(d, PvtGets(k)) # 0}
           es == {e \in in.ends : e.dev = d \/ To(SendsTo(e)) # {}}
           ls == {l \in 0..15 : To(in.lags[l]) # {}}
           A == {Row(in.idx[d], p, To(SendsTo(End(d, p)))) : p \in ps}
           K == {Row(k \div 16, k % 16, To(PvtGets(k))) : k \in ks}
           E == {Row(in.idx[e.dev], e.port, To(SendsTo(e))) : e \in es}
           L == {Row(31, l, To(in.lags[l])) : l \in ls}
<1>1. ASSUME NEW p \in ps
      PROVE  PvtRow(Devs[d].index, p, Devs[d].ports[p][6]) = Row(in.idx[d], p, To(SendsTo(End(d, p))))
  <2> DEFINE e == End(d, p)
  <2>1. e \in in.ends /\ e.dev = d /\ e.port = p BY DEF End
  <2> HIDE DEF e
  <2>2. Devs[d].index = in.idx[d] /\ Devs[d].ports[p] = PortRegs(e) BY <2>1, DevsAre, MapOf, Zenon
  <2>3. \A i \in PortNos : bit1(PortRegs(e)[6], i) <=> End(d, i) \in SendsTo(e) BY <2>1, MapOf, Zenon
  <2>4. {i \in PortNos : bit1(PortRegs(e)[6], i)} = To(SendsTo(e)) BY <2>3, Zenon
  <2> HIDE DEF To
  <2> QED BY <2>2, <2>4, Zenon DEF PvtRow, e
<1>2. ASSUME NEW k \in 0..511
      PROVE  /\ Devs[d].pvt[k] = Vector(d, PvtGets(k))
             /\ PvtRow(k \div 16, k % 16, Devs[d].pvt[k]) = Row(k \div 16, k % 16, To(PvtGets(k)))
             /\ Vector(d, PvtGets(k)) # 0 <=> To(PvtGets(k)) # {}
  <2>1. Devs[d].pvt[k] = Vector(d, PvtGets(k))
    <3>1. Devs[d].pvt = Pvt(d) BY DevsAre, Zenon
    <3> QED BY <3>1, Zenon DEF Pvt
  <2>2. {i \in PortNos : bit1(Vector(d, PvtGets(k)), i)} = To(PvtGets(k)) BY VectorBit, Zenon
  <2>3. Vector(d, PvtGets(k)) # 0 <=> To(PvtGets(k)) # {}
    <3>1. 0 \in Nat OBVIOUS
    <3>2. Vector(d, PvtGets(k)) # 0 <=> \E i \in PortNos : End(d, i) \in PvtGets(k)
      BY <3>1, VectorBits, Zenon
    <3> QED BY <3>2, Zenon
  <2> HIDE DEF To
  <2> QED BY <2>1, <2>2, <2>3, Zenon DEF PvtRow
<1>3. DOMAIN Devs[d].ports = ps /\ DOMAIN Devs[d].pvt = 0..511
  <2>1. DOMAIN Devs[d].ports = ps /\ Devs[d].pvt = Pvt(d) BY DevsAre, Zenon
  <2> QED BY <2>1, Zenon DEF Pvt
<1>4. dev_show_pvt(Devs[d]) = A \cup K
  <2> HIDE DEF Row, To, ps
  <2>1. {k \in DOMAIN Devs[d].pvt : Devs[d].pvt[k] # 0} = ks BY <1>2, <1>3, Zenon
  <2> HIDE DEF ks
  <2>2. {PvtRow(Devs[d].index, p, Devs[d].ports[p][6]) : p \in DOMAIN Devs[d].ports} = A
    BY <1>1, <1>3, Zenon
  <2>3. {PvtRow(k \div 16, k % 16, Devs[d].pvt[k]) : k \in ks} = K
    <3>1. \A k \in ks : k \in 0..511 BY DEF ks
    <3> QED BY <1>2, <3>1, Zenon
  <2> HIDE DEF A, K
  <2> QED BY <2>1, <2>2, <2>3, Zenon DEF dev_show_pvt
<1>5. \A p \in ps : Row(in.idx[d], p, To(SendsTo(End(d, p)))) \in E
  <2> SUFFICES ASSUME NEW p \in ps PROVE Row(in.idx[d], p, To(SendsTo(End(d, p)))) \in E
    BY Zenon
  <2> DEFINE e == End(d, p)
  <2>1. e \in in.ends /\ e.dev = d /\ e.port = p BY DEF End
  <2> HIDE DEF e, Row, To
  <2>2. e \in es BY <2>1, Zenon
  <2>3. Row(in.idx[e.dev], e.port, To(SendsTo(e))) \in E BY <2>2, Zenon
  <2> QED BY <2>1, <2>3, Zenon DEF e
<1>6. \A k \in ks : Row(k \div 16, k % 16, To(PvtGets(k))) \in E \cup L
  <2> SUFFICES ASSUME NEW k \in ks PROVE Row(k \div 16, k % 16, To(PvtGets(k))) \in E \cup L
    BY Zenon
  <2>1. To(PvtGets(k)) # {} BY <1>2, Zenon
  <2>2. k \div 16 \in 0..31 /\ k % 16 \in 0..15 BY PlaceIs, SMTT(10)
  <2>3. CASE k \div 16 = 31
    <3>1. PvtGets(k) = in.lags[k % 16] BY <2>3 DEF PvtGets
    <3> HIDE DEF Row, To
    <3>2. k % 16 \in ls BY <2>1, <2>2, <3>1, Zenon
    <3>3. Row(31, k % 16, To(in.lags[k % 16])) \in L BY <3>2, Zenon
    <3> QED BY <2>3, <3>1, <3>3, Zenon
  <2>4. CASE k \div 16 # 31
    <3>1. \E e \in in.ends : in.idx[e.dev] = k \div 16 /\ e.port = k % 16
      <4>1. PvtGets(k) =
              UNION {SendsTo(e) : e \in {e \in in.ends : in.idx[e.dev] = k \div 16 /\ e.port = k % 16}}
        BY <2>4, Zenon DEF PvtGets
      <4> QED BY <2>1, <4>1, Zenon
    <3>2. PICK e \in in.ends : in.idx[e.dev] = k \div 16 /\ e.port = k % 16 BY <3>1, Zenon
    <3>3. PvtGets(k) = SendsTo(e) BY <3>2, OnePlace, Zenon
    <3> HIDE DEF Row, To
    <3>4. e \in es BY <2>1, <3>3, Zenon
    <3>5. Row(in.idx[e.dev], e.port, To(SendsTo(e))) \in E BY <3>4, Zenon
    <3> QED BY <3>2, <3>3, <3>5, Zenon
  <2> QED BY <2>3, <2>4, Zenon
<1>7. \A e \in es : Row(in.idx[e.dev], e.port, To(SendsTo(e))) \in A \cup K
  <2> SUFFICES ASSUME NEW e \in es PROVE Row(in.idx[e.dev], e.port, To(SendsTo(e))) \in A \cup K
    BY Zenon
  <2>1. e \in in.ends /\ e.port \in PortNos /\ e = End(e.dev, e.port) BY EndsAre, Zenon
  <2>2. CASE e.dev = d
    <3> HIDE DEF Row, To
    <3>1. e.port \in ps /\ End(d, e.port) = e BY <2>1, <2>2, Zenon
    <3>2. Row(in.idx[d], e.port, To(SendsTo(End(d, e.port)))) \in A BY <3>1, Zenon
    <3> QED BY <2>2, <3>1, <3>2, Zenon
  <2>3. CASE To(SendsTo(e)) # {}
    <3> DEFINE k == in.idx[e.dev] * 16 + e.port
    <3>1. k \in 0..511 /\ k \div 16 = in.idx[e.dev] /\ k % 16 = e.port /\ PvtGets(k) = SendsTo(e)
      BY <2>1, PvtOfPort, Zenon
    <3> HIDE DEF k
    <3>2. k \in ks
      <4> HIDE DEF Row, To
      <4>1. Vector(d, PvtGets(k)) # 0 BY <1>2, <2>3, <3>1
      <4> QED BY <3>1, <4>1
    <3> HIDE DEF Row, To, ks
    <3>3. Row(k \div 16, k % 16, To(PvtGets(k))) \in K BY <3>2, Zenon
    <3> QED BY <3>1, <3>3, Zenon
  <2> QED BY <2>2, <2>3, Zenon
<1>8. \A l \in ls : Row(31, l, To(in.lags[l])) \in K
  <2> SUFFICES ASSUME NEW l \in ls PROVE Row(31, l, To(in.lags[l])) \in K BY Zenon
  <2> DEFINE k == LagPlace(l)
  <2>1. k \in 0..511 /\ k \div 16 = 31 /\ k % 16 = l /\ PvtGets(k) = in.lags[l] BY PvtOfLag, Zenon
  <2> HIDE DEF k
  <2>2. k \in ks
    <3>1. To(in.lags[l]) # {} OBVIOUS
    <3> HIDE DEF Row, To
    <3>2. Vector(d, PvtGets(k)) # 0 BY <1>2, <2>1, <3>1
    <3> QED BY <2>1, <3>2
  <2> HIDE DEF Row, To, ks
  <2>3. Row(k \div 16, k % 16, To(PvtGets(k))) \in K BY <2>2, Zenon
  <2> QED BY <2>1, <2>3, Zenon
<1>9. A \cup K = E \cup L
  <2> HIDE DEF Row, To, ps, ks, es, ls
  <2>1. A \subseteq E BY <1>5, Zenon
  <2>2. K \subseteq E \cup L BY <1>6, Zenon
  <2>3. E \subseteq A \cup K BY <1>7, Zenon
  <2>4. L \subseteq K BY <1>8, Zenon
  <2> HIDE DEF A, K, E, L
  <2> QED BY <2>1, <2>2, <2>3, <2>4, Zenon
<1> QED BY <1>4, <1>9, Zenon

LEMMA PvtsShown == ASSUME in.kind = "pvt", IsPvt(in) PROVE PvtShown
<1>1. lags_used({PortRegs(e) : e \in in.ends}) = {in.of[e] : e \in in.ends} \ {-1}
  <2>1. {opal_port_lag(r) : r \in {PortRegs(e) : e \in in.ends}} = {in.of[e] : e \in in.ends}
    BY LagOf, Zenon
  <2> QED BY <2>1, Zenon DEF lags_used
<1> QED BY <1>1, CellShown, LagCellShown, DeviceShown, Zenon DEF PvtShown

-------------------------------------------------------------------------------
\* What is under test is always one of the views.
LEMMA ViewInvariant == ViewSpec => [](in = Nothing \/ in \in Views)
<1>1. ViewInit => in = Nothing \/ in \in Views BY DEF ViewInit
<1>2. (in = Nothing \/ in \in Views) /\ [ViewNext]_in => (in = Nothing \/ in \in Views)'
  BY DEF ViewNext, Pick, Drop
<1> QED BY <1>1, <1>2, PTL DEF ViewSpec

\* Both views of a port show every field of its registers, whatever their values and
\* those of the bits between them (env_show_ports, env_json_ports).
THEOREM PortsRight == ViewSpec => []PortsShown
<1>1. in = Nothing \/ in \in Views => PortsShown
  <2>1. in.kind # "port" => PortsShown BY DEF PortsShown
  <2>2. in = Nothing => in.kind # "port" BY DEF Nothing
  <2>3. in \in Views /\ in.kind = "port" => IsPort(in.port) /\ IsSpare(in.spare)
    BY ViewsAssumption DEF IsView
  <2> QED BY <2>1, <2>2, <2>3, PortShown
<1> QED BY <1>1, ViewInvariant, PTL

\* The rows of a VTU and of an STU of any length are the memberships and states the
\* switch holds, in both families (env_show_vtu, env_show_stu).
THEOREM VlansRight == ViewSpec => []VlansShown
<1>1. in = Nothing \/ in \in Views => VlansShown
  <2>1. in.kind # "vlan" => VlansShown BY DEF VlansShown
  <2>2. in = Nothing => in.kind # "vlan" BY DEF Nothing
  <2>3. in \in Views /\ in.kind = "vlan" => IsVlan(in) BY ViewsAssumption DEF IsView
  <2> QED BY <2>1, <2>2, <2>3, VlanShown
<1> QED BY <1>1, ViewInvariant, PTL

\* The matrix and the lists of the PVT are what the devices let through, for any number
\* of devices and ports and any maps (env_show_pvt_port, dev_show_pvt).
THEOREM PvtRight == ViewSpec => []PvtShown
<1>1. in = Nothing \/ in \in Views => PvtShown
  <2>1. in.kind # "pvt" => PvtShown BY DEF PvtShown
  <2>2. in = Nothing => in.kind # "pvt" BY DEF Nothing
  <2>3. in \in Views /\ in.kind = "pvt" => IsPvt(in) BY ViewsAssumption DEF IsView
  <2> QED BY <2>1, <2>2, <2>3, PvtsShown
<1> QED BY <1>1, ViewInvariant, PTL

\* Addresses are shown at their ports or LAG, with the priorities their state gives
\* them (env_show_atu, prio_override_state).
THEOREM AddressesRight == ViewSpec => []AddressesShown
<1>1. in = Nothing \/ in \in Views => AddressesShown
  <2>1. in.kind # "atu" => AddressesShown BY Zenon DEF AddressesShown
  <2>2. in = Nothing => in.kind # "atu" BY DEF Nothing
  <2>3. in \in Views /\ in.kind = "atu" => IsAtu(in) BY ViewsAssumption DEF IsView
  <2> QED BY <2>1, <2>2, <2>3, AtuShown
<1> QED BY <1>1, ViewInvariant, PTL
===============================================================================
