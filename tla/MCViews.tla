-------------------------------- MODULE MCViews -------------------------------
(***************************************************************************)
(* Samples of what a switch may hold, for MvlsViews.                       *)
(***************************************************************************)
EXTENDS MvlsViews

\* All ports in one state but one.
But(all, i, v) == [p \in PortNos |-> IF p = i THEN v ELSE all]
Sample == {But(b, i, v) : b \in 0..3, i \in {0, 3, 4, 7, 8, 10}, v \in 0..3}

\* Chips of the older family have seven ports or eleven.
Chips == {[fam |-> "opal", n |-> 7], [fam |-> "opal", n |-> 11], [fam |-> "peridot", n |-> 11]}
There(c, f) == [p \in PortNos |-> IF p < c.n THEN f[p] ELSE 0]
Row(c, m, s) == [m |-> There(c, m), s |-> There(c, s)]
Vlan(c, rows) == [kind |-> "vlan", fam |-> c.fam, n_ports |-> c.n, rows |-> rows]

Vlans == {Vlan(c, <<Row(c, m, But(t, 5, 1))>>) : c \in Chips, m \in Sample, t \in 0..3}
         \cup {Vlan(c, <<Row(c, But(a, 4, b), But(b, 4, a)), Row(c, But(b, 9, a), But(a, 9, b))>>) :
                  c \in Chips, a, b \in 0..3}

\* Two ports of device "a", one of device "b", and LAG 2, which has port 2 of "a".
Ends == {End("a", 0), End("a", 2), End("b", 1)}
Pvts == {[kind |-> "pvt", idx |-> i, ends |-> Ends, rel |-> r, fid |-> 1,
          lags |-> [n \in 0..15 |-> IF n = 2 THEN l ELSE {}],
          of |-> [e \in Ends |-> IF e = End("a", 2) THEN 2 ELSE -1]] :
            i \in {[a |-> 0, b |-> 1], [a |-> 3, b |-> 30]},
            r \in SUBSET (Ends \X Ends), l \in {{}, {End("a", 2)}, Ends \ {End("a", 0)}}}

\* Addresses at no, some and all ports, and at the first and the last LAG.
Atus == {[kind |-> "atu", fam |-> f, mc |-> c, state |-> s, lag |-> w.lag, at |-> w.at, q |-> 5, f |-> 4,
          spare |-> n] :
            f \in Families, c \in BOOLEAN, s \in 1..15, n \in 0..1,
            w \in {[lag |-> -1, at |-> p] : p \in {{}, {0}, {1, 7}, {10}, PortNos}}
                  \cup {[lag |-> l, at |-> {}] : l \in {0, 15}}}

OnePort == [up |-> TRUE, speed |-> 2, full |-> TRUE, fmode |-> 0, emode |-> 0, state |-> 3, uc |-> FALSE,
            mc |-> FALSE, qmode |-> 0, pvid |-> 1, fid |-> 0, lag |-> -1, map |-> TRUE,
            drop_untagged |-> FALSE, drop_tagged |-> FALSE]
Some == UNION {
  {[OnePort EXCEPT !.up = u, !.speed = s, !.full = f] : u, f \in BOOLEAN, s \in 0..3},
  {[OnePort EXCEPT !.fmode = a, !.emode = b, !.state = c, !.uc = u, !.mc = m] :
     a, b, c \in 0..3, u, m \in BOOLEAN},
  {[OnePort EXCEPT !.qmode = q, !.map = m, !.drop_untagged = u, !.drop_tagged = t] :
     q \in 0..3, m, u, t \in BOOLEAN},
  {[OnePort EXCEPT !.pvid = v, !.fid = i, !.lag = l] :
     v \in {0, 4095}, i \in {0, 1, 15, 16, 17, 255, 256, 4095}, l \in {-1, 0, 1, 15}}}

\* The bits in between all clear, or all set.
Ones == [i \in 0..10 |-> CASE i = 0 -> 255 [] i \in {1, 2, 8, 10} -> 15 [] i \in {3, 4, 5} -> 3
                          [] i = 6 -> 1 [] i = 7 -> 4095 [] i = 9 -> 127]
Ports == {[kind |-> "port", port |-> p, spare |-> s] :
            p \in Some, s \in {[i \in 0..10 |-> 0], Ones}}

SomeViews == Vlans \cup Pvts \cup Atus \cup Ports
===============================================================================
