----------------------------- MODULE MdioNlProof ------------------------------
(***************************************************************************)
(* Theorems about the kernel module, for any number of transfers, any      *)
(* programs, any size of messages and of the receive buffer, any devices   *)
(* and any faults: first the handler and the VM, then the reply, what the  *)
(* messages of a finished transfer are and what is in them.                *)
(***************************************************************************)
EXTENDS MdioNl, FiniteSetTheorems, SequenceTheorems, SetInduction, TLAPS

-------------------------------------------------------------------------------
(***************************************************************************)
(* Arithmetic of the VM.                                                   *)
(***************************************************************************)

\* The number of values of a u16 is a positive integer: all that most proofs need
\* to know of it.
LEMMA U16Int == U16 \in Int /\ U16 > 0
  BY SMTT(10) DEF U16

\* The values of a u16, as inequalities.
LEMMA WordIs == \A w \in Int : w \in Word <=> 0 <= w /\ w < U16
  BY U16Int, SMTT(10) DEF Word

\* What is left of an integer stored in a u16 is a word.
LEMMA ModWord == \A n \in Int : n % U16 \in Word
  BY U16Int, SMTT(10) DEF Word

\* A word is an integer.
LEMMA WordInt == \A w \in Word : w \in Int
  BY U16Int, SMTT(10) DEF Word

\* Four neighbouring binary digits, each there or not, are below 16 times the first.
LEMMA FourBits ==
  ASSUME NEW p \in Int, 0 <= p,
         NEW a \in {0, p}, NEW b \in {0, 2*p}, NEW c \in {0, 4*p}, NEW d \in {0, 8*p}
  PROVE  a + b + c + d \in Int /\ 0 <= a + b + c + d /\ a + b + c + d <= 15*p
<1>1. a \in Int /\ b \in Int /\ c \in Int /\ d \in Int BY SMTT(10)
<1>2. /\ 0 <= a /\ a <= p /\ 0 <= b /\ b <= 2*p
      /\ 0 <= c /\ c <= 4*p /\ 0 <= d /\ d <= 8*p
  BY SMTT(10)
<1> QED BY <1>1, <1>2, SMTT(10)

\* The VM's AND of any two values is a 16-bit word.
LEMMA BitAndWord == \A a, b : BitAnd(a, b) \in Word
<1> TAKE a, b
<1> DEFINE F(p) == IF Bit(a, p) /\ Bit(b, p) THEN p ELSE 0
           N(p) == F(p) + F(2*p) + F(4*p) + F(8*p)
           n1 == N(1)  n2 == N(16)  n3 == N(256)  n4 == N(4096)
           s == n1 + n2 + n3 + n4
<1>1. \A p \in Nat : N(p) \in Int /\ 0 <= N(p) /\ N(p) <= 15*p
  <2> TAKE p \in Nat
  <2>1. /\ F(p) \in {0, p} /\ F(2*p) \in {0, 2*p}
        /\ F(4*p) \in {0, 4*p} /\ F(8*p) \in {0, 8*p}
    BY SMTT(10)
  <2> HIDE DEF F
  <2> QED BY <2>1, FourBits, SMTT(10)
<1>2. BitAnd(a, b) = s BY SMTT(10) DEF BitAnd, SumBits
<1> HIDE DEF N
<1>3. /\ n1 \in Int /\ 0 <= n1 /\ n1 <= 15   /\ n2 \in Int /\ 0 <= n2 /\ n2 <= 240
      /\ n3 \in Int /\ 0 <= n3 /\ n3 <= 3840 /\ n4 \in Int /\ 0 <= n4 /\ n4 <= 61440
  BY <1>1, SMTT(10)
<1> HIDE DEF n1, n2, n3, n4
<1>4. s \in Int /\ 0 <= s /\ s < U16 BY <1>3, SMTT(10) DEF U16
<1> HIDE DEF s
<1> QED BY <1>2, <1>4, WordIs, SMTT(10)

\* The VM's OR of any two values is a 16-bit word.
LEMMA BitOrWord == \A a, b : BitOr(a, b) \in Word
<1> TAKE a, b
<1> DEFINE F(p) == IF Bit(a, p) \/ Bit(b, p) THEN p ELSE 0
           N(p) == F(p) + F(2*p) + F(4*p) + F(8*p)
           n1 == N(1)  n2 == N(16)  n3 == N(256)  n4 == N(4096)
           s == n1 + n2 + n3 + n4
<1>1. \A p \in Nat : N(p) \in Int /\ 0 <= N(p) /\ N(p) <= 15*p
  <2> TAKE p \in Nat
  <2>1. /\ F(p) \in {0, p} /\ F(2*p) \in {0, 2*p}
        /\ F(4*p) \in {0, 4*p} /\ F(8*p) \in {0, 8*p}
    BY SMTT(10)
  <2> HIDE DEF F
  <2> QED BY <2>1, FourBits, SMTT(10)
<1>2. BitOr(a, b) = s BY SMTT(10) DEF BitOr, SumBits
<1> HIDE DEF N
<1>3. /\ n1 \in Int /\ 0 <= n1 /\ n1 <= 15   /\ n2 \in Int /\ 0 <= n2 /\ n2 <= 240
      /\ n3 \in Int /\ 0 <= n3 /\ n3 <= 3840 /\ n4 \in Int /\ 0 <= n4 /\ n4 <= 61440
  BY <1>1, SMTT(10)
<1> HIDE DEF n1, n2, n3, n4
<1>4. s \in Int /\ 0 <= s /\ s < U16 BY <1>3, SMTT(10) DEF U16
<1> HIDE DEF s
<1> QED BY <1>2, <1>4, WordIs, SMTT(10)

\* Every arithmetic instruction stores a 16-bit word; ADD wraps around.
LEMMA AluWord ==
  ASSUME NEW op \in {AND, OR, ADD}, NEW a \in Word, NEW b \in Word
  PROVE  Alu(op, a, b) \in Word
<1>1. CASE op = AND BY <1>1, BitAndWord, SMTT(10) DEF Alu, AND, OR, ADD
<1>2. CASE op = OR BY <1>2, BitOrWord, SMTT(10) DEF Alu, AND, OR, ADD
<1>3. CASE op = ADD
  <2>1. a + b \in Int BY WordInt, SMTT(10)
  <2>2. (a + b) % U16 \in Word BY <2>1, ModWord, SMTT(10)
  <2> QED BY <1>3, <2>2, SMTT(10) DEF Alu, AND, OR, ADD
<1> QED BY <1>1, <1>2, <1>3

-------------------------------------------------------------------------------
(***************************************************************************)
(* The reply: types of the outcomes, and who owns the message afterwards.  *)
(***************************************************************************)
Outcomes == [msg: Msg, sock: Seq(Datagram), lost: BOOLEAN, ret: Int]

\* Success leaves a message to go on with, failure is on record as a loss.
Owned(o) == IF o.ret = 0 THEN o.msg.st = "open" ELSE o.lost

\* The four special messages are messages, in their states.
LEMMA MsgTypes ==
  /\ Fresh \in Msg /\ Null \in Msg /\ Sent \in Msg /\ Misused \in Msg
  /\ Fresh.st = "open" /\ Sent.st = "sent" /\ Misused.st = "misused" /\ Null.st = "null"
<1>1. <<>> \in Seq(Int) BY SMTT(10)
<1>2. Fresh \in Msg BY <1>1, SMTT(10) DEF Fresh, Msg
<1>3. Null \in Msg /\ Sent \in Msg /\ Misused \in Msg
  BY <1>2, SMTT(10) DEF Null, Sent, Misused, Msg
<1>4. Fresh.st = "open" BY DEF Fresh
<1>5. Sent.st = "sent" /\ Misused.st = "misused" /\ Null.st = "null"
  BY <1>2 DEF Null, Sent, Misused, Msg
<1> QED BY <1>2, <1>3, <1>4, <1>5

\* Writing a part of a message gives a message in the same state.
LEMMA MsgParts ==
  ASSUME NEW m \in Msg
  PROVE  /\ \A d \in Seq(Int) : [m EXCEPT !.data = d] \in Msg /\ [m EXCEPT !.data = d].st = m.st
         /\ \A e \in Int : [m EXCEPT !.err = e] \in Msg /\ [m EXCEPT !.err = e].st = m.st
         /\ \A b \in BOOLEAN : [m EXCEPT !.ends = b] \in Msg /\ [m EXCEPT !.ends = b].st = m.st
         /\ \A b \in BOOLEAN : [m EXCEPT !.done = b] \in Msg /\ [m EXCEPT !.done = b].st = m.st
<1>1. ASSUME NEW d \in Seq(Int)
      PROVE  [m EXCEPT !.data = d] \in Msg /\ [m EXCEPT !.data = d].st = m.st
  BY SMTT(10) DEF Msg
<1>2. ASSUME NEW e \in Int
      PROVE  [m EXCEPT !.err = e] \in Msg /\ [m EXCEPT !.err = e].st = m.st
  BY SMTT(10) DEF Msg
<1>3. ASSUME NEW b \in BOOLEAN
      PROVE  [m EXCEPT !.ends = b] \in Msg /\ [m EXCEPT !.ends = b].st = m.st
  BY SMTT(10) DEF Msg
<1>4. ASSUME NEW b \in BOOLEAN
      PROVE  [m EXCEPT !.done = b] \in Msg /\ [m EXCEPT !.done = b].st = m.st
  BY SMTT(10) DEF Msg
<1> QED BY <1>1, <1>2, <1>3, <1>4

\* nla_nest_end turns a message into a message and keeps its state.
LEMMA NestEndType ==
  ASSUME NEW m \in Msg
  PROVE  nest_end(m) \in Msg /\ nest_end(m).st = m.st
<1> DEFINE d == m.data \o ErrorWords(m)
           n == [m EXCEPT !.data = d]
<1>1. ErrorWords(m) \in Seq(Int) BY SMTT(10) DEF ErrorWords, Msg
<1>2. d \in Seq(Int) BY <1>1, SMTT(10) DEF Msg
<1>3. nest_end(m) = [n EXCEPT !.err = 0] BY DEF nest_end
<1> HIDE DEF d
<1>4. n \in Msg /\ n.st = m.st BY <1>2, MsgParts
<1> HIDE DEF n
<1>5. [n EXCEPT !.err = 0] \in Msg /\ [n EXCEPT !.err = 0].st = n.st
  <2>1. 0 \in Int OBVIOUS
  <2> QED BY ONLY <1>4, <2>1, MsgParts
<1> QED BY <1>3, <1>4, <1>5

\* Handing a message to the socket: it is given away, and failing is a loss.
LEMMA UnicastType ==
  ASSUME NEW m \in Msg, NEW s \in Seq(Datagram), NEW l \in BOOLEAN,
         NEW o \in unicast(m, s, l)
  PROVE  o \in Outcomes /\ o.msg = Sent /\ (o.ret # 0 => o.lost) /\ (l => o.lost)
<1>1. Skb(m) \in Datagram BY DEF Skb, Msg, Datagram
<1>2. Append(s, Skb(m)) \in Seq(Datagram) BY <1>1, SMTT(10)
<1>3. CASE o = Outcome(Sent, Append(s, Skb(m)), l, 0)
  BY <1>2, <1>3, MsgTypes DEF Outcome, Outcomes
<1>4. CASE o = Outcome(Sent, s, TRUE, -EAGAIN)
  BY <1>4, MsgTypes DEF Outcome, Outcomes, EAGAIN
<1> QED BY <1>3, <1>4 DEF unicast

\* Opening a message: it is there, or there is no memory, which is a loss.
LEMMA OpenType ==
  ASSUME NEW s \in Seq(Datagram), NEW l \in BOOLEAN, NEW o \in mdio_nl_open(s, l)
  PROVE  o \in Outcomes /\ Owned(o) /\ (l => o.lost)
<1>1. CASE o = Outcome(Fresh, s, l, 0)
  BY <1>1, MsgTypes DEF Outcome, Outcomes, Owned
<1>2. CASE o = Outcome(Null, s, TRUE, -ENOMEM)
  BY <1>2, MsgTypes DEF Outcome, Outcomes, Owned, ENOMEM
<1> QED BY <1>1, <1>2 DEF mdio_nl_open

\* A flush gives the message away and opens another, or something is lost.
LEMMA FlushType ==
  ASSUME NEW m \in Msg, NEW s \in Seq(Datagram), NEW l \in BOOLEAN,
         NEW o \in mdio_nl_flush(m, s, l)
  PROVE  o \in Outcomes /\ Owned(o) /\ (l => o.lost)
<1> DEFINE n == [nest_end(m) EXCEPT !.ends = TRUE]
<1>1. n \in Msg BY NestEndType, MsgParts
<1>2. PICK u \in unicast(n, s, l) :
        IF u.ret # 0 THEN o = u ELSE o \in mdio_nl_open(u.sock, u.lost)
  BY DEF mdio_nl_flush
<1> HIDE DEF n
<1>3. u \in Outcomes /\ (u.ret # 0 => u.lost) /\ (l => u.lost)
  BY <1>1, UnicastType
<1>4. CASE u.ret # 0 BY <1>2, <1>3, <1>4 DEF Owned
<1>5. CASE u.ret = 0
  <2>1. u.sock \in Seq(Datagram) /\ u.lost \in BOOLEAN BY <1>3 DEF Outcomes
  <2>2. o \in mdio_nl_open(u.sock, u.lost) BY <1>2, <1>5
  <2> QED BY <2>1, <2>2, <1>3, OpenType
<1> QED BY <1>4, <1>5

\* EMIT leaves a message to go on with, or something is lost.
LEMMA EmitType ==
  ASSUME NEW m \in Msg, NEW s \in Seq(Datagram), NEW l \in BOOLEAN,
         NEW datum \in Word, NEW o \in mdio_nl_emit(m, s, l, datum)
  PROVE  o \in Outcomes /\ (m.st = "open" => Owned(o)) /\ (l => o.lost)
<1>0. datum \in Int BY WordInt
<1>1. ASSUME NEW n \in Msg
      PROVE  put_datum(n, datum) \in Msg /\ put_datum(n, datum).st = n.st
  <2>1. n.data \in Seq(Int) BY DEF Msg
  <2>2. Append(n.data, datum) \in Seq(Int) BY <1>0, <2>1
  <2> QED BY <2>2, MsgParts DEF put_datum
<1>2. CASE o = Outcome(put_datum(m, datum), s, l, 0)
  <2>1. put_datum(m, datum) \in Msg /\ put_datum(m, datum).st = m.st BY <1>1
  <2> QED BY <1>2, <2>1 DEF Outcome, Outcomes, Owned
<1>3. CASE \E f \in mdio_nl_flush(m, s, l) :
             o = IF f.ret # 0 THEN f ELSE [f EXCEPT !.msg = put_datum(f.msg, datum)]
  <2>1. PICK f \in mdio_nl_flush(m, s, l) :
             o = IF f.ret # 0 THEN f ELSE [f EXCEPT !.msg = put_datum(f.msg, datum)]
    BY <1>3
  <2>2. f \in Outcomes /\ Owned(f) /\ (l => f.lost) BY FlushType
  <2>3. f.msg \in Msg BY <2>2 DEF Outcomes
  <2>4. put_datum(f.msg, datum) \in Msg /\ put_datum(f.msg, datum).st = f.msg.st
    BY <1>1, <2>3
  <2> QED BY <2>1, <2>2, <2>4 DEF Outcomes, Owned
<1> QED BY <1>2, <1>3 DEF mdio_nl_emit

\* The ERROR attribute goes into the message, or into a new one.
LEMMA PutErrorType ==
  ASSUME NEW m \in Msg, m.st = "open", NEW s \in Seq(Datagram), NEW l \in BOOLEAN,
         NEW xerr \in Int, NEW o \in put_error(m, s, l, xerr)
  PROVE  o \in Outcomes /\ Owned(o) /\ (l => o.lost)
<1>1. CASE o = Outcome(m, s, l, 0) BY <1>1 DEF Outcome, Outcomes, Owned
<1>2. CASE o = Outcome([m EXCEPT !.err = xerr], s, l, 0)
  <2> DEFINE n == [m EXCEPT !.err = xerr]
  <2>1. n \in Msg /\ n.st = "open" BY MsgParts
  <2>2. o = Outcome(n, s, l, 0) BY <1>2
  <2> HIDE DEF n
  <2> QED BY <2>1, <2>2 DEF Outcome, Outcomes, Owned
<1>3. CASE \E f \in mdio_nl_flush(m, s, l) :
             o = IF f.ret # 0 THEN f ELSE [f EXCEPT !.msg.err = xerr]
  <2>1. PICK f \in mdio_nl_flush(m, s, l) :
             o = IF f.ret # 0 THEN f ELSE [f EXCEPT !.msg.err = xerr]
    BY <1>3
  <2>2. f \in Outcomes /\ Owned(f) /\ (l => f.lost) BY FlushType
  <2>3. f.msg \in Msg BY <2>2 DEF Outcomes
  <2> DEFINE n == [f.msg EXCEPT !.err = xerr]
  <2>4. n \in Msg /\ n.st = f.msg.st BY <2>3, MsgParts
  <2>5. o = IF f.ret # 0 THEN f ELSE [f EXCEPT !.msg = n] BY <2>1
  <2> HIDE DEF n
  <2> QED BY <2>2, <2>4, <2>5 DEF Outcomes, Owned
<1> QED BY <1>1, <1>2, <1>3 DEF put_error

\* The NLMSG_DONE header goes into the message, or into a new one.
LEMMA PutDoneType ==
  ASSUME NEW m \in Msg, m.st = "open", NEW s \in Seq(Datagram), NEW l \in BOOLEAN,
         NEW o \in put_done(m, s, l)
  PROVE  o \in Outcomes /\ Owned(o) /\ (l => o.lost)
<1>1. CASE o = Outcome([m EXCEPT !.done = TRUE], s, l, 0)
  <2> DEFINE n == [m EXCEPT !.done = TRUE]
  <2>1. n \in Msg /\ n.st = "open" BY MsgParts
  <2>2. o = Outcome(n, s, l, 0) BY <1>1
  <2> HIDE DEF n
  <2> QED BY <2>1, <2>2 DEF Outcome, Outcomes, Owned
<1>2. CASE \E f \in mdio_nl_flush(m, s, l) :
             o = IF f.ret # 0 THEN f ELSE [f EXCEPT !.msg.done = TRUE]
  <2>1. PICK f \in mdio_nl_flush(m, s, l) :
             o = IF f.ret # 0 THEN f ELSE [f EXCEPT !.msg.done = TRUE]
    BY <1>2
  <2>2. f \in Outcomes /\ Owned(f) /\ (l => f.lost) BY FlushType
  <2>3. f.msg \in Msg BY <2>2 DEF Outcomes
  <2> DEFINE n == [f.msg EXCEPT !.done = TRUE]
  <2>4. n \in Msg /\ n.st = f.msg.st BY <2>3, MsgParts
  <2>5. o = IF f.ret # 0 THEN f ELSE [f EXCEPT !.msg = n] BY <2>1
  <2> HIDE DEF n
  <2> QED BY <2>2, <2>4, <2>5 DEF Outcomes, Owned
<1> QED BY <1>1, <1>2 DEF put_done

\* err_free changes nothing but the message.
LEMMA ErrFreeType ==
  ASSUME NEW o \in Outcomes
  PROVE  err_free(o) \in Outcomes /\ err_free(o).lost = o.lost
  BY MsgTypes DEF err_free, Outcomes

\* Closing a message one owns ends in a use of one that is gone only after a loss.
LEMMA CloseWithType ==
  ASSUME NEW m \in Msg, m.st = "open", NEW s \in Seq(Datagram), NEW l \in BOOLEAN,
         NEW xerr \in Int, NEW o \in CloseWith(m, s, l, xerr)
  PROVE  o \in Outcomes /\ (o.msg = Misused => o.lost)
<1> DEFINE After(e) == put_done([e.msg EXCEPT !.ends = TRUE], e.sock, e.lost)
           Last(d) == IF d.ret # 0 THEN {err_free(d)} ELSE unicast(d.msg, d.sock, d.lost)
           Rest(e) == IF e.ret # 0 THEN {err_free(e)} ELSE UNION {Last(d) : d \in After(e)}
<1>0. CloseWith(m, s, l, xerr) = UNION {Rest(e) : e \in put_error(m, s, l, xerr)}
  BY DEF CloseWith
<1> HIDE DEF Rest
<1>1. PICK e \in put_error(m, s, l, xerr) : o \in Rest(e) BY <1>0
<1> USE DEF Rest
<1>2. e \in Outcomes /\ Owned(e) BY PutErrorType
<1>3. CASE e.ret # 0
  BY <1>1, <1>2, <1>3, ErrFreeType DEF Owned
<1>4. CASE e.ret = 0
  <2> DEFINE n == [e.msg EXCEPT !.ends = TRUE]
  <2>1. e.msg \in Msg /\ e.msg.st = "open" /\ e.sock \in Seq(Datagram) /\ e.lost \in BOOLEAN
    BY <1>2, <1>4 DEF Outcomes, Owned
  <2>2. n \in Msg /\ n.st = "open" BY <2>1, MsgParts
  <2>3. PICK d \in put_done(n, e.sock, e.lost) : o \in Last(d) BY <1>1, <1>4
  <2> HIDE DEF n
  <2>4. d \in Outcomes /\ Owned(d) BY <2>1, <2>2, PutDoneType
  <2>5. CASE d.ret # 0 BY <2>3, <2>4, <2>5, ErrFreeType DEF Owned
  <2>6. CASE d.ret = 0
    <3>1. d.msg \in Msg /\ d.sock \in Seq(Datagram) /\ d.lost \in BOOLEAN
      BY <2>4 DEF Outcomes
    <3>2. o \in unicast(d.msg, d.sock, d.lost) BY <2>3, <2>6
    <3>3. o \in Outcomes /\ o.msg = Sent BY <3>1, <3>2, UnicastType
    <3> QED BY <3>3, MsgTypes
  <2> QED BY <2>5, <2>6
<1> QED BY <1>3, <1>4

\* The same of mdio_nl_close, which finds its message as mdio_nl_eval left it.
LEMMA CloseType ==
  ASSUME NEW m \in Msg, NEW s \in Seq(Datagram), NEW l \in BOOLEAN,
         NEW xerr \in Int, NEW o \in mdio_nl_close(m, s, l, xerr)
  PROVE  o \in Outcomes /\ (m.st = "open" \/ l => (o.msg = Misused => o.lost))
<1>1. CASE m.st = "open"
  <2>1. nest_end(m) \in Msg /\ nest_end(m).st = "open" BY <1>1, NestEndType
  <2>2. o \in CloseWith(nest_end(m), s, l, xerr) BY <1>1 DEF mdio_nl_close
  <2> QED BY <2>1, <2>2, CloseWithType
<1>2. CASE m.st # "open"
  <2>1. o = Outcome(Misused, s, l, -EINVAL) BY <1>2 DEF mdio_nl_close
  <2> QED BY <1>2, <2>1, MsgTypes DEF Outcome, Outcomes, EINVAL
<1> QED BY <1>1, <1>2

-------------------------------------------------------------------------------
(***************************************************************************)
(* The handler: types.                                                     *)
(***************************************************************************)

\* A running transfer is at an instruction of its request's program.
LEMMA InsnType ==
  ASSUME TypeOK, NEW x \in Xfers, Running(x)
  PROVE  /\ req[x].prog \in Seq(Insn)
         /\ pc[x] \in Int /\ 0 <= pc[x] /\ pc[x] + 1 \in 1..Len(req[x].prog)
         /\ insn(x) \in Insn
<1>1. pc[x] \in Int /\ 0 <= pc[x] /\ pc[x] < Len(req[x].prog)
  BY PcSpanAssumption DEF TypeOK, Running
<1>2. Request(req[x]) BY DEF TypeOK
<1>3. req[x].prog \in Seq(Insn) BY <1>2 DEF Request
<1>4. pc[x] + 1 \in 1..Len(req[x].prog) BY <1>1, <1>3
<1>5. req[x].prog[pc[x] + 1] \in Insn BY <1>3, <1>4
<1> QED BY <1>1, <1>3, <1>4, <1>5 DEF insn

\* Both kinds of operand, a register or an immediate value, are words.
LEMMA ArgWord ==
  ASSUME TypeOK, NEW x \in Xfers, NEW arg \in ArgBits
  PROVE  arg_ri(x, arg) \in Word /\ arg % 8 \in Regs
<1>1. arg \in Int BY U16Int, SMTT(10) DEF ArgBits
<1>2. arg % 8 \in Regs BY <1>1, SMTT(10) DEF Regs
<1>3. ArgValue(arg) \in Word BY <1>1, ModWord, SMTT(10) DEF ArgValue
<1>4. regs[x][arg % 8] \in Word BY <1>2 DEF TypeOK
<1> QED BY <1>2, <1>3, <1>4 DEF arg_ri

\* The operands of the current instruction are words, its result register exists.
LEMMA OperandWords ==
  ASSUME TypeOK, NEW x \in Xfers, Running(x)
  PROVE  A0(x) \in Word /\ A1(x) \in Word /\ A2(x) \in Word /\ insn(x).arg2 % 8 \in Regs
<1>1. insn(x).arg0 \in ArgBits /\ insn(x).arg1 \in ArgBits /\ insn(x).arg2 \in ArgBits
  BY InsnType DEF Insn
<1> QED BY <1>1, ArgWord DEF A0, A1, A2

\* The program counter wraps around: it stays in its range wherever a jump goes.
LEMMA GotoType ==
  ASSUME TypeOK, NEW x \in Xfers, NEW n \in Int, Goto(x, n)
  PROVE  pc' \in [Xfers -> 0..(PcSpan - 1)]
<1>1. PcSpan \in Int /\ PcSpan > 0 BY PcSpanAssumption, U16Int
<1>2. n % PcSpan \in 0..(PcSpan - 1) BY <1>1
<1> QED BY <1>2 DEF TypeOK, Goto

\* Storing a word in the result register keeps the registers typed.
LEMMA SetRegType ==
  ASSUME TypeOK, NEW x \in Xfers, NEW v \in Word, insn(x).arg2 % 8 \in Regs, SetReg(x, v)
  PROVE  regs' \in [Xfers -> [Regs -> Word]]
<1>1. regs[x] \in [Regs -> Word] BY DEF TypeOK
<1> DEFINE f == [regs[x] EXCEPT ![insn(x).arg2 % 8] = v]
<1>2. f \in [Regs -> Word] BY <1>1
<1>3. regs' = [regs EXCEPT ![x] = f] BY DEF SetReg
<1> HIDE DEF f
<1> QED BY <1>2, <1>3 DEF TypeOK

\* A transfer that is not under way has the shape of a request too.
LEMMA NoReqType == Request(NoReq)
  BY DEF Request, NoReq

\* Giving one transfer a request keeps all requests in shape.
LEMMA ReqType ==
  ASSUME TypeOK, NEW x \in Xfers, NEW r, Request(r), req' = [req EXCEPT ![x] = r]
  PROVE  req' = [y \in Xfers |-> req'[y]] /\ \A y \in Xfers : Request(req'[y])
<1>1. req = [y \in Xfers |-> req[y]] /\ \A y \in Xfers : Request(req[y]) BY DEF TypeOK
<1>2. req' = [y \in Xfers |-> IF y = x THEN r ELSE req[y]] BY <1>1
<1>3. \A y \in Xfers : req'[y] = IF y = x THEN r ELSE req[y] BY <1>2
<1> QED BY <1>1, <1>2, <1>3

\* The initial state is typed.
LEMMA TypeInit == Init => TypeOK
<1> SUFFICES ASSUME Init PROVE TypeOK OBVIOUS
<1>1. pc \in [Xfers -> 0..(PcSpan - 1)] BY PcSpanAssumption, U16Int DEF Init
<1>2. 0 \in Word BY U16Int DEF Word
<1>3. regs \in [Xfers -> [Regs -> Word]] BY <1>2 DEF Init
<1>4. msg \in [Xfers -> Msg] BY MsgTypes DEF Init
<1>5. sock \in [Xfers -> Seq(Datagram)] /\ emitted \in [Xfers -> Seq(Word)] BY DEF Init
<1>6. req = [x \in Xfers |-> req[x]] /\ \A x \in Xfers : Request(req[x])
  BY NoReqType DEF Init
<1> QED BY <1>1, <1>3, <1>4, <1>5, <1>6 DEF Init, TypeOK, Stages

\* The acknowledgement is a datagram.
LEMMA AckType == \A r \in Int : Ack(r) \in Datagram
<1>1. <<>> \in Seq(Int) BY SMTT(10)
<1> QED BY <1>1, SMTT(10) DEF Ack, Datagram

\* Entering the handler with any request keeps every variable typed.
LEMMA TypeEnter ==
  ASSUME TypeOK, NEW x \in Xfers, NEW r, Request(r),
         Refuse(x, r) \/ OpenFails(x, r) \/ Begin(x, r)
  PROVE  TypeOK'
<1>0. req' = [y \in Xfers |-> req'[y]] /\ \A y \in Xfers : Request(req'[y])
  <2>1. req' = [req EXCEPT ![x] = r] BY DEF Refuse, OpenFails, Begin
  <2> QED BY <2>1, ReqType
<1>1. CASE Refuse(x, r)
  <2>1. RefusedWith(r) \in Int BY DEF RefusedWith, EINVAL, ENODEV
  <2>2. <<Ack(RefusedWith(r))>> \in Seq(Datagram) BY <2>1, AckType
  <2> QED BY <1>0, <1>1, <2>1, <2>2 DEF TypeOK, Refuse, devVars, Stages
<1>2. CASE OpenFails(x, r)
  <2>1. PICK o \in mdio_nl_open(<<>>, FALSE) :
          /\ stage' = [stage EXCEPT ![x] = "done"]
          /\ ret' = [ret EXCEPT ![x] = o.ret]
          /\ msg' = [msg EXCEPT ![x] = o.msg]
          /\ lost' = [lost EXCEPT ![x] = TRUE]
          /\ sock' = [sock EXCEPT ![x] = <<Ack(o.ret)>>]
    BY <1>2 DEF OpenFails
  <2>2. <<>> \in Seq(Datagram) /\ FALSE \in BOOLEAN OBVIOUS
  <2>3. o \in Outcomes BY <2>2, OpenType
  <2>4. o.ret \in Int /\ o.msg \in Msg BY <2>3 DEF Outcomes
  <2>5. <<Ack(o.ret)>> \in Seq(Datagram) BY <2>4, AckType
  <2> QED BY <1>0, <1>2, <2>1, <2>4, <2>5 DEF TypeOK, OpenFails, devVars, Stages
<1>3. CASE Begin(x, r)
  <2>1. 0 \in 0..(PcSpan - 1) /\ 0 \in Word BY PcSpanAssumption, U16Int DEF Word
  <2>2. regs' \in [Xfers -> [Regs -> Word]] BY <1>3, <2>1 DEF TypeOK, Begin
  <2> QED BY <1>0, <1>3, <2>1, <2>2, MsgTypes DEF TypeOK, Begin, devVars, Stages
<1> QED BY <1>1, <1>2, <1>3

\* Time, the lock and the end of a transfer keep every variable typed.
LEMMA TypeWait ==
  ASSUME TypeOK, NEW x \in Xfers, Expire(x) \/ Lock(x) \/ Finish(x)
  PROVE  TypeOK'
<1>1. CASE Expire(x) BY <1>1 DEF TypeOK, Expire, msgVars, devVars
<1>2. CASE Lock(x) BY <1>2 DEF TypeOK, Lock, vmVars, msgVars, Stages
<1>3. CASE Finish(x)
  <2>1. 0 \in 0..(PcSpan - 1) /\ 0 \in Word BY PcSpanAssumption, U16Int DEF Word
  <2>2. regs' \in [Xfers -> [Regs -> Word]] BY <1>3, <2>1 DEF TypeOK, Finish
  <2>3. <<>> \in Seq(Datagram) /\ <<>> \in Seq(Word) OBVIOUS
  <2>4. req' = [y \in Xfers |-> req'[y]] /\ \A y \in Xfers : Request(req'[y])
    BY <1>3, NoReqType, ReqType DEF Finish
  <2> QED BY <1>3, <2>1, <2>2, <2>3, <2>4, MsgTypes DEF TypeOK, Finish, devVars, Stages
<1> QED BY <1>1, <1>2, <1>3

\* Each step of the VM and the steps after it keep every variable typed.
LEMMA TypeVM ==
  ASSUME TypeOK, NEW x \in Xfers, Step(x)
  PROVE  TypeOK'
<1>0. Running(x) => pc[x] + 1 \in Int BY InsnType
<1>1. CASE ReadInsn(x)
  <2>1. PICK o : o.val \in Word /\ SetReg(x, o.val) BY <1>1 DEF ReadInsn
  <2>2. Running(x) /\ GoOn(x) BY <1>1 DEF ReadInsn
  <2>3. regs' \in [Xfers -> [Regs -> Word]] BY <2>1, <2>2, OperandWords, SetRegType
  <2>4. pc' \in [Xfers -> 0..(PcSpan - 1)] BY <1>0, <2>2, GotoType DEF GoOn
  <2> QED BY <1>1, <2>3, <2>4 DEF TypeOK, ReadInsn, msgVars
<1>2. CASE WriteInsn(x)
  <2>1. pc' \in [Xfers -> 0..(PcSpan - 1)] BY <1>0, <1>2, GotoType DEF WriteInsn, GoOn
  <2> QED BY <1>2, <2>1 DEF TypeOK, WriteInsn, msgVars
<1>3. CASE BusError(x)
  BY <1>3 DEF TypeOK, BusError, ExitWith, msgVars, devVars, Stages, EIO
<1>4. CASE AluInsn(x)
  <2>1. Running(x) /\ GoOn(x) /\ insn(x).op \in {AND, OR, ADD} BY <1>4 DEF AluInsn
  <2>2. Alu(insn(x).op, A0(x), A1(x)) \in Word BY <2>1, OperandWords, AluWord
  <2>3. regs' \in [Xfers -> [Regs -> Word]]
    BY <1>4, <2>1, <2>2, OperandWords, SetRegType DEF AluInsn
  <2>4. pc' \in [Xfers -> 0..(PcSpan - 1)] BY <1>0, <2>1, GotoType DEF GoOn
  <2> QED BY <1>4, <2>3, <2>4 DEF TypeOK, AluInsn, msgVars, devVars
<1>5. CASE JumpInsn(x)
  <2>1. Running(x) /\ Goto(x, JumpTarget(x)) BY <1>5 DEF JumpInsn
  <2>2. insn(x).arg2 \in Int BY <2>1, InsnType, U16Int DEF Insn, ArgBits
  <2>3. ArgValue(insn(x).arg2) \in Int BY <2>2, U16Int DEF ArgValue
  <2>4. S16(ArgValue(insn(x).arg2)) \in Int BY <2>3, U16Int, SMTT(10) DEF S16
  <2>5. JumpTarget(x) \in Int BY <2>1, <2>4, InsnType DEF JumpTarget
  <2>6. pc' \in [Xfers -> 0..(PcSpan - 1)] BY <2>1, <2>5, GotoType
  <2> QED BY <1>5, <2>6 DEF TypeOK, JumpInsn, msgVars, devVars
<1>6. CASE EmitInsn(x)
  <2>1. Running(x) BY <1>6 DEF EmitInsn
  <2>2. A0(x) \in Word BY <2>1, OperandWords
  <2>3. PICK o \in mdio_nl_emit(msg[x], sock[x], lost[x], A0(x)) :
          /\ msg' = [msg EXCEPT ![x] = o.msg]
          /\ sock' = [sock EXCEPT ![x] = o.sock]
          /\ lost' = [lost EXCEPT ![x] = o.lost]
          /\ IF o.ret = 0
               THEN /\ GoOn(x)
                    /\ emitted' = [emitted EXCEPT ![x] = Append(@, A0(x))]
                    /\ UNCHANGED <<stage, ret>>
               ELSE /\ ExitWith(x, o.ret)
                    /\ UNCHANGED <<pc, emitted>>
    BY <1>6 DEF EmitInsn
  <2>4. msg[x] \in Msg /\ sock[x] \in Seq(Datagram) /\ lost[x] \in BOOLEAN BY DEF TypeOK
  <2>5. o \in Outcomes BY <2>2, <2>4, EmitType
  <2>6. o.msg \in Msg /\ o.sock \in Seq(Datagram) /\ o.lost \in BOOLEAN /\ o.ret \in Int
    BY <2>5 DEF Outcomes
  <2>7. /\ msg' \in [Xfers -> Msg] /\ sock' \in [Xfers -> Seq(Datagram)]
        /\ lost' \in [Xfers -> BOOLEAN]
    BY <2>3, <2>6 DEF TypeOK
  <2>8. UNCHANGED <<req, regs, late, devVars, refs>> BY <1>6 DEF EmitInsn
  <2>9. CASE o.ret = 0
    <3>1. pc' \in [Xfers -> 0..(PcSpan - 1)] BY <1>0, <2>1, <2>3, <2>9, GotoType DEF GoOn
    <3>2. emitted[x] \in Seq(Word) BY DEF TypeOK
    <3>3. Append(emitted[x], A0(x)) \in Seq(Word) BY <2>2, <3>2
    <3>4. emitted' \in [Xfers -> Seq(Word)] BY <2>3, <2>9, <3>3 DEF TypeOK
    <3> QED BY <2>3, <2>7, <2>8, <2>9, <3>1, <3>4 DEF TypeOK, devVars
  <2>10. CASE o.ret # 0
    BY <2>3, <2>6, <2>7, <2>8, <2>10 DEF TypeOK, ExitWith, devVars, Stages
  <2> QED BY <2>9, <2>10
<1>7. CASE Leave(x)
  <2>1. LeaveCode(x) \in Int BY DEF LeaveCode, ETIMEDOUT, EINVAL
  <2> QED BY <1>7, <2>1 DEF TypeOK, Leave, ExitWith, msgVars, devVars, Stages
<1>8. CASE Unlock(x) BY <1>8 DEF TypeOK, Unlock, vmVars, msgVars, Stages
<1>9. CASE Close(x)
  <2>1. PICK o \in mdio_nl_close(msg[x], sock[x], lost[x], ret[x]) :
          /\ msg' = [msg EXCEPT ![x] = o.msg]
          /\ lost' = [lost EXCEPT ![x] = o.lost]
          /\ \/ /\ stage' = [stage EXCEPT ![x] = "fault"]
                /\ sock' = [sock EXCEPT ![x] = o.sock]
                /\ refs' = refs
             \/ /\ stage' = [stage EXCEPT ![x] = "done"]
                /\ sock' = [sock EXCEPT ![x] = Append(o.sock, Ack(o.ret))]
                /\ refs' = refs - 1
    BY <1>9 DEF Close
  <2>2. /\ msg[x] \in Msg /\ sock[x] \in Seq(Datagram) /\ lost[x] \in BOOLEAN
        /\ ret[x] \in Int
    BY DEF TypeOK
  <2>3. o \in Outcomes BY <2>2, CloseType
  <2>4. o.msg \in Msg /\ o.sock \in Seq(Datagram) /\ o.lost \in BOOLEAN /\ o.ret \in Int
    BY <2>3 DEF Outcomes
  <2>5. Append(o.sock, Ack(o.ret)) \in Seq(Datagram) BY <2>4, AckType
  <2>6. /\ msg' \in [Xfers -> Msg] /\ sock' \in [Xfers -> Seq(Datagram)]
        /\ lost' \in [Xfers -> BOOLEAN] /\ stage' \in [Xfers -> Stages]
    BY <2>1, <2>4, <2>5 DEF TypeOK, Stages
  <2>7. refs' \in Int BY <2>1 DEF TypeOK
  <2> QED BY <1>9, <2>6, <2>7 DEF TypeOK, Close, vmVars, devVars
<1> QED BY <1>1, <1>2, <1>3, <1>4, <1>5, <1>6, <1>7, <1>8, <1>9 DEF Step

\* Types, for every value of the constants: whatever the program, the VM keeps
\* 16-bit words in its registers and its program counter within its width.
THEOREM TypeCorrect == Spec => []TypeOK
<1>1. TypeOK /\ [Next]_vars => TypeOK'
  <2> SUFFICES ASSUME TypeOK, [Next]_vars PROVE TypeOK' OBVIOUS
  <2>1. CASE OtherUse BY <2>1 DEF TypeOK, OtherUse, vmVars, msgVars
  <2>2. ASSUME NEW x \in Xfers, Enter(x) PROVE TypeOK'
    BY <2>2, RequestsAssumption, TypeEnter DEF Enter
  <2>3. ASSUME NEW x \in Xfers, Expire(x) \/ Lock(x) \/ Finish(x) PROVE TypeOK'
    BY <2>3, TypeWait
  <2>4. ASSUME NEW x \in Xfers, Step(x) PROVE TypeOK' BY <2>4, TypeVM
  <2>5. CASE UNCHANGED vars BY <2>5 DEF TypeOK, vars, vmVars, msgVars, devVars
  <2> QED BY <2>1, <2>2, <2>3, <2>4, <2>5 DEF Next
<1> QED BY TypeInit, <1>1, PTL DEF Spec

-------------------------------------------------------------------------------
(***************************************************************************)
(* The bus lock.                                                           *)
(***************************************************************************)

\* The kernel whatever is sent to it, of which Next is the case that clients send Requests.
AnyEnter(x) == \E r : Refuse(x, r) \/ OpenFails(x, r) \/ Begin(x, r)

AnyNext ==
  \/ OtherUse
  \/ \E x \in Xfers : AnyEnter(x) \/ Expire(x) \/ Lock(x) \/ Step(x) \/ Finish(x)

LEMMA NextIsAny == [Next]_vars => [AnyNext]_vars
  BY DEF Next, AnyNext, Enter, AnyEnter

\* Only the transfer whose stage moves takes the lock, when it is free, or gives it back.
LEMMA LockKept == TypeOK /\ LockHeld /\ [AnyNext]_vars => LockHeld'
<1> SUFFICES ASSUME TypeOK, LockHeld, [AnyNext]_vars PROVE LockHeld' OBVIOUS
<1> USE DEF TypeOK, LockHeld
<1>1. CASE OtherUse BY <1>1 DEF OtherUse
<1>2. ASSUME NEW x \in Xfers, AnyEnter(x) PROVE LockHeld'
  BY <1>2 DEF AnyEnter, Refuse, OpenFails, Begin, devVars
<1>3. ASSUME NEW x \in Xfers, Expire(x) PROVE LockHeld' BY <1>3 DEF Expire, devVars
<1>4. ASSUME NEW x \in Xfers, Lock(x) PROVE LockHeld' BY <1>4 DEF Lock
<1>5. ASSUME NEW x \in Xfers, Step(x) PROVE LockHeld'
  <2>1. CASE ReadInsn(x) BY <2>1 DEF ReadInsn
  <2>2. CASE WriteInsn(x) BY <2>2 DEF WriteInsn
  <2>3. CASE BusError(x) BY <2>3 DEF BusError, ExitWith, Running, devVars
  <2>4. CASE AluInsn(x) BY <2>4 DEF AluInsn, devVars
  <2>5. CASE JumpInsn(x) BY <2>5 DEF JumpInsn, devVars
  <2>6. CASE EmitInsn(x)
    <3>1. /\ stage[x] = "run" /\ lock' = lock
          /\ stage' = stage \/ stage' = [stage EXCEPT ![x] = "exit"]
      BY <2>6 DEF EmitInsn, Running, ExitWith, devVars
    <3> QED BY <3>1
  <2>7. CASE Leave(x) BY <2>7 DEF Leave, ExitWith, devVars
  <2>8. CASE Unlock(x) BY <2>8 DEF Unlock
  <2>9. CASE Close(x)
    <3>1. /\ stage[x] = "close" /\ lock' = lock
          /\ \/ stage' = [stage EXCEPT ![x] = "fault"]
             \/ stage' = [stage EXCEPT ![x] = "done"]
      BY <2>9 DEF Close, devVars
    <3> QED BY <3>1
  <2> QED BY <1>5, <2>1, <2>2, <2>3, <2>4, <2>5, <2>6, <2>7, <2>8, <2>9 DEF Step
<1>6. ASSUME NEW x \in Xfers, Finish(x) PROVE LockHeld' BY <1>6 DEF Finish, devVars
<1>7. CASE UNCHANGED vars BY <1>7 DEF vars, devVars
<1> QED BY <1>1, <1>2, <1>3, <1>4, <1>5, <1>6, <1>7 DEF AnyNext

\* Mutual exclusion: the bus lock is held by the one transfer inside mdio_nl_eval.
\* LockHeld is inductive as it stands, given the types.
THEOREM Locking == Spec => []LockHeld
<1>1. Init => LockHeld BY DEF Init, LockHeld
<1>2. TypeOK /\ LockHeld /\ [Next]_vars => LockHeld'
  BY LockKept, NextIsAny
<1> QED BY <1>1, <1>2, TypeCorrect, PTL DEF Spec

\* What changes on the bus, changes in a READ or a WRITE of whoever holds the lock.
OwnStep == \A x \in Xfers :
  x \in lock /\ dev' # dev => pc'[x] # pc[x] /\ insn(x).op \in {READ, WRITE}

LEMMA OwnSteps == TypeOK /\ LockHeld /\ [AnyNext]_vars => [OwnStep]_vars
<1> SUFFICES ASSUME TypeOK, LockHeld, AnyNext, dev' # dev PROVE OwnStep
  BY DEF vars, OwnStep
<1>1. CASE OtherUse BY <1>1 DEF OtherUse, OwnStep
<1>2. ASSUME NEW y \in Xfers, ReadInsn(y) \/ WriteInsn(y) PROVE OwnStep
  <2>1. stage[y] = "run" /\ insn(y).op \in {READ, WRITE} /\ Running(y) /\ GoOn(y)
    BY <1>2 DEF ReadInsn, WriteInsn, Running
  <2>2. \A x \in Xfers : x \in lock => x = y BY <2>1 DEF LockHeld
  <2>3. pc[y] \in 0..(PcSpan - 1) /\ pc'[y] = (pc[y] + 1) % PcSpan
    BY <2>1 DEF TypeOK, GoOn, Goto
  <2>4. PcSpan \in Int /\ PcSpan >= 2 BY PcSpanAssumption, SMTT(10) DEF U16
  <2>5. pc'[y] # pc[y]
    <3>1. CASE pc[y] = PcSpan - 1
      <4>1. PcSpan % PcSpan = 0 BY <2>4
      <4> QED BY <2>3, <2>4, <3>1, <4>1
    <3>2. CASE pc[y] < PcSpan - 1
      <4>1. (pc[y] + 1) % PcSpan = pc[y] + 1 BY <2>3, <2>4, <3>2
      <4> QED BY <2>3, <4>1
    <3> QED BY <2>3, <2>4, <3>1, <3>2
  <2> QED BY <2>1, <2>2, <2>5 DEF OwnStep
<1>3. ASSUME NEW y \in Xfers,
             AnyEnter(y) \/ Expire(y) \/ Lock(y) \/ Finish(y) \/ BusError(y) \/ AluInsn(y)
             \/ JumpInsn(y) \/ EmitInsn(y) \/ Leave(y) \/ Unlock(y) \/ Close(y)
      PROVE  FALSE
  BY <1>3 DEF AnyEnter, Refuse, OpenFails, Begin, Expire, Lock, Finish, BusError, AluInsn,
              JumpInsn, EmitInsn, Leave, Unlock, Close, devVars
<1> QED BY <1>1, <1>2, <1>3 DEF AnyNext, Step

\* Atomicity of a transfer on the bus: while it holds the lock, only its own READs
\* and WRITEs change what is on the bus.
THEOREM Isolation == Spec => Isolated
  BY OwnSteps, NextIsAny, TypeCorrect, Locking, PTL DEF Spec, Isolated, OwnStep

-------------------------------------------------------------------------------
(***************************************************************************)
(* The validator against the VM.                                           *)
(***************************************************************************)

\* The strengthening NoBug needs: a program on its way into the VM, or in it, is
\* one mdio_nl_validate_prog has accepted.
Validated ==
  \A x \in Xfers :
    stage[x] \in {"lock", "run"} => validate_prog(req[x].prog, req[x].aligned)

\* Nothing gets into the VM but through Begin, which only takes accepted programs.
LEMMA ValidatedKept == TypeOK /\ Validated /\ [AnyNext]_vars => Validated'
<1> SUFFICES ASSUME TypeOK, Validated, [AnyNext]_vars PROVE Validated' OBVIOUS
<1> USE DEF TypeOK, Validated
<1>1. CASE OtherUse BY <1>1 DEF OtherUse, vmVars
<1>2. ASSUME NEW x \in Xfers, AnyEnter(x) PROVE Validated'
  <2>1. PICK r : Refuse(x, r) \/ OpenFails(x, r) \/ Begin(x, r)
    BY <1>2 DEF AnyEnter
  <2>2. CASE Refuse(x, r) \/ OpenFails(x, r) BY <2>2 DEF Refuse, OpenFails
  <2>3. CASE Begin(x, r)
    <3>1. validate_prog(r.prog, r.aligned) BY <2>3 DEF Begin, RefusedWith, EINVAL
    <3> QED BY <2>3, <3>1 DEF Begin
  <2> QED BY <2>1, <2>2, <2>3
<1>3. ASSUME NEW x \in Xfers, Expire(x) PROVE Validated' BY <1>3 DEF Expire
<1>4. ASSUME NEW x \in Xfers, Lock(x) PROVE Validated' BY <1>4 DEF Lock, vmVars
<1>5. ASSUME NEW x \in Xfers, Step(x) PROVE Validated'
  <2>1. /\ req' = req
        /\ stage' = stage \/ \E st \in {"exit", "close", "done", "fault"} :
                               stage' = [stage EXCEPT ![x] = st]
    BY <1>5 DEF Step, ReadInsn, WriteInsn, BusError, AluInsn, JumpInsn, EmitInsn, Leave,
                Unlock, Close, ExitWith, vmVars
  <2> QED BY <2>1
<1>6. ASSUME NEW x \in Xfers, Finish(x) PROVE Validated' BY <1>6 DEF Finish
<1>7. CASE UNCHANGED vars BY <1>7 DEF vars, vmVars
<1> QED BY <1>1, <1>2, <1>3, <1>4, <1>5, <1>6, <1>7 DEF AnyNext

\* So it is for the requests of Spec.
LEMMA AlwaysValidated == Spec => []Validated
<1>1. Init => Validated BY DEF Init, Validated
<1>2. TypeOK /\ Validated /\ [Next]_vars => Validated'
  BY ValidatedKept, NextIsAny
<1> QED BY <1>1, <1>2, TypeCorrect, PTL DEF Spec

\* The prototypes of the validator admit exactly what the VM's accessors accept.
LEMMA ProtosMatch ==
  ASSUME NEW i \in Insn, validate_insn(i)
  PROVE  /\ i.op \in 1..OP_MAX
         /\ ArgMode(i.arg0) \in RI
         /\ i.op # EMIT => ArgMode(i.arg1) \in RI
         /\ i.op \in {READ, AND, OR, ADD} => ArgMode(i.arg2) = ARG_REG
         /\ i.op = WRITE => ArgMode(i.arg2) \in RI
         /\ i.op \in {JEQ, JNE} => ArgMode(i.arg2) = ARG_IMM
<1> USE DEF validate_insn, op_protos, OP_MAX, READ, WRITE, AND, OR, ADD, JEQ, JNE, EMIT,
            ARG_REG, ARG_IMM, ARG_NONE
<1>1. i.op \in 0..OP_MAX BY DEF Insn
<1>2. i.op # 0
  <2> SUFFICES ASSUME i.op = 0 PROVE FALSE OBVIOUS
  <2>1. op_protos(0) = <<{}, {}, {}>> OBVIOUS
  <2> QED BY <2>1
<1>3. CASE i.op \in {READ, AND, OR, ADD}
  <2>1. op_protos(i.op) = <<RI, RI, {ARG_REG}>> BY <1>3
  <2> QED BY <1>3, <2>1
<1>4. CASE i.op = WRITE
  <2>1. op_protos(i.op) = <<RI, RI, RI>> BY <1>4
  <2> QED BY <1>4, <2>1
<1>5. CASE i.op \in {JEQ, JNE}
  <2>1. op_protos(i.op) = <<RI, RI, {ARG_IMM}>> BY <1>5
  <2> QED BY <1>5, <2>1
<1>6. CASE i.op = EMIT
  <2>1. op_protos(i.op) = <<RI, {ARG_NONE}, {ARG_NONE}>> BY <1>6
  <2> QED BY <1>6, <2>1
<1> QED BY <1>1, <1>2, <1>3, <1>4, <1>5, <1>6

\* What was accepted has neither an operand nor an operation that the VM does not know.
LEMMA ValidatedRuns == TypeOK /\ Validated => NoBug
<1> SUFFICES ASSUME TypeOK, Validated, NEW x \in Xfers, Running(x)
             PROVE  insn(x).op \in 1..OP_MAX /\ OperandsOK(x)
  BY DEF NoBug
<1>1. validate_prog(req[x].prog, req[x].aligned) BY DEF Validated, Running
<1>2. insn(x) \in Insn /\ validate_insn(insn(x)) BY <1>1, InsnType DEF validate_prog, insn
<1> QED BY <1>2, ProtosMatch DEF OperandsOK

\* No program, however it jumps, makes the VM reach one of its BUG()s or an unknown
\* operation: the validator and the interpreter agree.
THEOREM NoBugEver == Spec => []NoBug
<1>1. TypeOK /\ Validated => NoBug
  BY ValidatedRuns
<1> QED BY <1>1, TypeCorrect, AlwaysValidated, PTL

-------------------------------------------------------------------------------
(***************************************************************************)
(* Ownership of the message.                                               *)
(***************************************************************************)

\* The strengthening OwnsMessage needs: what the handler holds in each stage.
Holding ==
  \A x \in Xfers :
    /\ stage[x] \in {"lock", "run"} => msg[x].st = "open"
    /\ stage[x] \in {"exit", "close"} => msg[x].st = "open" \/ lost[x]
    /\ stage[x] = "fault" => lost[x]

\* All paths through flush and close reopen the message they gave away, or stop.
LEMMA HoldingKept == TypeOK /\ Holding /\ [AnyNext]_vars => Holding'
<1> SUFFICES ASSUME TypeOK, Holding, [AnyNext]_vars PROVE Holding' OBVIOUS
<1>1. CASE OtherUse BY <1>1 DEF Holding, OtherUse, vmVars, msgVars
<1>2. ASSUME NEW x \in Xfers, AnyEnter(x) PROVE Holding'
  <2>1. PICK r : Refuse(x, r) \/ OpenFails(x, r) \/ Begin(x, r)
    BY <1>2 DEF AnyEnter
  <2>2. CASE Refuse(x, r) BY <2>2 DEF TypeOK, Holding, Refuse
  <2>3. CASE OpenFails(x, r)
    <3>1. \E m : msg' = [msg EXCEPT ![x] = m] BY <2>3 DEF OpenFails
    <3> QED BY <2>3, <3>1 DEF TypeOK, Holding, OpenFails
  <2>4. CASE Begin(x, r) BY <2>4, MsgTypes DEF TypeOK, Holding, Begin
  <2> QED BY <2>1, <2>2, <2>3, <2>4
<1>3. ASSUME NEW x \in Xfers, Expire(x) PROVE Holding'
  BY <1>3 DEF Holding, Expire, msgVars
<1>4. ASSUME NEW x \in Xfers, Lock(x) PROVE Holding'
  BY <1>4 DEF TypeOK, Holding, Lock, msgVars
<1>5. ASSUME NEW x \in Xfers, EmitInsn(x) PROVE Holding'
  <2>1. Running(x) /\ stage[x] = "run" BY <1>5 DEF EmitInsn, Running
  <2>2. PICK o \in mdio_nl_emit(msg[x], sock[x], lost[x], A0(x)) :
          /\ msg' = [msg EXCEPT ![x] = o.msg]
          /\ lost' = [lost EXCEPT ![x] = o.lost]
          /\ IF o.ret = 0 THEN stage' = stage ELSE stage' = [stage EXCEPT ![x] = "exit"]
    BY <1>5 DEF EmitInsn, ExitWith
  <2>3. /\ msg[x] \in Msg /\ msg[x].st = "open" /\ sock[x] \in Seq(Datagram)
        /\ lost[x] \in BOOLEAN /\ A0(x) \in Word
    BY <2>1, OperandWords DEF TypeOK, Holding
  <2>4. Owned(o) BY <2>3, EmitType
  <2> QED BY <2>1, <2>2, <2>4 DEF TypeOK, Holding, Owned
<1>6. ASSUME NEW x \in Xfers, Close(x) PROVE Holding'
  <2>1. stage[x] = "close" BY <1>6 DEF Close
  <2>2. PICK o \in mdio_nl_close(msg[x], sock[x], lost[x], ret[x]) :
          /\ msg' = [msg EXCEPT ![x] = o.msg]
          /\ lost' = [lost EXCEPT ![x] = o.lost]
          /\ IF o.msg = Misused THEN stage' = [stage EXCEPT ![x] = "fault"]
             ELSE stage' = [stage EXCEPT ![x] = "done"]
    BY <1>6 DEF Close
  <2>3. /\ msg[x] \in Msg /\ sock[x] \in Seq(Datagram) /\ lost[x] \in BOOLEAN
        /\ ret[x] \in Int /\ (msg[x].st = "open" \/ lost[x])
    BY <2>1 DEF TypeOK, Holding
  <2>4. o.msg = Misused => o.lost BY <2>3, CloseType
  <2> QED BY <2>1, <2>2, <2>4 DEF TypeOK, Holding
<1>7. ASSUME NEW x \in Xfers,
             ReadInsn(x) \/ WriteInsn(x) \/ BusError(x) \/ AluInsn(x) \/ JumpInsn(x)
             \/ Leave(x) \/ Unlock(x)
      PROVE  Holding'
  <2>1. /\ msg' = msg /\ lost' = lost
        /\ \/ stage' = stage
           \/ stage[x] = "run" /\ stage' = [stage EXCEPT ![x] = "exit"]
           \/ stage[x] = "exit" /\ stage' = [stage EXCEPT ![x] = "close"]
    BY <1>7 DEF ReadInsn, WriteInsn, BusError, AluInsn, JumpInsn, Leave, Unlock, Running,
                ExitWith, msgVars
  <2> QED BY <2>1 DEF TypeOK, Holding
<1>8. ASSUME NEW x \in Xfers, Finish(x) PROVE Holding'
  BY <1>8 DEF TypeOK, Holding, Finish
<1>9. CASE UNCHANGED vars BY <1>9 DEF Holding, vars, vmVars, msgVars
<1> QED BY <1>1, <1>2, <1>3, <1>4, <1>5, <1>6, <1>7, <1>8, <1>9 DEF AnyNext, Step

\* No message is used after it was given away, unless one could not be allocated or
\* delivered before: all other paths through flush and close reopen or stop.
THEOREM Ownership == Spec => []OwnsMessage
<1>1. Init => Holding BY DEF Init, Holding
<1>2. TypeOK /\ Holding /\ [Next]_vars => Holding'
  BY HoldingKept, NextIsAny
<1>3. Holding => OwnsMessage BY DEF Holding, OwnsMessage
<1> QED BY <1>1, <1>2, <1>3, TypeCorrect, PTL DEF Spec

-------------------------------------------------------------------------------
(***************************************************************************)
(* References on the bus.                                                  *)
(***************************************************************************)

\* The strengthening RefsBalance needs: only finitely many handlers are under way,
\* however many transfers there can be, so that they can be counted.
Handlers == {x \in Xfers : stage[x] \in {"lock", "run", "exit", "close", "fault"}}
Counted == IsFiniteSet(Handlers) /\ refs = Cardinality(Handlers)

\* A transfer whose stage changes within the handler, or outside of it, changes
\* nothing about who is under way; one that enters or leaves does.
LEMMA HandlersStep ==
  ASSUME TypeOK, NEW x \in Xfers, NEW st, stage' = [stage EXCEPT ![x] = st]
  PROVE  Handlers' = IF st \in {"lock", "run", "exit", "close", "fault"}
                       THEN Handlers \cup {x} ELSE Handlers \ {x}
  BY DEF TypeOK, Handlers

\* What one handler does adds it to those under way, takes it from them, or neither.
LEMMA CountedKept == TypeOK /\ Counted /\ [AnyNext]_vars => Counted'
<1> SUFFICES ASSUME TypeOK, Counted, [AnyNext]_vars PROVE Counted' OBVIOUS
<1>0. ASSUME NEW x \in Xfers, NEW st, stage' = [stage EXCEPT ![x] = st], refs' = refs,
             (x \in Handlers) <=> (st \in {"lock", "run", "exit", "close", "fault"})
      PROVE  Counted'
  <2>1. Handlers' = IF x \in Handlers THEN Handlers \cup {x} ELSE Handlers \ {x}
    BY <1>0, HandlersStep
  <2>2. Handlers' = Handlers BY <2>1
  <2> QED BY <1>0, <2>2 DEF Counted
<1>1. CASE OtherUse BY <1>1 DEF OtherUse, Counted, Handlers
<1>2. ASSUME NEW x \in Xfers, AnyEnter(x) PROVE Counted'
  <2>1. PICK r : Refuse(x, r) \/ OpenFails(x, r) \/ Begin(x, r)
    BY <1>2 DEF AnyEnter
  <2>2. x \notin Handlers BY <2>1 DEF Refuse, OpenFails, Begin, Handlers
  <2>3. CASE Refuse(x, r) \/ OpenFails(x, r)
    <3>1. stage' = [stage EXCEPT ![x] = "done"] /\ refs' = refs
      BY <2>3 DEF Refuse, OpenFails
    <3> QED BY <1>0, <2>2, <3>1
  <2>4. CASE Begin(x, r)
    <3>1. stage' = [stage EXCEPT ![x] = "lock"] /\ refs' = refs + 1 BY <2>4 DEF Begin
    <3>2. Handlers' = Handlers \cup {x} BY <3>1, HandlersStep
    <3> QED BY <2>2, <3>1, <3>2, FS_AddElement DEF Counted
  <2> QED BY <2>1, <2>3, <2>4
<1>3. ASSUME NEW x \in Xfers, Expire(x) PROVE Counted'
  BY <1>3 DEF Expire, Counted, Handlers
<1>4. ASSUME NEW x \in Xfers, Lock(x) PROVE Counted'
  BY <1>0, <1>4 DEF Lock, Handlers
<1>5. ASSUME NEW x \in Xfers, Step(x), ~Close(x) PROVE Counted'
  <2>1. /\ refs' = refs
        /\ \/ stage' = stage
           \/ stage[x] = "run" /\ stage' = [stage EXCEPT ![x] = "exit"]
           \/ stage[x] = "exit" /\ stage' = [stage EXCEPT ![x] = "close"]
    BY <1>5 DEF Step, ReadInsn, WriteInsn, BusError, AluInsn, JumpInsn, EmitInsn, Leave,
                Unlock, ExitWith, Running
  <2>2. CASE stage' = stage BY <2>1, <2>2 DEF Counted, Handlers
  <2> QED BY <1>0, <2>1, <2>2 DEF Handlers
<1>6. ASSUME NEW x \in Xfers, Close(x) PROVE Counted'
  <2>1. /\ stage[x] = "close"
        /\ \/ stage' = [stage EXCEPT ![x] = "fault"] /\ refs' = refs
           \/ stage' = [stage EXCEPT ![x] = "done"] /\ refs' = refs - 1
    BY <1>6 DEF Close
  <2>2. x \in Handlers BY <2>1 DEF Handlers
  <2>3. CASE stage' = [stage EXCEPT ![x] = "done"] /\ refs' = refs - 1
    <3>1. Handlers' = Handlers \ {x} BY <2>3, HandlersStep
    <3> QED BY <2>2, <2>3, <3>1, FS_RemoveElement DEF Counted
  <2> QED BY <1>0, <2>1, <2>2, <2>3
<1>7. ASSUME NEW x \in Xfers, Finish(x) PROVE Counted'
  BY <1>0, <1>7 DEF Finish, Handlers
<1>8. CASE UNCHANGED vars BY <1>8 DEF vars, Counted, Handlers
<1> QED BY <1>1, <1>2, <1>3, <1>4, <1>5, <1>6, <1>7, <1>8 DEF AnyNext

\* Every way through the handler puts the bus it found, once: mdio_find_bus and
\* put_device balance.
THEOREM References == Spec => []RefsBalance
<1>1. Init => Counted
  <2> SUFFICES ASSUME Init PROVE Counted OBVIOUS
  <2>1. Handlers = {} BY DEF Init, Handlers
  <2> QED BY <2>1, FS_EmptySet DEF Init, Counted
<1>2. TypeOK /\ Counted /\ [Next]_vars => Counted'
  BY CountedKept, NextIsAny
<1>3. Counted => RefsBalance BY DEF Counted, RefsBalance, Handlers
<1> QED BY <1>1, <1>2, <1>3, TypeCorrect, PTL DEF Spec

-------------------------------------------------------------------------------
(***************************************************************************)
(* The words of a sequence of messages, a recursive function.              *)
(***************************************************************************)

\* One message's DATA behind the words before it.
Join(w, d) == w \o d.data

\* f gives the words of the first i messages of s, for every i up to n.
WordsTo(s, n, f) ==
  f = [i \in 0..n |-> IF i = 0 THEN <<>> ELSE Join(f[i - 1], s[i])]

\* For every number of messages there is such a function.
LEMMA WordsExist == ASSUME NEW s, NEW n \in Nat PROVE \E f : WordsTo(s, n, f)
<1> DEFINE T == {k \in Nat : \E f : WordsTo(s, k, f)}
<1>1. 0 \in T
  <2> DEFINE f == [i \in 0..0 |-> <<>>]
  <2>1. WordsTo(s, 0, f) BY DEF WordsTo
  <2> QED BY <2>1
<1>2. ASSUME NEW k \in Nat, k \in T PROVE k + 1 \in T
  <2>1. PICK f : WordsTo(s, k, f) BY <1>2
  <2> DEFINE g == [i \in 0..(k + 1) |-> IF i <= k THEN f[i] ELSE Join(f[k], s[k + 1])]
  <2>2. ASSUME NEW i \in 0..(k + 1)
        PROVE  g[i] = IF i = 0 THEN <<>> ELSE Join(g[i - 1], s[i])
    <3>1. CASE i <= k BY <2>1, <3>1 DEF WordsTo
    <3>2. CASE i = k + 1 BY <3>2
    <3> QED BY <3>1, <3>2
  <2>3. WordsTo(s, k + 1, g) BY <2>2 DEF WordsTo
  <2> QED BY <2>3
<1> HIDE DEF T
<1>3. Nat \subseteq T BY <1>1, <1>2, NatInSet
<1> QED BY <1>3 DEF T

\* What it is at 0, and at a message from the one before.
LEMMA WordsStep ==
  ASSUME NEW s, NEW n \in Nat, NEW f, WordsTo(s, n, f)
  PROVE  f[0] = <<>> /\ \A i \in 1..n : f[i] = Join(f[i - 1], s[i])
<1> DEFINE E(i) == IF i = 0 THEN <<>> ELSE Join(f[i - 1], s[i])
<1>1. f = [i \in 0..n |-> E(i)] BY DEF WordsTo
<1> HIDE DEF E
<1>2. \A i \in 0..n : f[i] = E(i) BY <1>1
<1>3. f[0] = E(0) BY <1>2
<1>4. ASSUME NEW i \in 1..n PROVE f[i] = E(i) BY <1>2
<1>5. \A i \in 1..n : E(i) = Join(f[i - 1], s[i]) BY DEF E
<1>6. E(0) = <<>> BY DEF E
<1> QED BY <1>3, <1>4, <1>5, <1>6

\* Sequences that agree up to a message have the same words up to it.
LEMMA WordsSame ==
  ASSUME NEW s, NEW t, NEW n \in Nat, NEW m \in Nat, n <= m,
         \A i \in 1..n : s[i] = t[i],
         NEW f, WordsTo(s, n, f), NEW g, WordsTo(t, m, g)
  PROVE  \A i \in 0..n : f[i] = g[i]
<1> DEFINE T == {k \in Nat : k <= n => f[k] = g[k]}
<1>1. 0 \in T BY WordsStep
<1>2. ASSUME NEW k \in Nat, k \in T PROVE k + 1 \in T
  <2> SUFFICES ASSUME k + 1 <= n PROVE f[k + 1] = g[k + 1] OBVIOUS
  <2>1. f[k] = g[k] /\ s[k + 1] = t[k + 1] BY <1>2
  <2>2. f[k + 1] = Join(f[k], s[k + 1]) BY WordsStep
  <2>3. g[k + 1] = Join(g[k], t[k + 1]) BY WordsStep
  <2> QED BY <2>1, <2>2, <2>3
<1> HIDE DEF T
<1>3. Nat \subseteq T BY <1>1, <1>2, NatInSet
<1> QED BY <1>3 DEF T

\* Words is the last value of such a function.
LEMMA WordsDef ==
  ASSUME NEW s, Len(s) \in Nat
  PROVE  \E f : WordsTo(s, Len(s), f) /\ Words(s) = f[Len(s)]
<1> DEFINE f == CHOOSE g : WordsTo(s, Len(s), g)
<1>1. WordsTo(s, Len(s), f) BY WordsExist
<1>2. Words(s) = f[Len(s)] BY DEF Words, WordsTo, Join
<1> QED BY <1>1, <1>2

\* No messages, no words.
LEMMA WordsEmpty == Words(<<>>) = <<>>
<1>1. Len(<<>>) = 0 OBVIOUS
<1>2. PICK f : WordsTo(<<>>, 0, f) /\ Words(<<>>) = f[0] BY <1>1, WordsDef
<1> QED BY <1>2, WordsStep

\* One more message adds its words at the end.
LEMMA WordsAppend ==
  ASSUME NEW S, NEW s \in Seq(S), NEW d \in S
  PROVE  Words(Append(s, d)) = Words(s) \o d.data
<1> DEFINE t == Append(s, d)  n == Len(s)
<1>1. n \in Nat /\ Len(t) = n + 1 /\ t[n + 1] = d /\ \A i \in 1..n : s[i] = t[i] OBVIOUS
<1>2. PICK f : WordsTo(s, n, f) /\ Words(s) = f[n] BY <1>1, WordsDef
<1> HIDE DEF t
<1>3. PICK g : WordsTo(t, n + 1, g) /\ Words(t) = g[n + 1] BY <1>1, WordsDef
<1>4. f[n] = g[n]
  <2>1. n <= n + 1 /\ n + 1 \in Nat /\ n \in 0..n BY <1>1
  <2> HIDE DEF n
  <2> QED BY <1>1, <1>2, <1>3, <2>1, WordsSame
<1>5. g[n + 1] = Join(g[n], t[n + 1]) BY <1>1, <1>3, WordsStep
<1> QED BY <1>1, <1>2, <1>3, <1>4, <1>5 DEF t, Join

\* The words of messages are integers.
LEMMA WordsType == \A s \in Seq(Datagram) : Words(s) \in Seq(Int)
<1> DEFINE T == {n \in Nat : \A s \in Seq(Datagram) : Len(s) = n => Words(s) \in Seq(Int)}
<1>1. 0 \in T
  <2> SUFFICES ASSUME NEW s \in Seq(Datagram), Len(s) = 0 PROVE Words(s) \in Seq(Int)
    OBVIOUS
  <2>1. s = <<>> OBVIOUS
  <2>2. Words(s) = <<>> BY <2>1, WordsEmpty
  <2> QED BY <2>2
<1>2. ASSUME NEW n \in Nat, n \in T PROVE n + 1 \in T
  <2> SUFFICES ASSUME NEW s \in Seq(Datagram), Len(s) = n + 1 PROVE Words(s) \in Seq(Int)
    OBVIOUS
  <2>1. PICK t \in Seq(Datagram), d \in Datagram : s = Append(t, d)
    BY SequenceEmptyOrAppend
  <2>2. Len(t) = n BY <2>1
  <2>3. Words(t) \in Seq(Int) BY <1>2, <2>2
  <2>4. d.data \in Seq(Int) BY DEF Datagram
  <2>5. Words(s) = Words(t) \o d.data BY <2>1, WordsAppend
  <2> QED BY <2>3, <2>4, <2>5
<1> HIDE DEF T
<1>3. Nat \subseteq T BY <1>1, <1>2, NatInSet
<1> QED BY <1>3 DEF T

-------------------------------------------------------------------------------
(***************************************************************************)
(* What the operations on the message under construction do.               *)
(***************************************************************************)

\* The messages of a reply before the one that ends it.
Flushed(s) ==
  \A i \in 1..Len(s) : s[i].kind = "xfer" /\ s[i].ends /\ ~s[i].done /\ s[i].err = 0

\* A message under construction, before it is closed.
Building(m) == m.st = "open" /\ m.err = 0 /\ ~m.done

\* What a flush of m puts into the socket.
Piece(m) == Skb([nest_end(m) EXCEPT !.ends = TRUE])

\* A flush turns whatever the message holds, the ERROR attribute too, into DATA.
LEMMA PieceIs ==
  ASSUME NEW m \in Msg
  PROVE  /\ Piece(m) \in Datagram /\ Piece(m).kind = "xfer" /\ Piece(m).ends
         /\ Piece(m).err = 0 /\ Piece(m).done = m.done
         /\ Piece(m).data = m.data \o ErrorWords(m)
<1> DEFINE d == m.data \o ErrorWords(m)
<1>1. ErrorWords(m) \in Seq(Int) BY SMTT(10) DEF ErrorWords, Msg
<1>2. d \in Seq(Int) BY <1>1, SMTT(10) DEF Msg
<1>3. nest_end(m) = [m EXCEPT !.data = d, !.err = 0] BY DEF nest_end
<1> HIDE DEF d
<1>4. Piece(m) = [kind |-> "xfer", data |-> d, err |-> 0, ends |-> TRUE, done |-> m.done]
  BY <1>3 DEF Piece, Skb, Msg
<1>5. m.done \in BOOLEAN BY DEF Msg
<1> QED BY <1>2, <1>4, <1>5 DEF Datagram, d

\* One more message that does not end the reply.
LEMMA FlushedAppend ==
  ASSUME NEW m \in Msg, ~m.done, NEW s \in Seq(Datagram), Flushed(s)
  PROVE  /\ Append(s, Piece(m)) \in Seq(Datagram)
         /\ Flushed(Append(s, Piece(m)))
         /\ Words(Append(s, Piece(m))) = Words(s) \o (m.data \o ErrorWords(m))
<1> DEFINE d == Piece(m)
<1>1. /\ d \in Datagram /\ d.kind = "xfer" /\ d.ends /\ d.err = 0 /\ ~d.done
      /\ d.data = m.data \o ErrorWords(m)
  BY PieceIs
<1> HIDE DEF d
<1>2. Append(s, d) \in Seq(Datagram) BY <1>1
<1>3. Flushed(Append(s, d))
  <2> SUFFICES ASSUME NEW i \in 1..(Len(s) + 1)
               PROVE  LET a == Append(s, d)[i]
                      IN  a.kind = "xfer" /\ a.ends /\ ~a.done /\ a.err = 0
    BY <1>1, AppendProperties DEF Flushed
  <2>1. CASE i <= Len(s)
    <3>1. Append(s, d)[i] = s[i] BY <2>1
    <3> QED BY <2>1, <3>1 DEF Flushed
  <2>2. CASE i = Len(s) + 1
    <3>1. Append(s, d)[i] = d BY <2>2
    <3> QED BY <1>1, <3>1
  <2> QED BY <2>1, <2>2
<1>4. Words(Append(s, d)) = Words(s) \o d.data BY <1>1, WordsAppend
<1> QED BY <1>1, <1>2, <1>3, <1>4 DEF d

\* A flush that works leaves a new message and the old one delivered; one that does
\* not leaves no message to work on.
LEMMA FlushIs ==
  ASSUME NEW m \in Msg, NEW s \in Seq(Datagram), NEW l \in BOOLEAN,
         NEW o \in mdio_nl_flush(m, s, l)
  PROVE  \/ o = Outcome(Fresh, Append(s, Piece(m)), l, 0)
         \/ /\ o.ret # 0 /\ o.lost /\ o.msg \in {Null, Sent}
            /\ o.sock \in {s, Append(s, Piece(m))}
<1> DEFINE n == [nest_end(m) EXCEPT !.ends = TRUE]
<1>1. PICK u \in unicast(n, s, l) :
        IF u.ret # 0 THEN o = u ELSE o \in mdio_nl_open(u.sock, u.lost)
  BY DEF mdio_nl_flush
<1>2. Skb(n) = Piece(m) BY DEF Piece
<1> HIDE DEF n
<1>3. CASE u = Outcome(Sent, Append(s, Piece(m)), l, 0)
  <2>1. o \in mdio_nl_open(Append(s, Piece(m)), l) BY <1>1, <1>3 DEF Outcome
  <2> QED BY <2>1 DEF mdio_nl_open, Outcome, ENOMEM
<1>4. CASE u = Outcome(Sent, s, TRUE, -EAGAIN)
  <2>1. o = u BY <1>1, <1>4 DEF Outcome, EAGAIN
  <2> QED BY <1>4, <2>1 DEF Outcome, EAGAIN
<1> QED BY <1>2, <1>3, <1>4 DEF unicast

\* A message without an error has the words of its DATA in it and no others.
LEMMA BuildingUses ==
  ASSUME NEW m \in Msg, m.err = 0
  PROVE  ErrorWords(m) = <<>> /\ Used(m) = Len(m.data) /\ m.data \o ErrorWords(m) = m.data
<1>1. ErrorWords(m) = <<>> BY DEF ErrorWords
<1>2. m.data \in Seq(Int) /\ Len(m.data) \in Nat BY DEF Msg
<1>3. Len(<<>>) = 0 OBVIOUS
<1> QED BY <1>1, <1>2, <1>3, ConcatEmptySeq DEF Used

\* The new message of a flush.
LEMMA FreshIs ==
  Fresh.st = "open" /\ Fresh.data = <<>> /\ Fresh.err = 0 /\ ~Fresh.done /\ ~Fresh.ends
  BY DEF Fresh

\* Adding an element to the second of two sequences adds it to both together.
LEMMA ConcatAppend ==
  ASSUME NEW a \in Seq(Int), NEW b \in Seq(Int), NEW e \in Int
  PROVE  a \o Append(b, e) = Append(a \o b, e)
<1>1. a \o b \in Seq(Int) /\ <<e>> \in Seq(Int) OBVIOUS
<1>2. Append(b, e) = b \o <<e>> BY AppendIsConcat
<1>3. Append(a \o b, e) = (a \o b) \o <<e>> BY <1>1, AppendIsConcat
<1>4. (a \o b) \o <<e>> = a \o (b \o <<e>>) BY <1>1, ConcatAssociative
<1> QED BY <1>2, <1>3, <1>4

\* EMIT adds its word to what has been put out, across the boundary of messages too,
\* or there is no message left; the boundary is reached when a message is full.
LEMMA EmitIs ==
  ASSUME NEW m \in Msg, Building(m), NEW s \in Seq(Datagram), Flushed(s),
         NEW datum \in Word, NEW o \in mdio_nl_emit(m, s, FALSE, datum)
  PROVE  /\ Flushed(o.sock)
         /\ o.ret = 0 =>
              /\ ~o.lost /\ Building(o.msg)
              /\ Words(o.sock) \o o.msg.data = Append(Words(s) \o m.data, datum)
         /\ o.ret # 0 => o.lost /\ o.msg.st # "open"
         /\ (o.sock = s /\ o.ret = 0) \/ Len(m.data) >= Cap
<1> DEFINE w == Words(s)
<1>0. /\ datum \in Int /\ w \in Seq(Int) /\ m.data \in Seq(Int)
      /\ Cap \in Int /\ Len(m.data) \in Int
  BY WordInt, WordsType, CapAssumption DEF Msg
<1>1. Used(m) = Len(m.data) /\ m.data \o ErrorWords(m) = m.data
  BY BuildingUses DEF Building
<1>2. ASSUME NEW n \in Msg
      PROVE  /\ put_datum(n, datum).data = Append(n.data, datum)
             /\ Building(n) => Building(put_datum(n, datum))
  BY DEF put_datum, Msg, Building
<1> HIDE DEF w
<1>3. CASE Used(m) + 1 <= Cap
  <2>1. o = Outcome(put_datum(m, datum), s, FALSE, 0) BY <1>3 DEF mdio_nl_emit
  <2>2. o.msg = put_datum(m, datum) /\ o.sock = s /\ ~o.lost /\ o.ret = 0
    BY <2>1 DEF Outcome
  <2>3. w \o Append(m.data, datum) = Append(w \o m.data, datum) BY <1>0, ConcatAppend
  <2> QED BY <1>2, <2>2, <2>3 DEF w
<1>4. CASE ~(Used(m) + 1 <= Cap)
  <2>1. Len(m.data) >= Cap BY <1>0, <1>1, <1>4
  <2>2. PICK f \in mdio_nl_flush(m, s, FALSE) :
          o = IF f.ret # 0 THEN f ELSE [f EXCEPT !.msg = put_datum(f.msg, datum)]
    BY <1>4 DEF mdio_nl_emit
  <2>3. /\ Flushed(Append(s, Piece(m)))
        /\ Words(Append(s, Piece(m))) = w \o m.data
    BY <1>1, FlushedAppend DEF Building, w
  <2>4. CASE f = Outcome(Fresh, Append(s, Piece(m)), FALSE, 0)
    <3>1. o = Outcome(put_datum(Fresh, datum), Append(s, Piece(m)), FALSE, 0)
      BY <2>2, <2>4 DEF Outcome
    <3>2. /\ o.msg = put_datum(Fresh, datum) /\ o.sock = Append(s, Piece(m))
          /\ ~o.lost /\ o.ret = 0
      BY <3>1 DEF Outcome
    <3>3. o.msg.data = Append(<<>>, datum) /\ Building(o.msg)
      BY <1>2, <3>2, FreshIs, MsgTypes DEF Building
    <3>4. (w \o m.data) \o Append(<<>>, datum) = Append(w \o m.data, datum)
      <4>1. w \o m.data \in Seq(Int) BY <1>0
      <4> QED BY <1>0, <4>1
    <3> QED BY <2>1, <2>3, <3>2, <3>3, <3>4 DEF w
  <2>5. CASE /\ f.ret # 0 /\ f.lost /\ f.msg \in {Null, Sent}
             /\ f.sock \in {s, Append(s, Piece(m))}
    <3>1. o = f BY <2>2, <2>5
    <3>2. f.msg.st # "open" BY <2>5, MsgTypes
    <3>3. Flushed(f.sock) BY <2>3, <2>5
    <3> QED BY <2>1, <2>5, <3>1, <3>2, <3>3
  <2> QED BY <2>4, <2>5, FlushIs
<1> QED BY <1>3, <1>4

\* Closing puts the ERROR attribute into the message, or into a new one if the
\* message is nearly full.
LEMMA PutErrorIs ==
  ASSUME NEW m \in Msg, Building(m), NEW s \in Seq(Datagram), Flushed(s),
         NEW xerr \in Int, NEW o \in put_error(m, s, FALSE, xerr)
  PROVE  /\ o \in Outcomes /\ Flushed(o.sock)
         /\ o.ret = 0 =>
              /\ ~o.lost /\ o.msg.st = "open" /\ ~o.msg.done /\ o.msg.err = xerr
              /\ xerr = 0 => o.sock = s /\ o.msg.data = m.data
              /\ \/ o.sock = s /\ o.msg.data = m.data
                 \/ o.msg.data = <<>> /\ Len(m.data) + 2 > Cap
         /\ o.ret # 0 => o.lost /\ o.msg \in {Null, Sent} /\ Len(m.data) + 2 > Cap
<1>0. m.st = "open" /\ m.err = 0 /\ ~m.done BY DEF Building
<1>1. o \in Outcomes BY <1>0, PutErrorType
<1>2. Used(m) = Len(m.data) BY <1>0, BuildingUses
<1>3. CASE xerr = 0
  <2>1. o = Outcome(m, s, FALSE, 0) BY <1>3 DEF put_error
  <2> QED BY <1>0, <1>1, <1>3, <2>1 DEF Outcome
<1>4. CASE xerr # 0 /\ Used(m) + 2 <= Cap
  <2> DEFINE n == [m EXCEPT !.err = xerr]
  <2>1. o = Outcome(n, s, FALSE, 0) BY <1>4 DEF put_error
  <2>2. n.st = "open" /\ ~n.done /\ n.err = xerr /\ n.data = m.data BY <1>0 DEF Msg
  <2> HIDE DEF n
  <2> QED BY <1>1, <1>4, <2>1, <2>2 DEF Outcome
<1>5. CASE xerr # 0 /\ ~(Used(m) + 2 <= Cap)
  <2>1. PICK f \in mdio_nl_flush(m, s, FALSE) :
          o = IF f.ret # 0 THEN f ELSE [f EXCEPT !.msg.err = xerr]
    BY <1>5 DEF put_error
  <2>2. Flushed(Append(s, Piece(m))) BY <1>0, FlushedAppend
  <2>3. Len(m.data) + 2 > Cap
    <3>1. Len(m.data) \in Int /\ Cap \in Int BY CapAssumption DEF Msg
    <3> QED BY <1>2, <1>5, <3>1
  <2>4. CASE f = Outcome(Fresh, Append(s, Piece(m)), FALSE, 0)
    <3> DEFINE n == [Fresh EXCEPT !.err = xerr]
    <3>1. o = Outcome(n, Append(s, Piece(m)), FALSE, 0)
      BY <2>1, <2>4 DEF Outcome
    <3>2. n.st = "open" /\ ~n.done /\ n.err = xerr /\ n.data = <<>> BY DEF Fresh
    <3> HIDE DEF n
    <3> QED BY <1>1, <1>5, <2>2, <2>3, <3>1, <3>2 DEF Outcome
  <2>5. CASE /\ f.ret # 0 /\ f.lost /\ f.msg \in {Null, Sent}
             /\ f.sock \in {s, Append(s, Piece(m))}
    <3>1. o = f BY <2>1, <2>5
    <3>2. Flushed(f.sock) BY <2>2, <2>5
    <3> QED BY <1>1, <2>3, <2>5, <3>1, <3>2
  <2> QED BY <2>4, <2>5, FlushIs
<1> QED BY <1>3, <1>4, <1>5

\* NLMSG_DONE goes into the message, or into a new one whose length does not cover
\* any attributes; a flush takes the ERROR attribute with it as DATA.
LEMMA PutDoneIs ==
  ASSUME NEW m \in Msg, m.st = "open", ~m.done, NEW s \in Seq(Datagram), Flushed(s),
         NEW o \in put_done(m, s, FALSE)
  PROVE  /\ o \in Outcomes
         /\ o.ret = 0 =>
              /\ ~o.lost
              /\ \/ o.sock = s /\ o.msg = [m EXCEPT !.done = TRUE]
                 \/ /\ o.sock = Append(s, Piece(m)) /\ o.msg = [Fresh EXCEPT !.done = TRUE]
                    /\ Used(m) + 4 > Cap
         /\ o.ret # 0 => /\ o.lost /\ o.msg \in {Null, Sent} /\ Flushed(o.sock)
                         /\ Used(m) + 4 > Cap
<1>1. o \in Outcomes BY PutDoneType
<1>2. CASE Used(m) + 4 <= Cap
  <2>1. o = Outcome([m EXCEPT !.done = TRUE], s, FALSE, 0) BY <1>2 DEF put_done
  <2> QED BY <1>1, <2>1 DEF Outcome
<1>3. CASE ~(Used(m) + 4 <= Cap)
  <2>1. PICK f \in mdio_nl_flush(m, s, FALSE) :
          o = IF f.ret # 0 THEN f ELSE [f EXCEPT !.msg.done = TRUE]
    BY <1>3 DEF put_done
  <2>2. Flushed(Append(s, Piece(m))) BY FlushedAppend
  <2>3. Used(m) + 4 > Cap
    <3>1. ErrorWords(m) \in Seq(Int) /\ m.data \in Seq(Int)
      BY SMTT(10) DEF ErrorWords, Msg
    <3>2. Used(m) \in Int BY <3>1 DEF Used
    <3> QED BY <1>3, <3>2, CapAssumption
  <2>4. CASE f = Outcome(Fresh, Append(s, Piece(m)), FALSE, 0)
    <3>1. o = Outcome([Fresh EXCEPT !.done = TRUE], Append(s, Piece(m)), FALSE, 0)
      BY <2>1, <2>4 DEF Outcome
    <3> QED BY <1>1, <2>3, <3>1 DEF Outcome
  <2>5. CASE /\ f.ret # 0 /\ f.lost /\ f.msg \in {Null, Sent}
             /\ f.sock \in {s, Append(s, Piece(m))}
    <3>1. o = f BY <2>1, <2>5
    <3>2. Flushed(f.sock) BY <2>2, <2>5
    <3> QED BY <1>1, <2>3, <2>5, <3>1, <3>2
  <2> QED BY <2>4, <2>5, FlushIs
<1> QED BY <1>2, <1>3

\* How a reply that was s, with m under construction, ends: with message d behind t.
\* The error of the program is in d, if any attribute of d can be read at all.
Concluded(t, d, m, s, xerr) ==
  /\ Flushed(t) /\ d.kind = "xfer" /\ d.done
  /\ xerr = 0 => d.err = 0 /\ Words(Append(t, d)) = Words(s) \o m.data
  /\ xerr # 0 /\ d.ends => d.err = xerr
  /\ Len(m.data) + 6 <= Cap => t = s /\ d.ends

\* The words a message takes: its DATA, and two for an error.
LEMMA UsedBound ==
  ASSUME NEW m \in Msg
  PROVE  Used(m) \in Int /\ Used(m) <= Len(m.data) + 2
<1>1. m.data \in Seq(Int) /\ Len(m.data) \in Nat BY DEF Msg
<1> DEFINE n == Len(ErrorWords(m))
<1>2. n = 0 \/ n = 2 BY SMTT(10) DEF ErrorWords
<1>3. Used(m) = Len(m.data) + n BY DEF Used
<1> HIDE DEF n
<1> QED BY <1>1, <1>2, <1>3

\* After err_free of a flush that failed, the handler goes on only if there was no
\* message to free.
LEMMA ErrFreeIs ==
  ASSUME NEW o \in Outcomes, err_free(o).msg # Misused
  PROVE  err_free(o) = o /\ o.msg = Null
<1>1. CASE o.msg = Null BY <1>1 DEF err_free
<1>2. CASE o.msg # Null
  <2>1. err_free(o).msg = Misused BY <1>2 DEF err_free, Outcomes
  <2> QED BY <2>1
<1> QED BY <1>1, <1>2

\* Closing a reply nothing was lost of: it is concluded, or something is lost and the
\* handler's result says so.
LEMMA CloseWithIs ==
  ASSUME NEW m \in Msg, Building(m), NEW s \in Seq(Datagram), Flushed(s), NEW xerr \in Int,
         NEW o \in CloseWith(m, s, FALSE, xerr), o.msg # Misused
  PROVE  \/ /\ o.ret # 0 /\ o.lost /\ o.sock \in Seq(Datagram) /\ Flushed(o.sock)
            /\ Len(m.data) + 6 <= Cap => o.sock = s
            /\ o.msg \in {Null, Sent}
         \/ /\ o.ret = 0 /\ ~o.lost /\ o.msg = Sent
            /\ \E t \in Seq(Datagram), d \in Datagram :
                 o.sock = Append(t, d) /\ Concluded(t, d, m, s, xerr)
<1> DEFINE After(e) == put_done([e.msg EXCEPT !.ends = TRUE], e.sock, e.lost)
           Last(d) == IF d.ret # 0 THEN {err_free(d)} ELSE unicast(d.msg, d.sock, d.lost)
           Rest(e) == IF e.ret # 0 THEN {err_free(e)} ELSE UNION {Last(d) : d \in After(e)}
<1>0. CloseWith(m, s, FALSE, xerr) = UNION {Rest(e) : e \in put_error(m, s, FALSE, xerr)}
  BY DEF CloseWith
<1> HIDE DEF Rest
<1>1. PICK e \in put_error(m, s, FALSE, xerr) : o \in Rest(e) BY <1>0
<1> USE DEF Rest
<1>2. /\ e \in Outcomes /\ Flushed(e.sock)
      /\ e.ret = 0 =>
           /\ ~e.lost /\ e.msg.st = "open" /\ ~e.msg.done /\ e.msg.err = xerr
           /\ xerr = 0 => e.sock = s /\ e.msg.data = m.data
           /\ \/ e.sock = s /\ e.msg.data = m.data
              \/ e.msg.data = <<>> /\ Len(m.data) + 2 > Cap
      /\ e.ret # 0 => e.lost /\ e.msg \in {Null, Sent} /\ Len(m.data) + 2 > Cap
  BY PutErrorIs
<1>3. e.msg \in Msg /\ e.sock \in Seq(Datagram) BY <1>2 DEF Outcomes
<1>4. Len(m.data) \in Int /\ m.data \in Seq(Int) /\ Cap \in Int BY CapAssumption DEF Msg
<1>5. CASE e.ret # 0
  <2>1. o = err_free(e) BY <1>1, <1>5
  <2>2. o = e /\ o.msg = Null BY <1>2, <2>1, ErrFreeIs
  <2>3. ~(Len(m.data) + 6 <= Cap) BY <1>2, <1>4, <1>5
  <2> QED BY <1>2, <1>3, <1>5, <2>2, <2>3
<1>6. CASE e.ret = 0
  <2> DEFINE k == [e.msg EXCEPT !.ends = TRUE]
  <2>1. /\ k \in Msg /\ k.st = "open" /\ ~k.done /\ k.ends /\ k.err = xerr
        /\ k.data = e.msg.data
    <3>1. k \in Msg /\ k.st = e.msg.st BY <1>3, MsgParts
    <3>2. k.done = e.msg.done /\ k.ends /\ k.err = e.msg.err /\ k.data = e.msg.data
      BY <1>3 DEF Msg
    <3> QED BY <1>2, <1>6, <3>1, <3>2
  <2>2. e.lost = FALSE BY <1>2, <1>6 DEF Outcomes
  <2>3. PICK d \in put_done(k, e.sock, FALSE) : o \in Last(d) BY <1>1, <1>6, <2>2
  <2> HIDE DEF k
  <2>4. /\ d \in Outcomes
        /\ d.ret = 0 =>
             /\ ~d.lost
             /\ \/ d.sock = e.sock /\ d.msg = [k EXCEPT !.done = TRUE]
                \/ /\ d.sock = Append(e.sock, Piece(k)) /\ d.msg = [Fresh EXCEPT !.done = TRUE]
                   /\ Used(k) + 4 > Cap
        /\ d.ret # 0 => /\ d.lost /\ d.msg \in {Null, Sent} /\ Flushed(d.sock)
                        /\ Used(k) + 4 > Cap
    BY <1>2, <1>3, <2>1, PutDoneIs
  <2>5. d.msg \in Msg /\ d.sock \in Seq(Datagram) BY <2>4 DEF Outcomes
  <2>6. Len(m.data) + 6 <= Cap => e.sock = s /\ e.msg.data = m.data /\ ~(Used(k) + 4 > Cap)
    <3> SUFFICES ASSUME Len(m.data) + 6 <= Cap
                 PROVE  e.sock = s /\ e.msg.data = m.data /\ ~(Used(k) + 4 > Cap)
      OBVIOUS
    <3>1. e.sock = s /\ e.msg.data = m.data BY <1>2, <1>4, <1>6
    <3>2. Used(k) \in Int /\ Used(k) <= Len(m.data) + 2 BY <2>1, <3>1, UsedBound
    <3> QED BY <1>4, <3>1, <3>2
  <2>7. CASE d.ret # 0
    <3>1. o = err_free(d) BY <2>3, <2>7
    <3>2. o = d /\ o.msg = Null BY <2>4, <3>1, ErrFreeIs
    <3> QED BY <2>4, <2>5, <2>6, <2>7, <3>2
  <2>8. CASE d.ret = 0
    <3>1. d.lost = FALSE BY <2>4, <2>8 DEF Outcomes
    <3>2. o \in unicast(d.msg, d.sock, FALSE) BY <2>3, <2>8, <3>1
    <3>3. /\ Append(e.sock, Piece(k)) \in Seq(Datagram)
          /\ Flushed(Append(e.sock, Piece(k)))
          /\ Words(Append(e.sock, Piece(k))) = Words(e.sock) \o (k.data \o ErrorWords(k))
      BY <1>2, <1>3, <2>1, FlushedAppend
    <3>4. Flushed(d.sock) BY <1>2, <2>4, <2>8, <3>3
    <3>5. Len(m.data) + 6 <= Cap => d.sock = s BY <2>4, <2>6, <2>8
    <3>6. CASE o = Outcome(Sent, d.sock, TRUE, -EAGAIN)
      <4>1. /\ o.msg = Sent /\ o.sock = d.sock /\ o.lost /\ o.ret # 0
        BY <3>6 DEF Outcome, EAGAIN
      <4> QED BY <2>5, <3>4, <3>5, <4>1
    <3>7. CASE o = Outcome(Sent, Append(d.sock, Skb(d.msg)), FALSE, 0)
      <4> DEFINE z == Skb(d.msg)
      <4>1. o.msg = Sent /\ o.sock = Append(d.sock, z) /\ ~o.lost /\ o.ret = 0
        BY <3>7 DEF Outcome
      <4>2. /\ z \in Datagram /\ z.kind = "xfer" /\ z.done = d.msg.done
            /\ z.data = d.msg.data /\ z.err = d.msg.err /\ z.ends = d.msg.ends
        BY <2>5 DEF Skb, Msg, Datagram
      <4> HIDE DEF z
      <4>3. CASE d.sock = e.sock /\ d.msg = [k EXCEPT !.done = TRUE]
        <5>1. /\ d.msg.done /\ d.msg.data = k.data /\ d.msg.err = xerr /\ d.msg.ends
          BY <2>1, <4>3 DEF Msg
        <5>2. xerr = 0 => Words(Append(d.sock, z)) = Words(s) \o m.data
          <6> SUFFICES ASSUME xerr = 0 PROVE Words(Append(d.sock, z)) = Words(s) \o m.data
            OBVIOUS
          <6>1. d.sock = s /\ z.data = m.data BY <1>2, <1>6, <2>1, <4>2, <4>3, <5>1
          <6> QED BY <4>2, <6>1, WordsAppend
        <5>3. Concluded(d.sock, z, m, s, xerr)
          BY <3>4, <3>5, <4>2, <5>1, <5>2 DEF Concluded
        <5> QED BY <2>5, <4>1, <4>2, <5>3
      <4>4. CASE /\ d.sock = Append(e.sock, Piece(k)) /\ d.msg = [Fresh EXCEPT !.done = TRUE]
                 /\ Used(k) + 4 > Cap
        <5>1. d.msg.done /\ d.msg.data = <<>> /\ d.msg.err = 0 /\ ~d.msg.ends
          BY <4>4 DEF Fresh
        <5>2. xerr = 0 => Words(Append(d.sock, z)) = Words(s) \o m.data
          <6> SUFFICES ASSUME xerr = 0 PROVE Words(Append(d.sock, z)) = Words(s) \o m.data
            OBVIOUS
          <6>1. e.sock = s /\ k.data = m.data BY <1>2, <1>6, <2>1
          <6>2. k.data \o ErrorWords(k) = m.data BY <2>1, <6>1, BuildingUses
          <6>3. Words(d.sock) = Words(s) \o m.data BY <3>3, <4>4, <6>1, <6>2
          <6>4. Words(Append(d.sock, z)) = Words(d.sock) \o <<>>
            <7>1. Words(Append(d.sock, z)) = Words(d.sock) \o z.data BY <2>5, <4>2, WordsAppend
            <7> QED BY <4>2, <5>1, <7>1
          <6>5. Words(d.sock) \in Seq(Int) BY <2>5, WordsType
          <6> QED BY <6>3, <6>4, <6>5, ConcatEmptySeq
        <5>3. ~(Len(m.data) + 6 <= Cap) BY <2>6, <4>4
        <5>4. Concluded(d.sock, z, m, s, xerr)
          BY <3>4, <4>2, <5>1, <5>2, <5>3 DEF Concluded
        <5> QED BY <2>5, <4>1, <4>2, <5>4
      <4> QED BY <2>4, <2>8, <4>3, <4>4
    <3> QED BY <3>2, <3>6, <3>7 DEF unicast
  <2> QED BY <2>7, <2>8
<1> QED BY <1>5, <1>6

-------------------------------------------------------------------------------
(***************************************************************************)
(* The reply of a handler, stage by stage.                                 *)
(***************************************************************************)

\* A reply under way: m is being built behind the messages s, together they hold what
\* was emitted, unless something was lost, which is then an error of the program.
UnderWay(m, s, e, l, r) ==
  /\ Flushed(s)
  /\ ~l => Building(m) /\ e = Words(s) \o m.data
  /\ l => r # 0 /\ m.st # "open"
  /\ s # <<>> \/ l => Len(e) >= Cap

\* The messages s of a handler that has returned: the acknowledgement is the last one,
\* in front of it is at most one that says NLMSG_DONE, which has the error if there is one.
Answered(s, e, l, r) ==
  LET n == Len(s) IN
  /\ n >= 1 /\ s[n].kind = "ack"
  /\ \A i \in 1..(n - 1) :
       /\ s[i].kind = "xfer" /\ (s[i].done => i = n - 1)
       /\ ~s[i].done => s[i].ends /\ s[i].err = 0
  /\ s[n].err = 0 => n > 1 /\ ~l
  /\ n > 1 /\ ~l => s[n - 1].done
  /\ n = 1 /\ ~l => r # 0
  /\ n > 1 /\ s[n - 1].done =>
       /\ r = 0 => e = Words(SubSeq(s, 1, n - 1)) /\ s[n - 1].err = 0
       /\ r # 0 /\ s[n - 1].ends => s[n - 1].err = r
  /\ Len(e) + 6 <= Cap /\ n > 1 /\ r # 0 => n = 2 /\ s[1].ends /\ s[1].err = r

\* The state of a transfer's reply in each stage of its handler.
Sound(st, m, s, e, l, r) ==
  /\ st = "idle" => s = <<>> /\ e = <<>> /\ ~l
  /\ st \in {"idle", "done"} => m.st # "open"
  /\ st \in {"lock", "run"} => ~l /\ r = 0
  /\ st \in {"lock", "run", "exit", "close"} => UnderWay(m, s, e, l, r)
  /\ st = "done" => Answered(s, e, l, r)
  /\ st = "fault" => l

\* The strengthening DataIsEmitted and OneDone need, which is inductive with TypeOK.
Assembled ==
  \A x \in Xfers : Sound(stage[x], msg[x], sock[x], emitted[x], lost[x], ret[x])

\* A refusal, or no message to begin with: nothing but the acknowledgement.
LEMMA AnsweredAck ==
  ASSUME NEW r \in Int, r # 0, NEW l \in BOOLEAN
  PROVE  Answered(<<Ack(r)>>, <<>>, l, r)
<1>1. Len(<<Ack(r)>>) = 1 /\ <<Ack(r)>>[1] = Ack(r) OBVIOUS
<1>2. Ack(r).kind = "ack" /\ Ack(r).err = r BY DEF Ack
<1> HIDE DEF Ack
<1> QED BY <1>1, <1>2 DEF Answered

\* What is in a sequence that has an element added to it.
LEMMA AppendIs ==
  ASSUME NEW s \in Seq(Datagram), NEW d \in Datagram
  PROVE  /\ Append(s, d) \in Seq(Datagram) /\ Len(Append(s, d)) = Len(s) + 1
         /\ Len(s) \in Nat /\ Append(s, d)[Len(s) + 1] = d
         /\ \A i \in 1..Len(s) : Append(s, d)[i] = s[i]
         /\ SubSeq(Append(s, d), 1, Len(s)) = s
<1>1. /\ Append(s, d) \in Seq(Datagram) /\ Len(Append(s, d)) = Len(s) + 1
      /\ Len(s) \in Nat /\ Append(s, d)[Len(s) + 1] = d
      /\ \A i \in 1..Len(s) : Append(s, d)[i] = s[i]
  BY AppendProperties, LenProperties
<1> DEFINE t == SubSeq(Append(s, d), 1, Len(s))
<1>2. t = [i \in 1..Len(s) |-> Append(s, d)[i]]
  BY <1>1, SubSeqProperties
<1>3. s = [i \in 1..Len(s) |-> s[i]] BY LenProperties
<1>4. t = s BY <1>1, <1>2, <1>3
<1> QED BY <1>1, <1>4

\* A reply of which something was lost: the client gets a part of it and an error.
LEMMA AnsweredLost ==
  ASSUME NEW t \in Seq(Datagram), Flushed(t), NEW a \in Int, a # 0, NEW e, NEW r,
         Len(e) + 6 <= Cap => t = <<>>
  PROVE  Answered(Append(t, Ack(a)), e, TRUE, r)
<1> DEFINE s == Append(t, Ack(a))
           n == Len(t)
<1>1. /\ Len(s) = n + 1 /\ n \in Nat /\ s[n + 1] = Ack(a)
      /\ \A i \in 1..n : s[i] = t[i]
  BY AckType, AppendIs
<1>2. Ack(a).kind = "ack" /\ Ack(a).err = a BY DEF Ack
<1>3. \A i \in 1..n : s[i].kind = "xfer" /\ s[i].ends /\ ~s[i].done /\ s[i].err = 0
  BY <1>1 DEF Flushed
<1>4. Len(e) + 6 <= Cap => n = 0 OBVIOUS
<1> HIDE DEF s, n
<1>5. n + 1 > 1 => ~s[n].done BY <1>1, <1>3
<1>6. (n + 1) - 1 = n /\ n + 1 >= 1 BY <1>1
<1>7. Answered(s, e, TRUE, r) BY <1>1, <1>2, <1>3, <1>4, <1>5, <1>6 DEF Answered
<1> QED BY <1>7 DEF s

\* A reply that is complete.
LEMMA AnsweredDone ==
  ASSUME NEW t \in Seq(Datagram), Flushed(t), NEW d \in Datagram, NEW e, NEW r \in Int,
         d.kind = "xfer", d.done,
         r = 0 => e = Words(Append(t, d)) /\ d.err = 0,
         r # 0 /\ d.ends => d.err = r,
         Len(e) + 6 <= Cap => t = <<>> /\ d.ends
  PROVE  Answered(Append(Append(t, d), Ack(0)), e, FALSE, r)
<1> DEFINE u == Append(t, d)
           s == Append(u, Ack(0))
           n == Len(t)
<1>1. u \in Seq(Datagram) /\ Len(u) = n + 1 /\ n \in Nat /\ u[n + 1] = d
      /\ \A i \in 1..n : u[i] = t[i]
  BY AppendIs
<1>2. /\ Len(s) = Len(u) + 1 /\ s[Len(u) + 1] = Ack(0)
      /\ \A i \in 1..Len(u) : s[i] = u[i]
      /\ SubSeq(s, 1, Len(u)) = u
  BY <1>1, AckType, AppendIs
<1>3. Ack(0).kind = "ack" BY DEF Ack
<1>4. n = 0 <=> t = <<>> BY EmptySeq
<1>5. r = 0 => e = Words(u) /\ d.err = 0 OBVIOUS
<1> HIDE DEF s, u, n
<1>6. /\ Len(s) = n + 2 /\ s[n + 2] = Ack(0) /\ s[n + 1] = d
      /\ \A i \in 1..n : s[i] = t[i]
      /\ SubSeq(s, 1, n + 1) = u
  BY <1>1, <1>2
<1>7. \A i \in 1..n : s[i].kind = "xfer" /\ s[i].ends /\ ~s[i].done /\ s[i].err = 0
  BY <1>6 DEF Flushed, n
<1>8. ASSUME NEW i \in 1..(n + 1)
      PROVE  /\ s[i].kind = "xfer" /\ (s[i].done => i = n + 1)
             /\ ~s[i].done => s[i].ends /\ s[i].err = 0
  BY <1>1, <1>6, <1>7, <1>8
<1>9. (n + 2) - 1 = n + 1 /\ n + 2 > 1 /\ n + 2 >= 1 /\ n + 2 # 1 BY <1>1
<1>10. Len(e) + 6 <= Cap => n + 2 = 2 /\ s[1] = d BY <1>4, <1>6
<1>11. Answered(s, e, FALSE, r)
  BY <1>3, <1>5, <1>6, <1>8, <1>9, <1>10 DEF Answered
<1> QED BY <1>11 DEF s, u

\* Closing a reply under way answers the request, or uses a message that is gone.
LEMMA CloseIs ==
  ASSUME NEW m \in Msg, NEW s \in Seq(Datagram), NEW e \in Seq(Word), NEW l \in BOOLEAN,
         NEW r \in Int, UnderWay(m, s, e, l, r),
         NEW o \in mdio_nl_close(m, s, l, r), o.msg # Misused
  PROVE  /\ o.msg.st # "open" /\ Answered(Append(o.sock, Ack(o.ret)), e, o.lost, r)
         /\ o.lost \/ Len(Append(o.sock, Ack(o.ret))) > 1
<1>0. o \in Outcomes BY CloseType
<1>1. m.st = "open"
  <2>1. Outcome(Misused, s, l, -EINVAL).msg = Misused BY DEF Outcome
  <2> QED BY <2>1 DEF mdio_nl_close
<1>2. l = FALSE BY <1>1 DEF UnderWay
<1>3. Flushed(s) /\ Building(m) /\ e = Words(s) \o m.data /\ (s # <<>> => Len(e) >= Cap)
  BY <1>2 DEF UnderWay
<1> DEFINE k == nest_end(m)
<1>4. k \in Msg /\ Building(k) /\ k.data = m.data
  <2>1. k \in Msg /\ k.st = m.st BY NestEndType
  <2>2. m.data \o ErrorWords(m) = m.data BY <1>3, BuildingUses DEF Building
  <2>3. k.data = m.data /\ k.err = 0 /\ k.done = m.done BY <2>2 DEF nest_end, Msg
  <2> QED BY <1>3, <2>1, <2>3 DEF Building
<1>5. o \in CloseWith(k, s, FALSE, r) BY <1>1, <1>2 DEF mdio_nl_close
<1>6. Len(e) + 6 <= Cap => s = <<>> /\ Len(m.data) + 6 <= Cap
  <2> SUFFICES ASSUME Len(e) + 6 <= Cap PROVE s = <<>> /\ Len(m.data) + 6 <= Cap OBVIOUS
  <2>1. Len(e) \in Nat /\ Cap \in Nat BY CapAssumption
  <2>2. s = <<>> BY <1>3, <2>1
  <2>3. m.data \in Seq(Int) BY DEF Msg
  <2>4. e = m.data BY <1>3, <2>2, <2>3, WordsEmpty, ConcatEmptySeq
  <2> QED BY <2>2, <2>4
<1> HIDE DEF k
<1>7. CASE /\ o.ret # 0 /\ o.lost /\ o.sock \in Seq(Datagram) /\ Flushed(o.sock)
           /\ Len(k.data) + 6 <= Cap => o.sock = s
           /\ o.msg \in {Null, Sent}
  <2>1. Len(e) + 6 <= Cap => o.sock = <<>> BY <1>4, <1>6, <1>7
  <2>2. o.ret \in Int /\ o.lost = TRUE BY <1>0, <1>7 DEF Outcomes
  <2>3. Answered(Append(o.sock, Ack(o.ret)), e, TRUE, r) BY <1>7, <2>1, <2>2, AnsweredLost
  <2> QED BY <1>7, <2>2, <2>3, MsgTypes
<1>8. CASE /\ o.ret = 0 /\ ~o.lost /\ o.msg = Sent
           /\ \E t \in Seq(Datagram), d \in Datagram :
                 o.sock = Append(t, d) /\ Concluded(t, d, k, s, r)
  <2>1. PICK t \in Seq(Datagram), d \in Datagram :
               o.sock = Append(t, d) /\ Concluded(t, d, k, s, r)
    BY <1>8
  <2>2. o.lost = FALSE BY <1>0, <1>8 DEF Outcomes
  <2>3. /\ Flushed(t) /\ d.kind = "xfer" /\ d.done
        /\ r = 0 => d.err = 0 /\ Words(Append(t, d)) = Words(s) \o m.data
        /\ r # 0 /\ d.ends => d.err = r
        /\ Len(m.data) + 6 <= Cap => t = s /\ d.ends
    BY <1>4, <2>1 DEF Concluded
  <2>4. Len(e) + 6 <= Cap => t = <<>> /\ d.ends BY <1>6, <2>3
  <2>5. r = 0 => e = Words(Append(t, d)) /\ d.err = 0 BY <1>3, <2>3
  <2>6. Answered(Append(Append(t, d), Ack(0)), e, FALSE, r)
    BY <2>3, <2>4, <2>5, AnsweredDone
  <2>7. Len(Append(Append(t, d), Ack(0))) > 1
    <3>1. Append(t, d) \in Seq(Datagram) /\ Len(Append(t, d)) = Len(t) + 1 /\ Len(t) \in Nat
      BY AppendIs
    <3>2. Len(Append(Append(t, d), Ack(0))) = Len(Append(t, d)) + 1
      BY <3>1, AckType, AppendIs
    <3> QED BY <3>1, <3>2
  <2> QED BY <1>8, <2>1, <2>2, <2>6, <2>7, MsgTypes
<1> QED BY <1>3, <1>4, <1>5, <1>7, <1>8, CloseWithIs

-------------------------------------------------------------------------------
(***************************************************************************)
(* The steps of the handlers keep the replies assembled.                   *)
(***************************************************************************)

\* A step that changes at most one transfer's reply only has to keep that one sound.
LEMMA OneReply ==
  ASSUME Assembled, NEW x \in Xfers,
         \A y \in Xfers : y # x =>
           /\ stage'[y] = stage[y] /\ msg'[y] = msg[y] /\ sock'[y] = sock[y]
           /\ emitted'[y] = emitted[y] /\ lost'[y] = lost[y] /\ ret'[y] = ret[y],
         Sound(stage'[x], msg'[x], sock'[x], emitted'[x], lost'[x], ret'[x])
  PROVE  Assembled'
<1> SUFFICES ASSUME NEW y \in Xfers
             PROVE  Sound(stage'[y], msg'[y], sock'[y], emitted'[y], lost'[y], ret'[y])
  BY DEF Assembled
<1>1. CASE y = x BY <1>1
<1>2. CASE y # x
  <2>1. Sound(stage[y], msg[y], sock[y], emitted[y], lost[y], ret[y]) BY DEF Assembled
  <2>2. /\ stage'[y] = stage[y] /\ msg'[y] = msg[y] /\ sock'[y] = sock[y]
        /\ emitted'[y] = emitted[y] /\ lost'[y] = lost[y] /\ ret'[y] = ret[y]
    BY <1>2
  <2> QED BY <2>1, <2>2
<1> QED BY <1>1, <1>2

\* The reply of one transfer, and what the type invariant says of it.
LEMMA ReplyIs ==
  ASSUME TypeOK, Assembled, NEW x \in Xfers
  PROVE  /\ Sound(stage[x], msg[x], sock[x], emitted[x], lost[x], ret[x])
         /\ msg[x] \in Msg /\ sock[x] \in Seq(Datagram) /\ emitted[x] \in Seq(Word)
         /\ lost[x] \in BOOLEAN /\ ret[x] \in Int
  BY DEF TypeOK, Assembled

LEMMA AssembledInit == Init => Assembled
<1> SUFFICES ASSUME Init, NEW x \in Xfers
             PROVE  Sound(stage[x], msg[x], sock[x], emitted[x], lost[x], ret[x])
  BY DEF Assembled
<1>1. /\ stage[x] = "idle" /\ sock[x] = <<>> /\ emitted[x] = <<>> /\ ~lost[x]
      /\ msg[x] = Null
  BY DEF Init
<1> QED BY <1>1, MsgTypes DEF Sound

\* A request that is refused, by the handler or before it gets there, is acknowledged.
LEMMA AssembledAck ==
  ASSUME TypeOK, Assembled, NEW x \in Xfers, NEW a \in Int, a # 0, stage[x] = "idle",
         stage' = [stage EXCEPT ![x] = "done"], ret' = [ret EXCEPT ![x] = a],
         sock' = [sock EXCEPT ![x] = <<Ack(a)>>], UNCHANGED <<msg, emitted, lost>>
  PROVE  Assembled'
<1>1. /\ stage'[x] = "done" /\ ret'[x] = a /\ sock'[x] = <<Ack(a)>> /\ msg'[x] = msg[x]
      /\ emitted'[x] = emitted[x] /\ lost'[x] = lost[x]
  BY DEF TypeOK
<1>2. emitted[x] = <<>> /\ lost[x] \in BOOLEAN /\ msg[x].st # "open"
  BY ReplyIs DEF Sound
<1>3. Sound("done", msg[x], <<Ack(a)>>, <<>>, lost[x], a) BY <1>2, AnsweredAck DEF Sound
<1> QED BY <1>1, <1>2, <1>3, OneReply DEF TypeOK

\* Entering the handler.
LEMMA AssembledEnter ==
  ASSUME TypeOK, Assembled, NEW x \in Xfers, NEW r,
         Refuse(x, r) \/ OpenFails(x, r) \/ Begin(x, r)
  PROVE  Assembled'
<1>1. CASE Refuse(x, r)
  <2>1. RefusedWith(r) \in Int BY DEF RefusedWith, EINVAL, ENODEV
  <2> QED BY <1>1, <2>1, AssembledAck DEF Refuse
<1>2. CASE OpenFails(x, r)
  <2>1. PICK o \in mdio_nl_open(<<>>, FALSE) :
          /\ o.ret # 0
          /\ stage' = [stage EXCEPT ![x] = "done"] /\ ret' = [ret EXCEPT ![x] = o.ret]
          /\ msg' = [msg EXCEPT ![x] = o.msg] /\ lost' = [lost EXCEPT ![x] = TRUE]
          /\ sock' = [sock EXCEPT ![x] = <<Ack(o.ret)>>] /\ emitted' = emitted
    BY <1>2 DEF OpenFails
  <2>2. o.msg = Null /\ o.ret \in Int
    <3>1. Outcome(Fresh, <<>>, FALSE, 0).ret = 0 BY DEF Outcome
    <3>2. o = Outcome(Null, <<>>, TRUE, -ENOMEM) BY <2>1, <3>1 DEF mdio_nl_open
    <3> QED BY <3>2 DEF Outcome, ENOMEM
  <2>3. stage[x] = "idle" BY <1>2 DEF OpenFails
  <2>4. emitted[x] = <<>> BY <2>3, ReplyIs DEF Sound
  <2>5. Answered(<<Ack(o.ret)>>, <<>>, TRUE, o.ret) BY <2>1, <2>2, AnsweredAck
  <2>6. Sound("done", Null, <<Ack(o.ret)>>, <<>>, TRUE, o.ret) BY <2>5, MsgTypes DEF Sound
  <2>7. /\ stage'[x] = "done" /\ ret'[x] = o.ret /\ sock'[x] = <<Ack(o.ret)>>
        /\ msg'[x] = Null /\ emitted'[x] = <<>> /\ lost'[x] = TRUE
    BY <2>1, <2>2, <2>4 DEF TypeOK
  <2>8. Sound(stage'[x], msg'[x], sock'[x], emitted'[x], lost'[x], ret'[x])
    BY <2>6, <2>7
  <2> QED BY <2>1, <2>8, OneReply DEF TypeOK
<1>3. CASE Begin(x, r)
  <2>1. /\ stage[x] = "idle" /\ stage' = [stage EXCEPT ![x] = "lock"]
        /\ ret' = [ret EXCEPT ![x] = 0] /\ msg' = [msg EXCEPT ![x] = Fresh]
        /\ sock' = sock /\ emitted' = emitted /\ lost' = lost
    BY <1>3 DEF Begin
  <2>2. sock[x] = <<>> /\ emitted[x] = <<>> /\ lost[x] = FALSE
    BY <2>1, ReplyIs DEF Sound
  <2>3. UnderWay(Fresh, <<>>, <<>>, FALSE, 0)
    <3>1. Flushed(<<>>) BY DEF Flushed
    <3>2. Building(Fresh) BY FreshIs DEF Building
    <3>3. <<>> = Words(<<>>) \o Fresh.data BY WordsEmpty, FreshIs
    <3> QED BY <3>1, <3>2, <3>3 DEF UnderWay
  <2>4. Sound("lock", Fresh, <<>>, <<>>, FALSE, 0) BY <2>3 DEF Sound
  <2>5. /\ stage'[x] = "lock" /\ ret'[x] = 0 /\ sock'[x] = <<>> /\ msg'[x] = Fresh
        /\ emitted'[x] = <<>> /\ lost'[x] = FALSE
    BY <2>1, <2>2 DEF TypeOK
  <2>6. Sound(stage'[x], msg'[x], sock'[x], emitted'[x], lost'[x], ret'[x])
    BY <2>4, <2>5
  <2> QED BY <2>1, <2>6, OneReply DEF TypeOK
<1> QED BY <1>1, <1>2, <1>3

\* EMIT: the only instruction that touches the reply.
LEMMA AssembledEmit ==
  ASSUME TypeOK, Assembled, NEW x \in Xfers, EmitInsn(x)
  PROVE  Assembled'
<1>1. Running(x) /\ stage[x] = "run" BY DEF EmitInsn, Running
<1> DEFINE w == A0(x)
<1>2. w \in Word BY <1>1, OperandWords
<1>3. PICK o \in mdio_nl_emit(msg[x], sock[x], lost[x], w) :
        /\ msg' = [msg EXCEPT ![x] = o.msg] /\ sock' = [sock EXCEPT ![x] = o.sock]
        /\ lost' = [lost EXCEPT ![x] = o.lost]
        /\ IF o.ret = 0
             THEN emitted' = [emitted EXCEPT ![x] = Append(@, w)] /\ stage' = stage /\ ret' = ret
             ELSE /\ stage' = [stage EXCEPT ![x] = "exit"] /\ ret' = [ret EXCEPT ![x] = o.ret]
                  /\ emitted' = emitted
  BY DEF EmitInsn, ExitWith
<1> HIDE DEF w
<1> DEFINE m == msg[x]  s == sock[x]  e == emitted[x]
<1>4. /\ m \in Msg /\ s \in Seq(Datagram) /\ e \in Seq(Word) /\ lost[x] = FALSE /\ ret[x] = 0
      /\ UnderWay(m, s, e, FALSE, 0)
  BY <1>1, ReplyIs DEF Sound
<1>5. Flushed(s) /\ Building(m) /\ e = Words(s) \o m.data /\ (s # <<>> => Len(e) >= Cap)
  BY <1>4 DEF UnderWay
<1>6. o \in Outcomes BY <1>2, <1>3, <1>4, EmitType
<1>7. /\ Flushed(o.sock)
      /\ o.ret = 0 =>
           /\ ~o.lost /\ Building(o.msg)
           /\ Words(o.sock) \o o.msg.data = Append(Words(s) \o m.data, w)
      /\ o.ret # 0 => o.lost /\ o.msg.st # "open"
      /\ (o.sock = s /\ o.ret = 0) \/ Len(m.data) >= Cap
  BY <1>2, <1>3, <1>4, <1>5, EmitIs
<1>8. Len(m.data) >= Cap => Len(e) >= Cap
  <2>1. Words(s) \in Seq(Int) /\ m.data \in Seq(Int) BY <1>4, WordsType DEF Msg
  <2>2. Len(e) = Len(Words(s)) + Len(m.data) BY <1>5, <2>1, ConcatProperties
  <2>3. Len(Words(s)) \in Nat /\ Len(m.data) \in Nat /\ Cap \in Nat
    BY <2>1, CapAssumption, LenProperties
  <2> DEFINE a == Len(Words(s))  b == Len(m.data)  c == Len(e)
  <2>4. c = a + b /\ a \in Nat /\ b \in Nat BY <2>2, <2>3
  <2> HIDE DEF a, b, c
  <2>5. b >= Cap => c >= Cap BY <2>3, <2>4
  <2> QED BY <2>5 DEF b, c
<1>9. CASE o.ret = 0
  <2> DEFINE f == Append(e, w)
  <2>1. /\ stage'[x] = "run" /\ msg'[x] = o.msg /\ sock'[x] = o.sock /\ lost'[x] = FALSE
        /\ ret'[x] = 0 /\ emitted'[x] = f
    BY <1>1, <1>3, <1>4, <1>6, <1>7, <1>9 DEF TypeOK, Outcomes
  <2>2. Len(f) = Len(e) + 1 /\ Len(e) \in Nat BY <1>2, <1>4, AppendProperties, LenProperties
  <2>3. f = Words(o.sock) \o o.msg.data BY <1>5, <1>7, <1>9
  <2> HIDE DEF f
  <2>4. o.sock # <<>> => Len(f) >= Cap
    <3>1. o.sock # <<>> => Len(e) >= Cap BY <1>5, <1>7, <1>8
    <3> DEFINE a == Len(e)  b == Len(f)
    <3>2. b = a + 1 /\ a \in Nat BY <2>2
    <3> HIDE DEF a, b
    <3>3. a >= Cap => b >= Cap BY <3>2, CapAssumption
    <3> QED BY <3>1, <3>3 DEF a, b
  <2>5. UnderWay(o.msg, o.sock, f, FALSE, 0) BY <1>7, <1>9, <2>3, <2>4 DEF UnderWay
  <2>6. Sound(stage'[x], msg'[x], sock'[x], emitted'[x], lost'[x], ret'[x])
    BY <2>1, <2>5 DEF Sound
  <2> QED BY <1>3, <1>9, <2>6, OneReply DEF TypeOK
<1>10. CASE o.ret # 0
  <2>1. /\ stage'[x] = "exit" /\ msg'[x] = o.msg /\ sock'[x] = o.sock /\ lost'[x] = o.lost
        /\ ret'[x] = o.ret /\ emitted'[x] = e
    BY <1>3, <1>10 DEF TypeOK
  <2>2. UnderWay(o.msg, o.sock, e, o.lost, o.ret) BY <1>7, <1>8, <1>10 DEF UnderWay
  <2>3. Sound(stage'[x], msg'[x], sock'[x], emitted'[x], lost'[x], ret'[x])
    BY <2>1, <2>2 DEF Sound
  <2> QED BY <1>3, <1>10, <2>3, OneReply DEF TypeOK
<1> QED BY <1>9, <1>10

\* Close, the end of the handler.
LEMMA AssembledClose ==
  ASSUME TypeOK, Assembled, NEW x \in Xfers, Close(x)
  PROVE  Assembled' /\ (stage'[x] = "done" => lost'[x] \/ Len(sock'[x]) > 1)
<1> DEFINE m == msg[x]  s == sock[x]  e == emitted[x]  l == lost[x]  r == ret[x]
<1>1. stage[x] = "close" BY DEF Close
<1>2. PICK o \in mdio_nl_close(m, s, l, r) :
        /\ msg' = [msg EXCEPT ![x] = o.msg] /\ lost' = [lost EXCEPT ![x] = o.lost]
        /\ IF o.msg = Misused
             THEN /\ stage' = [stage EXCEPT ![x] = "fault"]
                  /\ sock' = [sock EXCEPT ![x] = o.sock]
             ELSE /\ stage' = [stage EXCEPT ![x] = "done"]
                  /\ sock' = [sock EXCEPT ![x] = Append(o.sock, Ack(o.ret))]
        /\ emitted' = emitted /\ ret' = ret
  BY DEF Close, vmVars
<1>3. /\ m \in Msg /\ s \in Seq(Datagram) /\ e \in Seq(Word) /\ l \in BOOLEAN /\ r \in Int
      /\ UnderWay(m, s, e, l, r)
  BY <1>1, ReplyIs DEF Sound
<1>4. CASE o.msg = Misused
  <2>1. m.st = "open" \/ l BY <1>3 DEF UnderWay, Building
  <2>2. o.lost BY <1>2, <1>3, <1>4, <2>1, CloseType
  <2>3. stage'[x] = "fault" /\ msg'[x] = Misused /\ lost'[x] = o.lost BY <1>2, <1>4 DEF TypeOK
  <2>4. Sound(stage'[x], msg'[x], sock'[x], emitted'[x], lost'[x], ret'[x])
    BY <2>2, <2>3 DEF Sound
  <2> QED BY <1>2, <1>4, <2>3, <2>4, OneReply DEF TypeOK
<1>5. CASE o.msg # Misused
  <2>1. /\ o.msg.st # "open" /\ Answered(Append(o.sock, Ack(o.ret)), e, o.lost, r)
        /\ o.lost \/ Len(Append(o.sock, Ack(o.ret))) > 1
    BY <1>2, <1>3, <1>5, CloseIs
  <2>2. /\ stage'[x] = "done" /\ msg'[x] = o.msg /\ sock'[x] = Append(o.sock, Ack(o.ret))
        /\ lost'[x] = o.lost /\ ret'[x] = r /\ emitted'[x] = e
    BY <1>2, <1>5 DEF TypeOK
  <2>3. Sound(stage'[x], msg'[x], sock'[x], emitted'[x], lost'[x], ret'[x])
    BY <2>1, <2>2 DEF Sound
  <2> QED BY <1>2, <1>5, <2>1, <2>2, <2>3, OneReply DEF TypeOK
<1> QED BY <1>4, <1>5

\* The other steps of a handler, and the wait for it, leave the messages alone.
LEMMA AssembledQuiet ==
  ASSUME TypeOK, Assembled, NEW x \in Xfers,
         \/ Expire(x) \/ Lock(x) \/ ReadInsn(x) \/ WriteInsn(x) \/ BusError(x) \/ AluInsn(x)
         \/ JumpInsn(x) \/ Leave(x) \/ Unlock(x)
  PROVE  Assembled'
<1>1. /\ msg' = msg /\ sock' = sock /\ emitted' = emitted /\ lost' = lost
      /\ \/ stage' = stage /\ ret' = ret
         \/ stage[x] = "lock" /\ stage' = [stage EXCEPT ![x] = "run"] /\ ret' = ret
         \/ /\ stage[x] = "run" /\ stage' = [stage EXCEPT ![x] = "exit"]
            /\ \E r : ret' = [ret EXCEPT ![x] = r]
         \/ stage[x] = "exit" /\ stage' = [stage EXCEPT ![x] = "close"] /\ ret' = ret
  BY DEF Expire, Lock, ReadInsn, WriteInsn, BusError, AluInsn, JumpInsn, Leave, Unlock,
         Running, ExitWith, msgVars, vmVars
<1>2. Sound(stage[x], msg[x], sock[x], emitted[x], lost[x], ret[x]) BY ReplyIs
<1>3. CASE stage' = stage /\ ret' = ret BY <1>1, <1>2, <1>3, OneReply
<1>4. CASE stage[x] = "lock" /\ stage' = [stage EXCEPT ![x] = "run"] /\ ret' = ret
  <2>1. stage'[x] = "run" BY <1>4 DEF TypeOK
  <2>2. Sound("run", msg[x], sock[x], emitted[x], lost[x], ret[x])
    BY <1>2, <1>4 DEF Sound
  <2> QED BY <1>1, <1>4, <2>1, <2>2, OneReply DEF TypeOK
<1>5. CASE /\ stage[x] = "run" /\ stage' = [stage EXCEPT ![x] = "exit"]
           /\ \E r : ret' = [ret EXCEPT ![x] = r]
  <2>1. stage'[x] = "exit" BY <1>5 DEF TypeOK
  <2>2. ~lost[x] /\ UnderWay(msg[x], sock[x], emitted[x], lost[x], ret[x])
    BY <1>2, <1>5 DEF Sound
  <2>3. UnderWay(msg[x], sock[x], emitted[x], lost[x], ret'[x]) BY <2>2 DEF UnderWay
  <2>4. Sound("exit", msg[x], sock[x], emitted[x], lost[x], ret'[x]) BY <2>3 DEF Sound
  <2> QED BY <1>1, <1>5, <2>1, <2>4, OneReply DEF TypeOK
<1>6. CASE stage[x] = "exit" /\ stage' = [stage EXCEPT ![x] = "close"] /\ ret' = ret
  <2>1. stage'[x] = "close" BY <1>6 DEF TypeOK
  <2>2. Sound("close", msg[x], sock[x], emitted[x], lost[x], ret[x])
    BY <1>2, <1>6 DEF Sound
  <2> QED BY <1>1, <1>6, <2>1, <2>2, OneReply DEF TypeOK
<1> QED BY <1>1, <1>3, <1>4, <1>5, <1>6

\* The client closes its socket.
LEMMA AssembledFinish ==
  ASSUME TypeOK, Assembled, NEW x \in Xfers, Finish(x)
  PROVE  Assembled'
<1>1. /\ stage'[x] = "idle" /\ sock'[x] = <<>> /\ emitted'[x] = <<>> /\ lost'[x] = FALSE
      /\ msg'[x] = Null
  BY DEF TypeOK, Finish
<1>2. Sound(stage'[x], msg'[x], sock'[x], emitted'[x], lost'[x], ret'[x])
  BY <1>1, MsgTypes DEF Sound
<1> QED BY <1>2, OneReply DEF TypeOK, Finish

\* All of the above: what a handler does by itself.
LEMMA AssembledStep ==
  ASSUME TypeOK, Assembled, NEW x \in Xfers, Expire(x) \/ Lock(x) \/ Step(x)
  PROVE  Assembled'
  BY AssembledEmit, AssembledClose, AssembledQuiet DEF Step

-------------------------------------------------------------------------------
(***************************************************************************)
(* The theorems.                                                           *)
(***************************************************************************)

\* The replies are sound in every stage, whatever the program, the sizes and the faults.
LEMMA AlwaysAssembled == Spec => []Assembled
<1>1. TypeOK /\ Assembled /\ [Next]_vars => Assembled'
  <2> SUFFICES ASSUME TypeOK, Assembled, [Next]_vars PROVE Assembled' OBVIOUS
  <2>1. CASE OtherUse BY <2>1 DEF Assembled, OtherUse, vmVars, msgVars
  <2>2. ASSUME NEW x \in Xfers, Enter(x) PROVE Assembled'
    BY <2>2, AssembledEnter DEF Enter
  <2>3. ASSUME NEW x \in Xfers, Expire(x) \/ Lock(x) \/ Step(x) PROVE Assembled'
    BY <2>3, AssembledStep
  <2>4. ASSUME NEW x \in Xfers, Finish(x) PROVE Assembled' BY <2>4, AssembledFinish
  <2>5. CASE UNCHANGED vars BY <2>5 DEF Assembled, vars, vmVars, msgVars
  <2> QED BY <2>1, <2>2, <2>3, <2>4, <2>5 DEF Next
<1> QED BY <1>1, AssembledInit, TypeCorrect, PTL DEF Spec

\* The messages of a reply under way, and of one that is answered.
LEMMA ReplyUnderWay ==
  ASSUME NEW x \in Xfers, sock[x] \in Seq(Datagram), Flushed(sock[x])
  PROVE  Reply(x) = sock[x]
<1>1. CASE sock[x] = <<>> BY <1>1 DEF Reply
<1>2. CASE sock[x] # <<>>
  <2>1. Len(sock[x]) \in 1..Len(sock[x]) BY <1>2
  <2>2. sock[x][Len(sock[x])].kind = "xfer" BY <2>1 DEF Flushed
  <2> QED BY <2>2 DEF Reply
<1> QED BY <1>1, <1>2

LEMMA ReplyAnswered ==
  ASSUME NEW x \in Xfers, sock[x] \in Seq(Datagram), NEW e, NEW l, NEW r,
         Answered(sock[x], e, l, r)
  PROVE  /\ Len(sock[x]) \in Nat /\ Reply(x) = SubSeq(sock[x], 1, Len(sock[x]) - 1)
         /\ Len(Reply(x)) = Len(sock[x]) - 1
         /\ \A i \in 1..(Len(sock[x]) - 1) : Reply(x)[i] = sock[x][i]
<1> DEFINE s == sock[x]  n == Len(sock[x])
<1>1. n \in Nat /\ n >= 1 /\ s[n].kind = "ack" BY DEF Answered
<1>2. Reply(x) = SubSeq(s, 1, n - 1) BY <1>1 DEF Reply
<1>3. \A i \in 1..(n - 1) : i \in 1..n BY <1>1
<1>4. /\ Len(SubSeq(s, 1, n - 1)) = n - 1
      /\ \A i \in 1..(n - 1) : SubSeq(s, 1, n - 1)[i] = s[i]
  BY <1>1, <1>3, SubSeqProperties
<1> QED BY <1>1, <1>2, <1>4

\* The messages of a sound reply, with the one under construction, hold what was emitted.
LEMMA AssembledDelivers == TypeOK /\ Assembled => DataIsEmitted
<1> SUFFICES ASSUME TypeOK, Assembled, NEW x \in Xfers,
                    ret[x] = 0, ~lost[x], stage[x] # "idle"
             PROVE  emitted[x] = Words(Reply(x)) \o
                      (IF msg[x].st = "open" THEN msg[x].data ELSE <<>>)
  BY DEF DataIsEmitted
<1>1. /\ Sound(stage[x], msg[x], sock[x], emitted[x], lost[x], ret[x])
      /\ sock[x] \in Seq(Datagram) /\ stage[x] \in Stages
  BY ReplyIs DEF TypeOK
<1>2. CASE stage[x] \in {"lock", "run", "exit", "close"}
  <2>1. UnderWay(msg[x], sock[x], emitted[x], lost[x], ret[x]) BY <1>1, <1>2 DEF Sound
  <2>2. Flushed(sock[x]) /\ msg[x].st = "open" /\ emitted[x] = Words(sock[x]) \o msg[x].data
    BY <2>1 DEF UnderWay, Building
  <2> QED BY <1>1, <2>2, ReplyUnderWay
<1>3. CASE stage[x] = "done"
  <2>1. Answered(sock[x], emitted[x], lost[x], ret[x]) /\ msg[x].st # "open"
    BY <1>1, <1>3 DEF Sound
  <2>2. emitted[x] = Words(SubSeq(sock[x], 1, Len(sock[x]) - 1))
    <3>1. Len(sock[x]) \in Nat BY <1>1
    <3>2. Len(sock[x]) >= 1 /\ Len(sock[x]) # 1 BY <2>1 DEF Answered
    <3>3. \A n \in Nat : n >= 1 /\ n # 1 => n > 1 OBVIOUS
    <3>4. Len(sock[x]) > 1 BY <3>1, <3>2, <3>3, Zenon
    <3> QED BY <2>1, <3>4 DEF Answered
  <2>3. Reply(x) = SubSeq(sock[x], 1, Len(sock[x]) - 1) BY <1>1, <2>1, ReplyAnswered
  <2>4. Words(Reply(x)) \o <<>> = Words(Reply(x))
    <3>1. emitted[x] \in Seq(Word) BY ReplyIs
    <3> QED BY <2>2, <2>3, <3>1, ConcatEmptySeq
  <2> QED BY <2>1, <2>2, <2>3, <2>4
<1>4. CASE stage[x] = "fault" BY <1>1, <1>4 DEF Sound
<1> QED BY <1>1, <1>2, <1>3, <1>4 DEF Stages

\* A program's output reaches the client whole and in order, for every program, every
\* size of messages and every way its EMITs fall across them: as long as nothing was
\* lost, the messages delivered and the one being built hold the words emitted.
THEOREM Delivery == Spec => []DataIsEmitted
<1>1. TypeOK /\ Assembled => DataIsEmitted
  BY AssembledDelivers
<1> QED BY <1>1, AlwaysAssembled, TypeCorrect, PTL

\* The strengthening OneDone needs besides: what was not refused has been replied to.
Replied ==
  \A x \in Xfers :
    stage[x] = "done" /\ RefusedWith(req[x]) = 0 /\ ~lost[x] => Len(sock[x]) > 1

\* Only an answer without a loss ends a handler that was entered.
LEMMA AlwaysReplied == Spec => []Replied
<1>1. Init => Replied BY DEF Init, Replied
<1>2. TypeOK /\ Assembled /\ Replied /\ [Next]_vars => Replied'
  <2> SUFFICES ASSUME TypeOK, Assembled, Replied, [Next]_vars PROVE Replied' OBVIOUS
  <2>1. CASE OtherUse BY <2>1 DEF Replied, OtherUse, vmVars, msgVars
  <2>2. ASSUME NEW x \in Xfers, Enter(x) PROVE Replied'
    <3>1. PICK r \in Requests : Refuse(x, r) \/ OpenFails(x, r) \/ Begin(x, r)
      BY <2>2 DEF Enter
    <3>0. req = [y \in Xfers |-> req[y]] BY DEF TypeOK
    <3>2. CASE Refuse(x, r)
      <4>1. RefusedWith(r) # 0 /\ req' = [req EXCEPT ![x] = r] BY <3>2 DEF Refuse
      <4>2. req'[x] = r /\ \A y \in Xfers : y # x => req'[y] = req[y] BY <3>0, <4>1
      <4> QED BY <3>2, <4>1, <4>2 DEF TypeOK, Replied, Refuse
    <3>3. CASE OpenFails(x, r)
      <4>1. req' = [req EXCEPT ![x] = r] BY <3>3 DEF OpenFails
      <4>2. \A y \in Xfers : y # x => req'[y] = req[y] BY <3>0, <4>1
      <4>3. \E a : sock' = [sock EXCEPT ![x] = a] BY <3>3 DEF OpenFails
      <4>4. stage' = [stage EXCEPT ![x] = "done"] /\ lost' = [lost EXCEPT ![x] = TRUE]
        BY <3>3 DEF OpenFails
      <4> QED BY <4>2, <4>3, <4>4 DEF TypeOK, Replied
    <3>4. CASE Begin(x, r)
      <4>1. req' = [req EXCEPT ![x] = r] BY <3>4 DEF Begin
      <4>2. \A y \in Xfers : y # x => req'[y] = req[y] BY <3>0, <4>1
      <4> QED BY <3>4, <4>2 DEF TypeOK, Replied, Begin
    <3> QED BY <3>1, <3>2, <3>3, <3>4
  <2>3. ASSUME NEW x \in Xfers, Expire(x) \/ Lock(x) \/ Step(x), ~Close(x) PROVE Replied'
    <3>1. /\ req' = req
          /\ \A y \in Xfers : stage'[y] = "done" => stage[y] = "done"
          /\ \A y \in Xfers : stage[y] = "done" => sock'[y] = sock[y] /\ lost'[y] = lost[y]
      <4>1. CASE EmitInsn(x)
        <5>1. stage[x] = "run" BY <4>1 DEF EmitInsn, Running
        <5>2. /\ req' = req /\ (stage' = stage \/ stage' = [stage EXCEPT ![x] = "exit"])
              /\ \E a : sock' = [sock EXCEPT ![x] = a]
              /\ \E a : lost' = [lost EXCEPT ![x] = a]
          BY <4>1 DEF EmitInsn, ExitWith
        <5> QED BY <5>1, <5>2 DEF TypeOK
      <4>2. CASE ~EmitInsn(x)
        <5>1. /\ req' = req /\ sock' = sock /\ lost' = lost
              /\ \/ stage' = stage
                 \/ \E st \in {"run", "exit", "close"} : stage' = [stage EXCEPT ![x] = st]
          BY <2>3, <4>2 DEF Step, Expire, Lock, ReadInsn, WriteInsn, BusError, AluInsn,
             JumpInsn, Leave, Unlock, ExitWith, msgVars, vmVars
        <5> QED BY <5>1 DEF TypeOK
      <4> QED BY <4>1, <4>2
    <3> QED BY <3>1 DEF Replied
  <2>4. ASSUME NEW x \in Xfers, Close(x) PROVE Replied'
    <3>1. stage'[x] = "done" => lost'[x] \/ Len(sock'[x]) > 1 BY <2>4, AssembledClose
    <3>2. /\ req' = req
          /\ \E a : sock' = [sock EXCEPT ![x] = a]
          /\ \E a : lost' = [lost EXCEPT ![x] = a]
          /\ \E a : stage' = [stage EXCEPT ![x] = a]
      BY <2>4 DEF Close, vmVars
    <3>3. \A y \in Xfers : y # x => /\ sock'[y] = sock[y] /\ lost'[y] = lost[y]
                                    /\ stage'[y] = stage[y]
      BY <3>2 DEF TypeOK
    <3> QED BY <3>1, <3>2, <3>3 DEF Replied
  <2>5. ASSUME NEW x \in Xfers, Finish(x) PROVE Replied'
    <3>1. stage' = [stage EXCEPT ![x] = "idle"] /\ req' = [req EXCEPT ![x] = NoReq]
      BY <2>5 DEF Finish
    <3>2. \A y \in Xfers : y # x => req'[y] = req[y]
      <4>1. req = [y \in Xfers |-> req[y]] BY DEF TypeOK
      <4> QED BY <3>1, <4>1
    <3> QED BY <2>5, <3>1, <3>2 DEF TypeOK, Replied, Finish
  <2>6. CASE UNCHANGED vars BY <2>6 DEF Replied, vars, vmVars, msgVars
  <2> QED BY <2>1, <2>2, <2>3, <2>4, <2>5, <2>6 DEF Next
<1> QED BY <1>1, <1>2, AlwaysAssembled, TypeCorrect, PTL DEF Spec

\* Every reply that is not cut short has one NLMSG_DONE, in its last message, and the
\* acknowledgement behind it, wherever the ERROR attribute and NLMSG_DONE found room.
THEOREM OneConclusion == Spec => []OneDone
<1>1. TypeOK /\ Assembled /\ Replied => OneDone
  <2> SUFFICES ASSUME TypeOK, Assembled, Replied, NEW x \in Xfers,
                      stage[x] = "done", ~lost[x], RefusedWith(req[x]) = 0
               PROVE  /\ Reply(x) # <<>>
                      /\ \A i \in 1..Len(Reply(x)) :
                           Reply(x)[i].kind = "xfer" /\ (Reply(x)[i].done <=> i = Len(Reply(x)))
    BY DEF OneDone
  <2> DEFINE s == sock[x]  n == Len(sock[x])
  <2>1. s \in Seq(Datagram) /\ Answered(s, emitted[x], lost[x], ret[x]) BY ReplyIs DEF Sound
  <2>2. n \in Nat /\ n > 1 BY <2>1 DEF Replied
  <2>3. /\ \A i \in 1..(n - 1) : s[i].kind = "xfer" /\ (s[i].done => i = n - 1)
        /\ s[n - 1].done
    BY <2>1, <2>2 DEF Answered
  <2>4. Len(Reply(x)) = n - 1 /\ \A i \in 1..(n - 1) : Reply(x)[i] = s[i]
    BY <2>1, ReplyAnswered
  <2> HIDE DEF s, n
  <2>5. Len(Reply(x)) # 0 BY <2>2, <2>4
  <2> QED BY <2>2, <2>3, <2>4, <2>5
<1> QED BY <1>1, AlwaysAssembled, AlwaysReplied, TypeCorrect, PTL
===============================================================================
