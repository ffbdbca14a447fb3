---------------------------- MODULE MdioArgsProof -----------------------------
(***************************************************************************)
(* Theorems about the programs of the mdio tool: whatever the command line *)
(* says, every program the tool makes of it is one the kernel's validator  *)
(* accepts, its bus cycles exist, and the request it is sent in fits.      *)
(***************************************************************************)
EXTENDS MdioArgs, FiniteSetTheorems, SequenceTheorems, SetInduction

-------------------------------------------------------------------------------
(***************************************************************************)
(* Instructions.                                                           *)
(***************************************************************************)

\* Numbers of five bits, and the addresses of Clause 45 devices.
FiveBits == 0..31
Clause45 == 32768..33791

\* The instructions for a device that the validator accepts and whose bus cycles exist,
\* and the programs made of them.
Good(dev) == {i \in Insn : validate_insn(i) /\ (OddlyAddressed(dev) \/ CycleExists(i))}
Code(dev) == Seq(Good(dev))

\* The length of a program, for the provers a name of its own.
Size(p) == Len(p)

Immediates == {a \in ArgBits : ArgMode(a) = ARG_IMM}
Registers  == {a \in ArgBits : ArgMode(a) = ARG_REG}
Operands   == Immediates \cup Registers

\* Immediates of five bits.
Low == {IMM(n) : n \in FiveBits}

\* Device id has a register of the number b encodes.
Reached(dev, id, b) == OddlyAddressed(dev) \/ id \in Clause45 \/ (id \in FiveBits /\ b \in Low)

\* The values of an argument, as inequalities.
LEMMA ArgBitsIs == \A n \in Int : n \in ArgBits <=> 0 <= n /\ n < 262144
<1>1. U16 \in Int BY SMTT(10) DEF U16
<1>2. \A n \in Int : n \in ArgBits <=> 0 <= n /\ n < 4 * U16 BY <1>1, SMTT(10) DEF ArgBits
<1>3. 4 * U16 = 262144 BY SMTT(10) DEF U16
<1> QED BY <1>2, <1>3

\* The same of the two sets of addresses, and the numbers of five bits the code names.
LEMMA FiveIs ==
  /\ \A n \in Int : n \in FiveBits <=> 0 <= n /\ n <= 31
  /\ FiveBits \subseteq Int /\ Clause45 \subseteq Int
  /\ \A n \in Clause45 : n > 31
  /\ {0, 1, 2, 3, 11, 13, 14, 15, 16, 17, 20, 22, 27, 28, 29, 30, 31, 7, 8} \subseteq FiveBits
  BY SMTT(30) DEF FiveBits, Clause45

\* Whatever number a driver encodes, 16 bits of it are an operand.
LEMMA OperandIs ==
  /\ \A n \in Int : IMM(n) \in Immediates /\ IMM(n) \in Operands
  /\ \A n \in Int : REG(n) \in Registers /\ REG(n) \in Operands
  /\ \A a \in Operands : a \in Int
  /\ \A n \in FiveBits : IMM(n) \in Low
<1>1. ASSUME NEW n \in Int PROVE IMM(n) \in Immediates
  <2> DEFINE m == n % U16
  <2>1. m \in Int /\ 0 <= m /\ m < 65536 BY SMTT(10) DEF U16
  <2>2. IMM(n) = 131072 + m BY SMTT(10) DEF IMM, ARG_IMM, U16
  <2> HIDE DEF m
  <2>3. (131072 + m) \div 65536 = 2 BY <2>1, SMTT(10)
  <2>4. 131072 + m \in Int /\ 0 <= 131072 + m /\ 131072 + m < 262144 BY <2>1, SMTT(10)
  <2>5. 131072 + m \in ArgBits BY <2>4, ArgBitsIs
  <2>6. ArgMode(131072 + m) = ARG_IMM BY <2>3 DEF ArgMode, ARG_IMM, U16
  <2> QED BY <2>2, <2>5, <2>6 DEF Immediates
<1>2. ASSUME NEW n \in Int PROVE REG(n) \in Registers
  <2> DEFINE m == n % U16
  <2>1. m \in Int /\ 0 <= m /\ m < 65536 BY SMTT(10) DEF U16
  <2>2. REG(n) = 65536 + m BY SMTT(10) DEF REG, ARG_REG, U16
  <2> HIDE DEF m
  <2>3. (65536 + m) \div 65536 = 1 BY <2>1, SMTT(10)
  <2>4. 65536 + m \in Int /\ 0 <= 65536 + m /\ 65536 + m < 262144 BY <2>1, SMTT(10)
  <2>5. 65536 + m \in ArgBits BY <2>4, ArgBitsIs
  <2>6. ArgMode(65536 + m) = ARG_REG BY <2>3 DEF ArgMode, ARG_REG, U16
  <2> QED BY <2>2, <2>5, <2>6 DEF Registers
<1>3. \A a \in Operands : a \in Int
  <2>1. 4 * U16 - 1 \in Int BY SMTT(10) DEF U16
  <2>2. \A a \in ArgBits : a \in Int BY <2>1, SMTT(10) DEF ArgBits
  <2> QED BY <2>2 DEF Operands, Immediates, Registers
<1>4. \A n \in FiveBits : IMM(n) \in Low BY DEF Low
<1> QED BY <1>1, <1>2, <1>3, <1>4 DEF Operands

\* Addresses are encoded as they are.
LEMMA AddressIs ==
  /\ \A n \in FiveBits : ArgValue(IMM(n)) <= 31
  /\ \A n \in Clause45 : ArgValue(IMM(n)) \in 32768..33791
  /\ \A b \in Low : ArgValue(b) <= 31
<1>1. ASSUME NEW n \in Int, 0 <= n, n < 65536 PROVE ArgValue(IMM(n)) = n
  <2>1. IMM(n) = 131072 + n BY <1>1, SMTT(10) DEF IMM, ARG_IMM, U16
  <2>2. (131072 + n) % 65536 = n BY <1>1, SMTT(10)
  <2> QED BY <2>1, <2>2, SMTT(10) DEF ArgValue, U16
<1>2. \A n \in FiveBits : n \in Int /\ 0 <= n /\ n < 65536 /\ n <= 31 BY SMTT(10) DEF FiveBits
<1>3. \A n \in Clause45 : n \in Int /\ 0 <= n /\ n < 65536 /\ n \in 32768..33791 BY SMTT(10) DEF Clause45
<1>4. \A n \in FiveBits : ArgValue(IMM(n)) <= 31
  <2> TAKE n \in FiveBits
  <2>1. ArgValue(IMM(n)) = n BY <1>1, <1>2
  <2> QED BY <1>2, <2>1
<1>5. \A n \in Clause45 : ArgValue(IMM(n)) \in 32768..33791
  <2> TAKE n \in Clause45
  <2>1. ArgValue(IMM(n)) = n BY <1>1, <1>3
  <2> QED BY <1>3, <2>1, SMTT(10)
<1>6. \A b \in Low : ArgValue(b) <= 31 BY <1>4 DEF Low
<1> QED BY <1>4, <1>5, <1>6

\* An instruction is accepted if its arguments are of the modes of its operation.
LEMMA Accepted ==
  ASSUME NEW a \in Operands, NEW b \in Operands
  PROVE  /\ \A c \in Registers, op \in {READ, AND, OR, ADD} :
              INSN(op, a, b, c) \in Insn /\ validate_insn(INSN(op, a, b, c))
         /\ \A c \in Operands : INSN(WRITE, a, b, c) \in Insn /\ validate_insn(INSN(WRITE, a, b, c))
         /\ \A c \in Immediates, op \in {JEQ, JNE} :
              INSN(op, a, b, c) \in Insn /\ validate_insn(INSN(op, a, b, c))
         /\ INSN(EMIT, a, 0, 0) \in Insn /\ validate_insn(INSN(EMIT, a, 0, 0))
<1> USE DEF READ, WRITE, AND, OR, ADD, JEQ, JNE, EMIT, OP_MAX, ARG_NONE, ARG_REG, ARG_IMM
<1>1. /\ a \in ArgBits /\ ArgMode(a) \in RI /\ b \in ArgBits /\ ArgMode(b) \in RI
  BY DEF Operands, Immediates, Registers, RI
<1>2. ASSUME NEW c \in Registers, NEW op \in {READ, AND, OR, ADD}
      PROVE  INSN(op, a, b, c) \in Insn /\ validate_insn(INSN(op, a, b, c))
  <2> DEFINE i == INSN(op, a, b, c)
  <2>1. c \in ArgBits /\ ArgMode(c) = ARG_REG BY DEF Registers
  <2>2. i.op = op /\ i.arg0 = a /\ i.arg1 = b /\ i.arg2 = c BY DEF INSN
  <2>3. i \in Insn BY <1>1, <2>1, SMTT(10) DEF INSN, Insn
  <2>4. op_protos(op) = <<RI, RI, {ARG_REG}>> BY SMTT(10) DEF op_protos
  <2> HIDE DEF i
  <2>5. validate_insn(i) BY <1>1, <2>1, <2>2, <2>4, SMTT(10) DEF validate_insn
  <2> QED BY <2>3, <2>5 DEF i
<1>3. ASSUME NEW c \in Operands
      PROVE  INSN(WRITE, a, b, c) \in Insn /\ validate_insn(INSN(WRITE, a, b, c))
  <2> DEFINE i == INSN(WRITE, a, b, c)
  <2>1. c \in ArgBits /\ ArgMode(c) \in RI BY DEF Operands, Immediates, Registers, RI
  <2>2. i.op = WRITE /\ i.arg0 = a /\ i.arg1 = b /\ i.arg2 = c BY DEF INSN
  <2>3. i \in Insn BY <1>1, <2>1, SMTT(10) DEF INSN, Insn
  <2>4. op_protos(WRITE) = <<RI, RI, RI>> BY SMTT(10) DEF op_protos
  <2> HIDE DEF i
  <2>5. validate_insn(i) BY <1>1, <2>1, <2>2, <2>4, SMTT(10) DEF validate_insn
  <2> QED BY <2>3, <2>5 DEF i
<1>4. ASSUME NEW c \in Immediates, NEW op \in {JEQ, JNE}
      PROVE  INSN(op, a, b, c) \in Insn /\ validate_insn(INSN(op, a, b, c))
  <2> DEFINE i == INSN(op, a, b, c)
  <2>1. c \in ArgBits /\ ArgMode(c) = ARG_IMM BY DEF Immediates
  <2>2. i.op = op /\ i.arg0 = a /\ i.arg1 = b /\ i.arg2 = c BY DEF INSN
  <2>3. i \in Insn BY <1>1, <2>1, SMTT(10) DEF INSN, Insn
  <2>4. op_protos(op) = <<RI, RI, {ARG_IMM}>> BY SMTT(10) DEF op_protos
  <2> HIDE DEF i
  <2>5. validate_insn(i) BY <1>1, <2>1, <2>2, <2>4, SMTT(10) DEF validate_insn
  <2> QED BY <2>3, <2>5 DEF i
<1>5. INSN(EMIT, a, 0, 0) \in Insn /\ validate_insn(INSN(EMIT, a, 0, 0))
  <2> DEFINE i == INSN(EMIT, a, 0, 0)
  <2>1. 0 \in ArgBits BY ArgBitsIs
  <2>6. ArgMode(0) = ARG_NONE BY SMTT(10) DEF ArgMode, U16
  <2>2. i.op = EMIT /\ i.arg0 = a /\ i.arg1 = 0 /\ i.arg2 = 0 BY DEF INSN
  <2>3. i \in Insn BY <1>1, <2>1, SMTT(10) DEF INSN, Insn
  <2>4. op_protos(EMIT) = <<RI, {ARG_NONE}, {ARG_NONE}>> BY SMTT(10) DEF op_protos
  <2> HIDE DEF i
  <2>5. validate_insn(i) BY <1>1, <2>1, <2>2, <2>4, <2>6, SMTT(10) DEF validate_insn
  <2> QED BY <2>3, <2>5 DEF i
<1> QED BY <1>2, <1>3, <1>4, <1>5

\* Instructions that do not name the device of a bus cycle are good for every device.
LEMMA InsnIs ==
  ASSUME NEW dev, NEW a \in Operands, NEW b \in Operands
  PROVE  /\ \A c \in Registers : /\ INSN(AND, a, b, c) \in Good(dev)
                                 /\ INSN(OR, a, b, c) \in Good(dev)
                                 /\ INSN(ADD, a, b, c) \in Good(dev)
                                 /\ a \in Registers => INSN(READ, a, b, c) \in Good(dev)
         /\ \A c \in Immediates : /\ INSN(JEQ, a, b, c) \in Good(dev)
                                  /\ INSN(JNE, a, b, c) \in Good(dev)
         /\ INSN(EMIT, a, 0, 0) \in Good(dev)
<1>1. \A op, x, y, c : INSN(op, x, y, c).op = op /\ INSN(op, x, y, c).arg0 = x BY DEF INSN
<1>2. \A op \in {AND, OR, ADD, JEQ, JNE, EMIT} : op \notin {READ, WRITE}
  BY DEF AND, OR, ADD, JEQ, JNE, EMIT, READ, WRITE
<1>3. a \in Registers => ArgMode(a) # ARG_IMM BY DEF Registers, ARG_REG, ARG_IMM
<1>4. \A op \in {AND, OR, ADD, JEQ, JNE, EMIT} : \A x, y, c : CycleExists(INSN(op, x, y, c))
  BY <1>1, <1>2 DEF CycleExists
<1>5. a \in Registers => \A c : CycleExists(INSN(READ, a, b, c)) BY <1>1, <1>3 DEF CycleExists
<1>6. \A c \in Registers : /\ INSN(AND, a, b, c) \in Good(dev)
                           /\ INSN(OR, a, b, c) \in Good(dev)
                           /\ INSN(ADD, a, b, c) \in Good(dev)
                           /\ a \in Registers => INSN(READ, a, b, c) \in Good(dev)
  BY <1>4, <1>5, Accepted DEF Good
<1>7. \A c \in Immediates : INSN(JEQ, a, b, c) \in Good(dev) /\ INSN(JNE, a, b, c) \in Good(dev)
  BY <1>4, Accepted DEF Good
<1>8. INSN(EMIT, a, 0, 0) \in Good(dev) BY <1>4, Accepted DEF Good
<1> QED BY <1>6, <1>7, <1>8

\* Accesses to a register of a device.
LEMMA AccessIs ==
  ASSUME NEW dev, NEW id \in Int, NEW b \in Operands, Reached(dev, id, b)
  PROVE  /\ \A c \in Registers : INSN(READ, IMM(id), b, c) \in Good(dev)
         /\ \A c \in Operands : INSN(WRITE, IMM(id), b, c) \in Good(dev)
<1> DEFINE a == IMM(id)
<1>1. a \in Operands BY OperandIs
<1>2. \/ OddlyAddressed(dev) \/ ArgValue(a) \in 32768..33791
      \/ ArgValue(a) <= 31 /\ ArgValue(b) <= 31
  BY AddressIs DEF Reached
<1> HIDE DEF a
<1>3. \A op, c : INSN(op, a, b, c).arg0 = a /\ INSN(op, a, b, c).arg1 = b BY DEF INSN
<1>4. ASSUME NEW op, NEW c PROVE OddlyAddressed(dev) \/ CycleExists(INSN(op, a, b, c))
  <2> DEFINE i == INSN(op, a, b, c)
  <2>1. i.arg0 = a /\ i.arg1 = b BY <1>3
  <2> HIDE DEF i
  <2>2. OddlyAddressed(dev) \/ CycleExists(i) BY <1>2, <2>1, SMTT(10) DEF CycleExists
  <2> QED BY <2>2 DEF i
<1>5. \A c \in Registers : INSN(READ, a, b, c) \in Good(dev) BY <1>1, <1>4, Accepted DEF Good
<1>6. \A c \in Operands : INSN(WRITE, a, b, c) \in Good(dev) BY <1>1, <1>4, Accepted DEF Good
<1> QED BY <1>5, <1>6 DEF a

\* Good instructions make an accepted program, whose bus cycles exist.
LEMMA CodeIs ==
  ASSUME NEW dev, NEW p \in Code(dev)
  PROVE  /\ p \in Seq(Insn) /\ validate_prog(p, TRUE)
         /\ ~OddlyAddressed(dev) => \A i \in 1..Len(p) : CycleExists(p[i])
<1>1. \A i \in 1..Len(p) : p[i] \in Good(dev) BY DEF Code
<1>2. \A i \in 1..Len(p) :
        p[i] \in Insn /\ validate_insn(p[i]) /\ (OddlyAddressed(dev) \/ CycleExists(p[i]))
  BY <1>1 DEF Good
<1>3. p \in Seq(Insn) BY <1>2 DEF Code
<1> QED BY <1>2, <1>3 DEF validate_prog

\* Programs are put together from short ones.
LEMMA CodeParts ==
  ASSUME NEW dev
  PROVE  /\ \A a \in Good(dev) : <<a>> \in Code(dev) /\ Size(<<a>>) = 1
         /\ \A a, b \in Good(dev) : <<a, b>> \in Code(dev) /\ Size(<<a, b>>) = 2
         /\ \A a, b, c \in Good(dev) : <<a, b, c>> \in Code(dev) /\ Size(<<a, b, c>>) = 3
  BY DEF Code, Size

LEMMA CodeJoin ==
  ASSUME NEW dev, NEW p \in Code(dev)
  PROVE  /\ \A q \in Code(dev) : p \o q \in Code(dev) /\ Size(p \o q) = Size(p) + Size(q)
         /\ \A a \in Good(dev) : Append(p, a) \in Code(dev) /\ Size(Append(p, a)) = Size(p) + 1
         /\ Size(p) \in Nat
  BY DEF Code, Size

\* ForEach, of w instructions for each round, as a function gives them.
Loop(lo, hi, w, f) ==
  [k \in 1..(IF hi < lo THEN 0 ELSE w * (hi - lo + 1)) |->
     f[lo + (k - 1) \div w][((k - 1) % w) + 1]]

Rounds(dev, lo, hi, w, f) == \A i \in lo..hi : f[i] \in Code(dev) /\ Size(f[i]) = w

\* A loop of the tool that pushes as many instructions for each of its rounds.
LEMMA LoopIs ==
  ASSUME NEW dev, NEW lo \in Int, NEW hi \in Int, NEW w \in Nat \ {0}, NEW f,
         Rounds(dev, lo, hi, w, f)
  PROVE  /\ Loop(lo, hi, w, f) \in Code(dev)
         /\ Size(Loop(lo, hi, w, f)) = IF hi < lo THEN 0 ELSE w * (hi - lo + 1)
<1> DEFINE n == IF hi < lo THEN 0 ELSE w * (hi - lo + 1)
           At(k) == f[lo + (k - 1) \div w][((k - 1) % w) + 1]
<1>1. n \in Nat
  <2>1. CASE hi < lo BY <2>1
  <2>2. CASE ~(hi < lo)
    <3> DEFINE d == hi - lo + 1
    <3>1. d \in Nat BY <2>2
    <3> HIDE DEF d
    <3>2. w * d \in Nat BY <3>1
    <3> QED BY <2>2, <3>2 DEF d
  <2> QED BY <2>1, <2>2
<1>2. ASSUME NEW k \in 1..n PROVE At(k) \in Good(dev)
  <2> DEFINE d == hi - lo + 1
             q == (k - 1) \div w
             i == ((k - 1) % w) + 1
  <2>1. k - 1 \in Int BY <1>1
  <2>2. q \in Int /\ (k - 1) % w \in 0..(w - 1) /\ k - 1 = (w * q) + ((k - 1) % w) BY <2>1
  <2>3. ~(hi < lo) /\ d \in Nat /\ 0 <= k - 1 /\ k - 1 < w * d BY <1>1
  <2>4. i \in 1..w BY <2>2
  <2>5. lo + q \in lo..hi
    <3> DEFINE r == (k - 1) % w
               z == k - 1
    <3>1. z \in Int /\ r \in Int /\ 0 <= r /\ r < w /\ z = w * q + r BY <2>1, <2>2
    <3> HIDE DEF r, z, q, d
    <3>2. 0 <= q BY <2>2, <2>3, <3>1 DEF z
    <3>3. q < d
      <4> SUFFICES ASSUME d <= q PROVE FALSE BY <2>2, <2>3
      <4>1. w * d <= w * q BY <2>2, <2>3
      <4> QED BY <2>2, <2>3, <3>1, <4>1 DEF z
    <3> QED BY <2>2, <3>2, <3>3 DEF d
  <2> HIDE DEF i, q
  <2>6. f[lo + q] \in Code(dev) /\ Size(f[lo + q]) = w BY <2>5 DEF Rounds
  <2>7. f[lo + q][i] \in Good(dev) BY <2>4, <2>6 DEF Code, Size
  <2> QED BY <2>7 DEF i, q
<1> HIDE DEF n, At
<1>3. [k \in 1..n |-> At(k)] \in Seq(Good(dev)) /\ Len([k \in 1..n |-> At(k)]) = n BY <1>1, <1>2
<1> QED BY <1>3 DEF n, At, Code, Size, Loop

-------------------------------------------------------------------------------
(***************************************************************************)
(* What a program emits.                                                   *)
(***************************************************************************)

\* A program without an EMIT, and one whose last instruction is its only EMIT.
Quiet(p) == \A k \in 1..Len(p) : p[k].op # EMIT
EmitsLast(p) == \A k \in 1..Len(p) : p[k].op = EMIT <=> k = Len(p)

\* Programs without an EMIT are put together from instructions that are none.
LEMMA QuietParts ==
  /\ \A a : a.op # EMIT => Quiet(<<a>>)
  /\ \A a, b : a.op # EMIT /\ b.op # EMIT => Quiet(<<a, b>>)
  /\ \A a, b, c : a.op # EMIT /\ b.op # EMIT /\ c.op # EMIT => Quiet(<<a, b, c>>)
<1>1. \A a : Len(<<a>>) = 1 /\ <<a>>[1] = a OBVIOUS
<1>2. \A a, b : Len(<<a, b>>) = 2 /\ <<a, b>>[1] = a /\ <<a, b>>[2] = b OBVIOUS
<1>3. \A a, b, c : /\ Len(<<a, b, c>>) = 3
                   /\ <<a, b, c>>[1] = a /\ <<a, b, c>>[2] = b /\ <<a, b, c>>[3] = c
  OBVIOUS
<1>4. /\ \A k \in 1..1 : k = 1
      /\ \A k \in 1..2 : k = 1 \/ k = 2
      /\ \A k \in 1..3 : k = 1 \/ k = 2 \/ k = 3
  OBVIOUS
<1>5. \A a : a.op # EMIT => Quiet(<<a>>)
  <2> SUFFICES ASSUME NEW a, a.op # EMIT PROVE Quiet(<<a>>) OBVIOUS
  <2>1. \A k \in 1..1 : <<a>>[k].op # EMIT BY <1>1, <1>4
  <2> QED BY <1>1, <2>1 DEF Quiet
<1>6. \A a, b : a.op # EMIT /\ b.op # EMIT => Quiet(<<a, b>>)
  <2> SUFFICES ASSUME NEW a, NEW b, a.op # EMIT, b.op # EMIT PROVE Quiet(<<a, b>>) OBVIOUS
  <2>1. \A k \in 1..2 : <<a, b>>[k].op # EMIT BY <1>2, <1>4
  <2> QED BY <1>2, <2>1 DEF Quiet
<1>7. \A a, b, c : a.op # EMIT /\ b.op # EMIT /\ c.op # EMIT => Quiet(<<a, b, c>>)
  <2> SUFFICES ASSUME NEW a, NEW b, NEW c, a.op # EMIT, b.op # EMIT, c.op # EMIT
               PROVE  Quiet(<<a, b, c>>)
    OBVIOUS
  <2>1. \A k \in 1..3 : <<a, b, c>>[k].op # EMIT BY <1>3, <1>4
  <2> QED BY <1>3, <2>1 DEF Quiet
<1> QED BY <1>5, <1>6, <1>7

LEMMA QuietAppend ==
  ASSUME NEW dev, NEW p \in Code(dev), NEW a \in Good(dev), Quiet(p)
  PROVE  /\ a.op # EMIT => Quiet(Append(p, a))
         /\ a.op = EMIT => EmitsLast(Append(p, a))
<1> DEFINE q == Append(p, a)
           n == Len(p)
<1>1. n \in Nat /\ Len(q) = n + 1 /\ q[n + 1] = a /\ \A k \in 1..n : q[k] = p[k] BY DEF Code
<1> HIDE DEF q, n
<1>2. \A k \in 1..(n + 1) : k \in 1..n \/ k = n + 1 BY <1>1
<1>3. \A k \in 1..n : k # n + 1 /\ q[k].op # EMIT BY <1>1 DEF Quiet, n
<1> QED BY <1>1, <1>2, <1>3 DEF Quiet, EmitsLast, q

\* The operation of an instruction, and which of them are no EMIT.
LEMMA OpIs ==
  /\ \A op, a, b, c : INSN(op, a, b, c).op = op
  /\ READ # EMIT /\ WRITE # EMIT /\ JEQ # EMIT
  /\ EmitReg0.op = EMIT
  BY DEF INSN, READ, WRITE, JEQ, EMIT, EmitReg0

LEMMA EmitsThen == \A a : a.op # EMIT => EmitsLast(<<a, EmitReg0>>)
<1> SUFFICES ASSUME NEW a, a.op # EMIT PROVE EmitsLast(<<a, EmitReg0>>) OBVIOUS
<1>1. Len(<<a, EmitReg0>>) = 2 /\ <<a, EmitReg0>>[1] = a /\ <<a, EmitReg0>>[2] = EmitReg0 OBVIOUS
<1>2. \A k \in 1..2 : <<a, EmitReg0>>[k].op = EMIT <=> k = 2 BY <1>1, OpIs
<1> QED BY <1>1, <1>2 DEF EmitsLast

LEMMA EmptyEmits == ASSUME NEW p, Size(p) = 0 PROVE EmitCount(p) = 0
<1>1. {k \in 1..Len(p) : p[k].op = EMIT} = {} BY DEF Size
<1> QED BY <1>1, FS_EmptySet DEF EmitCount

\* Quiet code around a program adds nothing to what it emits.
LEMMA EmitsWithin ==
  ASSUME NEW dev, NEW a \in Code(dev), NEW b \in Code(dev), NEW z \in Code(dev), Quiet(a), Quiet(z)
  PROVE  EmitCount(a \o b \o z) = EmitCount(b)
<1> DEFINE p == a \o b \o z
           i == Len(a)
           j == Len(b)
           l == Len(z)
           S == {k \in 1..j : b[k].op = EMIT}
           T == {k \in 1..Len(p) : p[k].op = EMIT}
           g == [k \in S |-> i + k]
<1>1. /\ i \in Nat /\ j \in Nat /\ l \in Nat /\ Len(p) = i + j + l
      /\ \A k \in 1..i : p[k] = a[k]
      /\ \A k \in 1..j : p[i + k] = b[k]
      /\ \A k \in 1..l : p[i + j + k] = z[k]
  BY DEF Code
<1>2. (\A k \in 1..i : a[k].op # EMIT) /\ (\A k \in 1..l : z[k].op # EMIT) BY DEF Quiet
<1> HIDE DEF p, i, j, l
<1>3. \A k \in 1..(i + j + l) : \/ k \in 1..i
                                \/ k - i \in 1..j /\ k = i + (k - i)
                                \/ k - (i + j) \in 1..l /\ k = i + j + (k - (i + j))
  BY <1>1
<1>4. ASSUME NEW k \in T PROVE k - i \in S /\ k = i + (k - i)
  <2>1. k \in 1..(i + j + l) /\ p[k].op = EMIT BY <1>1
  <2> QED BY <1>1, <1>2, <1>3, <2>1
<1>5. ASSUME NEW k \in S PROVE i + k \in T
  <2>1. k \in 1..j /\ p[i + k].op = EMIT BY <1>1
  <2>2. i + k \in 1..(i + j + l) BY <1>1, <2>1
  <2> QED BY <1>1, <2>1, <2>2
<1>6. g \in Bijection(S, T)
  <2>1. \A k, m \in S : i + k = i + m => k = m BY <1>1
  <2> HIDE DEF S, T
  <2> QED BY <1>4, <1>5, <2>1 DEF Bijection, Injection, Surjection, IsInjective
<1>7. IsFiniteSet(S)
  <2>1. IsFiniteSet(1..j) BY <1>1, FS_Interval
  <2> QED BY <2>1, FS_Subset
<1>8. Cardinality(T) = Cardinality(S)
  <2> HIDE DEF S, T, g
  <2> QED BY <1>6, <1>7, FS_Bijection DEF ExistsBijection
<1> QED BY <1>8 DEF EmitCount, p, j

\* Quotient and remainder are what they are known by.
LEMMA QuotientIs ==
  ASSUME NEW w \in Nat \ {0}, NEW q \in Int, NEW r \in Int, 0 <= r, r < w, NEW n \in Int, n = w * q + r
  PROVE  n \div w = q /\ n % w = r
<1> DEFINE u == n \div w
           v == n % w
<1>1. u \in Int /\ v \in Int /\ 0 <= v /\ v < w /\ n = w * u + v OBVIOUS
<1> HIDE DEF u, v
<1>2. ~(u < q)
  <2> SUFFICES ASSUME u + 1 <= q PROVE FALSE BY <1>1
  <2>1. w * (u + 1) <= w * q BY <1>1
  <2>2. w * (u + 1) = w * u + w BY <1>1
  <2> QED BY <1>1, <2>1, <2>2
<1>3. ~(q < u)
  <2> SUFFICES ASSUME q + 1 <= u PROVE FALSE BY <1>1
  <2>1. w * (q + 1) <= w * u BY <1>1
  <2>2. w * (q + 1) = w * q + w BY <1>1
  <2> QED BY <1>1, <2>1, <2>2
<1>4. u = q BY <1>1, <1>2, <1>3
<1> QED BY <1>1, <1>4 DEF u, v

\* A loop each of whose rounds ends in its one EMIT emits a word for each round.
LEMMA LoopEmits ==
  ASSUME NEW dev, NEW lo \in Int, NEW hi \in Int, NEW w \in Nat \ {0}, NEW f,
         Rounds(dev, lo, hi, w, f), \A i \in lo..hi : EmitsLast(f[i])
  PROVE  EmitCount(Loop(lo, hi, w, f)) = IF hi < lo THEN 0 ELSE hi - lo + 1
<1> DEFINE p == Loop(lo, hi, w, f)
<1>1. CASE hi < lo
  <2>1. Size(p) = 0 BY <1>1, LoopIs
  <2> QED BY <1>1, <2>1, EmptyEmits
<1>2. CASE ~(hi < lo)
  <2> DEFINE d == hi - lo + 1
             n == w * d
             T == {k \in 1..Len(p) : p[k].op = EMIT}
             g == [j \in 1..d |-> w * j]
  <2>1. d \in Nat \ {0} BY <1>2
  <2>2. Len(p) = n BY <1>2, LoopIs DEF Size
  <2>3. \A k \in 1..n : p[k] = f[lo + (k - 1) \div w][((k - 1) % w) + 1] BY <1>2 DEF Loop
  <2>4. ASSUME NEW q \in 0..(d - 1), NEW r \in 0..(w - 1) PROVE f[lo + q][r + 1].op = EMIT <=> r = w - 1
    <3>1. lo + q \in lo..hi BY <2>1
    <3>2. EmitsLast(f[lo + q]) /\ Len(f[lo + q]) = w BY <3>1 DEF Rounds, Size
    <3>3. r + 1 \in 1..w /\ (r + 1 = w <=> r = w - 1) OBVIOUS
    <3> QED BY <3>2, <3>3 DEF EmitsLast
  <2> HIDE DEF d, p
  <2>5. n \in Nat BY <2>1
  <2>6. ASSUME NEW j \in 1..d PROVE w * j \in T
    <3>1. w * j \in Int /\ 1 <= w * j /\ w * j <= n
      <4>1. w * 1 <= w * j /\ w * j <= w * d BY <2>1
      <4> QED BY <2>1, <4>1
    <3>2. w * j - 1 = w * (j - 1) + (w - 1) BY <2>1
    <3>3. (w * j - 1) \div w = j - 1 /\ (w * j - 1) % w = w - 1
      <4> DEFINE z == w * j - 1
                 q == j - 1
                 r == w - 1
      <4>1. z \in Int /\ q \in Int /\ r \in Int /\ 0 <= r /\ r < w /\ z = w * q + r BY <2>1, <3>1, <3>2
      <4> HIDE DEF z, q, r
      <4>2. z \div w = q /\ z % w = r BY <4>1, QuotientIs
      <4> QED BY <4>2 DEF z, q, r
    <3>4. p[w * j] = f[lo + (j - 1)][(w - 1) + 1]
      <4> DEFINE m == w * j
      <4>1. m \in 1..n BY <2>5, <3>1
      <4>2. (m - 1) \div w = j - 1 /\ (m - 1) % w = w - 1 BY <3>3
      <4> HIDE DEF m, n
      <4>3. p[m] = f[lo + (m - 1) \div w][((m - 1) % w) + 1] BY <2>3, <4>1
      <4>4. p[m] = f[lo + (j - 1)][(w - 1) + 1] BY <4>2, <4>3
      <4> QED BY <4>4 DEF m
    <3>5. j - 1 \in 0..(d - 1) /\ w - 1 \in 0..(w - 1) BY <2>1
    <3>6. p[w * j].op = EMIT BY <2>4, <3>4, <3>5
    <3> HIDE DEF n
    <3> QED BY <2>2, <2>5, <3>1, <3>6
  <2>7. ASSUME NEW k \in T PROVE \E j \in 1..d : k = w * j
    <3> DEFINE q == (k - 1) \div w
               r == (k - 1) % w
    <3>1. k \in 1..n /\ p[k].op = EMIT BY <2>2
    <3>2. q \in Int /\ r \in 0..(w - 1) /\ k - 1 = w * q + r BY <2>5, <3>1
    <3>3. p[k] = f[lo + q][r + 1] BY <2>3, <3>1
    <3> HIDE DEF q, r
    <3>4. 0 <= q
      <4> SUFFICES ASSUME q + 1 <= 0 PROVE FALSE BY <3>2
      <4>1. w * (q + 1) <= w * 0 BY <3>2
      <4>2. w * (q + 1) = w * q + w BY <3>2
      <4> QED BY <2>5, <3>1, <3>2, <4>1, <4>2
    <3>5. q < d
      <4> SUFFICES ASSUME d <= q PROVE FALSE BY <2>1, <3>2
      <4>1. w * d <= w * q BY <2>1, <3>2
      <4> QED BY <2>5, <3>1, <3>2, <4>1
    <3>6. r = w - 1
      <4>1. f[lo + q][r + 1].op = EMIT BY <3>1, <3>3
      <4>2. q \in 0..(d - 1) BY <2>1, <3>2, <3>4, <3>5
      <4> QED BY <2>4, <3>2, <4>1, <4>2
    <3>7. k = w * (q + 1)
      <4>1. k - 1 = w * q + (w - 1) BY <3>2, <3>6
      <4>2. w * (q + 1) = w * q + w /\ w * q \in Int BY <3>2
      <4>3. k \in Int BY <2>5, <3>1
      <4> QED BY <4>1, <4>2, <4>3
    <3>8. q + 1 \in 1..d BY <2>1, <3>2, <3>4, <3>5
    <3> QED BY <3>7, <3>8
  <2>8. \A i, j \in 1..d : w * i = w * j => i = j
    <3> SUFFICES ASSUME NEW i \in 1..d, NEW j \in 1..d, w * i = w * j, i < j PROVE FALSE
      BY <2>1
    <3>1. w * (i + 1) <= w * j BY <2>1
    <3>2. w * (i + 1) = w * i + w BY <2>1
    <3>3. w * i \in Int BY <2>1
    <3> QED BY <3>1, <3>2, <3>3
  <2>9. g \in Bijection(1..d, T)
    <3> HIDE DEF T, n
    <3> QED BY <2>6, <2>7, <2>8 DEF Bijection, Injection, Surjection, IsInjective
  <2>10. IsFiniteSet(1..d) /\ Cardinality(1..d) = d BY <2>1, FS_Interval
  <2>11. Cardinality(T) = d
    <3> HIDE DEF T, g
    <3> QED BY <2>9, <2>10, FS_Bijection DEF ExistsBijection
  <2>12. EmitCount(p) = d BY <2>11 DEF EmitCount
  <2> QED BY <1>2, <2>12 DEF d, p
<1> QED BY <1>1, <1>2 DEF p

LEMMA EmitCode == \A dev : EmitReg0 \in Good(dev)
  BY OperandIs, InsnIs DEF EmitReg0

-------------------------------------------------------------------------------
(***************************************************************************)
(* The drivers.                                                            *)
(***************************************************************************)

\* A device whose id is the address it is reached at.
Addressed(dev) == dev.id \in Int /\ (OddlyAddressed(dev) \/ dev.id \in FiveBits)

\* A device as the exec functions set it up.
IsDevice(dev) ==
  /\ dev.drv \in Drivers /\ dev.id \in Int
  /\ dev.drv \in {"mmd", "mmd-c22"} => dev.id \in Clause45
  /\ dev.drv \notin {"mmd", "mmd-c22"} => Addressed(dev)
  /\ dev.drv \in {"mva", "mscc"} => dev.page_reg \in FiveBits

\* The registers of a switch: a register of five bits in one of 32 spaces.
SwitchRegs == {r \in Int : MvlsPort(r) \in FiveBits /\ r % 65536 \in FiveBits}

\* The registers a driver is handed.
RegsOf(drv) == CASE drv = "phy" -> FiveBits [] drv = "mvls" -> SwitchRegs [] OTHER -> Int

\* What the drivers push is code as long as they are handed registers of theirs, of a
\* length that does not depend on the register.
LEMMA PhyCode ==
  ASSUME NEW dev, dev.id \in Int, NEW reg \in Int, Reached(dev, dev.id, IMM(reg))
  PROVE  /\ phy_read(dev, reg) \in Code(dev) /\ Size(phy_read(dev, reg)) = 1
         /\ \A val \in Operands : /\ phy_write(dev, reg, val) \in Code(dev)
                                  /\ Size(phy_write(dev, reg, val)) = 1
         /\ ReadEmit(dev, reg) \in Code(dev) /\ Size(ReadEmit(dev, reg)) = 2
<1>1. IMM(reg) \in Operands /\ REG(0) \in Registers BY OperandIs
<1>2. INSN(READ, IMM(dev.id), IMM(reg), REG(0)) \in Good(dev) BY <1>1, AccessIs
<1>3. \A val \in Operands : INSN(WRITE, IMM(dev.id), IMM(reg), val) \in Good(dev)
  BY <1>1, AccessIs
<1> QED BY <1>2, <1>3, EmitCode, CodeParts DEF phy_read, phy_write, ReadEmit

\* A register of five bits of an addressed device.
LEMMA LowCode ==
  ASSUME NEW dev, Addressed(dev), NEW reg \in FiveBits
  PROVE  /\ dev.id \in Int /\ reg \in Int /\ IMM(reg) \in Operands
         /\ Reached(dev, dev.id, IMM(reg))
         /\ \A c \in Registers : INSN(READ, IMM(dev.id), IMM(reg), c) \in Good(dev)
         /\ \A c \in Operands : INSN(WRITE, IMM(dev.id), IMM(reg), c) \in Good(dev)
<1>1. reg \in Int BY FiveIs
<1>2. dev.id \in Int BY DEF Addressed
<1>3. IMM(reg) \in Low /\ IMM(reg) \in Operands BY <1>1, OperandIs
<1>4. Reached(dev, dev.id, IMM(reg)) BY <1>3 DEF Addressed, Reached
<1> QED BY <1>1, <1>2, <1>3, <1>4, AccessIs

LEMMA MmdC22Code ==
  ASSUME NEW dev, dev.id \in Clause45, NEW reg \in Int
  PROVE  /\ mmd_c22_address(dev, reg) \in Code(dev)
         /\ INSN(READ, IMM(PrtAd(dev.id)), IMM(14), REG(0)) \in Good(dev)
         /\ mmd_c22_read(dev, reg) \in Code(dev) /\ Size(mmd_c22_read(dev, reg)) = 4
         /\ \A val \in Operands : /\ mmd_c22_write(dev, reg, val) \in Code(dev)
                                  /\ Size(mmd_c22_write(dev, reg, val)) = 4
<1> DEFINE p == PrtAd(dev.id)
           d == DevAd(dev.id)
<1>0. dev.id \in Int BY FiveIs
<1>1. p \in Int /\ 0 <= p /\ p <= 31 /\ d \in Int /\ d + 16384 \in Int
  BY <1>0, SMTT(10) DEF PrtAd, DevAd
<1> HIDE DEF p, d
<1>2. /\ IMM(13) \in Operands /\ IMM(14) \in Operands
      /\ IMM(d) \in Operands /\ IMM(reg) \in Operands /\ IMM(d + 16384) \in Operands
      /\ REG(0) \in Registers
  BY <1>1, OperandIs
<1>3. p \in FiveBits BY <1>1, FiveIs
<1>4. IMM(13) \in Low /\ IMM(14) \in Low BY FiveIs, OperandIs
<1>5. Reached(dev, p, IMM(13)) /\ Reached(dev, p, IMM(14)) BY <1>3, <1>4 DEF Reached
<1>6. /\ INSN(WRITE, IMM(p), IMM(13), IMM(d)) \in Good(dev)
      /\ INSN(WRITE, IMM(p), IMM(14), IMM(reg)) \in Good(dev)
      /\ INSN(WRITE, IMM(p), IMM(13), IMM(d + 16384)) \in Good(dev)
      /\ INSN(READ, IMM(p), IMM(14), REG(0)) \in Good(dev)
      /\ \A val \in Operands : INSN(WRITE, IMM(p), IMM(14), val) \in Good(dev)
  BY <1>1, <1>2, <1>5, AccessIs
<1>7. mmd_c22_address(dev, reg) \in Code(dev) /\ Size(mmd_c22_address(dev, reg)) = 3
  BY <1>6, CodeParts DEF mmd_c22_address, p, d
<1> QED BY <1>6, <1>7, CodeJoin DEF mmd_c22_read, mmd_c22_write, p

LEMMA PageCode ==
  ASSUME NEW dev, Addressed(dev), dev.page_reg \in FiveBits, NEW reg \in Int
  PROVE  /\ select_page(dev, Page(reg)) \in Code(dev) /\ Size(select_page(dev, Page(reg))) = 3
         /\ restore_page(dev, Page(reg)) \in Code(dev) /\ Size(restore_page(dev, Page(reg))) = 2
<1> DEFINE g == Page(reg)
<1>1. g \in Int BY SMTT(10) DEF Page
<1> HIDE DEF g
<1>2. /\ IMM(g) \in Operands /\ IMM(1) \in Immediates /\ REG(1) \in Registers /\ REG(1) \in Operands
  BY <1>1, OperandIs
<1>3. /\ INSN(READ, IMM(dev.id), IMM(dev.page_reg), REG(1)) \in Good(dev)
      /\ INSN(WRITE, IMM(dev.id), IMM(dev.page_reg), IMM(g)) \in Good(dev)
      /\ INSN(WRITE, IMM(dev.id), IMM(dev.page_reg), REG(1)) \in Good(dev)
  BY <1>2, LowCode
<1>4. INSN(JEQ, REG(1), IMM(g), IMM(1)) \in Good(dev) BY <1>2, InsnIs
<1> QED BY <1>3, <1>4, CodeParts DEF select_page, restore_page, g

LEMMA PphyCode ==
  ASSUME NEW dev, Addressed(dev), dev.page_reg \in FiveBits, NEW reg \in Int
  PROVE  /\ pphy_read(dev, reg) \in Code(dev) /\ Size(pphy_read(dev, reg)) = 6
         /\ \A val \in Operands : /\ pphy_write(dev, reg, val) \in Code(dev)
                                  /\ Size(pphy_write(dev, reg, val)) = 6
<1>1. reg % 32 \in FiveBits
  <2> DEFINE n == reg % 32
  <2>1. n \in Int /\ 0 <= n /\ n <= 31 BY SMTT(10)
  <2> HIDE DEF n
  <2> QED BY <2>1, FiveIs DEF n
<1>2. REG(0) \in Registers BY OperandIs
<1>3. /\ INSN(READ, IMM(dev.id), IMM(reg % 32), REG(0)) \in Good(dev)
      /\ \A val \in Operands : INSN(WRITE, IMM(dev.id), IMM(reg % 32), val) \in Good(dev)
  BY <1>1, <1>2, LowCode
<1> DEFINE a == select_page(dev, Page(reg))
           r == <<INSN(READ, IMM(dev.id), IMM(reg % 32), REG(0))>>
           z == restore_page(dev, Page(reg))
<1>4. /\ a \in Code(dev) /\ Size(a) = 3 /\ z \in Code(dev) /\ Size(z) = 2
      /\ r \in Code(dev) /\ Size(r) = 1
  BY <1>3, CodeParts, PageCode
<1>5. pphy_read(dev, reg) = a \o r \o z BY DEF pphy_read
<1>6. ASSUME NEW val \in Operands
      PROVE  pphy_write(dev, reg, val) \in Code(dev) /\ Size(pphy_write(dev, reg, val)) = 6
  <2> DEFINE w == <<INSN(WRITE, IMM(dev.id), IMM(reg % 32), val)>>
  <2>1. w \in Code(dev) /\ Size(w) = 1 BY <1>3, CodeParts
  <2>2. pphy_write(dev, reg, val) = a \o w \o z BY DEF pphy_write
  <2> HIDE DEF w, a, z
  <2> QED BY <1>4, <2>1, <2>2, CodeJoin
<1> HIDE DEF a, r, z
<1>7. a \o r \o z \in Code(dev) /\ Size(a \o r \o z) = 6 BY <1>4, CodeJoin
<1> QED BY <1>5, <1>6, <1>7

\* The loop around a fragment that polls.
LEMMA BusyCode ==
  ASSUME NEW dev, NEW poll \in Code(dev)
  PROVE  while_busy(poll) \in Code(dev) /\ Size(while_busy(poll)) = Size(poll) + 2
<1> DEFINE n == 0 - (Len(poll) + 1) - 1
<1>1. n \in Int BY CodeJoin DEF Size
<1>2. GOTO(Len(poll) + 1, 0) = IMM(n) BY DEF GOTO
<1> HIDE DEF n
<1>3. /\ REG(0) \in Registers /\ REG(0) \in Operands /\ IMM(MVLS_BUSY) \in Operands
      /\ IMM(n) \in Immediates
  BY <1>1, OperandIs DEF MVLS_BUSY
<1>4. /\ INSN(AND, REG(0), IMM(MVLS_BUSY), REG(0)) \in Good(dev)
      /\ INSN(JEQ, REG(0), IMM(MVLS_BUSY), IMM(n)) \in Good(dev)
  BY <1>3, InsnIs
<1> DEFINE z == <<INSN(AND, REG(0), IMM(MVLS_BUSY), REG(0)),
                  INSN(JEQ, REG(0), IMM(MVLS_BUSY), IMM(n))>>
<1>5. z \in Code(dev) /\ Size(z) = 2 BY <1>4, CodeParts
<1>6. while_busy(poll) = poll \o z BY <1>2 DEF while_busy
<1> HIDE DEF z
<1> QED BY <1>5, <1>6, CodeJoin

\* The three registers of a switch that are on the bus.
LEMMA MvlsBus == MVLS_CMD \in FiveBits /\ MVLS_DATA \in FiveBits /\ MVLS_CMD \in Int /\ MVLS_DATA \in Int
  BY FiveIs DEF MVLS_CMD, MVLS_DATA

LEMMA WaitCmdCode ==
  ASSUME NEW dev, Addressed(dev)
  PROVE  mvls_wait_cmd(dev.id) \in Code(dev) /\ Size(mvls_wait_cmd(dev.id)) = 3
<1> DEFINE n == dev.id % 256
           p == <<INSN(READ, IMM(n), IMM(MVLS_CMD), REG(0))>>
<1>0. dev.id \in Int BY DEF Addressed
<1>1. n \in Int BY <1>0, SMTT(10)
<1>2. OddlyAddressed(dev) \/ n \in FiveBits
  <2>1. CASE dev.id \in FiveBits
    <3>1. 0 <= dev.id /\ dev.id <= 31 BY <1>0, <2>1, FiveIs
    <3>2. n = dev.id BY <1>0, <3>1, SMTT(10)
    <3> HIDE DEF n
    <3> QED BY <2>1, <3>2
  <2> QED BY <2>1 DEF Addressed
<1> HIDE DEF n
<1>3. IMM(MVLS_CMD) \in Operands /\ IMM(MVLS_CMD) \in Low /\ REG(0) \in Registers
  BY MvlsBus, OperandIs
<1>4. Reached(dev, n, IMM(MVLS_CMD)) BY <1>2, <1>3 DEF Reached
<1>5. INSN(READ, IMM(n), IMM(MVLS_CMD), REG(0)) \in Good(dev) BY <1>1, <1>3, <1>4, AccessIs
<1>6. p \in Code(dev) /\ Size(p) = 1 BY <1>5, CodeParts
<1> HIDE DEF p
<1>7. while_busy(p) \in Code(dev) /\ Size(while_busy(p)) = 3 BY <1>6, BusyCode
<1> QED BY <1>7 DEF mvls_wait_cmd, p, n

\* What a read or a write of a switch's register is made of.
MvlsLen(dev) == IF dev.id = 0 THEN 1 ELSE 5
MvlsNo(reg) == reg % 65536
MvlsMulti(reg, write) == mvls_multi_cmd(MvlsPort(reg), MvlsNo(reg), write)

LEMMA MvlsParts ==
  ASSUME NEW dev, Addressed(dev), NEW reg \in SwitchRegs
  PROVE  /\ \A c \in Registers : INSN(READ, IMM(MvlsPort(reg)), IMM(MvlsNo(reg)), c) \in Good(dev)
         /\ \A c \in Operands : INSN(WRITE, IMM(MvlsPort(reg)), IMM(MvlsNo(reg)), c) \in Good(dev)
         /\ \A write \in BOOLEAN :
              INSN(WRITE, IMM(dev.id), IMM(MVLS_CMD), IMM(MvlsMulti(reg, write))) \in Good(dev)
<1> DEFINE p == MvlsPort(reg)
           q == MvlsNo(reg)
<1>0. p \in FiveBits /\ q \in FiveBits BY DEF SwitchRegs, MvlsNo
<1> HIDE DEF p, q
<1>1. p \in Int /\ q \in Int BY <1>0, FiveIs
<1>2. \A write \in BOOLEAN : mvls_multi_cmd(p, q, write) \in Int
  BY <1>1, SMTT(10) DEF mvls_multi_cmd, MVLS_BUSY
<1>3. IMM(q) \in Operands /\ IMM(q) \in Low BY <1>0, <1>1, OperandIs
<1>4. Reached(dev, p, IMM(q)) BY <1>0, <1>3 DEF Reached
<1>5. /\ \A c \in Registers : INSN(READ, IMM(p), IMM(q), c) \in Good(dev)
      /\ \A c \in Operands : INSN(WRITE, IMM(p), IMM(q), c) \in Good(dev)
  BY <1>1, <1>3, <1>4, AccessIs
<1>6. ASSUME NEW write \in BOOLEAN
      PROVE  INSN(WRITE, IMM(dev.id), IMM(MVLS_CMD), IMM(mvls_multi_cmd(p, q, write))) \in Good(dev)
  <2> DEFINE c == mvls_multi_cmd(p, q, write)
  <2>1. c \in Int BY <1>2
  <2> HIDE DEF c
  <2>2. IMM(c) \in Operands BY <2>1, OperandIs
  <2>3. INSN(WRITE, IMM(dev.id), IMM(MVLS_CMD), IMM(c)) \in Good(dev) BY <2>2, MvlsBus, LowCode
  <2> QED BY <2>3 DEF c
<1> QED BY <1>5, <1>6 DEF p, q, MvlsMulti

LEMMA MvlsReadCode ==
  ASSUME NEW dev, Addressed(dev), NEW reg \in SwitchRegs, NEW to \in Int
  PROVE  /\ mvls_read_to(dev, reg, to) \in Code(dev)
         /\ Size(mvls_read_to(dev, reg, to)) = MvlsLen(dev)
<1> DEFINE p == MvlsPort(reg)
           q == MvlsNo(reg)
           c == MvlsMulti(reg, FALSE)
<1>1. REG(to) \in Registers BY OperandIs
<1>2. /\ INSN(READ, IMM(p), IMM(q), REG(to)) \in Good(dev)
      /\ INSN(WRITE, IMM(dev.id), IMM(MVLS_CMD), IMM(c)) \in Good(dev)
  BY <1>1, MvlsParts
<1>3. INSN(READ, IMM(dev.id), IMM(MVLS_DATA), REG(to)) \in Good(dev) BY <1>1, MvlsBus, LowCode
<1> HIDE DEF p, q, c
<1>4. CASE dev.id = 0
  <2>1. mvls_read_to(dev, reg, to) = <<INSN(READ, IMM(p), IMM(q), REG(to))>>
    BY <1>4 DEF mvls_read_to, MvlsNo, p, q
  <2> QED BY <1>2, <1>4, <2>1, CodeParts DEF MvlsLen
<1>5. CASE dev.id # 0
  <2> DEFINE a == <<INSN(WRITE, IMM(dev.id), IMM(MVLS_CMD), IMM(c))>>
             b == mvls_wait_cmd(dev.id)
             z == <<INSN(READ, IMM(dev.id), IMM(MVLS_DATA), REG(to))>>
  <2>1. mvls_read_to(dev, reg, to) = a \o b \o z BY <1>5 DEF mvls_read_to, MvlsMulti, MvlsNo, c, p, q
  <2>2. /\ a \in Code(dev) /\ Size(a) = 1 /\ b \in Code(dev) /\ Size(b) = 3
        /\ z \in Code(dev) /\ Size(z) = 1
    BY <1>2, <1>3, CodeParts, WaitCmdCode
  <2> HIDE DEF a, b, z
  <2>3. a \o b \o z \in Code(dev) /\ Size(a \o b \o z) = 5 BY <2>2, CodeJoin
  <2> QED BY <1>5, <2>1, <2>3 DEF MvlsLen
<1> QED BY <1>4, <1>5

LEMMA MvlsWriteCode ==
  ASSUME NEW dev, Addressed(dev), NEW reg \in SwitchRegs, NEW val \in Operands
  PROVE  mvls_write(dev, reg, val) \in Code(dev) /\ Size(mvls_write(dev, reg, val)) = MvlsLen(dev)
<1> DEFINE p == MvlsPort(reg)
           q == MvlsNo(reg)
           c == MvlsMulti(reg, TRUE)
<1>1. /\ INSN(WRITE, IMM(p), IMM(q), val) \in Good(dev)
      /\ INSN(WRITE, IMM(dev.id), IMM(MVLS_CMD), IMM(c)) \in Good(dev)
  BY MvlsParts
<1>2. INSN(WRITE, IMM(dev.id), IMM(MVLS_DATA), val) \in Good(dev) BY MvlsBus, LowCode
<1> HIDE DEF p, q, c
<1>4. CASE dev.id = 0
  <2>1. mvls_write(dev, reg, val) = <<INSN(WRITE, IMM(p), IMM(q), val)>>
    BY <1>4 DEF mvls_write, MvlsNo, p, q
  <2> QED BY <1>1, <1>4, <2>1, CodeParts DEF MvlsLen
<1>5. CASE dev.id # 0
  <2> DEFINE a == <<INSN(WRITE, IMM(dev.id), IMM(MVLS_DATA), val),
                    INSN(WRITE, IMM(dev.id), IMM(MVLS_CMD), IMM(c))>>
             b == mvls_wait_cmd(dev.id)
  <2>1. mvls_write(dev, reg, val) = a \o b BY <1>5 DEF mvls_write, MvlsMulti, MvlsNo, c, p, q
  <2>2. a \in Code(dev) /\ Size(a) = 2 /\ b \in Code(dev) /\ Size(b) = 3
    BY <1>1, <1>2, CodeParts, WaitCmdCode
  <2> HIDE DEF a, b
  <2>3. a \o b \in Code(dev) /\ Size(a \o b) = 5 BY <2>2, CodeJoin
  <2> QED BY <1>5, <2>1, <2>3 DEF MvlsLen
<1> QED BY <1>4, <1>5

LEMMA MvlsWaitCode ==
  ASSUME NEW dev, Addressed(dev), NEW reg \in SwitchRegs
  PROVE  mvls_wait(dev, reg) \in Code(dev) /\ Size(mvls_wait(dev, reg)) = MvlsLen(dev) + 2
  BY MvlsReadCode, BusyCode DEF mvls_wait

LEMMA XrsCode ==
  ASSUME NEW dev, Addressed(dev), NEW reg \in Int
  PROVE  /\ xrs_read(dev, reg) \in Code(dev) /\ Size(xrs_read(dev, reg)) = 3
         /\ \A val \in Operands : /\ xrs_write(dev, reg, val) \in Code(dev)
                                  /\ Size(xrs_write(dev, reg, val)) = 3
<1> DEFINE h == reg \div 65536
           e == Even(reg)
<1>1. h \in Int /\ e \in Int /\ e + 1 \in Int BY SMTT(10) DEF Even
<1> HIDE DEF h, e
<1>2. /\ IMM(h) \in Operands /\ IMM(e) \in Operands /\ IMM(e + 1) \in Operands
      /\ REG(0) \in Registers /\ \A val \in Operands : IMM(val) \in Operands
  BY <1>1, OperandIs
<1>3. XRS_IBA1 \in FiveBits /\ XRS_IBA0 \in FiveBits /\ XRS_IBD \in FiveBits
  BY FiveIs DEF XRS_IBA1, XRS_IBA0, XRS_IBD
<1>4. /\ INSN(WRITE, IMM(dev.id), IMM(XRS_IBA1), IMM(h)) \in Good(dev)
      /\ INSN(WRITE, IMM(dev.id), IMM(XRS_IBA0), IMM(e)) \in Good(dev)
      /\ INSN(READ, IMM(dev.id), IMM(XRS_IBD), REG(0)) \in Good(dev)
      /\ INSN(WRITE, IMM(dev.id), IMM(XRS_IBA0), IMM(e + 1)) \in Good(dev)
      /\ \A val \in Operands : INSN(WRITE, IMM(dev.id), IMM(XRS_IBD), IMM(val)) \in Good(dev)
  BY <1>2, <1>3, LowCode
<1> QED BY <1>4, CodeParts DEF xrs_read, xrs_write, h, e

\* Every driver reads and writes with code of a length of its own.
ReadLen(dev) ==
  CASE dev.drv \in {"phy", "mmd"}  -> 1
    [] dev.drv = "mmd-c22"         -> 4
    [] dev.drv \in {"mva", "mscc"} -> 6
    [] dev.drv = "mvls"            -> MvlsLen(dev)
    [] dev.drv = "xrs"             -> 3

LEMMA DriverCode ==
  ASSUME NEW dev, IsDevice(dev), NEW reg \in RegsOf(dev.drv)
  PROVE  /\ driver_read(dev, reg) \in Code(dev) /\ Size(driver_read(dev, reg)) = ReadLen(dev)
         /\ \A val \in Operands : /\ driver_write(dev, reg, val) \in Code(dev)
                                  /\ Size(driver_write(dev, reg, val)) = ReadLen(dev)
         /\ reg \in Int
<1>0. dev.drv \in Drivers /\ dev.id \in Int BY DEF IsDevice
<1>1. CASE dev.drv = "phy"
  <2>1. driver_read(dev, reg) = phy_read(dev, reg) /\ ReadLen(dev) = 1
    BY <1>1 DEF driver_read, ReadLen
  <2>2. \A val : driver_write(dev, reg, val) = phy_write(dev, reg, val) BY <1>1 DEF driver_write
  <2>3. Addressed(dev) /\ reg \in FiveBits BY <1>1 DEF IsDevice, RegsOf
  <2>4. reg \in Int /\ Reached(dev, dev.id, IMM(reg)) BY <2>3, LowCode
  <2> QED BY <1>0, <2>1, <2>2, <2>4, PhyCode
<1>2. CASE dev.drv = "mmd"
  <2>1. driver_read(dev, reg) = phy_read(dev, reg) /\ ReadLen(dev) = 1
    BY <1>2 DEF driver_read, ReadLen
  <2>2. \A val : driver_write(dev, reg, val) = phy_write(dev, reg, val) BY <1>2 DEF driver_write
  <2>3. reg \in Int /\ Reached(dev, dev.id, IMM(reg)) BY <1>2 DEF IsDevice, RegsOf, Reached
  <2> QED BY <1>0, <2>1, <2>2, <2>3, PhyCode
<1>3. CASE dev.drv = "mmd-c22"
  <2>1. driver_read(dev, reg) = mmd_c22_read(dev, reg) /\ ReadLen(dev) = 4
    BY <1>3 DEF driver_read, ReadLen
  <2>2. \A val : driver_write(dev, reg, val) = mmd_c22_write(dev, reg, val)
    BY <1>3 DEF driver_write
  <2>3. dev.id \in Clause45 /\ reg \in Int BY <1>3 DEF IsDevice, RegsOf
  <2> QED BY <2>1, <2>2, <2>3, MmdC22Code
<1>4. CASE dev.drv \in {"mva", "mscc"}
  <2>1. driver_read(dev, reg) = pphy_read(dev, reg) /\ ReadLen(dev) = 6
    BY <1>4 DEF driver_read, ReadLen
  <2>2. \A val : driver_write(dev, reg, val) = pphy_write(dev, reg, val)
    BY <1>4 DEF driver_write
  <2>3. Addressed(dev) /\ dev.page_reg \in FiveBits /\ reg \in Int
    BY <1>4 DEF IsDevice, RegsOf
  <2> QED BY <2>1, <2>2, <2>3, PphyCode
<1>5. CASE dev.drv = "mvls"
  <2>1. driver_read(dev, reg) = mvls_read_to(dev, reg, 0) /\ ReadLen(dev) = MvlsLen(dev)
    BY <1>5 DEF driver_read, mvls_read, ReadLen
  <2>2. \A val : driver_write(dev, reg, val) = mvls_write(dev, reg, val)
    BY <1>5 DEF driver_write
  <2>3. Addressed(dev) /\ reg \in SwitchRegs BY <1>5 DEF IsDevice, RegsOf
  <2>4. reg \in Int BY <2>3 DEF SwitchRegs
  <2> QED BY <2>1, <2>2, <2>3, <2>4, MvlsReadCode, MvlsWriteCode
<1>6. CASE dev.drv = "xrs"
  <2>1. driver_read(dev, reg) = xrs_read(dev, reg) /\ ReadLen(dev) = 3
    BY <1>6 DEF driver_read, ReadLen
  <2>2. \A val : driver_write(dev, reg, val) = xrs_write(dev, reg, val)
    BY <1>6 DEF driver_write
  <2>3. Addressed(dev) /\ reg \in Int BY <1>6 DEF IsDevice, RegsOf
  <2> QED BY <2>1, <2>2, <2>3, XrsCode
<1> QED BY <1>0, <1>1, <1>2, <1>3, <1>4, <1>5, <1>6 DEF Drivers

\* What the read of a driver pushes has no EMIT, nor has what selects and restores a page.
LEMMA ReadQuiet ==
  ASSUME NEW dev, IsDevice(dev), dev.drv \notin {"mva", "mscc", "mvls"}, NEW reg \in RegsOf(dev.drv)
  PROVE  Quiet(driver_read(dev, reg))
<1>0. dev.drv \in Drivers BY DEF IsDevice
<1>1. CASE dev.drv \in {"phy", "mmd"}
  <2>1. driver_read(dev, reg) = phy_read(dev, reg) BY <1>1 DEF driver_read
  <2> QED BY <2>1, QuietParts, OpIs DEF phy_read
<1>2. CASE dev.drv = "mmd-c22"
  <2> DEFINE a == mmd_c22_address(dev, reg)
             b == INSN(READ, IMM(PrtAd(dev.id)), IMM(14), REG(0))
  <2>1. driver_read(dev, reg) = Append(a, b) BY <1>2 DEF driver_read, mmd_c22_read
  <2>2. Quiet(a) /\ b.op # EMIT BY QuietParts, OpIs DEF mmd_c22_address
  <2>3. a \in Code(dev) /\ b \in Good(dev)
    <3>1. dev.id \in Clause45 /\ reg \in Int BY <1>2 DEF IsDevice, RegsOf
    <3> QED BY <3>1, MmdC22Code
  <2> HIDE DEF a, b
  <2> QED BY <2>1, <2>2, <2>3, QuietAppend
<1>3. CASE dev.drv = "xrs"
  <2>1. driver_read(dev, reg) = xrs_read(dev, reg) BY <1>3 DEF driver_read
  <2> QED BY <2>1, QuietParts, OpIs DEF xrs_read
<1> QED BY <1>0, <1>1, <1>2, <1>3 DEF Drivers

LEMMA PageQuiet == \A dev, page : Quiet(select_page(dev, page)) /\ Quiet(restore_page(dev, page))
  BY QuietParts, OpIs DEF select_page, restore_page

LEMMA LengthIs ==
  ASSUME NEW dev, dev.drv \in Drivers
  PROVE  /\ ReadLen(dev) \in Nat \ {0} /\ ReadLen(dev) <= 6
         /\ MvlsLen(dev) \in Nat \ {0} /\ MvlsLen(dev) <= 5
  BY DEF ReadLen, MvlsLen, Drivers

-------------------------------------------------------------------------------
(***************************************************************************)
(* The commands: what they push is code, of less than 500 instructions but *)
(* for the dumps of drivers with more than 32 registers.                   *)
(***************************************************************************)

\* Operands and instructions the commands have in common.
LEMMA CommonOperands ==
  /\ REG(0) \in Registers /\ REG(0) \in Operands /\ REG(1) \in Registers /\ REG(1) \in Operands
  /\ REG(6) \in Registers /\ REG(6) \in Operands /\ REG(7) \in Registers /\ REG(7) \in Operands
  /\ IMM(0) \in Operands /\ IMM(1) \in Operands /\ IMM(1) \in Immediates
  BY OperandIs

\* The programs of less than 500 instructions.
Short(dev) == {p \in Code(dev) : Size(p) <= 499}

LEMMA RawCode ==
  ASSUME NEW dev, IsDevice(dev), NEW reg \in RegsOf(dev.drv)
  PROVE  /\ raw_read(dev, reg) \in Short(dev)
         /\ \A val, mask \in Int : raw_write(dev, reg, val, mask) \in Short(dev)
<1> DEFINE n == ReadLen(dev)
<1>0. n \in Nat /\ n <= 6 BY LengthIs DEF IsDevice
<1>1. /\ driver_read(dev, reg) \in Code(dev) /\ Size(driver_read(dev, reg)) = n
      /\ \A val \in Operands : /\ driver_write(dev, reg, val) \in Code(dev)
                               /\ Size(driver_write(dev, reg, val)) = n
  BY DriverCode
<1> HIDE DEF n
<1>2. raw_read(dev, reg) \in Short(dev)
  <2>1. raw_read(dev, reg) \in Code(dev) /\ Size(raw_read(dev, reg)) = n + 1
    BY <1>1, EmitCode, CodeJoin DEF raw_read
  <2> QED BY <1>0, <2>1 DEF Short
<1>3. ASSUME NEW val \in Int, NEW mask \in Int PROVE raw_write(dev, reg, val, mask) \in Short(dev)
  <2>1. IMM(val) \in Operands /\ IMM(mask) \in Operands BY OperandIs
  <2> DEFINE m == <<INSN(AND, REG(0), IMM(mask), REG(0)), INSN(OR, REG(0), IMM(val), REG(0))>>
             r == driver_read(dev, reg)
             w == driver_write(dev, reg, IMM(val))
             z == driver_write(dev, reg, REG(0))
  <2>2. INSN(AND, REG(0), IMM(mask), REG(0)) \in Good(dev) /\ INSN(OR, REG(0), IMM(val), REG(0)) \in Good(dev)
    BY <2>1, CommonOperands, InsnIs
  <2>3. m \in Code(dev) /\ Size(m) = 2 BY <2>2, CodeParts
  <2>4. raw_write(dev, reg, val, mask) = IF mask = 0 THEN w ELSE r \o m \o z
    BY DEF raw_write
  <2>5. /\ r \in Code(dev) /\ Size(r) = n /\ w \in Code(dev) /\ Size(w) = n
        /\ z \in Code(dev) /\ Size(z) = n
    BY <1>1, <2>1, CommonOperands
  <2> HIDE DEF m, r, w, z
  <2>6. r \o m \in Code(dev) /\ Size(r \o m) = n + 2 BY <2>3, <2>5, CodeJoin
  <2>7. r \o m \o z \in Code(dev) /\ Size(r \o m \o z) = n + 2 + n BY <2>5, <2>6, CodeJoin
  <2>8. w \in Short(dev) /\ r \o m \o z \in Short(dev) BY <1>0, <2>5, <2>7 DEF Short
  <2> QED BY <2>4, <2>8
<1> QED BY <1>2, <1>3

LEMMA PphyDumpCode ==
  ASSUME NEW dev, IsDevice(dev), dev.drv \in {"mva", "mscc"}, NEW start \in Int, NEW end \in FiveBits
  PROVE  /\ dump(dev, start, end) \in Short(dev)
         /\ EmitCount(dump(dev, start, end)) = IF end < start % 32 THEN 0 ELSE end - (start % 32) + 1
<1> DEFINE One(reg) == ReadEmit(dev, reg)
           f == [i \in Int |-> One(i)]
           lo == start % 32
<1>0. Addressed(dev) /\ dev.page_reg \in FiveBits BY DEF IsDevice
<1>1. lo \in Int /\ 0 <= lo BY SMTT(10)
<1>2. end \in Int /\ 0 <= end /\ end <= 31 BY FiveIs
<1> HIDE DEF lo
<1>3. \A i \in FiveBits : One(i) \in Code(dev) /\ Size(One(i)) = 2 BY <1>0, LowCode, PhyCode
<1>4. \A i \in lo..end : i \in FiveBits /\ i \in Int BY <1>1, <1>2, FiveIs
<1>5. Rounds(dev, lo, end, 2, f) BY <1>3, <1>4 DEF Rounds
<1> DEFINE b == ForEach(lo, end, One)
<1>6. CASE end < lo
  <2>1. b \in Code(dev) /\ Size(b) = 0 BY <1>6 DEF ForEach, Code, Size
  <2> DEFINE a == select_page(dev, Page(start))
             z == restore_page(dev, Page(start))
  <2>2. a \in Code(dev) /\ Size(a) = 3 /\ z \in Code(dev) /\ Size(z) = 2 BY <1>0, PageCode
  <2>3. dump(dev, start, end) = a \o b \o z BY DEF dump, pphy_dump, lo
  <2> HIDE DEF a, b, z
  <2>4. a \o b \in Code(dev) /\ Size(a \o b) = 3 BY <2>1, <2>2, CodeJoin
  <2>5. a \o b \o z \in Code(dev) /\ Size(a \o b \o z) = 5 BY <2>2, <2>4, CodeJoin
  <2>6. EmitCount(a \o b \o z) = 0
    <3>1. Quiet(a) /\ Quiet(z) BY PageQuiet DEF a, z
    <3> QED BY <2>1, <2>2, <3>1, EmitsWithin, EmptyEmits
  <2> QED BY <1>6, <2>3, <2>5, <2>6 DEF Short, lo
<1>7. CASE ~(end < lo)
  <2>0. lo \in lo..end BY <1>1, <1>2, <1>7
  <2>1. b = Loop(lo, end, 2, f)
    <3>1. Len(One(lo)) = 2 BY <1>3, <1>4, <2>0 DEF Size
    <3>2. \A k \in Int : f[lo + (k - 1) \div 2] = One(lo + (k - 1) \div 2) BY <1>1
    <3> HIDE DEF One, f
    <3> QED BY <3>1, <3>2 DEF ForEach, Loop
  <2>2. b \in Code(dev) /\ Size(b) = 2 * (end - lo + 1)
    <3> HIDE DEF f, b
    <3> QED BY <1>1, <1>2, <1>5, <1>7, <2>1, LoopIs
  <2> DEFINE a == select_page(dev, Page(start))
             z == restore_page(dev, Page(start))
  <2>3. a \in Code(dev) /\ Size(a) = 3 /\ z \in Code(dev) /\ Size(z) = 2 BY <1>0, PageCode
  <2>4. dump(dev, start, end) = a \o b \o z BY DEF dump, pphy_dump, lo
  <2> HIDE DEF a, b, z
  <2>5. Size(b) \in Nat /\ Size(b) <= 64 BY <1>1, <1>2, <1>7, <2>2
  <2>6. a \o b \in Code(dev) /\ Size(a \o b) = 3 + Size(b) BY <2>2, <2>3, CodeJoin
  <2>7. a \o b \o z \in Code(dev) /\ Size(a \o b \o z) = 3 + Size(b) + 2 BY <2>3, <2>6, CodeJoin
  <2>8. EmitCount(b) = end - lo + 1
    <3>1. \A i \in lo..end : f[i] = ReadEmit(dev, i) BY <1>4
    <3>2. \A i \in lo..end : EmitsLast(f[i]) BY <3>1, EmitsThen, OpIs DEF ReadEmit
    <3> HIDE DEF f
    <3> QED BY <1>1, <1>2, <1>5, <1>7, <2>1, <3>2, LoopEmits
  <2>9. EmitCount(a \o b \o z) = EmitCount(b)
    <3>1. Quiet(a) /\ Quiet(z) BY PageQuiet DEF a, z
    <3> QED BY <2>2, <2>3, <3>1, EmitsWithin
  <2>10. dump(dev, start, end) \in Short(dev) BY <2>4, <2>5, <2>7 DEF Short
  <2>11. EmitCount(dump(dev, start, end)) = end - lo + 1 BY <2>4, <2>8, <2>9
  <2> QED BY <1>7, <2>10, <2>11 DEF lo
<1> QED BY <1>6, <1>7

\* The first register a dump reads: a driver with pages has the page in start, too.
First(dev, start) == IF dev.drv \in {"mva", "mscc"} THEN start % 32 ELSE start

LEMMA DumpCode ==
  ASSUME NEW dev, IsDevice(dev), dev.drv # "mvls",
         NEW start \in RegsOf(dev.drv), NEW end \in Int,
         dev.drv \in {"phy", "mva", "mscc"} => end \in FiveBits
  PROVE  /\ dump(dev, start, end) \in Code(dev)
         /\ dev.drv \in {"phy", "mva", "mscc"} => dump(dev, start, end) \in Short(dev)
         /\ EmitCount(dump(dev, start, end)) = IF end < First(dev, start) THEN 0
                                               ELSE end - First(dev, start) + 1
<1>1. CASE dev.drv \in {"mva", "mscc"}
  <2>1. start \in Int BY DriverCode
  <2>2. First(dev, start) = start % 32 BY <1>1 DEF First
  <2> QED BY <1>1, <2>1, <2>2, PphyDumpCode DEF Short
<1>2. CASE dev.drv \notin {"mva", "mscc"}
  <2> DEFINE One(reg) == Append(driver_read(dev, reg), EmitReg0)
             f == [i \in Int |-> One(i)]
             w == ReadLen(dev) + 1
             b == ForEach(start, end, One)
  <2>0. start \in Int BY DriverCode
  <2>1. w \in Nat \ {0}
    <3>1. ReadLen(dev) \in Nat BY LengthIs DEF IsDevice
    <3> QED BY <3>1
  <2>2. \A i \in RegsOf(dev.drv) : One(i) \in Code(dev) /\ Size(One(i)) = w
    BY EmitCode, DriverCode, CodeJoin
  <2>3. \A i \in start..end : i \in Int /\ i \in RegsOf(dev.drv)
    <3>1. CASE dev.drv = "phy"
      <4>1. RegsOf(dev.drv) = FiveBits BY <3>1 DEF RegsOf
      <4>2. 0 <= start /\ end <= 31 BY <3>1, <4>1, FiveIs
      <4> QED BY <2>0, <4>1, <4>2, FiveIs
    <3>2. CASE dev.drv # "phy"
      <4>1. RegsOf(dev.drv) = Int BY <3>2 DEF RegsOf
      <4> QED BY <2>0, <4>1
    <3> QED BY <3>1, <3>2
  <2>4. Rounds(dev, start, end, w, f) BY <2>2, <2>3 DEF Rounds
  <2>5. Len(One(start)) = w BY <2>2 DEF Size
  <2> HIDE DEF w
  <2>6. b = Loop(start, end, w, f)
    <3>2. \A k \in Int : start + (k - 1) \div w \in Int BY <2>0, <2>1
    <3>3. \A k \in Int : f[start + (k - 1) \div w] = One(start + (k - 1) \div w) BY <3>2
    <3> HIDE DEF One, f
    <3> QED BY <2>5, <3>3 DEF ForEach, Loop
  <2>7. b \in Code(dev) /\ Size(b) = IF end < start THEN 0 ELSE w * (end - start + 1)
    <3> HIDE DEF f, b
    <3> QED BY <2>0, <2>1, <2>4, <2>6, LoopIs
  <2>8. dump(dev, start, end) = b BY <1>2 DEF dump
  <2>9. dev.drv = "phy" => Size(b) <= 64
    <3> SUFFICES ASSUME dev.drv = "phy" PROVE Size(b) <= 64 OBVIOUS
    <3>1. w = 2 BY DEF w, ReadLen
    <3>2. start \in FiveBits /\ end \in FiveBits BY DEF RegsOf
    <3>3. 0 <= start /\ end <= 31 BY <2>0, <3>2, FiveIs
    <3> HIDE DEF b
    <3> QED BY <2>0, <2>7, <3>1, <3>3
  <2>10. EmitCount(b) = IF end < start THEN 0 ELSE end - start + 1
    <3>1. \A i \in start..end : f[i] = Append(driver_read(dev, i), EmitReg0) BY <2>3
    <3>2. ASSUME NEW i \in start..end PROVE EmitsLast(f[i])
      <4>1. i \in RegsOf(dev.drv) BY <2>3
      <4>2. driver_read(dev, i) \in Code(dev) BY <4>1, DriverCode
      <4>3. Quiet(driver_read(dev, i)) BY <1>2, <4>1, ReadQuiet
      <4>4. EmitsLast(Append(driver_read(dev, i), EmitReg0)) BY <4>2, <4>3, QuietAppend, EmitCode, OpIs
      <4> QED BY <3>1, <4>4
    <3> HIDE DEF f, b
    <3> QED BY <2>0, <2>1, <2>4, <2>6, <3>2, LoopEmits
  <2> HIDE DEF b
  <2>11. Size(b) \in Nat BY <2>7, CodeJoin
  <2>12. First(dev, start) = start BY <1>2 DEF First
  <2> QED BY <1>2, <2>7, <2>8, <2>9, <2>10, <2>11, <2>12 DEF Short
<1> QED BY <1>1, <1>2

\* GOTO encodes a jump over any distance.
LEMMA GotoIs == \A a, b \in Int : GOTO(a, b) \in Immediates
<1> TAKE a, b \in Int
<1>1. b - a - 1 \in Int OBVIOUS
<1> QED BY <1>1, OperandIs DEF GOTO

LEMMA BenchCode ==
  ASSUME NEW dev, IsDevice(dev), NEW reg \in RegsOf(dev.drv)
  PROVE  /\ bench_read(dev, reg) \in Short(dev)
         /\ \A val \in Int : bench_write(dev, reg, val) \in Short(dev)
<1> DEFINE n == ReadLen(dev)
           r == driver_read(dev, reg)
           d == driver_write(dev, reg, REG(7))
           l == bench_loop(dev, reg)
<1>0. n \in Nat /\ n <= 6 BY LengthIs DEF IsDevice
<1>1. r \in Code(dev) /\ Size(r) = n /\ d \in Code(dev) /\ Size(d) = n
  BY CommonOperands, DriverCode
<1> HIDE DEF n
<1>2. l \in Code(dev) /\ Size(l) = n + 5
  <2> DEFINE cmp == <<INSN(JEQ, REG(0), REG(7), IMM(1)), EmitReg0, INSN(ADD, REG(6), IMM(1), REG(6))>>
             body == r \o cmp
             zero == <<INSN(ADD, IMM(0), IMM(0), REG(6))>>
             loop == <<INSN(JNE, REG(6), IMM(BenchReads), GOTO(Len(body), 0))>>
  <2>1. /\ INSN(JEQ, REG(0), REG(7), IMM(1)) \in Good(dev)
        /\ INSN(ADD, REG(6), IMM(1), REG(6)) \in Good(dev)
        /\ INSN(ADD, IMM(0), IMM(0), REG(6)) \in Good(dev)
    BY CommonOperands, InsnIs
  <2>2. cmp \in Code(dev) /\ Size(cmp) = 3 /\ zero \in Code(dev) /\ Size(zero) = 1
    BY <2>1, EmitCode, CodeParts
  <2>3. l = zero \o body \o loop BY DEF bench_loop
  <2> HIDE DEF cmp, zero, r
  <2>4. body \in Code(dev) /\ Size(body) = n + 3 BY <1>1, <2>2, CodeJoin
  <2> HIDE DEF body
  <2>5. Len(body) \in Int BY <2>4, CodeJoin DEF Size
  <2>6. IMM(BenchReads) \in Operands /\ GOTO(Len(body), 0) \in Immediates
    BY <2>5, BenchAssumption, OperandIs, GotoIs
  <2>7. INSN(JNE, REG(6), IMM(BenchReads), GOTO(Len(body), 0)) \in Good(dev)
    BY <2>6, CommonOperands, InsnIs
  <2>8. loop \in Code(dev) /\ Size(loop) = 1 BY <2>7, CodeParts
  <2> HIDE DEF loop
  <2>9. zero \o body \in Code(dev) /\ Size(zero \o body) = n + 4 BY <1>0, <2>2, <2>4, CodeJoin
  <2>10. zero \o body \o loop \in Code(dev) /\ Size(zero \o body \o loop) = n + 5
    BY <1>0, <2>8, <2>9, CodeJoin
  <2> QED BY <2>3, <2>10
<1>3. bench_read(dev, reg) \in Short(dev)
  <2> DEFINE keep == <<INSN(ADD, REG(0), IMM(0), REG(7))>>
  <2>1. INSN(ADD, REG(0), IMM(0), REG(7)) \in Good(dev) BY CommonOperands, InsnIs
  <2>2. keep \in Code(dev) /\ Size(keep) = 1 BY <2>1, CodeParts
  <2>3. bench_read(dev, reg) = r \o keep \o l BY DEF bench_read
  <2> HIDE DEF keep, r, l
  <2>4. r \o keep \in Code(dev) /\ Size(r \o keep) = n + 1 BY <1>1, <2>2, CodeJoin
  <2>5. r \o keep \o l \in Code(dev) /\ Size(r \o keep \o l) = n + 1 + (n + 5)
    BY <1>2, <2>4, CodeJoin
  <2> QED BY <1>0, <2>3, <2>5 DEF Short
<1>4. ASSUME NEW val \in Int PROVE bench_write(dev, reg, val) \in Short(dev)
  <2> DEFINE keep == <<INSN(ADD, IMM(val), IMM(0), REG(7))>>
  <2>1. IMM(val) \in Operands BY OperandIs
  <2>2. INSN(ADD, IMM(val), IMM(0), REG(7)) \in Good(dev) BY <2>1, CommonOperands, InsnIs
  <2>3. keep \in Code(dev) /\ Size(keep) = 1 BY <2>2, CodeParts
  <2>4. bench_write(dev, reg, val) = keep \o d \o l BY DEF bench_write
  <2> HIDE DEF keep, d, l
  <2>5. keep \o d \in Code(dev) /\ Size(keep \o d) = 1 + n BY <1>1, <2>3, CodeJoin
  <2>6. keep \o d \o l \in Code(dev) /\ Size(keep \o d \o l) = 1 + n + (n + 5)
    BY <1>2, <2>5, CodeJoin
  <2> QED BY <1>0, <2>4, <2>6 DEF Short
<1> QED BY <1>3, <1>4

\* Five registers of a PHY.
LEMMA FiveReads ==
  ASSUME NEW dev, Addressed(dev), NEW r \in FiveBits
  PROVE  ReadEmit(dev, 0) \o ReadEmit(dev, 1) \o ReadEmit(dev, 2) \o ReadEmit(dev, 3) \o ReadEmit(dev, r)
           \in Short(dev)
<1> DEFINE a == ReadEmit(dev, 0)
           b == ReadEmit(dev, 1)
           c == ReadEmit(dev, 2)
           d == ReadEmit(dev, 3)
           e == ReadEmit(dev, r)
<1>1. \A i \in FiveBits : ReadEmit(dev, i) \in Code(dev) /\ Size(ReadEmit(dev, i)) = 2
  BY LowCode, PhyCode
<1>2. 0 \in FiveBits /\ 1 \in FiveBits /\ 2 \in FiveBits /\ 3 \in FiveBits BY FiveIs
<1>3. /\ a \in Code(dev) /\ Size(a) = 2 /\ b \in Code(dev) /\ Size(b) = 2
      /\ c \in Code(dev) /\ Size(c) = 2 /\ d \in Code(dev) /\ Size(d) = 2
      /\ e \in Code(dev) /\ Size(e) = 2
  BY <1>1, <1>2
<1> HIDE DEF a, b, c, d, e
<1>4. a \o b \in Code(dev) /\ Size(a \o b) = 4 BY <1>3, CodeJoin
<1>5. a \o b \o c \in Code(dev) /\ Size(a \o b \o c) = 6 BY <1>3, <1>4, CodeJoin
<1>6. a \o b \o c \o d \in Code(dev) /\ Size(a \o b \o c \o d) = 8 BY <1>3, <1>5, CodeJoin
<1>7. a \o b \o c \o d \o e \in Code(dev) /\ Size(a \o b \o c \o d \o e) = 10
  BY <1>3, <1>6, CodeJoin
<1>8. a \o b \o c \o d \o e \in Short(dev) BY <1>7 DEF Short
<1> QED BY <1>8 DEF a, b, c, d, e

LEMMA StatusCode ==
  ASSUME NEW dev, IsDevice(dev)
  PROVE  /\ dev.drv = "phy" => phy_status(dev) \in Short(dev)
         /\ dev.drv = "mva" => mva_status(dev) \in Short(dev)
         /\ dev.drv \in {"mmd", "mmd-c22"} => mmd_status(dev) \in Short(dev)
<1>1. ASSUME dev.drv = "phy" PROVE phy_status(dev) \in Short(dev)
  <2>1. Addressed(dev) /\ 15 \in FiveBits BY <1>1, FiveIs DEF IsDevice
  <2> QED BY <2>1, FiveReads DEF phy_status
<1>2. ASSUME dev.drv = "mva" PROVE mva_status(dev) \in Short(dev)
  <2>1. Addressed(dev) /\ dev.page_reg \in FiveBits BY <1>2 DEF IsDevice
  <2> QED BY <2>1, FiveReads DEF mva_status
<1>3. ASSUME dev.drv \in {"mmd", "mmd-c22"} PROVE mmd_status(dev) \in Short(dev)
  <2>0. dev.id \in Int /\ dev.id \in Clause45 BY <1>3 DEF IsDevice
  <2>1. IMM(16) \in Operands /\ IMM(-4) \in Immediates BY OperandIs
  <2>2. Reached(dev, dev.id, REG(1)) BY <2>0 DEF Reached
  <2>3. INSN(READ, IMM(dev.id), REG(1), REG(0)) \in Good(dev)
    BY <2>0, <2>2, CommonOperands, AccessIs
  <2>4. /\ INSN(ADD, IMM(0), IMM(0), REG(1)) \in Good(dev)
        /\ INSN(ADD, REG(1), IMM(1), REG(1)) \in Good(dev)
        /\ INSN(JNE, REG(1), IMM(16), IMM(-4)) \in Good(dev)
    BY <2>1, CommonOperands, InsnIs
  <2> QED BY <2>3, <2>4, EmitCode DEF mmd_status, Code, Short, Size
<1> QED BY <1>1, <1>2, <1>3

LEMMA BusStatusCode == \A dev : bus_status \in Short(dev)
<1> TAKE dev
<1>1. /\ IMM(2) \in Operands /\ IMM(3) \in Operands /\ IMM(MDIO_DEV_MAX) \in Operands
      /\ IMM(-8) \in Immediates
  BY OperandIs DEF MDIO_DEV_MAX
<1>2. /\ INSN(ADD, IMM(0), IMM(0), REG(1)) \in Good(dev)
      /\ INSN(READ, REG(1), IMM(1), REG(0)) \in Good(dev)
      /\ INSN(READ, REG(1), IMM(2), REG(0)) \in Good(dev)
      /\ INSN(READ, REG(1), IMM(3), REG(0)) \in Good(dev)
      /\ INSN(ADD, REG(1), IMM(1), REG(1)) \in Good(dev)
      /\ INSN(JNE, REG(1), IMM(MDIO_DEV_MAX), IMM(-8)) \in Good(dev)
  BY <1>1, CommonOperands, InsnIs
<1> QED BY <1>2, EmitCode DEF bus_status, Code, Short, Size

\* The registers of a switch the commands use.
LEMMA MvlsRegIs == \A port, reg \in FiveBits : MVLS_REG(port, reg) \in SwitchRegs
<1> TAKE port, reg \in FiveBits
<1> DEFINE n == port * 65536 + reg
<1>1. port \in Int /\ 0 <= reg /\ reg <= 31 /\ reg \in Int BY FiveIs
<1>2. n \in Int /\ n \div 65536 = port /\ n % 65536 = reg BY <1>1, SMTT(30)
<1>3. MVLS_REG(port, reg) = n /\ MvlsPort(n) = n \div 65536 BY DEF MVLS_REG, MvlsPort
<1> HIDE DEF n
<1>4. n \in SwitchRegs BY <1>2, <1>3, SMTT(10) DEF SwitchRegs
<1> QED BY <1>3, <1>4

LEMMA MvlsRegsIs ==
  /\ MVLS_REG(16, 3) \in SwitchRegs /\ STATS \in SwitchRegs
  /\ MVLS_REG(MVLS_G1, 11) \in SwitchRegs /\ MVLS_REG(MVLS_G1, 1) \in SwitchRegs
  /\ MVLS_REG(MVLS_G1, 30) \in SwitchRegs /\ MVLS_REG(MVLS_G1, 31) \in SwitchRegs
  /\ MVLS_REG(MVLS_G2, 8) \in SwitchRegs /\ MVLS_REG(MVLS_G2, 7) \in SwitchRegs
<1>1. MVLS_G1 \in FiveBits /\ MVLS_G2 \in FiveBits BY FiveIs DEF MVLS_G1, MVLS_G2
<1>2. 16 \in FiveBits /\ 3 \in FiveBits /\ 29 \in FiveBits /\ 11 \in FiveBits /\ 1 \in FiveBits
      /\ 30 \in FiveBits /\ 31 \in FiveBits /\ 8 \in FiveBits /\ 7 \in FiveBits
  BY FiveIs
<1> QED BY <1>1, <1>2, MvlsRegIs DEF STATS

\* Accesses to one register of a switch, of the same length each.
LEMMA MvlsCode ==
  ASSUME NEW dev, Addressed(dev), NEW reg \in SwitchRegs
  PROVE  /\ mvls_read(dev, reg) \in Code(dev) /\ Size(mvls_read(dev, reg)) = MvlsLen(dev)
         /\ mvls_read_to(dev, reg, 0) \in Code(dev) /\ Size(mvls_read_to(dev, reg, 0)) = MvlsLen(dev)
         /\ mvls_wait(dev, reg) \in Code(dev) /\ Size(mvls_wait(dev, reg)) = MvlsLen(dev) + 2
         /\ \A val \in Operands : /\ mvls_write(dev, reg, val) \in Code(dev)
                                  /\ Size(mvls_write(dev, reg, val)) = MvlsLen(dev)
  BY MvlsReadCode, MvlsWriteCode, MvlsWaitCode DEF mvls_read

LEMMA MvlsLenIs == \A dev : MvlsLen(dev) \in {1, 5}
  BY DEF MvlsLen

LEMMA IdCode == ASSUME NEW dev, Addressed(dev) PROVE mvls_id(dev) \in Short(dev)
<1> DEFINE p == mvls_read(dev, MVLS_REG(16, 3))
<1>1. p \in Code(dev) /\ Size(p) = MvlsLen(dev) BY MvlsRegsIs, MvlsCode
<1>2. mvls_id(dev) = Append(p, EmitReg0) BY DEF mvls_id
<1> HIDE DEF p
<1>3. Append(p, EmitReg0) \in Code(dev) /\ Size(Append(p, EmitReg0)) = MvlsLen(dev) + 1
  BY <1>1, EmitCode, CodeJoin
<1> QED BY <1>2, <1>3, MvlsLenIs DEF Short

\* An instruction that masks R0 and one that sets bits of it.
LEMMA SetCode ==
  ASSUME NEW dev, NEW m \in Int, NEW k \in Int
  PROVE  LET p == <<INSN(AND, REG(0), IMM(m), REG(0)), INSN(OR, REG(0), IMM(k), REG(0))>>
         IN  p \in Code(dev) /\ Size(p) = 2
<1>1. IMM(m) \in Operands /\ IMM(k) \in Operands BY OperandIs
<1>2. INSN(AND, REG(0), IMM(m), REG(0)) \in Good(dev) /\ INSN(OR, REG(0), IMM(k), REG(0)) \in Good(dev)
  BY <1>1, CommonOperands, InsnIs
<1> QED BY <1>2, CodeParts

LEMMA AtuCode ==
  ASSUME NEW dev, Addressed(dev)
  PROVE  /\ \A opt \in {"none", "static", "other"} : mvls_atu_flush_all(dev, opt) \in Short(dev)
         /\ \A opt \in {"none", "static", "other"}, fid \in Int :
              mvls_atu_flush_fid(dev, fid, opt) \in Short(dev)
<1> DEFINE l == MvlsLen(dev)
<1>0. l \in {1, 5} BY MvlsLenIs
<1> HIDE DEF l
<1>1. ASSUME NEW op \in Int
      PROVE  mvls_atu(dev, op) \in Code(dev) /\ Size(mvls_atu(dev, op)) <= 26
  <2> DEFINE atu == MVLS_REG(MVLS_G1, 11)
             k == 32768 + op * 4096
             m == 4095
             a == mvls_wait(dev, atu)
             b == mvls_read_to(dev, atu, 0)
             c == <<INSN(AND, REG(0), IMM(m), REG(0)), INSN(OR, REG(0), IMM(k), REG(0))>>
             d == mvls_write(dev, atu, REG(0))
  <2>1. atu \in SwitchRegs BY MvlsRegsIs
  <2>2. k \in Int /\ m \in Int BY SMTT(10)
  <2>3. mvls_atu(dev, op) = a \o b \o c \o d \o a BY SMTT(10) DEF mvls_atu
  <2> HIDE DEF k, m
  <2>4. c \in Code(dev) /\ Size(c) = 2 BY <2>2, SetCode
  <2> HIDE DEF atu, c
  <2>5. /\ a \in Code(dev) /\ Size(a) = l + 2 /\ b \in Code(dev) /\ Size(b) = l
        /\ d \in Code(dev) /\ Size(d) = l
    BY <2>1, CommonOperands, MvlsCode DEF l
  <2> HIDE DEF a, b, d
  <2>6. a \o b \in Code(dev) /\ Size(a \o b) = l + 2 + l BY <2>5, CodeJoin
  <2>7. a \o b \o c \in Code(dev) /\ Size(a \o b \o c) = l + 2 + l + 2 BY <2>4, <2>6, CodeJoin
  <2>8. a \o b \o c \o d \in Code(dev) /\ Size(a \o b \o c \o d) = l + 2 + l + 2 + l
    BY <2>5, <2>7, CodeJoin
  <2>9. a \o b \o c \o d \o a \in Code(dev)
        /\ Size(a \o b \o c \o d \o a) = l + 2 + l + 2 + l + (l + 2)
    BY <2>5, <2>8, CodeJoin
  <2> QED BY <1>0, <2>3, <2>9
<1>2. ASSUME NEW fid \in Int
      PROVE  mvls_atu_fid(dev, fid) \in Code(dev) /\ Size(mvls_atu_fid(dev, fid)) <= 12
  <2> DEFINE reg == MVLS_REG(MVLS_G1, 1)
             k == fid % 4096
             m == 983040
             a == mvls_read_to(dev, reg, 0)
             b == <<INSN(AND, REG(0), IMM(m), REG(0)), INSN(OR, REG(0), IMM(k), REG(0))>>
             c == mvls_write(dev, reg, REG(0))
  <2>1. reg \in SwitchRegs BY MvlsRegsIs
  <2>2. k \in Int /\ m \in Int BY SMTT(10)
  <2>3. mvls_atu_fid(dev, fid) = a \o b \o c BY SMTT(10) DEF mvls_atu_fid
  <2> HIDE DEF k, m
  <2>4. b \in Code(dev) /\ Size(b) = 2 BY <2>2, SetCode
  <2> HIDE DEF reg, b
  <2>5. a \in Code(dev) /\ Size(a) = l /\ c \in Code(dev) /\ Size(c) = l
    BY <2>1, CommonOperands, MvlsCode DEF l
  <2> HIDE DEF a, c
  <2>6. a \o b \in Code(dev) /\ Size(a \o b) = l + 2 BY <2>4, <2>5, CodeJoin
  <2>7. a \o b \o c \in Code(dev) /\ Size(a \o b \o c) = l + 2 + l BY <2>5, <2>6, CodeJoin
  <2> QED BY <1>0, <2>3, <2>7
<1>3. ASSUME NEW opt \in {"none", "static", "other"}
      PROVE  AtuOp(opt) \in Int /\ 4 + AtuOp(opt) \in Int
  BY DEF AtuOp
<1>4. ASSUME NEW opt \in {"none", "static", "other"} PROVE mvls_atu_flush_all(dev, opt) \in Short(dev)
  <2> DEFINE p == mvls_atu(dev, AtuOp(opt))
  <2>1. p \in Code(dev) /\ Size(p) <= 26 BY <1>1, <1>3
  <2> HIDE DEF p
  <2>2. p \in Short(dev) BY <2>1, CodeJoin DEF Short
  <2> QED BY <2>2 DEF mvls_atu_flush_all, p
<1>5. ASSUME NEW opt \in {"none", "static", "other"}, NEW fid \in Int
      PROVE  mvls_atu_flush_fid(dev, fid, opt) \in Short(dev)
  <2> DEFINE p == mvls_atu(dev, 4 + AtuOp(opt))
             q == mvls_atu_fid(dev, fid)
  <2>1. p \in Code(dev) /\ Size(p) <= 26 BY <1>1, <1>3
  <2>2. q \in Code(dev) /\ Size(q) <= 12 BY <1>2
  <2>3. mvls_atu_flush_fid(dev, fid, opt) = q \o p BY DEF mvls_atu_flush_fid
  <2> HIDE DEF p, q
  <2>4. q \o p \in Code(dev) /\ Size(q \o p) = Size(q) + Size(p) BY <2>1, <2>2, CodeJoin
  <2>5. Size(q) \in Nat /\ Size(p) \in Nat BY <2>1, <2>2, CodeJoin
  <2> QED BY <2>1, <2>2, <2>3, <2>4, <2>5 DEF Short
<1> QED BY <1>4, <1>5

LEMMA ReadOneCode ==
  ASSUME NEW dev, Addressed(dev), NEW counter \in Int
  PROVE  /\ mvls_counter_read_one(dev, counter) \in Code(dev)
         /\ Size(mvls_counter_read_one(dev, counter)) = 4 * MvlsLen(dev) + 4
<1> DEFINE l == MvlsLen(dev)
           n == 32768 + 4 * 4096 + counter
           a == mvls_write(dev, STATS, IMM(n))
           b == mvls_wait(dev, STATS)
           c == mvls_read(dev, MVLS_REG(MVLS_G1, 30))
           d == mvls_read(dev, MVLS_REG(MVLS_G1, 31))
           e == <<EmitReg0>>
<1>0. l \in Int BY MvlsLenIs
<1>1. n \in Int BY SMTT(10)
<1>2. e \in Code(dev) /\ Size(e) = 1 BY EmitCode, CodeParts
<1>3. mvls_counter_read_one(dev, counter) = a \o b \o c \o e \o d \o e
  BY SMTT(10) DEF mvls_counter_read_one
<1> HIDE DEF n, e, l
<1>4. IMM(n) \in Operands BY <1>1, OperandIs
<1>5. /\ a \in Code(dev) /\ Size(a) = l /\ b \in Code(dev) /\ Size(b) = l + 2
      /\ c \in Code(dev) /\ Size(c) = l /\ d \in Code(dev) /\ Size(d) = l
  BY <1>4, MvlsRegsIs, MvlsCode DEF l
<1> HIDE DEF a, b, c, d
<1>6. a \o b \in Code(dev) /\ Size(a \o b) = l + (l + 2) BY <1>5, CodeJoin
<1>7. a \o b \o c \in Code(dev) /\ Size(a \o b \o c) = l + (l + 2) + l BY <1>5, <1>6, CodeJoin
<1>8. a \o b \o c \o e \in Code(dev) /\ Size(a \o b \o c \o e) = l + (l + 2) + l + 1
  BY <1>2, <1>7, CodeJoin
<1>9. a \o b \o c \o e \o d \in Code(dev) /\ Size(a \o b \o c \o e \o d) = l + (l + 2) + l + 1 + l
  BY <1>5, <1>8, CodeJoin
<1>10. a \o b \o c \o e \o d \o e \in Code(dev)
       /\ Size(a \o b \o c \o e \o d \o e) = l + (l + 2) + l + 1 + l + 1
  BY <1>2, <1>9, CodeJoin
<1> QED BY <1>0, <1>3, <1>10 DEF l

LEMMA CounterCode ==
  ASSUME NEW dev, Addressed(dev), NEW fam
  PROVE  mvls_counter(dev, fam) \in Short(dev)
<1> DEFINE l == MvlsLen(dev)
           capture == 32768 + 5 * 4096 + base(fam)
           One(n) == mvls_counter_read_one(dev, n)
           w == mvls_write(dev, STATS, REG(1))
           wait == mvls_wait(dev, STATS)
           step == <<INSN(ADD, REG(1), IMM(shift(fam)), REG(1))>>
           body == w \o wait \o One(4) \o One(6) \o One(7) \o One(16) \o One(19) \o One(18) \o step
           first == <<INSN(ADD, IMM(capture), IMM(0), REG(1))>>
           last == <<INSN(JNE, REG(1), IMM(capture + shift(fam) * 11), GOTO(Len(body), 0))>>
<1>1. l \in {1, 5} BY MvlsLenIs
<1> DEFINE r == 4 * l + 4
<1>2. r \in Int /\ r <= 24 BY <1>1
<1>3. capture \in Int /\ shift(fam) \in Int /\ capture + shift(fam) * 11 \in Int
  BY SMTT(10) DEF base, shift
<1>4. mvls_counter(dev, fam) = wait \o first \o body \o last
  BY SMTT(10) DEF mvls_counter
<1> HIDE DEF capture
<1>5. /\ IMM(capture) \in Operands /\ IMM(shift(fam)) \in Operands
      /\ IMM(capture + shift(fam) * 11) \in Operands
  BY <1>3, OperandIs
<1>6. /\ INSN(ADD, REG(1), IMM(shift(fam)), REG(1)) \in Good(dev)
      /\ INSN(ADD, IMM(capture), IMM(0), REG(1)) \in Good(dev)
  BY <1>5, CommonOperands, InsnIs
<1>7. step \in Code(dev) /\ Size(step) = 1 /\ first \in Code(dev) /\ Size(first) = 1
  BY <1>6, CodeParts
<1>8. w \in Code(dev) /\ Size(w) = l /\ wait \in Code(dev) /\ Size(wait) = l + 2
  BY MvlsRegsIs, CommonOperands, MvlsCode
<1>9. \A n \in Int : One(n) \in Code(dev) /\ Size(One(n)) = r BY ReadOneCode
<1> HIDE DEF step, first, w, wait, One, l, r
<1>10. body \in Code(dev) /\ Size(body) = l + (l + 2) + r + r + r + r + r + r + 1
  <2> DEFINE p1 == w \o wait
             p2 == p1 \o One(4)
             p3 == p2 \o One(6)
             p4 == p3 \o One(7)
             p5 == p4 \o One(16)
             p6 == p5 \o One(19)
             p7 == p6 \o One(18)
  <2>1. p1 \in Code(dev) /\ Size(p1) = l + (l + 2) BY <1>8, CodeJoin
  <2> HIDE DEF p1
  <2>2. p2 \in Code(dev) /\ Size(p2) = l + (l + 2) + r BY <1>9, <2>1, CodeJoin
  <2> HIDE DEF p2
  <2>3. p3 \in Code(dev) /\ Size(p3) = l + (l + 2) + r + r BY <1>9, <2>2, CodeJoin
  <2> HIDE DEF p3
  <2>4. p4 \in Code(dev) /\ Size(p4) = l + (l + 2) + r + r + r BY <1>9, <2>3, CodeJoin
  <2> HIDE DEF p4
  <2>5. p5 \in Code(dev) /\ Size(p5) = l + (l + 2) + r + r + r + r BY <1>9, <2>4, CodeJoin
  <2> HIDE DEF p5
  <2>6. p6 \in Code(dev) /\ Size(p6) = l + (l + 2) + r + r + r + r + r BY <1>9, <2>5, CodeJoin
  <2> HIDE DEF p6
  <2>7. p7 \in Code(dev) /\ Size(p7) = l + (l + 2) + r + r + r + r + r + r BY <1>9, <2>6, CodeJoin
  <2> HIDE DEF p7
  <2>8. p7 \o step \in Code(dev) /\ Size(p7 \o step) = l + (l + 2) + r + r + r + r + r + r + 1
    BY <1>7, <2>7, CodeJoin
  <2> QED BY <2>8 DEF p1, p2, p3, p4, p5, p6, p7
<1> HIDE DEF body
<1>11. Len(body) \in Int BY <1>10, CodeJoin DEF Size
<1>12. GOTO(Len(body), 0) \in Immediates BY <1>11, GotoIs
<1>13. INSN(JNE, REG(1), IMM(capture + shift(fam) * 11), GOTO(Len(body), 0)) \in Good(dev)
  BY <1>5, <1>12, CommonOperands, InsnIs
<1>14. last \in Code(dev) /\ Size(last) = 1 BY <1>13, CodeParts
<1> HIDE DEF last
<1>15. wait \o first \in Code(dev) /\ Size(wait \o first) = l + 2 + 1 BY <1>7, <1>8, CodeJoin
<1>16. wait \o first \o body \in Code(dev) /\ Size(wait \o first \o body) = l + 2 + 1 + Size(body)
  BY <1>10, <1>15, CodeJoin
<1>17. wait \o first \o body \o last \in Code(dev)
       /\ Size(wait \o first \o body \o last) = l + 2 + 1 + Size(body) + 1
  BY <1>14, <1>16, CodeJoin
<1>18. Size(body) \in Int /\ Size(body) <= 157 BY <1>1, <1>2, <1>10
<1> QED BY <1>1, <1>4, <1>17, <1>18 DEF Short

LEMMA LagCode == ASSUME NEW dev, Addressed(dev) PROVE mvls_lag(dev) \in Short(dev)
<1> DEFINE size == MvlsLen(dev)
           g8 == MVLS_REG(MVLS_G2, 8)
           g7 == MVLS_REG(MVLS_G2, 7)
           e == <<EmitReg0>>
<1>2. g8 \in SwitchRegs /\ g7 \in SwitchRegs BY MvlsRegsIs
<1>3. size \in Nat \ {0} /\ size <= 5 BY MvlsLenIs
<1>4. e \in Code(dev) /\ Size(e) = 1 BY EmitCode, CodeParts
<1> DEFINE x == mvls_read(dev, g8)
           y == mvls_read(dev, g7)
<1>5. x \in Code(dev) /\ Size(x) = size /\ y \in Code(dev) /\ Size(y) = size BY <1>2, MvlsCode
<1>6. \A reg \in SwitchRegs, val \in Operands :
        mvls_write(dev, reg, val) \in Code(dev) /\ Size(mvls_write(dev, reg, val)) = size
  BY MvlsCode
<1> DEFINE Shift(i) == IMM(i * 2048)
           k == 2048
           set(i) == <<INSN(AND, REG(0), IMM(k), REG(0)), INSN(OR, REG(0), IMM(i * 4096), REG(0))>>
           Lag(i) == mvls_write(dev, g8, Shift(i)) \o x \o e
           Mask(i) == y \o set(i) \o mvls_write(dev, g7, REG(0)) \o y \o e
           a == ForEach(0, 15, Lag)
           b == ForEach(0, 7, Mask)
<1>7. mvls_lag(dev) = a \o b BY SMTT(10) DEF mvls_lag, ForEach
<1>8. \A i \in Int : Shift(i) \in Operands
  <2> TAKE i \in Int
  <2> DEFINE n == i * 2048
  <2>1. n \in Int BY SMTT(10)
  <2> HIDE DEF n
  <2> QED BY <2>1, OperandIs DEF n
<1>9. \A i \in Int : set(i) \in Code(dev) /\ Size(set(i)) = 2
  <2> TAKE i \in Int
  <2> DEFINE n == i * 4096
  <2>1. n \in Int /\ k \in Int BY SMTT(10)
  <2> SUFFICES LET t == <<INSN(AND, REG(0), IMM(k), REG(0)), INSN(OR, REG(0), IMM(n), REG(0))>>
               IN  t \in Code(dev) /\ Size(t) = 2
    OBVIOUS
  <2> HIDE DEF n, k
  <2> QED BY <2>1, SetCode
<1> HIDE DEF size, g7, g8, e, x, y, Shift, set
<1>10. \A i \in Int : Lag(i) \in Code(dev) /\ Size(Lag(i)) = 2 * size + 1
  <2> TAKE i \in Int
  <2> DEFINE w == mvls_write(dev, g8, Shift(i))
  <2>1. w \in Code(dev) /\ Size(w) = size BY <1>2, <1>6, <1>8
  <2> HIDE DEF w
  <2> SUFFICES w \o x \o e \in Code(dev) /\ Size(w \o x \o e) = 2 * size + 1 BY DEF w
  <2>2. w \o x \in Code(dev) /\ Size(w \o x) = size + size BY <1>5, <2>1, CodeJoin
  <2>3. w \o x \o e \in Code(dev) /\ Size(w \o x \o e) = size + size + 1 BY <1>4, <2>2, CodeJoin
  <2> QED BY <1>3, <2>3
<1>11. \A i \in Int : Mask(i) \in Code(dev) /\ Size(Mask(i)) = 3 * size + 3
  <2> TAKE i \in Int
  <2> DEFINE w == mvls_write(dev, g7, REG(0))
             s == set(i)
  <2>1. w \in Code(dev) /\ Size(w) = size BY <1>2, <1>6, CommonOperands
  <2>2. s \in Code(dev) /\ Size(s) = 2 BY <1>9
  <2> HIDE DEF w, s
  <2> SUFFICES y \o s \o w \o y \o e \in Code(dev) /\ Size(y \o s \o w \o y \o e) = 3 * size + 3
    BY DEF w, s
  <2>3. y \o s \in Code(dev) /\ Size(y \o s) = size + 2 BY <1>5, <2>2, CodeJoin
  <2>4. y \o s \o w \in Code(dev) /\ Size(y \o s \o w) = size + 2 + size BY <2>1, <2>3, CodeJoin
  <2>5. y \o s \o w \o y \in Code(dev) /\ Size(y \o s \o w \o y) = size + 2 + size + size
    BY <1>5, <2>4, CodeJoin
  <2>6. y \o s \o w \o y \o e \in Code(dev) /\ Size(y \o s \o w \o y \o e) = size + 2 + size + size + 1
    BY <1>4, <2>5, CodeJoin
  <2> QED BY <1>3, <2>6
<1>12. a \in Code(dev) /\ Size(a) = (2 * size + 1) * 16
  <2> DEFINE f == [i \in Int |-> Lag(i)]
             w == 2 * size + 1
  <2>1. w \in Nat \ {0} BY <1>3
  <2>2. \A i \in Int : f[i] = Lag(i) /\ f[i] \in Code(dev) /\ Size(f[i]) = w BY <1>10
  <2> HIDE DEF w
  <2>3. a = Loop(0, 15, w, f)
    <3>1. Len(Lag(0)) = w BY <1>10 DEF Size, w
    <3>2. \A j \in Int : 0 + (j - 1) \div w \in Int BY <2>1
    <3>3. \A j \in Int : f[0 + (j - 1) \div w] = Lag(0 + (j - 1) \div w) BY <2>2, <3>2
    <3> HIDE DEF Lag, f
    <3> QED BY <3>1, <3>3 DEF ForEach, Loop
  <2> HIDE DEF f, a
  <2> DEFINE lo == 0
             hi == 15
  <2>4. Rounds(dev, lo, hi, w, f) BY <2>2 DEF Rounds
  <2>5. lo \in Int /\ hi \in Int /\ a = Loop(lo, hi, w, f) /\ ~(hi < lo) /\ hi - lo + 1 = 16
    BY <2>3
  <2> HIDE DEF lo, hi
  <2>6. a \in Code(dev) /\ Size(a) = w * (hi - lo + 1) BY <2>1, <2>4, <2>5, LoopIs
  <2> QED BY <2>5, <2>6 DEF w
<1>13. b \in Code(dev) /\ Size(b) = (3 * size + 3) * 8
  <2> DEFINE f == [i \in Int |-> Mask(i)]
             w == 3 * size + 3
  <2>1. w \in Nat \ {0} BY <1>3
  <2>2. \A i \in Int : f[i] = Mask(i) /\ f[i] \in Code(dev) /\ Size(f[i]) = w BY <1>11
  <2> HIDE DEF w
  <2>3. b = Loop(0, 7, w, f)
    <3>1. Len(Mask(0)) = w BY <1>11 DEF Size, w
    <3>2. \A j \in Int : 0 + (j - 1) \div w \in Int BY <2>1
    <3>3. \A j \in Int : f[0 + (j - 1) \div w] = Mask(0 + (j - 1) \div w) BY <2>2, <3>2
    <3> HIDE DEF Mask, f
    <3> QED BY <3>1, <3>3 DEF ForEach, Loop
  <2> HIDE DEF f, b
  <2> DEFINE lo == 0
             hi == 7
  <2>4. Rounds(dev, lo, hi, w, f) BY <2>2 DEF Rounds
  <2>5. lo \in Int /\ hi \in Int /\ b = Loop(lo, hi, w, f) /\ ~(hi < lo) /\ hi - lo + 1 = 8
    BY <2>3
  <2> HIDE DEF lo, hi
  <2>6. b \in Code(dev) /\ Size(b) = w * (hi - lo + 1) BY <2>1, <2>4, <2>5, LoopIs
  <2> QED BY <2>5, <2>6 DEF w
<1> HIDE DEF a, b
<1>14. a \o b \in Code(dev) /\ Size(a \o b) = (2 * size + 1) * 16 + (3 * size + 3) * 8
  BY <1>12, <1>13, CodeJoin
<1> QED BY <1>3, <1>7, <1>14 DEF Short

-------------------------------------------------------------------------------
(***************************************************************************)
(* Arguments.  Numbers are natural, and what is left of a string is a      *)
(* string, whatever the user typed; what a parser lets pass is within the  *)
(* limits of what it is for.                                               *)
(***************************************************************************)
Strings == Seq(Lexeme)

\* strtoull gives a number, and what is behind it.
LEMMA NumberType ==
  ASSUME NEW s \in Strings
  PROVE  /\ strtoull(s).val \in Nat /\ strtoull(s).end \in Strings
         /\ strtoull(s).end # <<>> => Tail(strtoull(s).end) \in Strings
<1>1. CASE s = <<>> \/ s[1].t # "number"
  <2>1. strtoull(s) = [val |-> 0, end |-> s, errno |-> FALSE] BY <1>1 DEF strtoull
  <2> QED BY <2>1 DEF Strings
<1>2. CASE s # <<>> /\ s[1].t = "number"
  <2> DEFINE v == s[1].v
             m == ULLONG_MAX + 1
             n == IF v > ULLONG_MAX THEN ULLONG_MAX ELSE v % m
  <2>1. s[1] \in Lexeme BY <1>2 DEF Strings
  <2>2. v \in Int BY <2>1 DEF Lexeme
  <2>3. strtoull(s) = [val |-> n, end |-> Tail(s), errno |-> v > ULLONG_MAX] BY <1>2 DEF strtoull
  <2>4. ULLONG_MAX \in Nat BY WidthAssumption
  <2>5. m \in Nat \ {0} BY <2>4
  <2>6. n \in Nat
    <3> HIDE DEF v, m
    <3> QED BY <2>2, <2>4, <2>5
  <2>7. Tail(s) \in Strings BY <1>2 DEF Strings
  <2> HIDE DEF n
  <2> QED BY <2>3, <2>6, <2>7 DEF Strings
<1> QED BY <1>1, <1>2

\* The first of some positions in a sequence, as SelectInSeq looks for it.
LEMMA FirstIs ==
  ASSUME NEW n \in Nat, NEW S \in SUBSET (1..n), S # {}
  PROVE  Min(S) \in S /\ \A k \in S : Min(S) <= k
<1>1. PICK m \in S : \A k \in S : m <= k BY LeastNat
<1> QED BY <1>1 DEF Min

\* Its tokens are strings.
LEMMA TokenType == ASSUME NEW s \in Strings PROVE strtok(s).tok \in Strings /\ strtok(s).rest \in Strings
<1> DEFINE I == {i \in 1..Len(s) : s[i].t # ":"}
           from == IF I # {} THEN Min(I) ELSE 0
           str == IF from = 0 THEN <<>> ELSE SubSeq(s, from, Len(s))
           J == {i \in 1..Len(str) : str[i].t = ":"}
           to == IF J # {} THEN Min(J) ELSE 0
<1>1. strtok(s) = IF to = 0 THEN [tok |-> str, rest |-> <<>>]
                  ELSE [tok |-> SubSeq(str, 1, to - 1), rest |-> SubSeq(str, to + 1, Len(str))]
  BY DEF strtok, SelectInSeq
<1>2. Len(s) \in Nat /\ <<>> \in Strings BY DEF Strings
<1>3. from \in 0..Len(s)
  <2>1. CASE I # {}
    <3>1. Min(I) \in I BY <1>2, <2>1, FirstIs
    <3> QED BY <1>2, <3>1
  <2> QED BY <1>2, <2>1
<1> HIDE DEF from
<1>4. \A a, b \in Int : \A t \in Strings : 1 <= a /\ b <= Len(t) => SubSeq(t, a, b) \in Strings
  BY DEF Strings
<1>5. str \in Strings BY <1>2, <1>3, <1>4
<1> HIDE DEF str
<1>6. Len(str) \in Nat BY <1>5 DEF Strings
<1>7. to \in 0..Len(str)
  <2>1. CASE J # {}
    <3>1. Min(J) \in J BY <1>6, <2>1, FirstIs
    <3> QED BY <1>6, <3>1
  <2> QED BY <1>6, <2>1
<1> HIDE DEF to
<1>8. to # 0 => SubSeq(str, 1, to - 1) \in Strings /\ SubSeq(str, to + 1, Len(str)) \in Strings
  BY <1>4, <1>5, <1>6, <1>7
<1> QED BY <1>1, <1>2, <1>5, <1>8

\* The device of an argument has an address of five bits, or a Clause 45 address where
\* that is allowed.
LEMMA ParseDev ==
  ASSUME NEW s \in Strings, NEW c45 \in BOOLEAN, mdio_parse_dev(s, c45).ok
  PROVE  mdio_parse_dev(s, c45).id \in FiveBits \/ (c45 /\ mdio_parse_dev(s, c45).id \in Clause45)
<1> DEFINE p == strtoull(s)
           d == strtoull(Tail(p.end))
           r == mdio_parse_dev(s, c45)
<1>1. p.val \in Nat /\ p.end \in Strings BY NumberType
<1>2. p.end # <<>> => d.val \in Nat BY NumberType
<1>0. r.ok OBVIOUS
<1>3. /\ p.end = <<>> => p.val <= 31 /\ r.id = p.val
      /\ p.end # <<>> => /\ c45 /\ d.val <= 31 /\ p.val <= 31
                         /\ r.id = (MDIO_PHY_ID_C45 + p.val * 32 + d.val) % U16
  <2> DEFINE x == (MDIO_PHY_ID_C45 + p.val * 32 + d.val) % U16
  <2>1. r = IF p.end = <<>> THEN [ok |-> p.val <= 31, id |-> p.val]
            ELSE [ok |-> p.end[1].t = ":" /\ c45 /\ d.end = <<>> /\ d.val <= 31 /\ p.val <= 31,
                  id |-> x]
    BY Zenon DEF mdio_parse_dev
  <2> HIDE DEF p, d, r, x
  <2>2. CASE p.end = <<>> BY <1>0, <2>1, <2>2
  <2>3. CASE p.end # <<>>
    <3>1. r = [ok |-> p.end[1].t = ":" /\ c45 /\ d.end = <<>> /\ d.val <= 31 /\ p.val <= 31, id |-> x]
      BY <2>1, <2>3
    <3>2. r.id = x BY <3>1
    <3>3. r.ok = (p.end[1].t = ":" /\ c45 /\ d.end = <<>> /\ d.val <= 31 /\ p.val <= 31)
      BY <3>1
    <3>4. c45 /\ d.val <= 31 /\ p.val <= 31 BY <1>0, <3>3
    <3> QED BY <2>3, <3>2, <3>4 DEF x
  <2> QED BY <2>2, <2>3
<1> HIDE DEF p, d, r
<1>4. CASE p.end = <<>>
  <2>1. p.val \in FiveBits BY <1>1, <1>3, <1>4, FiveIs
  <2> QED BY <1>3, <1>4, <2>1 DEF r
<1>5. CASE p.end # <<>>
  <2> DEFINE a == p.val
             b == d.val
             n == 32768 + a * 32 + b
  <2>1. a \in Int /\ 0 <= a /\ a <= 31 /\ b \in Int /\ 0 <= b /\ b <= 31 BY <1>1, <1>2, <1>3, <1>5
  <2>2. r.id = n % 65536 BY <1>3, <1>5, SMTT(10) DEF MDIO_PHY_ID_C45, U16
  <2> HIDE DEF a, b
  <2>3. n \in Int /\ 32768 <= n /\ n <= 33791 BY <2>1, SMTT(10)
  <2> HIDE DEF n
  <2>4. n % 65536 = n BY <2>3, SMTT(10)
  <2>5. n \in Clause45 BY <2>3, SMTT(10) DEF Clause45
  <2>6. r.id \in Clause45 BY <2>2, <2>4, <2>5
  <2> QED BY <1>3, <1>5, <2>6 DEF r
<1> QED BY <1>4, <1>5

\* What a driver lets pass of a register, or of a range of them.
IsReg(drv, r) ==
  /\ r.start \in RegsOf(drv) /\ r.end \in Int
  /\ drv \in {"phy", "mva", "mscc"} => r.end \in FiveBits

\* Without one it is the register 0, which they all have.
LEMMA NoRegIs == \A drv : IsReg(drv, NoReg)
<1>1. 0 \in FiveBits /\ 0 \in Int BY FiveIs
<1>2. MvlsPort(0) = 0 /\ 0 % 65536 = 0 BY SMTT(10) DEF MvlsPort
<1>3. 0 \in SwitchRegs BY <1>1, <1>2, SMTT(10) DEF SwitchRegs
<1>4. NoReg.start = 0 /\ NoReg.end = 0 BY DEF NoReg
<1>5. \A drv : 0 \in RegsOf(drv) BY <1>1, <1>3 DEF RegsOf
<1> QED BY <1>1, <1>4, <1>5 DEF IsReg

\* A range is in the memory of the driver.
InMemory(drv, r) ==
  /\ r = [ok |-> r.ok, start |-> r.start, end |-> r.end]
  /\ r.start \in Nat /\ r.end \in Nat
  /\ drv \in {"phy", "mva", "mscc"} => r.start \in FiveBits /\ r.end \in FiveBits

LEMMA ParseRange ==
  ASSUME NEW s \in Strings, NEW drv \in Drivers, drv # "mvls", NEW ranged
  PROVE  InMemory(drv, mdio_parse_range(drv, s, ranged))
<1> DEFINE a == strtoull(s)
           b == strtoull(Tail(a.end))
           r == mdio_parse_range(drv, s, ranged)
           add == IF a.end[1].t = "+" THEN a.val ELSE 0
           m == ULLONG_MAX + 1
           e == (b.val + add) % m
           max == mem_max(drv)
<1>1. a.val \in Nat BY NumberType
<1>2. a.end # <<>> => b.val \in Nat BY NumberType
<1>3. \/ r = NoReg
      \/ r = [ok |-> TRUE, start |-> a.val, end |-> a.val] /\ ~(a.val > max)
      \/ /\ a.end # <<>> /\ r = [ok |-> TRUE, start |-> a.val, end |-> e]
         /\ ~(a.val > max) /\ ~(e > max)
  BY DEF mdio_parse_range
<1>4. m \in Nat \ {0} BY WidthAssumption
<1>5. drv \in {"phy", "mva", "mscc"} => max = 31 BY DEF mem_max
<1> HIDE DEF a, b, m, r, max
<1>6. a.end # <<>> => b.val + add \in Int BY <1>1, <1>2
<1>7. a.end # <<>> => e \in Nat
  <2> DEFINE z == b.val + add
  <2> HIDE DEF z
  <2>1. z \in Int => z % m \in Nat BY <1>4
  <2> QED BY <1>6, <2>1 DEF z
<1> HIDE DEF e
<1>8. ASSUME NEW n \in Nat, ~(n > max), drv \in {"phy", "mva", "mscc"} PROVE n \in FiveBits
  BY <1>5, <1>8, FiveIs
<1>9. CASE r = NoReg
  <2>1. 0 \in FiveBits BY FiveIs
  <2> QED BY <1>9, <2>1 DEF InMemory, NoReg, r
<1>10. CASE r = [ok |-> TRUE, start |-> a.val, end |-> a.val] /\ ~(a.val > max)
  BY <1>1, <1>8, <1>10 DEF InMemory, r
<1>11. CASE /\ a.end # <<>> /\ r = [ok |-> TRUE, start |-> a.val, end |-> e]
            /\ ~(a.val > max) /\ ~(e > max)
  BY <1>1, <1>7, <1>8, <1>11 DEF InMemory, r
<1> QED BY <1>3, <1>9, <1>10, <1>11

LEMMA ParsePage ==
  ASSUME NEW tok \in Strings, NEW drv PROVE pphy_parse_page(drv, tok).page \in Int
<1> DEFINE r == strtoull(tok)
<1>1. r.val \in Int BY NumberType
<1> HIDE DEF r
<1>2. \A n \in DOMAIN page_names(drv) : page_names(drv)[n] \in Int BY DEF page_names
<1>3. \/ /\ tok[1].t \in DOMAIN page_names(drv)
         /\ pphy_parse_page(drv, tok) = [ok |-> TRUE, page |-> page_names(drv)[tok[1].t]]
      \/ pphy_parse_page(drv, tok) = [ok |-> r.end = <<>> /\ r.val <= 255, page |-> r.val]
  BY DEF pphy_parse_page, r
<1> QED BY <1>1, <1>2, <1>3

LEMMA ParsePphy ==
  ASSUME NEW s \in Strings, NEW drv \in {"mva", "mscc"}, NEW ranged
  PROVE  IsReg(drv, pphy_parse_reg(drv, s, ranged))
<1> DEFINE t1 == strtok(s).tok
           t2 == strtok(strtok(s).rest).tok
           r == mdio_parse_range(drv, t2, ranged)
           g == pphy_parse_page(drv, t1).page
<1>1. t1 \in Strings /\ t2 \in Strings BY TokenType
<1>2. \/ pphy_parse_reg(drv, s, ranged) = NoReg
      \/ pphy_parse_reg(drv, s, ranged) = [r EXCEPT !.start = @ + g * U16]
  BY DEF pphy_parse_reg
<1> HIDE DEF t1, t2
<1>3. InMemory(drv, r)
  <2>1. drv \in Drivers /\ drv # "mvls" BY DEF Drivers
  <2> QED BY <1>1, <2>1, ParseRange
<1>4. g \in Int BY <1>1, ParsePage
<1> HIDE DEF r, g
<1>5. U16 \in Int BY SMTT(10) DEF U16
<1>6. r.start + g * U16 \in Int
  <2>1. r.start \in Int BY <1>3 DEF InMemory
  <2> QED BY <1>4, <1>5, <2>1
<1>7. [r EXCEPT !.start = @ + g * U16] = [ok |-> r.ok, start |-> r.start + g * U16, end |-> r.end]
  BY <1>3 DEF InMemory
<1> DEFINE z == r.start + g * U16
<1> HIDE DEF z
<1>8. RegsOf(drv) = Int BY DEF RegsOf
<1>9. r.end \in Int /\ r.end \in FiveBits BY <1>3 DEF InMemory
<1>10. IsReg(drv, [ok |-> r.ok, start |-> z, end |-> r.end])
  BY <1>6, <1>8, <1>9 DEF IsReg, z
<1> QED BY <1>2, <1>7, <1>10, NoRegIs DEF z

LEMMA ParseMvls == ASSUME NEW s \in Strings PROVE IsReg("mvls", mvls_parse_reg(s))
<1> DEFINE t1 == strtok(s).tok
           t2 == strtok(strtok(s).rest).tok
           p == mvls_parse_port(t1)
           q == Five(strtoull(t2))
<1>1. t1 \in Strings /\ t2 \in Strings BY TokenType
<1>2. \/ mvls_parse_reg(s) = NoReg
      \/ p.ok /\ q.ok /\ mvls_parse_reg(s) = [ok |-> TRUE, start |-> MVLS_REG(p.no, q.no), end |-> 0]
  BY DEF mvls_parse_reg
<1>3. \A t \in Strings : Five(strtoull(t)).ok => Five(strtoull(t)).no \in FiveBits
  <2> TAKE t \in Strings
  <2> DEFINE r == strtoull(t)
  <2>1. r.val \in Nat BY NumberType
  <2> HIDE DEF r
  <2>2. Five(r).ok => r.val <= 31 BY DEF Five
  <2>3. Five(r).no = r.val BY DEF Five
  <2>4. r.val <= 31 => r.val \in FiveBits BY <2>1, FiveIs
  <2> QED BY <2>2, <2>3, <2>4 DEF r
<1>4. q.ok => q.no \in FiveBits BY <1>1, <1>3
<1>5. p.ok => p.no \in FiveBits
  <2>1. MVLS_G1 \in FiveBits /\ MVLS_G2 \in FiveBits BY FiveIs DEF MVLS_G1, MVLS_G2
  <2>2. \/ p = [ok |-> TRUE, no |-> MVLS_G1] \/ p = [ok |-> TRUE, no |-> MVLS_G2]
        \/ p = Five(strtoull(t1))
    BY DEF mvls_parse_port
  <2> HIDE DEF p
  <2> QED BY <1>1, <1>3, <2>1, <2>2
<1> HIDE DEF p, q
<1>6. p.ok /\ q.ok => MVLS_REG(p.no, q.no) \in SwitchRegs BY <1>4, <1>5, MvlsRegIs
<1>7. RegsOf("mvls") = SwitchRegs BY DEF RegsOf
<1> DEFINE n == MVLS_REG(p.no, q.no)
<1> HIDE DEF n
<1>8. n \in SwitchRegs => IsReg("mvls", [ok |-> TRUE, start |-> n, end |-> 0])
  BY <1>7 DEF IsReg
<1> QED BY <1>2, <1>6, <1>8, NoRegIs DEF n

Lists == Seq(Strings)

\* The arguments of a command are there as far as there are any.
LEMMA ListIs ==
  ASSUME NEW args \in Lists
  PROVE  /\ Len(args) \in Nat /\ \A i \in 1..Len(args) : args[i] \in Strings
         /\ args # <<>> => Len(args) >= 1 /\ args[1] \in Strings /\ Tail(args) \in Lists
         /\ args # <<>> /\ Len(args) # 1 => Len(args) >= 2 /\ args[2] \in Strings
         /\ SubSeq(args, 3, Len(args)) \in Lists
<1>1. Len(args) \in Nat /\ \A i \in 1..Len(args) : args[i] \in Strings BY DEF Lists
<1>2. args # <<>> => Len(args) # 0 /\ Tail(args) \in Lists BY DEF Lists
<1>3. SubSeq(args, 3, Len(args)) \in Lists BY <1>1 DEF Lists
<1> DEFINE n == Len(args)
<1> HIDE DEF n
<1>4. n \in Nat /\ \A i \in 1..n : args[i] \in Strings BY <1>1 DEF n
<1>5. n # 0 => n >= 1 /\ args[1] \in Strings BY <1>4
<1>6. n # 0 /\ n # 1 => n >= 2 /\ args[2] \in Strings BY <1>4
<1> QED BY <1>1, <1>2, <1>3, <1>5, <1>6 DEF n

\* A switch's registers are not given as a range.
LEMMA ParseReg ==
  ASSUME NEW args \in Lists, NEW drv \in Drivers, NEW ranged \in BOOLEAN
  PROVE  /\ IsReg(drv, parse_reg(drv, args, ranged))
         /\ drv = "mvls" /\ ranged => ~parse_reg(drv, args, ranged).ok
<1>1. CASE args = <<>> BY <1>1, NoRegIs DEF parse_reg, NoReg
<1>2. CASE args # <<>>
  <2>1. args[1] \in Strings BY <1>2 DEF Lists
  <2>2. CASE drv = "mvls"
    <3>1. parse_reg(drv, args, ranged) = IF ranged THEN NoReg ELSE mvls_parse_reg(args[1])
      BY <1>2, <2>2 DEF parse_reg
    <3>2. ~NoReg.ok BY DEF NoReg
    <3> QED BY <2>1, <2>2, <3>1, <3>2, NoRegIs, ParseMvls
  <2>3. CASE drv \in {"mva", "mscc"}
    <3>1. parse_reg(drv, args, ranged) = pphy_parse_reg(drv, args[1], ranged)
      BY <1>2, <2>3 DEF parse_reg
    <3> QED BY <2>1, <2>3, <3>1, ParsePphy
  <2>4. CASE drv \notin {"mvls", "mva", "mscc"}
    <3>1. parse_reg(drv, args, ranged) = mdio_parse_range(drv, args[1], ranged)
      BY <1>2, <2>4 DEF parse_reg
    <3>2. InMemory(drv, parse_reg(drv, args, ranged)) BY <2>1, <2>4, <3>1, ParseRange
    <3> QED BY <2>4, <3>2 DEF InMemory, IsReg, RegsOf
  <2> QED BY <2>2, <2>3, <2>4
<1> QED BY <1>1, <1>2

LEMMA ParseVal ==
  ASSUME NEW s \in Strings, NEW masked
  PROVE  parse_val(s, masked).val \in Int /\ parse_val(s, masked).mask \in Int
<1> DEFINE v == strtoull(s)
           m == strtoull(Tail(v.end))
<1>1. v.val \in Int /\ (v.end # <<>> => m.val \in Int) BY NumberType
<1>2. /\ parse_val(s, masked).val = v.val
      /\ parse_val(s, masked).mask = IF v.end = <<>> THEN 0 ELSE m.val
  BY SMTT(10) DEF parse_val
<1> HIDE DEF v, m
<1> QED BY <1>1, <1>2

-------------------------------------------------------------------------------
(***************************************************************************)
(* The plan of a command line.                                             *)
(***************************************************************************)

\* A request of the tool is complete and its program is code for its device, a short one
\* but for some dumps; so is the one a request for counters becomes when the family is
\* known. A dump emits as many words as its callback counts on.
Wide == {"mmd", "mmd-c22", "xrs"}

IsRequest(r) ==
  /\ r = [attrs |-> TRUE, known |-> TRUE, aligned |-> TRUE, prog |-> r.prog, cb |-> r.cb, n |-> r.n,
          dev |-> r.dev]
  /\ r.prog \in Code(r.dev)
  /\ r.prog \in Short(r.dev) \/ (r.cb = "dump" /\ r.dev.drv \in Wide)
  /\ r.cb = "counter" => Addressed(r.dev)
  /\ r.cb = "dump" => EmitCount(r.prog) = IF r.n > 0 THEN r.n ELSE 0

\* A plan is a sequence of requests; the one that is repeated is not the first of them.
IsPlan(p) ==
  /\ p = [todo |-> p.todo, end |-> p.end, again |-> p.again]
  /\ Len(p.todo) \in Nat /\ DOMAIN p.todo = 1..Len(p.todo)
  /\ \A i \in 1..Len(p.todo) : IsRequest(p.todo[i])
  /\ p.end \in {"ok", "error", "endless"}
  /\ p.again \in BOOLEAN
  /\ p.again => Len(p.todo) = 2 /\ p.todo[2].cb = "counter"

LEMMA CmdIs ==
  ASSUME NEW dev, NEW cb, NEW prog \in Short(dev), cb # "dump", cb = "counter" => Addressed(dev)
  PROVE  IsRequest(Cmd(dev, cb, prog))
<1>1. prog \in Code(dev) BY DEF Short
<1>2. Cmd(dev, cb, prog) =
        [attrs |-> TRUE, known |-> TRUE, aligned |-> TRUE, prog |-> prog, cb |-> cb, n |-> 0, dev |-> dev]
  BY DEF Cmd
<1> QED BY <1>1, <1>2 DEF IsRequest

LEMMA PlanIs ==
  /\ IsPlan(Refused) /\ IsPlan(Plan(<<>>, "endless")) /\ IsPlan(Plan(<<>>, "ok"))
  /\ \A r : IsRequest(r) => IsPlan(Sends(r))
  BY DEF IsPlan, Refused, Plan, Sends

\* What a command on a device may have parsed.
LEMMA ArgsOf ==
  ASSUME NEW dev, IsDevice(dev), NEW args \in Lists, NEW masked
  PROVE  LET r == parse_reg(dev.drv, args, FALSE)
             v == parse_val(args[2], masked)
         IN  /\ r.start \in RegsOf(dev.drv)
             /\ r.ok /\ Len(args) # 1 /\ ~(Len(args) > 2) => v.val \in Int /\ v.mask \in Int
<1> DEFINE r == parse_reg(dev.drv, args, FALSE)
           v == parse_val(args[2], masked)
<1>1. dev.drv \in Drivers BY DEF IsDevice
<1>2. r.start \in RegsOf(dev.drv) BY <1>1, ParseReg DEF IsReg
<1>3. args = <<>> => ~r.ok BY DEF parse_reg, NoReg
<1>4. r.ok /\ Len(args) # 1 /\ ~(Len(args) > 2) => args[2] \in Strings
  <2> HIDE DEF r
  <2> QED BY <1>3, ListIs
<1>5. r.ok /\ Len(args) # 1 /\ ~(Len(args) > 2) => v.val \in Int /\ v.mask \in Int
  BY <1>4, ParseVal
<1> QED BY <1>2, <1>5

LEMMA RawExec ==
  ASSUME NEW dev, IsDevice(dev), NEW args \in Lists PROVE IsPlan(mdio_common_raw_exec(dev, args))
<1> DEFINE r == parse_reg(dev.drv, args, FALSE)
           v == parse_val(args[2], TRUE)
           p == mdio_common_raw_exec(dev, args)
<1>1. \/ p = Refused
      \/ p = Sends(Cmd(dev, "raw_read", raw_read(dev, r.start)))
      \/ /\ r.ok /\ Len(args) # 1 /\ ~(Len(args) > 2)
         /\ p = Sends(Cmd(dev, "raw_write", raw_write(dev, r.start, v.val, v.mask)))
  BY DEF mdio_common_raw_exec
<1>2. /\ r.start \in RegsOf(dev.drv)
      /\ r.ok /\ Len(args) # 1 /\ ~(Len(args) > 2) => v.val \in Int /\ v.mask \in Int
  BY ArgsOf
<1> HIDE DEF r, v, p
<1> QED BY <1>1, <1>2, RawCode, CmdIs, PlanIs DEF p

LEMMA BenchExec ==
  ASSUME NEW dev, IsDevice(dev), NEW args \in Lists PROVE IsPlan(mdio_common_bench_exec(dev, args))
<1> DEFINE r == parse_reg(dev.drv, args, FALSE)
           v == parse_val(args[2], FALSE)
           p == mdio_common_bench_exec(dev, args)
<1>1. \/ p = Refused
      \/ p = Sends(Cmd(dev, "bench", bench_read(dev, r.start)))
      \/ /\ r.ok /\ Len(args) # 1 /\ ~(Len(args) > 2)
         /\ p = Sends(Cmd(dev, "bench", bench_write(dev, r.start, v.val)))
  BY DEF mdio_common_bench_exec
<1>2. /\ r.start \in RegsOf(dev.drv)
      /\ r.ok /\ Len(args) # 1 /\ ~(Len(args) > 2) => v.val \in Int
  BY ArgsOf
<1> HIDE DEF r, v, p
<1> QED BY <1>1, <1>2, BenchCode, CmdIs, PlanIs DEF p

\* One range makes one request, or none.
LEMMA DumpExecOne ==
  ASSUME NEW dev, IsDevice(dev), NEW args \in Lists
  PROVE  LET p == mdio_common_dump_exec_one(dev, args)
         IN  /\ p.end \in {"ok", "error", "endless"}
             /\ p.end = "ok" => IsRequest(p.todo[1])
<1> DEFINE r == parse_reg(dev.drv, args, TRUE)
           p == mdio_common_dump_exec_one(dev, args)
           d == dump(dev, r.start, r.end)
           w == DumpWords(dev, r)
           q == [Cmd(dev, "dump", d) EXCEPT !.n = w]
<1>0. dev.drv \in Drivers BY DEF IsDevice
<1>1. IsReg(dev.drv, r) /\ (dev.drv = "mvls" => ~r.ok) BY <1>0, ParseReg
<1>2. p \in {Refused, Plan(<<>>, "endless")} \/ (r.ok /\ p = Sends(q))
  BY DEF mdio_common_dump_exec_one
<1> HIDE DEF r, p, w
<1>3. r.ok => IsRequest(q)
  <2> SUFFICES ASSUME r.ok PROVE IsRequest(q) OBVIOUS
  <2>0. /\ r.start \in RegsOf(dev.drv) /\ r.end \in Int /\ dev.drv # "mvls"
        /\ dev.drv \in {"phy", "mva", "mscc"} => r.end \in FiveBits
    BY <1>1 DEF IsReg
  <2>1. d \in Code(dev) /\ (dev.drv \in {"phy", "mva", "mscc"} => d \in Short(dev))
    BY <2>0, DumpCode
  <2>2. d \in Short(dev) \/ dev.drv \in Wide BY <1>0, <2>0, <2>1 DEF Drivers, Wide
  <2> HIDE DEF d
  <2>3. q =
          [attrs |-> TRUE, known |-> TRUE, aligned |-> TRUE, prog |-> d, cb |-> "dump", n |-> w,
           dev |-> dev]
    <3> DEFINE t == TRUE
    <3> SUFFICES [[attrs |-> t, known |-> t, aligned |-> t, prog |-> d, cb |-> "dump", n |-> 0,
                   dev |-> dev] EXCEPT !.n = w] =
                 [attrs |-> t, known |-> t, aligned |-> t, prog |-> d, cb |-> "dump", n |-> w,
                  dev |-> dev]
      BY DEF Cmd
    <3> HIDE DEF t
    <3> QED OBVIOUS
  <2>4. EmitCount(d) = IF w > 0 THEN w ELSE 0
    <3> DEFINE lo == First(dev, r.start)
    <3>1. EmitCount(d) = IF r.end < lo THEN 0 ELSE r.end - lo + 1 BY <2>0, DumpCode DEF d
    <3>2. w = r.end + 1 - lo BY DEF w, DumpWords, First
    <3>3. lo \in Int
      <4>1. r.start \in Int BY <2>0, DriverCode
      <4> QED BY <4>1, SMTT(10) DEF First
    <3> HIDE DEF lo, w
    <3> QED BY <2>0, <3>1, <3>2, <3>3
  <2> HIDE DEF w
  <2>5. q.cb = "dump" /\ q.prog = d /\ q.n = w /\ q.dev = dev BY <2>3
  <2> HIDE DEF q
  <2> QED BY <2>1, <2>2, <2>3, <2>4, <2>5 DEF IsRequest
<1> HIDE DEF q
<1>5. CASE p = Refused BY <1>5 DEF Refused, Plan, p
<1>6. CASE p = Plan(<<>>, "endless") BY <1>6 DEF Plan, p
<1>7. CASE r.ok /\ p = Sends(q) BY <1>3, <1>7 DEF Sends, Plan, p
<1> QED BY <1>2, <1>5, <1>6, <1>7

LEMMA DumpExec ==
  ASSUME NEW dev, IsDevice(dev), NEW args \in Lists PROVE IsPlan(mdio_common_dump_exec(dev, args))
<1> DEFINE One(i) == mdio_common_dump_exec_one(dev, <<args[i]>>)
           one == [i \in 1..Len(args) |-> One(i)]
           n == Len(one)
           B == {i \in 1..n : one[i].end # "ok"}
           bad == IF B # {} THEN Min(B) ELSE 0
           p == mdio_common_dump_exec(dev, args)
<1>1. Len(args) \in Nat /\ \A i \in 1..Len(args) : args[i] \in Strings BY ListIs
<1>2. n = Len(args) BY <1>1
<1>3. p = IF bad = 0 THEN Plan([i \in 1..n |-> one[i].todo[1]], "ok")
          ELSE Plan([i \in 1..(bad - 1) |-> one[i].todo[1]], one[bad].end)
  BY DEF mdio_common_dump_exec, SelectInSeq
<1>4. ASSUME NEW i \in 1..n
      PROVE  /\ one[i].end \in {"ok", "error", "endless"}
             /\ one[i].end = "ok" => IsRequest(one[i].todo[1])
  <2>1. <<args[i]>> \in Lists BY <1>1, <1>2 DEF Lists
  <2>2. one[i] = One(i) BY <1>2
  <2> QED BY <2>1, <2>2, DumpExecOne
<1> HIDE DEF one, p
<1>14. n \in Nat BY <1>1, <1>2
<1> HIDE DEF n
<1>5. bad \in 0..n /\ (bad # 0 => bad \in B /\ \A k \in B : bad <= k) /\ (bad = 0 => B = {})
  <2>1. CASE B # {}
    <3>1. Min(B) \in B /\ \A k \in B : Min(B) <= k BY <1>14, <2>1, FirstIs
    <3> QED BY <1>14, <2>1, <3>1
  <2> QED BY <1>14, <2>1
<1> DEFINE m == IF bad = 0 THEN n ELSE bad - 1
           e == IF bad = 0 THEN "ok" ELSE one[bad].end
           t == [i \in 1..m |-> one[i].todo[1]]
<1>6. m \in Nat /\ \A i \in 1..m : i \in 1..n /\ i \notin B
  <2> HIDE DEF bad, B
  <2> QED BY <1>14, <1>5
<1>7. \A i \in 1..m : IsRequest(one[i].todo[1]) BY <1>4, <1>6
<1>8. e \in {"ok", "error", "endless"}
  <2> HIDE DEF bad
  <2> QED BY <1>4, <1>5
<1>9. p = Plan(t, e) BY <1>3
<1> HIDE DEF bad, B, m, e
<1>10. Len(t) = m /\ DOMAIN t = 1..m /\ \A i \in 1..m : IsRequest(t[i]) BY <1>6, <1>7
<1> HIDE DEF t
<1>11. p = [todo |-> t, end |-> e, again |-> FALSE] BY <1>9 DEF Plan
<1>12. p.todo = t /\ p.end = e /\ p.again = FALSE BY <1>11
<1>13. IsPlan(p) BY <1>6, <1>8, <1>10, <1>11, <1>12 DEF IsPlan
<1> QED BY <1>13 DEF p

LEMMA CommonExec ==
  ASSUME NEW dev, IsDevice(dev), NEW args \in Lists PROVE IsPlan(mdio_common_exec(dev, args))
<1>1. CASE args = <<>> BY <1>1, PlanIs DEF mdio_common_exec
<1>2. CASE args # <<>>
  <2>1. Tail(args) \in Lists BY <1>2, ListIs
  <2>2. mdio_common_exec(dev, args) \in
          {mdio_common_bench_exec(dev, Tail(args)), mdio_common_dump_exec(dev, Tail(args)),
           mdio_common_raw_exec(dev, Tail(args)), mdio_common_raw_exec(dev, args)}
    BY <1>2 DEF mdio_common_exec
  <2> QED BY <2>1, <2>2, BenchExec, DumpExec, RawExec
<1> QED BY <1>1, <1>2

LEMMA LagExec ==
  ASSUME NEW dev, Addressed(dev), NEW args PROVE IsPlan(mvls_lag_exec(dev, args))
  BY LagCode, CmdIs, PlanIs DEF mvls_lag_exec

LEMMA CounterExec ==
  ASSUME NEW dev, Addressed(dev), NEW args PROVE IsPlan(mvls_counter_exec(dev, args))
<1> DEFINE a == Cmd(dev, "id", mvls_id(dev))
           b == Cmd(dev, "counter", mvls_counter(dev, "unknown"))
           p == Plan(<<a, b>>, "ok")
           l == Len(args) > 1
           q == mvls_counter_exec(dev, args)
<1>1. IsRequest(a) /\ IsRequest(b) BY IdCode, CounterCode, CmdIs
<1>2. b.cb = "counter" BY DEF Cmd
<1>3. q = Refused \/ q = [p EXCEPT !.again = l] BY DEF mvls_counter_exec
<1>4. l \in BOOLEAN OBVIOUS
<1> HIDE DEF a, b, l, q
<1>5. [p EXCEPT !.again = l] = [todo |-> <<a, b>>, end |-> "ok", again |-> l] BY DEF Plan
<1>6. IsPlan([todo |-> <<a, b>>, end |-> "ok", again |-> l]) BY <1>1, <1>2, <1>4 DEF IsPlan
<1> HIDE DEF p
<1>7. IsPlan(q) BY <1>3, <1>5, <1>6, PlanIs
<1> QED BY <1>7 DEF q

LEMMA AtuExec ==
  ASSUME NEW dev, Addressed(dev), NEW args \in Lists PROVE IsPlan(mvls_atu_exec(dev, args))
<1> DEFINE Options == {"none", "static", "other"}
           option == IF Len(args) < 4 THEN "none" ELSE IF Is(args[4], "static") THEN "static" ELSE "other"
           fid == IF args[3] # <<>> /\ args[3][1].t = "number" THEN args[3][1].v ELSE 0
           p == mvls_atu_exec(dev, args)
<1>1. \/ p = Refused
      \/ p = Sends(Cmd(dev, "atu", mvls_atu_flush_all(dev, "none")))
      \/ p = Sends(Cmd(dev, "atu", mvls_atu_flush_all(dev, option)))
      \/ /\ ~(Len(args) < 2) /\ Len(args) # 2
         /\ p = Sends(Cmd(dev, "atu", mvls_atu_flush_fid(dev, fid, option)))
  BY DEF mvls_atu_exec
<1>2. option \in Options OBVIOUS
<1>3. ~(Len(args) < 2) /\ Len(args) # 2 => fid \in Int
  <2> DEFINE n == Len(args)
             s == args[3]
  <2>1. n \in Nat /\ \A i \in 1..n : args[i] \in Strings BY ListIs
  <2> HIDE DEF n
  <2>2. ~(n < 2) /\ n # 2 => s \in Strings BY <2>1
  <2> HIDE DEF s
  <2>3. s \in Strings /\ s # <<>> => s[1] \in Lexeme BY DEF Strings
  <2>4. \A l \in Lexeme : l.v \in Int BY DEF Lexeme
  <2> QED BY <2>2, <2>3, <2>4 DEF n, s
<1> HIDE DEF option, fid, p
<1>4. IsPlan(p) BY <1>1, <1>2, <1>3, AtuCode, CmdIs, PlanIs
<1> QED BY <1>4 DEF p

\* The device main and exec set up for the id they have parsed.
LEMMA DeviceIs ==
  ASSUME NEW drv \in Drivers, NEW id, id \in FiveBits \/ id \in Clause45,
         drv = "phy" => id \in FiveBits,
         drv \in {"mmd", "mmd-c22"} => id \in Clause45
  PROVE  IsDevice(Device(drv, id)) /\ Device(drv, id).drv = drv
<1> DEFINE dev == Device(drv, id)
<1>1. /\ dev.drv = drv /\ dev.id = id
      /\ drv \in {"mva", "mscc"} => dev.page_reg \in {22, 31}
  BY DEF Device
<1>2. id \in Int /\ 22 \in FiveBits /\ 31 \in FiveBits BY FiveIs
<1> HIDE DEF dev
<1>3. drv \notin {"mmd", "mmd-c22"} => OddlyAddressed(dev) \/ id \in FiveBits
  <2> SUFFICES ASSUME drv \notin {"mmd", "mmd-c22"}, id \in Clause45, drv # "phy"
               PROVE  OddlyAddressed(dev)
    OBVIOUS
  <2>1. drv \in {"mva", "mscc", "mvls", "xrs"} BY DEF Drivers
  <2>2. id > 31 BY FiveIs
  <2> QED BY <1>1, <2>1, <2>2 DEF OddlyAddressed
<1>4. drv \notin {"mmd", "mmd-c22"} => Addressed(dev) BY <1>1, <1>2, <1>3 DEF Addressed
<1>5. IsDevice(dev) BY <1>1, <1>2, <1>4 DEF IsDevice
<1> QED BY <1>1, <1>5 DEF dev

LEMMA StatusIs ==
  ASSUME NEW dev, IsDevice(dev), HasStatus(dev.drv) PROVE IsRequest(status(dev))
<1>1. CASE dev.drv = "phy" BY <1>1, StatusCode, CmdIs DEF status
<1>2. CASE dev.drv = "mva" BY <1>2, StatusCode, CmdIs DEF status
<1>3. CASE dev.drv \in {"mmd", "mmd-c22"} BY <1>3, StatusCode, CmdIs DEF status
<1> QED BY <1>1, <1>2, <1>3 DEF HasStatus

LEMMA ExecIs ==
  ASSUME NEW drv \in Drivers, NEW args \in Lists PROVE IsPlan(exec(drv, args))
<1> DEFINE d == mdio_parse_dev(args[1], drv # "phy")
           dev == Device(drv, d.id)
           op == Tail(args)
           p == exec(drv, args)
<1>1. \/ p = Refused
      \/ /\ args # <<>> /\ d.ok /\ ~(drv \in {"mmd", "mmd-c22"} /\ d.id < MDIO_PHY_ID_C45)
         /\ \/ HasStatus(drv) /\ p = Sends(status(dev))
            \/ /\ drv = "mvls"
               /\ \/ p = mvls_atu_exec(dev, op) \/ p = mvls_counter_exec(dev, op)
                  \/ p = mvls_lag_exec(dev, op)
            \/ p = mdio_common_exec(dev, op)
  BY DEF exec
<1>2. args # <<>> => op \in Lists /\ args[1] \in Strings BY ListIs
<1>3. args # <<>> /\ d.ok => d.id \in FiveBits \/ (drv # "phy" /\ d.id \in Clause45)
  BY <1>2, ParseDev
<1> HIDE DEF d, op, p
<1>4. ASSUME args # <<>>, d.ok, ~(drv \in {"mmd", "mmd-c22"} /\ d.id < MDIO_PHY_ID_C45)
      PROVE  IsDevice(dev) /\ dev.drv = drv
  <2>1. drv = "phy" => d.id \in FiveBits BY <1>3, <1>4
  <2>2. drv \in {"mmd", "mmd-c22"} => d.id \in Clause45
    <3>0. \A n \in Int : n <= 31 => n < MDIO_PHY_ID_C45 BY SMTT(10) DEF MDIO_PHY_ID_C45
    <3>1. d.id \in FiveBits => d.id < MDIO_PHY_ID_C45 BY <3>0, FiveIs
    <3> QED BY <1>3, <1>4, <3>1
  <2> QED BY <1>3, <1>4, <2>1, <2>2, DeviceIs
<1> HIDE DEF dev
<1>5. IsDevice(dev) /\ dev.drv = "mvls" => Addressed(dev) BY DEF IsDevice
<1>6. CASE p = Refused BY <1>6, PlanIs DEF p
<1>7. ASSUME args # <<>>, d.ok, ~(drv \in {"mmd", "mmd-c22"} /\ d.id < MDIO_PHY_ID_C45),
             HasStatus(drv), p = Sends(status(dev))
      PROVE  IsPlan(p)
  BY <1>4, <1>7, StatusIs, PlanIs
<1>8. ASSUME args # <<>>, d.ok, ~(drv \in {"mmd", "mmd-c22"} /\ d.id < MDIO_PHY_ID_C45),
             drv = "mvls",
             p = mvls_atu_exec(dev, op) \/ p = mvls_counter_exec(dev, op) \/ p = mvls_lag_exec(dev, op)
      PROVE  IsPlan(p)
  BY <1>2, <1>4, <1>5, <1>8, AtuExec, CounterExec, LagExec
<1>9. ASSUME args # <<>>, d.ok, ~(drv \in {"mmd", "mmd-c22"} /\ d.id < MDIO_PHY_ID_C45),
             p = mdio_common_exec(dev, op)
      PROVE  IsPlan(p)
  BY <1>2, <1>4, <1>9, CommonExec
<1> QED BY <1>1, <1>6, <1>7, <1>8, <1>9 DEF p

\* Whatever is on its command line, the tool makes a plan of it.
THEOREM PlanOfLine == \A argv \in Seq(Seq(Lexeme)) : IsPlan(main(argv))
<1> SUFFICES ASSUME NEW argv \in Lists PROVE IsPlan(main(argv)) BY DEF Lists, Strings
<1> DEFINE named == \E d \in Drivers : Is(argv[2], d)
           drv == IF named THEN argv[2][1].t ELSE IF Has(argv[2], ":") THEN "mmd" ELSE "phy"
           status0 == Sends(Cmd(Device("phy", 0), "bus_status", bus_status))
           args == IF named THEN SubSeq(argv, 3, Len(argv)) ELSE Tail(argv)
           p == main(argv)
<1>1. \/ p = Plan(<<>>, "ok") \/ p = Refused \/ p = status0
      \/ argv # <<>> /\ p = exec(drv, args)
  BY DEF main
<1>2. drv \in Drivers
  <2>1. \A w : <<Txt(w)>>[1].t = w BY DEF Txt
  <2>2. named => argv[2][1].t \in Drivers BY <2>1 DEF Is
  <2>3. "mmd" \in Drivers /\ "phy" \in Drivers BY DEF Drivers
  <2> HIDE DEF named
  <2> QED BY <2>2, <2>3
<1>3. argv # <<>> => args \in Lists
  <2> HIDE DEF named
  <2> QED BY ListIs
<1>4. IsPlan(status0) BY BusStatusCode, CmdIs, PlanIs
<1> HIDE DEF drv, args, status0, p
<1>5. IsPlan(p) BY <1>1, <1>2, <1>3, <1>4, ExecIs, PlanIs
<1> QED BY <1>5 DEF p

\* Every program the tool sends, of whatever command and to whatever device, is made of
\* instructions and is one the kernel's validator accepts (mdio_nl_validate_prog); the
\* one that reads the counters is so for every family the switch may turn out to be of.
THEOREM ProgramsAccepted ==
  \A argv \in Seq(Seq(Lexeme)) : \A i \in 1..Len(main(argv).todo) :
    LET r == main(argv).todo[i]
    IN  /\ r.prog \in Seq(Insn) /\ validate_prog(r.prog, TRUE)
        /\ r.cb = "counter" => \A fam : validate_prog(mvls_counter(r.dev, fam), TRUE)
<1> TAKE argv \in Seq(Seq(Lexeme))
<1> DEFINE p == main(argv)
<1>1. IsPlan(p) BY PlanOfLine
<1> HIDE DEF p
<1> SUFFICES ASSUME NEW i \in 1..Len(p.todo)
             PROVE  LET r == p.todo[i]
                    IN  /\ r.prog \in Seq(Insn) /\ validate_prog(r.prog, TRUE)
                        /\ r.cb = "counter" => \A fam : validate_prog(mvls_counter(r.dev, fam), TRUE)
  BY DEF p
<1> DEFINE r == p.todo[i]
<1>2. IsRequest(r) BY <1>1 DEF IsPlan
<1> HIDE DEF r
<1>3. r.prog \in Seq(Insn) /\ validate_prog(r.prog, TRUE) BY <1>2, CodeIs DEF IsRequest
<1>4. r.cb = "counter" => \A fam : mvls_counter(r.dev, fam) \in Code(r.dev)
  BY <1>2, CounterCode DEF IsRequest, Short
<1> QED BY <1>3, <1>4, CodeIs DEF r
===============================================================================
