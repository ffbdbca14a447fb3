---------------------------- MODULE MdioLinesProof ----------------------------
(***************************************************************************)
(* Theorems about command lines: what is sent for any of them has bus      *)
(* cycles that exist, and fits the buffer it is built in; what a dump      *)
(* sends emits what its callback counts on.                                *)
(***************************************************************************)
EXTENDS MdioLines, MdioArgsProof

\* What mdio has made of a line is a plan.
Planned == IsPlan(plan)

LEMMA AlwaysPlanned == LineSpec => []Planned
<1>1. LineInit => Planned BY PlanIs DEF LineInit, Planned
<1>2. Planned /\ [LineNext]_<<typed, plan>> => Planned'
  <2> SUFFICES ASSUME Planned, [LineNext]_<<typed, plan>> PROVE Planned' OBVIOUS
  <2>1. CASE Type
    <3>1. PICK l \in Inputs : plan' = main(l.line) BY <2>1 DEF Type
    <3>2. l.line \in Seq(Seq(Lexeme)) BY InputsAssumption
    <3> QED BY <3>1, <3>2, PlanOfLine DEF Planned
  <2>2. CASE Clear BY <2>2, PlanIs DEF Clear, Planned
  <2>3. CASE UNCHANGED <<typed, plan>> BY <2>3 DEF Planned
  <2> QED BY <2>1, <2>2, <2>3 DEF LineNext
<1> QED BY <1>1, <1>2, PTL DEF LineSpec

LEMMA RequestsAre == Planned => \A r \in Requests : IsRequest(r)
  BY DEF Planned, IsPlan, Requests

-------------------------------------------------------------------------------
\* The bus cycles of what is sent exist, whatever the line says: no parser lets a device
\* or a register pass that the driver's encoding cuts short or moves.
THEOREM CyclesAlwaysExist == LineSpec => []CyclesExist
<1>1. Planned => CyclesExist
  <2> SUFFICES ASSUME Planned, NEW r \in Requests, ~OddlyAddressed(r.dev)
               PROVE  validate_prog(r.prog, TRUE) /\ \A i \in 1..Len(r.prog) : CycleExists(r.prog[i])
    BY DEF CyclesExist
  <2>1. r.prog \in Code(r.dev) BY RequestsAre DEF IsRequest
  <2> QED BY <2>1, CodeIs
<1> QED BY <1>1, AlwaysPlanned, PTL

\* The words of a dump are the words its callback counts on, whatever the driver and the
\* range: the loop of a driver and DumpWords agree on the first register, with the page
\* taken out of it or not, and on a range that runs backwards.
THEOREM DumpsAlwaysCounted == LineSpec => []DumpsCounted
<1>1. Planned => DumpsCounted BY RequestsAre DEF IsRequest, DumpsCounted
<1> QED BY <1>1, AlwaysPlanned, PTL

\* A short program fits with all there is around it.
LEMMA ShortFits == \A p : Size(p) \in Nat /\ Size(p) <= 499 => ~Overruns(p)
<1> TAKE p
<1> DEFINE n == Size(p)
<1>1. Len(p) = n BY DEF Size
<1> HIDE DEF n
<1>2. n \in Nat /\ n <= 499 => 16 + 4 + (4 + 64) + (4 + 8 * n) + 8 <= 4096 BY SMTT(10)
<1>3. RequestBytes(p) = 16 + 4 + (4 + 64) + (4 + 8 * n) + 8
  BY <1>1, SMTT(10) DEF RequestBytes, ProgBytes
<1>4. n \in Nat /\ n <= 499 => ~(RequestBytes(p) > BUF_SIZE)
  BY <1>2, <1>3, SMTT(10) DEF BUF_SIZE
<1> QED BY <1>4 DEF Overruns, n

\* No request is larger than the static buffer, with a bus of any name, but those that
\* dump more than 32 registers: the length of every other command is bounded.
THEOREM RequestsAlwaysFit == LineSpec => []RequestsFit
<1>1. Planned => RequestsFit
  <2> SUFFICES ASSUME Planned, NEW r \in Requests, Overruns(r.prog)
               PROVE  r.cb = "dump" /\ r.dev.drv \in {"mmd", "mmd-c22", "xrs"}
    BY DEF RequestsFit
  <2>1. IsRequest(r) BY RequestsAre
  <2>2. CASE r.prog \in Short(r.dev)
    <3>1. r.prog \in Code(r.dev) /\ Size(r.prog) <= 499 BY <2>2 DEF Short
    <3>2. Size(r.prog) \in Nat BY <3>1, CodeJoin
    <3> QED BY <3>1, <3>2, ShortFits
  <2> QED BY <2>1, <2>2 DEF IsRequest, Wide
<1> QED BY <1>1, AlwaysPlanned, PTL
===============================================================================
