------------------------------- MODULE MdioLines ------------------------------
(***************************************************************************)
(* What mdio makes of a command line, one line at a time: the requests of  *)
(* its plan, and what they are to be whatever is typed.                    *)
(***************************************************************************)
EXTENDS MdioArgs

CONSTANT Inputs     \* what is typed: a line, and what else there is to say of it

ASSUME InputsAssumption == \A l \in Inputs : l.line \in Seq(Seq(Lexeme))

VARIABLES
  typed,        \* the command line under test
  plan          \* what mdio makes of it

Blank == [kind |-> "none"]

LineInit == typed = Blank /\ plan = Refused
Type == typed = Blank /\ \E l \in Inputs : typed' = l /\ plan' = main(l.line)
Clear == typed # Blank /\ typed' = Blank /\ plan' = Refused
LineNext == Type \/ Clear

LineSpec == LineInit /\ [][LineNext]_<<typed, plan>>

-------------------------------------------------------------------------------
Requests == {plan.todo[i] : i \in 1..Len(plan.todo)}

\* Whatever is typed, what is sent is a program the kernel's validator accepts, and
\* whose bus cycles exist: Clause 22 cycles have a device and a register of five bits
\* (the limits of the parsers against the encodings of the drivers).
CyclesExist ==
  \A r \in Requests : ~OddlyAddressed(r.dev) =>
    /\ validate_prog(r.prog, TRUE)
    /\ \A i \in 1..Len(r.prog) : CycleExists(r.prog[i])

\* A dump emits as many words as its callback counts on, and none for a range that runs
\* backwards (the loops of mdio_common_dump_exec_one and pphy_dump, of which one has the
\* page in the first register, against the difference mdio_common_dump_cb is given).
DumpsCounted ==
  \A r \in Requests :
    r.cb = "dump" => EmitCount(r.prog) = IF r.n > 0 THEN r.n ELSE 0

\* A range as it is written ends at the last of 2^32 registers: N, M-N or M+N, and what
\* may stand behind it.
UpToLast(a) ==
  LET IsLast(n) == n % (ULLONG_MAX + 1) = UINT32_MAX
  IN  \/ Len(a) = 1 /\ IsLast(a[1].v)
      \/ Len(a) >= 3 /\ a[2].t = "-" /\ IsLast(a[3].v)
      \/ Len(a) >= 3 /\ a[2].t = "+" /\ IsLast(a[1].v + a[3].v)

\* All the ranges given are dumped unless the command fails; and it comes to an end,
\* unless an xrs device is asked for the last of its 2^32 registers (mdio_common_dump_exec
\* and its loop over a 32-bit register number).
DumpsWhole ==
  typed.kind = "line" =>
    LET given == SelectInSeq(typed.line, LAMBDA a : Is(a, "dump"))
    IN  /\ given > 0 /\ plan.end = "ok" => Len(plan.todo) = Len(typed.line) - given
        /\ plan.end = "endless" =>
             /\ Is(typed.line[2], "xrs")
             /\ \E i \in (given + 1)..Len(typed.line) : UpToLast(typed.line[i])

\* A request that is sent fits the static buffer it is built in, with its headers and
\* the longest name of a bus, except for dumps of the drivers whose registers are not
\* bounded by 32 (the one check of mdio_xfer_timeout is of the program alone).
RequestsFit ==
  \A r \in Requests :
    Overruns(r.prog) => r.cb = "dump" /\ r.dev.drv \in {"mmd", "mmd-c22", "xrs"}
===============================================================================
