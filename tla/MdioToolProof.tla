---------------------------- MODULE MdioToolProof -----------------------------
(***************************************************************************)
(* Theorems about the mdio tool: what it makes of a reply is what happened *)
(* in the kernel, and what its exit status says is true.                   *)
(***************************************************************************)
EXTENDS MdioTool, MdioNlProof, MdioArgsProof

-------------------------------------------------------------------------------
(***************************************************************************)
(* The inductive invariant.                                                *)
(***************************************************************************)
States == {"none", "init", "init again", "probe", "ready", "wait", "got", "exit"}
Families == {"opal", "agate", "peridot", "unknown"}

Client ==
  [st: States, plan: Plans \cup {Refused}, id: Int, i: Nat \ {0}, fam: Families, next: Nat, err: Int,
   shown: Seq(Int), res: Int, good: SUBSET Nat]

\* Every client has its type.
ClientOK == cli \in [Xfers -> Client] /\ genl \in [id: Int, last: Int]

\* A client c whose transfer's handler is at st, with s on its socket, e emitted and r
\* returned.  Outside a transfer nothing is left of the last one.
Asking(c, st, s, e, r) ==
  /\ c.st \notin {"wait", "got"} => st = "idle" /\ c.next = 1 /\ c.err = 0 /\ c.shown = <<>>
  /\ c.st = "wait" =>
       /\ st # "idle" /\ c.err = 0
       /\ st # "done" => c.next = 1 /\ c.shown = <<>>
       /\ st = "done" =>
            /\ c.next \in 1..Len(s)
            /\ \A i \in 1..(c.next - 1) : s[i].kind = "xfer" /\ ~s[i].done
            /\ c.shown = Words(SubSeq(s, 1, c.next - 1))
  /\ c.st = "got" =>
       /\ st \in {"idle", "done"}
       /\ st = "idle" => c.res # 0
       /\ st = "done" /\ c.res = 0 => r = 0 /\ c.shown = e
       /\ st = "done" /\ r # 0 /\ Len(e) + 6 <= Cap /\ Len(s) > 1 => c.res = r

\* The transfers of the plan that c is past have been carried out, but for reads of ids.
Carried(c, n) == \A j \in 1..Len(c.plan.todo) : j < n /\ c.plan.todo[j].cb # "id" => j \in c.good

Progress(c) ==
  /\ c.st = "none" => c.i = 1
  /\ c.st \in {"wait", "got"} => c.i <= Len(c.plan.todo)
  /\ c.st # "none" /\ c.plan.again => c.i <= Len(c.plan.todo)
  /\ Carried(c, c.i)
  /\ c.st = "exit" /\ c.res = 0 =>
       c.plan.end = "ok" /\ ~c.plan.again /\ c.i > Len(c.plan.todo)

Followed ==
  \A x \in Xfers :
    Asking(cli[x], stage[x], sock[x], emitted[x], ret[x]) /\ Progress(cli[x])

-------------------------------------------------------------------------------
(***************************************************************************)
(* A step of one client leaves the others as they are.                     *)
(***************************************************************************)
LEMMA PlansAre == \A p \in Plans \cup {Refused} : IsPlan(p)
<1>1. \A l \in Lines : l \in Seq(Seq(Lexeme)) BY LinesAssumption
<1> QED BY <1>1, PlanOfLine, PlanIs DEF Plans

LEMMA ClientIs ==
  ASSUME ClientOK, Followed, NEW x \in Xfers
  PROVE  /\ cli[x] \in Client /\ IsPlan(cli[x].plan)
         /\ Asking(cli[x], stage[x], sock[x], emitted[x], ret[x]) /\ Progress(cli[x])
<1>1. cli[x] \in Client BY DEF ClientOK
<1>2. cli[x].plan \in Plans \cup {Refused} BY <1>1 DEF Client
<1> QED BY <1>1, <1>2, PlansAre DEF Followed

\* The transfers other than x are where they were.
Others(x) ==
  \A y \in Xfers : y # x =>
    stage'[y] = stage[y] /\ sock'[y] = sock[y] /\ emitted'[y] = emitted[y] /\ ret'[y] = ret[y]

LEMMA OneClient ==
  ASSUME ClientOK, Followed, NEW x \in Xfers, NEW c \in Client, cli' = [cli EXCEPT ![x] = c],
         genl' \in [id: Int, last: Int], Others(x),
         Asking(c, stage'[x], sock'[x], emitted'[x], ret'[x]), Progress(c)
  PROVE  ClientOK' /\ Followed'
<1>1. cli \in [Xfers -> Client] BY DEF ClientOK
<1>2. cli' \in [Xfers -> Client] BY <1>1
<1>3. ASSUME NEW y \in Xfers, y # x
      PROVE  Asking(cli'[y], stage'[y], sock'[y], emitted'[y], ret'[y]) /\ Progress(cli'[y])
  <2>1. cli'[y] = cli[y] BY <1>1, <1>3
  <2>2. /\ stage'[y] = stage[y] /\ sock'[y] = sock[y] /\ emitted'[y] = emitted[y]
        /\ ret'[y] = ret[y]
    BY <1>3 DEF Others
  <2> QED BY <2>1, <2>2 DEF Followed
<1>4. cli'[x] = c BY <1>1
<1>5. ClientOK' BY <1>2 DEF ClientOK
<1>6. Followed'
  <2> SUFFICES ASSUME NEW y \in Xfers
               PROVE  Asking(cli'[y], stage'[y], sock'[y], emitted'[y], ret'[y]) /\ Progress(cli'[y])
    BY DEF Followed
  <2> QED BY <1>3, <1>4
<1> QED BY <1>5, <1>6

\* Its transfer is not touched either.
LEMMA NoTransfer ==
  ASSUME UNCHANGED vars, NEW x \in Xfers
  PROVE  /\ Others(x) /\ stage'[x] = stage[x] /\ sock'[x] = sock[x]
         /\ emitted'[x] = emitted[x] /\ ret'[x] = ret[x]
  BY DEF vars, vmVars, msgVars, Others

-------------------------------------------------------------------------------
(***************************************************************************)
(* Start-up and exit.                                                      *)
(***************************************************************************)
LEMMA IdleIs == Idle \in Client /\ Progress(Idle) /\ \A s, e, r : Asking(Idle, "idle", s, e, r)
<1>1. Idle \in Client
  <2> DEFINE zero == 0
             one == 1
  <2>1. "none" \in States /\ "unknown" \in Families BY DEF States, Families
  <2>5. Refused \in Plans \cup {Refused} OBVIOUS
  <2>2. <<>> \in Seq(Int) /\ {} \in SUBSET Nat OBVIOUS
  <2>3. zero \in Int /\ one \in Nat /\ one \in Nat \ {0} OBVIOUS
  <2>4. Idle = [st |-> "none", plan |-> Refused, id |-> zero, i |-> one, fam |-> "unknown", next |-> one,
                err |-> zero, shown |-> <<>>, res |-> zero, good |-> {}]
    BY DEF Idle
  <2> HIDE DEF zero, one
  <2> QED BY <2>1, <2>2, <2>3, <2>4, <2>5 DEF Client
<1>2. Idle.plan.todo = <<>> /\ Len(Idle.plan.todo) = 0 BY DEF Idle, Refused, Plan
<1>3. Progress(Idle)
  <2>1. Idle.st = "none" /\ Idle.i = 1 BY DEF Idle
  <2>2. \A j \in 1..0 : FALSE OBVIOUS
  <2> QED BY <1>2, <2>1, <2>2 DEF Progress, Carried
<1>4. \A s, e, r : Asking(Idle, "idle", s, e, r) BY DEF Idle, Asking
<1> QED BY <1>1, <1>3, <1>4

\* A client that is not in a transfer changes its state; its plan, unless it starts,
\* where it is in it and what it has carried out stay.
LEMMA OutsideTransfer ==
  ASSUME NEW c \in Client, NEW d, NEW s, NEW e, NEW r, Asking(c, "idle", s, e, r),
         c.st \notin {"wait", "got"}, d.st \notin {"wait", "got"},
         d.next = c.next, d.err = c.err, d.shown = c.shown
  PROVE  Asking(d, "idle", s, e, r)
  BY DEF Asking

LEMMA StartStep ==
  ASSUME ClientOK, Followed, NEW x \in Xfers, Start(x)
  PROVE  ClientOK' /\ Followed'
<1>1. PICK p \in Plans : cli' = [cli EXCEPT ![x].st = "init", ![x].plan = p] BY DEF Start
<1> DEFINE c == cli[x]
           d == [c EXCEPT !.st = "init", !.plan = p]
<1>2. /\ c \in Client /\ Asking(c, stage[x], sock[x], emitted[x], ret[x]) /\ Progress(c)
      /\ c.st = "none"
  BY ClientIs DEF Start
<1>3. cli' = [cli EXCEPT ![x] = d] BY <1>1 DEF ClientOK
<1> HIDE DEF c
<1>4. /\ d \in Client /\ d.st = "init" /\ d.plan = p /\ d.i = c.i /\ d.next = c.next
      /\ d.err = c.err /\ d.shown = c.shown
  BY <1>2 DEF Client, States
<1> HIDE DEF d
<1>5. IsPlan(p) BY PlansAre
<1>6. Progress(d)
  <2>1. d.i = 1 BY <1>2, <1>4 DEF Progress
  <2>2. Carried(d, 1) BY DEF Carried
  <2>3. p.again => 1 <= Len(p.todo) BY <1>5 DEF IsPlan
  <2> QED BY <1>4, <2>1, <2>2, <2>3 DEF Progress
<1>7. stage[x] = "idle" BY <1>2 DEF Asking
<1>8. Asking(d, "idle", sock[x], emitted[x], ret[x]) BY <1>2, <1>4, <1>7, OutsideTransfer
<1>9. UNCHANGED vars /\ genl' \in [id: Int, last: Int] BY DEF Start, ClientOK
<1> QED BY <1>3, <1>4, <1>6, <1>7, <1>8, <1>9, NoTransfer, OneClient

\* The other steps outside a transfer keep the plan as well.
LEMMA KeepsPlan ==
  ASSUME NEW c \in Client, Progress(c), c.st # "none", NEW d,
         d.plan = c.plan, d.i = c.i, d.good = c.good,
         d.st \in {"wait", "got"} => c.i <= Len(c.plan.todo),
         d.st # "none",
         d.st # "exit" \/ d.res # 0
  PROVE  Progress(d)
<1>1. Carried(d, d.i) BY DEF Progress, Carried
<1> QED BY <1>1 DEF Progress

LEMMA ResolveStep ==
  ASSUME ClientOK, Followed, NEW x \in Xfers, Resolve(x)
  PROVE  ClientOK' /\ Followed'
<1> DEFINE c == cli[x]
           d == IF genl.id # 0 THEN [c EXCEPT !.st = "ready", !.id = genl.id]
                ELSE IF c.st = "init" THEN [c EXCEPT !.st = "probe"]
                ELSE [c EXCEPT !.st = "exit", !.res = 1]
<1>1. /\ c \in Client /\ Asking(c, stage[x], sock[x], emitted[x], ret[x]) /\ Progress(c)
      /\ c.st \in {"init", "init again"}
  BY ClientIs DEF Resolve
<1>2. cli' = [cli EXCEPT ![x] = d] BY DEF ClientOK, Resolve
<1>3. genl.id \in Int BY DEF ClientOK
<1> HIDE DEF c
<1>4. /\ d \in Client /\ d.st \in {"ready", "probe", "exit"} /\ d.plan = c.plan /\ d.i = c.i
      /\ d.good = c.good /\ d.next = c.next /\ d.err = c.err /\ d.shown = c.shown
      /\ d.st = "exit" => d.res # 0
  <2>1. "ready" \in States /\ "probe" \in States /\ "exit" \in States BY DEF States
  <2>2. CASE genl.id # 0 BY <1>1, <1>3, <2>1, <2>2 DEF Client
  <2>3. CASE genl.id = 0 /\ c.st = "init" BY <1>1, <2>1, <2>3 DEF Client
  <2>4. CASE genl.id = 0 /\ c.st # "init"
    <3> DEFINE one == 1
    <3>1. one \in Int /\ one # 0 /\ d = [c EXCEPT !.st = "exit", !.res = one] BY <2>4
    <3> HIDE DEF one, d
    <3> QED BY <1>1, <2>1, <3>1 DEF Client
  <2> QED BY <2>2, <2>3, <2>4
<1> HIDE DEF d
<1>5. Progress(d) BY <1>1, <1>4, KeepsPlan
<1>6. stage[x] = "idle" BY <1>1 DEF Asking
<1>7. Asking(d, "idle", sock[x], emitted[x], ret[x]) BY <1>1, <1>4, <1>6, OutsideTransfer
<1>8. UNCHANGED vars /\ genl' \in [id: Int, last: Int] BY DEF Resolve, ClientOK
<1> QED BY <1>2, <1>4, <1>5, <1>6, <1>7, <1>8, NoTransfer, OneClient

LEMMA LoadedType == \A g \in [id: Int, last: Int] : Loaded(g) \in [id: Int, last: Int]
  BY DEF Loaded

LEMMA ProbeStep ==
  ASSUME ClientOK, Followed, NEW x \in Xfers, Modprobe(x) \/ ProbeFails(x)
  PROVE  ClientOK' /\ Followed'
<1> DEFINE c == cli[x]
           d == IF cli' = [cli EXCEPT ![x].st = "init again"] THEN [c EXCEPT !.st = "init again"]
                ELSE [c EXCEPT !.st = "exit", !.res = 1]
<1>1. /\ c \in Client /\ Asking(c, stage[x], sock[x], emitted[x], ret[x]) /\ Progress(c)
      /\ c.st = "probe"
  BY ClientIs DEF Modprobe, ProbeFails
<1>2. cli' = [cli EXCEPT ![x] = d] BY DEF ClientOK, Modprobe, ProbeFails
<1> HIDE DEF c
<1>3. /\ d \in Client /\ d.st \in {"init again", "exit"} /\ d.plan = c.plan /\ d.i = c.i
      /\ d.good = c.good /\ d.next = c.next /\ d.err = c.err /\ d.shown = c.shown
      /\ d.st = "exit" => d.res # 0
  <2> DEFINE one == 1
  <2>1. one \in Int /\ one # 0 /\ "init again" \in States /\ "exit" \in States BY DEF States
  <2>2. d = [c EXCEPT !.st = "init again"] \/ d = [c EXCEPT !.st = "exit", !.res = one] OBVIOUS
  <2> HIDE DEF one, d
  <2>3. CASE d = [c EXCEPT !.st = "init again"] BY <1>1, <2>1, <2>3 DEF Client
  <2>4. CASE d = [c EXCEPT !.st = "exit", !.res = one] BY <1>1, <2>1, <2>4 DEF Client
  <2> QED BY <2>2, <2>3, <2>4
<1> HIDE DEF d
<1>4. Progress(d) BY <1>1, <1>3, KeepsPlan
<1>5. stage[x] = "idle" BY <1>1 DEF Asking
<1>6. Asking(d, "idle", sock[x], emitted[x], ret[x]) BY <1>1, <1>3, <1>5, OutsideTransfer
<1>7. UNCHANGED vars /\ genl' \in [id: Int, last: Int]
  BY LoadedType DEF Modprobe, ProbeFails, ClientOK
<1> QED BY <1>2, <1>3, <1>4, <1>5, <1>6, <1>7, NoTransfer, OneClient

\* The command returns to main: its plan is done, and is not one that repeats itself.
LEMMA QuitStep ==
  ASSUME ClientOK, Followed, NEW x \in Xfers, Quit(x)
  PROVE  ClientOK' /\ Followed'
<1> DEFINE c == cli[x]
           n == IF c.plan.end = "ok" THEN 0 ELSE 1
           d == [c EXCEPT !.st = "exit", !.res = n]
<1>1. /\ c \in Client /\ Asking(c, stage[x], sock[x], emitted[x], ret[x]) /\ Progress(c)
      /\ c.st = "ready" /\ c.i > Len(c.plan.todo) /\ IsPlan(c.plan)
  BY ClientIs DEF Quit
<1>2. cli' = [cli EXCEPT ![x] = d] BY DEF ClientOK, Quit
<1>3. n \in Int /\ (n = 0 => c.plan.end = "ok") OBVIOUS
<1> HIDE DEF c, n
<1>4. /\ d \in Client /\ d.st = "exit" /\ d.plan = c.plan /\ d.i = c.i /\ d.res = n
      /\ d.good = c.good /\ d.next = c.next /\ d.err = c.err /\ d.shown = c.shown
  BY <1>1, <1>3 DEF Client, States
<1> HIDE DEF d
<1>5. Progress(d)
  <2>1. Carried(d, d.i) BY <1>1, <1>4 DEF Progress, Carried
  <2>2. ~c.plan.again
    <3>1. c.i \in Int /\ Len(c.plan.todo) \in Int BY <1>1 DEF Client, IsPlan
    <3>2. c.plan.again => c.i <= Len(c.plan.todo) BY <1>1 DEF Progress
    <3> QED BY <1>1, <3>1, <3>2
  <2> QED BY <1>1, <1>3, <1>4, <2>1, <2>2 DEF Progress
<1>6. stage[x] = "idle" BY <1>1 DEF Asking
<1>7. Asking(d, "idle", sock[x], emitted[x], ret[x]) BY <1>1, <1>4, <1>6, OutsideTransfer
<1>8. UNCHANGED vars /\ genl' \in [id: Int, last: Int] BY DEF Quit, ClientOK
<1> QED BY <1>2, <1>4, <1>5, <1>6, <1>7, <1>8, NoTransfer, OneClient

LEMMA ExitStep ==
  ASSUME ClientOK, Followed, NEW x \in Xfers, Exit(x)
  PROVE  ClientOK' /\ Followed'
<1>1. Asking(cli[x], stage[x], sock[x], emitted[x], ret[x]) /\ cli[x].st = "exit"
  BY ClientIs DEF Exit
<1>2. stage[x] = "idle" BY <1>1 DEF Asking
<1>3. UNCHANGED vars /\ genl' \in [id: Int, last: Int] BY DEF Exit, ClientOK
<1>4. cli' = [cli EXCEPT ![x] = Idle] BY DEF Exit
<1>5. Others(x) /\ stage'[x] = "idle" BY <1>2, <1>3, NoTransfer
<1>6. Idle \in Client /\ Progress(Idle) /\ Asking(Idle, stage'[x], sock'[x], emitted'[x], ret'[x])
  BY <1>5, IdleIs
<1> QED BY <1>3, <1>4, <1>5, <1>6, OneClient

\* A request that is not sent.
LEMMA UnsentStep ==
  ASSUME ClientOK, Followed, NEW x \in Xfers, TooLong(x) \/ SendFails(x)
  PROVE  ClientOK' /\ Followed'
<1> DEFINE c == cli[x]
<1>1. PICK n \in {-ENOMEM, -ENOTSUP} : cli' = [cli EXCEPT ![x].st = "got", ![x].res = n]
  BY DEF TooLong, SendFails
<1> DEFINE d == [c EXCEPT !.st = "got", !.res = n]
<1>2. /\ c \in Client /\ Asking(c, stage[x], sock[x], emitted[x], ret[x]) /\ Progress(c)
      /\ c.st = "ready" /\ c.i <= Len(c.plan.todo)
  BY ClientIs DEF TooLong, SendFails, Ready
<1>3. cli' = [cli EXCEPT ![x] = d] BY <1>1 DEF ClientOK
<1>4. n \in Int /\ n # 0 BY DEF ENOMEM, ENOTSUP
<1> HIDE DEF c
<1>5. /\ d \in Client /\ d.st = "got" /\ d.plan = c.plan /\ d.i = c.i /\ d.good = c.good
      /\ d.res = n
  BY <1>2, <1>4 DEF Client, States
<1> HIDE DEF d
<1>6. Progress(d) BY <1>2, <1>5, KeepsPlan
<1>7. stage[x] = "idle" BY <1>2 DEF Asking
<1>8. Asking(d, "idle", sock[x], emitted[x], ret[x]) BY <1>4, <1>5 DEF Asking
<1>9. UNCHANGED vars /\ genl' \in [id: Int, last: Int] BY DEF TooLong, SendFails, ClientOK
<1> QED BY <1>3, <1>5, <1>6, <1>7, <1>8, <1>9, NoTransfer, OneClient

-------------------------------------------------------------------------------
(***************************************************************************)
(* The handler of a transfer.                                              *)
(***************************************************************************)

\* What the handler does by itself, it does between the request and the reply, and to
\* its own transfer.
LEMMA HandlerTouches ==
  ASSUME TypeOK, NEW x \in Xfers, Expire(x) \/ Lock(x) \/ Step(x)
  PROVE  Others(x) /\ stage[x] \notin {"idle", "done"} /\ stage'[x] # "idle"
<1>1. /\ stage \in [Xfers -> Stages] /\ sock \in [Xfers -> Seq(Datagram)]
      /\ emitted \in [Xfers -> Seq(Word)] /\ ret \in [Xfers -> Int]
  BY DEF TypeOK
<1> USE DEF Others, vmVars, msgVars, devVars, Running
<1>2. CASE Expire(x) BY <1>1, <1>2 DEF Expire
<1>3. CASE Lock(x) BY <1>1, <1>3 DEF Lock
<1>4. CASE ReadInsn(x) BY <1>1, <1>4 DEF ReadInsn
<1>5. CASE WriteInsn(x) BY <1>1, <1>5 DEF WriteInsn
<1>6. CASE BusError(x) BY <1>1, <1>6 DEF BusError, ExitWith
<1>7. CASE AluInsn(x) BY <1>1, <1>7 DEF AluInsn
<1>8. CASE JumpInsn(x) BY <1>1, <1>8 DEF JumpInsn
<1>9. CASE EmitInsn(x) BY <1>1, <1>9 DEF EmitInsn, ExitWith
<1>10. CASE Leave(x) BY <1>1, <1>10 DEF Leave, ExitWith
<1>11. CASE Unlock(x) BY <1>1, <1>11 DEF Unlock
<1>12. CASE Close(x) BY <1>1, <1>12 DEF Close
<1> QED BY <1>2, <1>3, <1>4, <1>5, <1>6, <1>7, <1>8, <1>9, <1>10, <1>11, <1>12 DEF Step

\* A client whose reply has just been completed, or is not yet, has read nothing of it.
LEMMA AskingAnew ==
  ASSUME NEW c, c.st = "wait", c.next = 1, c.err = 0, c.shown = <<>>,
         NEW st, st # "idle", NEW s, NEW e, NEW r, st = "done" => Len(s) \in Nat /\ Len(s) >= 1
  PROVE  Asking(c, st, s, e, r)
<1>1. c.st \notin {"wait", "got"} => FALSE OBVIOUS
<1>2. ASSUME st = "done"
      PROVE  /\ c.next \in 1..Len(s) /\ \A i \in 1..(c.next - 1) : FALSE
             /\ c.shown = Words(SubSeq(s, 1, c.next - 1))
  <2>1. SubSeq(s, 1, c.next - 1) = <<>>
    <3>1. SubSeq(s, 1, 0) = <<>> OBVIOUS
    <3> QED BY <3>1
  <2>2. c.shown = Words(SubSeq(s, 1, c.next - 1)) BY <2>1, WordsEmpty
  <2>3. c.next \in 1..Len(s) BY <1>2
  <2>4. \A i \in 1..(c.next - 1) : FALSE OBVIOUS
  <2> QED BY <2>2, <2>3, <2>4
<1> QED BY <1>1, <1>2 DEF Asking

LEMMA HandlerKeeps ==
  ASSUME TypeOK, Assembled, ClientOK, Followed, NEW x \in Xfers, HandlerStep(x)
  PROVE  TypeOK' /\ Assembled' /\ ClientOK' /\ Followed'
<1>1. (Expire(x) \/ Lock(x) \/ Step(x)) /\ cli' = cli /\ genl' = genl BY DEF HandlerStep
<1>2. TypeOK' BY <1>1, TypeWait, TypeVM
<1>3. Assembled' BY <1>1, AssembledStep
<1>4. Others(x) /\ stage[x] \notin {"idle", "done"} /\ stage'[x] # "idle" BY <1>1, HandlerTouches
<1> DEFINE c == cli[x]
<1>5. c \in Client /\ Asking(c, stage[x], sock[x], emitted[x], ret[x]) /\ Progress(c) BY ClientIs
<1>6. cli' = [cli EXCEPT ![x] = c] BY <1>1 DEF ClientOK
<1> HIDE DEF c
<1>7. c.st = "wait" /\ c.next = 1 /\ c.err = 0 /\ c.shown = <<>> BY <1>4, <1>5 DEF Asking
<1>8. stage'[x] = "done" => Len(sock'[x]) \in Nat /\ Len(sock'[x]) >= 1
  <2>1. Sound(stage'[x], msg'[x], sock'[x], emitted'[x], lost'[x], ret'[x]) BY <1>3 DEF Assembled
  <2>2. sock'[x] \in Seq(Datagram) BY <1>2 DEF TypeOK
  <2> QED BY <2>1, <2>2 DEF Sound, Answered
<1>9. Asking(c, stage'[x], sock'[x], emitted'[x], ret'[x]) BY <1>4, <1>7, <1>8, AskingAnew
<1>10. genl' \in [id: Int, last: Int] BY <1>1 DEF ClientOK
<1> QED BY <1>2, <1>3, <1>4, <1>5, <1>6, <1>9, <1>10, OneClient

\* Generic netlink and the handler up to the bus lock.
LEMMA SendTouches ==
  ASSUME TypeOK, Assembled, NEW x \in Xfers, NEW r, Request(r), Send(x, r)
  PROVE  TypeOK' /\ Assembled' /\ Others(x) /\ stage[x] = "idle" /\ stage'[x] # "idle"
<1>0. /\ stage \in [Xfers -> Stages] /\ sock \in [Xfers -> Seq(Datagram)]
      /\ emitted \in [Xfers -> Seq(Word)] /\ ret \in [Xfers -> Int]
  BY DEF TypeOK
<1>1. CASE Refuse(x, r) \/ OpenFails(x, r) \/ Begin(x, r)
  <2>1. TypeOK' /\ Assembled' BY <1>1, TypeEnter, AssembledEnter
  <2>2. CASE Refuse(x, r) BY <1>0, <2>1, <2>2 DEF Refuse, Others
  <2>3. CASE OpenFails(x, r) BY <1>0, <2>1, <2>3 DEF OpenFails, Others
  <2>4. CASE Begin(x, r) BY <1>0, <2>1, <2>4 DEF Begin, Others
  <2> QED BY <1>1, <2>2, <2>3, <2>4
<1>2. CASE NoFamily(x, r)
  <2> DEFINE a == -ENOENT
  <2>1. a \in Int /\ a # 0 BY DEF ENOENT
  <2>2. /\ stage[x] = "idle" /\ stage' = [stage EXCEPT ![x] = "done"]
        /\ ret' = [ret EXCEPT ![x] = a] /\ sock' = [sock EXCEPT ![x] = <<Ack(a)>>]
        /\ req' = [req EXCEPT ![x] = r] /\ UNCHANGED <<pc, regs, late, msg, emitted, lost, lock, refs>>
    BY <1>2 DEF NoFamily, devVars
  <2> HIDE DEF a
  <2>3. Assembled' BY <2>1, <2>2, AssembledAck
  <2>4. TypeOK'
    <3>1. Ack(a) \in Datagram BY <2>1, AckType
    <3>2. sock' \in [Xfers -> Seq(Datagram)] /\ ret' \in [Xfers -> Int] BY <1>0, <2>1, <2>2, <3>1
    <3>3. stage' \in [Xfers -> Stages] BY <1>0, <2>2 DEF Stages
    <3>4. req' = [y \in Xfers |-> req'[y]] /\ \A y \in Xfers : Request(req'[y]) BY <2>2, ReqType
    <3> QED BY <2>2, <3>2, <3>3, <3>4 DEF TypeOK
  <2>5. Others(x) /\ stage'[x] # "idle" BY <1>0, <2>2 DEF Others
  <2> QED BY <2>2, <2>3, <2>4, <2>5
<1> QED BY <1>1, <1>2 DEF Send

\* The request a command is at, with the bus there or gone.
LEMMA NextRequestIs ==
  ASSUME NEW c, IsPlan(c.plan), c.i \in 1..Len(c.plan.todo)
  PROVE  Request(NextRequest(c)) /\ Request([NextRequest(c) EXCEPT !.known = FALSE])
<1> DEFINE t == c.plan.todo[c.i]
           q == IF t.cb = "counter" THEN mvls_counter(t.dev, c.fam) ELSE t.prog
           yes == TRUE
           no == FALSE
           r == [attrs |-> yes, known |-> yes, aligned |-> yes, prog |-> q, cb |-> t.cb, n |-> t.n,
                 dev |-> t.dev]
           g == [attrs |-> yes, known |-> no, aligned |-> yes, prog |-> q, cb |-> t.cb, n |-> t.n,
                 dev |-> t.dev]
<1>1. IsRequest(t) BY DEF IsPlan
<1>2. NextRequest(c) = IF t.cb = "counter" THEN [t EXCEPT !.prog = q] ELSE t BY DEF NextRequest
<1>3. t = [attrs |-> yes, known |-> yes, aligned |-> yes, prog |-> t.prog, cb |-> t.cb, n |-> t.n,
           dev |-> t.dev]
  BY <1>1 DEF IsRequest
<1>4. yes \in BOOLEAN /\ no \in BOOLEAN OBVIOUS
<1>5. q \in Seq(Insn)
  <2>1. t.cb = "counter" => mvls_counter(t.dev, c.fam) \in Code(t.dev)
    BY <1>1, CounterCode DEF IsRequest, Short
  <2>2. q \in Code(t.dev) BY <1>1, <2>1 DEF IsRequest
  <2> QED BY <2>2, CodeIs
<1>6. t.cb # "counter" => q = t.prog OBVIOUS
<1> HIDE DEF t, q
<1>7. [NextRequest(c) EXCEPT !.known = FALSE] = [NextRequest(c) EXCEPT !.known = no] OBVIOUS
<1> HIDE DEF yes, no
<1>8. NextRequest(c) = r
  <2>1. CASE t.cb = "counter"
    <3>1. [t EXCEPT !.prog = q] = r BY <1>3
    <3> QED BY <1>2, <2>1, <3>1
  <2>2. CASE t.cb # "counter" BY <1>2, <1>3, <1>6, <2>2
  <2> QED BY <2>1, <2>2
<1>9. [r EXCEPT !.known = no] = g OBVIOUS
<1>10. Request(r) /\ Request(g) BY <1>4, <1>5 DEF Request
<1> QED BY <1>7, <1>8, <1>9, <1>10

LEMMA QueryKeeps ==
  ASSUME TypeOK, Assembled, ClientOK, Followed, NEW x \in Xfers, Query(x)
  PROVE  TypeOK' /\ Assembled' /\ ClientOK' /\ Followed'
<1> DEFINE c == cli[x]
<1>1. /\ c \in Client /\ IsPlan(c.plan) /\ Asking(c, stage[x], sock[x], emitted[x], ret[x])
      /\ Progress(c) /\ c.st = "ready" /\ c.i <= Len(c.plan.todo)
  BY ClientIs DEF Query, Ready
<1>2. c.i \in 1..Len(c.plan.todo)
  <2>1. c.i \in Nat \ {0} BY <1>1 DEF Client
  <2>2. Len(c.plan.todo) \in Nat BY <1>1 DEF IsPlan
  <2> DEFINE i == c.i
             n == Len(c.plan.todo)
  <2>3. i \in Nat \ {0} /\ n \in Nat /\ i <= n BY <1>1, <2>1, <2>2
  <2> HIDE DEF i, n
  <2>4. i \in 1..n BY <2>3
  <2> QED BY <2>4 DEF i, n
<1>3. \E r : Request(r) /\ Send(x, r)
  <2> DEFINE q == NextRequest(c)
             g == [q EXCEPT !.known = FALSE]
  <2>1. Request(q) /\ Request(g) BY <1>1, <1>2, NextRequestIs
  <2>2. Send(x, q) \/ Send(x, g) BY DEF Query
  <2> HIDE DEF q, g
  <2> QED BY <2>1, <2>2
<1>4. TypeOK' /\ Assembled' /\ Others(x) /\ stage[x] = "idle" /\ stage'[x] # "idle"
  BY <1>3, SendTouches
<1>5. PICK id \in {c.id, 0} : cli' = [cli EXCEPT ![x].st = "wait", ![x].id = id] BY DEF Query
<1> DEFINE d == [c EXCEPT !.st = "wait", !.id = id]
<1>6. cli' = [cli EXCEPT ![x] = d] BY <1>5 DEF ClientOK
<1>7. id \in Int BY <1>1 DEF Client
<1> HIDE DEF c
<1>8. /\ d \in Client /\ d.st = "wait" /\ d.plan = c.plan /\ d.i = c.i
      /\ d.good = c.good /\ d.next = c.next /\ d.err = c.err /\ d.shown = c.shown
  BY <1>1, <1>7 DEF Client, States
<1> HIDE DEF d
<1>9. Progress(d) BY <1>1, <1>8, KeepsPlan
<1>10. d.next = 1 /\ d.err = 0 /\ d.shown = <<>> BY <1>1, <1>8 DEF Asking
<1>11. stage'[x] = "done" => Len(sock'[x]) \in Nat /\ Len(sock'[x]) >= 1
  <2>1. Sound(stage'[x], msg'[x], sock'[x], emitted'[x], lost'[x], ret'[x]) BY <1>4 DEF Assembled
  <2>2. sock'[x] \in Seq(Datagram) BY <1>4 DEF TypeOK
  <2> QED BY <2>1, <2>2 DEF Sound, Answered
<1>12. Asking(d, stage'[x], sock'[x], emitted'[x], ret'[x]) BY <1>4, <1>8, <1>10, <1>11, AskingAnew
<1>13. genl' \in [id: Int, last: Int] BY DEF Query, ClientOK
<1> QED BY <1>4, <1>6, <1>8, <1>9, <1>12, <1>13, OneClient

-------------------------------------------------------------------------------
(***************************************************************************)
(* Receiving a reply.                                                      *)
(***************************************************************************)

\* d is c but for what a message changes.
Same(d, c) == d.plan = c.plan /\ d.i = c.i /\ d.good = c.good

\* An acknowledgement that says something went wrong ends the exchange in an error.
LEMMA AckIs ==
  ASSUME NEW c \in Client, c.err = 0, NEW m \in Datagram, m.err # 0
  PROVE  LET d == Result(AckCb([c EXCEPT !.next = @ + 1], m))
         IN  d \in Client /\ Same(d, c) /\ d.st = "got" /\ d.res = -1
<1> DEFINE k == -1
           f == [c EXCEPT !.next = @ + 1]
           d == AckCb(f, m)
<1>1. k \in Int /\ "got" \in States BY DEF States
<1>2. c.next + 1 \in Nat BY DEF Client
<1>3. /\ f \in Client /\ f.plan = c.plan /\ f.i = c.i /\ f.good = c.good /\ f.err = c.err
  BY <1>2 DEF Client
<1> HIDE DEF f
<1>4. d = [f EXCEPT !.res = k, !.st = "got"] BY DEF AckCb
<1> HIDE DEF d
<1>5. d \in Client /\ d.plan = f.plan /\ d.i = f.i /\ d.good = f.good /\ d.err = f.err /\ d.st = "got" /\ d.res = k
  <2> HIDE DEF k
  <2> QED BY <1>1, <1>3, <1>4 DEF Client
<1>6. Result(d) = d BY <1>3, <1>5 DEF Result
<1> QED BY <1>3, <1>5, <1>6 DEF Same, d, f

\* What a message of the reply does to a client with no error yet, when the callback
\* takes its data, or does not.
LEMMA XferIs ==
  ASSUME NEW f \in Client, f.err = 0, NEW m \in Datagram, NEW q
  PROVE  LET d == Result(XferCb(q, f, m))
             acc == Accepts(q, m.data)
             err == IF m.ends /\ m.err # 0 THEN m.err ELSE 0
             bad == ~m.ends \/ ~acc \/ err # 0
         IN  /\ d \in Client /\ Same(d, f) /\ d.next = f.next
             /\ d.st = IF bad \/ m.done THEN "got" ELSE "wait"
             /\ d.err = err
             /\ d.res = IF err # 0 THEN err ELSE IF bad THEN -1 ELSE 0
             /\ d.shown = IF m.ends /\ acc THEN f.shown \o m.data ELSE f.shown
<1> DEFINE acc == Accepts(q, m.data)
           err == IF m.ends /\ m.err # 0 THEN m.err ELSE 0
           bad == ~m.ends \/ ~acc \/ err # 0
           shown == IF m.ends /\ acc THEN f.shown \o m.data ELSE f.shown
           st == IF bad \/ m.done THEN "got" ELSE "wait"
           res == IF bad THEN -1 ELSE 0
           g == XferCb(q, f, m)
           d == Result(g)
<1>3. /\ m.err \in Int /\ m.data \in Seq(Int) /\ m.ends \in BOOLEAN /\ m.done \in BOOLEAN
  BY DEF Datagram
<1>4. err \in Int BY <1>3
<1>5. shown \in Seq(Int)
  <2>1. f.shown \in Seq(Int) BY DEF Client
  <2>2. f.shown \o m.data \in Seq(Int) BY <1>3, <2>1
  <2> QED BY <2>1, <2>2
<1>6. st \in States /\ res \in Int BY DEF States
<1>7. g = [f EXCEPT !.err = err, !.shown = shown, !.res = res, !.st = st]
  <2> DEFINE cb == IF m.ends THEN (IF acc THEN err ELSE 1) ELSE 1
  <2>1. cb # 0 <=> bad OBVIOUS
  <2>2. g = [f EXCEPT !.err = err, !.shown = IF m.ends /\ acc THEN f.shown \o m.data ELSE f.shown,
                      !.res = IF cb = 0 THEN 0 ELSE -1, !.st = IF cb # 0 \/ m.done THEN "got" ELSE "wait"]
    BY DEF XferCb, Callback
  <2> HIDE DEF g, cb, bad, acc, err
  <2> QED BY <2>1, <2>2
<1>8. st = "wait" => err = 0 OBVIOUS
<1> HIDE DEF g
<1>9. /\ g \in Client /\ g.plan = f.plan /\ g.i = f.i /\ g.good = f.good /\ g.next = f.next
      /\ g.err = err /\ g.shown = shown /\ g.res = res /\ g.st = st
  <2> HIDE DEF err, shown, res, st
  <2> QED BY <1>4, <1>5, <1>6, <1>7 DEF Client
<1>10. CASE err # 0
  <2>1. st = "got" BY <1>10
  <2>2. d = [g EXCEPT !.res = err] BY <1>9, <1>10, <2>1 DEF Result
  <2> HIDE DEF d
  <2>3. /\ d \in Client /\ d.plan = g.plan /\ d.i = g.i /\ d.good = g.good /\ d.next = g.next
        /\ d.err = g.err /\ d.shown = g.shown /\ d.st = g.st /\ d.res = err
    <3> HIDE DEF err
    <3> QED BY <1>4, <1>9, <2>2 DEF Client
  <2> HIDE DEF err, shown, st, bad, acc
  <2> QED BY <1>9, <1>10, <2>3 DEF Same, d, g, err, shown, st, bad, acc
<1>11. CASE err = 0
  <2>1. d = g BY <1>9, <1>11 DEF Result
  <2> HIDE DEF d
  <2> QED BY <1>9, <1>11, <2>1 DEF Same, d, g
<1> QED BY <1>10, <1>11

\* The words of one message more.
LEMMA WordsMore ==
  ASSUME NEW s \in Seq(Datagram), NEW k \in 1..Len(s)
  PROVE  Words(SubSeq(s, 1, k)) = Words(SubSeq(s, 1, k - 1)) \o s[k].data
<1> DEFINE t == SubSeq(s, 1, k - 1)
<1>1. k \in Int /\ 1 <= k /\ k <= Len(s) /\ Len(s) \in Nat OBVIOUS
<1>2. t \in Seq(Datagram) BY <1>1
<1>3. s[k] \in Datagram OBVIOUS
<1>4. SubSeq(s, 1, k) = Append(t, s[k])
  <2>1. Len(t) = k - 1 BY <1>1
  <2>2. Len(SubSeq(s, 1, k)) = k BY <1>1
  <2>3. \A i \in 1..k : SubSeq(s, 1, k)[i] = Append(t, s[k])[i] BY <1>1, <2>1
  <2>4. SubSeq(s, 1, k) \in Seq(Datagram) /\ Append(t, s[k]) \in Seq(Datagram) BY <1>1, <1>2, <1>3
  <2>5. Len(Append(t, s[k])) = k BY <1>1, <1>2, <2>1
  <2> HIDE DEF t
  <2> QED BY <2>2, <2>3, <2>4, <2>5, SeqEqual
<1> HIDE DEF t
<1> QED BY <1>2, <1>3, <1>4, WordsAppend DEF t

\* What Recv makes of a client c with s on its socket, whose request is q.
Received(q, c, s) ==
  LET m == s[c.next]
      f == [c EXCEPT !.next = @ + 1]
  IN  Result(IF m.kind = "ack" THEN AckCb(f, m) ELSE XferCb(q, f, m))

\* One round of msg_recv on a reply that is complete.  The acknowledgement is reached
\* only if no message before it ended the exchange, and then it is an error.
LEMMA RecvIs ==
  ASSUME NEW c \in Client, c.st = "wait", NEW s \in Seq(Datagram), NEW e \in Seq(Word),
         NEW l \in BOOLEAN, NEW r \in Int, Answered(s, e, l, r), Asking(c, "done", s, e, r), NEW q, NEW d,
         d = Received(q, c, s)
  PROVE  d \in Client /\ Same(d, c) /\ d.st \in {"wait", "got"} /\ Asking(d, "done", s, e, r)
<1> DEFINE k == c.next
           n == Len(s)
           m == s[k]
           z == Len(e)
<1>1. /\ c.err = 0 /\ k \in 1..n
      /\ \A i \in 1..(k - 1) : s[i].kind = "xfer" /\ ~s[i].done
      /\ c.shown = Words(SubSeq(s, 1, k - 1))
  BY DEF Asking
<1>2. /\ n >= 1 /\ s[n].kind = "ack"
      /\ s[n].err = 0 => n > 1 /\ ~l
      /\ n > 1 /\ ~l => s[n - 1].done
      /\ n > 1 /\ s[n - 1].done =>
           /\ r = 0 => e = Words(SubSeq(s, 1, n - 1)) /\ s[n - 1].err = 0
           /\ r # 0 /\ s[n - 1].ends => s[n - 1].err = r
      /\ z + 6 <= Cap /\ n > 1 /\ r # 0 => n = 2 /\ s[1].ends /\ s[1].err = r
  BY DEF Answered
<1> DEFINE Middle(i) == /\ s[i].kind = "xfer" /\ (s[i].done => i = n - 1)
                        /\ ~s[i].done => s[i].ends /\ s[i].err = 0
<1>8. \A i \in 1..(n - 1) : Middle(i) BY DEF Answered
<1>3. n \in Nat /\ m \in Datagram /\ z \in Nat /\ Cap \in Nat BY <1>1, CapAssumption
<1>4. m.ends \in BOOLEAN /\ m.done \in BOOLEAN /\ m.err \in Int BY <1>3 DEF Datagram
<1>5. Words(SubSeq(s, 1, k)) = c.shown \o m.data BY <1>1, WordsMore
<1> HIDE DEF n, z, Middle, k
<1>6. CASE m.kind = "ack"
  <2>1. k = n
    <3>1. Middle(k) => m.kind # "ack" BY DEF Middle
    <3>2. k \notin 1..(n - 1) BY <1>6, <1>8, <3>1
    <3> QED BY <1>1, <1>3, <3>2 DEF k
  <2>2. \A i \in 1..(n - 1) : ~s[i].done BY <1>1, <2>1
  <2>3. n > 1 => ~s[n - 1].done BY <1>3, <2>2
  <2>4. m.err # 0 BY <1>2, <2>1, <2>3
  <2>5. ~(z + 6 <= Cap /\ n > 1 /\ r # 0)
    <3> SUFFICES ASSUME z + 6 <= Cap, n > 1, r # 0 PROVE FALSE OBVIOUS
    <3>1. n = 2 /\ s[1].err = r BY <1>2
    <3>2. ~s[1].done BY <2>2, <3>1
    <3>4. Middle(1) BY <1>8, <3>1
    <3>3. s[1].err = 0 BY <3>2, <3>4 DEF Middle
    <3> QED BY <3>1, <3>3
  <2>6. d = Result(AckCb([c EXCEPT !.next = @ + 1], m)) BY <1>6 DEF k, Received
  <2>7. d \in Client /\ Same(d, c) /\ d.st = "got" /\ d.res = -1 BY <1>1, <1>3, <2>4, <2>6, AckIs
  <2>8. d.res # 0 BY <2>7
  <2>9. Asking(d, "done", s, e, r) BY <2>5, <2>7, <2>8 DEF Asking, n, z
  <2> QED BY <2>7, <2>9
<1>7. CASE m.kind # "ack"
  <2>1. k \in 1..(n - 1) /\ n > 1
    <3>1. k # n BY <1>2, <1>7
    <3> QED BY <1>1, <1>3, <3>1 DEF n
  <2>2. /\ m.done => k = n - 1
        /\ ~m.done => m.ends /\ m.err = 0
    <3>1. Middle(k) BY <1>8, <2>1
    <3> QED BY <3>1 DEF Middle
  <2> DEFINE acc == Accepts(q, m.data)
             err == IF m.ends /\ m.err # 0 THEN m.err ELSE 0
             bad == ~m.ends \/ ~acc \/ err # 0
             f == [c EXCEPT !.next = @ + 1]
  <2>3. d = Result(XferCb(q, f, m)) BY <1>7 DEF k, Received
  <2>8. /\ f \in Client /\ f.plan = c.plan /\ f.i = c.i /\ f.good = c.good /\ f.err = c.err
        /\ f.next = k + 1 /\ f.shown = c.shown
    <3> DEFINE j == c.next + 1
    <3>1. j \in Nat BY DEF Client
    <3>2. f = [c EXCEPT !.next = j] OBVIOUS
    <3>3. j = k + 1 BY DEF k
    <3> HIDE DEF f, j, k
    <3> QED BY <3>1, <3>2, <3>3 DEF Client
  <2> HIDE DEF f, m
  <2>9. /\ d \in Client /\ Same(d, f) /\ d.next = f.next
        /\ d.st = IF bad \/ m.done THEN "got" ELSE "wait"
        /\ d.err = err
        /\ d.res = IF err # 0 THEN err ELSE IF bad THEN -1 ELSE 0
        /\ d.shown = IF m.ends /\ acc THEN f.shown \o m.data ELSE f.shown
    BY <1>1, <1>3, <2>3, <2>8, XferIs
  <2> HIDE DEF acc, k
  <2>4. /\ d \in Client /\ Same(d, c) /\ d.next = k + 1
        /\ d.st = IF bad \/ m.done THEN "got" ELSE "wait"
        /\ d.err = err
        /\ d.res = IF err # 0 THEN err ELSE IF bad THEN -1 ELSE 0
        /\ d.shown = IF m.ends /\ acc THEN c.shown \o m.data ELSE c.shown
    BY <2>8, <2>9 DEF Same
  <2>5. CASE ~bad /\ ~m.done
    <3>1. d.st = "wait" /\ d.err = 0 /\ d.shown = Words(SubSeq(s, 1, k)) BY <1>5, <2>4, <2>5
    <3>2. d.next \in 1..n /\ d.next - 1 = k BY <1>3, <2>1, <2>4
    <3>3. \A i \in 1..k : s[i].kind = "xfer" /\ ~s[i].done
      <4>1. \A i \in 1..(k - 1) : s[i].kind = "xfer" /\ ~s[i].done BY <1>1 DEF k
      <4>3. Middle(k) BY <1>8, <2>1
      <4>2. s[k].kind = "xfer" /\ ~s[k].done BY <2>5, <4>3 DEF m, Middle
      <4> QED BY <2>1, <4>1, <4>2
    <3>4. Asking(d, "done", s, e, r) BY <3>1, <3>2, <3>3 DEF Asking, n
    <3> QED BY <2>4, <3>1, <3>4
  <2>6. CASE ~bad /\ m.done
    <3>1. d.st = "got" /\ d.res = 0 /\ d.shown = Words(SubSeq(s, 1, k)) BY <1>5, <2>4, <2>6
    <3>2. k = n - 1 /\ m.ends /\ m.err = 0 BY <1>4, <2>2, <2>6
    <3>3. s[n - 1].done /\ s[n - 1].ends /\ s[n - 1].err = 0 BY <2>6, <3>2 DEF m
    <3>4. r = 0 BY <1>2, <2>1, <3>3
    <3>5. d.shown = e BY <1>2, <2>1, <3>1, <3>2, <3>3, <3>4
    <3>6. Asking(d, "done", s, e, r) BY <3>1, <3>4, <3>5 DEF Asking
    <3> QED BY <2>4, <3>1, <3>6
  <2>7. CASE bad
    <3>1. d.st = "got" /\ d.res # 0 BY <1>4, <2>4, <2>7
    <3>2. ASSUME r # 0, z + 6 <= Cap PROVE d.res = r
      <4>1. n = 2 /\ s[1].ends /\ s[1].err = r BY <1>2, <2>1, <3>2
      <4>2. k = 1 BY <2>1, <4>1
      <4>3. m.ends /\ m.err = r BY <4>1, <4>2 DEF m
      <4> QED BY <2>4, <3>2, <4>3
    <3>3. Asking(d, "done", s, e, r) BY <3>1, <3>2 DEF Asking, z
    <3> QED BY <2>4, <3>1, <3>3
  <2> QED BY <2>5, <2>6, <2>7
<1> QED BY <1>6, <1>7

LEMMA RecvKeeps ==
  ASSUME TypeOK, Assembled, ClientOK, Followed, NEW x \in Xfers, Recv(x)
  PROVE  ClientOK' /\ Followed'
<1> DEFINE c == cli[x]
           d == Received(req[x], c, sock[x])
<1>1. /\ c \in Client /\ Asking(c, stage[x], sock[x], emitted[x], ret[x]) /\ Progress(c)
      /\ c.st = "wait" /\ stage[x] = "done"
  BY ClientIs DEF Recv
<1>2. cli' = [cli EXCEPT ![x] = d] BY DEF Recv, Received
<1>3. /\ Sound(stage[x], msg[x], sock[x], emitted[x], lost[x], ret[x])
      /\ sock[x] \in Seq(Datagram) /\ emitted[x] \in Seq(Word)
      /\ lost[x] \in BOOLEAN /\ ret[x] \in Int
  BY ReplyIs
<1>4. Answered(sock[x], emitted[x], lost[x], ret[x]) BY <1>1, <1>3 DEF Sound
<1>5. Asking(c, "done", sock[x], emitted[x], ret[x]) BY <1>1
<1> HIDE DEF c
<1>7. /\ d \in Client /\ Same(d, c) /\ d.st \in {"wait", "got"}
      /\ Asking(d, "done", sock[x], emitted[x], ret[x])
  BY <1>1, <1>3, <1>4, <1>5, RecvIs
<1> HIDE DEF d
<1>8. Progress(d)
  <2>1. c.i <= Len(c.plan.todo) BY <1>1 DEF Progress
  <2> QED BY <1>1, <1>7, <2>1, KeepsPlan DEF Same
<1>9. UNCHANGED vars /\ genl' \in [id: Int, last: Int] BY DEF Recv, ClientOK
<1> QED BY <1>1, <1>2, <1>7, <1>8, <1>9, NoTransfer, OneClient

-------------------------------------------------------------------------------
(***************************************************************************)
(* Between transfers.                                                      *)
(***************************************************************************)

\* Where the command goes on after a transfer: to the next one, which it is past a read
\* of an id or a success; to main, with an error; or to the same one again.
LEMMA ContinueIs ==
  ASSUME NEW c \in Client, IsPlan(c.plan), c.i \in 1..Len(c.plan.todo)
  PROVE  LET f == Continue(c)
             id == c.plan.todo[c.i].cb = "id"
         IN  /\ f \in Client /\ f.plan = c.plan /\ f.good = c.good
             /\ f.next = 1 /\ f.err = 0 /\ f.shown = <<>>
             /\ \/ f.st = "ready" /\ f.i = c.i + 1 /\ (id \/ (c.res = 0 /\ ~c.plan.again))
                \/ f.st = "exit" /\ f.res = 1 /\ f.i = c.i
                \/ f.st = "ready" /\ f.i = c.i /\ ~id /\ c.plan.again
<1> DEFINE one == 1
           zero == 0
           n == [c EXCEPT !.st = "ready", !.next = one, !.err = zero, !.shown = <<>>, !.res = zero]
           f == Continue(c)
           id == c.plan.todo[c.i].cb = "id"
           j == c.i + 1
           fam == get_family(IF c.res = 0 THEN c.shown[1] ELSE 0)
<1>1. Anew(c) = n BY DEF Anew
<1>2. one \in Nat \ {0} /\ one \in Int /\ zero \in Int /\ <<>> \in Seq(Int) OBVIOUS
<1>3. "ready" \in States /\ "exit" \in States BY DEF States
<1>4. j \in Nat \ {0} BY DEF Client
<1>5. fam \in Families BY DEF get_family, Families
<1> HIDE DEF one, zero, j, fam
<1>6. /\ n \in Client /\ n.plan = c.plan /\ n.good = c.good /\ n.i = c.i /\ n.st = "ready"
      /\ n.next = one /\ n.err = zero /\ n.shown = <<>>
  BY <1>2, <1>3 DEF Client
<1>7. f = IF id THEN [n EXCEPT !.i = j, !.fam = fam]
          ELSE IF c.res # 0 THEN [n EXCEPT !.st = "exit", !.res = one]
          ELSE IF c.plan.again THEN n
          ELSE [n EXCEPT !.i = j]
  <2>1. [n EXCEPT !.i = @ + 1, !.fam = fam] = [n EXCEPT !.i = j, !.fam = fam] BY <1>6 DEF j
  <2>2. [n EXCEPT !.i = @ + 1] = [n EXCEPT !.i = j] BY <1>6 DEF j
  <2> HIDE DEF n
  <2> QED BY <1>1, <2>1, <2>2 DEF Continue, fam, one
<1> HIDE DEF n, f
<1>8. CASE id
  <2>1. /\ f \in Client /\ f.plan = n.plan /\ f.good = n.good /\ f.i = j /\ f.st = n.st
        /\ f.next = n.next /\ f.err = n.err /\ f.shown = n.shown
    BY <1>4, <1>5, <1>6, <1>7, <1>8 DEF Client
  <2> QED BY <1>6, <1>8, <2>1 DEF one, zero, j, f
<1>9. CASE ~id /\ c.res # 0
  <2>1. f = [n EXCEPT !.st = "exit", !.res = one] BY <1>7, <1>9
  <2>2. /\ f \in Client /\ f.plan = n.plan /\ f.good = n.good /\ f.i = n.i /\ f.st = "exit"
        /\ f.next = n.next /\ f.err = n.err /\ f.shown = n.shown /\ f.res = one
    BY <1>2, <1>3, <1>6, <2>1 DEF Client
  <2> QED BY <1>6, <2>2 DEF one, zero, f
<1>10. CASE ~id /\ c.res = 0 /\ c.plan.again
  <2>1. f = n BY <1>7, <1>10
  <2> QED BY <1>6, <1>10, <2>1 DEF one, zero, f
<1>11. CASE ~id /\ c.res = 0 /\ ~c.plan.again
  <2>1. f = [n EXCEPT !.i = j] BY <1>7, <1>11
  <2>2. /\ f \in Client /\ f.plan = n.plan /\ f.good = n.good /\ f.i = j /\ f.st = n.st
        /\ f.next = n.next /\ f.err = n.err /\ f.shown = n.shown
    BY <1>4, <1>6, <2>1 DEF Client
  <2> QED BY <1>6, <1>11, <2>2 DEF one, zero, j, f
<1> QED BY <1>8, <1>9, <1>10, <1>11

LEMMA FinishTouches ==
  ASSUME TypeOK, NEW x \in Xfers, Finish(x) PROVE Others(x) /\ stage'[x] = "idle"
<1>1. /\ stage \in [Xfers -> Stages] /\ sock \in [Xfers -> Seq(Datagram)]
      /\ emitted \in [Xfers -> Seq(Word)] /\ ret \in [Xfers -> Int]
  BY DEF TypeOK
<1> QED BY <1>1 DEF Finish, Others

LEMMA AdvanceKeeps ==
  ASSUME TypeOK, Assembled, ClientOK, Followed, NEW x \in Xfers, Advance(x)
  PROVE  TypeOK' /\ Assembled' /\ ClientOK' /\ Followed'
<1> DEFINE c == cli[x]
           f == Continue(c)
           ok == stage[x] = "done" /\ ret[x] = 0
           more == c.good \cup (IF ok THEN {c.i} ELSE {})
           d == [f EXCEPT !.good = more]
<1>1. /\ c \in Client /\ IsPlan(c.plan) /\ Asking(c, stage[x], sock[x], emitted[x], ret[x])
      /\ Progress(c) /\ c.st = "got"
  BY ClientIs DEF Advance
<1>2. cli' = [cli EXCEPT ![x] = d] BY DEF Advance
<1>3. TypeOK' /\ Assembled' /\ Others(x) /\ stage'[x] = "idle"
  <2>1. CASE stage[x] = "done"
    <3>1. Finish(x) BY <2>1 DEF Advance
    <3> QED BY <3>1, TypeWait, AssembledFinish, FinishTouches
  <2>2. CASE stage[x] # "done"
    <3>1. UNCHANGED vars BY <2>2 DEF Advance
    <3>2. stage[x] = "idle" BY <1>1, <2>2 DEF Asking
    <3>3. TypeOK' BY <3>1 DEF TypeOK, vars, vmVars, msgVars, devVars
    <3>4. Assembled' BY <3>1 DEF Assembled, vars, vmVars, msgVars
    <3> QED BY <3>1, <3>2, <3>3, <3>4, NoTransfer
  <2> QED BY <2>1, <2>2
<1>4. c.res = 0 => ok BY <1>1 DEF Asking
<1>5. c.i \in Nat \ {0} /\ Len(c.plan.todo) \in Nat /\ c.i <= Len(c.plan.todo) /\ c.good \in SUBSET Nat
  BY <1>1 DEF Client, IsPlan, Progress
<1> HIDE DEF c, ok
<1> DEFINE id == c.plan.todo[c.i].cb = "id"
           i == c.i
           n == Len(c.plan.todo)
<1>6. /\ f \in Client /\ f.plan = c.plan /\ f.good = c.good
      /\ f.next = 1 /\ f.err = 0 /\ f.shown = <<>>
      /\ \/ f.st = "ready" /\ f.i = c.i + 1 /\ (id \/ (c.res = 0 /\ ~c.plan.again))
         \/ f.st = "exit" /\ f.res = 1 /\ f.i = c.i
         \/ f.st = "ready" /\ f.i = c.i /\ ~id /\ c.plan.again
  <2>1. i \in 1..n
    <3>1. i \in Nat \ {0} /\ n \in Nat /\ i <= n BY <1>5
    <3> HIDE DEF i, n
    <3> QED BY <3>1
  <2> QED BY <1>1, <2>1, ContinueIs
<1> HIDE DEF f
<1>7. /\ d \in Client /\ d.plan = f.plan /\ d.next = f.next /\ d.err = f.err /\ d.shown = f.shown
      /\ d.st = f.st /\ d.i = f.i /\ d.res = f.res /\ d.good = more
  <2>1. more \in SUBSET Nat BY <1>5, <1>6
  <2> HIDE DEF more
  <2> QED BY <1>6, <2>1 DEF Client
<1>8. c.good \subseteq d.good /\ (c.res = 0 => c.i \in d.good) BY <1>4, <1>6, <1>7
<1> HIDE DEF d, more
<1>9. Progress(d)
  <2>1. i \in Nat \ {0} /\ n \in Nat /\ i <= n BY <1>5
  <2>2. Carried(c, i) BY <1>1 DEF Progress
  <2>3. c.plan.again => n = 2 /\ c.plan.todo[2].cb = "counter" BY <1>1 DEF IsPlan
  <2>4. id /\ c.plan.again => i = 1
    <3>1. i = 2 => (id => c.plan.todo[2].cb = "id") OBVIOUS
    <3> HIDE DEF i, id, n
    <3> QED BY <2>1, <2>3, <3>1
  <2>5. d.plan = c.plan /\ d.st \in {"ready", "exit"} /\ (d.st = "exit" => d.res # 0) BY <1>6, <1>7
  <2>6. ASSUME d.i = i + 1, id \/ (c.res = 0 /\ ~c.plan.again)
        PROVE  Carried(d, d.i) /\ (c.plan.again => d.i <= n)
    <3>1. ASSUME NEW j \in 1..n, j < i + 1, c.plan.todo[j].cb # "id" PROVE j \in d.good
      <4>1. CASE j = i BY <1>8, <2>6, <3>1, <4>1
      <4>2. CASE j # i
        <5>1. j < i
          <6> HIDE DEF i, n
          <6> QED BY <2>1, <3>1, <4>2
        <5> QED BY <1>8, <2>2, <3>1, <5>1 DEF Carried
      <4> QED BY <4>1, <4>2
    <3>2. Carried(d, d.i) BY <2>5, <2>6, <3>1 DEF Carried
    <3>3. c.plan.again => d.i <= n
      <4> HIDE DEF i, n, id
      <4> QED BY <2>3, <2>4, <2>6
    <3> QED BY <3>2, <3>3
  <2>7. ASSUME d.i = i PROVE Carried(d, d.i) /\ d.i <= n
    BY <1>8, <2>1, <2>2, <2>5, <2>7 DEF Carried
  <2>8. \/ d.i = i + 1 /\ (id \/ (c.res = 0 /\ ~c.plan.again))
        \/ d.i = i
    BY <1>6, <1>7
  <2> HIDE DEF i, id
  <2>9. Carried(d, d.i) /\ (c.plan.again => d.i <= n) BY <2>6, <2>7, <2>8
  <2> QED BY <2>5, <2>9 DEF Progress
<1>10. Asking(d, "idle", sock'[x], emitted'[x], ret'[x]) BY <1>6, <1>7 DEF Asking
<1>11. genl' \in [id: Int, last: Int] BY DEF Advance, ClientOK
<1> QED BY <1>2, <1>3, <1>7, <1>9, <1>10, <1>11, OneClient

-------------------------------------------------------------------------------
(***************************************************************************)
(* The invariant, and what follows from it.                                *)
(***************************************************************************)
ToolInv == TypeOK /\ Assembled /\ ClientOK /\ Followed

LEMMA ToolInvInit == ToolInit => ToolInv
<1> SUFFICES ASSUME ToolInit PROVE ToolInv OBVIOUS
<1>1. TypeOK /\ Assembled BY TypeInit, AssembledInit DEF ToolInit
<1>2. ClientOK
  <2>1. cli \in [Xfers -> Client] BY IdleIs DEF ToolInit
  <2>2. genl \in [id: Int, last: Int] BY DEF ToolInit
  <2> QED BY <2>1, <2>2 DEF ClientOK
<1>3. Followed
  <2> SUFFICES ASSUME NEW x \in Xfers
               PROVE  Asking(cli[x], stage[x], sock[x], emitted[x], ret[x]) /\ Progress(cli[x])
    BY DEF Followed
  <2>1. cli[x] = Idle /\ stage[x] = "idle" BY DEF ToolInit, Init
  <2> QED BY <2>1, IdleIs
<1> QED BY <1>1, <1>2, <1>3 DEF ToolInv

LEMMA KernelStays == ASSUME TypeOK, Assembled, UNCHANGED vars PROVE TypeOK' /\ Assembled'
<1>1. TypeOK' BY DEF TypeOK, vars, vmVars, msgVars, devVars
<1>2. Assembled' BY DEF Assembled, vars, vmVars, msgVars
<1> QED BY <1>1, <1>2

LEMMA ToolInvNext == ToolInv /\ [ToolNext]_toolVars => ToolInv'
<1> SUFFICES ASSUME ToolInv, [ToolNext]_toolVars PROVE ToolInv' OBVIOUS
<1> USE DEF ToolInv
<1>1. CASE Load \/ Unload
  <2>1. UNCHANGED vars /\ cli' = cli BY <1>1 DEF Load, Unload
  <2>2. genl' \in [id: Int, last: Int] BY <1>1, LoadedType DEF Load, Unload, ClientOK
  <2>3. TypeOK' /\ Assembled' BY <2>1, KernelStays
  <2>4. ClientOK' BY <2>1, <2>2 DEF ClientOK
  <2>5. Followed' BY <2>1 DEF Followed, vars, vmVars, msgVars
  <2> QED BY <2>3, <2>4, <2>5
<1>2. CASE OtherUse /\ UNCHANGED <<cli, genl>>
  <2>1. UNCHANGED <<stage, vmVars, msgVars, lock, refs, cli, genl>> BY <1>2 DEF OtherUse
  <2>2. TypeOK' BY <2>1 DEF TypeOK, vmVars, msgVars
  <2>3. Assembled' BY <2>1 DEF Assembled, vmVars, msgVars
  <2>4. ClientOK' BY <2>1 DEF ClientOK
  <2>5. Followed' BY <2>1 DEF Followed, vmVars, msgVars
  <2> QED BY <2>2, <2>3, <2>4, <2>5
<1>3. ASSUME NEW x \in Xfers, Start(x) \/ ClientStep(x) \/ HandlerStep(x) \/ Exit(x) PROVE ToolInv'
  <2>1. CASE Start(x)
    <3>1. UNCHANGED vars BY <2>1 DEF Start
    <3> QED BY <2>1, <3>1, KernelStays, StartStep
  <2>2. CASE Resolve(x)
    <3>1. UNCHANGED vars BY <2>2 DEF Resolve
    <3> QED BY <2>2, <3>1, KernelStays, ResolveStep
  <2>3. CASE Modprobe(x) \/ ProbeFails(x)
    <3>1. UNCHANGED vars BY <2>3 DEF Modprobe, ProbeFails
    <3> QED BY <2>3, <3>1, KernelStays, ProbeStep
  <2>4. CASE Query(x) BY <2>4, QueryKeeps
  <2>5. CASE TooLong(x) \/ SendFails(x)
    <3>1. UNCHANGED vars BY <2>5 DEF TooLong, SendFails
    <3> QED BY <2>5, <3>1, KernelStays, UnsentStep
  <2>6. CASE Recv(x)
    <3>1. UNCHANGED vars BY <2>6 DEF Recv
    <3> QED BY <2>6, <3>1, KernelStays, RecvKeeps
  <2>7. CASE Advance(x) BY <2>7, AdvanceKeeps
  <2>8. CASE Quit(x)
    <3>1. UNCHANGED vars BY <2>8 DEF Quit
    <3> QED BY <2>8, <3>1, KernelStays, QuitStep
  <2>9. CASE HandlerStep(x) BY <2>9, HandlerKeeps
  <2>10. CASE Exit(x)
    <3>1. UNCHANGED vars BY <2>10 DEF Exit
    <3> QED BY <2>10, <3>1, KernelStays, ExitStep
  <2> QED BY <1>3, <2>1, <2>2, <2>3, <2>4, <2>5, <2>6, <2>7, <2>8, <2>9, <2>10 DEF ClientStep
<1>4. CASE UNCHANGED toolVars
  <2>1. UNCHANGED vars /\ cli' = cli /\ genl' = genl BY <1>4 DEF toolVars
  <2>2. TypeOK' /\ Assembled' BY <2>1, KernelStays
  <2>3. ClientOK' BY <2>1 DEF ClientOK
  <2>4. Followed' BY <2>1 DEF Followed, vars, vmVars, msgVars
  <2> QED BY <2>2, <2>3, <2>4
<1> QED BY <1>1, <1>2, <1>3, <1>4 DEF ToolNext

\* The types of the kernel's and of the clients' variables, the assembly of replies and
\* the reading of them hold of the tool and the kernel together.
LEMMA AlwaysToolInv == ToolSpec => []ToolInv
  BY ToolInvInit, ToolInvNext, PTL DEF ToolSpec

\* A client that waits on its socket has something to receive there: it never blocks
\* in msg_recv on a reply that is over (mdio_nl_close and the acknowledgement against
\* mdio_xfer_cb and mnl_cb_run), whatever was lost of the reply.
THEOREM NobodyBlocks == ToolSpec => []NeverBlocked
<1>1. ToolInv => NeverBlocked
  <2> SUFFICES ASSUME ToolInv, NEW x \in Xfers, cli[x].st = "wait", stage[x] = "done"
               PROVE  cli[x].next <= Len(sock[x])
    BY DEF NeverBlocked
  <2>1. Asking(cli[x], stage[x], sock[x], emitted[x], ret[x]) BY ClientIs DEF ToolInv
  <2>2. cli[x].next \in 1..Len(sock[x]) BY <2>1 DEF Asking
  <2>3. Len(sock[x]) \in Int
    <3>1. sock[x] \in Seq(Datagram) BY DEF ToolInv, TypeOK
    <3> QED BY <3>1
  <2> QED BY <2>2, <2>3
<1> QED BY <1>1, AlwaysToolInv, PTL

\* A transfer that reports success ran to its end in the kernel and showed exactly the
\* words its program emitted, for every size of messages and every loss.
THEOREM SuccessIsTrue == ToolSpec => []Truthful
<1>1. ToolInv => Truthful
  <2> SUFFICES ASSUME ToolInv, NEW x \in Xfers, cli[x].st = "got", cli[x].res = 0
               PROVE  ret[x] = 0 /\ cli[x].shown = emitted[x] /\ stage[x] = "done"
    BY DEF Truthful
  <2>1. Asking(cli[x], stage[x], sock[x], emitted[x], ret[x]) BY ClientIs DEF ToolInv
  <2> QED BY <2>1 DEF Asking
<1> QED BY <1>1, AlwaysToolInv, PTL

\* A program's error reaches the user, as its own code unless its message was split.
THEOREM ErrorsReported == ToolSpec => []ErrorReported
<1>1. ToolInv => ErrorReported
  <2> SUFFICES ASSUME ToolInv, NEW x \in Xfers, cli[x].st = "got", stage[x] = "done", ret[x] # 0
               PROVE  /\ cli[x].res # 0
                      /\ Len(emitted[x]) + 6 <= Cap /\ Reply(x) # <<>> => cli[x].res = ret[x]
    BY DEF ErrorReported
  <2>1. Asking(cli[x], stage[x], sock[x], emitted[x], ret[x]) BY ClientIs DEF ToolInv
  <2>2. cli[x].res # 0 BY <2>1 DEF Asking
  <2>3. Reply(x) # <<>> => Len(sock[x]) > 1
    <3>1. /\ Sound(stage[x], msg[x], sock[x], emitted[x], lost[x], ret[x])
          /\ sock[x] \in Seq(Datagram)
      BY ReplyIs DEF ToolInv
    <3>2. Answered(sock[x], emitted[x], lost[x], ret[x]) BY <3>1 DEF Sound
    <3>3. Len(sock[x]) >= 1 BY <3>2 DEF Answered
    <3>4. Len(sock[x]) \in Nat /\ Reply(x) = SubSeq(sock[x], 1, Len(sock[x]) - 1)
      BY <3>1, <3>2, ReplyAnswered
    <3>5. SubSeq(sock[x], 1, 0) = <<>> OBVIOUS
    <3> DEFINE n == Len(sock[x])
    <3>6. n \in Nat /\ n >= 1 /\ Reply(x) = SubSeq(sock[x], 1, n - 1) BY <3>3, <3>4
    <3> HIDE DEF n
    <3>7. Reply(x) # <<>> => n > 1
      <4>1. n = 1 => n - 1 = 0 OBVIOUS
      <4>2. n = 1 => Reply(x) = <<>> BY <3>5, <3>6, <4>1
      <4> QED BY <3>6, <4>2
    <3> QED BY <3>7 DEF n
  <2> QED BY <2>1, <2>2, <2>3 DEF Asking
<1> QED BY <1>1, AlwaysToolInv, PTL

\* Exit status 0 means that the command line was understood and that all it stands for,
\* but for the read of a switch's id, was carried out, whatever the command line.
THEOREM StatusTrue == ToolSpec => []StatusMeans
<1>1. ToolInv => StatusMeans
  <2> SUFFICES ASSUME ToolInv, NEW x \in Xfers, cli[x].st = "exit", cli[x].res = 0
               PROVE  /\ cli[x].plan.end = "ok" /\ ~cli[x].plan.again
                      /\ \A i \in 1..Len(cli[x].plan.todo) :
                           cli[x].plan.todo[i].cb # "id" => i \in cli[x].good
    BY DEF StatusMeans
  <2> DEFINE c == cli[x]
             n == Len(c.plan.todo)
  <2>1. c \in Client /\ IsPlan(c.plan) /\ Progress(c) BY ClientIs DEF ToolInv
  <2>2. c.plan.end = "ok" /\ ~c.plan.again /\ c.i > n /\ Carried(c, c.i) BY <2>1 DEF Progress
  <2>3. c.i \in Nat /\ n \in Nat BY <2>1 DEF Client, IsPlan
  <2> HIDE DEF c
  <2>4. \A j \in 1..n : j < c.i
    <3> HIDE DEF n
    <3> QED BY <2>2, <2>3
  <2>5. \A j \in 1..n : c.plan.todo[j].cb # "id" => j \in c.good BY <2>2, <2>4 DEF Carried
  <2> QED BY <2>2, <2>5 DEF c
<1> QED BY <1>1, AlwaysToolInv, PTL

-------------------------------------------------------------------------------
(***************************************************************************)
(* What the kernel promises, it keeps under the tool: every step of a      *)
(* client is one of the handler's, one that generic netlink answers by     *)
(* itself, or none of the kernel's.                                        *)
(***************************************************************************)
LEMMA ToolSteps == [ToolNext]_toolVars => [AnyNext]_vars \/ \E x \in Xfers : \E r : NoFamily(x, r)
<1> SUFFICES ASSUME [ToolNext]_toolVars, ~UNCHANGED vars
             PROVE  AnyNext \/ \E x \in Xfers : \E r : NoFamily(x, r)
  OBVIOUS
<1>1. CASE Load \/ Unload BY <1>1 DEF Load, Unload
<1>2. CASE OtherUse BY <1>2 DEF AnyNext
<1>3. ASSUME NEW x \in Xfers, Query(x) PROVE AnyNext \/ \E r : NoFamily(x, r)
  <2>1. PICK r : Send(x, r) BY <1>3 DEF Query
  <2>2. AnyEnter(x) \/ NoFamily(x, r) BY <2>1 DEF Send, AnyEnter
  <2> QED BY <2>2 DEF AnyNext
<1>4. ASSUME NEW x \in Xfers, HandlerStep(x) PROVE AnyNext BY <1>4 DEF HandlerStep, AnyNext
<1>5. ASSUME NEW x \in Xfers, Advance(x) PROVE AnyNext BY <1>5 DEF Advance, AnyNext
<1>6. ASSUME NEW x \in Xfers,
             Start(x) \/ Resolve(x) \/ Modprobe(x) \/ ProbeFails(x) \/ TooLong(x) \/ SendFails(x)
             \/ Recv(x) \/ Quit(x) \/ Exit(x)
      PROVE  FALSE
  BY <1>6 DEF Start, Resolve, Modprobe, ProbeFails, TooLong, SendFails, Recv, Quit, Exit
<1>7. CASE UNCHANGED toolVars BY <1>7 DEF toolVars
<1> QED BY <1>1, <1>2, <1>3, <1>4, <1>5, <1>6, <1>7 DEF ToolNext, ClientStep

\* The strengthenings of what the kernel promises, each inductive given the types.
KernelInv == LockHeld /\ Validated /\ Holding /\ Counted

LEMMA KernelInvInit == ToolInit => KernelInv
<1> SUFFICES ASSUME Init PROVE KernelInv BY DEF ToolInit
<1>1. LockHeld /\ Validated /\ Holding BY DEF Init, LockHeld, Validated, Holding
<1>2. Counted
  <2>1. Handlers = {} BY DEF Init, Handlers
  <2> QED BY <2>1, FS_EmptySet DEF Init, Counted
<1> QED BY <1>1, <1>2 DEF KernelInv

\* A request to a family that is gone is answered without a handler having run.
LEMMA NoFamilyKeeps ==
  ASSUME TypeOK, KernelInv, NEW x \in Xfers, NEW r, NoFamily(x, r)
  PROVE  KernelInv' /\ dev' = dev
<1>1. /\ stage[x] = "idle" /\ stage' = [stage EXCEPT ![x] = "done"]
      /\ req' = [req EXCEPT ![x] = r]
      /\ UNCHANGED <<msg, lost, lock, dev, refs>>
  BY DEF NoFamily, devVars
<1>2. stage \in [Xfers -> Stages] BY DEF TypeOK
<1>3. LockHeld' BY <1>1, <1>2 DEF KernelInv, LockHeld
<1>4. Validated'
  <2>1. \A y \in Xfers : stage'[y] \in {"lock", "run"} => stage[y] = stage'[y] /\ req'[y] = req[y]
    BY <1>1, <1>2 DEF TypeOK
  <2> QED BY <2>1 DEF KernelInv, Validated
<1>5. Holding' BY <1>1, <1>2 DEF KernelInv, Holding
<1>6. Counted'
  <2>1. Handlers' = Handlers \ {x} BY <1>1, HandlersStep
  <2>2. x \notin Handlers BY <1>1 DEF Handlers
  <2> QED BY <1>1, <2>1, <2>2 DEF KernelInv, Counted
<1> QED BY <1>1, <1>3, <1>4, <1>5, <1>6 DEF KernelInv

LEMMA AlwaysKernelInv == ToolSpec => []KernelInv
<1>1. ToolInv /\ KernelInv /\ [ToolNext]_toolVars => KernelInv'
  <2> SUFFICES ASSUME ToolInv, KernelInv, [ToolNext]_toolVars PROVE KernelInv' OBVIOUS
  <2>1. TypeOK BY DEF ToolInv
  <2>2. CASE [AnyNext]_vars
    BY <2>1, <2>2, LockKept, ValidatedKept, HoldingKept, CountedKept DEF KernelInv
  <2>3. CASE \E x \in Xfers : \E r : NoFamily(x, r) BY <2>1, <2>3, NoFamilyKeeps
  <2> QED BY <2>2, <2>3, ToolSteps
<1> QED BY <1>1, KernelInvInit, AlwaysToolInv, PTL DEF ToolSpec

\* Whatever is typed, by any number of clients at once, the VM is handed nothing it
\* does not know, ...
THEOREM ToolNoBug == ToolSpec => []NoBug
<1>1. ToolInv /\ KernelInv => NoBug BY ValidatedRuns DEF ToolInv, KernelInv
<1> QED BY <1>1, AlwaysToolInv, AlwaysKernelInv, PTL

\* ... the bus belongs to one transfer, ...
THEOREM ToolLocking == ToolSpec => []LockHeld
<1>1. KernelInv => LockHeld BY DEF KernelInv
<1> QED BY <1>1, AlwaysKernelInv, PTL

\* ... which alone changes what is on it, ...
THEOREM ToolIsolation == ToolSpec => Isolated
<1>1. ToolInv /\ KernelInv /\ [ToolNext]_toolVars => [OwnStep]_vars
  <2> SUFFICES ASSUME ToolInv, KernelInv, [ToolNext]_toolVars PROVE [OwnStep]_vars OBVIOUS
  <2>1. TypeOK /\ LockHeld BY DEF ToolInv, KernelInv
  <2>2. CASE [AnyNext]_vars BY <2>1, <2>2, OwnSteps
  <2>3. ASSUME NEW x \in Xfers, NEW r, NoFamily(x, r) PROVE OwnStep
    BY <2>1, <2>3, NoFamilyKeeps DEF OwnStep
  <2> QED BY <2>2, <2>3, ToolSteps
<1> QED BY <1>1, AlwaysToolInv, AlwaysKernelInv, PTL DEF ToolSpec, Isolated, OwnStep

\* ... no message is used that was given away, ...
THEOREM ToolOwnership == ToolSpec => []OwnsMessage
<1>1. KernelInv => OwnsMessage BY DEF KernelInv, Holding, OwnsMessage
<1> QED BY <1>1, AlwaysKernelInv, PTL

\* ... every reference on the bus is put, with modules coming and going, ...
THEOREM ToolReferences == ToolSpec => []RefsBalance
<1>1. KernelInv => RefsBalance BY DEF KernelInv, Counted, RefsBalance, Handlers
<1> QED BY <1>1, AlwaysKernelInv, PTL

\* ... and what a client finds on its socket is what its program emitted.
THEOREM ToolDelivery == ToolSpec => []DataIsEmitted
<1>1. ToolInv => DataIsEmitted BY AssembledDelivers DEF ToolInv
<1> QED BY <1>1, AlwaysToolInv, PTL
===============================================================================
