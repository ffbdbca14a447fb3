------------------------------- MODULE MdioTool -------------------------------
(***************************************************************************)
(* The mdio tool as a client of the kernel module, from its start to its   *)
(* exit.  It resolves the netlink family, loading the module if need be    *)
(* (mdio_init, mdio_modprobe); parses its command line into a plan of      *)
(* transfers (main, of MdioArgs); and makes them one after the other.  A   *)
(* transfer is a request (mdio_xfer_timeout) sent over a socket of its own *)
(* (msg_query), the messages of whose reply are handed one by one to the   *)
(* command's callback (msg_recv, mdio_xfer_cb) until one ends the exchange.*)
(***************************************************************************)
EXTENDS MdioNl, MdioArgs

CONSTANTS
  Lines,    \* the command lines there are
  MaxLoads  \* bound: times the module is loaded

\* A command line is a sequence of arguments; what is in them is up to the user.
ASSUME LinesAssumption == Lines \subseteq Seq(Seq(Lexeme))

VARIABLES
  cli,      \* each client: where it is, and what it has of the reply
  genl      \* the kernel's registration of the family: its id, 0 for none, and the
            \*   last id given out

toolVars == <<vars, cli, genl>>

ENOENT == 2
ENOTSUP == 95

Plans == {main(l) : l \in Lines}

\* plan: what its command line asks for; id: mdio_family; i: the transfer it is at; fam:
\* the switch family found; next: the next message of sock to be received; err:
\* mdio_xfer_data.err; shown: what the callback printed; res: the result of mdio_xfer,
\* in the end the exit status; good: history, the transfers the kernel carried out.
Idle == [st |-> "none", plan |-> Refused, id |-> 0, i |-> 1, fam |-> "unknown", next |-> 1, err |-> 0,
         shown |-> <<>>, res |-> 0, good |-> {}]

\* The module is loaded, or it is not.
ToolInit ==
  /\ Init
  /\ cli = [x \in Xfers |-> Idle]
  /\ genl \in {[id |-> 1, last |-> 1], [id |-> 0, last |-> 0]}

-------------------------------------------------------------------------------
(* Start-up.                                                               *)

\* A load gives the family a new id.
Loaded(g) == IF g.id # 0 THEN g ELSE [id |-> g.last + 1, last |-> g.last + 1]

Start(x) ==
  /\ cli[x].st = "none"
  /\ \E p \in Plans : cli' = [cli EXCEPT ![x].st = "init", ![x].plan = p]
  /\ UNCHANGED <<vars, genl>>

\* mdio_init, whose exchange with the controller of generic netlink is one of its own:
\* the id is kept for all the requests to come.
Resolve(x) ==
  /\ cli[x].st \in {"init", "init again"}
  /\ cli' = [cli EXCEPT ![x] =
               IF genl.id # 0 THEN [@ EXCEPT !.st = "ready", !.id = genl.id]
               ELSE IF @.st = "init" THEN [@ EXCEPT !.st = "probe"]
               ELSE [@ EXCEPT !.st = "exit", !.res = 1]]
  /\ UNCHANGED <<vars, genl>>

\* mdio_modprobe: the child loads the module, or finds it loaded.
Modprobe(x) ==
  /\ cli[x].st = "probe"
  /\ genl' = Loaded(genl)
  /\ cli' = [cli EXCEPT ![x].st = "init again"]
  /\ UNCHANGED vars

ProbeFails(x) ==
  /\ cli[x].st = "probe" /\ "probe" \in Faults
  /\ cli' = [cli EXCEPT ![x].st = "exit", ![x].res = 1]
  /\ UNCHANGED <<vars, genl>>

\* Others load and unload the module; unloading it waits for handlers.
Load ==
  /\ genl.last < MaxLoads /\ genl.id = 0
  /\ genl' = Loaded(genl)
  /\ UNCHANGED <<vars, cli>>

Unload ==
  /\ genl.last < MaxLoads /\ genl.id # 0
  /\ \A x \in Xfers : ~InHandler(x)
  /\ genl' = [genl EXCEPT !.id = 0]
  /\ UNCHANGED <<vars, cli>>

-------------------------------------------------------------------------------
(* A transfer.                                                             *)

\* The request the command is at; that of counter is for the family found.
NextRequest(c) ==
  LET r == c.plan.todo[c.i]
  IN  IF r.cb = "counter" THEN [r EXCEPT !.prog = mvls_counter(r.dev, c.fam)] ELSE r

Ready(x) == cli[x].st = "ready" /\ cli[x].i <= Len(cli[x].plan.todo)

\* A request to a family that is not there (any more) is refused by generic netlink.
NoFamily(x, r) ==
  /\ stage[x] = "idle"
  /\ stage' = [stage EXCEPT ![x] = "done"]
  /\ req' = [req EXCEPT ![x] = r]
  /\ ret' = [ret EXCEPT ![x] = -ENOENT]
  /\ sock' = [sock EXCEPT ![x] = <<Ack(-ENOENT)>>]
  /\ UNCHANGED <<pc, regs, late, msg, emitted, lost, devVars, refs>>

\* mdio_xfer_timeout up to mnl_socket_sendto, which runs the kernel's handler.  The bus
\* may have gone since it was looked up.  A request that does not fit the buffer runs
\* over what is behind it, which may be mdio_family.
Send(x, r) ==
  IF cli[x].id = genl.id THEN Refuse(x, r) \/ OpenFails(x, r) \/ Begin(x, r) ELSE NoFamily(x, r)

Query(x) ==
  /\ Ready(x)
  /\ \E r \in {NextRequest(cli[x])} :
       /\ ProgBytes(r.prog) <= BUF_SIZE
       /\ Send(x, r) \/ ("bus" \in Faults /\ \E gone \in {[r EXCEPT !.known = FALSE]} : Send(x, gone))
       /\ \E id \in {cli[x].id} \cup (IF RequestBytes(r.prog) > BUF_SIZE THEN {0} ELSE {}) :
            cli' = [cli EXCEPT ![x].st = "wait", ![x].id = id]
  /\ UNCHANGED genl

\* The program is longer than a request's buffer: nothing is sent.
TooLong(x) ==
  /\ Ready(x)
  /\ ProgBytes(NextRequest(cli[x]).prog) > BUF_SIZE
  /\ cli' = [cli EXCEPT ![x].st = "got", ![x].res = -ENOMEM]
  /\ UNCHANGED <<vars, genl>>

\* msg_send cannot open, bind or use its socket.
SendFails(x) ==
  /\ Ready(x) /\ "socket" \in Faults
  /\ cli' = [cli EXCEPT ![x].st = "got", ![x].res = -ENOTSUP]
  /\ UNCHANGED <<vars, genl>>

-------------------------------------------------------------------------------
(* The commands' callbacks: which DATA they accept.  An MMD or a PHY whose *)
(* two identifier words are all ones (or, for an MMD, zero) is not there.  *)

Absent(data, w) == data[3] = w /\ data[4] = w

raw_read_cb(data)  == Len(data) = 1
raw_write_cb(data) == Len(data) = 0
bench_cb(data)     == Len(data) = 0
dump_cb(data, n)   == Len(data) = n
phy_status_cb(data) == Len(data) = 5 /\ ~Absent(data, 65535)
mva_status_cb(data) == Len(data) = 5 /\ ~Absent(data, 65535)
mmd_status_cb(data) == Len(data) = 16 /\ ~Absent(data, 65535) /\ ~Absent(data, 0)
bus_status_cb(data) == Len(data) = 32 * 3
mvls_id_cb(data)    == Len(data) = 1
mvls_lag_cb(data)   == Len(data) = 16 + 8
mvls_counter_cb(data) == Len(data) = 11 * 6 * 2
mvls_atu_cb(data)   == Len(data) = 0

Accepts(r, data) ==
  CASE r.cb = "raw_read"   -> raw_read_cb(data)
    [] r.cb = "raw_write"  -> raw_write_cb(data)
    [] r.cb = "bench"      -> bench_cb(data)
    [] r.cb = "dump"       -> dump_cb(data, r.n)
    [] r.cb = "phy_status" -> phy_status_cb(data)
    [] r.cb = "mva_status" -> mva_status_cb(data)
    [] r.cb = "mmd_status" -> mmd_status_cb(data)
    [] r.cb = "bus_status" -> bus_status_cb(data)
    [] r.cb = "id"         -> mvls_id_cb(data)
    [] r.cb = "lag"        -> mvls_lag_cb(data)
    [] r.cb = "counter"    -> mvls_counter_cb(data)
    [] r.cb = "atu"        -> mvls_atu_cb(data)

\* Mutant of Callback: the number of words is not looked at.
BadCallback(r, data, err) == err

Callback(r, data, err) == IF Accepts(r, data) THEN err ELSE 1

\* mdio_xfer_cb: a message without DATA is an error, and so is one whose length
\* does not cover its attributes, because none are found in it.
XferCb(r, c, m) ==
  LET err == IF m.ends /\ m.err # 0 THEN m.err ELSE c.err
      cb  == IF m.ends THEN Callback(r, m.data, err) ELSE 1
  IN  [c EXCEPT !.err = err,
                !.shown = IF m.ends /\ Accepts(r, m.data) THEN @ \o m.data ELSE @,
                !.res = IF cb = 0 THEN 0 ELSE -1,
                !.st = IF cb # 0 \/ m.done THEN "got" ELSE "wait"]

\* Mutant of AckCb: an acknowledgement is skipped.
BadAckCb(c, m) == c

\* mnl_cb_run on the acknowledgement: it ends the exchange either way.
AckCb(c, m) == [c EXCEPT !.res = IF m.err = 0 THEN 0 ELSE -1, !.st = "got"]

\* Mutant of Result: the callback's verdict hides the error the kernel reported.
BadResult(c) == c

\* return xfer.err ? : err
Result(c) == IF c.st = "got" /\ c.err # 0 THEN [c EXCEPT !.res = c.err] ELSE c

\* One round of msg_recv.  The handler has run inside sendto, so the reply is there.
Recv(x) ==
  /\ cli[x].st = "wait" /\ stage[x] = "done"
  /\ cli[x].next <= Len(sock[x])
  /\ LET m == sock[x][cli[x].next]
         c == [cli[x] EXCEPT !.next = @ + 1]
     IN  cli' = [cli EXCEPT ![x] =
                   Result(IF m.kind = "ack" THEN AckCb(c, m) ELSE XferCb(req[x], c, m))]
  /\ UNCHANGED <<vars, genl>>

-------------------------------------------------------------------------------
(* The command between and after its transfers.                            *)

Anew(c) == [c EXCEPT !.st = "ready", !.next = 1, !.err = 0, !.shown = <<>>, !.res = 0]

\* Mutant of Continue: an error ends the command only in its last transfer.
BadContinue(c) ==
  LET p == c.plan
      r == p.todo[c.i]
      n == Anew(c)
  IN  IF r.cb = "id" THEN [n EXCEPT !.i = @ + 1, !.fam = get_family(IF c.res = 0 THEN c.shown[1] ELSE 0)]
      ELSE IF c.res # 0 /\ c.i = Len(p.todo) THEN [n EXCEPT !.st = "exit", !.res = 1]
      ELSE IF p.again THEN n
      ELSE [n EXCEPT !.i = @ + 1]

\* Mutant of Continue: a transfer that failed is tried again.
BadRetry(c) ==
  LET n == Anew(c)
  IN  IF c.res # 0 \/ c.plan.again THEN n ELSE [n EXCEPT !.i = @ + 1]

\* Mutant of Continue: the counters are read for the layout the switch is assumed to have.
BadFamily(c) ==
  LET p == c.plan
      r == p.todo[c.i]
      n == Anew(c)
  IN  IF r.cb = "id" THEN [n EXCEPT !.i = @ + 1]
      ELSE IF c.res # 0 THEN [n EXCEPT !.st = "exit", !.res = 1]
      ELSE IF p.again THEN n
      ELSE [n EXCEPT !.i = @ + 1]

\* mvls_get_family takes a switch it cannot read for one of an unknown family; all other
\* errors end the command.
Continue(c) ==
  LET p == c.plan
      r == p.todo[c.i]
      n == Anew(c)
  IN  IF r.cb = "id" THEN [n EXCEPT !.i = @ + 1, !.fam = get_family(IF c.res = 0 THEN c.shown[1] ELSE 0)]
      ELSE IF c.res # 0 THEN [n EXCEPT !.st = "exit", !.res = 1]
      ELSE IF p.again THEN n
      ELSE [n EXCEPT !.i = @ + 1]

\* mnl_socket_close, which drops what has not been read of the reply, and on with it.
Advance(x) ==
  /\ cli[x].st = "got"
  /\ IF stage[x] = "done" THEN Finish(x) ELSE UNCHANGED vars
  /\ LET c == cli[x]
         ran == IF stage[x] = "done" /\ ret[x] = 0 THEN {c.i} ELSE {}
     IN  cli' = [cli EXCEPT ![x] = [Continue(c) EXCEPT !.good = c.good \cup ran]]
  /\ UNCHANGED genl

\* The command returns to main when its plan is done, unless it is in an endless loop.
Quit(x) ==
  LET p == cli[x].plan IN
  /\ cli[x].st = "ready" /\ cli[x].i > Len(p.todo)
  /\ p.end # "endless"
  /\ cli' = [cli EXCEPT ![x].st = "exit", ![x].res = IF p.end = "ok" THEN 0 ELSE 1]
  /\ UNCHANGED <<vars, genl>>

Exit(x) ==
  /\ cli[x].st = "exit"
  /\ cli' = [cli EXCEPT ![x] = Idle]
  /\ UNCHANGED <<vars, genl>>

ClientStep(x) ==
  \/ Resolve(x) \/ Modprobe(x) \/ ProbeFails(x)
  \/ Query(x) \/ TooLong(x) \/ SendFails(x) \/ Recv(x) \/ Advance(x) \/ Quit(x)

HandlerStep(x) == (Expire(x) \/ Lock(x) \/ Step(x)) /\ UNCHANGED <<cli, genl>>

ToolNext ==
  \/ Load \/ Unload
  \/ OtherUse /\ UNCHANGED <<cli, genl>>
  \/ \E x \in Xfers : Start(x) \/ ClientStep(x) \/ HandlerStep(x) \/ Exit(x)

ToolSpec == ToolInit /\ [][ToolNext]_toolVars

\* The kernel's fairness, and a client that is not stopped and gets its turn at the
\* lock under which generic netlink runs handlers.
ToolFairness ==
  \A x \in Xfers :
    /\ WF_toolVars(Step(x) /\ UNCHANGED <<cli, genl>>)
    /\ WF_toolVars(Expire(x) /\ UNCHANGED <<cli, genl>>)
    /\ SF_toolVars(Lock(x) /\ UNCHANGED <<cli, genl>>)
    /\ SF_toolVars(ClientStep(x))

FairToolSpec == ToolSpec /\ ToolFairness

-------------------------------------------------------------------------------
\* A transfer that reports success ran to its end in the kernel, and what it showed
\* is exactly what its program emitted, however the reply was split into messages
\* (mdio_xfer_timeout's result against mdio_nl_eval's).
Truthful ==
  \A x \in Xfers :
    cli[x].st = "got" /\ cli[x].res = 0 =>
      ret[x] = 0 /\ cli[x].shown = emitted[x] /\ stage[x] = "done"

\* The client is never left waiting on a socket nothing more will arrive on.
NeverBlocked ==
  \A x \in Xfers : cli[x].st = "wait" /\ stage[x] = "done" => cli[x].next <= Len(sock[x])

\* An error of the program reaches the user as its own code, unless its message was
\* split (xfer.err is set before the callback is asked).
ErrorReported ==
  \A x \in Xfers :
    cli[x].st = "got" /\ stage[x] = "done" /\ ret[x] # 0
      => cli[x].res # 0 /\ (Len(emitted[x]) + 6 <= Cap /\ Reply(x) # <<>> => cli[x].res = ret[x])

\* The tool exits with status 0 only if its command line was understood and every
\* transfer it stands for was carried out, however many there are and wherever the
\* module, the bus or the device failed; the read of a switch's id is the exception
\* (mdio_common_dump_exec, mvls_counter_exec, main).
StatusMeans ==
  \A x \in Xfers :
    LET p == cli[x].plan IN
    cli[x].st = "exit" /\ cli[x].res = 0 =>
      /\ p.end = "ok" /\ ~p.again
      /\ \A i \in 1..Len(p.todo) : p.todo[i].cb # "id" => i \in cli[x].good

\* Every transfer comes back to its command, in a command that repeats itself too.
Returns == \A x \in Xfers : cli[x].st = "wait" ~> cli[x].st = "got"

\* Every run of the tool ends, whether the module is there or not, and is unloaded or
\* loaded again under it (main, mdio_init), unless it is told to repeat its command or
\* its command is a dump up to the last of 2^32 registers, whose loop has no end
\* (mdio_common_dump_exec_one).
Ends ==
  \A x \in Xfers :
    LET p == cli[x].plan
    IN  cli[x].st = "init" /\ ~p.again /\ p.end # "endless" ~> cli[x].st = "exit"
===============================================================================
