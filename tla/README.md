# mdio-tools in TLA+

A TLA+ model of [mdio-tools](../src/README.md): the kernel module `mdio-netlink`,
the `mdio` tool that sends it programs, and the `mvls` tool that shows the tables
of Marvell LinkStreet switches. Small instances are model-checked with TLC;
theorems about both tools and the kernel module are proved with TLAPS for every value of their
constants. Paths below are those of the repository.

## 1. The system

| Component | State | Operations | Talks to |
|---|---|---|---|
| byte code and its validator (`kernel/mdio-netlink.c` 188-278, `include/linux/mdio-netlink.h`, macros of `src/mdio/mdio.h`) | none | encode an instruction, `validate_insn`, `validate_prog` | used by the next two |
| request handler, VM and reply (`kernel/mdio-netlink.c`) | per request: the program, pc, eight `u16` registers, deadline, message under construction; per bus: `mdio_lock`, a device reference | `mdio_nl_cmd_xfer`, `mdio_nl_eval`, `mdio_nl_open`, `_emit`, `_flush`, `_close` | devices on the bus; the client's socket; other users of the bus through `mdio_lock` |
| drivers of `mdio` (`phy.c`, `paged-phy.c`, `mvls.c`, `xrs.c`) | none: they write programs | read and write of a register for `phy`, `mmd`, `mmd-c22`, `mva`, `mscc`, `mvls`, `xrs` | devices, by way of the VM |
| arguments and start-up of `mdio` (`main.c`, `mdio.c`, the drivers' `exec` and parsers) | `mdio_family`, kept for all requests | `main`, `mdio_init`, `mdio_modprobe`, parsers of buses, devices, registers, ranges and values | drivers, commands; the controller of generic netlink |
| commands of `mdio` (`mdio.c`, `bus.c`, the drivers) | what a callback is told to expect | raw, bench, dump, status, lag, counter, atu | drivers, netlink client |
| netlink client of `mdio` (`mdio.c`) | the socket of a query, `mdio_xfer_data.err` | `mdio_xfer_timeout`, `msg_query`, `msg_send`, `msg_recv`, `mdio_xfer_cb` | the handler: a request, and messages back |
| `mvls` environment (`mvls.c`, `devlink.c`) | `env->devs`, each with index, ports and loaded regions; in the kernel, region snapshots | `env_init`, `devlink_port_region_get`, the tables' loading | the kernel's devlink, shared with other `mvls` processes |
| `mvls` decoders and views (`mvls.c`, `mvls-show.c`, `mvls-json.c`) | none | `__dev_vtu_parse`, `__dev_stu_parse`, `dev_atu_parse`, `opal_port_fid` and `_lag`, the PVT matrix, text and JSON tables | the environment |
| printing of register bits, `compat.h`, vendored headers | none | | |

What is hard in this code, and tests would hardly reach:

* **Interleaving.** A program of several bus cycles is atomic only because the
  whole of `mdio_nl_eval` holds `mdio_lock`, against other transfers and the
  kernel's own drivers. Two `mvls` processes share snapshot id 0xffffffff.
* **Message boundaries.** A reply is split wherever a message is full: in an
  `EMIT`, before the `ERROR` attribute, before `NLMSG_DONE`. Each split may fail
  half way, with the old message gone and no new one open.
* **Deadlines.** The deadline runs from before the wait for the lock and may pass
  between any two instructions, also between selecting a page and restoring it.
* **Agreement of two tables.** `mdio_nl_op_protos` and the operand accessors must
  agree, or an accepted program ends in a `BUG()`.
* **Agreement of two ends.** Each callback knows the number of words its program
  emits, which may depend on loops encoded as relative jumps.
* **Interrupted processes.** An `mvls` that is killed leaves a snapshot behind.
* **Commands of several transfers.** A dump of several ranges and the counters of a
  switch are more than one request. Between two of them the module may go, or come
  back under another family id, and what the first one found decides the second.
* **Limits in two places.** The parsers bound devices, registers and ranges; the
  encodings, the loops over a range, the buffer of a request and the callbacks rely
  on those bounds.

`PROJECT.json` lists the hazards one by one with the line each bites at and the
properties that are there to catch it; where none is, it says why.

What makes each component correct: the validator lets nothing through the VM
cannot run; the VM holds the lock exactly while it runs and is the only one to
change the bus then; references balance, every handler returns, and the reply
is what was emitted with one `NLMSG_DONE` at its end; a driver's program is one
atomic register operation; a command that reports success has shown the complete
output and an error surfaces as one, up to the exit status; a command line means the
transfers the manual says, and whatever is typed, what is sent fits its buffer and
the bus; what `mvls` shows of a region is of one
moment, nothing is left out silently, and no snapshot stays behind.

## 2. The modules

```
MdioInsn ── MdioNl ──┬── MdioNlProof                          proofs
   │                 ├── MCKernel                             kernel module alone
   │                 ├── MdioTool ──┐
   │                 │      │       ├── MCTool                tool + kernel + device
   └── MdioDrivers ──┼── MdioArgs ──┼── MdioLines ──┬── MCLines ── MCPure   command lines
           │         │              │               └── MdioLinesProof      proofs
           └── MdioDevices ─────────┘
                 │   │
                 └───┴── MdioOps ──┬── MCDrivers              programs + kernel + device,
                            │      └── MdioOpsProof           proofs
                            └─ AtomicOps                        implements
MvlsTables ──┬── MvlsViews ──┬── MCViews ── MCPure            tables and views of mvls
             │               └── MvlsViewsProof               proofs
             └── MvlsEnv ── MCMvls                            mvls processes
```

| Module | What it models |
|---|---|
| `MdioInsn` | Instructions and their 18-bit arguments, `REG`, `IMM`, `GOTO`, the 16-bit ALU, `op_protos`, `validate_insn`, `validate_prog`. Arguments are kept as numbers, as in C, so that encoding one twice is possible. |
| `MdioNl` | `mdio_nl_cmd_xfer` from the policy check to the acknowledgement. |
| `MdioNlProof` | Theorems about `MdioNl`: the handler and the VM, and the reply. |
| `MdioDrivers` | The instructions that every driver and command pushes. |
| `MdioDevices` | *External.* PHY, MMD, paged PHY, switch (direct and indirect) and XRS, inferred from how the drivers use them. |
| `AtomicOps` | The abstract specification: a register operation takes place at one instant, or fails and has happened completely or not at all. |
| `MdioOps` | Register operations: the drivers' programs, in the VM, on the devices, and the mapping to `AtomicOps`. |
| `MdioArgs` | What a command line asks for: `main`, the drivers' and commands' `exec` functions and all their parsers, as operators from lexed arguments to a plan of requests. |
| `MdioLines` | Command lines one at a time, and what the requests made of each are to be. |
| `MdioTool` | A run of the tool: start-up, the transfers of its plan, the receive loop, the callbacks, the exit status. |
| `MvlsTables` | Decoders, views and `env_init_dev_sort`, as operators. |
| `MvlsViews` | What a switch holds (*external*: how it lays out VLANs, ports, addresses and PVTs in its regions), and what the views are to say of it. |
| `MvlsEnv` | `mvls` processes: discovery, snapshots, table loading. |
| `MdioOpsProof` | Theorems about `MdioOps`, on top of the VM's. |
| `MdioArgsProof`, `MdioLinesProof`, `MdioToolProof`, `MvlsEnvProof`, `MvlsViewsProof` | Theorems about `MdioArgs`; about `MdioLines`; about `MdioTool`, on top of the reply's and the arguments'; about `MvlsEnv`; about `MvlsTables`, by way of `MvlsViews`. |
| `SetInduction` | Induction over the natural numbers for a property given as a set. |
| `MC*` | Small instances; inputs; properties that need both ends in view. |

### MdioNl

A transfer `x` goes through `stage[x]`:

```
idle ─Begin→ lock ─Lock→ run ─(instructions)→ exit ─Unlock→ close ─Close→ done ─Finish→ idle
  └─Refuse, OpenFails→ done                                       └──────→ fault
```

| Action | Code |
|---|---|
| `Refuse` | the attribute policy with its validator, the checks at the head of `mdio_nl_cmd_xfer`, `mdio_find_bus` failing |
| `OpenFails` | `mdio_nl_open` fails; the bus is put again |
| `Begin` | the handler up to `mutex_lock`: reference taken, message opened, registers cleared, deadline set |
| `Lock`, `Unlock` | `mutex_lock`, `mutex_unlock` |
| `ReadInsn`, `WriteInsn`, `AluInsn`, `JumpInsn`, `EmitInsn` | one iteration of the loop each |
| `BusError` | a bus cycle that returns an error |
| `Leave` | the loop ends: end of program, deadline, unknown operation |
| `Expire` | time passes the deadline, at any moment |
| `Close` | `mdio_nl_close(xfer, true, ret)`, `put_device`, netlink's acknowledgement |
| `Finish` | the client closes its socket |
| `OtherUse` | another bus user, under the lock |

The reply's operators (`unicast`, `mdio_nl_open`, `mdio_nl_flush`, `mdio_nl_emit`,
`mdio_nl_close`) return the *set* of outcomes, so that failing allocations and
deliveries are branches at the point in the code where they happen. A message is
measured in 32-bit words: one per datum, two for `ERROR`, four for `NLMSG_DONE`.
`nest_end` computes the length of `DATA` as `nla_nest_end` does, from what the
message holds at that moment, and `ends` says whether `genlmsg_end` was called on
it. A message given away is `Sent`; touching it, or `NULL`, makes it `Misused`, and
the handler stops in `fault`, since what the kernel does then is undefined.

Variables that are not in the code are marked *history* where they are declared:
`emitted`, `lost`, `dev0` (in `MdioNl`), `orphans` and `start` (in `MvlsEnv`).

### MdioDrivers, MdioDevices, MdioOps, AtomicOps

A driver function becomes an operator that returns the instructions it pushes.
Jumps are relative, so fragments concatenate. `MdioOps` runs them in `MdioNl`
on the devices of `MdioDevices`, whose `busy` bits may stay set for any number of
polls and whose page and address registers other users move between transfers.
The refinement mapping takes the registers a user can name, as they were when the
lock was last free (`View(dev0)`), to `cells`; handlers at or before `Unlock` to a
pending operation, later ones to its result.

### MdioArgs

An argument is the sequence of its lexemes (`5-7` is a number, a `-`, a number),
because that is how `strtoull` and `strtok` take it apart; the two are external and
keep what matters of them: no number reads as 0, a negative one wraps, a too
large one saturates with `errno`, and empty tokens are skipped. Each parser has the
code's name and its order of checks. A command becomes a `Plan`: `todo`, the requests
it sends one after the other as long as they succeed; `end`, how it ends if they all
do (`"error"` for a line that is refused after some of its ranges have been dumped,
`"endless"` for the one loop that does not end); `again`, for `counter repeat`.

### MdioTool

A client goes through `cli[x].st`:

```
none ─Start→ init ─Resolve→ ready ─Query→ wait ─Recv→ got ─Advance→ ready ... ─Quit→ exit ─Exit→ none
               └→ probe ─Modprobe→ init again       ready ─TooLong, SendFails→ got
```

`Resolve` is `mdio_init`; `Query` is `mdio_xfer_timeout` up to the send, which runs the
handler, with the family id of the start; `Recv` one round of `msg_recv`; `Advance`
closes the socket and does what the command does with the result (`Continue`), which
for the counters of a switch is to choose the program of the second request. `Load`
and `Unload` are other users of `modprobe`: each load registers the family under a new
id (`genl`), unloading waits for handlers, and a request to an id that is gone is
refused by generic netlink (`NoFamily`, external). `XferCb` hands each message by
itself to the command's callback, as the code does, and `Result` is
`return xfer.err ? : err`. A request longer than the buffer it is built in runs over
what the linker has put behind it; the model lets that be `mdio_family` or nothing.

### MvlsEnv, MvlsTables

A process works through a list of `jobs`, each loading one region for one table,
in the order the code loads them. `RegionNew`, `RegionRead` (one chunk) and `RegionDel`
are the queries of `devlink_port_region_get`, `NewFails`, `ReadFails` and `DelFails` the ways
they fail: a `REGION_NEW` whose snapshot was made or not, a read half way, a `REGION_DEL`
whose result nobody looks at. A snapshot that a failed query or an interruption leaves
behind is an orphan (`orphans`). `After` is what the
caller does with the result; `Prints` is the printer, which with `-j` has no function for
the PVT, so that such a command has nothing to load; `DiscoveryFails` is `devlink_open` or a query of `env_init`
failing. Register contents are a version number `hw` that
moves on while the switches run. That the kernel refuses a snapshot id in use is
taken from how the code handles an error of `REGION_NEW` (external).

The decoders of `MvlsTables` have the code's names; a view is the fields its rows show
(`env_show_ports`, `env_json_ports`, `env_show_atu`, `dev_show_pvt`, `env_show_vtu`...), without
their layout.

## 3. The runs

All finish in under three minutes on two cores.

| Run | States | What it shows |
|---|---|---|
| `kernel_all` | 9 732 | Every program of up to two instructions from a pool of thirteen good and malformed ones, programs of 0 to 14 `EMIT`s around two message boundaries, malformed requests; bus, allocation and delivery faults anywhere. `NoBug`, `RefsBalance`, `OwnsMessage`, `DataIsEmitted`, `OneDone`, `TypeOK`. |
| `kernel_busy` | 10 080 | Two transfers (a read-modify-write, a poll that may never end) and another bus user. `LockHeld`, `Isolated`, `Completes`. |
| `kernel_data` | *violation* | finding 1 |
| `drivers_ops` | 1 291 988 | Every raw read, write and masked write of every driver implements `AtomicOps` (`Atomic`) and leaves the page as it was (`PageRestored`). |
| `drivers_xrs` | *violation* | finding 2 |
| `tool_short` | 235 709 | The tool from start to exit, with short messages, so that replies take one to three of them, while the module, the bus, sockets and the device fail. `Truthful`, `NeverBlocked`, `ErrorReported`, `SuccessReported`, `StatusMeans`, `Returns`, `Ends`. |
| `tool_long` | 393 897 | The long programs (bus, MMD, lag, counter, atu, dumps at the limit of a request) at the real message size, on switches of three families: `SuccessReported`, `LayoutRight`; and `NeverMore`, no program, one that ends with an error included, emits more than its command asks for. |
| `tool_c22` | *violation* | finding 3 |
| `mvls_env` | 3 339 197 | Two `mvls` processes, with and without `-j`, started, killed and restarted, with any of their queries failing. `Coherent`, `NoLeak`, `OnlyOwnDeleted`, `Complete`. |
| `mvls_sort` | *violation* | finding 4 |
| `pure` | 35 826 | The parts that compute and keep nothing, one input per state. The decoders and views of `mvls` against entries and registers laid out as the switches do it: `VlansShown`, `PvtShown`, `AddressesShown`, `PortsShown`. What `mdio` makes of a command line: `LineMeans`, the command lines of the manual are carried out as it says; `CyclesExist`, `DumpsCounted`, `RequestsFit`, whatever is typed, what is sent is valid, has bus cycles that exist, emits what its callback counts on and fits its buffer, with the exceptions each one names; `DumpsWhole`, no range of a dump is passed over in silence. |
| `views_json` | *violation* | finding 5 |

Each property of a passing run has a mutant in `PROJECT.json`, a plausible bug of
the code (a dropped guard, a missing reset, a wrong order) under which it fails.

### Bounds, and why they are enough

* `Cap = 6`, the words a message holds. 6 is the least for which `ERROR` and
  `NLMSG_DONE` fit an empty message together, which every real size satisfies
  (assumption `CapAssumption`); every relation of free space to what is to be put
  occurs within 14 `EMIT`s. `tool_short` uses 10 so that small commands fit and
  larger ones do not; `tool_long` and `tool_c22` 938, the size with 4 kB pages.
* `RcvBuf = 2` (kernel), `4` (tool): the third and fifth message are dropped.
* `PcSpan = 131072` stands for 2^32: TLC has no larger integers. Any span above
  twice the reach of a jump behaves alike, as programs are far shorter; the
  proofs only assume `PcSpan >= 65536`.
* `MaxLen = 2` instructions in pool programs: the pool holds each operation with
  each kind of fault, and one instruction in front of it sets its register.
* `ParallelOps`: `FALSE` is the code, whose family serialises its handlers.
  `kernel_busy` sets it `TRUE`: then only `mdio_lock` keeps transfers apart, which is
  what the properties are about, and the behaviours of the code are among those
  checked.
* `BenchReads = 2` for 1000: the loop is entered again once.
* `Values = {0, 3}` with data 1 (`MaskedValues`) and mask 2 (`Masks`): every bit
  combination of a masked write. `SomeRegisters`: two registers of each kind of device,
  the same on two pages or in two address halves where it has them; the proofs allow any.
* Command lines: `tool_short` has every kind of short command, dumps of 1 to 13 words
  (`MaxDump`; a message holds ten), backwards and of two and three ranges, one of them
  out of range; `tool_long` one of each long command. `pure` has about 2 700 lines as the
  manual describes them (every driver, its registers at the ends of their range,
  every command) and 25 000 others (out of range, empty, negative, with a missing or
  an additional part).
* `SomeViews`: VLANs with one port that differs from the others, in each place of a word
  and in each state, and two VLANs; all relations of three ports on two devices, each
  with three sets for a LAG; every state of an address, at ports or at a LAG; rows of chips
  with few ports, whose absent columns are blank; ports with each group of fields
  over all its values, the bits between them clear and set. The proofs have all of them.
* `UINT32_MAX = 2^25 - 1`, `ULLONG_MAX = 2^28 - 1` for 2^32 - 1 and 2^64 - 1: TLC's integers
  have 32 bits. `WidthAssumption` states what the parsers need: a page and a register
  fit the first, which is less than the second.
* `MaxLoads = 2`: the module is loaded, unloaded and loaded again under a client.
* `FreshDevice` (constraint of `tool_long`): commands start on a device in its initial
  state, as the long programs otherwise multiply with what earlier ones left.
* `MaxVersion = 1`, `MaxOrphans = 1`: two contents are enough to tell a mixed region,
  one orphan enough to meet one. Commands: two tables, `pvt`, `pvt 1` and `pvt 1` with `-j`. `Pair` has two switches in reverse order, a
  foreign device, one without and one with an unknown `asic.id`, two switches of the same
  index, as two trees may have them; `Three` all orders
  of three. Symmetry over `Procs` is sound: no liveness property is checked there.
* `Chunks`: a long region arrives in two messages, a short one in one.

### Fairness

`WF(Step)`: a handler in the kernel keeps running. `WF(Expire)`: time passes.
`SF(Lock)`: the kernel's mutex hands over to a waiter, so one that finds it free
again and again gets it. `SF(ClientStep)`: the client is not stopped, and gets its turn
at the lock under which generic netlink runs handlers, which others may hold each
time it asks. `Returns` and `Ends` rest on these. Nothing is assumed
of other bus users, of clients sending requests or of devices: a switch may stay
busy for ever, and then the deadline ends the program.

Deadlock is checked in every run.

## 4. The proofs

All theorems hold for every value of the constants that their assumptions allow. None is
about a bound of a run: message sizes, numbers of transfers, clients and processes,
programs, command lines, devices and the choice of faults are arbitrary.

### The handler and the VM (`MdioNlProof`)

| Theorem | Statement | Argument |
|---|---|---|
| `TypeCorrect` | `Spec => []TypeOK` | `TypeOK` is inductive. The weight is in lemmas about the operators: `AluWord` (the bitwise operators by way of four groups of four bits, `FourBits`), `OperandWords`, `GotoType`, and one per function of the reply (`FlushType`, `EmitType`, `CloseType`...). |
| `Locking` | `Spec => []LockHeld` | inductive, given types (`LockKept`) |
| `Isolation` | `Spec => Isolated` | from `LockHeld`: the one transfer in the VM is the one whose instruction ran, and its pc moves, `PcSpan` being at least two |
| `NoBugEver` | `Spec => []NoBug` | `NoBug` says nothing of how a program got into the VM. `Validated` does: a program between `Begin` and the end of the VM was accepted. `ProtosMatch` then compares the prototypes with the accessors, operation by operation. |
| `Ownership` | `Spec => []OwnsMessage` | `OwnsMessage` is about the stage `fault` only. `Holding` says what a handler has in each stage before: an open message in the VM, and after it an open one or a recorded loss. |
| `References` | `Spec => []RefsBalance` | `Counted` adds that the set of handlers under way is finite, which it is whether `Xfers` is or not; then each action adds to it, or takes from it, the one transfer that steps. |

### The reply (`MdioNlProof`)

| Theorem | Statement |
|---|---|
| `Delivery` | `Spec => []DataIsEmitted` |
| `OneConclusion` | `Spec => []OneDone` |

`DataIsEmitted` does not say of a message under construction how much of it is in use,
nor that what is left of it when it is flushed is what was put there, and `OneDone`
speaks of finished transfers only; neither is inductive. `Assembled` is: `Sound` describes
a transfer's reply in every stage of its handler. While the handler runs (`UnderWay`), all
messages delivered are closed and say neither `ERROR` nor `NLMSG_DONE`, and, unless
something was lost, a message is open whose words continue theirs to what was emitted;
something is flushed only after `Cap` words. After it (`Answered`), the acknowledgement is
the last message, `NLMSG_DONE` is in the one in front of it or nowhere, an
acknowledgement of 0 means that nothing was lost, and an error is in the message with
`NLMSG_DONE` wherever that message ends with its attributes. The last part is not needed
for the two theorems: the client relies on it.

`Words`, the concatenation of the messages' data, is a recursive function. `WordsExist`
to `WordsAppend` derive from `SetInduction` that it is well defined and what one more
message adds to it.

### Register operations (`MdioOpsProof`)

| Theorem | Statement |
|---|---|
| `OpInvariant` | `Bus => (Spec => []OpInv)` |
| `Atomicity` | `Bus => (Spec => Atomic)`: the refinement of `AtomicOps` |
| `PageRestoring` | `Bus => (Spec => []PageRestored)` |

`Bus` says what the constants of `MdioNl` stand for here: on the bus is a device of
`MdioDevices`, and what clients send are the operations of `MdioOps`, without the masked
writes of an xrs (finding 2). Registers, data, masks, transfers and what other users do
between transfers are arbitrary; `Faults` too, so that a program may be cut short by a bus
error or the deadline at any instruction.

Neither property is inductive: both speak of the end of a program. `OpInv` has an
assertion for every position of every program (`At`, made of `ReadAt` and `WriteAt`, which
follow the driver, `Selected` describing its indirection): which page or address is
selected, what the VM's registers hold, whether the register has been written. `Does`
is one instruction as a relation between configurations. The argument goes

1. instruction by instruction and driver by driver, from each assertion to that of
   the next position (`DirectReads` to `XrsWrites`; the polls of a switch by `Polls`, a
   loop whose assertion a jump backwards comes back to), on the device the handle
   is for and on any other, which does not answer (`Silent`);
2. through the programs, which are concatenations of drivers' reads and writes with the
   mask and the data between them (`OpSteps`, `Concats`);
3. to the VM, whose steps are `Does` (`VmSteps`), with the lock keeping the device
   as the transfer left it (`OtherXfers`, from `LockHeld`);
4. and to `AtomicOps`: `Unlock` is `Perform` or `Abort`, `Enter` is `Submit` or `Reject`,
   `Finish` is `Return`, another user is `Interfere`, all else stutters (`Maps`).

That a program cut short has written its register or left it alone, never anything
between (`OpView`), is what `Abort` needs. An unmasked write is the case of mask 0
(`NoMask`), which takes the bitwise operators apart by digits.

### Command lines and programs (`MdioArgsProof`, `MdioLinesProof`)

| Theorem | Statement |
|---|---|
| `PlanOfLine` | every command line, any sequence of arguments of any lexemes, becomes a plan: a finite list of requests with their programs, and one of the ends the tool knows |
| `ProgramsAccepted` | every program of every plan consists of instructions, and `validate_prog` accepts it; that of `counter` for every family |
| `CyclesAlwaysExist` | `LineSpec => []CyclesExist` |
| `DumpsAlwaysCounted` | `LineSpec => []DumpsCounted` |
| `RequestsAlwaysFit` | `LineSpec => []RequestsFit` |

The first two are statements about constants: one lemma per parser, per driver's read
and write and per command. An encoded operand is an operand whatever is encoded
(`OperandIs`), an instruction with operands of the right kinds is accepted (`InsnIs`), and
code closed under concatenation is made of accepted instructions (`Code`). The programs
of dumps, the bus and the counters come from a loop over a range of registers or ports
(`ForEach`); what it joins is what its rounds are made of, however many there are
(`LoopIs`).

The other three say what the limits of the parsers are for, of all lines that can be typed
(`Inputs` is any set of them). None can be read off a plan: a request has a program, and
what was typed is gone. The invariant is `Planned`, `plan` being a plan in the sense
of `PlanOfLine`, each of whose requests is `IsRequest`: it knows its device, and its
program is made of instructions that are good for that device. Three facts make it go through:

* *Which cycles.* `RegsOf(dev)` is what a device's parser lets pass for a register, and
  `Good(dev)` holds the instructions whose cycles exist on that device. Every read and
  write of every driver, given a register of `RegsOf(dev)`, is made of them; so `Code(dev)`
  is closed under all that commands do, and the exceptions of `CyclesExist` are exactly
  the devices whose parser checks less than their encoding needs.
* *How many.* The length of a driver's read or write does not depend on the register. A
  command without a range has then a program of a fixed length, and one over a bounded
  range, of registers or ports, at most as many times that as the range is long. `Short` is what comes of
  this: under 500 instructions, which with headers and the longest bus name is less
  than the buffer. `Wide` dumps, of drivers whose registers are not so bounded, are the
  exception that `RequestsFit` names.
* *How many words.* The reads of drivers that can dump, and the selection and restoring of
  a page, have no `EMIT` (`ReadQuiet`, `PageQuiet`); a round of a dump's loop is a read and an
  `EMIT`, so a loop of rounds of one length has an `EMIT` at each multiple of that length and
  nowhere else (`LoopEmits`, a bijection), and the page around it adds none (`EmitsWithin`).
  The number is that of `DumpWords`, also where a range runs backwards and where the first
  register has the page in it (`First`).

### The tool (`MdioToolProof`)

| Theorem | Statement |
|---|---|
| `NobodyBlocks` | `ToolSpec => []NeverBlocked` |
| `SuccessIsTrue` | `ToolSpec => []Truthful` |
| `ErrorsReported` | `ToolSpec => []ErrorReported` |
| `StatusTrue` | `ToolSpec => []StatusMeans` |
| `ToolNoBug`, `ToolLocking`, `ToolIsolation`, `ToolOwnership`, `ToolReferences`, `ToolDelivery` | `ToolSpec` implies `[]NoBug`, `[]LockHeld`, `Isolated`, `[]OwnsMessage`, `[]RefsBalance`, `[]DataIsEmitted` |

One invariant, `ToolInv`, carries the first four. It has the kernel's `TypeOK` and `Assembled`,
which hold in the composition too as every step of a client is a step of the handler or
none; the type of a client, whose plan is a plan by `PlanOfLine`; and `Followed`:

* `Asking` ties a client to its transfer. One that waits on a finished handler has not
  come to the end of its socket, has read only messages without `NLMSG_DONE`, and has
  shown the words of exactly those. One that has its answer and takes it for a success
  has shown all that was emitted, by a program that ran to its end.
* `Progress` ties it to its plan: every transfer before the one it is at was carried
  out, but for reads of ids, and one that ended with status 0 is past the last.

`NeverBlocked` needs the first: that the next message is there says nothing of the one
after it. The proof that `Recv` keeps `Asking` is where the two halves of the protocol meet:
`Answered` says what may be in the message received, `XferCb` and `AckCb` what is made of it.

The others carry the kernel's theorems over to the composition. Its clients send requests
of their own, so it is no instance of `Spec`; but what keeps the kernel's invariants never
looks at where a request comes from, and the lemmas that say so (`LockKept`, `ValidatedKept`,
`HoldingKept`, `CountedKept`, `OwnSteps`) are about `AnyNext`, the kernel with any request at
all. `ToolSteps` shows that a step of tool and kernel is one of `AnyNext`, none of the kernel's
variables, or `NoFamily`, where netlink answers in the kernel's place; `KernelInv` is kept by
each. `OneDone` is the one property of the kernel alone that does not carry over as
it stands: a request to a family that is gone has an acknowledgement and nothing else.

### mvls (`MvlsEnvProof`)

| Theorem | Statement |
|---|---|
| `CoherentRegions` | `EnvSpec => []Coherent` |
| `SnapshotsDeleted` | `EnvSpec => []NoLeak` |
| `SnapshotsOwned` | `EnvSpec => OnlyOwnDeleted` |
| `NothingLeftOut` | `EnvSpec => []Complete` |

`Coherent` is about what has been shown, `NoLeak` about snapshots and their takers. What
joins them is ownership (`EnvInv`): a process between `REGION_NEW` and `REGION_DEL` took
the snapshot of the region it is at, after it was started, and has read nothing but that;
snapshots left behind, by a process or by a query that failed, are still there and nobody's. `OneProc` then shows that a step of one
process that leaves the others' snapshots alone keeps all this.

`Complete` is about a process at its end, and compares what it has shown with the switches
as devlink described them at its start. In between lie two folds over messages, a sort and
two nested loops that build one list of jobs, and the proof goes through each of them:

1. discovery: after `n` messages of the first query the list has the switches known among
   them (`FoundTo`, `DevCb`), after `n` of the second each of them has the ports
   named so far (`PortsTo`, `PortCb`); `DumpIs` says that the dump names every port;
2. `dev_init` and the sort: a device gets the index of the switch of its name (`InitIs`),
   and a step of the sort moves one device and loses none (`Moved`, `SortIs`), whether the
   order it ends in is right or not (finding 4);
3. the loops: the jobs of a command are those of every table of every switch selected
   (`DevJobsIs`, `SelectedIs`, `TableIs`, `CommandIs`);
4. the life of a process: `CourseInv` says that it has warned of a table, or has still to read
   the index of some devices (`Starting`), or that what the command is to show is among its
   jobs or in its output (`Showing`). Every step of every process keeps this, failures
   of queries and snapshots included (`ReturnCourse`).

`FlattenSeq`, `FoldLeft` and the walk of the sort are recursive functions: `FlatExist`, `FoldExist`
and `WalkExist` derive from `SetInduction` that they are well defined. Of `Selected` the
theorem says what `env_dev_get` does: with two switches of one index, `pvt DEV` shows
the first, and `Asked` counts neither as asked for.

### Tables and views of mvls (`MvlsViewsProof`)

| Theorem | Statement |
|---|---|
| `VlansRight` | `ViewSpec => []VlansShown` |
| `PvtRight` | `ViewSpec => []PvtShown` |
| `PortsRight` | `ViewSpec => []PortsShown` |
| `AddressesRight` | `ViewSpec => []AddressesShown` |

`Views` is any set of what switches may hold (`ViewsAssumption`): tables of any length, every
value of every field and of the bits between fields, any number of devices and ports.
`ViewSpec` looks at one after another; the weight is in the decoders. A word is taken apart
by lemmas about `bits`, one per layout (`Register0` to `Register8`, `AtuData`, `Word` of
eight fields of two bits, `Vec` of eleven of one): each field is what is left of a
quotient, the part below being less than the divisor. `VtuEnd`, `StuEnd` and `AtuEnd` say where a table ends.
For the PVT, `OnePlace` is the point: devices have different indices and none is 31, so the
place of a port is no other port's and no LAG's; `CellShown` and `DeviceShown` then follow
the matrix and the list of a device.

### Assumptions

`CapAssumption`, `RcvBufAssumption`, `PcSpanAssumption`, `FlagsAssumption`,
`RequestsAssumption` of `MdioNl`; `WidthAssumption` of `MdioArgs`; `InputsAssumption` of `MdioLines` (a command line is a
sequence of arguments, whatever they are); `BenchAssumption` of
`MdioDrivers` (a number of reads); `RegistersAssumption` and `ValuesAssumption` of `MdioOps`
(data are words; registers are numbers the drivers take, without the page register,
which is an operation of its own, and without the switch's self-clearing ones); `LinesAssumption` of `MdioTool` (a command line is a
sequence of arguments, an argument one of lexemes); `ViewsAssumption` of `MvlsViews` (fields
have their widths, devices indices of their own below 31); `SystemsAssumption` and
`CommandsAssumption` of `MvlsEnv` (devlink's names are unique, a device's index is the
five bits that `dev_init` reads, in any order and not unique; the tables are those of `main`,
and `-j` is given or not).
TLC evaluates them in the runs of these modules. But for `MdioOpsProof`, nothing is assumed of devices: a read that returns
something other than a 16-bit word has no `ReadInsn` step, as `mdiobus` read results are
either errors or 16 bits.

The inductive invariants `Assembled`, `ToolInv`, `EnvInv` and `CourseInv` were checked by TLC
on the instances of `kernel_all`, `tool_short` and `mvls_env` as well.

### Only model-checked

* Liveness (`Completes`, `Returns`, `Ends`): it rests on fairness and `ENABLED`. `Ends` is about
  runs that are not told to repeat and whose plan has an end: the dump up to register 2^32 - 1,
  which is among the lines of `tool_short`, has none.
* `SuccessReported`, `NeverMore`, `LayoutRight`: they are about the words that the programs of whole
  commands emit, dumps and loops included, on devices that answer.
* `LineMeans`, which compares what the parsers make of a line with an enumeration of the
  manual's lines, each with its meaning beside it.
* `DumpsWhole`: it finds the command by name among the arguments, and so is about lines
  in which nothing else is called `dump`, as those of the run are; a theorem would have to
  restate `main` to say which.

## 5. Findings

1. `kernel_data`: if `ERROR` fits a message and `NLMSG_DONE` behind it does not,
   `mdio_nl_close` flushes once more; the flush ends the `DATA` nest a second time, which
   then swallows the `ERROR` attribute. The client sees two words nobody emitted and no
   error code (`kernel/mdio-netlink.c:355`; `man/mdio-netlink.9:29`).
2. `drivers_xrs`: `xrs_write` wraps its operand in `IMM()` although it is encoded
   already; a masked write stores 0 whatever the register held (`src/mdio/xrs.c:34`;
   `src/mdio/main.c:67`).
3. `tool_c22`: status of an `mmd-c22` device runs the Clause 45 program
   (`src/mdio/phy.c:165`; `ChangeLog.md:49`).
4. `mvls_sort`: the "bubblesort" of devices makes one walk; indices 1, 2, 0 end as
   1, 0, 2 (`src/mvls/mvls.c:463`).
5. `views_json`: port lists are not emptied between VTU or STU entries, so a port is
   listed with states it had in earlier ones (`src/mvls/mvls-json.c:182`;
   `man/mvls.8:26`).

One more disagreement is part of the model and has no run of its own: the JSON printer has no
function for the PVT (`src/mvls/mvls-json.c:342`) and `main` does not look at the `ENOENT` this
leads to, so that `mvls -j pvt` prints an empty object, without a warning and with exit status
0, where the usage says "Use JSON for all output" (`src/mvls/mvls.c:534`). `Complete` and
`NothingLeftOut` are about the tables that the printer has (`Prints`).

Met on the way, without a document that says otherwise: the JSON view of the ports
prints `allow-untagged` and `allow-tagged` exactly when the filters are set, where the text
view has them the other way round (`src/mvls/mvls-json.c:81`, `src/mvls/mvls-show.c:148`); a
program that just passes the one check of its size overruns the buffer with its
headers (`src/mdio/mdio.c:623`); a dump that ends at register 2^32 - 1
never ends (`src/mdio/mdio.c:534`); `mva`, `mscc`, `mvls` and `xrs` accept Clause 45 addresses
their programs cannot use; an unknown option of `atu flush` is reported and the
program sent nevertheless, with an operation that is no flush (`src/mdio/mvls.c:424`); a
switch whose id cannot be read is taken for one of the older layout. `PortsShown`,
`RequestsFit`, `DumpsWhole`, `Ends`, `CyclesExist`, `LayoutRight` and `StatusMeans` name these as their exceptions.

The properties of passing runs are worded around two consequences of finding 1's
code: `SuccessReported` leaves out replies that fill a message to the last four
words (their last message lacks `genlmsg_end`, and the client reports a failure),
and `ErrorReported` promises the program's own error code only where the reply was
not split; some error is reported in any case.

## 6. What is not modelled

* `print-phy.c` and all other wording and layout of output: one `printf` per bit of a
  status register, without state or order.
* The C library (`getopt`, `strtoull`, `strtok`, `glob`) beyond how it is used, and `fork`,
  `exec` and `waitpid` beyond their result.
* `compat.h` and the vendored headers (`queue.h`, `bitfield.h`, `devlink.h`).
* Sequence numbers of `devlink` queries, and messages a query that was given up leaves
  in the socket. The callback of a region's dump gives up only when `realloc` fails or
  the kernel leaves out an attribute; every other query that fails ends the process, has
  been read to its end, or has lost its answer for good.
* The deadline's value (any moment is allowed), and the byte layout of requests beyond their
  length.
* Removal of a bus while a transfer is under way: the reference the handler holds is
  modelled, its effect on the device core is external. A bus that is gone when a
  request arrives, and a module that goes between requests, are modelled.
* That a table region ends with an entry that is not valid is assumed. The loops over the
  entries look for nothing else; what lies behind a region without one is the heap's.
* Requests whose `BUS_ID` or `PROG` is longer than the policy allows, which netlink refuses
  before the handler runs. The client sends none: its own check has the same 4096 bytes for a
  program, and its bus names are those of sysfs.

## 7. Plan

Done, in this order: `MdioInsn` and `MdioNl` with `MCKernel`; the first theorems;
`MdioDrivers`, `MdioDevices` and the refinement of `AtomicOps`; `MdioTool`;
`MvlsTables` and `MvlsEnv`; arguments (`MdioArgs`), start-up and commands of several
transfers in `MdioTool`; the port, ATU and PVT views.

What is left of the model needs a document to hold it against (a second `mvls`
instance, the filters of the JSON view) or is listed above as not modelled.
