------------------------------- MODULE MvlsEnv --------------------------------
(***************************************************************************)
(* The mvls tool, src/mvls: discovery of the switches and their ports over *)
(* devlink (env_init), and the loading of register regions that its tables *)
(* need (devlink_port_region_get).                                         *)
(*                                                                         *)
(* Several mvls processes may run at once.  They share the kernel's        *)
(* snapshots: a region is read by taking a snapshot of it under the fixed  *)
(* id 0xffffffff, reading that chunk by chunk, and deleting it.  Register  *)
(* contents are abstracted to a version number hw that moves on while the  *)
(* switches run.                                                           *)
(***************************************************************************)
EXTENDS MvlsTables

CONSTANTS
  Procs,        \* mvls processes
  Systems,      \* the switches there may be, in the order devlink dumps them
  Commands,     \* command lines: the tables, the DEV of pvt DEV, and whether -j is given
  MaxVersion,   \* bound on changes of the registers
  MaxOrphans,   \* bound on snapshots left behind
  Faults        \* what may go wrong: "query", "new", "read", "del", "kill"

VARIABLES
  sys,          \* the system's switches
  hw,           \* version of the registers' contents
  snaps,        \* snapshots with id 0xffffffff: region -> [ver, by]
  orphans,      \* history: regions whose snapshot was left behind, by a killed process or
                \* by one whose NEW or DEL failed
  proc          \* each process

envVars == <<sys, hw, snaps, orphans, proc>>

\* What devlink tells of a device, and what its registers do; devices have different
\* names.  asic: is there an asic.id, and is it in chips.
Switches == [dev : STRING, mv88e6 : BOOLEAN, asic : {"none", "unknown", "known"},
             index : 0..31, ports : Seq(Nat)]
IsSystem(s) ==
  s \in Seq(Switches) /\ \A i, j \in 1..Len(s) : s[i].dev = s[j].dev => i = j

\* pvt, and pvt DEV.
Tables == {"vtu", "stu", "atu", "ports", "pvt", "pvtdev"}

ASSUME SystemsAssumption == \A s \in Systems : IsSystem(s)
ASSUME CommandsAssumption == \A c \in Commands : c.tabs \in Seq(Tables) /\ c.json \in BOOLEAN

Region(d, name, port) == [dev |-> d, name |-> name, port |-> port]

\* A job loads one region for a table: "init" is env_init's own use.
Job(tab, d, name, port) == [tab |-> tab, rgn |-> Region(d, name, port)]

\* Messages a region's dump arrives in.
Chunks(name) == IF name \in {"global1", "port"} THEN 1 ELSE 2

\* st: where the process is; devs: env->devs; jobs: what
\* is still to be loaded; got: versions of the chunks read; err: result of a region
\* get; out: what has been shown; warned: tables given up.  start: history, the
\* registers' version when the process started.
NoProc == [st |-> "none", cmd |-> [tabs |-> <<>>, dev |-> -1, json |-> FALSE], devs |-> <<>>,
           jobs |-> <<>>, got |-> <<>>, err |-> FALSE, out |-> {}, warned |-> {}, start |-> 0]

EnvInit ==
  /\ sys \in Systems
  /\ hw = 0
  /\ snaps = <<>>
  /\ orphans = {}
  /\ proc = [p \in Procs |-> NoProc]

Set(p, q) == proc' = [proc EXCEPT ![p] = q]

\* main, up to the first query.
Start(p) ==
  /\ proc[p].st = "none"
  /\ \E c \in Commands : Set(p, [NoProc EXCEPT !.st = "info", !.cmd = c, !.start = hw])
  /\ UNCHANGED <<sys, hw, snaps, orphans>>

\* devlink_open fails (no memory, no socket, no devlink family), or one of the two queries
\* of env_init does: mvls gives up.
DiscoveryFails(p) ==
  /\ proc[p].st \in {"info", "port"} /\ "query" \in Faults
  /\ Set(p, [proc[p] EXCEPT !.st = "failed"])
  /\ UNCHANGED <<sys, hw, snaps, orphans>>

-------------------------------------------------------------------------------
(* env_init: DEVLINK_CMD_INFO_GET, then DEVLINK_CMD_PORT_GET.              *)

\* env_init_dev_cb and env_dev_add, on one message of the dump: other drivers' devices
\* and devices without an asic.id are passed over, an asic.id that is not in chips is
\* an error, which ends the query.
env_init_dev_cb(q, s) ==
  IF q.err \/ ~s.mv88e6 \/ s.asic = "none" THEN q
  ELSE IF s.asic = "unknown" THEN [q EXCEPT !.err = TRUE]
  ELSE [q EXCEPT !.devs = Append(@, [dev |-> s.dev, index |-> -1, ports |-> <<>>])]

InfoGet(p) ==
  LET q == FoldLeft(env_init_dev_cb, [devs |-> <<>>, err |-> FALSE], sys)
  IN  /\ proc[p].st = "info"
      /\ Set(p, [proc[p] EXCEPT !.st = IF q.err THEN "failed" ELSE "port", !.devs = q.devs])
      /\ UNCHANGED <<sys, hw, snaps, orphans>>

\* The ports of all devices, in the order they are dumped.
PortDump == FlattenSeq([i \in 1..Len(sys) |->
              [j \in 1..Len(sys[i].ports) |-> [dev |-> sys[i].dev, port |-> sys[i].ports[j]]]])

\* Mutant of env_init_port_cb: the port goes to the device that was added last.
BadPortCb(devs, m) ==
  [i \in 1..Len(devs) |->
     IF i = Len(devs) THEN [devs[i] EXCEPT !.ports = Append(@, m.port)] ELSE devs[i]]

\* The port is added to the device env_dev_find finds, if any.
env_init_port_cb(devs, m) ==
  [i \in 1..Len(devs) |->
     IF devs[i].dev = m.dev THEN [devs[i] EXCEPT !.ports = Append(@, m.port)] ELSE devs[i]]

\* dev_init is next, for every device; without any, ENODEV.
PortGet(p) ==
  LET q == proc[p]
      devs == FoldLeft(env_init_port_cb, q.devs, PortDump)
  IN  /\ q.st = "port"
      /\ Set(p, IF devs = <<>> THEN [q EXCEPT !.st = "failed"]
                ELSE [q EXCEPT !.st = "load", !.devs = devs,
                               !.jobs = [i \in 1..Len(devs) |->
                                           Job("init", devs[i].dev, "global1", -1)]])
      /\ UNCHANGED <<sys, hw, snaps, orphans>>

-------------------------------------------------------------------------------
(* What is done with a region, and with one that could not be loaded.      *)

\* dev_init: the device's index is read from its global1 region.
dev_init(devs, d) ==
  LET Index == CHOOSE i \in 0..31 : \E j \in 1..Len(sys) : sys[j].dev = d /\ sys[j].index = i
  IN  [i \in 1..Len(devs) |-> IF devs[i].dev = d THEN [devs[i] EXCEPT !.index = Index] ELSE devs[i]]

\* The jobs of a table, in the order of env->devs.
Ports(tab, d) == [i \in 1..Len(d.ports) |-> Job(tab, d.dev, "port", d.ports[i])]

DevJobs(tab, d) ==
  CASE tab \in {"vtu", "stu", "atu"} -> <<Job(tab, d.dev, tab, -1)>>
    [] tab = "ports"  -> Ports(tab, d)
    [] tab = "pvt"    -> <<Job(tab, d.dev, "pvt", -1)>> \o Ports(tab, d)
    [] tab = "pvtdev" -> Append(Ports(tab, d), Job(tab, d.dev, "pvt", -1))

TableJobs(tab, devs) == FlattenSeq([i \in 1..Len(devs) |-> DevJobs(tab, devs[i])])

\* env_dev_get; pvt DEV is about one device, every other table about all of them.
Selected(cmd, devs) ==
  LET at == {i \in 1..Len(devs) : devs[i].index = cmd.dev}
  IN  IF cmd.dev = -1 THEN devs ELSE IF at = {} THEN <<>> ELSE <<devs[Min(at)]>>

\* printer_show has a function for every table; printer_json has none for the PVT, and
\* the ENOENT of env_print_pvt and dev_print_pvt is not looked at: nothing is loaded.
Prints(cmd, tab) == ~cmd.json \/ tab \notin {"pvt", "pvtdev"}

CommandJobs(cmd, devs) ==
  FlattenSeq([t \in 1..Len(cmd.tabs) |->
    IF Prints(cmd, cmd.tabs[t]) THEN TableJobs(cmd.tabs[t], Selected(cmd, devs)) ELSE <<>>])

\* warn() and break or return: the rest of the table is given up.
SkipTable(q, tab) ==
  [q EXCEPT !.st = "load", !.warned = @ \cup {tab},
            !.jobs = SelectSeq(@, LAMBDA j : j.tab # tab)]

Show(q, j) == [q EXCEPT !.st = "load", !.jobs = Tail(@),
                        !.out = @ \cup {[tab |-> j.tab, rgn |-> j.rgn, ver |-> q.got]}]

\* dev_init: a device's index is read from its global1 region; after the last one
\* the devices are sorted and main goes on to the command.
AfterInit(q) ==
  LET devs == dev_init(q.devs, Head(q.jobs).rgn.dev)
      sorted == env_init_dev_sort(devs)
  IN  IF q.err THEN [q EXCEPT !.st = "failed"]
      ELSE IF Len(q.jobs) > 1
        THEN [q EXCEPT !.st = "load", !.devs = devs, !.jobs = Tail(@)]
      ELSE IF Selected(q.cmd, sorted) = <<>>
        THEN [q EXCEPT !.st = "failed", !.devs = sorted]
      ELSE [q EXCEPT !.st = "load", !.devs = sorted, !.jobs = CommandJobs(q.cmd, sorted)]

\* A region get has returned.  The port table does not look at its result.
After(q) ==
  LET j == Head(q.jobs)
      r == CASE j.tab = "init" -> AfterInit(q)
             [] j.tab = "ports" -> IF q.got = <<>> THEN [q EXCEPT !.st = "segv"] ELSE Show(q, j)
             [] OTHER -> IF q.err THEN SkipTable(q, j.tab) ELSE Show(q, j)
  IN  [r EXCEPT !.got = <<>>, !.err = FALSE]

-------------------------------------------------------------------------------
(* devlink_port_region_get: DEVLINK_CMD_REGION_NEW, _READ and _DEL.        *)

\* The snapshots with a new one of region r.
Snapshot(r, p) ==
  [k \in DOMAIN snaps \cup {r} |-> IF k = r THEN [ver |-> hw, by |-> p] ELSE snaps[k]]

\* Mutant of RegionNew: the result of the query is not looked at.
BadRegionNew(p) ==
  LET q == proc[p]
      r == Head(q.jobs).rgn
  IN  /\ q.st = "load" /\ q.jobs # <<>>
      /\ Set(p, [q EXCEPT !.st = "read", !.got = <<>>, !.err = FALSE])
      /\ snaps' = IF r \in DOMAIN snaps THEN snaps ELSE Snapshot(r, p)
      /\ UNCHANGED <<sys, hw, orphans>>

\* The kernel refuses an id that is in use; nothing is read or deleted then.
RegionNew(p) ==
  LET q == proc[p]
      r == Head(q.jobs).rgn
  IN  /\ q.st = "load" /\ q.jobs # <<>>
      /\ IF r \in DOMAIN snaps
           THEN /\ Set(p, After([q EXCEPT !.got = <<>>, !.err = TRUE]))
                /\ UNCHANGED snaps
           ELSE /\ Set(p, [q EXCEPT !.st = "read", !.got = <<>>, !.err = FALSE])
                /\ snaps' = Snapshot(r, p)
      /\ UNCHANGED <<sys, hw, orphans>>

\* The query fails: the kernel refuses it, or it takes the snapshot and the answer is lost.
\* Nothing is read or deleted then either.
NewFails(p) ==
  LET q == proc[p]
      r == Head(q.jobs).rgn
  IN  /\ q.st = "load" /\ q.jobs # <<>> /\ "new" \in Faults
      /\ Set(p, After([q EXCEPT !.got = <<>>, !.err = TRUE]))
      /\ \/ UNCHANGED <<snaps, orphans>>
         \/ /\ r \notin DOMAIN snaps /\ Cardinality(orphans) < MaxOrphans
            /\ snaps' = Snapshot(r, p)
            /\ orphans' = orphans \cup {r}
      /\ UNCHANGED <<sys, hw>>

\* devlink_region_dup_cb: one chunk of the dump is copied.
RegionRead(p) ==
  LET q == proc[p]
      r == Head(q.jobs).rgn
  IN  /\ q.st = "read" /\ Len(q.got) < Chunks(r.name)
      /\ IF r \in DOMAIN snaps
           THEN Set(p, [q EXCEPT !.got = Append(@, snaps[r].ver)])
           ELSE Set(p, [q EXCEPT !.st = "del", !.err = TRUE])
      /\ UNCHANGED <<sys, hw, snaps, orphans>>

\* Mutant of ReadFails: the snapshot is left behind.
BadReadFails(p) ==
  /\ proc[p].st = "read" /\ "read" \in Faults
  /\ Set(p, After([proc[p] EXCEPT !.err = TRUE]))
  /\ UNCHANGED <<sys, hw, snaps, orphans>>

\* The kernel ends the dump with an error; the snapshot is deleted all the same.
ReadFails(p) ==
  /\ proc[p].st = "read" /\ "read" \in Faults
  /\ Set(p, [proc[p] EXCEPT !.st = "del", !.err = TRUE])
  /\ UNCHANGED <<sys, hw, snaps, orphans>>

\* After the read, failed or not; its result is the query's.
RegionDel(p) ==
  LET q == proc[p]
      r == Head(q.jobs).rgn
  IN  /\ q.st = "del" \/ (q.st = "read" /\ Len(q.got) = Chunks(r.name))
      /\ Set(p, After(q))
      /\ snaps' = [k \in DOMAIN snaps \ {r} |-> snaps[k]]
      /\ UNCHANGED <<sys, hw, orphans>>

\* The kernel does not delete it; nobody looks at the result of this query.
DelFails(p) ==
  LET q == proc[p]
      r == Head(q.jobs).rgn
  IN  /\ q.st = "del" \/ (q.st = "read" /\ Len(q.got) = Chunks(r.name))
      /\ "del" \in Faults /\ Cardinality(orphans) < MaxOrphans
      /\ Set(p, After(q))
      /\ orphans' = orphans \cup {r}
      /\ UNCHANGED <<sys, hw, snaps>>

-------------------------------------------------------------------------------
Ended == {"done", "failed", "segv", "killed"}

\* main returns, or the process is over some other way; another one may be started.
Return(p) ==
  /\ proc[p].st = "load" /\ proc[p].jobs = <<>>
  /\ Set(p, [proc[p] EXCEPT !.st = "done"])
  /\ UNCHANGED <<sys, hw, snaps, orphans>>

Reap(p) ==
  /\ proc[p].st \in Ended
  /\ Set(p, NoProc)
  /\ UNCHANGED <<sys, hw, snaps, orphans>>

\* The user interrupts the process: its snapshot stays.
Kill(p) ==
  /\ "kill" \in Faults /\ Cardinality(orphans) < MaxOrphans
  /\ proc[p].st \notin Ended \cup {"none"}
  /\ Set(p, [proc[p] EXCEPT !.st = "killed"])
  /\ orphans' = orphans \cup {r \in DOMAIN snaps : snaps[r].by = p}
  /\ UNCHANGED <<sys, hw, snaps>>

\* The switches run: registers and tables change.
Change ==
  /\ hw < MaxVersion
  /\ hw' = hw + 1
  /\ UNCHANGED <<sys, snaps, orphans, proc>>

EnvNext ==
  \/ Change
  \/ \E p \in Procs :
       \/ Start(p) \/ InfoGet(p) \/ PortGet(p) \/ DiscoveryFails(p)
       \/ RegionNew(p) \/ NewFails(p) \/ RegionRead(p) \/ ReadFails(p)
       \/ RegionDel(p) \/ DelFails(p)
       \/ Return(p) \/ Reap(p) \/ Kill(p)

EnvSpec == EnvInit /\ [][EnvNext]_envVars

-------------------------------------------------------------------------------
\* Every region shown is one moment's: all its chunks come from one snapshot, taken
\* after the process was started, whoever else reads, interrupts or leaves snapshots
\* of the same region (devlink_port_region_get's REGION_NEW and its early return).
Coherent ==
  \A p \in Procs : \A o \in proc[p].out :
    \A i \in 1..Len(o.ver) : o.ver[i] = o.ver[1] /\ o.ver[i] >= proc[p].start

\* A snapshot exists only while the process that took it reads it, unless that was
\* interrupted or its NEW or DEL query itself failed: a failed read deletes it too
\* (devlink_port_region_get's REGION_DEL).
NoLeak ==
  \A r \in DOMAIN snaps \ orphans :
    LET q == proc[snaps[r].by]
    IN  q.st \in {"read", "del"} /\ Head(q.jobs).rgn = r

\* The snapshot a process reads is changed and deleted by nobody but itself, and what was
\* left behind, by an interrupted process or a failed query, stays for good: the fixed id
\* is refused to all (REGION_NEW's early return keeps a process from another one's
\* snapshot, and from an old one of its own).
OnlyOwnDeleted ==
  [][\A r \in DOMAIN snaps :
       \/ r \in DOMAIN snaps' /\ snaps'[r] = snaps[r]
       \/ r \notin orphans /\ proc'[snaps[r].by] # proc[snaps[r].by]]_envVars

\* The switches that mvls knows, and those of them a command is about: all, or the one
\* switch of an index.
Supported(s) == s.mv88e6 /\ s.asic = "known"
Asked(cmd, i) ==
  /\ Supported(sys[i])
  /\ cmd.dev # -1 => {k \in 1..Len(sys) : Supported(sys[k]) /\ sys[k].index = cmd.dev} = {i}

\* A process that ended without a warning, and its table t of switch i.
Succeeded(q) == q.st = "done" /\ q.warned = {}
ShowsOf(q, t, i) ==
  LET jobs == DevJobs(q.cmd.tabs[t], sys[i])
  IN  \A j \in 1..Len(jobs) : \E o \in q.out : o.tab = jobs[j].tab /\ o.rgn = jobs[j].rgn

\* A process that ends without a warning has shown every table it was asked for and its
\* printer has, of every supported switch, with every port of it (env_init against the
\* tables' loops).  Of the PVT the JSON printer shows nothing, and says nothing.
Complete ==
  \A p \in Procs : Succeeded(proc[p]) =>
    \A i \in 1..Len(sys), t \in 1..Len(proc[p].cmd.tabs) :
      Asked(proc[p].cmd, i) /\ Prints(proc[p].cmd, proc[p].cmd.tabs[t]) => ShowsOf(proc[p], t, i)

\* The tables list the devices in the order of their index: "Sort devices on DSA
\* index" (env_init_dev_sort).
Sorted ==
  \A p \in Procs :
    LET q == proc[p] IN
    q.st = "done" => \A i, j \in 1..Len(q.devs) : i < j => q.devs[i].index <= q.devs[j].index
===============================================================================
