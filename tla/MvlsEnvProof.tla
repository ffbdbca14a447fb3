----------------------------- MODULE MvlsEnvProof -----------------------------
(***************************************************************************)
(* What several mvls processes may rely on when they take, read and delete *)
(* snapshots under one fixed id, for any number of processes, any switches *)
(* and command lines and any failures and interruptions.                   *)
(*                                                                         *)
(* The argument is ownership.  Coherent says nothing of a process that has *)
(* yet to show what it reads, and NoLeak nothing of what was read, so      *)
(* neither is inductive.  EnvInv adds that a process at work on a region   *)
(* has a snapshot of it that it took itself, after it was started, and     *)
(* that nothing it has read comes from anywhere else.                      *)
(*                                                                         *)
(* The second part is about what a process that succeeded has shown, and   *)
(* rests on another invariant, CourseInv.                                  *)
(***************************************************************************)
EXTENDS MvlsEnv, SequenceTheorems, SetInduction

\* The fields of a process.
Fields == {"st", "cmd", "devs", "jobs", "got", "err", "out", "warned", "start"}

\* The registers as they were at one moment, not before version lo.
OneMoment(v, lo) ==
  v \in Seq(Nat) /\ \A i \in 1..Len(v) : v[i] = v[1] /\ v[i] >= lo

\* A process, all that it has shown, and what it has read so far.
IsProc(q, now) ==
  /\ DOMAIN q = Fields
  /\ q.start \in Nat /\ q.start <= now
  /\ OneMoment(q.got, q.start)
  /\ \A o \in q.out : OneMoment(o.ver, q.start)

\* A process at work on a region took the snapshot of it, and reads nothing else.
Taken(p, q, taken, left) ==
  q.st \in {"read", "del"} =>
    LET r == Head(q.jobs).rgn IN
    /\ r \in DOMAIN taken \ left
    /\ taken[r].by = p /\ taken[r].ver >= q.start
    /\ \A i \in 1..Len(q.got) : q.got[i] = taken[r].ver

\* What is known of the snapshots themselves; what was left behind is still there.
Snapshots ==
  /\ hw \in Nat
  /\ orphans \subseteq DOMAIN snaps
  /\ \A r \in DOMAIN snaps : snaps[r].ver \in Nat /\ snaps[r].by \in Procs

\* No process has another one's snapshot, or data from it.
Owned ==
  \A p \in Procs : IsProc(proc[p], hw) /\ Taken(p, proc[p], snaps, orphans)

\* The inductive invariant.
EnvInv == Snapshots /\ DOMAIN proc = Procs /\ Owned /\ NoLeak

-------------------------------------------------------------------------------
(* One process's step, and what the others may go on relying on.           *)

\* Without a process's own step nothing of another one changes, as long as the snapshots
\* of others stay as they are.
LEMMA OneProc ==
  ASSUME EnvInv, Snapshots', UNCHANGED hw,
         NEW p \in Procs, NEW q, proc' = [proc EXCEPT ![p] = q],
         IsProc(q, hw), Taken(p, q, snaps', orphans'),
         \A r \in DOMAIN snaps : snaps[r].by # p =>
           r \in DOMAIN snaps' /\ snaps'[r] = snaps[r] /\ (r \in orphans' => r \in orphans),
         \A r \in DOMAIN snaps' \ orphans' :
           IF snaps'[r].by = p THEN q.st \in {"read", "del"} /\ Head(q.jobs).rgn = r
           ELSE r \in DOMAIN snaps \ orphans /\ snaps'[r] = snaps[r]
  PROVE  EnvInv'
<1>1. DOMAIN proc = Procs /\ Owned /\ NoLeak /\ Snapshots BY DEF EnvInv
<1>2. DOMAIN proc' = Procs /\ proc'[p] = q /\ \A o \in Procs \ {p} : proc'[o] = proc[o]
  BY <1>1
<1>3. Owned'
  <2> SUFFICES ASSUME NEW o \in Procs
               PROVE  IsProc(proc'[o], hw) /\ Taken(o, proc'[o], snaps', orphans')
    BY DEF Owned
  <2>1. CASE o = p BY <1>2, <2>1
  <2>2. CASE o # p
    <3>1. proc'[o] = proc[o] /\ IsProc(proc[o], hw) /\ Taken(o, proc[o], snaps, orphans)
      BY <1>1, <1>2, <2>2 DEF Owned
    <3>2. Taken(o, proc[o], snaps', orphans')
      <4> DEFINE s == proc[o]
                 r == Head(s.jobs).rgn
      <4> SUFFICES ASSUME s.st \in {"read", "del"} PROVE Taken(o, s, snaps', orphans')
        BY DEF Taken
      <4>1. /\ r \in DOMAIN snaps \ orphans /\ snaps[r].by = o /\ snaps[r].ver >= s.start
            /\ \A i \in 1..Len(s.got) : s.got[i] = snaps[r].ver
        BY <3>1 DEF Taken
      <4>2. r \in DOMAIN snaps' \ orphans' /\ snaps'[r] = snaps[r] BY <2>2, <4>1
      <4> QED BY <4>1, <4>2 DEF Taken
    <3> QED BY <3>1, <3>2
  <2> QED BY <2>1, <2>2
<1>4. NoLeak'
  <2> SUFFICES ASSUME NEW r \in DOMAIN snaps' \ orphans'
               PROVE  LET s == proc'[snaps'[r].by]
                      IN  s.st \in {"read", "del"} /\ Head(s.jobs).rgn = r
    BY DEF NoLeak
  <2>1. CASE snaps'[r].by = p BY <1>2, <2>1
  <2>2. CASE snaps'[r].by # p
    <3>1. r \in DOMAIN snaps \ orphans /\ snaps'[r] = snaps[r] BY <2>2
    <3>2. snaps[r].by \in Procs BY <1>1, <3>1 DEF Snapshots
    <3> QED BY <1>1, <1>2, <2>2, <3>1, <3>2 DEF NoLeak
  <2> QED BY <2>1, <2>2
<1> QED BY <1>2, <1>3, <1>4 DEF EnvInv

\* A step that leaves the snapshots alone, by a process that is, and stays, at work on a
\* region or at none.
LEMMA Elsewhere ==
  ASSUME EnvInv, UNCHANGED <<hw, snaps, orphans>>,
         NEW p \in Procs, NEW q, proc' = [proc EXCEPT ![p] = q],
         IsProc(q, hw), Taken(p, q, snaps, orphans),
         proc[p].st \in {"read", "del"} =>
           q.st \in {"read", "del"} /\ Head(q.jobs).rgn = Head(proc[p].jobs).rgn
  PROVE  EnvInv'
<1>1. Snapshots' BY DEF EnvInv, Snapshots
<1>2. ASSUME NEW r \in DOMAIN snaps' \ orphans'
      PROVE  IF snaps'[r].by = p THEN q.st \in {"read", "del"} /\ Head(q.jobs).rgn = r
             ELSE r \in DOMAIN snaps \ orphans /\ snaps'[r] = snaps[r]
  BY DEF EnvInv, NoLeak
<1> QED BY <1>1, <1>2, OneProc

LEMMA ProcIs ==
  ASSUME EnvInv, NEW p \in Procs
  PROVE  IsProc(proc[p], hw) /\ Taken(p, proc[p], snaps, orphans)
BY DEF EnvInv, Owned

\* What has not been read is of one moment, and so is what is read of one snapshot.
LEMMA Nothing == ASSUME NEW lo PROVE OneMoment(<<>>, lo)
BY DEF OneMoment

LEMMA OneMore ==
  ASSUME NEW v \in Seq(Nat), NEW ver \in Nat, NEW lo \in Nat, ver >= lo,
         \A i \in 1..Len(v) : v[i] = ver
  PROVE  OneMoment(Append(v, ver), lo) /\ \A i \in 1..Len(Append(v, ver)) : Append(v, ver)[i] = ver
<1> DEFINE w == Append(v, ver)
           n == Len(v)
<1>1. w \in Seq(Nat) /\ Len(w) = n + 1 /\ n \in Nat OBVIOUS
<1>2. \A i \in 1..n : w[i] = ver OBVIOUS
<1>3. w[n + 1] = ver OBVIOUS
<1> HIDE DEF w, n
<1>4. \A i \in 1..Len(w) : w[i] = ver BY <1>1, <1>2, <1>3
<1>5. 1 \in 1..Len(w) BY <1>1
<1>6. OneMoment(w, lo) BY <1>1, <1>4, <1>5 DEF OneMoment
<1> QED BY <1>4, <1>6 DEF w

\* A region get has returned: the process is at work on no region, it has kept what it
\* has shown, and what it adds is what it has read.
LEMMA AfterIs ==
  ASSUME NEW q, NEW now, IsProc(q, now)
  PROVE  IsProc(After(q), now) /\ After(q).st \in {"load", "failed", "segv"}
<1> DEFINE j == Head(q.jobs)
           r == CASE j.tab = "init" -> AfterInit(q)
                  [] j.tab = "ports" -> IF q.got = <<>> THEN [q EXCEPT !.st = "segv"] ELSE Show(q, j)
                  [] OTHER -> IF q.err THEN SkipTable(q, j.tab) ELSE Show(q, j)
           Fine(s) == /\ DOMAIN s = Fields /\ s.start = q.start
                      /\ s.out \subseteq q.out \cup {[tab |-> j.tab, rgn |-> j.rgn, ver |-> q.got]}
                      /\ s.st \in {"load", "failed", "segv"}
<1>1. DOMAIN q = Fields BY DEF IsProc
<1>2. Fine(Show(q, j)) BY <1>1 DEF Show, Fields
<1>3. Fine(SkipTable(q, j.tab)) BY <1>1 DEF SkipTable, Fields
<1>4. Fine([q EXCEPT !.st = "segv"]) BY <1>1 DEF Fields
<1>5. Fine(AfterInit(q)) BY <1>1 DEF AfterInit, Fields
<1>6. Fine(r) BY <1>2, <1>3, <1>4, <1>5
<1> HIDE DEF r
<1> DEFINE a == [r EXCEPT !.got = <<>>, !.err = FALSE]
<1>7. After(q) = a BY DEF After, r
<1>8. DOMAIN a = Fields /\ a.start = r.start /\ a.out = r.out /\ a.st = r.st /\ a.got = <<>>
  BY <1>6 DEF Fields
<1>9. \A o \in r.out : OneMoment(o.ver, q.start)
  <2>1. OneMoment(q.got, q.start) /\ \A o \in q.out : OneMoment(o.ver, q.start) BY DEF IsProc
  <2>2. ASSUME NEW o \in r.out PROVE OneMoment(o.ver, q.start)
    <3>1. o \in q.out \/ o = [tab |-> j.tab, rgn |-> j.rgn, ver |-> q.got] BY <1>6
    <3>2. CASE o \in q.out BY <2>1, <3>2
    <3>3. CASE o = [tab |-> j.tab, rgn |-> j.rgn, ver |-> q.got] BY <2>1, <3>3
    <3> QED BY <3>1, <3>2, <3>3
  <2> QED BY <2>2
<1> HIDE DEF a
<1>10. IsProc(a, now) BY <1>6, <1>8, <1>9, Nothing DEF IsProc
<1> QED BY <1>6, <1>7, <1>8, <1>10

-------------------------------------------------------------------------------
(* The steps.                                                              *)

\* The steps before, between and after the use of regions: they touch neither what has
\* been read nor what has been shown, and the process is not at work on a region.
LEMMA Aside ==
  ASSUME EnvInv, NEW p \in Procs, UNCHANGED <<hw, snaps, orphans>>,
         NEW q, proc' = [proc EXCEPT ![p] = q],
         proc[p].st \notin {"read", "del"}, q.st \notin {"read", "del"},
         DOMAIN q = Fields, q.start = proc[p].start, q.got = proc[p].got, q.out = proc[p].out
  PROVE  EnvInv'
<1>1. IsProc(proc[p], hw) BY ProcIs
<1>2. IsProc(q, hw) BY <1>1 DEF IsProc
<1>3. Taken(p, q, snaps, orphans) BY DEF Taken
<1> QED BY <1>2, <1>3, Elsewhere

LEMMA StartIs == ASSUME NEW now \in Nat, NEW s, s \in {0, now} PROVE s \in Nat /\ s <= now
OBVIOUS

LEMMA FreshIs ==
  /\ DOMAIN NoProc = Fields /\ NoProc.st = "none" /\ NoProc.start = 0
  /\ NoProc.got = <<>> /\ NoProc.out = {}
BY DEF NoProc, Fields

\* main begins, or a process that is over makes room for another one.
LEMMA Afresh ==
  ASSUME EnvInv, NEW p \in Procs, UNCHANGED <<hw, snaps, orphans>>,
         proc[p].st \notin {"read", "del"},
         \/ proc' = [proc EXCEPT ![p] = NoProc]
         \/ \E c : proc' = [proc EXCEPT ![p] = [NoProc EXCEPT !.st = "info", !.cmd = c, !.start = hw]]
  PROVE  EnvInv'
<1> PICK q : /\ proc' = [proc EXCEPT ![p] = q]
             /\ \/ q = NoProc
                \/ \E c : q = [NoProc EXCEPT !.st = "info", !.cmd = c, !.start = hw]
  OBVIOUS
<1>1. hw \in Nat BY DEF EnvInv, Snapshots
<1>2. /\ DOMAIN q = Fields /\ q.st \in {"none", "info"} /\ q.start \in {0, hw}
      /\ q.got = <<>> /\ q.out = {}
  BY FreshIs DEF Fields
<1>3. q.start \in Nat /\ q.start <= hw BY <1>1, <1>2, StartIs
<1>4. IsProc(q, hw) BY <1>2, <1>3, Nothing DEF IsProc
<1>5. Taken(p, q, snaps, orphans) BY <1>2 DEF Taken
<1> QED BY <1>4, <1>5, Elsewhere

LEMMA NewKeeps == ASSUME EnvInv, NEW p \in Procs, RegionNew(p) PROVE EnvInv'
<1> DEFINE q == proc[p]
           r == Head(q.jobs).rgn
<1>1. IsProc(q, hw) /\ q.st = "load" /\ UNCHANGED <<hw, orphans>> BY ProcIs DEF RegionNew
<1>2. Snapshots BY DEF EnvInv
<1>3. CASE r \in DOMAIN snaps
  <2> DEFINE f == [q EXCEPT !.got = <<>>, !.err = TRUE]
  <2>1. proc' = [proc EXCEPT ![p] = After(f)] /\ UNCHANGED snaps BY <1>3 DEF RegionNew, Set
  <2>2. /\ DOMAIN f = Fields /\ f.start = q.start /\ f.out = q.out /\ f.got = <<>>
    BY <1>1 DEF IsProc, Fields
  <2>3. IsProc(f, hw) BY <1>1, <2>2, Nothing DEF IsProc
  <2> HIDE DEF f
  <2>4. IsProc(After(f), hw) /\ After(f).st \in {"load", "failed", "segv"} BY <2>3, AfterIs
  <2>5. Taken(p, After(f), snaps, orphans) BY <2>4 DEF Taken
  <2> QED BY <1>1, <2>1, <2>4, <2>5, Elsewhere
<1>4. CASE r \notin DOMAIN snaps
  <2> DEFINE f == [q EXCEPT !.st = "read", !.got = <<>>, !.err = FALSE]
             new == [ver |-> hw, by |-> p]
  <2>1. proc' = [proc EXCEPT ![p] = f] /\ snaps' = Snapshot(r, p) BY <1>4 DEF RegionNew, Set
  <2>2. /\ DOMAIN f = Fields /\ f.start = q.start /\ f.out = q.out /\ f.got = <<>>
        /\ f.st = "read" /\ Head(f.jobs).rgn = r
    BY <1>1 DEF IsProc, Fields
  <2>3. IsProc(f, hw) BY <1>1, <2>2, Nothing DEF IsProc
  <2>4. new.ver = hw /\ new.by = p OBVIOUS
  <2> HIDE DEF r, f, new
  <2>5. /\ DOMAIN snaps' = DOMAIN snaps \cup {r} /\ snaps'[r] = new
        /\ \A k \in DOMAIN snaps : snaps'[k] = snaps[k]
    BY <1>4, <2>1 DEF Snapshot, new
  <2>6. Snapshots' BY <1>1, <1>2, <2>4, <2>5 DEF Snapshots
  <2>7. orphans \subseteq DOMAIN snaps BY <1>2 DEF Snapshots
  <2>8. Taken(p, f, snaps', orphans')
    <3>1. r \in DOMAIN snaps' \ orphans' BY <1>1, <1>4, <2>5, <2>7
    <3>2. f.start \in Nat /\ hw \in Nat /\ f.start <= hw BY <1>2, <2>3 DEF IsProc, Snapshots
    <3> QED BY <2>2, <2>4, <2>5, <3>1, <3>2 DEF Taken
  <2>9. ASSUME NEW k \in DOMAIN snaps' \ orphans'
        PROVE  IF snaps'[k].by = p THEN f.st \in {"read", "del"} /\ Head(f.jobs).rgn = k
               ELSE k \in DOMAIN snaps \ orphans /\ snaps'[k] = snaps[k]
    <3>1. CASE k = r BY <2>2, <2>4, <2>5, <3>1
    <3>2. CASE k # r
      <4>1. k \in DOMAIN snaps \ orphans /\ snaps'[k] = snaps[k] BY <1>1, <2>5, <3>2
      <4>2. snaps[k].by # p BY <1>1, <4>1 DEF EnvInv, NoLeak
      <4> QED BY <4>1, <4>2
    <3> QED BY <3>1, <3>2
  <2> QED BY <1>1, <2>1, <2>3, <2>5, <2>6, <2>8, <2>9, OneProc
<1> QED BY <1>3, <1>4

\* A NEW that fails leaves the process at work on nothing, and a snapshot it may have
\* made among those left behind.
LEMMA NewFailsKeeps == ASSUME EnvInv, NEW p \in Procs, NewFails(p) PROVE EnvInv'
<1> DEFINE q == proc[p]
           r == Head(q.jobs).rgn
           f == [q EXCEPT !.got = <<>>, !.err = TRUE]
           a == After(f)
           new == [ver |-> hw, by |-> p]
<1>1. /\ IsProc(q, hw) /\ q.st = "load" /\ UNCHANGED hw
      /\ proc' = [proc EXCEPT ![p] = a]
  BY ProcIs DEF NewFails, Set
<1>2. Snapshots BY DEF EnvInv
<1>3. DOMAIN f = Fields /\ f.start = q.start /\ f.out = q.out /\ f.got = <<>>
  BY <1>1 DEF IsProc, Fields
<1>4. IsProc(f, hw) BY <1>1, <1>3, Nothing DEF IsProc
<1> HIDE DEF f
<1>5. IsProc(a, hw) /\ a.st \in {"load", "failed", "segv"} BY <1>4, AfterIs
<1>6. Taken(p, a, snaps, orphans) /\ Taken(p, a, snaps', orphans') BY <1>5 DEF Taken
<1>7. CASE UNCHANGED <<snaps, orphans>> BY <1>1, <1>5, <1>6, <1>7, Elsewhere
<1>8. CASE r \notin DOMAIN snaps /\ snaps' = Snapshot(r, p) /\ orphans' = orphans \cup {r}
  <2>1. new.ver = hw /\ new.by = p OBVIOUS
  <2> HIDE DEF r, new, a
  <2>2. /\ DOMAIN snaps' = DOMAIN snaps \cup {r} /\ snaps'[r] = new
        /\ \A k \in DOMAIN snaps : snaps'[k] = snaps[k]
    BY <1>8 DEF Snapshot, new
  <2>3. Snapshots' BY <1>1, <1>2, <1>8, <2>1, <2>2 DEF Snapshots
  <2>4. ASSUME NEW k \in DOMAIN snaps' \ orphans'
        PROVE  IF snaps'[k].by = p THEN a.st \in {"read", "del"} /\ Head(a.jobs).rgn = k
               ELSE k \in DOMAIN snaps \ orphans /\ snaps'[k] = snaps[k]
    <3>1. k \in DOMAIN snaps \ orphans /\ snaps'[k] = snaps[k] BY <1>8, <2>2
    <3>2. snaps[k].by # p BY <1>1, <3>1 DEF EnvInv, NoLeak
    <3> QED BY <3>1, <3>2
  <2>5. ASSUME NEW k \in DOMAIN snaps, snaps[k].by # p
        PROVE  k \in DOMAIN snaps' /\ snaps'[k] = snaps[k] /\ (k \in orphans' => k \in orphans)
    BY <1>8, <2>2
  <2> QED BY <1>1, <1>5, <1>6, <2>3, <2>4, <2>5, OneProc
<1> QED BY <1>7, <1>8 DEF NewFails

LEMMA ReadKeeps == ASSUME EnvInv, NEW p \in Procs, RegionRead(p) PROVE EnvInv'
<1> DEFINE q == proc[p]
           r == Head(q.jobs).rgn
           ver == snaps[r].ver
           f == [q EXCEPT !.got = Append(q.got, ver)]
<1>1. /\ IsProc(q, hw) /\ Taken(p, q, snaps, orphans)
      /\ q.st = "read" /\ UNCHANGED <<hw, snaps, orphans>>
  BY ProcIs DEF RegionRead
<1>2. /\ r \in DOMAIN snaps \ orphans /\ snaps[r].by = p /\ ver >= q.start
      /\ \A i \in 1..Len(q.got) : q.got[i] = ver
  BY <1>1 DEF Taken
<1>3. proc' = [proc EXCEPT ![p] = f] BY <1>2 DEF RegionRead, Set
<1>4. ver \in Nat /\ q.start \in Nat /\ q.got \in Seq(Nat)
  BY <1>1, <1>2 DEF EnvInv, Snapshots, IsProc, OneMoment
<1>5. /\ OneMoment(Append(q.got, ver), q.start)
      /\ \A i \in 1..Len(Append(q.got, ver)) : Append(q.got, ver)[i] = ver
  BY <1>2, <1>4, OneMore
<1>6. /\ DOMAIN f = Fields /\ f.start = q.start /\ f.out = q.out /\ f.got = Append(q.got, ver)
      /\ f.st = "read" /\ f.jobs = q.jobs
  BY <1>1 DEF IsProc, Fields
<1> HIDE DEF f
<1>7. IsProc(f, hw) BY <1>1, <1>5, <1>6 DEF IsProc
<1>8. Taken(p, f, snaps, orphans) BY <1>2, <1>5, <1>6 DEF Taken
<1> QED BY <1>1, <1>3, <1>6, <1>7, <1>8, Elsewhere

LEMMA FailKeeps == ASSUME EnvInv, NEW p \in Procs, ReadFails(p) PROVE EnvInv'
<1> DEFINE q == proc[p]
           f == [q EXCEPT !.st = "del", !.err = TRUE]
<1>1. /\ IsProc(q, hw) /\ Taken(p, q, snaps, orphans)
      /\ q.st = "read" /\ UNCHANGED <<hw, snaps, orphans>>
  BY ProcIs DEF ReadFails
<1>2. proc' = [proc EXCEPT ![p] = f] BY DEF ReadFails, Set
<1>3. /\ DOMAIN f = Fields /\ f.start = q.start /\ f.out = q.out /\ f.got = q.got
      /\ f.st = "del" /\ f.jobs = q.jobs
  BY <1>1 DEF IsProc, Fields
<1> HIDE DEF f
<1>4. IsProc(f, hw) BY <1>1, <1>3 DEF IsProc
<1>5. Taken(p, f, snaps, orphans) BY <1>1, <1>3 DEF Taken
<1> QED BY <1>1, <1>2, <1>3, <1>4, <1>5, Elsewhere

\* What is deleted is the process's own.
LEMMA DelIs ==
  ASSUME EnvInv, NEW p \in Procs, RegionDel(p)
  PROVE  LET r == Head(proc[p].jobs).rgn
         IN  /\ proc[p].st \in {"read", "del"} /\ r \in DOMAIN snaps \ orphans /\ snaps[r].by = p
             /\ DOMAIN snaps' = DOMAIN snaps \ {r} /\ \A k \in DOMAIN snaps' : snaps'[k] = snaps[k]
             /\ proc' = [proc EXCEPT ![p] = After(proc[p])] /\ UNCHANGED <<hw, orphans>>
BY ProcIs DEF RegionDel, Set, Taken

LEMMA DelKeeps == ASSUME EnvInv, NEW p \in Procs, RegionDel(p) PROVE EnvInv'
<1> DEFINE q == proc[p]
           r == Head(q.jobs).rgn
           f == After(q)
<1>1. /\ q.st \in {"read", "del"} /\ r \in DOMAIN snaps \ orphans /\ snaps[r].by = p
      /\ DOMAIN snaps' = DOMAIN snaps \ {r} /\ \A k \in DOMAIN snaps' : snaps'[k] = snaps[k]
      /\ proc' = [proc EXCEPT ![p] = f] /\ UNCHANGED <<hw, orphans>>
  BY DelIs
<1>2. IsProc(f, hw) /\ f.st \in {"load", "failed", "segv"} BY ProcIs, AfterIs
<1> HIDE DEF f, r
<1>3. Taken(p, f, snaps', orphans') BY <1>2 DEF Taken
<1>4. Snapshots' BY <1>1 DEF EnvInv, Snapshots
<1>5. ASSUME NEW k \in DOMAIN snaps' \ orphans'
      PROVE  IF snaps'[k].by = p THEN f.st \in {"read", "del"} /\ Head(f.jobs).rgn = k
             ELSE k \in DOMAIN snaps \ orphans /\ snaps'[k] = snaps[k]
  <2>1. k \in DOMAIN snaps \ orphans /\ k # r /\ snaps'[k] = snaps[k] BY <1>1
  <2>2. snaps[k].by # p BY <2>1 DEF EnvInv, NoLeak, r
  <2> QED BY <2>1, <2>2
<1>6. ASSUME NEW k \in DOMAIN snaps, snaps[k].by # p
      PROVE  k \in DOMAIN snaps' /\ snaps'[k] = snaps[k] /\ (k \in orphans' => k \in orphans)
  BY <1>1, <1>6
<1> QED BY <1>1, <1>2, <1>3, <1>4, <1>5, <1>6, OneProc

\* A DEL that fails leaves its snapshot among those left behind.
LEMMA DelFailsIs ==
  ASSUME EnvInv, NEW p \in Procs, DelFails(p)
  PROVE  LET r == Head(proc[p].jobs).rgn
         IN  /\ proc[p].st \in {"read", "del"} /\ r \in DOMAIN snaps \ orphans /\ snaps[r].by = p
             /\ orphans' = orphans \cup {r}
             /\ proc' = [proc EXCEPT ![p] = After(proc[p])] /\ UNCHANGED <<hw, snaps>>
BY ProcIs DEF DelFails, Set, Taken

LEMMA DelFailsKeeps == ASSUME EnvInv, NEW p \in Procs, DelFails(p) PROVE EnvInv'
<1> DEFINE q == proc[p]
           r == Head(q.jobs).rgn
           f == After(q)
<1>1. /\ q.st \in {"read", "del"} /\ r \in DOMAIN snaps \ orphans /\ snaps[r].by = p
      /\ orphans' = orphans \cup {r}
      /\ proc' = [proc EXCEPT ![p] = f] /\ UNCHANGED <<hw, snaps>>
  BY DelFailsIs
<1>2. IsProc(f, hw) /\ f.st \in {"load", "failed", "segv"} BY ProcIs, AfterIs
<1> HIDE DEF f, r
<1>3. Taken(p, f, snaps', orphans') BY <1>2 DEF Taken
<1>4. Snapshots' BY <1>1 DEF EnvInv, Snapshots
<1>5. ASSUME NEW k \in DOMAIN snaps' \ orphans'
      PROVE  IF snaps'[k].by = p THEN f.st \in {"read", "del"} /\ Head(f.jobs).rgn = k
             ELSE k \in DOMAIN snaps \ orphans /\ snaps'[k] = snaps[k]
  <2>1. k \in DOMAIN snaps \ orphans /\ k # r /\ snaps'[k] = snaps[k] BY <1>1
  <2>2. snaps[k].by # p BY <2>1 DEF EnvInv, NoLeak, r
  <2> QED BY <2>1, <2>2
<1>6. ASSUME NEW k \in DOMAIN snaps, snaps[k].by # p
      PROVE  k \in DOMAIN snaps' /\ snaps'[k] = snaps[k] /\ (k \in orphans' => k \in orphans)
  BY <1>1, <1>6
<1> QED BY <1>1, <1>2, <1>3, <1>4, <1>5, <1>6, OneProc

LEMMA KillKeeps == ASSUME EnvInv, NEW p \in Procs, Kill(p) PROVE EnvInv'
<1> DEFINE q == proc[p]
           f == [q EXCEPT !.st = "killed"]
<1>1. /\ proc' = [proc EXCEPT ![p] = f] /\ UNCHANGED <<hw, snaps>>
      /\ orphans' = orphans \cup {r \in DOMAIN snaps : snaps[r].by = p}
  BY DEF Kill, Set
<1>2. IsProc(q, hw) BY ProcIs
<1>3. /\ DOMAIN f = Fields /\ f.start = q.start /\ f.out = q.out /\ f.got = q.got
      /\ f.st = "killed"
  BY <1>2 DEF IsProc, Fields
<1> HIDE DEF f
<1>4. IsProc(f, hw) BY <1>2, <1>3 DEF IsProc
<1>5. Taken(p, f, snaps', orphans') BY <1>3 DEF Taken
<1>6. Snapshots' BY <1>1 DEF EnvInv, Snapshots
<1> QED BY <1>1, <1>4, <1>5, <1>6, OneProc

LEMMA ChangeKeeps == ASSUME EnvInv, Change PROVE EnvInv'
<1>1. hw \in Nat /\ hw' = hw + 1 /\ UNCHANGED <<snaps, orphans, proc>>
  BY DEF Change, EnvInv, Snapshots
<1>2. Snapshots' BY <1>1 DEF EnvInv, Snapshots
<1>3. ASSUME NEW p \in Procs PROVE IsProc(proc[p], hw')
  <2>1. IsProc(proc[p], hw) BY ProcIs
  <2>2. proc[p].start \in Nat /\ proc[p].start <= hw BY <2>1 DEF IsProc
  <2>3. proc[p].start <= hw' BY <1>1, <2>2
  <2> QED BY <2>1, <2>3 DEF IsProc
<1>4. Owned' BY <1>1, <1>3, ProcIs DEF Owned
<1> QED BY <1>1, <1>2, <1>4 DEF EnvInv, NoLeak

LEMMA StepKeeps == ASSUME EnvInv, EnvNext PROVE EnvInv'
<1>1. CASE Change BY <1>1, ChangeKeeps
<1>2. ASSUME NEW p \in Procs,
             \/ Start(p) \/ InfoGet(p) \/ PortGet(p) \/ DiscoveryFails(p)
             \/ RegionNew(p) \/ NewFails(p) \/ RegionRead(p) \/ ReadFails(p)
             \/ RegionDel(p) \/ DelFails(p)
             \/ Return(p) \/ Reap(p) \/ Kill(p)
      PROVE  EnvInv'
  <2>1. CASE Start(p) BY <2>1, Afresh DEF Start, Set
  <2> DEFINE q == proc[p]
  <2>2. DOMAIN q = Fields BY ProcIs DEF IsProc
  <2>3. CASE InfoGet(p)
    <3>1. PICK st \in {"failed", "port"} :
            \E devs : proc' = [proc EXCEPT ![p] = [q EXCEPT !.st = st, !.devs = devs]]
      BY <2>3 DEF InfoGet, Set
    <3> PICK devs : proc' = [proc EXCEPT ![p] = [q EXCEPT !.st = st, !.devs = devs]] BY <3>1
    <3>2. q.st = "info" /\ UNCHANGED <<hw, snaps, orphans>> BY <2>3 DEF InfoGet
    <3> DEFINE f == [q EXCEPT !.st = st, !.devs = devs]
    <3>3. f.st = st /\ DOMAIN f = Fields /\ f.start = q.start /\ f.got = q.got /\ f.out = q.out
      BY <2>2 DEF Fields
    <3> HIDE DEF f
    <3>4. proc' = [proc EXCEPT ![p] = f] BY <3>1 DEF f
    <3> QED BY <3>1, <3>2, <3>3, <3>4, Aside
  <2>4. CASE PortGet(p)
    <3>1. PICK st \in {"failed", "load"} : \E devs, jobs :
            \/ proc' = [proc EXCEPT ![p] = [q EXCEPT !.st = st]]
            \/ proc' = [proc EXCEPT ![p] = [q EXCEPT !.st = st, !.devs = devs, !.jobs = jobs]]
      BY <2>4 DEF PortGet, Set
    <3>2. q.st = "port" /\ UNCHANGED <<hw, snaps, orphans>> BY <2>4 DEF PortGet
    <3> PICK devs, jobs :
            \/ proc' = [proc EXCEPT ![p] = [q EXCEPT !.st = st]]
            \/ proc' = [proc EXCEPT ![p] = [q EXCEPT !.st = st, !.devs = devs, !.jobs = jobs]]
      BY <3>1
    <3>3. PICK f : /\ proc' = [proc EXCEPT ![p] = f]
                   /\ \/ f = [q EXCEPT !.st = st]
                      \/ f = [q EXCEPT !.st = st, !.devs = devs, !.jobs = jobs]
      OBVIOUS
    <3>4. f.st = st /\ DOMAIN f = Fields /\ f.start = q.start /\ f.got = q.got /\ f.out = q.out
      BY <2>2, <3>3 DEF Fields
    <3> QED BY <3>1, <3>2, <3>3, <3>4, Aside
  <2>5. CASE DiscoveryFails(p) \/ Return(p)
    <3>1. PICK st \in {"failed", "done"} : proc' = [proc EXCEPT ![p] = [q EXCEPT !.st = st]]
      BY <2>5 DEF DiscoveryFails, Return, Set
    <3>2. q.st \in {"info", "port", "load"} /\ UNCHANGED <<hw, snaps, orphans>>
      BY <2>5 DEF DiscoveryFails, Return
    <3> DEFINE f == [q EXCEPT !.st = st]
    <3>3. f.st = st /\ DOMAIN f = Fields /\ f.start = q.start /\ f.got = q.got /\ f.out = q.out
      BY <2>2 DEF Fields
    <3> HIDE DEF f
    <3>4. proc' = [proc EXCEPT ![p] = f] BY <3>1 DEF f
    <3> QED BY <3>1, <3>2, <3>3, <3>4, Aside
  <2>6. CASE RegionNew(p) BY <2>6, NewKeeps
  <2>7. CASE RegionRead(p) BY <2>7, ReadKeeps
  <2>8. CASE ReadFails(p) BY <2>8, FailKeeps
  <2>9. CASE RegionDel(p) BY <2>9, DelKeeps
  <2>10. CASE Reap(p) BY <2>10, Afresh DEF Reap, Set, Ended
  <2>11. CASE Kill(p) BY <2>11, KillKeeps
  <2>12. CASE NewFails(p) BY <2>12, NewFailsKeeps
  <2>13. CASE DelFails(p) BY <2>13, DelFailsKeeps
  <2> QED BY <1>2, <2>1, <2>3, <2>4, <2>5, <2>6, <2>7, <2>8, <2>9, <2>10, <2>11, <2>12, <2>13
<1> QED BY <1>1, <1>2 DEF EnvNext

LEMMA AlwaysEnvInv == EnvSpec => []EnvInv
<1>1. EnvInit => EnvInv
  <2> SUFFICES ASSUME EnvInit PROVE EnvInv OBVIOUS
  <2>2. IsProc(NoProc, 0) BY FreshIs, Nothing DEF IsProc
  <2>3. \A p \in Procs : Taken(p, NoProc, snaps, orphans) BY FreshIs DEF Taken
  <2>4. DOMAIN snaps = {} BY DEF EnvInit
  <2>5. DOMAIN proc = Procs /\ hw = 0 /\ orphans = {} /\ \A p \in Procs : proc[p] = NoProc
    BY DEF EnvInit
  <2>6. Owned BY <2>2, <2>3, <2>5 DEF Owned
  <2>7. Snapshots BY <2>4, <2>5 DEF Snapshots
  <2>8. NoLeak BY <2>4 DEF NoLeak
  <2> QED BY <2>5, <2>6, <2>7, <2>8 DEF EnvInv
<1>2. EnvInv /\ [EnvNext]_envVars => EnvInv'
  <2>1. ASSUME EnvInv, UNCHANGED envVars PROVE EnvInv'
    BY <2>1 DEF envVars, EnvInv, Snapshots, Owned, NoLeak
  <2> QED BY <2>1, StepKeeps
<1> QED BY <1>1, <1>2, PTL DEF EnvSpec

-------------------------------------------------------------------------------
(* What the processes promise.                                             *)

\* Whatever a process shows of a region is one moment's and not older than the process,
\* for any number of processes that take, read, fail on, delete and abandon snapshots.
THEOREM CoherentRegions == EnvSpec => []Coherent
<1>1. EnvInv => Coherent BY ProcIs DEF Coherent, IsProc, OneMoment
<1> QED BY <1>1, AlwaysEnvInv, PTL

\* A snapshot that nobody is at work on was left by an interrupted process or by one whose
\* NEW or DEL query failed.
THEOREM SnapshotsDeleted == EnvSpec => []NoLeak
<1>1. EnvInv => NoLeak BY DEF EnvInv
<1> QED BY <1>1, AlwaysEnvInv, PTL

\* A snapshot is deleted by the process that took it and by no other, and one that an
\* interrupted process or a failed query left behind is never deleted.
THEOREM SnapshotsOwned == EnvSpec => OnlyOwnDeleted
<1> DEFINE Kept(r) == \/ r \in DOMAIN snaps' /\ snaps'[r] = snaps[r]
                      \/ r \notin orphans /\ proc'[snaps[r].by] # proc[snaps[r].by]
<1>1. ASSUME EnvInv, EnvNext, NEW r \in DOMAIN snaps PROVE Kept(r)
  <2>1. CASE UNCHANGED snaps BY <2>1
  <2>2. ASSUME NEW p \in Procs, RegionNew(p) \/ NewFails(p) PROVE Kept(r)
    BY <2>2 DEF RegionNew, NewFails, Snapshot
  <2>3. ASSUME NEW p \in Procs, RegionDel(p) PROVE Kept(r)
    <3>1. CASE r # Head(proc[p].jobs).rgn BY <1>1, <2>3, <3>1, DelIs
    <3>2. CASE r = Head(proc[p].jobs).rgn
      <4>1. /\ r \notin orphans /\ snaps[r].by = p /\ proc[p].st \in {"read", "del"}
            /\ proc' = [proc EXCEPT ![p] = After(proc[p])]
        BY <1>1, <2>3, <3>2, DelIs
      <4>2. After(proc[p]).st \in {"load", "failed", "segv"} BY <1>1, ProcIs, AfterIs
      <4>3. proc'[p] = After(proc[p]) BY <1>1, <4>1 DEF EnvInv
      <4>4. proc'[p] # proc[p] BY <4>1, <4>2, <4>3
      <4> QED BY <4>1, <4>4
    <3> QED BY <3>1, <3>2
  <2>4. \/ UNCHANGED snaps
        \/ \E p \in Procs : RegionNew(p) \/ NewFails(p) \/ RegionDel(p)
    BY <1>1 DEF EnvNext, Change, Start, InfoGet, PortGet, DiscoveryFails, RegionRead,
                ReadFails, DelFails, Return, Reap, Kill
  <2> QED BY <2>1, <2>2, <2>3, <2>4
<1>2. EnvInv /\ [EnvNext]_envVars => [\A r \in DOMAIN snaps : Kept(r)]_envVars BY <1>1
<1> QED BY <1>2, AlwaysEnvInv, PTL DEF EnvSpec, OnlyOwnDeleted

-------------------------------------------------------------------------------
(***************************************************************************)
(* Nothing is left out.  The rest is about Complete: it follows a process  *)
(* from the two queries to its end, through each of the sequences it goes  *)
(* over.  None of them loses an element, and CourseInv says how far the    *)
(* process has come: what it is to show is among its jobs or has been      *)
(* shown, unless it has warned of a table.                                 *)
(***************************************************************************)

\* What is in a sequence, in any order.
Members(s) == {s[i] : i \in 1..Len(s)}

\* The members of two sequences in a row are those of each.
LEMMA JoinMembers ==
  ASSUME NEW S, NEW s \in Seq(S), NEW t \in Seq(S)
  PROVE  /\ s \o t \in Seq(S) /\ Len(s \o t) = Len(s) + Len(t)
         /\ Members(s \o t) = Members(s) \cup Members(t)
<1> DEFINE u == s \o t  m == Len(s)  n == Len(t)
<1>1. /\ u \in Seq(S) /\ m \in Nat /\ n \in Nat /\ Len(u) = m + n
      /\ \A i \in 1..m : u[i] = s[i]
  OBVIOUS
<1>2. \A i \in 1..n : u[m + i] = t[i] BY ConcatProperties
<1> HIDE DEF u, m, n
<1>3. \A i \in 1..(m + n) : i \in 1..m \/ (i - m \in 1..n /\ m + (i - m) = i) BY <1>1
<1>4. \A i \in 1..m : i \in 1..(m + n) BY <1>1
<1>5. \A i \in 1..n : m + i \in 1..(m + n) BY <1>1
<1>6. \A i \in 1..(m + n) : u[i] \in Members(s) \cup Members(t)
  BY <1>1, <1>2, <1>3 DEF Members, m, n
<1>7. \A i \in 1..m : s[i] \in Members(u) BY <1>1, <1>4 DEF Members
<1>8. \A i \in 1..n : t[i] \in Members(u) BY <1>1, <1>2, <1>5 DEF Members
<1> QED BY <1>1, <1>6, <1>7, <1>8 DEF Members, u, m, n

\* One more element is one more member.
LEMMA AppendMembers ==
  ASSUME NEW S, NEW s \in Seq(S), NEW e \in S
  PROVE  Append(s, e) \in Seq(S) /\ Members(Append(s, e)) = Members(s) \cup {e}
<1> DEFINE u == Append(s, e)  m == Len(s)
<1>1. /\ u \in Seq(S) /\ m \in Nat /\ Len(u) = m + 1
      /\ \A i \in 1..m : u[i] = s[i]
  OBVIOUS
<1>2. u[m + 1] = e OBVIOUS
<1> HIDE DEF u, m
<1>3. \A i : i \in 1..(m + 1) <=> i \in 1..m \/ i = m + 1 BY <1>1
<1> QED BY <1>1, <1>2, <1>3 DEF Members, u, m

\* The first sequence and the rest.
LEMMA HeadTail ==
  ASSUME NEW S, NEW s \in Seq(S), s # <<>>
  PROVE  /\ Head(s) \in S /\ Tail(s) \in Seq(S)
         /\ Members(s) = {Head(s)} \cup Members(Tail(s))
<1> DEFINE u == Tail(s)  n == Len(s)
<1>1. /\ u \in Seq(S) /\ n \in Nat \ {0} /\ Len(u) = n - 1 /\ Head(s) = s[1] /\ s[1] \in S
      /\ \A i \in 1..(n - 1) : u[i] = s[i + 1]
  OBVIOUS
<1> HIDE DEF u, n
<1>2. \A i \in 1..n : i = 1 \/ (i - 1 \in 1..(n - 1) /\ (i - 1) + 1 = i) BY <1>1
<1>3. 1 \in 1..n /\ \A i \in 1..(n - 1) : i + 1 \in 1..n BY <1>1
<1>4. ASSUME NEW i \in 1..n PROVE s[i] = Head(s) \/ s[i] \in Members(u)
  <2>1. CASE i = 1 BY <1>1, <2>1
  <2>2. CASE i # 1
    <3>1. i - 1 \in 1..Len(u) /\ u[i - 1] = s[i] BY <1>1, <1>2, <2>2
    <3> QED BY <3>1 DEF Members
  <2> QED BY <2>1, <2>2
<1>5. Head(s) \in Members(s) /\ \A i \in 1..(n - 1) : u[i] \in Members(s)
  BY <1>1, <1>3 DEF Members, n
<1> QED BY <1>1, <1>4, <1>5 DEF Members, u, n

-------------------------------------------------------------------------------
\* FlattenSeq.
Cat(s, t) == s \o t
FlatTo(ss, n, f) == f = [i \in 1..n |-> IF i = 1 THEN ss[i] ELSE Cat(f[i - 1], ss[i])]

\* The function FlattenSeq is defined by, step by step.
LEMMA FlatStep ==
  ASSUME NEW ss, NEW n \in Nat, NEW f, FlatTo(ss, n, f)
  PROVE  /\ 1 \in 1..n => f[1] = ss[1]
         /\ \A i \in 2..n : f[i] = Cat(f[i - 1], ss[i])
<1> DEFINE E(i) == IF i = 1 THEN ss[i] ELSE Cat(f[i - 1], ss[i])
<1>1. f = [i \in 1..n |-> E(i)] BY DEF FlatTo
<1> HIDE DEF E
<1>2. \A i \in 1..n : f[i] = E(i) BY <1>1
<1>3. ASSUME NEW i \in 2..n PROVE f[i] = E(i) BY <1>2
<1>4. \A i \in 2..n : E(i) = Cat(f[i - 1], ss[i]) BY DEF E
<1>5. E(1) = ss[1] BY DEF E
<1> QED BY <1>2, <1>3, <1>4, <1>5

\* There is such a function.
LEMMA FlatExist == ASSUME NEW ss, NEW n \in Nat PROVE \E f : FlatTo(ss, n, f)
<1> DEFINE T == {k \in Nat : \E f : FlatTo(ss, k, f)}
<1>1. 0 \in T
  <2> DEFINE f == [i \in 1..0 |-> <<>>]
  <2>1. FlatTo(ss, 0, f) BY DEF FlatTo
  <2> QED BY <2>1
<1>2. ASSUME NEW k \in Nat, k \in T PROVE k + 1 \in T
  <2>1. PICK f : FlatTo(ss, k, f) BY <1>2
  <2> DEFINE g == [i \in 1..(k + 1) |-> IF i <= k THEN f[i]
                                        ELSE IF i = 1 THEN ss[i] ELSE Cat(f[k], ss[i])]
  <2>2. ASSUME NEW i \in 1..(k + 1)
        PROVE  g[i] = IF i = 1 THEN ss[i] ELSE Cat(g[i - 1], ss[i])
    <3>1. CASE i <= k
      <4>1. f[1] = ss[1] \/ k = 0 BY <2>1, FlatStep
      <4>2. i = 1 \/ i \in 2..k BY <3>1
      <4>3. i \in 2..k => f[i] = Cat(f[i - 1], ss[i]) BY <2>1, FlatStep
      <4> QED BY <3>1, <4>1, <4>2, <4>3
    <3>2. CASE i = k + 1 BY <3>2
    <3> QED BY <3>1, <3>2
  <2>3. FlatTo(ss, k + 1, g) BY <2>2 DEF FlatTo
  <2> QED BY <2>3
<1> HIDE DEF T
<1>3. Nat \subseteq T BY <1>1, <1>2, NatInSet
<1> QED BY <1>3 DEF T

\* Sequences put together have all their members.
LEMMA Flatten ==
  ASSUME NEW S, NEW ss \in Seq(Seq(S))
  PROVE  /\ FlattenSeq(ss) \in Seq(S)
         /\ \A i \in 1..Len(ss) : Members(ss[i]) \subseteq Members(FlattenSeq(ss))
<1> DEFINE n == Len(ss)
<1>1. n \in Nat OBVIOUS
<1>2. CASE n = 0
  <2>1. ss = <<>> BY <1>2
  <2> QED BY <2>1 DEF FlattenSeq
<1>3. CASE n # 0
  <2> DEFINE f == CHOOSE g : FlatTo(ss, n, g)
  <2>1. FlatTo(ss, n, f) BY <1>1, FlatExist
  <2>2. FlattenSeq(ss) = f[n] BY <1>3 DEF FlattenSeq, FlatTo, Cat
  <2> HIDE DEF f, n
  <2>3. f[1] = ss[1] /\ \A i \in 2..n : f[i] = Cat(f[i - 1], ss[i])
    <3>1. 1 \in 1..n BY <1>1, <1>3
    <3> QED BY <1>1, <2>1, <3>1, FlatStep
  <2>4. \A i \in 1..n : ss[i] \in Seq(S) BY DEF n
  <2> DEFINE T == {k \in Nat : k + 1 <= n =>
                     f[k + 1] \in Seq(S) /\ \A i \in 1..(k + 1) : Members(ss[i]) \subseteq Members(f[k + 1])}
  <2>5. 0 \in T BY <1>1, <2>3, <2>4
  <2>6. ASSUME NEW k \in Nat, k \in T PROVE k + 1 \in T
    <3> SUFFICES ASSUME (k + 1) + 1 <= n
                 PROVE  /\ f[(k + 1) + 1] \in Seq(S)
                        /\ \A i \in 1..((k + 1) + 1) : Members(ss[i]) \subseteq Members(f[(k + 1) + 1])
      OBVIOUS
    <3> DEFINE m == (k + 1) + 1
    <3>1. m \in 2..n /\ m - 1 = k + 1 /\ m \in 1..n BY <1>1
    <3>2. f[k + 1] \in Seq(S) /\ \A i \in 1..(k + 1) : Members(ss[i]) \subseteq Members(f[k + 1])
      BY <1>1, <2>6
    <3>3. f[m] = f[k + 1] \o ss[m] BY <2>3, <3>1 DEF Cat
    <3>4. ss[m] \in Seq(S) BY <2>4, <3>1
    <3>5. f[m] \in Seq(S) /\ Members(f[m]) = Members(f[k + 1]) \cup Members(ss[m])
      BY <3>2, <3>3, <3>4, JoinMembers
    <3>6. \A i \in 1..m : i \in 1..(k + 1) \/ i = m OBVIOUS
    <3> HIDE DEF m
    <3>7. \A i \in 1..m : Members(ss[i]) \subseteq Members(f[m]) BY <3>2, <3>5, <3>6
    <3> QED BY <3>5, <3>7 DEF m
  <2> HIDE DEF T
  <2>7. Nat \subseteq T BY <2>5, <2>6, NatInSet
  <2>8. n - 1 \in Nat /\ (n - 1) + 1 = n BY <1>1, <1>3
  <2>9. f[n] \in Seq(S) /\ \A i \in 1..n : Members(ss[i]) \subseteq Members(f[n])
    <3> DEFINE k == n - 1
    <3>1. k \in T /\ k + 1 = n BY <2>7, <2>8
    <3> HIDE DEF k
    <3>2. k + 1 <= n BY <1>1, <3>1
    <3>3. f[k + 1] \in Seq(S) /\ \A i \in 1..(k + 1) : Members(ss[i]) \subseteq Members(f[k + 1])
      BY <3>1, <3>2 DEF T
    <3> QED BY <3>1, <3>3
  <2> QED BY <2>2, <2>9 DEF n
<1> QED BY <1>2, <1>3

-------------------------------------------------------------------------------
(* The two queries.  FoldLeft goes over the places of a sequence by sets of *)
(* them; only the first n matter.                                          *)

\* The callbacks of the two queries.
Cb(query, q, m) == IF query = "info" THEN env_init_dev_cb(q, m) ELSE env_init_port_cb(q, m)

\* f gives what a callback makes of the messages of any of the places 1 to n.
FoldTo(query, base, ss, n, f) ==
  f = [s \in SUBSET (1..n) |->
         IF s = {} THEN base ELSE Cb(query, f[s \ {Max(s)}], ss[Max(s)])]

\* The last of the first n places is n, if it is there.
LEMMA MaxIs ==
  ASSUME NEW n \in Nat, NEW s \in SUBSET (1..n), n \in s
  PROVE  Max(s) = n
<1>1. \A y \in s : n >= y OBVIOUS
<1>2. \A x \in s : (\A y \in s : x >= y) => x = n OBVIOUS
<1> QED BY <1>1, <1>2 DEF Max

Steps(query, base, ss, n, f) ==
  /\ f[{}] = base
  /\ \A s \in SUBSET (1..n) : s # {} => f[s] = Cb(query, f[s \ {Max(s)}], ss[Max(s)])

\* The function FoldLeft is defined by, step by step.
LEMMA FoldStep ==
  ASSUME NEW query, NEW base, NEW ss, NEW n \in Nat, NEW f, FoldTo(query, base, ss, n, f)
  PROVE  Steps(query, base, ss, n, f)
<1> DEFINE E(s) == IF s = {} THEN base ELSE Cb(query, f[s \ {Max(s)}], ss[Max(s)])
<1>1. f = [s \in SUBSET (1..n) |-> E(s)] BY DEF FoldTo
<1> HIDE DEF E
<1>2. \A s \in SUBSET (1..n) : f[s] = E(s) BY <1>1
<1>3. {} \in SUBSET (1..n) OBVIOUS
<1>4. f[{}] = E({}) BY <1>2, <1>3
<1>5. E({}) = base BY DEF E
<1>6. \A s : s # {} => E(s) = Cb(query, f[s \ {Max(s)}], ss[Max(s)]) BY DEF E
<1> QED BY <1>2, <1>4, <1>5, <1>6 DEF Steps

\* There is such a function.
LEMMA FoldExist ==
  ASSUME NEW query, NEW base, NEW ss, NEW last \in Nat PROVE \E f : FoldTo(query, base, ss, last, f)
<1> DEFINE T == {k \in Nat : \E f : FoldTo(query, base, ss, k, f)}
<1>1. 0 \in T
  <2> DEFINE f == [s \in SUBSET (1..0) |-> base]
  <2>1. \A s \in SUBSET (1..0) : s = {} OBVIOUS
  <2>2. FoldTo(query, base, ss, 0, f) BY <2>1 DEF FoldTo
  <2> QED BY <2>2
<1>2. ASSUME NEW k \in Nat, k \in T PROVE k + 1 \in T
  <2>1. PICK f : FoldTo(query, base, ss, k, f) BY <1>2
  <2>9. Steps(query, base, ss, k, f) BY <2>1, FoldStep
  <2>0. /\ f[{}] = base
        /\ \A s \in SUBSET (1..k) : s # {} => f[s] = Cb(query, f[s \ {Max(s)}], ss[Max(s)])
    BY <2>9 DEF Steps
  <2> DEFINE n == k + 1
             g == [s \in SUBSET (1..n) |-> IF n \in s THEN Cb(query, f[s \ {n}], ss[n]) ELSE f[s]]
             E(s) == IF s = {} THEN base ELSE Cb(query, g[s \ {Max(s)}], ss[Max(s)])
  <2>2. n \in Nat OBVIOUS
  <2>3. \A s \in SUBSET (1..n) : n \notin s => s \in SUBSET (1..k) OBVIOUS
  <2>4. \A s \in SUBSET (1..k) : s \in SUBSET (1..n) /\ n \notin s OBVIOUS
  <2> HIDE DEF n
  <2>5. \A s \in SUBSET (1..k) : g[s] = f[s] BY <2>4
  <2>6. ASSUME NEW s \in SUBSET (1..n) PROVE g[s] = E(s)
    <3>1. CASE n \in s
      <4>1. Max(s) = n BY <2>2, <3>1, MaxIs
      <4>2. s \ {n} \in SUBSET (1..k) BY <2>3
      <4>3. g[s \ {n}] = f[s \ {n}] BY <2>5, <4>2
      <4> QED BY <3>1, <4>1, <4>3
    <3>2. CASE n \notin s
      <4>1. s \in SUBSET (1..k) BY <2>3, <3>2
      <4>2. g[s] = f[s] BY <2>5, <4>1
      <4>3. CASE s = {} BY <2>0, <4>2, <4>3
      <4>4. CASE s # {}
        <5>1. s \ {Max(s)} \in SUBSET (1..k) BY <4>1
        <5>2. g[s \ {Max(s)}] = f[s \ {Max(s)}] BY <2>5, <5>1
        <5>3. f[s] = Cb(query, f[s \ {Max(s)}], ss[Max(s)]) BY <2>0, <4>1, <4>4
        <5> QED BY <4>2, <4>4, <5>2, <5>3
      <4> QED BY <4>3, <4>4
    <3> QED BY <3>1, <3>2
  <2>7. g = [s \in SUBSET (1..n) |-> g[s]] OBVIOUS
  <2> HIDE DEF g
  <2>8. FoldTo(query, base, ss, n, g) BY <2>6, <2>7 DEF FoldTo
  <2> QED BY <2>2, <2>8 DEF n
<1> HIDE DEF T
<1>3. Nat \subseteq T BY <1>1, <1>2, NatInSet
<1> QED BY <1>3 DEF T

\* What a query leaves after each of its messages, and at its end.
Answers(query, base, ss, n, g) ==
  g[0] = base /\ \A i \in 1..n : g[i] = Cb(query, g[i - 1], ss[i])

\* What the callbacks make of all the messages, they make of them one by one.
LEMMA EachAnswer ==
  ASSUME NEW query, NEW base, NEW ss, NEW n \in Nat,
         NEW f, FoldTo(query, base, ss, n, f)
  PROVE  \E g : Answers(query, base, ss, n, g) /\ g[n] = f[1..n]
<1> DEFINE g == [i \in 0..n |-> f[1..i]]
<1>0. /\ f[{}] = base
      /\ \A s \in SUBSET (1..n) : s # {} => f[s] = Cb(query, f[s \ {Max(s)}], ss[Max(s)])
  <2>1. Steps(query, base, ss, n, f) BY FoldStep
  <2> QED BY <2>1 DEF Steps
<1>1. g[0] = base
  <2>1. 0 \in 0..n /\ 1..0 = {} OBVIOUS
  <2>2. g[0] = f[{}] BY <2>1
  <2> QED BY <1>0, <2>2
<1>2. ASSUME NEW i \in 1..n PROVE g[i] = Cb(query, g[i - 1], ss[i])
  <2>1. i \in 0..n /\ i - 1 \in 0..n /\ i \in Nat /\ i \in 1..i OBVIOUS
  <2>2. \A x \in 1..i : x \in 1..n BY <2>1
  <2>6. 1..i \in SUBSET (1..n) /\ 1..i # {} BY <2>1, <2>2
  <2>3. Max(1..i) = i BY <2>1, MaxIs
  <2>4. (1..i) \ {i} = 1..(i - 1) BY <2>1
  <2>5. f[1..i] = Cb(query, f[1..(i - 1)], ss[i]) BY <1>0, <2>6, <2>3, <2>4
  <2> QED BY <2>1, <2>5
<1>3. g[n] = f[1..n] OBVIOUS
<1> HIDE DEF g
<1> QED BY <1>1, <1>2, <1>3 DEF Answers

\* The first query calls env_init_dev_cb for one message after the other.
LEMMA InfoFold ==
  ASSUME NEW S, NEW ss \in Seq(S), NEW base
  PROVE  \E g : Answers("info", base, ss, Len(ss), g) /\ g[Len(ss)] = FoldLeft(env_init_dev_cb, base, ss)
<1> DEFINE f == CHOOSE g : FoldTo("info", base, ss, Len(ss), g)
<1>1. Len(ss) \in Nat /\ DOMAIN ss = 1..Len(ss) OBVIOUS
<1>2. FoldTo("info", base, ss, Len(ss), f) BY <1>1, FoldExist
<1>3. f[1..Len(ss)] = FoldLeft(env_init_dev_cb, base, ss)
  BY <1>1 DEF FoldLeft, MapThenFoldSet, FoldTo, Cb
<1> HIDE DEF f
<1> QED BY <1>1, <1>2, <1>3, EachAnswer

\* The second calls env_init_port_cb.
LEMMA PortFold ==
  ASSUME NEW S, NEW ss \in Seq(S), NEW base
  PROVE  \E g : Answers("port", base, ss, Len(ss), g) /\ g[Len(ss)] = FoldLeft(env_init_port_cb, base, ss)
<1> DEFINE f == CHOOSE g : FoldTo("port", base, ss, Len(ss), g)
<1>1. Len(ss) \in Nat /\ DOMAIN ss = 1..Len(ss) OBVIOUS
<1>2. FoldTo("port", base, ss, Len(ss), f) BY <1>1, FoldExist
<1>3. f[1..Len(ss)] = FoldLeft(env_init_port_cb, base, ss)
  BY <1>1 DEF FoldLeft, MapThenFoldSet, FoldTo, Cb
<1> HIDE DEF f
<1> QED BY <1>1, <1>2, <1>3, EachAnswer

\* The devices of env->devs.
DevRec == [dev : STRING, index : Int, ports : Seq(Nat)]

\* They are the switches that mvls knows.
Found(devs) ==
  /\ devs \in Seq(DevRec)
  /\ \A d \in Members(devs) : \E i \in 1..Len(sys) : Supported(sys[i]) /\ d.dev = sys[i].dev
  /\ \A i \in 1..Len(sys) : Supported(sys[i]) => \E d \in Members(devs) : d.dev = sys[i].dev

\* So far, after n messages.
FoundTo(q, n) ==
  /\ q \in [devs : Seq(DevRec), err : BOOLEAN]
  /\ \A d \in Members(q.devs) : \E i \in 1..Len(sys) : Supported(sys[i]) /\ d.dev = sys[i].dev
  /\ ~q.err => \A i \in 1..n : Supported(sys[i]) => \E d \in Members(q.devs) : d.dev = sys[i].dev

\* What devlink may tell of a device.
LEMMA SystemIs == ASSUME NEW i \in 1..Len(sys), IsSystem(sys) PROVE sys[i] \in Switches
BY DEF IsSystem

\* One message more: a switch that mvls knows is added, any other is not.
LEMMA DevCb ==
  ASSUME IsSystem(sys), NEW n \in Nat, n + 1 \in 1..Len(sys), NEW q, FoundTo(q, n)
  PROVE  FoundTo(env_init_dev_cb(q, sys[n + 1]), n + 1)
<1> DEFINE s == sys[n + 1]
<1>1. s \in Switches BY SystemIs
<1>2. q \in [devs : Seq(DevRec), err : BOOLEAN] BY DEF FoundTo
<1>3. /\ \A d \in Members(q.devs) : \E i \in 1..Len(sys) : Supported(sys[i]) /\ d.dev = sys[i].dev
      /\ ~q.err => \A i \in 1..n : Supported(sys[i]) => \E d \in Members(q.devs) : d.dev = sys[i].dev
  BY DEF FoundTo
<1>4. \A i \in 1..(n + 1) : i \in 1..n \/ i = n + 1 OBVIOUS
<1> HIDE DEF s
<1>5. CASE q.err \/ ~s.mv88e6 \/ s.asic = "none"
  <2>1. env_init_dev_cb(q, s) = q BY <1>5 DEF env_init_dev_cb
  <2>2. q.err \/ ~Supported(s) BY <1>5 DEF Supported
  <2>3. ~q.err => \A i \in 1..(n + 1) : Supported(sys[i]) => \E d \in Members(q.devs) : d.dev = sys[i].dev
    BY <1>3, <1>4, <2>2 DEF s
  <2>4. FoundTo(q, n + 1) BY <1>2, <1>3, <2>3 DEF FoundTo
  <2> QED BY <2>1, <2>4 DEF s
<1>6. CASE ~(q.err \/ ~s.mv88e6 \/ s.asic = "none") /\ s.asic = "unknown"
  <2> DEFINE r == [q EXCEPT !.err = TRUE]
  <2>1. env_init_dev_cb(q, s) = r BY <1>6 DEF env_init_dev_cb
  <2>2. r \in [devs : Seq(DevRec), err : BOOLEAN] /\ r.err /\ r.devs = q.devs BY <1>2
  <2> HIDE DEF r
  <2>3. FoundTo(r, n + 1) BY <1>3, <2>2 DEF FoundTo
  <2> QED BY <2>1, <2>3 DEF s
<1>7. CASE ~(q.err \/ ~s.mv88e6 \/ s.asic = "none") /\ s.asic # "unknown"
  <2> DEFINE new == [dev |-> s.dev, index |-> -1, ports |-> <<>>]
             r == [q EXCEPT !.devs = Append(q.devs, new)]
  <2>1. env_init_dev_cb(q, s) = r BY <1>7 DEF env_init_dev_cb
  <2>2. new \in DevRec /\ new.dev = s.dev BY <1>1 DEF DevRec, Switches
  <2>3. Supported(s) BY <1>1, <1>7 DEF Supported, Switches
  <2> HIDE DEF new
  <2>4. Append(q.devs, new) \in Seq(DevRec) /\ Members(Append(q.devs, new)) = Members(q.devs) \cup {new}
    BY <1>2, <2>2, AppendMembers
  <2>5. /\ r \in [devs : Seq(DevRec), err : BOOLEAN] /\ r.err = q.err
        /\ Members(r.devs) = Members(q.devs) \cup {new}
    BY <1>2, <2>4
  <2> HIDE DEF r
  <2>6. \A d \in Members(r.devs) : \E i \in 1..Len(sys) : Supported(sys[i]) /\ d.dev = sys[i].dev
    BY <1>3, <2>2, <2>3, <2>5 DEF s
  <2>7. ~r.err => \A i \in 1..(n + 1) : Supported(sys[i]) => \E d \in Members(r.devs) : d.dev = sys[i].dev
    BY <1>3, <1>4, <2>2, <2>5 DEF s
  <2>8. FoundTo(r, n + 1) BY <2>5, <2>6, <2>7 DEF FoundTo
  <2> QED BY <2>1, <2>8 DEF s
<1> QED BY <1>5, <1>6, <1>7

\* The first query finds the switches, unless it fails.
LEMMA InfoFinds ==
  ASSUME IsSystem(sys)
  PROVE  LET q == FoldLeft(env_init_dev_cb, [devs |-> <<>>, err |-> FALSE], sys)
         IN  ~q.err => Found(q.devs)
<1> DEFINE base == [devs |-> <<>>, err |-> FALSE]
           n == Len(sys)
<1>1. sys \in Seq(Switches) /\ n \in Nat BY DEF IsSystem
<1>2. base \in [devs : Seq(DevRec), err : BOOLEAN] /\ base.devs = <<>> /\ Members(<<>>) = {}
  BY DEF Members
<1> HIDE DEF base
<1>3. PICK g : Answers("info", base, sys, n, g) /\ g[n] = FoldLeft(env_init_dev_cb, base, sys)
  BY <1>1, InfoFold
<1> HIDE DEF n
<1>4. g[0] = base /\ \A i \in 1..n : g[i] = env_init_dev_cb(g[i - 1], sys[i])
  BY <1>3 DEF Answers, Cb
<1> DEFINE T == {k \in Nat : k <= n => FoundTo(g[k], k)}
<1>5. 0 \in T BY <1>2, <1>4 DEF FoundTo
<1>6. ASSUME NEW k \in Nat, k \in T PROVE k + 1 \in T
  <2> SUFFICES ASSUME k + 1 <= n PROVE FoundTo(g[k + 1], k + 1) OBVIOUS
  <2>1. FoundTo(g[k], k) /\ k + 1 \in 1..n /\ (k + 1) - 1 = k BY <1>1, <1>6
  <2>2. g[k + 1] = env_init_dev_cb(g[k], sys[k + 1]) BY <1>4, <2>1
  <2> QED BY <2>1, <2>2, DevCb DEF n
<1> HIDE DEF T
<1>7. Nat \subseteq T BY <1>5, <1>6, NatInSet
<1>8. FoundTo(g[n], n) BY <1>1, <1>7 DEF T
<1>9. ~g[n].err => Found(g[n].devs) BY <1>8 DEF FoundTo, Found, n
<1> QED BY <1>3, <1>9 DEF base

\* The same devices in the same places.
Same(a, b) ==
  Len(a) = Len(b) /\ \A i \in 1..Len(b) : a[i].dev = b[i].dev /\ a[i].index = b[i].index

PortMsg == [dev : STRING, port : Nat]

\* After n messages of a dump the devices have the ports that were in them.
PortsTo(a, b, dump, n) ==
  /\ a \in Seq(DevRec) /\ Same(a, b)
  /\ \A i \in 1..Len(b), k \in 1..n : a[i].dev = dump[k].dev => dump[k].port \in Members(a[i].ports)

\* One message more: the port is added to the device it names, and to no other.
LEMMA PortCb ==
  ASSUME NEW b \in Seq(DevRec), NEW dump \in Seq(PortMsg), NEW n \in Nat, n + 1 \in 1..Len(dump),
         NEW a, PortsTo(a, b, dump, n)
  PROVE  PortsTo(env_init_port_cb(a, dump[n + 1]), b, dump, n + 1)
<1> DEFINE m == dump[n + 1]
           At(i) == IF a[i].dev = m.dev THEN [a[i] EXCEPT !.ports = Append(a[i].ports, m.port)] ELSE a[i]
           c == [i \in 1..Len(a) |-> At(i)]
<1>1. m \in PortMsg OBVIOUS
<1>2. a \in Seq(DevRec) /\ Same(a, b) BY DEF PortsTo
<1>3. Len(a) \in Nat /\ Len(a) = Len(b) BY <1>2 DEF Same
<1>4. \A i \in 1..Len(b) : a[i] \in DevRec BY <1>2, <1>3
<1>5. \A i \in 1..(n + 1) : i \in 1..n \/ i = n + 1 OBVIOUS
<1> HIDE DEF m
<1>6. ASSUME NEW i \in 1..Len(b)
      PROVE  /\ At(i) \in DevRec /\ At(i).dev = a[i].dev /\ At(i).index = a[i].index
             /\ Members(a[i].ports) \subseteq Members(At(i).ports)
             /\ a[i].dev = m.dev => m.port \in Members(At(i).ports)
  <2>1. a[i] \in DevRec /\ a[i].ports \in Seq(Nat) /\ m.port \in Nat BY <1>1, <1>4 DEF DevRec, PortMsg
  <2>2. CASE a[i].dev # m.dev BY <2>1, <2>2
  <2>3. CASE a[i].dev = m.dev
    <3>1. /\ Append(a[i].ports, m.port) \in Seq(Nat)
          /\ Members(Append(a[i].ports, m.port)) = Members(a[i].ports) \cup {m.port}
      BY <2>1, AppendMembers
    <3>2. At(i) = [a[i] EXCEPT !.ports = Append(a[i].ports, m.port)] BY <2>3
    <3>3. /\ At(i) \in DevRec /\ At(i).dev = a[i].dev /\ At(i).index = a[i].index
          /\ At(i).ports = Append(a[i].ports, m.port)
      BY <2>1, <3>1, <3>2 DEF DevRec
    <3> QED BY <3>1, <3>3
  <2> QED BY <2>2, <2>3
<1> HIDE DEF At
<1>7. \A i \in 1..Len(b) : c[i] = At(i) BY <1>3
<1>8. c \in Seq(DevRec) /\ Len(c) = Len(b) BY <1>3, <1>6
<1>9. env_init_port_cb(a, m) = c BY DEF env_init_port_cb, At
<1> HIDE DEF c
<1>10. Same(c, b) BY <1>2, <1>6, <1>7, <1>8 DEF Same
<1>11. ASSUME NEW i \in 1..Len(b), NEW k \in 1..(n + 1), c[i].dev = dump[k].dev
       PROVE  dump[k].port \in Members(c[i].ports)
  <2>1. c[i] = At(i) /\ a[i].dev = dump[k].dev BY <1>6, <1>7, <1>11
  <2>2. CASE k \in 1..n
    <3>1. dump[k].port \in Members(a[i].ports) BY <2>1, <2>2 DEF PortsTo
    <3> QED BY <1>6, <2>1, <3>1
  <2>3. CASE k = n + 1 BY <1>6, <2>1, <2>3 DEF m
  <2> QED BY <1>5, <2>2, <2>3
<1>12. PortsTo(c, b, dump, n + 1) BY <1>8, <1>10, <1>11 DEF PortsTo
<1> QED BY <1>9, <1>12 DEF m

\* The dump of all ports names every port of every device.
LEMMA DumpIs ==
  ASSUME IsSystem(sys)
  PROVE  /\ PortDump \in Seq(PortMsg)
         /\ \A i \in 1..Len(sys) : \A j \in 1..Len(sys[i].ports) :
              \E k \in 1..Len(PortDump) : PortDump[k] = [dev |-> sys[i].dev, port |-> sys[i].ports[j]]
<1> DEFINE One(i) == [j \in 1..Len(sys[i].ports) |-> [dev |-> sys[i].dev, port |-> sys[i].ports[j]]]
           ss == [i \in 1..Len(sys) |-> One(i)]
<1>1. sys \in Seq(Switches) /\ Len(sys) \in Nat BY DEF IsSystem
<1>2. ASSUME NEW i \in 1..Len(sys)
      PROVE  /\ One(i) \in Seq(PortMsg)
             /\ \A j \in 1..Len(sys[i].ports) :
                  [dev |-> sys[i].dev, port |-> sys[i].ports[j]] \in Members(One(i))
  <2>1. sys[i].dev \in STRING /\ sys[i].ports \in Seq(Nat) BY SystemIs DEF Switches
  <2> DEFINE p == sys[i].ports
             d == sys[i].dev
  <2> HIDE DEF p, d
  <2>2. p \in Seq(Nat) /\ d \in STRING BY <2>1 DEF p, d
  <2>3. Len(p) \in Nat /\ \A j \in 1..Len(p) : p[j] \in Nat BY <2>2
  <2>4. \A j \in 1..Len(p) : [dev |-> d, port |-> p[j]] \in PortMsg BY <2>2, <2>3 DEF PortMsg
  <2> DEFINE M(j) == [dev |-> d, port |-> p[j]]
             o == [j \in 1..Len(p) |-> M(j)]
  <2> HIDE DEF M
  <2>5. \A j \in 1..Len(p) : M(j) \in PortMsg BY <2>4 DEF M
  <2>6. o \in Seq(PortMsg) /\ Len(o) = Len(p) /\ \A j \in 1..Len(p) : o[j] = M(j) BY <2>3, <2>5
  <2> HIDE DEF o
  <2>7. \A j \in 1..Len(p) : M(j) \in Members(o) BY <2>6 DEF Members
  <2>8. One(i) = o BY DEF o, M, d, p
  <2> QED BY <2>6, <2>7, <2>8 DEF M, d, p
<1> HIDE DEF One
<1>3. ss \in Seq(Seq(PortMsg)) /\ Len(ss) = Len(sys) /\ \A i \in 1..Len(sys) : ss[i] = One(i)
  BY <1>1, <1>2
<1>4. PortDump = FlattenSeq(ss) BY DEF PortDump, One
<1> HIDE DEF ss
<1>5. /\ PortDump \in Seq(PortMsg)
      /\ \A i \in 1..Len(sys) : Members(One(i)) \subseteq Members(PortDump)
  BY <1>3, <1>4, Flatten
<1>6. ASSUME NEW i \in 1..Len(sys), NEW j \in 1..Len(sys[i].ports)
      PROVE  [dev |-> sys[i].dev, port |-> sys[i].ports[j]] \in Members(PortDump)
  BY <1>2, <1>5
<1> QED BY <1>5, <1>6 DEF Members

\* The devices have the ports of the switches.
Equipped(devs) ==
  \A d \in Members(devs), i \in 1..Len(sys) :
    d.dev = sys[i].dev => Members(sys[i].ports) \subseteq Members(d.ports)

\* Devices of the same names are those switches as well.
LEMMA FoundLike ==
  ASSUME NEW a \in Seq(DevRec), NEW b, Found(b),
         \A d \in Members(a) : \E e \in Members(b) : d.dev = e.dev,
         \A e \in Members(b) : \E d \in Members(a) : d.dev = e.dev
  PROVE  Found(a)
<1>1. ASSUME NEW d \in Members(a)
      PROVE  \E i \in 1..Len(sys) : Supported(sys[i]) /\ d.dev = sys[i].dev
  <2>1. PICK e \in Members(b) : d.dev = e.dev OBVIOUS
  <2>2. PICK i \in 1..Len(sys) : Supported(sys[i]) /\ e.dev = sys[i].dev BY DEF Found
  <2> QED BY <2>1, <2>2
<1>2. ASSUME NEW i \in 1..Len(sys), Supported(sys[i])
      PROVE  \E d \in Members(a) : d.dev = sys[i].dev
  <2>1. PICK e \in Members(b) : e.dev = sys[i].dev BY <1>2 DEF Found
  <2>2. PICK d \in Members(a) : d.dev = e.dev OBVIOUS
  <2> QED BY <2>1, <2>2
<1> QED BY <1>1, <1>2 DEF Found

\* Devices in the same places, but for their ports, are those switches as well.
LEMMA SameFound ==
  ASSUME NEW a \in Seq(DevRec), NEW b, Same(a, b), Found(b) PROVE Found(a)
<1>1. b \in Seq(DevRec) /\ Len(a) = Len(b) BY DEF Found, Same
<1>2. \A d \in Members(a) : \E e \in Members(b) : d.dev = e.dev BY <1>1 DEF Members, Same
<1>3. \A e \in Members(b) : \E d \in Members(a) : d.dev = e.dev BY <1>1 DEF Members, Same
<1> QED BY <1>2, <1>3, FoundLike

\* The second query gives the devices their ports.
LEMMA PortsFound ==
  ASSUME IsSystem(sys), NEW devs, Found(devs)
  PROVE  LET a == FoldLeft(env_init_port_cb, devs, PortDump) IN Found(a) /\ Equipped(a)
<1> DEFINE dump == PortDump
           n == Len(dump)
<1>1. devs \in Seq(DevRec) BY DEF Found
<1>2. dump \in Seq(PortMsg) /\ n \in Nat BY DumpIs
<1>3. \A i \in 1..Len(sys) : \A j \in 1..Len(sys[i].ports) :
        \E k \in 1..n : dump[k] = [dev |-> sys[i].dev, port |-> sys[i].ports[j]]
  BY DumpIs
<1> HIDE DEF dump
<1>4. PICK g : Answers("port", devs, dump, n, g) /\ g[n] = FoldLeft(env_init_port_cb, devs, dump)
  BY <1>2, PortFold
<1> HIDE DEF n
<1>5. g[0] = devs /\ \A i \in 1..n : g[i] = env_init_port_cb(g[i - 1], dump[i])
  BY <1>4 DEF Answers, Cb
<1> DEFINE T == {k \in Nat : k <= n => PortsTo(g[k], devs, dump, k)}
<1>6. 0 \in T BY <1>1, <1>5 DEF PortsTo, Same
<1>7. ASSUME NEW k \in Nat, k \in T PROVE k + 1 \in T
  <2> SUFFICES ASSUME k + 1 <= n PROVE PortsTo(g[k + 1], devs, dump, k + 1) OBVIOUS
  <2>1. PortsTo(g[k], devs, dump, k) /\ k + 1 \in 1..n /\ (k + 1) - 1 = k BY <1>2, <1>7
  <2>2. g[k + 1] = env_init_port_cb(g[k], dump[k + 1]) BY <1>5, <2>1
  <2> QED BY <1>1, <1>2, <2>1, <2>2, PortCb DEF n
<1> HIDE DEF T
<1>8. Nat \subseteq T BY <1>6, <1>7, NatInSet
<1>9. PortsTo(g[n], devs, dump, n) BY <1>2, <1>8 DEF T
<1> DEFINE a == g[n]
<1>10. a \in Seq(DevRec) /\ Same(a, devs) BY <1>9 DEF PortsTo
<1>11. Found(a) BY <1>10, SameFound
<1>12. Equipped(a)
  <2> SUFFICES ASSUME NEW d \in Members(a), NEW i \in 1..Len(sys), d.dev = sys[i].dev,
                      NEW p \in Members(sys[i].ports)
               PROVE  p \in Members(d.ports)
    BY DEF Equipped
  <2>4. PICK x \in 1..Len(a) : d = a[x] BY DEF Members
  <2>5. PICK j \in 1..Len(sys[i].ports) : p = sys[i].ports[j] BY DEF Members
  <2>1. PICK k \in 1..n : dump[k] = [dev |-> sys[i].dev, port |-> sys[i].ports[j]] BY <1>3
  <2>2. dump[k].dev = sys[i].dev /\ dump[k].port = sys[i].ports[j] BY <2>1
  <2>3. x \in 1..Len(devs) BY <1>10 DEF Same
  <2> QED BY <1>9, <2>2, <2>3, <2>4, <2>5 DEF PortsTo
<1> QED BY <1>4, <1>11, <1>12 DEF dump

-------------------------------------------------------------------------------
(* dev_init and the sort.                                                  *)

\* A device's index is its switch's.
Right(d) == \A i \in 1..Len(sys) : d.dev = sys[i].dev => d.index = sys[i].index

IndexOf(name) ==
  CHOOSE i \in 0..31 : \E j \in 1..Len(sys) : sys[j].dev = name /\ sys[j].index = i

\* The index that dev_init reads is that of the switch with the name.
LEMMA IndexIs ==
  ASSUME IsSystem(sys), NEW k \in 1..Len(sys), NEW name, name = sys[k].dev
  PROVE  /\ IndexOf(name) \in 0..31
         /\ \A i \in 1..Len(sys) : name = sys[i].dev => IndexOf(name) = sys[i].index
<1> DEFINE Of(i) == \E j \in 1..Len(sys) : sys[j].dev = name /\ sys[j].index = i
           x == CHOOSE i \in 0..31 : Of(i)
<1>1. sys[k] \in Switches BY SystemIs
<1>2. sys[k].index \in 0..31 BY <1>1 DEF Switches
<1>3. Of(sys[k].index) OBVIOUS
<1>7. IndexOf(name) = x BY DEF IndexOf
<1> HIDE DEF Of
<1>4. x \in 0..31 /\ Of(x) BY <1>2, <1>3
<1>5. \A i, j \in 1..Len(sys) : sys[i].dev = sys[j].dev => i = j BY DEF IsSystem
<1> HIDE DEF x
<1>6. \A i \in 1..Len(sys) : name = sys[i].dev => x = sys[i].index BY <1>4, <1>5 DEF Of
<1> QED BY <1>4, <1>6, <1>7

\* dev_init sets the index of the device, and nothing else.
LEMMA InitIs ==
  ASSUME IsSystem(sys), NEW devs, Found(devs), Equipped(devs), NEW name
  PROVE  LET a == dev_init(devs, name)
         IN  /\ Found(a) /\ Equipped(a)
             /\ \A d \in Members(a) : (d.dev = name /\ Right(d)) \/ (d.dev # name /\ d \in Members(devs))
<1> DEFINE x == IndexOf(name)
           At(i) == IF devs[i].dev = name THEN [devs[i] EXCEPT !.index = x] ELSE devs[i]
           a == [i \in 1..Len(devs) |-> At(i)]
<1>1. devs \in Seq(DevRec) /\ Len(devs) \in Nat /\ \A i \in 1..Len(devs) : devs[i] \in DevRec
  BY DEF Found
<1>2. dev_init(devs, name) = a BY DEF dev_init, IndexOf
<1>3. ASSUME NEW i \in 1..Len(devs), devs[i].dev = name
      PROVE  x \in 0..31 /\ \A k \in 1..Len(sys) : name = sys[k].dev => x = sys[k].index
  <2>1. devs[i] \in Members(devs) BY DEF Members
  <2>2. PICK k \in 1..Len(sys) : name = sys[k].dev BY <1>3, <2>1 DEF Found
  <2> QED BY <2>2, IndexIs
<1> HIDE DEF x
<1>4. ASSUME NEW i \in 1..Len(devs)
      PROVE  /\ At(i) \in DevRec /\ At(i).dev = devs[i].dev /\ At(i).ports = devs[i].ports
             /\ (At(i).dev = name /\ Right(At(i))) \/ (At(i).dev # name /\ At(i) = devs[i])
  <2>1. CASE devs[i].dev # name BY <1>1, <2>1
  <2>2. CASE devs[i].dev = name
    <3>1. At(i) = [devs[i] EXCEPT !.index = x] BY <2>2
    <3>5. x \in 0..31 BY <1>3, <2>2
    <3>2. devs[i] \in DevRec /\ x \in Int BY <1>1, <3>5
    <3>3. At(i) \in DevRec /\ At(i).dev = name /\ At(i).ports = devs[i].ports /\ At(i).index = x
      BY <2>2, <3>1, <3>2 DEF DevRec
    <3>4. Right(At(i)) BY <1>3, <2>2, <3>3 DEF Right
    <3> QED BY <2>2, <3>3, <3>4
  <2> QED BY <2>1, <2>2
<1> HIDE DEF At
<1>5. a \in Seq(DevRec) /\ Len(a) = Len(devs) /\ \A i \in 1..Len(devs) : a[i] = At(i) BY <1>1, <1>4
<1> HIDE DEF a
<1>6. \A d \in Members(a) : \E e \in Members(devs) : d.dev = e.dev /\ d.ports = e.ports
  BY <1>4, <1>5 DEF Members
<1>7. \A e \in Members(devs) : \E d \in Members(a) : d.dev = e.dev BY <1>4, <1>5 DEF Members
<1>8. Found(a)
  <2>1. a \in Seq(DevRec) /\ \A d \in Members(a) : \E e \in Members(devs) : d.dev = e.dev BY <1>5, <1>6
  <2> QED BY <1>7, <2>1, FoundLike
<1>9. Equipped(a) BY <1>6 DEF Equipped
<1>10. \A d \in Members(a) : (d.dev = name /\ Right(d)) \/ (d.dev # name /\ d \in Members(devs))
  BY <1>4, <1>5 DEF Members
<1> QED BY <1>2, <1>8, <1>9, <1>10

-------------------------------------------------------------------------------
\* env_init_dev_sort.
LEMMA SubMembers ==
  ASSUME NEW S, NEW s \in Seq(S), NEW lo \in Nat \ {0}, NEW hi \in Nat, hi <= Len(s), lo <= hi + 1
  PROVE  /\ SubSeq(s, lo, hi) \in Seq(S) /\ Len(SubSeq(s, lo, hi)) = hi + 1 - lo
         /\ Members(SubSeq(s, lo, hi)) = {s[k] : k \in lo..hi}
<1> DEFINE u == SubSeq(s, lo, hi)
           n == hi + 1 - lo
<1>1. u \in Seq(S) /\ Len(u) = n /\ n \in Nat /\ \A k \in 1..n : u[k] = s[lo + k - 1]
  BY SubSeqProperties
<1>2. \A k \in 1..n : lo + k - 1 \in lo..hi OBVIOUS
<1>3. \A k \in lo..hi : k - lo + 1 \in 1..n /\ lo + (k - lo + 1) - 1 = k OBVIOUS
<1> HIDE DEF u, n
<1>4. Members(u) \subseteq {s[k] : k \in lo..hi} BY <1>1, <1>2 DEF Members
<1>5. ASSUME NEW k \in lo..hi PROVE s[k] \in Members(u)
  <2> DEFINE j == k - lo + 1
  <2>1. j \in 1..n /\ lo + j - 1 = k BY <1>3
  <2> HIDE DEF j
  <2>2. u[j] = s[k] BY <1>1, <2>1
  <2> QED BY <1>1, <2>1, <2>2 DEF Members
<1> QED BY <1>1, <1>4, <1>5 DEF u, n

\* One step of the sort: the device at place i is put behind others; none is lost.
LEMMA Moved ==
  ASSUME NEW S, NEW s \in Seq(S), NEW i \in 1..Len(s), NEW ins \in (i + 1)..(Len(s) + 1)
  PROVE  LET t == SubSeq(s, 1, i - 1) \o SubSeq(s, i + 1, ins - 1) \o <<s[i]>> \o SubSeq(s, ins, Len(s))
         IN  t \in Seq(S) /\ Len(t) = Len(s) /\ Members(t) = Members(s)
<1> DEFINE n == Len(s)
           a == SubSeq(s, 1, i - 1)
           b == SubSeq(s, i + 1, ins - 1)
           c == <<s[i]>>
           d == SubSeq(s, ins, n)
<1>1. n \in Nat /\ i \in Nat /\ ins \in Nat OBVIOUS
<1>2. a \in Seq(S) /\ Len(a) = i - 1 /\ Members(a) = {s[k] : k \in 1..(i - 1)}
  <2>1. i - 1 \in Nat /\ i - 1 <= n /\ 1 <= (i - 1) + 1 BY <1>1
  <2>2. (i - 1) + 1 - 1 = i - 1 BY <1>1
  <2> QED BY <2>1, <2>2, SubMembers
<1>3. b \in Seq(S) /\ Len(b) = ins - 1 - i /\ Members(b) = {s[k] : k \in (i + 1)..(ins - 1)}
  <2>1. i + 1 \in Nat \ {0} /\ ins - 1 \in Nat /\ ins - 1 <= n /\ i + 1 <= (ins - 1) + 1 BY <1>1
  <2>2. (ins - 1) + 1 - (i + 1) = ins - 1 - i BY <1>1
  <2> QED BY <2>1, <2>2, SubMembers
<1>4. c \in Seq(S) /\ Len(c) = 1 /\ Members(c) = {s[i]} BY DEF Members
<1>5. d \in Seq(S) /\ Len(d) = n + 1 - ins /\ Members(d) = {s[k] : k \in ins..n}
  <2>1. ins \in Nat \ {0} /\ n \in Nat /\ n <= n /\ ins <= n + 1 BY <1>1
  <2> QED BY <2>1, SubMembers
<1>6. \A k \in 1..n : k \in 1..(i - 1) \/ k \in (i + 1)..(ins - 1) \/ k = i \/ k \in ins..n BY <1>1
<1>7. \A k : k \in 1..(i - 1) \/ k \in (i + 1)..(ins - 1) \/ k = i \/ k \in ins..n => k \in 1..n
  BY <1>1
<1>8. Members(a) \cup Members(b) \cup Members(c) \cup Members(d) = Members(s)
  BY <1>2, <1>3, <1>4, <1>5, <1>6, <1>7 DEF Members
<1> HIDE DEF a, b, c, d, n
<1>9. a \o b \in Seq(S) /\ Members(a \o b) = Members(a) \cup Members(b) /\ Len(a \o b) = Len(a) + Len(b)
  <2>1. a \in Seq(S) /\ b \in Seq(S) BY <1>2, <1>3
  <2> QED BY <2>1, JoinMembers
<1> DEFINE e == a \o b
<1> HIDE DEF e
<1>10. e \in Seq(S) /\ Members(e) = Members(a) \cup Members(b) /\ Len(e) = Len(a) + Len(b) BY <1>9 DEF e
<1>11. e \o c \in Seq(S) /\ Members(e \o c) = Members(e) \cup Members(c) /\ Len(e \o c) = Len(e) + Len(c)
  <2>1. e \in Seq(S) /\ c \in Seq(S) BY <1>4, <1>10
  <2> QED BY <2>1, JoinMembers
<1> DEFINE f == e \o c
<1> HIDE DEF f
<1>12. f \in Seq(S) /\ Members(f) = Members(e) \cup Members(c) /\ Len(f) = Len(e) + Len(c) BY <1>11 DEF f
<1>13. f \o d \in Seq(S) /\ Members(f \o d) = Members(f) \cup Members(d) /\ Len(f \o d) = Len(f) + Len(d)
  <2>1. f \in Seq(S) /\ d \in Seq(S) BY <1>5, <1>12
  <2> QED BY <2>1, JoinMembers
<1>14. Len(f \o d) = n
  <2>1. Len(a) = i - 1 /\ Len(b) = ins - 1 - i /\ Len(c) = 1 /\ Len(d) = n + 1 - ins
    BY <1>2, <1>3, <1>4, <1>5
  <2>2. Len(e) = Len(a) + Len(b) /\ Len(f) = Len(e) + Len(c) /\ Len(f \o d) = Len(f) + Len(d)
    BY <1>10, <1>12, <1>13
  <2> DEFINE x == Len(f \o d)
  <2>3. x = ((i - 1) + (ins - 1 - i) + 1) + (n + 1 - ins) BY <2>1, <2>2
  <2> HIDE DEF x
  <2>4. x = n BY <1>1, <2>3
  <2> QED BY <2>4 DEF x
<1>15. Members(f \o d) = Members(s) BY <1>8, <1>10, <1>12, <1>13
<1> QED BY <1>13, <1>14, <1>15 DEF a, b, c, d, e, f, n

\* Where the walk is: at a place of a list of the same devices.
Walked(devs, w) ==
  /\ w[1] \in Seq(DevRec) /\ Len(w[1]) = Len(devs) /\ Members(w[1]) = Members(devs)
  /\ w[2] \in Nat \ {0}

\* A step of the sort stays with the same devices.
LEMMA StepWalks ==
  ASSUME NEW devs \in Seq(DevRec), NEW w, Walked(devs, w), w[2] < Len(devs)
  PROVE  Walked(devs, SortStep(w[1], w[2]))
<1> DEFINE list == w[1]
           i == w[2]
<1>1. /\ list \in Seq(DevRec) /\ Len(list) = Len(devs) /\ Members(list) = Members(devs)
      /\ i \in Nat \ {0} /\ i < Len(list) /\ Len(list) \in Nat
  BY DEF Walked
<1> HIDE DEF list, i
<1> DEFINE dev == list[i]
           later == {j \in (i + 1)..Len(list) : list[j].index >= dev.index}
           ins == IF later = {} THEN Len(list) + 1 ELSE CHOOSE j \in later : \A k \in later : j <= k
           t == SubSeq(list, 1, i - 1) \o SubSeq(list, i + 1, ins - 1) \o <<dev>>
                  \o SubSeq(list, ins, Len(list))
<1>2. ins \in (i + 1)..(Len(list) + 1)
  <2>1. CASE later = {} BY <1>1, <2>1
  <2>2. CASE later # {}
    <3>1. \A j \in later : j \in (i + 1)..(Len(list) + 1) BY <1>1
    <3>2. later \in SUBSET Nat BY <1>1
    <3> HIDE DEF later
    <3>3. \E j \in later : \A k \in later : j <= k BY <2>2, <3>2, LeastNat
    <3>4. ins \in later BY <2>2, <3>3
    <3> QED BY <3>1, <3>4
  <2> QED BY <2>1, <2>2
<1> HIDE DEF ins
<1>3. t \in Seq(DevRec) /\ Len(t) = Len(list) /\ Members(t) = Members(list)
  <2>1. i \in 1..Len(list) BY <1>1
  <2> QED BY <1>1, <1>2, <2>1, Moved
<1> HIDE DEF t
<1>4. SortStep(list, i) = IF list[i + 1].index > dev.index THEN <<list, i + 1>>
                          ELSE <<t, IF ins = i + 1 THEN i + 1 ELSE i>>
  BY DEF SortStep, t, ins
<1>5. CASE list[i + 1].index > dev.index
  <2>1. SortStep(list, i) = <<list, i + 1>> BY <1>4, <1>5
  <2>2. i + 1 \in Nat \ {0} BY <1>1
  <2>3. Walked(devs, <<list, i + 1>>) BY <1>1, <2>2 DEF Walked
  <2> QED BY <2>1, <2>3 DEF list, i
<1>6. CASE ~(list[i + 1].index > dev.index)
  <2> DEFINE m == IF ins = i + 1 THEN i + 1 ELSE i
  <2>1. SortStep(list, i) = <<t, m>> BY <1>4, <1>6
  <2>2. m \in Nat \ {0} BY <1>1
  <2> HIDE DEF m
  <2>3. Walked(devs, <<t, m>>) BY <1>1, <1>3, <2>2 DEF Walked
  <2> QED BY <2>1, <2>3 DEF list, i
<1> QED BY <1>5, <1>6

Along(devs, w) == IF w[2] >= Len(devs) THEN w ELSE SortStep(w[1], w[2])

WalkTo(devs, n, f) ==
  f = [k \in 0..n |-> IF k = 0 THEN <<devs, 1>> ELSE Along(devs, f[k - 1])]

\* The function the walk of the sort is defined by, step by step.
LEMMA WalkStep ==
  ASSUME NEW devs, NEW n \in Nat, NEW f, WalkTo(devs, n, f)
  PROVE  f[0] = <<devs, 1>> /\ \A k \in 1..n : f[k] = Along(devs, f[k - 1])
<1> DEFINE E(k) == IF k = 0 THEN <<devs, 1>> ELSE Along(devs, f[k - 1])
<1>1. f = [k \in 0..n |-> E(k)] BY DEF WalkTo
<1> HIDE DEF E
<1>2. \A k \in 0..n : f[k] = E(k) BY <1>1
<1>3. f[0] = E(0) BY <1>2
<1>4. ASSUME NEW k \in 1..n PROVE f[k] = E(k) BY <1>2
<1>5. \A k \in 1..n : E(k) = Along(devs, f[k - 1]) BY DEF E
<1>6. E(0) = <<devs, 1>> BY DEF E
<1> QED BY <1>3, <1>4, <1>5, <1>6

\* There is such a function.
LEMMA WalkExist == ASSUME NEW devs, NEW last \in Nat PROVE \E f : WalkTo(devs, last, f)
<1> DEFINE T == {k \in Nat : \E f : WalkTo(devs, k, f)}
<1>1. 0 \in T
  <2> DEFINE f == [k \in 0..0 |-> <<devs, 1>>]
  <2>1. WalkTo(devs, 0, f) BY DEF WalkTo
  <2> QED BY <2>1
<1>2. ASSUME NEW n \in Nat, n \in T PROVE n + 1 \in T
  <2>1. PICK f : WalkTo(devs, n, f) BY <1>2
  <2>2. f[0] = <<devs, 1>> /\ \A k \in 1..n : f[k] = Along(devs, f[k - 1]) BY <2>1, WalkStep
  <2> DEFINE g == [k \in 0..(n + 1) |-> IF k <= n THEN f[k] ELSE Along(devs, f[n])]
  <2>3. ASSUME NEW k \in 0..(n + 1)
        PROVE  g[k] = IF k = 0 THEN <<devs, 1>> ELSE Along(devs, g[k - 1])
    <3>1. CASE k <= n BY <2>2, <3>1
    <3>2. CASE k = n + 1 BY <3>2
    <3> QED BY <3>1, <3>2
  <2>4. WalkTo(devs, n + 1, g) BY <2>3 DEF WalkTo
  <2> QED BY <2>4
<1> HIDE DEF T
<1>3. Nat \subseteq T BY <1>1, <1>2, NatInSet
<1> QED BY <1>3 DEF T

\* The sort loses no device and makes none up.
LEMMA SortIs ==
  ASSUME NEW devs \in Seq(DevRec)
  PROVE  /\ env_init_dev_sort(devs) \in Seq(DevRec)
         /\ Members(env_init_dev_sort(devs)) = Members(devs)
<1> DEFINE n == Len(devs) * Len(devs)
           f == CHOOSE g : WalkTo(devs, n, g)
<1>1. n \in Nat OBVIOUS
<1>2. env_init_dev_sort(devs) = f[n][1] BY DEF env_init_dev_sort, WalkTo, Along
<1> HIDE DEF n
<1>3. WalkTo(devs, n, f) BY <1>1, WalkExist
<1> HIDE DEF f
<1>4. f[0] = <<devs, 1>> /\ \A k \in 1..n : f[k] = Along(devs, f[k - 1]) BY <1>1, <1>3, WalkStep
<1> DEFINE T == {k \in Nat : k <= n => Walked(devs, f[k])}
<1>5. 0 \in T BY <1>4 DEF Walked
<1>6. ASSUME NEW k \in Nat, k \in T PROVE k + 1 \in T
  <2> SUFFICES ASSUME k + 1 <= n PROVE Walked(devs, f[k + 1]) OBVIOUS
  <2>1. Walked(devs, f[k]) /\ k + 1 \in 1..n /\ (k + 1) - 1 = k BY <1>1, <1>6
  <2>2. f[k + 1] = Along(devs, f[k]) BY <1>4, <2>1
  <2>3. CASE f[k][2] >= Len(devs) BY <2>1, <2>2, <2>3 DEF Along
  <2>4. CASE ~(f[k][2] >= Len(devs))
    <3>1. f[k][2] < Len(devs) BY <2>1, <2>4 DEF Walked
    <3>2. f[k + 1] = SortStep(f[k][1], f[k][2]) BY <2>2, <2>4 DEF Along
    <3> QED BY <2>1, <3>1, <3>2, StepWalks
  <2> QED BY <2>3, <2>4
<1> HIDE DEF T
<1>7. Nat \subseteq T BY <1>5, <1>6, NatInSet
<1>8. Walked(devs, f[n]) BY <1>1, <1>7 DEF T
<1> QED BY <1>2, <1>8 DEF Walked

-------------------------------------------------------------------------------
(* The tables' loops.                                                      *)

\* The jobs of a table of a device, in any order.
Names == {"vtu", "stu", "atu", "port", "pvt"}
Rgn == [dev : STRING, name : Names, port : Int]
CmdJob == [tab : Tables, rgn : Rgn]
Whole(tab) == IF tab \in {"vtu", "stu", "atu"} THEN tab ELSE "pvt"
JobSet(tab, d) ==
  (IF tab \in {"vtu", "stu", "atu"} THEN {} ELSE {Job(tab, d.dev, "port", p) : p \in Members(d.ports)})
  \cup (IF tab = "ports" THEN {} ELSE {Job(tab, d.dev, Whole(tab), -1)})

\* A job is a job.
LEMMA JobIs ==
  ASSUME NEW tab \in Tables, NEW d \in STRING, NEW name \in Names, NEW port \in Int
  PROVE  Job(tab, d, name, port) \in CmdJob
BY DEF Job, Region, CmdJob, Rgn

\* A table of ports has a job for every port of the device.
LEMMA PortJobs ==
  ASSUME NEW tab \in Tables, NEW d, d.dev \in STRING, d.ports \in Seq(Nat)
  PROVE  /\ Ports(tab, d) \in Seq(CmdJob)
         /\ Members(Ports(tab, d)) = {Job(tab, d.dev, "port", p) : p \in Members(d.ports)}
<1> DEFINE ps == d.ports
           J(p) == Job(tab, d.dev, "port", p)
           s == [i \in 1..Len(ps) |-> J(ps[i])]
<1>1. Len(ps) \in Nat /\ \A i \in 1..Len(ps) : ps[i] \in Nat OBVIOUS
<1>2. \A p \in Nat : J(p) \in CmdJob
  <2>1. "port" \in Names /\ \A p \in Nat : p \in Int BY DEF Names
  <2> QED BY <2>1, JobIs
<1>3. Ports(tab, d) = s BY DEF Ports
<1> HIDE DEF J, ps
<1>4. s \in Seq(CmdJob) /\ Len(s) = Len(ps) /\ \A i \in 1..Len(ps) : s[i] = J(ps[i]) BY <1>1, <1>2
<1> HIDE DEF s
<1>5. Members(s) = {J(p) : p \in Members(ps)} BY <1>4 DEF Members
<1> QED BY <1>3, <1>4, <1>5 DEF J, ps

\* The jobs of a table of a device: its region, and its ports where the table has them.
LEMMA DevJobsIs ==
  ASSUME NEW tab \in Tables, NEW d, d.dev \in STRING, d.ports \in Seq(Nat)
  PROVE  DevJobs(tab, d) \in Seq(CmdJob) /\ Members(DevJobs(tab, d)) = JobSet(tab, d)
<1> DEFINE j == Job(tab, d.dev, Whole(tab), -1)
           P == Ports(tab, d)
           PS == {Job(tab, d.dev, "port", p) : p \in Members(d.ports)}
<1>1. P \in Seq(CmdJob) /\ Members(P) = PS BY PortJobs
<1>2. Whole(tab) \in Names BY DEF Whole, Names
<1>3. j \in CmdJob
  <2>1. -1 \in Int OBVIOUS
  <2> QED BY <1>2, <2>1, JobIs
<1>4. tab \in {"vtu", "stu", "atu"} \/ tab = "ports" \/ tab = "pvt" \/ tab = "pvtdev" BY DEF Tables
<1>5. CASE tab \in {"vtu", "stu", "atu"}
  <2>1. DevJobs(tab, d) = <<j>> BY <1>5 DEF DevJobs, Whole
  <2>2. JobSet(tab, d) = {j} BY <1>5 DEF JobSet
  <2> HIDE DEF j
  <2>3. <<j>> \in Seq(CmdJob) /\ Members(<<j>>) = {j} BY <1>3 DEF Members
  <2> QED BY <2>1, <2>2, <2>3
<1>6. CASE tab = "ports"
  <2>1. DevJobs(tab, d) = P BY <1>6 DEF DevJobs
  <2>2. JobSet(tab, d) = PS BY <1>6 DEF JobSet
  <2> QED BY <1>1, <2>1, <2>2
<1>7. CASE tab = "pvt"
  <2>1. DevJobs(tab, d) = <<j>> \o P BY <1>7 DEF DevJobs, Whole
  <2>2. JobSet(tab, d) = PS \cup {j} BY <1>7 DEF JobSet
  <2> HIDE DEF j, P, PS
  <2>3. <<j>> \in Seq(CmdJob) /\ Members(<<j>>) = {j} BY <1>3 DEF Members
  <2> DEFINE first == <<j>>
  <2> HIDE DEF first
  <2>4. first \in Seq(CmdJob) /\ P \in Seq(CmdJob) BY <1>1, <2>3 DEF first
  <2>5. first \o P \in Seq(CmdJob) /\ Members(first \o P) = Members(first) \cup Members(P)
    BY <2>4, JoinMembers
  <2>6. <<j>> \o P \in Seq(CmdJob) /\ Members(<<j>> \o P) = {j} \cup PS
    BY <1>1, <2>3, <2>5 DEF first
  <2> QED BY <2>1, <2>2, <2>6
<1>8. CASE tab = "pvtdev"
  <2>1. DevJobs(tab, d) = Append(P, j) BY <1>8 DEF DevJobs, Whole
  <2>2. JobSet(tab, d) = PS \cup {j} BY <1>8 DEF JobSet
  <2> HIDE DEF j, P, PS
  <2>3. Append(P, j) \in Seq(CmdJob) /\ Members(Append(P, j)) = PS \cup {j} BY <1>1, <1>3, AppendMembers
  <2> QED BY <2>1, <2>2, <2>3
<1> QED BY <1>4, <1>5, <1>6, <1>7, <1>8

\* After env_init: the devices with their ports and their index.
Ready(devs) == Found(devs) /\ Equipped(devs) /\ \A d \in Members(devs) : Right(d)

\* The switches a command is about are among the devices it selects.
LEMMA SelectedIs ==
  ASSUME NEW devs, Ready(devs), NEW cmd
  PROVE  /\ Selected(cmd, devs) \in Seq(DevRec)
         /\ Members(Selected(cmd, devs)) \subseteq Members(devs)
         /\ \A i \in 1..Len(sys) : Asked(cmd, i) =>
              \E d \in Members(Selected(cmd, devs)) : d.dev = sys[i].dev
<1>1. devs \in Seq(DevRec) /\ Found(devs) /\ \A d \in Members(devs) : Right(d) BY DEF Ready, Found
<1>2. CASE cmd.dev = -1
  <2>1. Selected(cmd, devs) = devs BY <1>2 DEF Selected
  <2> QED BY <1>1, <2>1 DEF Found, Asked
<1>3. CASE cmd.dev # -1
  <2> DEFINE at == {i \in 1..Len(devs) : devs[i].index = cmd.dev}
  <2>1. ASSUME NEW i \in 1..Len(sys), Asked(cmd, i)
        PROVE  /\ at # {}
               /\ \A m \in at : devs[m].dev = sys[i].dev
    <3> DEFINE these == {k \in 1..Len(sys) : Supported(sys[k]) /\ sys[k].index = cmd.dev}
    <3>1. Supported(sys[i]) /\ these = {i} BY <1>3, <2>1 DEF Asked
    <3>2. sys[i].index = cmd.dev BY <3>1
    <3>3. PICK d \in Members(devs) : d.dev = sys[i].dev BY <1>1, <3>1 DEF Found
    <3>4. d.index = cmd.dev BY <1>1, <3>2, <3>3 DEF Right
    <3>5. at # {} BY <3>3, <3>4 DEF Members
    <3>6. ASSUME NEW m \in at PROVE devs[m].dev = sys[i].dev
      <4>1. devs[m] \in Members(devs) /\ devs[m].index = cmd.dev BY DEF Members
      <4>2. PICK k \in 1..Len(sys) : Supported(sys[k]) /\ devs[m].dev = sys[k].dev
        BY <1>1, <4>1 DEF Found
      <4>3. sys[k].index = cmd.dev BY <1>1, <4>1, <4>2 DEF Right
      <4>4. k \in these BY <4>2, <4>3
      <4> QED BY <3>1, <4>2, <4>4
    <3> QED BY <3>5, <3>6
  <2>2. CASE at = {}
    <3>1. Selected(cmd, devs) = <<>> BY <1>3, <2>2 DEF Selected
    <3>2. Members(<<>>) = {} BY DEF Members
    <3> QED BY <2>1, <2>2, <3>1, <3>2
  <2>3. CASE at # {}
    <3> DEFINE m == Min(at)
               d == devs[m]
    <3>1. Selected(cmd, devs) = <<d>> BY <1>3, <2>3 DEF Selected
    <3>2. m \in at
      <4>1. at \in SUBSET Nat OBVIOUS
      <4> HIDE DEF at
      <4>2. \E x \in at : \A y \in at : x <= y BY <2>3, <4>1, LeastNat
      <4> QED BY <4>2 DEF Min
    <3> HIDE DEF m
    <3>5. m \in 1..Len(devs) BY <3>2
    <3>3. d \in DevRec /\ d \in Members(devs)
      <4>1. devs[m] \in DevRec BY <1>1, <3>5
      <4> QED BY <3>5, <4>1 DEF Members
    <3>4. <<d>> \in Seq(DevRec) /\ Members(<<d>>) = {d}
      <4> HIDE DEF d
      <4> QED BY <3>3 DEF Members
    <3> QED BY <2>1, <3>1, <3>2, <3>3, <3>4
  <2> QED BY <2>2, <2>3
<1> QED BY <1>2, <1>3

\* What a command is to show, as far as its printer can, is in J.
Covers(cmd, J) ==
  \A i \in 1..Len(sys), t \in 1..Len(cmd.tabs) :
    Asked(cmd, i) /\ Prints(cmd, cmd.tabs[t]) => Members(DevJobs(cmd.tabs[t], sys[i])) \subseteq J

\* The loop over the devices: a table has the jobs of every switch it is about.
LEMMA TableIs ==
  ASSUME IsSystem(sys), NEW devs, Ready(devs), NEW cmd, NEW tab \in Tables
  PROVE  LET jobs == TableJobs(tab, Selected(cmd, devs))
         IN  /\ jobs \in Seq(CmdJob)
             /\ \A i \in 1..Len(sys) : Asked(cmd, i) =>
                  Members(DevJobs(tab, sys[i])) \subseteq Members(jobs)
<1> DEFINE sel == Selected(cmd, devs)
           ss == [i \in 1..Len(sel) |-> DevJobs(tab, sel[i])]
<1>1. /\ sel \in Seq(DevRec) /\ Members(sel) \subseteq Members(devs)
      /\ \A i \in 1..Len(sys) : Asked(cmd, i) => \E d \in Members(sel) : d.dev = sys[i].dev
  BY SelectedIs
<1>2. TableJobs(tab, sel) = FlattenSeq(ss) BY DEF TableJobs
<1> HIDE DEF sel
<1>3. \A k \in 1..Len(sel) : sel[k].dev \in STRING /\ sel[k].ports \in Seq(Nat)
  <2>1. \A k \in 1..Len(sel) : sel[k] \in DevRec BY <1>1
  <2>2. \A d \in DevRec : d.dev \in STRING /\ d.ports \in Seq(Nat) BY DEF DevRec
  <2> QED BY <2>1, <2>2
<1>4. \A k \in 1..Len(sel) :
        DevJobs(tab, sel[k]) \in Seq(CmdJob) /\ Members(DevJobs(tab, sel[k])) = JobSet(tab, sel[k])
  BY <1>3, DevJobsIs
<1>5. ss \in Seq(Seq(CmdJob)) /\ Len(ss) = Len(sel) /\ \A k \in 1..Len(sel) : ss[k] = DevJobs(tab, sel[k])
  <2>1. Len(sel) \in Nat BY <1>1
  <2> QED BY <1>4, <2>1
<1> HIDE DEF ss
<1>6. /\ FlattenSeq(ss) \in Seq(CmdJob)
      /\ \A k \in 1..Len(ss) : Members(ss[k]) \subseteq Members(FlattenSeq(ss))
  BY <1>5, Flatten
<1>7. ASSUME NEW i \in 1..Len(sys), Asked(cmd, i)
      PROVE  Members(DevJobs(tab, sys[i])) \subseteq Members(FlattenSeq(ss))
  <2>1. PICK d \in Members(sel) : d.dev = sys[i].dev BY <1>1, <1>7
  <2>2. PICK k \in 1..Len(sel) : d = sel[k] BY DEF Members
  <2>3. Members(sys[i].ports) \subseteq Members(d.ports) BY <1>1, <2>1 DEF Ready, Equipped
  <2>4. sys[i].dev \in STRING /\ sys[i].ports \in Seq(Nat) BY SystemIs DEF Switches
  <2>5. Members(DevJobs(tab, sys[i])) = JobSet(tab, sys[i]) BY <2>4, DevJobsIs
  <2>6. JobSet(tab, sys[i]) \subseteq JobSet(tab, d) BY <2>1, <2>3 DEF JobSet
  <2>7. JobSet(tab, d) \subseteq Members(FlattenSeq(ss)) BY <1>4, <1>5, <1>6, <2>2
  <2> QED BY <2>5, <2>6, <2>7
<1> QED BY <1>2, <1>6, <1>7 DEF sel

\* The loop over the tables: a command has the jobs of all of them.
LEMMA CommandIs ==
  ASSUME IsSystem(sys), NEW devs, Ready(devs), NEW cmd, cmd.tabs \in Seq(Tables)
  PROVE  /\ CommandJobs(cmd, devs) \in Seq(CmdJob)
         /\ Covers(cmd, Members(CommandJobs(cmd, devs)))
<1> DEFINE tabs == cmd.tabs
           Has(t) == Prints(cmd, tabs[t])
           Full(t) == TableJobs(tabs[t], Selected(cmd, devs))
           One(t) == IF Has(t) THEN Full(t) ELSE <<>>
           ss == [t \in 1..Len(tabs) |-> One(t)]
<1>1. Len(tabs) \in Nat /\ \A t \in 1..Len(tabs) : tabs[t] \in Tables OBVIOUS
<1>2. CommandJobs(cmd, devs) = FlattenSeq(ss) BY DEF CommandJobs
<1>3. \A t \in 1..Len(tabs) :
        /\ One(t) \in Seq(CmdJob)
        /\ \A i \in 1..Len(sys) : Asked(cmd, i) /\ Has(t) =>
             Members(DevJobs(tabs[t], sys[i])) \subseteq Members(One(t))
  <2>1. \A t \in 1..Len(tabs) :
          /\ Full(t) \in Seq(CmdJob)
          /\ \A i \in 1..Len(sys) : Asked(cmd, i) =>
               Members(DevJobs(tabs[t], sys[i])) \subseteq Members(Full(t))
    BY <1>1, TableIs
  <2>2. <<>> \in Seq(CmdJob) OBVIOUS
  <2> HIDE DEF tabs, Full, Has
  <2> QED BY <2>1, <2>2
<1> HIDE DEF One, Full
<1> HIDE DEF tabs
<1>4. ss \in Seq(Seq(CmdJob)) /\ Len(ss) = Len(tabs) /\ \A t \in 1..Len(tabs) : ss[t] = One(t)
  BY <1>1, <1>3
<1> HIDE DEF ss
<1>5. /\ FlattenSeq(ss) \in Seq(CmdJob)
      /\ \A t \in 1..Len(ss) : Members(ss[t]) \subseteq Members(FlattenSeq(ss))
  BY <1>4, Flatten
<1>6. \A i \in 1..Len(sys), t \in 1..Len(tabs) :
        Asked(cmd, i) /\ Has(t) =>
          Members(DevJobs(tabs[t], sys[i])) \subseteq Members(FlattenSeq(ss))
  <2> HIDE DEF Has
  <2> QED BY <1>3, <1>4, <1>5
<1> QED BY <1>2, <1>5, <1>6 DEF Covers, tabs

-------------------------------------------------------------------------------
(* The life of a process.                                                  *)

InitJob == [tab : {"init"}, rgn : [dev : STRING, name : {"global1"}, port : Int]]

\* A process that has yet to read the index of some devices.
Starting(q) ==
  /\ q.jobs \in Seq(InitJob) /\ q.jobs # <<>>
  /\ Found(q.devs) /\ Equipped(q.devs)
  /\ \A d \in Members(q.devs) : Right(d) \/ \E j \in Members(q.jobs) : j.rgn.dev = d.dev

\* A process that is at its command: what it has yet to show is among its jobs.
Shown(q) == {[tab |-> o.tab, rgn |-> o.rgn] : o \in q.out}
Showing(q) == q.jobs \in Seq(CmdJob) /\ Covers(q.cmd, Members(q.jobs) \cup Shown(q))

OnCourse(q) == q.warned # {} \/ Starting(q) \/ Showing(q)

\* More jobs cover no less.
LEMMA CoversMore ==
  ASSUME NEW cmd, NEW J, NEW K, Covers(cmd, J), J \subseteq K PROVE Covers(cmd, K)
BY DEF Covers

\* dev_init is through with a device: the next one, or the command.
LEMMA AfterStarting ==
  ASSUME IsSystem(sys), NEW q, DOMAIN q = Fields, q.cmd.tabs \in Seq(Tables), Starting(q), ~q.err
  PROVE  LET a == AfterInit(q)
         IN  /\ DOMAIN a = Fields /\ a.cmd = q.cmd /\ a.st \in {"load", "failed"}
             /\ a.st = "load" => Starting(a) \/ Showing(a)
<1> DEFINE h == Head(q.jobs)
           name == h.rgn.dev
           rest == Tail(q.jobs)
           devs == dev_init(q.devs, name)
           sorted == env_init_dev_sort(devs)
<1>1. /\ q.jobs \in Seq(InitJob) /\ q.jobs # <<>> /\ Found(q.devs) /\ Equipped(q.devs)
      /\ \A d \in Members(q.devs) : Right(d) \/ \E j \in Members(q.jobs) : j.rgn.dev = d.dev
  BY DEF Starting
<1>2. rest \in Seq(InitJob) /\ Members(q.jobs) = {h} \cup Members(rest) BY <1>1, HeadTail
<1>3. /\ Found(devs) /\ Equipped(devs)
      /\ \A d \in Members(devs) :
           (d.dev = name /\ Right(d)) \/ (d.dev # name /\ d \in Members(q.devs))
  BY <1>1, InitIs
<1>4. Len(q.jobs) \in Nat \ {0} /\ (Len(q.jobs) > 1 <=> rest # <<>>)
  <2>1. Len(q.jobs) \in Nat \ {0} /\ Len(rest) = Len(q.jobs) - 1 BY <1>1
  <2> DEFINE m == Len(q.jobs)
  <2> HIDE DEF rest, m
  <2>2. Len(rest) = 0 => rest = <<>> BY <1>2
  <2>3. rest = <<>> => Len(rest) = 0 OBVIOUS
  <2>4. m \in Nat \ {0} /\ Len(rest) = m - 1 BY <2>1 DEF m
  <2>5. m > 1 => rest # <<>> BY <2>3, <2>4
  <2>6. ~(m > 1) => rest = <<>> BY <2>2, <2>4
  <2> QED BY <2>4, <2>5, <2>6 DEF m
<1>5. AfterInit(q) = IF Len(q.jobs) > 1 THEN [q EXCEPT !.st = "load", !.devs = devs, !.jobs = rest]
                     ELSE IF Selected(q.cmd, sorted) = <<>> THEN [q EXCEPT !.st = "failed", !.devs = sorted]
                     ELSE [q EXCEPT !.st = "load", !.devs = sorted, !.jobs = CommandJobs(q.cmd, sorted)]
  BY DEF AfterInit
<1> HIDE DEF name, rest, devs, sorted
<1>6. \A d \in Members(devs) : Right(d) \/ \E j \in Members(rest) : j.rgn.dev = d.dev
  <2> SUFFICES ASSUME NEW d \in Members(devs), ~Right(d) PROVE \E j \in Members(rest) : j.rgn.dev = d.dev
    OBVIOUS
  <2>1. d.dev # name /\ d \in Members(q.devs) BY <1>3
  <2>2. PICK j \in Members(q.jobs) : j.rgn.dev = d.dev BY <1>1, <2>1
  <2>3. j # h BY <2>1, <2>2 DEF name
  <2> QED BY <1>2, <2>2, <2>3
<1>7. CASE Len(q.jobs) > 1
  <2> DEFINE a == [q EXCEPT !.st = "load", !.devs = devs, !.jobs = rest]
  <2>1. AfterInit(q) = a BY <1>5, <1>7
  <2>2. DOMAIN a = Fields /\ a.cmd = q.cmd /\ a.st = "load" /\ a.devs = devs /\ a.jobs = rest
    BY DEF Fields
  <2> HIDE DEF a
  <2>3. Starting(a) BY <1>2, <1>3, <1>4, <1>6, <1>7, <2>2 DEF Starting
  <2> QED BY <2>1, <2>2, <2>3
<1>8. CASE ~(Len(q.jobs) > 1)
  <2>1. rest = <<>> BY <1>4, <1>8
  <2>2. Members(rest) = {} BY <2>1 DEF Members
  <2>3. \A d \in Members(devs) : Right(d) BY <1>6, <2>2
  <2>4. devs \in Seq(DevRec) BY <1>3 DEF Found
  <2>5. sorted \in Seq(DevRec) /\ Members(sorted) = Members(devs) BY <2>4, SortIs DEF sorted
  <2>6. Ready(sorted) BY <1>3, <2>3, <2>5 DEF Ready, Found, Equipped
  <2>7. CASE Selected(q.cmd, sorted) = <<>>
    <3> DEFINE a == [q EXCEPT !.st = "failed", !.devs = sorted]
    <3>1. AfterInit(q) = a BY <1>5, <1>8, <2>7
    <3>2. DOMAIN a = Fields /\ a.cmd = q.cmd /\ a.st = "failed" BY DEF Fields
    <3> QED BY <3>1, <3>2
  <2>8. CASE Selected(q.cmd, sorted) # <<>>
    <3> DEFINE jobs == CommandJobs(q.cmd, sorted)
               a == [q EXCEPT !.st = "load", !.devs = sorted, !.jobs = jobs]
    <3>1. AfterInit(q) = a BY <1>5, <1>8, <2>8
    <3>2. jobs \in Seq(CmdJob) /\ Covers(q.cmd, Members(jobs)) BY <2>6, CommandIs
    <3> HIDE DEF jobs
    <3>3. DOMAIN a = Fields /\ a.cmd = q.cmd /\ a.st = "load" /\ a.jobs = jobs BY DEF Fields
    <3> HIDE DEF a
    <3>4. Covers(a.cmd, Members(a.jobs) \cup Shown(a)) BY <3>2, <3>3, CoversMore
    <3>5. Showing(a) BY <3>2, <3>3, <3>4 DEF Showing
    <3> QED BY <3>1, <3>3, <3>5
  <2> QED BY <2>7, <2>8
<1> QED BY <1>7, <1>8

\* A job is shown: it is no longer to be done, and it is in the output.
LEMMA AfterShow ==
  ASSUME NEW q, DOMAIN q = Fields, Showing(q), q.jobs # <<>>
  PROVE  Showing(Show(q, Head(q.jobs)))
<1> DEFINE j == Head(q.jobs)
           rest == Tail(q.jobs)
           o == [tab |-> j.tab, rgn |-> j.rgn, ver |-> q.got]
           a == Show(q, j)
<1>1. q.jobs \in Seq(CmdJob) /\ Covers(q.cmd, Members(q.jobs) \cup Shown(q)) BY DEF Showing
<1>2. j \in CmdJob /\ rest \in Seq(CmdJob) /\ Members(q.jobs) = {j} \cup Members(rest)
  BY <1>1, HeadTail
<1>3. j = [tab |-> j.tab, rgn |-> j.rgn] BY <1>2 DEF CmdJob
<1>4. a.cmd = q.cmd /\ a.jobs = rest /\ a.out = q.out \cup {o} BY DEF Show, Fields
<1>5. o.tab = j.tab /\ o.rgn = j.rgn OBVIOUS
<1> HIDE DEF a, o, rest, j
<1>6. Shown(q) \subseteq Shown(a) BY <1>4 DEF Shown
<1>7. j \in Shown(a) BY <1>3, <1>4, <1>5 DEF Shown
<1>8. Members(q.jobs) \cup Shown(q) \subseteq Members(a.jobs) \cup Shown(a) BY <1>2, <1>4, <1>6, <1>7
<1>9. Covers(a.cmd, Members(a.jobs) \cup Shown(a)) BY <1>1, <1>4, <1>8, CoversMore
<1>10. Showing(a) BY <1>2, <1>4, <1>9 DEF Showing
<1> QED BY <1>10 DEF a, j

\* A region get has returned: the process is still on course.
LEMMA AfterCourse ==
  ASSUME IsSystem(sys), NEW q, DOMAIN q = Fields, q.cmd.tabs \in Seq(Tables), OnCourse(q),
         q.jobs # <<>>
  PROVE  LET a == After(q)
         IN  /\ DOMAIN a = Fields /\ a.cmd = q.cmd /\ a.st \in {"load", "failed", "segv"}
             /\ a.st = "load" => OnCourse(a)
<1> DEFINE j == Head(q.jobs)
           r == CASE j.tab = "init" -> AfterInit(q)
                  [] j.tab = "ports" -> IF q.got = <<>> THEN [q EXCEPT !.st = "segv"] ELSE Show(q, j)
                  [] OTHER -> IF q.err THEN SkipTable(q, j.tab) ELSE Show(q, j)
           Fine(s) == /\ DOMAIN s = Fields /\ s.cmd = q.cmd /\ s.st \in {"load", "failed", "segv"}
                      /\ q.warned \subseteq s.warned
<1>1. Fine(Show(q, j)) BY DEF Show, Fields
<1>2. Fine(SkipTable(q, j.tab)) /\ j.tab \in SkipTable(q, j.tab).warned BY DEF SkipTable, Fields
<1>3. Fine([q EXCEPT !.st = "segv"]) BY DEF Fields
<1>4. Fine(AfterInit(q)) BY DEF AfterInit, Fields
<1>5. Fine(r) BY <1>1, <1>2, <1>3, <1>4
<1>6. r.st = "load" => OnCourse(r)
  <2> SUFFICES ASSUME r.st = "load" PROVE OnCourse(r) OBVIOUS
  <2>1. CASE q.warned # {} BY <1>5, <2>1 DEF OnCourse
  <2>2. CASE Starting(q)
    <3>1. q.jobs \in Seq(InitJob) BY <2>2 DEF Starting
    <3>2. j \in InitJob BY <3>1, HeadTail
    <3>3. j.tab = "init" BY <3>2 DEF InitJob
    <3>4. r = AfterInit(q) BY <3>3
    <3>5. CASE q.err
      <4>1. AfterInit(q).st = "failed" BY <3>5 DEF AfterInit, Fields
      <4> QED BY <3>4, <4>1
    <3>6. CASE ~q.err BY <2>2, <3>4, <3>6, AfterStarting DEF OnCourse
    <3> QED BY <3>5, <3>6
  <2>3. CASE Showing(q)
    <3>1. q.jobs \in Seq(CmdJob) BY <2>3 DEF Showing
    <3>2. j \in CmdJob BY <3>1, HeadTail
    <3>3. j.tab # "init" BY <3>2 DEF CmdJob, Tables
    <3>4. r \in {[q EXCEPT !.st = "segv"], Show(q, j), SkipTable(q, j.tab)} BY <3>3
    <3>5. CASE r = [q EXCEPT !.st = "segv"]
      <4>1. r.st = "segv" BY <3>5 DEF Fields
      <4> QED BY <4>1
    <3>6. CASE r = Show(q, j) BY <2>3, <3>6, AfterShow DEF OnCourse
    <3>7. CASE r = SkipTable(q, j.tab) BY <1>2, <3>7 DEF OnCourse
    <3> QED BY <3>4, <3>5, <3>6, <3>7
  <2> QED BY <2>1, <2>2, <2>3 DEF OnCourse
<1>7. After(q) = [r EXCEPT !.got = <<>>, !.err = FALSE] BY DEF After
<1> HIDE DEF r, j
<1> DEFINE a == [r EXCEPT !.got = <<>>, !.err = FALSE]
<1>8. /\ DOMAIN a = Fields /\ a.cmd = r.cmd /\ a.st = r.st /\ a.jobs = r.jobs /\ a.devs = r.devs
      /\ a.out = r.out /\ a.warned = r.warned
  BY <1>5 DEF Fields
<1> HIDE DEF a
<1>9. OnCourse(r) => OnCourse(a) BY <1>8 DEF OnCourse, Starting, Showing, Shown
<1> QED BY <1>5, <1>6, <1>7, <1>8, <1>9 DEF a

\* What is known of a process wherever it is.
IsCourse(q) ==
  /\ DOMAIN q = Fields
  /\ q.st # "none" => q.cmd \in Commands
  /\ q.st = "port" => Found(q.devs)
  /\ q.st \in {"load", "read", "del"} => OnCourse(q)
  /\ q.st \in {"read", "del"} => q.jobs # <<>>
  /\ q.st = "done" => q.warned # {} \/ Covers(q.cmd, Shown(q))

\* The inductive invariant.
CourseInv == sys \in Systems /\ DOMAIN proc = Procs /\ \A p \in Procs : IsCourse(proc[p])

\* CourseInv is about sys and the processes only.
LEMMA CourseKept ==
  ASSUME CourseInv, UNCHANGED sys, DOMAIN proc' = Procs, \A p \in Procs : IsCourse(proc'[p])
  PROVE  CourseInv'
<1>1. (sys \in Systems)' BY DEF CourseInv
<1>2. ASSUME NEW p \in Procs PROVE IsCourse(proc[p])'
  <2>1. IsCourse(proc'[p]) OBVIOUS
  <2>2. \A d : Found(d)' <=> Found(d) BY DEF Found, Supported
  <2>3. \A d : Equipped(d)' <=> Equipped(d) BY DEF Equipped
  <2>4. \A d : Right(d)' <=> Right(d) BY DEF Right
  <2>5. \A c, i : Asked(c, i)' <=> Asked(c, i) BY DEF Asked, Supported
  <2>6. \A c, J : Covers(c, J)' <=> Covers(c, J) BY <2>5 DEF Covers
  <2>7. \A q : OnCourse(q)' <=> OnCourse(q) BY <2>2, <2>3, <2>4, <2>6 DEF OnCourse, Starting, Showing
  <2> QED BY <2>1, <2>2, <2>6, <2>7 DEF IsCourse
<1> QED BY <1>1, <1>2 DEF CourseInv

\* A step of one process.
LEMMA OneCourse ==
  ASSUME CourseInv, UNCHANGED sys, NEW p \in Procs, NEW q, proc' = [proc EXCEPT ![p] = q], IsCourse(q)
  PROVE  CourseInv'
<1>1. DOMAIN proc' = Procs /\ \A o \in Procs : proc'[o] = IF o = p THEN q ELSE proc[o]
  BY DEF CourseInv
<1>2. \A o \in Procs : IsCourse(proc'[o]) BY <1>1 DEF CourseInv
<1> QED BY <1>1, <1>2, CourseKept

\* What CourseInv says of a process and of the system.
LEMMA CourseIs ==
  ASSUME CourseInv, NEW p \in Procs
  PROVE  /\ IsCourse(proc[p]) /\ IsSystem(sys)
         /\ proc[p].st # "none" => proc[p].cmd.tabs \in Seq(Tables)
BY SystemsAssumption, CommandsAssumption DEF CourseInv, IsCourse

\* Nothing is known of a process that is over, but that it had a command.
LEMMA OverIs ==
  ASSUME NEW q, DOMAIN q = Fields, q.cmd \in Commands, q.st \in {"failed", "segv", "killed", "info"}
  PROVE  IsCourse(q)
BY DEF IsCourse

\* The first query.
LEMMA InfoCourse == ASSUME CourseInv, NEW p \in Procs, InfoGet(p) PROVE CourseInv'
<1> DEFINE q == proc[p]
           r == FoldLeft(env_init_dev_cb, [devs |-> <<>>, err |-> FALSE], sys)
           st == IF r.err THEN "failed" ELSE "port"
           devs == r.devs
           f == [q EXCEPT !.st = st, !.devs = devs]
<1>1. IsCourse(q) /\ IsSystem(sys) BY CourseIs
<1>2. q.st = "info" /\ proc' = [proc EXCEPT ![p] = f] /\ UNCHANGED sys BY DEF InfoGet, Set
<1>3. st \in {"failed", "port"} /\ (st = "port" => Found(devs)) BY <1>1, InfoFinds
<1> HIDE DEF st, devs
<1>4. DOMAIN q = Fields /\ q.cmd \in Commands BY <1>1, <1>2 DEF IsCourse
<1>5. DOMAIN f = Fields /\ f.cmd = q.cmd /\ f.st = st /\ f.devs = devs BY <1>4 DEF Fields
<1> HIDE DEF f
<1>6. IsCourse(f) BY <1>3, <1>4, <1>5 DEF IsCourse
<1> QED BY <1>2, <1>6, OneCourse

\* The second query, and what env_init does with its answer.
LEMMA PortCourse == ASSUME CourseInv, NEW p \in Procs, PortGet(p) PROVE CourseInv'
<1> DEFINE q == proc[p]
           devs == FoldLeft(env_init_port_cb, q.devs, PortDump)
           J(i) == Job("init", devs[i].dev, "global1", -1)
           jobs == [i \in 1..Len(devs) |-> J(i)]
           f == [q EXCEPT !.st = "failed"]
           g == [q EXCEPT !.st = "load", !.devs = devs, !.jobs = jobs]
<1>1. IsCourse(q) /\ IsSystem(sys) BY CourseIs
<1>2. q.st = "port" /\ proc' = [proc EXCEPT ![p] = IF devs = <<>> THEN f ELSE g] /\ UNCHANGED sys
  BY DEF PortGet, Set
<1>3. DOMAIN q = Fields /\ q.cmd \in Commands /\ Found(q.devs) BY <1>1, <1>2 DEF IsCourse
<1>4. Found(devs) /\ Equipped(devs) BY <1>1, <1>3, PortsFound
<1> HIDE DEF devs
<1>5. CASE devs = <<>>
  <2>1. DOMAIN f = Fields /\ f.cmd = q.cmd /\ f.st = "failed" BY <1>3 DEF Fields
  <2> HIDE DEF f
  <2>2. IsCourse(f) BY <1>3, <2>1, OverIs
  <2> QED BY <1>2, <1>5, <2>2, OneCourse
<1>6. CASE devs # <<>>
  <2>1. devs \in Seq(DevRec) /\ Len(devs) \in Nat /\ Len(devs) # 0 BY <1>4, <1>6 DEF Found
  <2>2. ASSUME NEW i \in 1..Len(devs) PROVE J(i) \in InitJob /\ J(i).rgn.dev = devs[i].dev
    <3>1. devs[i] \in DevRec BY <2>1
    <3>2. devs[i].dev \in STRING BY <3>1 DEF DevRec
    <3> QED BY <3>2 DEF Job, Region, InitJob
  <2> HIDE DEF J
  <2>3. jobs \in Seq(InitJob) /\ Len(jobs) = Len(devs) /\ \A i \in 1..Len(devs) : jobs[i] = J(i)
    BY <2>1, <2>2
  <2>4. jobs # <<>> BY <2>1, <2>3
  <2> HIDE DEF jobs
  <2>5. \A d \in Members(devs) : \E j \in Members(jobs) : j.rgn.dev = d.dev
    BY <2>2, <2>3 DEF Members
  <2>6. DOMAIN g = Fields /\ g.cmd = q.cmd /\ g.st = "load" /\ g.devs = devs /\ g.jobs = jobs
    BY <1>3 DEF Fields
  <2> HIDE DEF g
  <2>7. Starting(g) BY <1>4, <2>3, <2>4, <2>5, <2>6 DEF Starting
  <2>8. IsCourse(g) BY <1>3, <2>6, <2>7 DEF IsCourse, OnCourse
  <2> QED BY <1>2, <1>6, <2>8, OneCourse
<1> QED BY <1>5, <1>6

\* A region get that returns, with whatever it has read.
LEMMA ReturnCourse ==
  ASSUME CourseInv, UNCHANGED sys, NEW p \in Procs, NEW q, proc' = [proc EXCEPT ![p] = After(q)],
         proc[p].st \in {"load", "read", "del"}, proc[p].jobs # <<>>,
         \/ q = proc[p]
         \/ \E got, err : q = [proc[p] EXCEPT !.got = got, !.err = err]
  PROVE  CourseInv'
<1> DEFINE o == proc[p]
           a == After(q)
<1>1. IsCourse(o) /\ IsSystem(sys) /\ o.cmd.tabs \in Seq(Tables) BY CourseIs
<1>2. DOMAIN o = Fields /\ o.cmd \in Commands /\ OnCourse(o) BY <1>1 DEF IsCourse
<1>3. /\ DOMAIN q = Fields /\ q.cmd = o.cmd /\ q.jobs = o.jobs /\ q.devs = o.devs /\ q.out = o.out
      /\ q.warned = o.warned
  BY <1>2 DEF Fields
<1>4. OnCourse(q) BY <1>2, <1>3 DEF OnCourse, Starting, Showing, Shown
<1>5. /\ DOMAIN a = Fields /\ a.cmd = q.cmd /\ a.st \in {"load", "failed", "segv"}
      /\ a.st = "load" => OnCourse(a)
  BY <1>1, <1>3, <1>4, AfterCourse
<1> HIDE DEF a
<1>6. IsCourse(a) BY <1>2, <1>3, <1>5 DEF IsCourse
<1> QED BY <1>6, OneCourse DEF a

\* Each step of a region get, one that succeeds and one that fails.
LEMMA ReadCourse ==
  ASSUME CourseInv, NEW p \in Procs,
         \/ RegionNew(p) \/ NewFails(p) \/ RegionRead(p) \/ ReadFails(p)
         \/ RegionDel(p) \/ DelFails(p)
  PROVE  CourseInv'
<1> DEFINE q == proc[p]
<1>1. IsCourse(q) BY CourseIs
<1>2. q.st \in {"load", "read", "del"} /\ q.jobs # <<>> /\ UNCHANGED sys
  BY <1>1 DEF RegionNew, NewFails, RegionRead, ReadFails, RegionDel, DelFails, IsCourse
<1>3. DOMAIN q = Fields /\ q.cmd \in Commands /\ OnCourse(q) BY <1>1, <1>2 DEF IsCourse
<1>4. \/ proc' = [proc EXCEPT ![p] = After(q)]
      \/ \E got, err : proc' = [proc EXCEPT ![p] = After([q EXCEPT !.got = got, !.err = err])]
      \/ \E st \in {"read", "del"} : \E got, err :
           proc' = [proc EXCEPT ![p] = [q EXCEPT !.st = st, !.got = got, !.err = err]]
  <2>1. CASE RegionNew(p) \/ NewFails(p) BY <2>1 DEF RegionNew, NewFails, Set
  <2>2. CASE RegionRead(p)
    <3>1. q.st = "read" BY <2>2 DEF RegionRead
    <3> DEFINE r == Head(q.jobs).rgn
               v == Append(q.got, snaps[r].ver)
    <3>2. \/ proc' = [proc EXCEPT ![p] = [q EXCEPT !.got = v]]
          \/ proc' = [proc EXCEPT ![p] = [q EXCEPT !.st = "del", !.err = TRUE]]
      BY <2>2 DEF RegionRead, Set
    <3>3. [q EXCEPT !.got = v] = [q EXCEPT !.st = "read", !.got = v, !.err = q.err]
      BY <1>3, <3>1 DEF Fields
    <3>4. [q EXCEPT !.st = "del", !.err = TRUE] = [q EXCEPT !.st = "del", !.got = q.got, !.err = TRUE]
      BY <1>3 DEF Fields
    <3> HIDE DEF v
    <3>5. CASE proc' = [proc EXCEPT ![p] = [q EXCEPT !.got = v]]
      <4>1. proc' = [proc EXCEPT ![p] = [q EXCEPT !.st = "read", !.got = v, !.err = q.err]]
        BY <3>3, <3>5
      <4> QED BY <4>1
    <3>6. CASE proc' = [proc EXCEPT ![p] = [q EXCEPT !.st = "del", !.err = TRUE]]
      <4>1. proc' = [proc EXCEPT ![p] = [q EXCEPT !.st = "del", !.got = q.got, !.err = TRUE]]
        BY <3>4, <3>6
      <4> QED BY <4>1
    <3> QED BY <3>2, <3>5, <3>6
  <2>3. CASE ReadFails(p)
    <3>1. proc' = [proc EXCEPT ![p] = [q EXCEPT !.st = "del", !.err = TRUE]]
      BY <2>3 DEF ReadFails, Set
    <3>2. [q EXCEPT !.st = "del", !.err = TRUE] = [q EXCEPT !.st = "del", !.got = q.got, !.err = TRUE]
      BY <1>3 DEF Fields
    <3> QED BY <3>1, <3>2
  <2>4. CASE RegionDel(p) \/ DelFails(p) BY <2>4 DEF RegionDel, DelFails, Set
  <2> QED BY <2>1, <2>2, <2>3, <2>4
<1>5. CASE proc' = [proc EXCEPT ![p] = After(q)] BY <1>2, <1>5, ReturnCourse
<1>6. ASSUME NEW got, NEW err, proc' = [proc EXCEPT ![p] = After([q EXCEPT !.got = got, !.err = err])]
      PROVE  CourseInv'
  BY <1>2, <1>6, ReturnCourse
<1>7. ASSUME NEW st \in {"read", "del"}, NEW got, NEW err,
             proc' = [proc EXCEPT ![p] = [q EXCEPT !.st = st, !.got = got, !.err = err]]
      PROVE  CourseInv'
  <2> DEFINE f == [q EXCEPT !.st = st, !.got = got, !.err = err]
  <2>1. /\ DOMAIN f = Fields /\ f.cmd = q.cmd /\ f.jobs = q.jobs /\ f.devs = q.devs /\ f.out = q.out
        /\ f.warned = q.warned /\ f.st = st
    BY <1>3 DEF Fields
  <2>2. proc' = [proc EXCEPT ![p] = f] BY <1>7
  <2> HIDE DEF f
  <2>3. OnCourse(f) BY <1>3, <2>1 DEF OnCourse, Starting, Showing, Shown
  <2>4. IsCourse(f) BY <1>2, <1>3, <2>1, <2>3 DEF IsCourse
  <2> QED BY <1>2, <2>2, <2>4, OneCourse
<1> QED BY <1>4, <1>5, <1>6, <1>7

\* All is shown: the process is over, and it has left nothing out.
LEMMA DoneCourse == ASSUME CourseInv, NEW p \in Procs, Return(p) PROVE CourseInv'
<1> DEFINE q == proc[p]
           f == [q EXCEPT !.st = "done"]
<1>1. q.st = "load" /\ q.jobs = <<>> /\ proc' = [proc EXCEPT ![p] = f] /\ UNCHANGED sys
  BY DEF Return, Set
<1>2. IsCourse(q) BY CourseIs
<1>3. DOMAIN q = Fields /\ q.cmd \in Commands /\ OnCourse(q) BY <1>1, <1>2 DEF IsCourse
<1>4. /\ DOMAIN f = Fields /\ f.cmd = q.cmd /\ f.out = q.out /\ f.warned = q.warned /\ f.st = "done"
  BY <1>3 DEF Fields
<1> HIDE DEF f
<1>5. q.warned # {} \/ Covers(q.cmd, Shown(q))
  <2>1. Members(<<>>) = {} BY DEF Members
  <2> QED BY <1>1, <1>3, <2>1 DEF OnCourse, Starting, Showing
<1>6. IsCourse(f) BY <1>3, <1>4, <1>5 DEF IsCourse, Shown
<1> QED BY <1>1, <1>6, OneCourse

\* A process that starts, fails, is reaped or is killed.
LEMMA OtherCourse ==
  ASSUME CourseInv, NEW p \in Procs, Start(p) \/ DiscoveryFails(p) \/ Reap(p) \/ Kill(p)
  PROVE  CourseInv'
<1> DEFINE q == proc[p]
<1>1. IsCourse(q) /\ UNCHANGED sys BY CourseIs DEF Start, DiscoveryFails, Reap, Kill
<1>2. CASE Start(p)
  <2>1. PICK c \in Commands :
          proc' = [proc EXCEPT ![p] = [NoProc EXCEPT !.st = "info", !.cmd = c, !.start = hw]]
    BY <1>2 DEF Start, Set
  <2> DEFINE f == [NoProc EXCEPT !.st = "info", !.cmd = c, !.start = hw]
  <2>2. DOMAIN f = Fields /\ f.cmd = c /\ f.st = "info" BY DEF NoProc, Fields
  <2>3. proc' = [proc EXCEPT ![p] = f] BY <2>1
  <2> HIDE DEF f
  <2>4. IsCourse(f) BY <2>2, OverIs
  <2> QED BY <1>1, <2>3, <2>4, OneCourse
<1>3. CASE Reap(p)
  <2>1. proc' = [proc EXCEPT ![p] = NoProc] BY <1>3 DEF Reap, Set
  <2>2. IsCourse(NoProc) BY DEF IsCourse, NoProc, Fields
  <2> QED BY <1>1, <2>1, <2>2, OneCourse
<1>4. CASE DiscoveryFails(p) \/ Kill(p)
  <2>1. PICK st \in {"failed", "killed"} : proc' = [proc EXCEPT ![p] = [q EXCEPT !.st = st]]
    BY <1>4 DEF DiscoveryFails, Kill, Set
  <2>2. q.st # "none" BY <1>4 DEF DiscoveryFails, Kill
  <2>3. DOMAIN q = Fields /\ q.cmd \in Commands BY <1>1, <2>2 DEF IsCourse
  <2> DEFINE f == [q EXCEPT !.st = st]
  <2>4. DOMAIN f = Fields /\ f.cmd = q.cmd /\ f.st = st BY <2>3 DEF Fields
  <2>5. proc' = [proc EXCEPT ![p] = f] BY <2>1
  <2> HIDE DEF f
  <2>6. IsCourse(f) BY <2>3, <2>4, OverIs
  <2> QED BY <1>1, <2>5, <2>6, OneCourse
<1> QED BY <1>2, <1>3, <1>4

\* The invariant holds, for any switches, command lines and processes.
LEMMA AlwaysCourse == EnvSpec => []CourseInv
<1>1. EnvInit => CourseInv
  <2> SUFFICES ASSUME EnvInit PROVE CourseInv OBVIOUS
  <2>1. IsCourse(NoProc) BY DEF IsCourse, NoProc, Fields
  <2> QED BY <2>1 DEF EnvInit, CourseInv
<1>2. CourseInv /\ [EnvNext]_envVars => CourseInv'
  <2>1. ASSUME CourseInv, UNCHANGED envVars PROVE CourseInv'
    <3>1. UNCHANGED <<sys, proc>> BY <2>1 DEF envVars
    <3> QED BY <2>1, <3>1, CourseKept DEF CourseInv
  <2>2. ASSUME CourseInv, Change PROVE CourseInv'
    <3>1. UNCHANGED <<sys, proc>> BY <2>2 DEF Change
    <3> QED BY <2>2, <3>1, CourseKept DEF CourseInv
  <2>3. ASSUME CourseInv, NEW p \in Procs,
               \/ Start(p) \/ InfoGet(p) \/ PortGet(p) \/ DiscoveryFails(p)
               \/ RegionNew(p) \/ NewFails(p) \/ RegionRead(p) \/ ReadFails(p)
               \/ RegionDel(p) \/ DelFails(p)
               \/ Return(p) \/ Reap(p) \/ Kill(p)
        PROVE  CourseInv'
    BY <2>3, InfoCourse, PortCourse, ReadCourse, DoneCourse, OtherCourse
  <2> QED BY <2>1, <2>2, <2>3 DEF EnvNext
<1> QED BY <1>1, <1>2, PTL DEF EnvSpec

\* Nothing is left out: a process that says it succeeded, and has warned of no table, has
\* shown every region of every table it was asked for and its printer has (the JSON printer
\* lacks the PVT, and says nothing of it), of every switch that mvls knows
\* (env_init, env_init_dev_sort, the tables' loops, the loop of main), for any switches of
\* different names, any tables in any order, any number of processes, any failures of
\* devlink and any interruptions.
THEOREM NothingLeftOut == EnvSpec => []Complete
<1>1. CourseInv => Complete
  <2> SUFFICES ASSUME CourseInv, NEW p \in Procs, proc[p].st = "done", proc[p].warned = {},
                      NEW i \in 1..Len(sys), NEW t \in 1..Len(proc[p].cmd.tabs), Asked(proc[p].cmd, i),
                      Prints(proc[p].cmd, proc[p].cmd.tabs[t]),
                      NEW j \in 1..Len(DevJobs(proc[p].cmd.tabs[t], sys[i]))
               PROVE  \E o \in proc[p].out : /\ o.tab = DevJobs(proc[p].cmd.tabs[t], sys[i])[j].tab
                                             /\ o.rgn = DevJobs(proc[p].cmd.tabs[t], sys[i])[j].rgn
    BY DEF Complete, Succeeded, ShowsOf
  <2> DEFINE jobs == DevJobs(proc[p].cmd.tabs[t], sys[i])
  <2>1. Covers(proc[p].cmd, Shown(proc[p])) BY CourseIs DEF IsCourse
  <2>2. Members(jobs) \subseteq Shown(proc[p]) BY <2>1 DEF Covers
  <2> HIDE DEF jobs
  <2>3. j \in 1..Len(jobs) BY DEF jobs
  <2>4. jobs[j] \in Shown(proc[p]) BY <2>2, <2>3 DEF Members
  <2>5. PICK o \in proc[p].out : jobs[j] = [tab |-> o.tab, rgn |-> o.rgn] BY <2>4 DEF Shown
  <2>6. jobs[j].tab = o.tab /\ jobs[j].rgn = o.rgn BY <2>5
  <2> QED BY <2>6 DEF jobs
<1> QED BY <1>1, AlwaysCourse, PTL
===============================================================================
