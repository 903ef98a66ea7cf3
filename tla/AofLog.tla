------------------------------- MODULE AofLog -------------------------------
(***************************************************************************)
(* The append-only file of one Redis server (aof.c, with the background    *)
(* thread of bio.c and the event loop of server.c): the buffer, the base   *)
(* and incremental files, the manifest that names them, the rewrite in a   *)
(* child process, turning the log off and on, and restarts after a kill    *)
(* or a loss of power.                                                      *)
(*                                                                         *)
(* A command is its number in the order of execution, a file is the        *)
(* sequence of commands that loading it applies (a base file of n          *)
(* commands is <<1, .., n>>), and the replication offset counts commands.  *)
(* A directory operation survives a loss of power only in order: what is   *)
(* found is the directory as it was at some moment since it was last       *)
(* synced.                                                                  *)
(***************************************************************************)
EXTENDS Integers, Sequences, FiniteSets, TLC

CONSTANTS
    Policies,     \* the settings of appendfsync: "always" or "everysec"
    Inodes,       \* 1..n, the files that may exist at once
    MaxWrites,    \* bound: commands executed
    MaxRewrites,  \* bound: BGREWRITEAOF calls
    MaxToggles,   \* bound: CONFIG SET appendonly no
    MaxFaults,    \* bound: calls that fail and crashes
    Faults        \* the faults that may happen

ASSUME AofAssumption ==
    /\ Policies \subseteq {"always", "everysec"}
    /\ Inodes = 1..Cardinality(Inodes)
    /\ {MaxWrites, MaxRewrites, MaxToggles, MaxFaults} \subseteq Nat
    /\ Faults \subseteq {"kill", "power", "write", "fsync", "fork", "child",
                         "rename", "persist", "dirfsync", "history"}

VARIABLES
    policy,   \* appendfsync, the same all along
    srv,      \* the fields of struct redisServer about the log
    bio,      \* the jobs of the background thread, the running one first
    disk,     \* the directory, the files' content and what of it is synced
    promised, \* commands a client was told are kept (see Promised)
    boot,     \* commands the server loaded when it started
    lapses,   \* history: what the code lets pass (see Lapses)
    spent     \* calls and faults so far

vars == <<policy, srv, bio, disk, promised, boot, lapses, spent>>

None == 0
Upto(n) == [i \in 1..n |-> i]
Larger(a, b) == IF a < b THEN b ELSE a
Elems(s) == {s[i] : i \in 1..Len(s)}

(* What the code goes on after. "files": a rewrite began though its forced   *)
(* flush had failed (aof.c:2619), or with the log off and aof_fd still set   *)
(* by a failed fork (519); the directory was not synced after the manifest   *)
(* was renamed, which then names what is not in memory or is taken back      *)
(* (594, 825, 2845); or the server started with no incremental file and      *)
(* reused the name of one that is history (745).  "fsync": the background    *)
(* thread failed to fsync a file (bio.c:324), of which the next empty flush  *)
(* knows nothing (aof.c:1160), or a killed server left a file unsynced that  *)
(* is not the last, after which the next one does not look (760).            *)
Lapses == {"files", "fsync"}
Lapsed(kind, happens) == lapses' = IF happens THEN lapses \cup {kind} ELSE lapses

Base(n) == <<"base", n>>
Incr(n) == <<"incr", n>>
Temp == <<"temp", 0>>

---------------------------------------------------------------------------
(* Files and the directory.  A directory maps names to files and holds the *)
(* manifest; disk.old is what a loss of power may bring back.              *)

\* What the server, the background thread and the directory still refer to.
InUse(g) ==
    UNION {{d.names[n] : n \in DOMAIN d.names} : d \in g.disk.old \cup {g.disk.dir}}
        \cup {g.srv.fd} \cup {g.bio[i].file : i \in 1..Len(g.bio)}

FreeFile(g) ==
    CHOOSE f \in Inodes \ InUse(g) : \A e \in Inodes \ InUse(g) : f <= e

WithName(d, name, f) ==
    [d EXCEPT !.names = [n \in DOMAIN @ \cup {name} |-> IF n = name THEN f ELSE @[n]]]

Unlinked(d, gone) ==
    [d EXCEPT !.names = [n \in DOMAIN @ \ gone |-> @[n]]]

\* The directory goes through the steps; those before the last may come back.
Through(g, steps) ==
    [g EXCEPT !.disk.old = @ \cup {g.disk.dir}
                              \cup {steps[i] : i \in 1..(Len(steps) - 1)},
              !.disk.dir = steps[Len(steps)]]

\* ... and is synced at the end.
Synced(g, d) == [g EXCEPT !.disk.old = {}, !.disk.dir = d]

Filled(g, f, content, synced) ==
    [g EXCEPT !.disk.data[f] = content, !.disk.synced[f] = synced]

\* The names loadAppendOnlyFiles reads, in order.
Named(d) == <<d.manifest.base>> \o d.manifest.incr

Loadable(d) == Elems(Named(d)) \subseteq DOMAIN d.names

\* The commands it applies.
Loads(d, data) ==
    LET file(i) == data[d.names[Named(d)[i]]]
        all[i \in 0..Len(Named(d))] == IF i = 0 THEN <<>> ELSE all[i - 1] \o file(i)
    IN  all[Len(Named(d))]

\* The manifest as aofLoadManifestFromFile reads it back: the sequence
\* numbers are those of the base file and of the last incremental file.
Reread(m) ==
    [m EXCEPT !.bseq = m.base[2],
              !.iseq = IF m.incr = <<>> THEN 0 ELSE m.incr[Len(m.incr)][2]]

---------------------------------------------------------------------------
(* Writing the buffer.  g stands for the server, the thread and the disk.  *)

Now == [srv |-> srv, bio |-> bio, disk |-> disk]

\* As a mistake would have it: a pending fsync is not looked at.
NoJobInProgress(g) == FALSE

aofFsyncInProgress(g) == \E i \in 1..Len(g.bio) : g.bio[i].type = "fsync"

Job(type, g) == [type |-> type, file |-> g.srv.fd, offset |-> g.srv.repl]

\* As a mistake would have it: the fsync is left to the next second.
TryFsyncLater(g, second, busy) ==
    IF policy = "always"
    THEN [g EXCEPT !.srv.offset = g.srv.size, !.srv.pending = g.srv.repl]
    ELSE g

TryFsync(g, second, busy) ==
    CASE policy = "always" ->
           [g EXCEPT !.disk.synced[g.srv.fd] = Len(g.disk.data[g.srv.fd]),
                     !.srv.offset = g.srv.size,
                     !.srv.pending = g.srv.repl]
      [] policy = "everysec" /\ second /\ ~busy ->
           [g EXCEPT !.bio = Append(@, Job("fsync", g)),
                     !.srv.offset = g.srv.size]
      [] OTHER -> g

BufferWritten(g) ==
    [g EXCEPT !.disk.data[g.srv.fd] = @ \o g.srv.buf,
              !.srv.size = @ + Len(g.srv.buf),
              !.srv.buf = <<>>,
              !.srv.postponed = FALSE,
              !.srv.deny = FALSE]

\* second: a second has passed since the last fsync; late: the write has
\* been put off for two seconds; fails: write(2) fails and nothing of the
\* buffer stays in the file.
flushAppendOnlyFile(g, force, second, late, fails) ==
    LET s    == g.srv
        busy == policy = "everysec" /\ aofFsyncInProgress(g)
    IN  CASE s.buf = <<>> /\ s.offset = s.size ->
               IF aofFsyncInProgress(g) THEN g
               ELSE [g EXCEPT !.srv.pending = s.repl]
          [] s.buf = <<>> /\ s.offset # s.size ->
               IF busy THEN g ELSE TryFsync(g, second, FALSE)
          [] s.buf # <<>> /\ ~force /\ busy /\ ~(s.postponed /\ late) ->
               [g EXCEPT !.srv.postponed = TRUE]
          [] OTHER ->
               IF fails THEN [g EXCEPT !.srv.postponed = FALSE, !.srv.deny = TRUE]
               ELSE TryFsync(BufferWritten(g), second, busy)

\* One job of the thread: fsync the file and publish the offset.
JobDone(g, fails) ==
    LET job == Head(g.bio)
        h   == [g EXCEPT !.bio = Tail(@)]
    IN  IF fails THEN [h EXCEPT !.srv.bioErr = TRUE]
        ELSE [h EXCEPT !.disk.synced[job.file] = Len(g.disk.data[job.file]),
                       !.srv.pending = job.offset,
                       !.srv.bioErr = FALSE]

bioDrainWorker(g) ==
    LET after[n \in 0..Len(g.bio)] == IF n = 0 THEN g ELSE JobDone(after[n - 1], FALSE)
    IN  after[Len(g.bio)]

---------------------------------------------------------------------------
(* The rewrite.  Outcomes "fork", "rename" and "persist" name the call     *)
(* that fails; "dirfsync" leaves the manifest renamed and not yet synced.  *)

\* The manifest becomes m; the in-memory one only when all went well.
persistAofManifest(g, d, m, outcome) ==
    LET written == [d EXCEPT !.manifest = m]
    IN  CASE outcome = "persist"  -> Through(g, <<d>>)
          [] outcome = "dirfsync" -> Through(g, <<d, written>>)
          [] OTHER -> [Synced(g, written) EXCEPT !.srv.manifest = m]

FdReplaced(g, f) ==
    LET closing == IF g.srv.fd = None THEN g.bio ELSE Append(g.bio, Job("close", g))
    IN  [g EXCEPT !.bio = closing, !.srv.fd = f, !.srv.size = 0, !.srv.offset = 0]

NewIncr(m) ==
    [m EXCEPT !.iseq = @ + 1, !.incr = Append(@, Incr(m.iseq + 1))]

openNewIncrAofForAppend(g, outcome) ==
    LET f    == FreeFile(g)
        name == IF g.srv.state = "ON" THEN Incr(g.srv.manifest.iseq + 1) ELSE Temp
        h    == Filled(g, f, <<>>, 0)
        d    == WithName(g.disk.dir, name, f)
        kept == persistAofManifest(h, d, NewIncr(g.srv.manifest), outcome)
    IN  CASE g.srv.state = "OFF" -> g
          [] g.srv.state = "WAIT_REWRITE" -> FdReplaced(Through(h, <<d>>), f)
          [] OTHER -> IF outcome \in {"persist", "dirfsync"} THEN kept
                      ELSE FdReplaced(kept, f)

NoChild == [running |-> FALSE, snapshot |-> 0]

\* rewriteAppendOnlyFileBackground; with "ok", and with "write" too, the child
\* starts: what the forced flush answers is not looked at.
Rewrite(g, second, outcome) ==
    LET flushed == flushAppendOnlyFile(g, TRUE, second, TRUE, outcome = "write")
        opened  == openNewIncrAofForAppend(flushed, outcome)
        ready   == IF g.srv.state = "WAIT_REWRITE"
                   THEN [bioDrainWorker(opened) EXCEPT !.srv.pending = g.srv.repl,
                                                       !.srv.reploff = 0]
                   ELSE opened
    IN  CASE outcome \in {"persist", "dirfsync"} -> opened
          [] outcome = "fork" -> ready
          [] OTHER -> [ready EXCEPT
                         !.srv.child = [running |-> TRUE, snapshot |-> g.srv.repl],
                         !.srv.scheduled = FALSE]

NewBase(m) ==
    [m EXCEPT !.base = Base(m.bseq + 1), !.bseq = @ + 1, !.hist = @ \cup {m.base}]

\* As a mistake would have it: the rewritten files stay.
MarkNoneAsHistory(m, fd) == m

\* Every incremental file but the one being written becomes history.
markRewrittenIncrAofAsHistory(m, fd) ==
    LET n == Len(m.incr)
        k == IF fd = None THEN n ELSE n - 1
    IN  IF n = 0 THEN m
        ELSE [m EXCEPT !.incr = SubSeq(@, k + 1, n),
                       !.hist = @ \cup {m.incr[i] : i \in 1..k}]

\* The names the finished rewrite puts into the directory: the new base
\* file f and, for the first rewrite, the file written meanwhile.
BaseNamed(g, f) == WithName(g.disk.dir, Base(g.srv.manifest.bseq + 1), f)

BothNamed(g, f) ==
    IF g.srv.state = "WAIT_REWRITE"
    THEN WithName(Unlinked(BaseNamed(g, f), {Temp}),
                  Incr(g.srv.manifest.iseq + 1), g.disk.dir.names[Temp])
    ELSE BaseNamed(g, f)

Rewritten(g) ==
    markRewrittenIncrAofAsHistory(
        IF g.srv.state = "WAIT_REWRITE" THEN NewIncr(NewBase(g.srv.manifest))
        ELSE NewBase(g.srv.manifest),
        g.srv.fd)

\* The history is forgotten even if the manifest cannot be written.
aofDelHistoryFiles(g, outcome) ==
    LET m == g.srv.manifest
        d == Unlinked(g.disk.dir, m.hist)
        h == [Through(g, <<d>>) EXCEPT !.srv.manifest.hist = {}]
    IN  IF m.hist = {} THEN g
        ELSE persistAofManifest(h, d, h.srv.manifest,
                                IF outcome = "history" THEN "persist" ELSE "ok")

ChildGone(g) == [g EXCEPT !.srv.child = NoChild]

\* The end of backgroundRewriteDoneHandler, reached with a failure too.
Cleanup(g) ==
    IF g.srv.state = "WAIT_REWRITE"
    THEN [Through(g, <<Unlinked(g.disk.dir, {Temp})>>) EXCEPT
             !.srv.buf = <<>>, !.srv.scheduled = TRUE]
    ELSE g

\* The child has exited with success.
RewriteDone(g, outcome) ==
    LET f     == FreeFile(g)
        h     == Filled(ChildGone(g), f, Upto(g.srv.child.snapshot), g.srv.child.snapshot)
        d     == BothNamed(g, f)
        m     == Rewritten(g)
        new   == {m.base} \cup (IF g.srv.state = "WAIT_REWRITE"
                                THEN {Incr(g.srv.manifest.iseq + 1)} ELSE {})
        kept  == persistAofManifest(Through(h, <<BaseNamed(g, f), d>>), d, m, outcome)
        undone == Through(kept, <<Unlinked(kept.disk.dir, new)>>)
        on    == IF g.srv.state = "WAIT_REWRITE"
                 THEN [kept EXCEPT !.srv.state = "ON", !.srv.reploff = kept.srv.pending]
                 ELSE kept
    IN  CASE outcome = "rename" -> Cleanup(ChildGone(g))
          [] outcome \in {"persist", "dirfsync"} -> Cleanup(undone)
          [] OTHER -> aofDelHistoryFiles(on, outcome)

---------------------------------------------------------------------------
(* Starting: aofLoadManifestFromDisk, loadDataFromDisk,                    *)
(* aofOpenIfNeededOnServerStart and aofDelHistoryFiles.                     *)

Started(d, data, synced, old) ==
    LET m     == Reread(d.manifest)
        n     == Len(Loads(d, data))
        g     == [srv  |-> [state |-> "ON", manifest |-> m, fd |-> None, buf |-> <<>>,
                            size |-> 0, offset |-> 0, repl |-> n, pending |-> 0,
                            reploff |-> 0, postponed |-> FALSE, deny |-> FALSE,
                            bioErr |-> FALSE, scheduled |-> FALSE, child |-> NoChild],
                  bio  |-> <<>>,
                  disk |-> [dir |-> d, old |-> old, data |-> data, synced |-> synced]]
        last  == IF m.incr = <<>> THEN Incr(m.iseq + 1) ELSE m.incr[Len(m.incr)]
        kept  == last \in DOMAIN d.names
        f     == IF kept THEN d.names[last] ELSE FreeFile(g)
        named == IF m.incr = <<>>
                 THEN persistAofManifest(IF kept THEN g ELSE Filled(g, f, <<>>, 0),
                                         WithName(d, last, f), NewIncr(m), "ok")
                 ELSE g
        size  == Len(named.disk.data[f])
    IN  aofDelHistoryFiles([named EXCEPT !.srv.fd = f, !.srv.size = size,
                                         !.srv.offset = size], "ok")

\* A file that is loaded and not written any more, and so is never fsynced.
LeftUnsynced(d, data, synced) ==
    \E i \in 1..(Len(Named(d)) - 1) :
        LET f == d.names[Named(d)[i]] IN synced[f] < Len(data[f])

\* The file that a start without incremental files opens is among the history.
Reused(d) ==
    /\ d.manifest.incr = <<>>
    /\ Incr(Reread(d.manifest).iseq + 1) \in d.manifest.hist

\* What nothing refers to any more is forgotten.
Commit(g) ==
    \E h \in {g} : \E used \in {InUse(h)} :
        /\ srv' = h.srv
        /\ bio' = h.bio
        /\ UNCHANGED policy
        /\ disk' = [h.disk EXCEPT
                      !.data   = [f \in Inodes |-> IF f \in used THEN @[f] ELSE <<>>],
                      !.synced = [f \in Inodes |-> IF f \in used THEN @[f] ELSE 0]]

Empty == [base |-> Base(1), incr |-> <<Incr(1)>>, hist |-> {}, bseq |-> 1, iseq |-> 1]

\* The first start, with no data: an empty base file and incremental file.
Init ==
    LET g == Started([names |-> (Base(1) :> 1) @@ (Incr(1) :> 2), manifest |-> Empty],
                     [f \in Inodes |-> <<>>], [f \in Inodes |-> 0], {})
    IN  /\ policy \in Policies
        /\ srv = g.srv
        /\ bio = g.bio
        /\ disk = g.disk
        /\ promised = 0
        /\ boot = 0
        /\ lapses = {}
        /\ spent = [rewrites |-> 0, toggles |-> 0, faults |-> 0]

Fault(kind) == kind \in Faults /\ spent.faults < MaxFaults

\* Either nothing fails, or one of the kinds does and is counted.
Counted(outcome) ==
    IF outcome = "ok" THEN UNCHANGED spent
    ELSE Fault(outcome) /\ spent' = [spent EXCEPT !.faults = @ + 1]

\* A file that was replaced has not been fsynced yet.
Replaced(g) ==
    \E i \in 1..Len(g.bio) :
        /\ g.bio[i].type = "close"
        /\ g.disk.synced[g.bio[i].file] < Len(g.disk.data[g.bio[i].file])

(* What clients have been told: WAITAOF answers with the synced offset and, *)
(* with appendfsync always, a reply itself promises, as flushAppendOnlyFile *)
(* says; of commands executed since the start.  An answer counts once what  *)
(* it relies on is done: after a rewrite began it may come before the file  *)
(* that was replaced is synced (OffsetIsSynced), and none counts after a    *)
(* lapse: an offset is published though data of it is never synced, or is   *)
(* in the buffer still.                                                     *)
Promised(g, replies) ==
    LET reply == IF replies /\ policy = "always" /\ g.srv.state = "ON" THEN g.srv.repl ELSE 0
        n     == Larger(g.srv.reploff, reply)
    IN  IF n > boot /\ ~Replaced(g) /\ lapses = {} THEN Larger(promised, n) ELSE promised

---------------------------------------------------------------------------
(* The server's steps.                                                      *)

\* call and feedAppendOnlyFile.
Write ==
    /\ srv.repl < MaxWrites
    /\ ~(srv.state # "OFF" /\ (srv.deny \/ srv.bioErr))
    /\ LET feeds == \/ srv.state = "ON"
                    \/ srv.state = "WAIT_REWRITE" /\ srv.child.running
       IN  srv' = [srv EXCEPT !.repl = @ + 1,
                              !.buf = IF feeds THEN Append(@, srv.repl + 1) ELSE @]
    /\ UNCHANGED <<policy, bio, disk, promised, boot, lapses, spent>>

\* beforeSleep: flush, publish the synced offset, send the replies.
BeforeSleep(second, late, outcome) ==
    /\ Counted(outcome)
    /\ outcome = "write" => policy = "everysec" /\ srv.buf # <<>>
    /\ \E g \in {IF srv.state = "OFF" THEN Now
                ELSE flushAppendOnlyFile(Now, FALSE, second, late, outcome = "write")} :
         LET h == IF g.srv.state = "ON" /\ g.srv.reploff # -1
                  THEN [g EXCEPT !.srv.reploff = g.srv.pending] ELSE g
         IN  /\ Commit(h)
             /\ promised' = Promised(h, TRUE)
    /\ UNCHANGED <<boot, lapses>>

\* serverCron: the buffer that was postponed or could not be written.
CronFlush(second, late) ==
    /\ srv.state # "OFF"
    /\ srv.postponed \/ srv.deny
    /\ Commit(flushAppendOnlyFile(Now, FALSE, second, late, FALSE))
    /\ UNCHANGED <<promised, boot, lapses, spent>>

\* bgrewriteaofCommand, and serverCron when the log has grown.
BgRewrite(second, outcome) ==
    /\ srv.state = "ON" /\ ~srv.child.running
    /\ spent.rewrites < MaxRewrites
    /\ outcome = "write" => policy = "everysec" /\ srv.buf # <<>>
    /\ outcome # "ok" => Fault(outcome)
    /\ Commit(Rewrite(Now, second, outcome))
    /\ Lapsed("files", outcome \in {"write", "dirfsync"})
    /\ spent' = [spent EXCEPT !.rewrites = @ + 1,
                              !.faults = IF outcome = "ok" THEN @ ELSE @ + 1]
    /\ UNCHANGED <<promised, boot>>

\* ... while the log is off: no file is opened.
BgRewriteOff ==
    /\ srv.state = "OFF" /\ ~srv.child.running
    /\ spent.rewrites < MaxRewrites
    /\ Commit([Now EXCEPT !.srv.child = [running |-> TRUE, snapshot |-> srv.repl],
                          !.srv.scheduled = FALSE])
    /\ Lapsed("files", srv.fd # None)
    /\ spent' = [spent EXCEPT !.rewrites = @ + 1]
    /\ UNCHANGED <<promised, boot>>

\* serverCron: a rewrite that was put off.
CronRewrite(outcome) ==
    /\ ~srv.child.running
    /\ srv.scheduled
    /\ Counted(outcome)
    /\ Commit(Rewrite(Now, FALSE, outcome))
    /\ UNCHANGED <<promised, boot, lapses>>

\* checkChildrenDone and backgroundRewriteDoneHandler.
ChildExits(outcome) ==
    /\ srv.child.running
    /\ Counted(outcome)
    /\ \E g \in {IF outcome = "child" THEN Cleanup(ChildGone(Now))
                ELSE RewriteDone(Now, outcome)} :
         /\ Commit(g)
         /\ promised' = Promised(g, FALSE)
    /\ Lapsed("files", outcome = "dirfsync")
    /\ UNCHANGED boot

\* CONFIG SET appendonly no: flush, fsync, close, kill the child, whatever
\* the first two answer.
stopAppendOnly(outcome) ==
    /\ srv.state # "OFF"
    /\ spent.toggles < MaxToggles
    /\ outcome = "write" => policy = "everysec" /\ srv.buf # <<>>
    /\ outcome # "ok" => Fault(outcome)
    /\ LET g == flushAppendOnlyFile(Now, TRUE, FALSE, TRUE, outcome = "write")
           h == IF g.srv.fd = None \/ outcome = "fsync" THEN g
                ELSE [g EXCEPT !.disk.synced[g.srv.fd] = Len(g.disk.data[g.srv.fd])]
       IN  Commit([h EXCEPT !.srv = [@ EXCEPT
                      !.state = "OFF", !.fd = None, !.buf = <<>>, !.size = 0, !.offset = 0,
                      !.reploff = -1, !.pending = 0, !.scheduled = FALSE,
                      !.child = NoChild]])
    /\ spent' = [spent EXCEPT !.toggles = @ + 1,
                              !.faults = IF outcome = "ok" THEN @ ELSE @ + 1]
    /\ UNCHANGED <<promised, boot, lapses>>

\* CONFIG SET appendonly yes.  A child that saves an RDB file puts the
\* rewrite off; one that rewrites the log is killed.
startAppendOnly(outcome, saving) ==
    /\ srv.state = "OFF"
    /\ saving => outcome = "ok" /\ ~srv.child.running
    /\ Counted(outcome)
    /\ LET g == [ChildGone(Now) EXCEPT !.srv.state = "WAIT_REWRITE"]
           h == IF saving THEN [g EXCEPT !.srv.scheduled = TRUE]
                ELSE Rewrite(g, FALSE, outcome)
       IN  Commit([h EXCEPT !.srv.state = IF outcome = "ok" THEN @ ELSE "OFF",
                            !.srv.bioErr = IF outcome = "ok" THEN FALSE ELSE @,
                            !.srv.deny = IF outcome = "ok" THEN FALSE ELSE @])
    /\ UNCHANGED <<promised, boot, lapses>>

\* bioProcessBackgroundJobs.
BioStep(outcome) ==
    /\ bio # <<>>
    /\ Counted(outcome)
    /\ Commit(JobDone(Now, outcome = "fsync"))
    /\ Lapsed("fsync", LET f == Head(bio).file
                      IN  outcome = "fsync" /\ disk.synced[f] < Len(disk.data[f]))
    /\ UNCHANGED <<promised, boot>>

---------------------------------------------------------------------------
(* Crashes, also in the middle of the handlers that change files.          *)

\* Written and not fsynced.
MidFlush ==
    IF srv.state # "OFF" /\ srv.fd # None /\ srv.buf # <<>> THEN {BufferWritten(Now)} ELSE {}

MidRewrite ==
    IF /\ srv.state = "ON" /\ ~srv.child.running /\ srv.buf = <<>>
       /\ spent.rewrites < MaxRewrites
    THEN {openNewIncrAofForAppend(Now, outcome) : outcome \in {"persist", "dirfsync"}}
    ELSE {}

MidDone ==
    LET f    == FreeFile(Now)
        h    == Filled(Now, f, Upto(srv.child.snapshot), srv.child.snapshot)
        base == BaseNamed(Now, f)
        both == BothNamed(Now, f)
        m    == Rewritten(Now)
        kept == Synced(h, [both EXCEPT !.manifest = m])
    IN  IF ~srv.child.running THEN {}
        ELSE {Through(h, <<base>>), Through(h, <<base, both>>),
              Through(h, <<base, both, [both EXCEPT !.manifest = m]>>)}
             \cup {Through(kept, <<Unlinked(kept.disk.dir, gone)>>) : gone \in SUBSET m.hist}

Moments == {Now} \cup MidFlush \cup MidRewrite \cup MidDone

\* A bound: the server is followed if it loads the beginning of what it executed.
\* It does not start if a file is missing; and with appendfsync everysec a loss of
\* power may take the end of a file that another follows.
Restart(d, data, synced, old) ==
    /\ Loadable(d)
    /\ Loads(d, data) = Upto(Len(Loads(d, data)))
    /\ lapses' = lapses \cup (IF Reused(d) THEN {"files"} ELSE {})
                       \cup (IF LeftUnsynced(d, data, synced) THEN {"fsync"} ELSE {})
    /\ \E g \in {Started(d, data, synced, old)} :
         /\ Commit(g)
         /\ boot' = g.srv.repl
    /\ UNCHANGED promised

\* The process is killed: the files are as the system calls left them.
\* The directory reaches the disk before the server has started again.
Kill ==
    /\ Counted("kill")
    /\ \E g \in Moments :
         Restart(g.disk.dir, g.disk.data, g.disk.synced, {})

\* The power goes: any directory since the last sync of it, and of each
\* file any beginning that holds what was synced.
PowerLoss ==
    /\ Counted("power")
    /\ \E g \in Moments : \E d \in g.disk.old \cup {g.disk.dir} :
         /\ LET open == {f \in Inodes : g.disk.synced[f] < Len(g.disk.data[f])}
            IN  \E left \in [open -> 0..MaxWrites] :
                   /\ \A f \in open : left[f] \in g.disk.synced[f]..Len(g.disk.data[f])
                   /\ LET data == [f \in Inodes |-> IF f \in open
                                     THEN SubSeq(g.disk.data[f], 1, left[f])
                                     ELSE g.disk.data[f]]
                      IN  Restart(d, data, [f \in Inodes |-> Len(data[f])], {})

Next ==
    \/ Write
    \/ \E second, late \in BOOLEAN :
          \/ \E outcome \in {"ok", "write"} : BeforeSleep(second, late, outcome)
          \/ CronFlush(second, late)
    \/ \E second \in BOOLEAN, outcome \in {"ok", "write", "fork", "persist", "dirfsync"} :
          BgRewrite(second, outcome)
    \/ BgRewriteOff
    \/ \E outcome \in {"ok", "fork"} : CronRewrite(outcome)
    \/ \E outcome \in {"ok", "child", "rename", "persist", "dirfsync", "history"} :
          ChildExits(outcome)
    \/ \E outcome \in {"ok", "write", "fsync"} : stopAppendOnly(outcome)
    \/ \E outcome \in {"ok", "fork"}, saving \in BOOLEAN : startAppendOnly(outcome, saving)
    \/ \E outcome \in {"ok", "fsync"} : BioStep(outcome)
    \/ Kill
    \/ PowerLoss

Spec == Init /\ [][Next]_vars

(* The event loop runs and a second passes, the background thread works,   *)
(* the child ends (ChildExits), and serverCron starts a rewrite that was    *)
(* put off (CronRewrite).  The last two may be taken whenever the child     *)
(* runs, or may be started, and end that: weak fairness of them says no     *)
(* more than that neither lasts for ever.                                   *)
FairSpec ==
    /\ Spec
    /\ WF_vars(BeforeSleep(TRUE, TRUE, "ok"))
    /\ WF_vars(BioStep("ok"))
    /\ []<>(~srv.child.running)
    /\ []<>(~(srv.scheduled /\ ~srv.child.running))

---------------------------------------------------------------------------
(* Properties.                                                              *)

\* Every variable has its type.
TypeOK ==
    /\ policy \in Policies
    /\ srv.state \in {"OFF", "WAIT_REWRITE", "ON"}
    /\ srv.fd \in Inodes \cup {None}
    /\ {srv.repl, srv.pending, srv.size, srv.offset, promised, boot} \subseteq 0..MaxWrites
    /\ srv.reploff \in -1..MaxWrites
    /\ \A i \in 1..Len(bio) : bio[i].type \in {"fsync", "close"} /\ bio[i].file \in Inodes
    /\ lapses \subseteq Lapses
    /\ \A f \in Inodes : disk.synced[f] \in 0..Len(disk.data[f])

\* Whatever directory a crash leaves, its manifest names files that exist,
\* and loading them applies the commands that were executed, each once and
\* in order (persistAofManifest, openNewIncrAofForAppend,
\* backgroundRewriteDoneHandler and loadAppendOnlyFiles).
LoadsHistory ==
    \A g \in Moments : \A d \in g.disk.old \cup {g.disk.dir} :
        /\ Loadable(d)
        /\ Loads(d, g.disk.data) = Upto(Len(Loads(d, g.disk.data)))

\* While the log is on, the files hold every command but those in the
\* buffer, in every directory a kill can leave (flushAppendOnlyFile).
OnlyBufferMissing ==
    srv.state = "ON" =>
        \A g \in Moments : Loads(g.disk.dir, g.disk.data) \o g.srv.buf = Upto(srv.repl)

\* The commands that are found after any loss of power at the moment g.
Surviving(g) ==
    {n \in 1..MaxWrites :
        \A d \in g.disk.old \cup {g.disk.dir} :
            n \in Elems(Loads(d, [f \in Inodes |-> SubSeq(g.disk.data[f], 1, g.disk.synced[f])]))}

\* A loss of power at any moment leaves the commands a client was told are kept
\* (persistAofManifest, bioProcessBackgroundJobs).
PromisedSurvive == \A g \in Moments : 1..promised \subseteq Surviving(g)

\* "Largest replication offset that has been confirmed to be fsynced"
\* (server.h:2268), of which aof.c:1154 says "All data is fsync'd already".
OffsetIsSynced ==
    srv.state = "ON" => (boot + 1)..srv.reploff \subseteq Surviving(Now)

\* "the history deletion failure will not cause any problems" (aof.c:2868): all
\* files that the manifest names are there, and the server can start.
HistoryIsHarmless == Loadable(disk.dir)

\* "if any step fails, the entire operation will rollback" (aof.c:796): the manifest
\* that is on disk is the one the server works with.
RollsBack == disk.dir.manifest = srv.manifest

\* "'server.aof_fd != -1' means AOF enabled, then we must skip the last AOF,
\* because this file is our currently writing" (aof.c:517): so it is while a
\* child rewrites the log.
FdIsTheLast ==
    srv.child.running /\ srv.fd # None /\ srv.state # "WAIT_REWRITE" =>
        disk.dir.names[srv.manifest.incr[Len(srv.manifest.incr)]] = srv.fd

\* "Incremental files, which contain additional commands that were applied to
\* the dataset following the previous file" (redis.conf:1444).
IncrFollows ==
    LET files      == Named(disk.dir)
        content(i) == Elems(disk.data[disk.dir.names[files[i]]])
    IN  \A i, j \in 1..Len(files) : i < j =>
          \A x \in content(i), y \in content(j) : x < y

\* No crash takes back a command a client was told is kept.
Log == INSTANCE KeptLog WITH executed <- srv.repl
KeepsPromised == Log!Spec

\* A log that is to be turned on does not stay so: it is turned on, or off
\* again (startAppendOnly, backgroundRewriteDoneHandler, serverCron).
TurnedOn == []<>(srv.state # "WAIT_REWRITE")

\* What is executed with the log on is fsynced and WAITAOF says so, once no
\* more commands come (flushAppendOnlyFile, bioProcessBackgroundJobs).
WrittenIsAcked == []<>(srv.state = "ON" => srv.reploff >= srv.repl)

\* What is on disk at every moment of every handler, unless the code went on after
\* a failure that its files do not survive (aof.c, and see Lapses).
DiskSound ==
    /\ TypeOK
    /\ "files" \notin lapses => LoadsHistory /\ OnlyBufferMissing /\ PromisedSurvive

\* The log makes progress: it does not stay about to be turned on, nor behind
\* what was executed.
LogProgress == TurnedOn /\ WrittenIsAcked
=============================================================================
