------------------------------- MODULE DBImpl -------------------------------
(***************************************************************************)
(* LevelDB's DBImpl: the queue of writers, the log and the memtables, the  *)
(* background thread, the MANIFEST, the files that are deleted, and what   *)
(* DB::Open makes of the files a crash leaves.                             *)
(*                                                                         *)
(* A step is what a thread does with the mutex held, or one file operation *)
(* without it; a table is built and synced in one, and the sync of the     *)
(* MANIFEST is one step with the new version that follows it.              *)
(* A write is its number; keys and values are in VersionSet.               *)
(* A table is the set of its entries, a log the sequence of its records,   *)
(* and a MANIFEST the sequence of the states its edits lead to.            *)
(***************************************************************************)
EXTENDS Integers, Sequences, FiniteSetsExt, Functions

CONSTANTS MaxWrites,          \* bound: writes asked for
          MaxCrashes,         \* bound: crashes
          MaxEvents,          \* bound: writes, crashes and failures together
          MaxFaults,          \* bound: file operations that fail
          MaxReaders,         \* bound: versions held by readers
          WriteBuffer,        \* a memtable with more writes than this is full
          CompactionTrigger,  \* kL0_CompactionTrigger
          StopTrigger         \* kL0_StopWritesTrigger

ASSUME DBImplAssumption ==
  /\ {MaxWrites, MaxCrashes, MaxEvents, MaxFaults, MaxReaders, WriteBuffer} \subseteq Nat
  /\ {CompactionTrigger, StopTrigger} \subseteq Nat \ {0}
  /\ CompactionTrigger <= StopTrigger

VARIABLES
  (* Files. *)
  logs, tables, manifests,
  current,        \* the MANIFEST that CURRENT names
  (* VersionSet. *)
  nextFile, lastSequence, version, logNumber, manifestNumber,
  (* DBImpl. *)
  state,          \* open, down, or the step of DB::Open
  logfile,        \* logfile_number_
  mem, imm,
  queue,          \* writers_
  group,          \* the batch group being written, its step
  waiting,        \* the front writer waits on bg_cv_
  scheduled,      \* bg_compaction_scheduled_
  compaction,     \* the compaction being done
  edit,           \* the edit LogAndApply is writing
  pending,        \* pending_outputs_
  bgError,
  readers,        \* versions held by iterators and reads: their tables
  toReplay,       \* the logs DB::Open has still to replay
  (* Bounds, and what callers were told. *)
  writes, crashes, faults,
  asked,          \* the writes asked for that a crash has not undone
  acked,          \* of these, the ones that returned ok
  promised        \* and the ones that returned ok with the sync option

disk     == <<logs, tables, manifests, current>>
versions == <<nextFile, lastSequence, version, logNumber, manifestNumber>>
memory   == <<logfile, mem, imm>>
writing  == <<queue, group, waiting>>
background == <<scheduled, compaction, edit, pending>>
told     == <<writes, asked, acked, promised>>
vars == <<disk, versions, state, memory, writing, background, bgError, readers, toReplay,
          crashes, faults, told>>

Files(v) == v.l0 \cup v.l1
NoTables == [l0 |-> {}, l1 |-> {}]

\* A file that is appended to: what was written, and how much of it is synced.
File(data, n) == [data |-> data, synced |-> n]
Appended(f, r) == [f EXCEPT !.data = Append(@, r)]
Synced(f) == [f EXCEPT !.synced = Len(f.data)]

Entries(log) == UNION Range(log.data)
Ids(E) == {e.id : e \in E}
Seqs(E) == {e.seq : e \in E}

With(f, n, x) == [m \in DOMAIN f \cup {n} |-> IF m = n THEN x ELSE f[m]]

Events == writes + crashes + faults

\* A file operation fails.
Fault == faults < MaxFaults /\ Events < MaxEvents /\ faults' = faults + 1

-----------------------------------------------------------------------------
(* DB::Write.                                                               *)

Open == state = "open"
Full == Cardinality(mem) > WriteBuffer

Write(sync) ==
  /\ Open /\ writes < MaxWrites /\ Events < MaxEvents
  /\ writes' = writes + 1
  /\ queue' = Append(queue, [id |-> writes + 1, sync |-> sync])
  /\ asked' = asked \cup {writes + 1}
  /\ UNCHANGED <<disk, versions, state, memory, group, waiting, background, bgError, readers, toReplay,
                 crashes, faults, acked, promised>>

NoGroup == [step |-> "none", writers |-> <<>>, entries |-> {}]

\* The front of the queue, when nothing is being written: it is in MakeRoomForWrite.
AtFront == Open /\ queue # <<>> /\ group.step = "none" /\ ~waiting

\* Only the front writer returns, with the error.
FrontFails ==
  /\ queue' = Tail(queue)
  /\ UNCHANGED <<group, waiting>>

WriteAfterError ==
  /\ AtFront /\ bgError
  /\ FrontFails
  /\ UNCHANGED <<disk, versions, state, memory, background, bgError, readers, toReplay, crashes,
                 faults, told>>

\* Mutant: a sync write joins the group of a write that is not.
GroupAny(n) == TRUE

\* BuildBatchGroup: a sync write does not join the group of one that is not.  Where the
\* size ends the group is open.
MayGroup(n) == queue[1].sync \/ \A i \in 1 .. n : ~queue[i].sync

StartGroup ==
  /\ AtFront /\ ~bgError /\ ~Full
  /\ \E n \in 1 .. Len(queue) :
       /\ MayGroup(n)
       /\ group' = [step |-> "append", writers |-> SubSeq(queue, 1, n),
                    entries |-> {[id |-> queue[i].id, seq |-> lastSequence + i] : i \in 1 .. n}]
  /\ UNCHANGED <<disk, versions, state, memory, queue, waiting, background, bgError, readers, toReplay,
                 crashes, faults, told>>

MustWait == imm # {} \/ Cardinality(version.l0) >= StopTrigger

Wait ==
  /\ AtFront /\ ~bgError /\ Full /\ MustWait
  /\ waiting' = TRUE
  /\ UNCHANGED <<disk, versions, state, memory, queue, group, background, bgError, readers, toReplay,
                 crashes, faults, told>>

\* Mutant: the switch does not schedule the background work.
ScheduleLater == UNCHANGED scheduled

\* MaybeScheduleCompaction after the switch: imm_ is there.
ScheduleFlush == scheduled' = TRUE

SwitchMemTable ==
  /\ AtFront /\ ~bgError /\ Full /\ ~MustWait
  /\ logs' = With(logs, nextFile, File(<<>>, 0))
  /\ logfile' = nextFile /\ nextFile' = nextFile + 1
  /\ imm' = mem /\ mem' = {}
  /\ ScheduleFlush
  /\ UNCHANGED <<tables, manifests, current, lastSequence, version, logNumber, manifestNumber,
                 state, writing, compaction, edit, pending, bgError, readers, toReplay,
                 crashes, faults, told>>

\* The new log cannot be created: ReuseFileNumber, and the front writer fails.
SwitchFails ==
  /\ AtFront /\ ~bgError /\ Full /\ ~MustWait
  /\ Fault /\ FrontFails
  /\ UNCHANGED <<disk, versions, state, memory, background, bgError, readers, toReplay,
                 crashes, told>>

\* The group leaves the queue: all its writers return.  The sequence numbers are used
\* up also when the write failed.
GroupReturns ==
  /\ queue' = SubSeq(queue, Len(group.writers) + 1, Len(queue))
  /\ lastSequence' = lastSequence + Len(group.writers)
  /\ group' = NoGroup
  /\ UNCHANGED <<nextFile, version, logNumber, manifestNumber, waiting, state, logfile, imm,
                 background, readers, toReplay, crashes, writes, asked>>

\* AddRecord, without the mutex.
AppendRecord ==
  /\ Open /\ group.step = "append"
  /\ logs' = [logs EXCEPT ![logfile] = Appended(@, group.entries)]
  /\ group' = [group EXCEPT !.step = IF group.writers[1].sync THEN "sync" ELSE "insert"]
  /\ UNCHANGED <<tables, manifests, current, versions, state, memory, queue, waiting, background,
                 bgError, readers, toReplay, crashes, faults, told>>

\* Nothing was written, and the callers are told.
AppendFails ==
  /\ Open /\ group.step = "append"
  /\ Fault /\ GroupReturns
  /\ UNCHANGED <<disk, mem, bgError, acked, promised>>

SyncLog ==
  /\ Open /\ group.step = "sync"
  /\ logs' = [logs EXCEPT ![logfile] = Synced(@)]
  /\ group' = [group EXCEPT !.step = "insert"]
  /\ UNCHANGED <<tables, manifests, current, versions, state, memory, queue, waiting, background,
                 bgError, readers, toReplay, crashes, faults, told>>

\* The record may or may not be there after a crash: no more writes.
SyncFails ==
  /\ Open /\ group.step = "sync"
  /\ Fault /\ GroupReturns
  /\ bgError' = TRUE
  /\ UNCHANGED <<disk, mem, acked, promised>>

\* InsertInto, SetLastSequence, and the writers return.
InsertGroup ==
  /\ Open /\ group.step = "insert"
  /\ mem' = mem \cup group.entries
  /\ acked' = acked \cup Ids(group.entries)
  /\ promised' = promised \cup {w.id : w \in {v \in Range(group.writers) : v.sync}}
  /\ GroupReturns
  /\ UNCHANGED <<disk, bgError, faults>>

-----------------------------------------------------------------------------
(* The background thread.                                                   *)

NeedsCompaction(v) == Cardinality(v.l0) >= CompactionTrigger

\* BackgroundCall ends: what is left to do is scheduled, and bg_cv_ is signalled.
CallEnds ==
  /\ scheduled' = (~bgError' /\ (imm' # {} \/ NeedsCompaction(version')))
  /\ waiting' = FALSE

\* Mutant: the table a compaction writes is not protected.
LiveUnprotected(v, held, written) == Files(v) \cup UNION held

\* AddLiveFiles, and pending_outputs_.
Live(v, held, written) == Files(v) \cup written \cup UNION held

\* Mutant: one off, the current MANIFEST goes too.
KeepsNewerManifest(n) == n > manifestNumber

\* Its own MANIFEST, and those of newer incarnations.
KeepsManifest(n) == n >= manifestNumber

\* DeleteObsoleteFiles, when some versions are held besides the current one, after the
\* MANIFEST was written.
DeleteObsoleteFiles(held, written) ==
  IF bgError
  THEN UNCHANGED <<logs, tables>> /\ manifests' = written
  ELSE /\ tables' = Restrict(tables, DOMAIN tables \cap Live(version', held, pending'))
       /\ logs' = Restrict(logs, {n \in DOMAIN logs : n >= logNumber'})
       /\ manifests' = Restrict(written, {n \in DOMAIN manifests : KeepsManifest(n)})

\* BackgroundCall finds nothing to do, or an error.
BackgroundIdle ==
  /\ Open /\ scheduled /\ compaction = {} /\ edit = {}
  /\ bgError \/ (imm = {} /\ ~NeedsCompaction(version))
  /\ UNCHANGED <<disk, versions, state, memory, queue, group, compaction, edit, pending,
                 bgError, readers, toReplay, crashes, faults, told>>
  /\ CallEnds

\* An edit as LogAndApply encodes it, when the number of its table has been taken.
Edit(by, add0, add1, del, log) ==
  [by |-> by, add0 |-> add0, add1 |-> add1, del |-> del, log |-> log,
   next |-> nextFile', last |-> lastSequence, step |-> "append"]

Apply(v, e) == [l0 |-> (v.l0 \ e.del) \cup e.add0, l1 |-> (v.l1 \ e.del) \cup e.add1]

\* Mutant: one off, the edit says that the log in use is not needed.
FlushLogNext == logfile + 1

\* Earlier logs are no longer needed.
FlushLog == logfile

\* CompactMemTable: BuildTable and its sync, without the mutex, and LogAndApply up to where
\* it releases it again.  The table is put into level 0: where else it may go is in
\* VersionSet.  In the middle of a compaction bg_error_ is not looked at.
MayFlush ==
  /\ Open /\ scheduled /\ imm # {} /\ edit = {}
  /\ compaction = {} => ~bgError

BuildTable ==
  /\ MayFlush
  /\ nextFile' = nextFile + 1
  /\ tables' = With(tables, nextFile, imm)
  /\ edit' = {Edit("flush", {nextFile}, {}, {}, FlushLog)}
  /\ UNCHANGED <<logs, manifests, current, lastSequence, version, logNumber, manifestNumber,
                 state, memory, writing, scheduled, compaction, pending, bgError, readers,
                 toReplay, crashes, faults, told>>

\* RecordBackgroundError; a failure in the middle of a compaction does not end it.
BackgroundError ==
  /\ Fault
  /\ bgError' = TRUE /\ waiting' = FALSE

BuildFails ==
  /\ MayFlush
  /\ BackgroundError
  /\ nextFile' = nextFile + 1
  /\ scheduled' = (compaction # {})
  /\ UNCHANGED <<disk, lastSequence, version, logNumber, manifestNumber, state, memory, queue,
                 group, compaction, edit, pending, readers, toReplay, crashes, told>>

\* PickCompaction: tables of level 0, and the tables of level 1.
StartCompaction ==
  /\ Open /\ scheduled /\ compaction = {} /\ edit = {}
  /\ ~bgError /\ imm = {} /\ NeedsCompaction(version)
  /\ \E in0 \in SUBSET version.l0 \ {{}} :
       compaction' = {[inputs |-> in0 \cup version.l1, base |-> Files(version), output |-> {},
                       step |-> "start"]}
  /\ UNCHANGED <<disk, versions, state, memory, writing, scheduled, edit, pending, bgError,
                 readers, toReplay, crashes, faults, told>>

Compacting(step) == Open /\ edit = {} /\ \E c \in compaction : c.step = step

\* OpenCompactionOutputFile and FinishCompactionOutputFile.  The entries that are dropped
\* are those no reader can tell: here all are kept.
WriteCompactionOutput ==
  /\ Compacting("start")
  /\ nextFile' = nextFile + 1 /\ pending' = pending \cup {nextFile}
  /\ \E c \in compaction :
       /\ tables' = With(tables, nextFile, UNION {tables[m] : m \in c.inputs})
       /\ compaction' = {[c EXCEPT !.output = {nextFile}, !.step = "written"]}
  /\ UNCHANGED <<logs, manifests, current, lastSequence, version, logNumber, manifestNumber,
                 state, memory, writing, scheduled, edit, bgError, readers, toReplay, crashes,
                 faults, told>>

CompactionOutputFails ==
  /\ Compacting("start")
  /\ BackgroundError
  /\ nextFile' = nextFile + 1
  /\ compaction' = {} /\ scheduled' = FALSE
  /\ UNCHANGED <<disk, lastSequence, version, logNumber, manifestNumber, state, memory, queue,
                 group, edit, pending, readers, toReplay, crashes, told>>

InstallCompactionResults ==
  /\ Compacting("written")
  /\ UNCHANGED <<disk, versions, state, memory, writing, scheduled, pending, bgError,
                 readers, toReplay, crashes, faults, told>>
  /\ edit' = {Edit("compaction", {}, c.output, c.inputs, logNumber) : c \in compaction}
  /\ compaction' = {[c EXCEPT !.step = "install"] : c \in compaction}

-----------------------------------------------------------------------------
(* LogAndApply: the record, the sync, and the new version.                  *)

\* What a MANIFEST says when one more edit is applied.
Record(v, e) == [version |-> Apply(v, e), log |-> e.log, next |-> e.next, last |-> e.last]

Says(m) == manifests[m].data[Len(manifests[m].data)]

AppendEdit ==
  /\ Open
  /\ \E e \in edit :
       /\ e.step = "append"
       /\ manifests' = [manifests EXCEPT
            ![manifestNumber] = Appended(@, Record(Says(manifestNumber).version, e))]
       /\ edit' = {[e EXCEPT !.step = "sync"]}
  /\ UNCHANGED <<logs, tables, current, versions, state, memory, writing, scheduled,
                 compaction, pending, bgError, readers, toReplay, crashes, faults, told>>

SyncManifest(fs) == [fs EXCEPT ![manifestNumber] = Synced(@)]

\* Writing or syncing the record fails: the version stays, and the record may be there.
EditFails ==
  /\ Open /\ \E e \in edit : e.step \in {"append", "sync"}
  /\ BackgroundError
  /\ edit' = {}
  /\ IF \E e \in edit : e.by = "compaction"
     THEN /\ pending' = pending \ UNION {c.output : c \in compaction}
          /\ compaction' = {} /\ scheduled' = FALSE
     ELSE UNCHANGED <<pending, compaction>> /\ scheduled' = (compaction # {})
  /\ UNCHANGED <<disk, versions, state, memory, queue, group, readers, toReplay, crashes,
                 told>>

NewVersion(e) ==
  /\ e.step = "sync"
  /\ version' = Apply(version, e) /\ logNumber' = e.log
  /\ edit' = {}
  /\ UNCHANGED <<current, nextFile, lastSequence, manifestNumber, state, logfile, mem, queue,
                 group, bgError, readers, toReplay, crashes, faults, told>>

\* The end of CompactMemTable, on its own or in the middle of a compaction.
InstallFlush ==
  /\ Open
  /\ \E e \in edit : e.by = "flush" /\ NewVersion(e)
  /\ imm' = {}
  /\ UNCHANGED <<compaction, pending>>
  /\ DeleteObsoleteFiles(readers \cup {c.base : c \in compaction}, SyncManifest(manifests))
  /\ IF compaction = {} THEN CallEnds ELSE waiting' = FALSE /\ UNCHANGED scheduled

\* CleanupCompaction, ReleaseInputs, and the end of the call.
InstallCompaction ==
  /\ Open
  /\ \E e \in edit : e.by = "compaction" /\ NewVersion(e)
  /\ pending' = pending \ UNION {c.output : c \in compaction}
  /\ compaction' = {} /\ UNCHANGED imm
  /\ DeleteObsoleteFiles(readers, SyncManifest(manifests))
  /\ CallEnds

-----------------------------------------------------------------------------
(* Readers.                                                                 *)

HoldVersion ==
  /\ Open /\ Cardinality(readers) < MaxReaders
  /\ readers' = readers \cup {Files(version)}
  /\ UNCHANGED <<disk, versions, state, memory, writing, background, bgError, toReplay, crashes,
                 faults, told>>

ReleaseVersion ==
  /\ Open
  /\ \E v \in readers : readers' = readers \ {v}
  /\ UNCHANGED <<disk, versions, state, memory, writing, background, bgError, toReplay, crashes,
                 faults, told>>

-----------------------------------------------------------------------------
(* Crashes, and DB::Open.                                                   *)

\* What DB::Open would find in the files.
Recoverable ==
  Ids(UNION {tables[n] : n \in Files(Says(current).version) \cap DOMAIN tables}) \cup
  Ids(UNION {Entries(logs[n]) : n \in {m \in DOMAIN logs : m >= Says(current).log}})

NothingInMemory ==
  /\ state' = "down"
  /\ nextFile' = 0 /\ lastSequence' = 0 /\ version' = NoTables
  /\ logNumber' = 0 /\ manifestNumber' = 0 /\ logfile' = 0
  /\ mem' = {} /\ imm' = {} /\ queue' = <<>> /\ group' = NoGroup /\ waiting' = FALSE
  /\ scheduled' = FALSE /\ compaction' = {} /\ edit' = {} /\ pending' = {}
  /\ bgError' = FALSE /\ readers' = {} /\ toReplay' = {}

Crash ==
  /\ state # "down"
  /\ crashes < MaxCrashes /\ Events < MaxEvents
  /\ crashes' = crashes + 1
  /\ NothingInMemory
  /\ UNCHANGED <<writes, faults, promised>>

\* The process ends: what was written to files is there.
Kill ==
  /\ Crash
  /\ UNCHANGED <<disk, acked>>
  /\ asked' = Recoverable

\* The machine stops: of what was not synced the end of each file may be gone.
Truncated(fs) ==
  LET longest == Max({0} \cup {Len(fs[n].data) : n \in DOMAIN fs})
      kept == {k \in [DOMAIN fs -> 0 .. longest] :
                 \A n \in DOMAIN fs : fs[n].synced <= k[n] /\ k[n] <= Len(fs[n].data)}
  IN {[n \in DOMAIN fs |-> File(SubSeq(fs[n].data, 1, k[n]), k[n])] : k \in kept}

PowerLoss ==
  /\ Crash
  /\ logs' \in Truncated(logs) /\ manifests' \in Truncated(manifests)
  /\ UNCHANGED <<tables, current>>
  /\ asked' = Recoverable'
  /\ acked' = acked \cap asked'

\* DBImpl::Recover up to the logs, with VersionSet::Recover: refused when a table is missing.
Recover ==
  LET r == Says(current)
  IN /\ state = "down"
     /\ Files(r.version) \subseteq DOMAIN tables
     /\ state' = "replay"
     /\ version' = r.version /\ logNumber' = r.log /\ lastSequence' = r.last
     /\ manifestNumber' = r.next /\ nextFile' = r.next + 1
     /\ toReplay' = {n \in DOMAIN logs : n >= r.log}
     /\ edit' = {Edit("open", {}, {}, {}, 0)}
     /\ UNCHANGED <<disk, memory, writing, scheduled, compaction, pending, bgError,
                    readers, crashes, faults, told>>

MarkFileNumberUsed(next, n) == Max({next, n + 1})

\* Mutant: the log may have newer entries than the MANIFEST knows of.
RecoveredSequenceOld(E) == lastSequence

RecoveredSequence(E) == Max({lastSequence} \cup Seqs(E))

\* RecoverLogFile, for the oldest log that is left: its entries become a table of level 0.
RecoverLogFile ==
  /\ state = "replay" /\ toReplay # {}
  /\ LET n == Min(toReplay)
         E == Entries(logs[n])
     IN /\ IF E = {}
           THEN UNCHANGED <<tables, edit>> /\ nextFile' = MarkFileNumberUsed(nextFile, n)
           ELSE /\ tables' = With(tables, nextFile, E)
                /\ edit' = {[e EXCEPT !.add0 = @ \cup {nextFile}] : e \in edit}
                /\ nextFile' = MarkFileNumberUsed(nextFile + 1, n)
        /\ lastSequence' = RecoveredSequence(E)
        /\ toReplay' = toReplay \ {n}
  /\ UNCHANGED <<logs, manifests, current, version, logNumber, manifestNumber, state, memory,
                 writing, scheduled, compaction, pending, bgError, readers, crashes,
                 faults, told>>

\* The new log of DB::Open.
NewLog ==
  /\ state = "replay" /\ toReplay = {}
  /\ logs' = With(logs, nextFile, File(<<>>, 0))
  /\ logfile' = nextFile /\ nextFile' = nextFile + 1
  /\ state' = "manifest"
  /\ UNCHANGED <<tables, manifests, current, lastSequence, version, logNumber, manifestNumber,
                 mem, imm, writing, background, bgError, readers, toReplay, crashes, faults,
                 told>>

\* LogAndApply into a new MANIFEST: a snapshot, the edit, the sync.
WriteSnapshot ==
  /\ state = "manifest"
  /\ \E e \in edit :
       /\ version' = Apply(version, e)
       /\ manifests' = With(manifests, manifestNumber,
            File(<<[version |-> version', log |-> logfile, next |-> nextFile,
                    last |-> lastSequence]>>, 1))
  /\ edit' = {}
  /\ state' = "current"
  /\ UNCHANGED <<logs, tables, current, nextFile, lastSequence, logNumber, manifestNumber,
                 memory, writing, scheduled, compaction, pending, bgError, readers,
                 toReplay, crashes, faults, told>>

\* SetCurrentFile, the new version, and the files that nothing needs any more.
SetCurrentFile ==
  /\ state = "current"
  /\ state' = "open"
  /\ current' = manifestNumber
  /\ logNumber' = logfile
  /\ scheduled' = NeedsCompaction(version)
  /\ UNCHANGED <<version, pending>>
  /\ DeleteObsoleteFiles({}, manifests)
  /\ UNCHANGED <<nextFile, lastSequence, manifestNumber, memory, writing,
                 compaction, edit, bgError, readers, toReplay, crashes, faults, told>>

-----------------------------------------------------------------------------
\* A store that DB::Open has just created.
Init ==
  /\ logs = [n \in {3} |-> File(<<>>, 0)] /\ tables = [n \in {} |-> {}]
  /\ manifests = [n \in {2} |->
       File(<<[version |-> NoTables, log |-> 3, next |-> 4, last |-> 0]>>, 1)]
  /\ current = 2
  /\ nextFile = 4 /\ lastSequence = 0 /\ version = NoTables
  /\ logNumber = 3 /\ manifestNumber = 2
  /\ state = "open" /\ logfile = 3 /\ mem = {} /\ imm = {}
  /\ queue = <<>> /\ group = NoGroup /\ waiting = FALSE
  /\ scheduled = FALSE /\ compaction = {} /\ edit = {} /\ pending = {}
  /\ bgError = FALSE /\ readers = {} /\ toReplay = {}
  /\ writes = 0 /\ crashes = 0 /\ faults = 0
  /\ asked = {} /\ acked = {} /\ promised = {}

WriterStep ==
  \/ WriteAfterError \/ StartGroup \/ Wait \/ SwitchMemTable
  \/ AppendRecord \/ SyncLog \/ InsertGroup

BackgroundStep ==
  \/ BackgroundIdle \/ BuildTable
  \/ StartCompaction \/ WriteCompactionOutput
  \/ InstallCompactionResults \/ AppendEdit \/ InstallFlush \/ InstallCompaction

Failure ==
  \/ SwitchFails \/ AppendFails \/ SyncFails \/ BuildFails \/ CompactionOutputFails \/ EditFails

OpenStep == Recover \/ RecoverLogFile \/ NewLog \/ WriteSnapshot \/ SetCurrentFile

Next ==
  \/ \E sync \in BOOLEAN : Write(sync)
  \/ WriterStep \/ BackgroundStep \/ Failure
  \/ HoldVersion \/ ReleaseVersion
  \/ Kill \/ PowerLoss \/ OpenStep

Spec == Init /\ [][Next]_vars

\* Threads that can go on do.  Writers, readers and failures need not come.
FairSpec == Spec /\ WF_vars(WriterStep) /\ WF_vars(BackgroundStep)
=============================================================================
