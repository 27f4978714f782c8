-------------------------- MODULE DBImplInvariant --------------------------
(***************************************************************************)
(* Why DBImpl keeps what it must: the invariant the proofs rest on.        *)
(*                                                                         *)
(* Whatever the MANIFEST may turn out to say, the tables it names and the  *)
(* logs it does not declare obsolete hold the same entries: those of the   *)
(* current version, of the immutable memtable and of the log in use.       *)
(***************************************************************************)
EXTENDS DBImplProperties

LogFile == [data : Seq(SUBSET Entry), synced : Nat]
TableVersion == [l0 : SUBSET Nat, l1 : SUBSET Nat]
ManifestRecord == [version : TableVersion, log : Nat, next : Nat, last : Nat]
ManifestFile == [data : Seq(ManifestRecord), synced : Nat \ {0}]
WriteGroup == [step : {"none", "append", "sync", "insert"}, writers : Seq(Writer),
               entries : SUBSET Entry]
VersionEdit == [by : {"flush", "compaction", "open"}, add0 : SUBSET Nat, add1 : SUBSET Nat,
                del : SUBSET Nat, log : Nat, next : Nat, last : Nat, step : {"append", "sync"}]
Compaction == [inputs : SUBSET Nat, base : SUBSET Nat, output : SUBSET Nat,
               step : {"start", "written", "install"}]

\* The entries of some tables, of some logs, and of what is synced of these.
EntriesOf(ts, F) == UNION {ts[n] : n \in F}
EntriesIn(ls, N) == UNION {Entries(ls[n]) : n \in N}
SyncedEntries(log) == UNION {log.data[i] : i \in 1 .. log.synced}
SyncedIn(ls, N) == UNION {SyncedEntries(ls[n]) : n \in N}
LogsFrom(ls, k) == {n \in DOMAIN ls : n >= k}

\* The states of the MANIFEST that DB::Open may find: all that are not synced may be lost.
MayBeRead(m) == {m.data[i] : i \in m.synced .. Len(m.data)}
MayFind == MayBeRead(manifests[current])

\* The entries of a version, and what DB::Open makes of a state.
EntriesAt(ts, v) == EntriesOf(ts, Files(v))
Recovers(ts, ls, r) == EntriesAt(ts, r.version) \cup EntriesIn(ls, LogsFrom(ls, r.log))

\* The entries of the store.
Stored == IF state = "open" THEN EntriesAt(tables, version) \cup imm \cup Entries(logs[logfile])
          ELSE Recovers(tables, logs, Says(current))

FilesTyped ==
  /\ logs \in [DOMAIN logs -> LogFile] /\ DOMAIN logs \subseteq Nat
  /\ \A n \in DOMAIN logs : logs[n].synced <= Len(logs[n].data)
  /\ tables \in [DOMAIN tables -> SUBSET Entry] /\ DOMAIN tables \subseteq Nat
  /\ manifests \in [DOMAIN manifests -> ManifestFile] /\ DOMAIN manifests \subseteq Nat
  /\ \A n \in DOMAIN manifests : manifests[n].synced <= Len(manifests[n].data)
  /\ current \in DOMAIN manifests

MemoryTyped ==
  /\ {nextFile, lastSequence, logNumber, manifestNumber, logfile} \subseteq Nat
  /\ version \in TableVersion
  /\ state \in {"open", "down", "replay", "manifest", "current"}
  /\ mem \subseteq Entry /\ imm \subseteq Entry
  /\ queue \in Seq(Writer) /\ group \in WriteGroup
  /\ edit \subseteq VersionEdit /\ compaction \subseteq Compaction
  /\ \A d, e \in edit : d = e
  /\ \A c, d \in compaction : c = d
  /\ pending \subseteq Nat /\ readers \subseteq SUBSET Nat /\ toReplay \subseteq Nat
  /\ bgError \in BOOLEAN
  /\ writes \in 0 .. MaxWrites

\* What of it a loss of power leaves.
Lasts(ts, ls, r) == EntriesAt(ts, r.version) \cup SyncedIn(ls, LogsFrom(ls, r.log))

Readable(ts, ls, r) ==
  /\ Files(r.version) \subseteq DOMAIN ts
  /\ \A e \in EntriesAt(ts, r.version) : e.seq <= r.last
  /\ r.log < r.next

ManifestInv ==
  /\ \A r \in MayFind : Readable(tables, logs, r) /\ current < r.next
  /\ \A r \in MayFind : promised \subseteq Ids(Lasts(tables, logs, r))
  /\ LET m == manifests[current]
     IN \A i, j \in m.synced .. Len(m.data) :
          i <= j => \A n \in Files(m.data[i].version) : n < m.data[j].next

StoredInv ==
  /\ IsFiniteSet(Stored)
  /\ Ids(Stored) \subseteq asked
  /\ \A d, e \in Stored : d.id < e.id => d.seq < e.seq
  /\ promised \subseteq acked
  /\ acked \subseteq Ids(IF state = "open" THEN mem \cup imm \cup EntriesAt(tables, version) ELSE Stored)
  /\ asked \subseteq 1 .. writes

Settled(e) == e.seq <= lastSequence /\ \A i \in DOMAIN queue : e.id < queue[i].id
InFlight == IF group.step \in {"sync", "insert"} THEN group.entries ELSE {}

GroupInv ==
  IF group.step = "none" THEN group = NoGroup
  ELSE /\ Len(group.writers) \in 1 .. Len(queue)
       /\ \A i \in 1 .. Len(group.writers) : group.writers[i] = queue[i]
       /\ group.entries = {[id |-> queue[i].id, seq |-> lastSequence + i] :
                            i \in 1 .. Len(group.writers)}
       /\ group.writers[1].sync \/ \A i \in DOMAIN group.writers : ~group.writers[i].sync

QueueInv ==
  /\ \A i, j \in DOMAIN queue : i < j => queue[i].id < queue[j].id
  /\ \A i \in DOMAIN queue : queue[i].id \in asked
  /\ GroupInv
  /\ \A e \in mem \cup imm \cup EntriesAt(tables, version) : Settled(e)
  /\ mem \cup InFlight \subseteq Entries(logs[logfile])
  /\ \A e \in Entries(logs[logfile]) : Settled(e) \/ e \in InFlight
  /\ ~bgError => Entries(logs[logfile]) \subseteq mem \cup InFlight
  /\ group.step = "insert" /\ group.writers[1].sync
        => logs[logfile].synced = Len(logs[logfile].data)

FilesInv ==
  /\ current = manifestNumber
  /\ logfile \in DOMAIN logs /\ logNumber <= logfile /\ logfile < nextFile
  /\ \A n \in DOMAIN logs : n <= logfile
  /\ \A n \in DOMAIN tables : n < nextFile
  /\ current < nextFile
  /\ imm = EntriesIn(logs, LogsFrom(logs, logNumber) \ {logfile})
  /\ imm = {} => logNumber = logfile
  /\ Files(version) \cup UNION readers \subseteq DOMAIN tables
  /\ \A r \in MayFind :
       /\ r.log \in {logNumber, logfile}
       /\ EntriesAt(tables, version) \subseteq EntriesAt(tables, r.version)
       /\ EntriesAt(tables, r.version) \subseteq EntriesAt(tables, version) \cup imm
       /\ r.log = logNumber \/ imm \subseteq EntriesAt(tables, r.version)

EditInv(e) ==
  /\ e.by \in {"flush", "compaction"}
  /\ e.by = "flush" => /\ e.add1 = {} /\ e.del = {} /\ e.log = logfile
                       /\ imm # {} /\ EntriesOf(tables, e.add0) = imm
  /\ e.by = "compaction" =>
       /\ e.add0 = {} /\ e.log = logNumber
       /\ \E c \in compaction : c.step = "install" /\ e.add1 = c.output /\ e.del = c.inputs
  /\ e.add0 \cup e.add1 \subseteq DOMAIN tables
  /\ current < e.next /\ e.log < e.next
  /\ \A n \in e.add0 \cup e.add1 : n < e.next
  /\ \A r \in MayFind : \A n \in Files(r.version) : n < e.next
  /\ \A x \in EntriesAt(tables, Says(current).version) \cup EntriesOf(tables, e.add0 \cup e.add1) : x.seq <= e.last
  /\ e.step = "sync" => /\ Says(current).log = e.log
                        /\ e.add0 \cup e.add1 \subseteq Files(Says(current).version)

CompactionInv(c) ==
  /\ c.inputs \subseteq c.base /\ c.inputs \subseteq Files(version) /\ c.base \subseteq DOMAIN tables
  /\ IF c.step = "start" THEN c.output = {}
     ELSE /\ c.output \subseteq pending \cap DOMAIN tables
          /\ EntriesOf(tables, c.output) = EntriesOf(tables, c.inputs)

BackgroundInv ==
  /\ \A c \in compaction : CompactionInv(c)
  /\ \A e \in edit : EditInv(e)
  /\ ~bgError =>
       /\ (\A e \in edit : e.step = "append") => Says(current).version = version
       /\ \A e \in edit : e.step = "sync" => Says(current).version = Apply(version, e)

OpenInv == QueueInv /\ FilesInv /\ BackgroundInv

RecoveryInv ==
  /\ mem = {} /\ imm = {} /\ queue = <<>> /\ group = NoGroup
  /\ compaction = {} /\ pending = {} /\ readers = {} /\ bgError = FALSE
  /\ \A r \in MayFind : Recovers(tables, logs, r) = Stored
  /\ state = "down" => edit = {} /\ version = NoTables
  /\ state # "down" =>
       /\ current < manifestNumber /\ manifestNumber < nextFile
       /\ \A r \in MayFind : \A n \in Files(r.version) : n < nextFile
       /\ Files(version) \subseteq DOMAIN tables /\ \A n \in Files(version) : n < nextFile
  /\ state \in {"replay", "manifest"} =>
       \E e \in edit :
         /\ e.del = {} /\ e.add1 = {} /\ e.add0 \subseteq DOMAIN tables
         /\ \A n \in e.add0 : n < nextFile
         /\ toReplay \subseteq DOMAIN logs
         /\ EntriesOf(tables, Files(version) \cup e.add0) \cup EntriesIn(logs, toReplay) = Stored
         /\ \A x \in EntriesOf(tables, Files(version) \cup e.add0) : x.seq <= lastSequence
  /\ state = "replay" => \A n \in DOMAIN logs : n \in toReplay \/ n < nextFile
  /\ state \in {"manifest", "current"} =>
       /\ toReplay = {}
       /\ logfile \in DOMAIN logs /\ logfile < nextFile /\ Entries(logs[logfile]) = {}
       /\ \A n \in DOMAIN logs : n <= logfile
  /\ state = "current" =>
       /\ edit = {}
       /\ EntriesAt(tables, version) = Stored /\ \A x \in Stored : x.seq <= lastSequence
       /\ manifestNumber \in DOMAIN manifests
       /\ manifests[manifestNumber] =
            File(<<[version |-> version, log |-> logfile, next |-> nextFile, last |-> lastSequence]>>, 1)

DBInv ==
  /\ FilesTyped /\ MemoryTyped /\ ManifestInv /\ StoredInv
  /\ IF state = "open" THEN OpenInv ELSE RecoveryInv

\* What the store holds, of the invariant's parts; and a step its callers cannot see.
ContentsStored ==
  DBInv => Contents = IF state = "open" THEN Ids(mem \cup imm \cup EntriesAt(tables, version)) ELSE Ids(Stored)

ContentsSeen == UNCHANGED <<asked, Contents, promised>>
=============================================================================
