---------------------------- MODULE DBImplProofs ----------------------------
(***************************************************************************)
(* DBImplInvariant's DBInv is inductive, one lemma for each step, and what *)
(* DBImplProperties states follows from it: also that DBImpl implements    *)
(* the durable store.                                                      *)
(***************************************************************************)
EXTENDS DBImplInvariant, Extrema, SequenceTheorems

\* The entries of several tables or logs, by their elements.
LEMMA EntriesOfUnion ==
  ASSUME NEW ts, NEW F, NEW G
  PROVE  EntriesOf(ts, F \cup G) = EntriesOf(ts, F) \cup EntriesOf(ts, G)
BY DEF EntriesOf

LEMMA EntriesOfMonotone ==
  ASSUME NEW ts, NEW F, NEW G, F \subseteq G
  PROVE  EntriesOf(ts, F) \subseteq EntriesOf(ts, G)
BY DEF EntriesOf

LEMMA EntriesOfSame ==
  ASSUME NEW ts, NEW us, NEW F, \A n \in F : us[n] = ts[n]
  PROVE  EntriesOf(us, F) = EntriesOf(ts, F)
BY DEF EntriesOf

LEMMA EntriesOfOne == \A ts, n : EntriesOf(ts, {n}) = ts[n] /\ EntriesOf(ts, {}) = {}
BY DEF EntriesOf

LEMMA EntriesInSame ==
  ASSUME NEW ls, NEW ks, NEW N, \A n \in N : ks[n].data = ls[n].data
  PROVE  EntriesIn(ks, N) = EntriesIn(ls, N)
BY DEF EntriesIn, Entries

LEMMA EntriesInUnion ==
  ASSUME NEW ls, NEW M, NEW N
  PROVE  EntriesIn(ls, M \cup N) = EntriesIn(ls, M) \cup EntriesIn(ls, N)
BY DEF EntriesIn

LEMMA EntriesInOne == \A ls, n : EntriesIn(ls, {n}) = Entries(ls[n]) /\ EntriesIn(ls, {}) = {}
BY DEF EntriesIn

LEMMA EntriesInMonotone ==
  ASSUME NEW ls, NEW M, NEW N, M \subseteq N
  PROVE  EntriesIn(ls, M) \subseteq EntriesIn(ls, N)
BY DEF EntriesIn

LEMMA SyncedInSame ==
  ASSUME NEW ls, NEW ks, NEW N, \A n \in N : SyncedEntries(ks[n]) = SyncedEntries(ls[n])
  PROVE  SyncedIn(ks, N) = SyncedIn(ls, N)
BY DEF SyncedIn

LEMMA WithIs ==
  ASSUME NEW f, NEW n, NEW x
  PROVE  /\ DOMAIN With(f, n, x) = DOMAIN f \cup {n}
         /\ With(f, n, x)[n] = x
         /\ \A m \in DOMAIN f : m # n => With(f, n, x)[m] = f[m]
         /\ With(f, n, x) = [m \in DOMAIN With(f, n, x) |-> With(f, n, x)[m]]
BY DEF With

LEMMA IdsMonotone == \A E, F : E \subseteq F => Ids(E) \subseteq Ids(F)
BY DEF Ids

LEMMA IdsUnion == \A E, F : Ids(E \cup F) = Ids(E) \cup Ids(F)
BY DEF Ids

-----------------------------------------------------------------------------
LEMMA FilesTypedFrame ==
  ASSUME FilesTyped, UNCHANGED disk
  PROVE  FilesTyped'
BY DEF FilesTyped, disk

LEMMA ManifestFrame ==
  ASSUME ManifestInv, UNCHANGED disk, UNCHANGED promised
  PROVE  ManifestInv'
BY DEF ManifestInv, disk, MayFind

\* Logs that grow change nothing for the MANIFEST.
LEMMA ManifestLogsGrow ==
  ASSUME ManifestInv, UNCHANGED <<tables, manifests, current, promised>>,
         \A n \in DOMAIN logs : n \in DOMAIN logs' /\ SyncedEntries(logs[n]) \subseteq SyncedEntries(logs'[n])
  PROVE  ManifestInv'
<1>1. ASSUME NEW r \in MayFind PROVE Ids(Lasts(tables, logs, r)) \subseteq Ids(Lasts(tables, logs', r))
  <2>1. SyncedIn(logs, LogsFrom(logs, r.log)) \subseteq SyncedIn(logs', LogsFrom(logs', r.log))
    BY DEF SyncedIn, LogsFrom
  <2>. QED  BY <2>1, IdsMonotone DEF Lasts
<1>. QED  BY <1>1 DEF ManifestInv, MayFind, Readable

LEMMA StoredFrame ==
  ASSUME StoredInv, UNCHANGED <<disk, version, state, logfile, mem, imm>>, UNCHANGED told
  PROVE  StoredInv'
BY DEF StoredInv, disk, told, Stored, Says

LEMMA QueueFrame ==
  ASSUME QueueInv, UNCHANGED <<lastSequence, asked, queue, group, mem, imm, version, tables, logs, logfile>>,
         bgError => bgError'
  PROVE  QueueInv'
BY DEF QueueInv, GroupInv, Settled, InFlight

LEMMA FilesFrame ==
  ASSUME FilesInv, UNCHANGED <<disk, manifestNumber, logNumber, nextFile, version, imm, logfile, readers>>
  PROVE  FilesInv'
BY DEF FilesInv, disk, MayFind

LEMMA BackgroundFrame ==
  ASSUME BackgroundInv,
         UNCHANGED <<tables, manifests, current, version, logNumber, imm, logfile, edit, compaction, pending>>,
         bgError => bgError'
  PROVE  BackgroundInv'
BY DEF BackgroundInv, EditInv, CompactionInv, MayFind, Says, Apply
-----------------------------------------------------------------------------
LEMMA EntriesTyped ==
  ASSUME FilesTyped
  PROVE  /\ \A n \in DOMAIN logs : Entries(logs[n]) \subseteq Entry
         /\ \A F : F \subseteq DOMAIN tables => EntriesOf(tables, F) \subseteq Entry
<1>1. ASSUME NEW n \in DOMAIN logs PROVE Entries(logs[n]) \subseteq Entry
  <2>1. logs[n].data \in Seq(SUBSET Entry)
    BY DEF FilesTyped, LogFile
  <2>2. \A i \in DOMAIN logs[n].data : logs[n].data[i] \subseteq Entry
    BY <2>1
  <2>. QED  BY <2>2 DEF Entries, Range
<1>2. ASSUME NEW F, F \subseteq DOMAIN tables PROVE EntriesOf(tables, F) \subseteq Entry
  BY <1>2 DEF FilesTyped, EntriesOf
<1>. QED  BY <1>1, <1>2

\* While the store is open, whatever DB::Open would find has the same entries.
LEMMA OpenStored ==
  ASSUME DBInv, state = "open"
  PROVE  /\ Stored = EntriesAt(tables, version) \cup imm \cup Entries(logs[logfile])
         /\ mem \subseteq Stored /\ Stored \subseteq Entry
         /\ \A e \in Stored : e.id \in 1 .. writes /\ e.seq \in Nat
         /\ \A r \in MayFind : Recovers(tables, logs, r) = Stored
<1> USE DEF DBInv
<1>1. OpenInv
  OBVIOUS
<1>2. Stored = EntriesAt(tables, version) \cup imm \cup Entries(logs[logfile])
  BY DEF Stored
<1>3. mem \subseteq Stored
  BY <1>1, <1>2 DEF OpenInv, QueueInv
<1>4. Stored \subseteq Entry
  BY <1>1, <1>2, EntriesTyped DEF OpenInv, FilesInv, MemoryTyped, EntriesAt
<1>5. \A e \in Stored : e.id \in 1 .. writes /\ e.seq \in Nat
  BY <1>4 DEF StoredInv, Ids, Entry
<1>6. ASSUME NEW r \in MayFind PROVE Recovers(tables, logs, r) = Stored
  <2>1. /\ r.log \in {logNumber, logfile}
        /\ EntriesAt(tables, version) \subseteq EntriesAt(tables, r.version)
        /\ EntriesAt(tables, r.version) \subseteq EntriesAt(tables, version) \cup imm
        /\ r.log = logNumber \/ imm \subseteq EntriesAt(tables, r.version)
        /\ imm = EntriesIn(logs, LogsFrom(logs, logNumber) \ {logfile})
        /\ logfile \in LogsFrom(logs, logNumber)
        /\ LogsFrom(logs, logfile) = {logfile}
    BY <1>1 DEF OpenInv, FilesInv, LogsFrom, FilesTyped, MemoryTyped
  <2>2. EntriesIn(logs, LogsFrom(logs, logfile)) = Entries(logs[logfile])
    BY <2>1, EntriesInOne
  <2>3. EntriesIn(logs, LogsFrom(logs, logNumber)) = imm \cup Entries(logs[logfile])
    <3>1. LogsFrom(logs, logNumber) = (LogsFrom(logs, logNumber) \ {logfile}) \cup {logfile}
      BY <2>1
    <3>. QED  BY <2>1, <3>1, EntriesInUnion, EntriesInOne
  <2>. QED  BY <1>2, <2>1, <2>2, <2>3 DEF Recovers
<1>. QED  BY <1>2, <1>3, <1>4, <1>5, <1>6

-----------------------------------------------------------------------------
(* Writers.                                                                 *)

LEMMA WriteStep ==
  ASSUME DBInv, NEW sync \in BOOLEAN, Write(sync)
  PROVE  DBInv'
<1> USE DEF Write, Open
<1>1. PICK w \in Writer : w.id = writes + 1 /\ queue' = Append(queue, w) /\ w.sync = sync
  <2>1. [id |-> writes + 1, sync |-> sync] \in Writer
    BY DBImplAssumption DEF Writer, DBInv, MemoryTyped
  <2>. QED  BY <2>1
<1>2. /\ DBInv /\ OpenInv /\ state = "open" /\ state' = "open" /\ queue \in Seq(Writer)
      /\ writes \in Nat
  BY DEF DBInv, MemoryTyped
<1>3. FilesTyped' /\ ManifestInv'
  BY FilesTypedFrame, ManifestFrame DEF told, DBInv
<1>4. /\ queue' \in Seq(Writer) /\ DOMAIN queue = 1 .. Len(queue) /\ Len(queue) \in Nat
      /\ Len(queue') = Len(queue) + 1 /\ DOMAIN queue' = 1 .. Len(queue')
      /\ \A i \in DOMAIN queue : queue'[i] = queue[i] /\ queue[i].id \in Nat
      /\ queue'[Len(queue) + 1].id = writes + 1
  <2>1. \A i \in DOMAIN queue : queue[i] \in Writer
    BY <1>2
  <2>2. \A v \in Writer : v.id \in Nat
    BY DEF Writer
  <2>. QED  BY <1>1, <1>2, <2>1, <2>2
<1>5. MemoryTyped'
  <2>1. writes' \in 0 .. MaxWrites
    BY DBImplAssumption DEF DBInv, MemoryTyped
  <2>. QED  BY <1>2, <1>4, <2>1 DEF DBInv, MemoryTyped, versions, memory, background
<1>6. StoredInv'
  <2>1. Stored' = Stored
    BY DEF Stored, Says, disk, versions, memory
  <2>2. asked' \subseteq 1 .. writes'
    BY <1>2 DEF DBInv, StoredInv
  <2>. QED  BY <1>2, <2>1, <2>2 DEF DBInv, StoredInv, memory, versions, disk
<1>7. QueueInv'
  <2>1. \A i \in DOMAIN queue : queue[i].id < writes + 1
    BY <1>2, <1>4 DEF OpenInv, QueueInv, DBInv, StoredInv
  <2>2. \A i, j \in DOMAIN queue' : i < j => queue'[i].id < queue'[j].id
    BY <1>2, <1>4, <2>1 DEF OpenInv, QueueInv
  <2>3. \A i \in DOMAIN queue' : queue'[i].id \in asked'
    BY <1>2, <1>4, <2>1 DEF OpenInv, QueueInv
  <2>4. GroupInv'
    BY <1>2, <1>4 DEF OpenInv, QueueInv, GroupInv, versions
  <2>5. \A e \in Stored : Settled(e) => Settled(e)'
    BY <1>2, <1>4, OpenStored DEF Settled, versions
  <2>. QED  BY <1>2, <2>2, <2>3, <2>4, <2>5, OpenStored
            DEF OpenInv, QueueInv, InFlight, disk, versions, memory
<1>8. FilesInv' /\ BackgroundInv'
  BY <1>2, FilesFrame, BackgroundFrame DEF disk, OpenInv, versions, memory, background
<1>. QED  BY <1>2, <1>3, <1>5, <1>6, <1>7, <1>8 DEF DBInv, OpenInv

\* What is left of the queue when its first writers have returned.
LEMMA QueueRest ==
  ASSUME NEW q \in Seq(Writer), NEW k \in 0 .. Len(q)
  PROVE  LET r == SubSeq(q, k + 1, Len(q))
         IN /\ r \in Seq(Writer) /\ Len(r) = Len(q) - k
            /\ \A i \in DOMAIN r : i + k \in DOMAIN q /\ r[i] = q[i + k]
<1> DEFINE r == SubSeq(q, k + 1, Len(q))
<1>1. Len(q) \in Nat /\ DOMAIN q = 1 .. Len(q) /\ k \in Nat /\ k <= Len(q)
  OBVIOUS
<1>2. \A i \in k + 1 .. Len(q) : q[i] \in Writer
  BY <1>1
<1>3. /\ r \in Seq(Writer)
      /\ Len(r) = IF k + 1 <= Len(q) THEN Len(q) - (k + 1) + 1 ELSE 0
      /\ \A i \in 1 .. Len(q) - (k + 1) + 1 : r[i] = q[k + 1 + i - 1]
  <2>1. k + 1 \in Int /\ Len(q) \in Int
    BY <1>1
  <2>. QED  BY <1>2, <2>1, SubSeqProperties
<1>. HIDE DEF r
<1>4. Len(r) = Len(q) - k /\ DOMAIN r = 1 .. Len(r)
  <2>1. DOMAIN r = 1 .. Len(r)
    BY <1>3, LenProperties
  <2>2. CASE k + 1 <= Len(q)
    <3>1. Len(r) = Len(q) - (k + 1) + 1
      BY <1>3, <2>2
    <3>. QED  BY <1>1, <2>1, <3>1
  <2>3. CASE k = Len(q)
    <3>1. Len(r) = 0
      BY <1>1, <1>3, <2>3
    <3>. QED  BY <1>1, <2>1, <2>3, <3>1
  <2>4. k + 1 <= Len(q) \/ k = Len(q)
    <3>1. \A m \in Nat : k <= m => k + 1 <= m \/ k = m
      BY <1>1
    <3>. QED  BY <1>1, <3>1
  <2>. QED  BY <2>2, <2>3, <2>4
<1>5. ASSUME NEW i \in DOMAIN r PROVE i + k \in DOMAIN q /\ r[i] = q[i + k]
  <2>1. i \in 1 .. Len(q) - k /\ Len(q) - (k + 1) + 1 = Len(q) - k
    BY <1>1, <1>4
  <2>2. k + 1 + i - 1 = i + k /\ i + k \in 1 .. Len(q)
    BY <1>1, <2>1
  <2>3. r[i] = q[k + 1 + i - 1]
    BY <1>3, <2>1
  <2>. QED  BY <1>1, <2>2, <2>3
<1>. QED  BY <1>3, <1>4, <1>5 DEF r

\* The queue's invariant when writers leave it that had nothing in the log, or have now.
LEMMA QueueShrinks ==
  ASSUME DBInv, state = "open", NEW k \in 0 .. Len(queue),
         queue' = SubSeq(queue, k + 1, Len(queue)), UNCHANGED asked,
         lastSequence' \in Nat, lastSequence <= lastSequence'
  PROVE  /\ queue' \in Seq(Writer)
         /\ \A i, j \in DOMAIN queue' : i < j => queue'[i].id < queue'[j].id
         /\ \A i \in DOMAIN queue' : queue'[i].id \in asked'
         /\ \A e \in Stored : Settled(e) => Settled(e)'
<1>1. queue \in Seq(Writer) /\ lastSequence \in Nat /\ QueueInv
  BY DEF DBInv, MemoryTyped, OpenInv
<1>2. /\ queue' \in Seq(Writer)
      /\ \A i \in DOMAIN queue' : i + k \in DOMAIN queue /\ queue'[i] = queue[i + k]
  BY <1>1, QueueRest
<1>3. DOMAIN queue \subseteq Nat /\ DOMAIN queue' \subseteq Nat /\ k \in Nat
  BY <1>1, <1>2
<1>4. ASSUME NEW i \in DOMAIN queue', NEW j \in DOMAIN queue', i < j
      PROVE  queue'[i].id < queue'[j].id
  <2>1. i + k < j + k
    BY <1>3, <1>4
  <2>. QED  BY <1>1, <1>2, <2>1 DEF QueueInv
<1>5. \A i \in DOMAIN queue' : queue'[i].id \in asked'
  BY <1>1, <1>2 DEF QueueInv
<1>6. \A e \in Stored : Settled(e) => Settled(e)'
  BY <1>1, <1>2, OpenStored DEF Settled
<1>. QED  BY <1>2, <1>4, <1>5, <1>6

LEMMA FrontFailsStep ==
  ASSUME DBInv, AtFront, FrontFails,
         UNCHANGED <<disk, versions, state, memory, readers, edit, compaction, pending>>,
         UNCHANGED <<scheduled, told, bgError, toReplay>>
  PROVE  DBInv'
<1> USE DEF Open, AtFront, FrontFails
<1>1. /\ OpenInv /\ state = "open" /\ state' = "open" /\ queue \in Seq(Writer) /\ queue # <<>>
      /\ lastSequence \in Nat /\ lastSequence' = lastSequence
  BY DEF DBInv, MemoryTyped, versions
<1>2. 1 \in 0 .. Len(queue) /\ queue' = SubSeq(queue, 1 + 1, Len(queue))
  BY <1>1, TailIsSubSeq
<1>3. /\ queue' \in Seq(Writer)
      /\ \A i, j \in DOMAIN queue' : i < j => queue'[i].id < queue'[j].id
      /\ \A i \in DOMAIN queue' : queue'[i].id \in asked'
      /\ \A e \in Stored : Settled(e) => Settled(e)'
  BY <1>1, <1>2, QueueShrinks DEF told
<1>4. FilesTyped' /\ ManifestInv' /\ StoredInv' /\ FilesInv' /\ BackgroundInv'
  BY <1>1, FilesTypedFrame, ManifestFrame, StoredFrame, FilesFrame, BackgroundFrame
     DEF disk, DBInv, OpenInv, told, versions, memory
<1>5. MemoryTyped'
  BY <1>3 DEF DBInv, MemoryTyped, versions, memory, told
<1>6. QueueInv'
  BY <1>1, <1>3, OpenStored
     DEF OpenInv, QueueInv, GroupInv, NoGroup, InFlight, disk, versions, memory
<1>. QED  BY <1>1, <1>4, <1>5, <1>6 DEF DBInv, OpenInv

LEMMA StartGroupStep ==
  ASSUME DBInv, StartGroup
  PROVE  DBInv'
<1> USE DEF StartGroup, AtFront, Open
<1>1. /\ OpenInv /\ state = "open" /\ state' = "open" /\ queue \in Seq(Writer)
      /\ lastSequence \in Nat /\ group.step = "none"
  BY DEF DBInv, MemoryTyped
<1>2. PICK n \in 1 .. Len(queue) :
        /\ MayGroup(n)
        /\ group' = [step |-> "append", writers |-> SubSeq(queue, 1, n),
                     entries |-> {[id |-> queue[i].id, seq |-> lastSequence + i] : i \in 1 .. n}]
  OBVIOUS
<1>3. PICK ws, es :
        /\ ws = SubSeq(queue, 1, n)
        /\ es = {[id |-> queue[i].id, seq |-> lastSequence + i] : i \in 1 .. n}
  OBVIOUS
<1>4. group'.step = "append" /\ group'.writers = ws /\ group'.entries = es
  BY <1>2, <1>3
<1>5. ws \in Seq(Writer) /\ Len(ws) = n /\ \A i \in 1 .. n : ws[i] = queue[i]
  BY <1>1, <1>3
<1>6. es \subseteq Entry
  <2>1. \A i \in 1 .. n : queue[i] \in Writer
    BY <1>1
  <2>. QED  BY <1>1, <1>3, <2>1 DEF Entry, Writer
<1>7. FilesTyped' /\ ManifestInv' /\ StoredInv' /\ FilesInv' /\ BackgroundInv'
  BY <1>1, FilesTypedFrame, ManifestFrame, StoredFrame, FilesFrame, BackgroundFrame
     DEF disk, DBInv, OpenInv, told, versions, memory, background
<1>8. MemoryTyped'
  <2>1. group' \in WriteGroup
    BY <1>2, <1>3, <1>5, <1>6 DEF WriteGroup
  <2>. QED  BY <2>1 DEF DBInv, MemoryTyped, versions, memory, background, told
<1>9. QueueInv'
  <2>1. GroupInv'
    <3>1. queue' = queue /\ lastSequence' = lastSequence
      BY DEF versions
    <3>2. ws[1].sync \/ \A i \in DOMAIN ws : ~ws[i].sync
      BY <1>2, <1>5 DEF MayGroup
    <3>. QED  BY <1>3, <1>4, <1>5, <3>1, <3>2 DEF GroupInv
  <2>2. InFlight' = {} /\ InFlight = {}
    BY <1>1, <1>4 DEF InFlight
  <2>. QED  BY <1>1, <1>4, <2>1, <2>2 DEF OpenInv, QueueInv, Settled, disk, versions, memory, told
<1>. QED  BY <1>1, <1>7, <1>8, <1>9 DEF DBInv, OpenInv

\* The writers of a group are those of its entries.
LEMMA GroupIds ==
  ASSUME DBInv, state = "open", group.step # "none"
  PROVE  /\ Ids(group.entries) = {w.id : w \in Range(group.writers)}
         /\ DOMAIN group.writers = 1 .. Len(group.writers) /\ 1 \in DOMAIN group.writers
         /\ Ids(group.entries) \subseteq asked
<1>1. QueueInv /\ GroupInv /\ queue \in Seq(Writer) /\ group.writers \in Seq(Writer)
  BY DEF DBInv, OpenInv, QueueInv, MemoryTyped, WriteGroup
<1>2. PICK n \in 1 .. Len(queue) :
        /\ n = Len(group.writers)
        /\ \A i \in 1 .. n : group.writers[i] = queue[i]
        /\ group.entries = {[id |-> queue[i].id, seq |-> lastSequence + i] : i \in 1 .. n}
  BY <1>1 DEF GroupInv
<1>3. DOMAIN group.writers = 1 .. n /\ DOMAIN queue = 1 .. Len(queue) /\ 1 \in 1 .. n
  BY <1>1, <1>2
<1>4. Ids(group.entries) = {queue[i].id : i \in 1 .. n}
  <2>1. \A e \in group.entries : \E i \in 1 .. n : e.id = queue[i].id
    BY <1>2
  <2>2. ASSUME NEW i \in 1 .. n PROVE \E e \in group.entries : e.id = queue[i].id
    <3>1. [id |-> queue[i].id, seq |-> lastSequence + i] \in group.entries
      BY <1>2
    <3>. QED  BY <3>1
  <2>3. Ids(group.entries) \subseteq {queue[i].id : i \in 1 .. n}
    BY <2>1 DEF Ids
  <2>4. {queue[i].id : i \in 1 .. n} \subseteq Ids(group.entries)
    BY <2>2 DEF Ids
  <2>. QED  BY <2>3, <2>4
<1>5. {w.id : w \in Range(group.writers)} = {queue[i].id : i \in 1 .. n}
  BY <1>2, <1>3 DEF Range
<1>6. \A i \in 1 .. n : queue[i].id \in asked
  BY <1>1, <1>2, <1>3 DEF QueueInv
<1>. QED  BY <1>2, <1>3, <1>4, <1>5, <1>6

LEMMA GroupSettles ==
  ASSUME DBInv, state = "open", group.step # "none", GroupReturns
  PROVE  /\ queue' \in Seq(Writer) /\ lastSequence' \in Nat
         /\ \A i, j \in DOMAIN queue' : i < j => queue'[i].id < queue'[j].id
         /\ \A i \in DOMAIN queue' : queue'[i].id \in asked'
         /\ \A e \in Stored : Settled(e) => Settled(e)'
         /\ \A e \in group.entries : Settled(e)'
<1>1. QueueInv /\ GroupInv /\ queue \in Seq(Writer) /\ lastSequence \in Nat
  BY DEF DBInv, OpenInv, QueueInv, MemoryTyped
<1>2. PICK n \in 1 .. Len(queue) :
        /\ n = Len(group.writers)
        /\ group.entries = {[id |-> queue[i].id, seq |-> lastSequence + i] : i \in 1 .. n}
        /\ queue' = SubSeq(queue, n + 1, Len(queue)) /\ lastSequence' = lastSequence + n
  BY <1>1 DEF GroupInv, GroupReturns
<1>3. n \in 0 .. Len(queue) /\ lastSequence' \in Nat /\ lastSequence <= lastSequence'
  BY <1>1, <1>2
<1>4. UNCHANGED asked
  BY DEF GroupReturns
<1>5. \A j \in DOMAIN queue' : j + n \in DOMAIN queue /\ queue'[j] = queue[j + n]
  BY <1>1, <1>2, <1>3, QueueRest
<1>6. ASSUME NEW e \in group.entries PROVE Settled(e)'
  <2>1. PICK i \in 1 .. n : e.id = queue[i].id /\ e.seq = lastSequence + i
    BY <1>2
  <2>2. e.seq <= lastSequence'
    BY <1>1, <1>2, <2>1
  <2>3. ASSUME NEW j \in DOMAIN queue' PROVE e.id < queue'[j].id
    <3>1. i \in DOMAIN queue /\ i \in Nat /\ n \in Nat /\ i <= n
      BY <1>1, <1>2
    <3>2. j \in Nat /\ j >= 1
      BY <1>1, <1>2, <1>3, QueueRest
    <3>3. i < j + n
      BY <3>1, <3>2
    <3>. QED  BY <1>1, <1>5, <2>1, <3>1, <3>3 DEF QueueInv
  <2>. QED  BY <2>2, <2>3 DEF Settled
<1>. QED  BY <1>2, <1>3, <1>4, <1>6, QueueShrinks

LEMMA GroupFailsStep ==
  ASSUME DBInv, state = "open", GroupReturns, UNCHANGED <<disk, mem, acked, promised>>,
         \/ group.step = "append" /\ bgError' = bgError
         \/ group.step = "sync" /\ bgError' = TRUE
  PROVE  DBInv'
<1>1. /\ OpenInv /\ state' = "open" /\ group' = NoGroup /\ group'.step = "none"
      /\ group'.entries = {} /\ group' \in WriteGroup
      /\ UNCHANGED <<nextFile, version, logNumber, manifestNumber, logfile, imm, background, readers>>
      /\ UNCHANGED <<toReplay, writes, asked>>
  BY DEF DBInv, GroupReturns, NoGroup, WriteGroup
<1>2. /\ queue' \in Seq(Writer) /\ lastSequence' \in Nat
      /\ \A i, j \in DOMAIN queue' : i < j => queue'[i].id < queue'[j].id
      /\ \A i \in DOMAIN queue' : queue'[i].id \in asked'
      /\ \A e \in Stored : Settled(e) => Settled(e)'
      /\ \A e \in group.entries : Settled(e)'
  BY GroupSettles
<1>3. FilesTyped' /\ ManifestInv' /\ StoredInv' /\ FilesInv' /\ BackgroundInv'
  BY <1>1, FilesTypedFrame, ManifestFrame, StoredFrame, FilesFrame, BackgroundFrame
     DEF disk, DBInv, OpenInv, told, background
<1>5. MemoryTyped'
  <2>1. bgError' \in BOOLEAN
    BY DEF DBInv, MemoryTyped
  <2>. QED  BY <1>1, <1>2, <2>1 DEF DBInv, MemoryTyped, background
<1>6. QueueInv'
  <2>1. GroupInv' /\ InFlight' = {}
    BY <1>1 DEF GroupInv, InFlight
  <2>2. \A e \in Entries(logs[logfile]) : Settled(e)'
    BY <1>1, <1>2, OpenStored DEF OpenInv, QueueInv, InFlight
  <2>3. ~bgError' => Entries(logs[logfile]) \subseteq mem
    BY <1>1 DEF OpenInv, QueueInv, InFlight
  <2>4. mem \subseteq Entries(logs[logfile])
    BY <1>1 DEF OpenInv, QueueInv
  <2>5. \A e \in mem \cup imm \cup EntriesAt(tables, version) : Settled(e)'
    BY <1>1, <1>2, OpenStored DEF OpenInv, QueueInv
  <2>. QED  BY <1>1, <1>2, <2>1, <2>2, <2>3, <2>4, <2>5 DEF QueueInv, disk
<1>. QED  BY <1>1, <1>3, <1>5, <1>6 DEF DBInv, OpenInv

LEMMA InsertGroupStep ==
  ASSUME DBInv, InsertGroup
  PROVE  DBInv'
<1>1. /\ OpenInv /\ state = "open" /\ state' = "open" /\ group.step = "insert"
      /\ group' = NoGroup /\ group'.step = "none" /\ group'.entries = {} /\ group' \in WriteGroup
      /\ mem' = mem \cup group.entries /\ acked' = acked \cup Ids(group.entries)
      /\ promised' = promised \cup {w.id : w \in {v \in Range(group.writers) : v.sync}}
      /\ UNCHANGED <<nextFile, version, logNumber, manifestNumber, logfile, imm, background, readers>>
      /\ UNCHANGED <<toReplay, writes, asked, disk, bgError>>
      /\ GroupReturns
  BY DEF DBInv, GroupReturns, InsertGroup, Open, NoGroup, WriteGroup
<1>2. /\ queue' \in Seq(Writer) /\ lastSequence' \in Nat
      /\ \A i, j \in DOMAIN queue' : i < j => queue'[i].id < queue'[j].id
      /\ \A i \in DOMAIN queue' : queue'[i].id \in asked'
      /\ \A e \in Stored : Settled(e) => Settled(e)'
      /\ \A e \in group.entries : Settled(e)'
  BY <1>1, GroupSettles
<1>3. /\ group.entries \subseteq Entries(logs[logfile]) /\ group.entries \subseteq Entry
      /\ Ids(group.entries) \subseteq asked
      /\ promised' = promised \/ (promised' \subseteq promised \cup Ids(group.entries) /\ group.writers[1].sync)
  <2>1. group.entries \subseteq Entries(logs[logfile]) /\ group.entries \subseteq Entry
    BY <1>1 DEF OpenInv, QueueInv, InFlight, DBInv, MemoryTyped, WriteGroup
  <2>2. {w.id : w \in {v \in Range(group.writers) : v.sync}} \subseteq Ids(group.entries)
    BY <1>1, GroupIds
  <2>3. group.writers[1].sync \/ {w.id : w \in {v \in Range(group.writers) : v.sync}} = {}
    BY <1>1 DEF OpenInv, QueueInv, GroupInv, Range
  <2>. QED  BY <1>1, <2>1, <2>2, <2>3, GroupIds
<1>4. FilesTyped' /\ FilesInv' /\ BackgroundInv'
  BY <1>1, FilesTypedFrame, FilesFrame, BackgroundFrame DEF disk, DBInv, OpenInv, told, background
<1>5. MemoryTyped'
  <2>1. mem' \subseteq Entry
    BY <1>1, <1>3 DEF DBInv, MemoryTyped
  <2>. QED  BY <1>1, <1>2, <2>1 DEF DBInv, MemoryTyped, background
<1>6. QueueInv'
  <2>1. GroupInv' /\ InFlight' = {} /\ InFlight = group.entries
    BY <1>1 DEF GroupInv, InFlight
  <2>2. \A e \in Entries(logs[logfile]) : Settled(e)'
    BY <1>1, <1>2, <2>1, OpenStored DEF OpenInv, QueueInv
  <2>3. mem' \subseteq Entries(logs[logfile]) /\ (~bgError' => Entries(logs[logfile]) \subseteq mem')
    BY <1>1, <1>3, <2>1 DEF OpenInv, QueueInv
  <2>4. \A e \in mem' \cup imm \cup EntriesAt(tables, version) : Settled(e)'
    BY <1>1, <1>2, OpenStored DEF OpenInv, QueueInv
  <2>. QED  BY <1>1, <1>2, <2>1, <2>2, <2>3, <2>4 DEF QueueInv, disk
<1>7. StoredInv'
  <2>1. Stored' = Stored
    BY <1>1 DEF Stored, disk
  <2>2. acked' \subseteq Ids(mem' \cup imm \cup EntriesAt(tables, version))
    BY <1>1 DEF DBInv, StoredInv, Ids
  <2>3. promised' \subseteq acked'
    BY <1>1, <1>3 DEF DBInv, StoredInv
  <2>. QED  BY <1>1, <2>1, <2>2, <2>3 DEF DBInv, StoredInv, disk
<1>8. ManifestInv'
  <2>1. ASSUME NEW r \in MayFind PROVE promised' \subseteq Ids(Lasts(tables, logs, r))
    <3>1. promised \subseteq Ids(Lasts(tables, logs, r))
      BY DEF DBInv, ManifestInv
    <3>2. CASE group.writers[1].sync
      <4>1. SyncedEntries(logs[logfile]) = Entries(logs[logfile])
        <5>1. logs[logfile].synced = Len(logs[logfile].data) /\ logs[logfile].data \in Seq(SUBSET Entry)
          BY <1>1, <3>2 DEF OpenInv, QueueInv, FilesInv, DBInv, FilesTyped, LogFile
        <5>. QED  BY <5>1 DEF SyncedEntries, Entries, Range
      <4>2. logfile \in LogsFrom(logs, r.log)
        BY <1>1 DEF OpenInv, FilesInv, LogsFrom, DBInv, MemoryTyped
      <4>3. group.entries \subseteq Lasts(tables, logs, r)
        BY <1>3, <4>1, <4>2 DEF Lasts, SyncedIn
      <4>4. Ids(group.entries) \subseteq Ids(Lasts(tables, logs, r))
        BY <4>3, IdsMonotone
      <4>. QED  BY <1>3, <3>1, <4>4
    <3>. QED  BY <1>3, <3>1, <3>2
  <2>. QED  BY <1>1, <2>1 DEF DBInv, ManifestInv, disk, MayFind
<1>. QED  BY <1>1, <1>4, <1>5, <1>6, <1>7, <1>8 DEF DBInv, OpenInv

-----------------------------------------------------------------------------
(* The log.                                                                 *)

LEMMA AppendedLog ==
  ASSUME NEW f \in LogFile, f.synced <= Len(f.data), NEW E \in SUBSET Entry
  PROVE  /\ Appended(f, E) \in LogFile
         /\ Appended(f, E).synced <= Len(Appended(f, E).data)
         /\ Entries(Appended(f, E)) = Entries(f) \cup E
         /\ SyncedEntries(Appended(f, E)) = SyncedEntries(f)
<1>1. PICK d, d2, g : d = f.data /\ d2 = Append(d, E) /\ g = Appended(f, E)
  OBVIOUS
<1>2. d \in Seq(SUBSET Entry) /\ f.synced \in Nat /\ Len(d) \in Nat /\ DOMAIN d = 1 .. Len(d)
  BY <1>1 DEF LogFile
<1>3. /\ d2 \in Seq(SUBSET Entry) /\ Len(d2) = Len(d) + 1 /\ DOMAIN d2 = 1 .. Len(d) + 1
      /\ \A i \in 1 .. Len(d) : d2[i] = d[i]
      /\ d2[Len(d) + 1] = E
  BY <1>1, <1>2
<1>4. g = [f EXCEPT !.data = d2] /\ g \in LogFile /\ g.data = d2 /\ g.synced = f.synced
  BY <1>1, <1>3 DEF Appended, LogFile
<1>5. Entries(g) = Entries(f) \cup E
  <2>1. \A x : x \in Entries(g) <=> \E i \in 1 .. Len(d) + 1 : x \in d2[i]
    BY <1>3, <1>4 DEF Entries, Range
  <2>2. \A x : x \in Entries(f) <=> \E i \in 1 .. Len(d) : x \in d[i]
    BY <1>1, <1>2 DEF Entries, Range
  <2>3. \A i \in 1 .. Len(d) + 1 : i \in 1 .. Len(d) \/ i = Len(d) + 1
    BY <1>2
  <2>4. 1 .. Len(d) \subseteq 1 .. Len(d) + 1 /\ Len(d) + 1 \in 1 .. Len(d) + 1
    BY <1>2
  <2>. QED  BY <1>3, <2>1, <2>2, <2>3, <2>4
<1>6. \A i \in 1 .. f.synced : d2[i] = d[i]
  BY <1>1, <1>2, <1>3
<1>7. SyncedEntries(g) = SyncedEntries(f)
  BY <1>1, <1>4, <1>6 DEF SyncedEntries
<1>8. g.synced <= Len(g.data)
  BY <1>1, <1>2, <1>3, <1>4
<1>. QED  BY <1>1, <1>4, <1>5, <1>7, <1>8

LEMMA SyncedLog ==
  ASSUME NEW f \in LogFile, f.synced <= Len(f.data)
  PROVE  /\ Synced(f) \in LogFile
         /\ Synced(f).synced = Len(Synced(f).data)
         /\ Entries(Synced(f)) = Entries(f)
         /\ SyncedEntries(f) \subseteq SyncedEntries(Synced(f))
<1>1. f.data \in Seq(SUBSET Entry) /\ f.synced \in Nat /\ Len(f.data) \in Nat
  BY DEF LogFile
<1>2. Synced(f) = [data |-> f.data, synced |-> Len(f.data)]
  BY DEF Synced, LogFile
<1>. QED  BY <1>1, <1>2 DEF LogFile, Entries, SyncedEntries

LEMMA AppendRecordStep ==
  ASSUME DBInv, AppendRecord
  PROVE  DBInv'
<1>1. /\ OpenInv /\ state = "open" /\ state' = "open" /\ group.step = "append"
      /\ logs' = [logs EXCEPT ![logfile] = Appended(@, group.entries)]
      /\ UNCHANGED <<tables, manifests, current, versions, memory, queue, background, bgError>>
      /\ UNCHANGED <<readers, toReplay, told>>
  BY DEF DBInv, AppendRecord, Open
<1>2. /\ group' \in WriteGroup /\ group'.writers = group.writers /\ group'.entries = group.entries
      /\ group'.step = IF group.writers[1].sync THEN "sync" ELSE "insert"
  BY DEF AppendRecord, DBInv, MemoryTyped, WriteGroup
<1>3. /\ logfile \in DOMAIN logs /\ logs[logfile] \in LogFile /\ group.entries \in SUBSET Entry
      /\ logs[logfile].synced <= Len(logs[logfile].data)
  BY <1>1 DEF DBInv, OpenInv, FilesInv, FilesTyped, MemoryTyped, WriteGroup
<1>4. PICK f : f = Appended(logs[logfile], group.entries)
  OBVIOUS
<1>5. /\ f \in LogFile /\ f.synced <= Len(f.data)
      /\ Entries(f) = Entries(logs[logfile]) \cup group.entries
      /\ SyncedEntries(f) = SyncedEntries(logs[logfile])
  BY <1>3, <1>4, AppendedLog
<1>6. /\ DOMAIN logs' = DOMAIN logs /\ logs'[logfile] = f
      /\ \A n \in DOMAIN logs : n # logfile => logs'[n] = logs[n]
  BY <1>1, <1>3, <1>4 DEF DBInv, FilesTyped
<1>7. FilesTyped'
  <2>1. logs' \in [DOMAIN logs -> LogFile] /\ \A n \in DOMAIN logs : logs'[n].synced <= Len(logs'[n].data)
    BY <1>1, <1>4, <1>5, <1>6 DEF DBInv, FilesTyped
  <2>. QED  BY <1>1, <1>6, <2>1 DEF DBInv, FilesTyped
<1>8. ManifestInv'
  BY <1>1, <1>5, <1>6, ManifestLogsGrow DEF DBInv, told
<1>9. BackgroundInv'
  BY <1>1, BackgroundFrame DEF OpenInv, versions, memory, background
<1>10. MemoryTyped'
  BY <1>1, <1>2 DEF DBInv, MemoryTyped, versions, memory, background, told
<1>11. FilesInv'
  <2>1. LogsFrom(logs', logNumber) = LogsFrom(logs, logNumber)
    BY <1>6 DEF LogsFrom
  <2>2. EntriesIn(logs', LogsFrom(logs', logNumber) \ {logfile})
          = EntriesIn(logs, LogsFrom(logs, logNumber) \ {logfile})
    BY <1>6, <2>1, EntriesInSame DEF LogsFrom
  <2>. QED  BY <1>1, <1>6, <2>2 DEF OpenInv, FilesInv, MayFind, versions, memory
<1>12. Stored' = Stored \cup group.entries
  BY <1>1, <1>5, <1>6 DEF Stored, versions, memory
<1>13. \A e \in Stored : Settled(e)
  BY <1>1, OpenStored DEF OpenInv, QueueInv, InFlight
<1>14. StoredInv'
  <2>1. IsFiniteSet(group.entries)
    <3>1. PICK n \in 1 .. Len(queue) :
            group.entries = {[id |-> queue[i].id, seq |-> lastSequence + i] : i \in 1 .. n}
      BY <1>1 DEF OpenInv, QueueInv, GroupInv
    <3>2. IsFiniteSet(1 .. n)
      BY FS_Interval
    <3>3. PICK g : g = [i \in 1 .. n |-> [id |-> queue[i].id, seq |-> lastSequence + i]]
      OBVIOUS
    <3>4. g \in Surjection(1 .. n, group.entries)
      BY <3>1, <3>3 DEF Surjection
    <3>. QED  BY <3>2, <3>4, FS_Surjection
  <2>2. IsFiniteSet(Stored')
    BY <1>12, <2>1, FS_Union DEF DBInv, StoredInv
  <2>3. Ids(Stored') \subseteq asked'
    BY <1>1, <1>12, GroupIds, IdsUnion DEF DBInv, StoredInv, told
  <2>4. ASSUME NEW d \in Stored', NEW e \in Stored', d.id < e.id PROVE d.seq < e.seq
    <3>1. PICK n \in 1 .. Len(queue) :
            group.entries = {[id |-> queue[i].id, seq |-> lastSequence + i] : i \in 1 .. n}
      BY <1>1 DEF OpenInv, QueueInv, GroupInv
    <3>2. /\ \A x \in group.entries : \E i \in 1 .. n : x.id = queue[i].id /\ x.seq = lastSequence + i
          /\ queue \in Seq(Writer) /\ lastSequence \in Nat
          /\ \A i \in 1 .. n : i \in DOMAIN queue /\ i \in Nat /\ i >= 1 /\ queue[i].id \in Nat
      <4>1. queue \in Seq(Writer) /\ lastSequence \in Nat
        BY DEF DBInv, MemoryTyped
      <4>2. \A i \in 1 .. n : i \in DOMAIN queue /\ i \in Nat /\ i >= 1
        BY <4>1
      <4>3. \A i \in DOMAIN queue : queue[i].id \in Nat
        <5>1. \A i \in DOMAIN queue : queue[i] \in Writer
          BY <4>1
        <5>. QED  BY <5>1 DEF Writer
      <4>4. \A x \in group.entries : \E i \in 1 .. n : x.id = queue[i].id /\ x.seq = lastSequence + i
        BY <3>1
      <4>. QED  BY <4>1, <4>2, <4>3, <4>4
    <3>3. /\ \A x \in Stored : x.id \in Nat /\ x.seq \in Nat
          /\ \A x \in Stored : x.seq <= lastSequence /\ \A i \in DOMAIN queue : x.id < queue[i].id
      BY <1>1, <1>13, OpenStored DEF Settled
    <3>4. CASE d \in Stored /\ e \in Stored
      BY <2>4, <3>4 DEF DBInv, StoredInv
    <3>5. CASE d \in Stored /\ e \in group.entries
      BY <3>2, <3>3, <3>5
    <3>6. CASE d \in group.entries /\ e \in Stored
      BY <2>4, <3>2, <3>3, <3>6
    <3>7. CASE d \in group.entries /\ e \in group.entries
      <4>1. PICK i \in 1 .. n : d.id = queue[i].id /\ d.seq = lastSequence + i
        BY <3>2, <3>7
      <4>2. PICK j \in 1 .. n : e.id = queue[j].id /\ e.seq = lastSequence + j
        BY <3>2, <3>7
      <4>3. ~(j < i) /\ i # j
        BY <1>1, <2>4, <3>2, <4>1, <4>2 DEF OpenInv, QueueInv
      <4>. QED  BY <3>2, <4>1, <4>2, <4>3
    <3>. QED  BY <1>12, <3>4, <3>5, <3>6, <3>7
  <2>5. acked' \subseteq Ids(mem' \cup imm' \cup EntriesAt(tables', version')) /\ promised' \subseteq acked'
    BY <1>1 DEF DBInv, StoredInv, told, versions, memory
  <2>. QED  BY <1>1, <2>2, <2>3, <2>4, <2>5 DEF DBInv, StoredInv, told
<1>15. QueueInv'
  <2>1. InFlight' = group.entries /\ InFlight = {}
    BY <1>1, <1>2 DEF InFlight
  <2>2. GroupInv'
    BY <1>1, <1>2 DEF OpenInv, QueueInv, GroupInv, versions
  <2>3. \A e : Settled(e) => Settled(e)'
    BY <1>1 DEF Settled, versions
  <2>4. mem' \cup InFlight' \subseteq Entries(logs'[logfile'])
    BY <1>1, <1>5, <1>6, <2>1 DEF OpenInv, QueueInv, memory
  <2>5. \A e \in Entries(logs'[logfile']) : Settled(e)' \/ e \in InFlight'
    BY <1>1, <1>5, <1>6, <2>1, <2>3 DEF OpenInv, QueueInv, memory
  <2>6. ~bgError' => Entries(logs'[logfile']) \subseteq mem' \cup InFlight'
    BY <1>1, <1>5, <1>6, <2>1 DEF OpenInv, QueueInv, memory
  <2>7. \A e \in mem' \cup imm' \cup EntriesAt(tables', version') : Settled(e)'
    BY <1>1, <2>3 DEF OpenInv, QueueInv, memory, versions
  <2>8. ~(group'.step = "insert" /\ group'.writers[1].sync)
    BY <1>2
  <2>. QED  BY <1>1, <2>2, <2>4, <2>5, <2>6, <2>7, <2>8 DEF OpenInv, QueueInv, told
<1>. QED  BY <1>1, <1>7, <1>8, <1>9, <1>10, <1>11, <1>14, <1>15 DEF DBInv, OpenInv

LEMMA SyncLogStep ==
  ASSUME DBInv, SyncLog
  PROVE  DBInv'
<1>1. /\ OpenInv /\ state = "open" /\ state' = "open" /\ group.step = "sync"
      /\ logs' = [logs EXCEPT ![logfile] = Synced(@)]
      /\ UNCHANGED <<tables, manifests, current, versions, memory, queue, background, bgError>>
      /\ UNCHANGED <<readers, toReplay, told>>
  BY DEF DBInv, SyncLog, Open
<1>2. /\ group' \in WriteGroup /\ group'.writers = group.writers /\ group'.entries = group.entries
      /\ group'.step = "insert"
  BY DEF SyncLog, DBInv, MemoryTyped, WriteGroup
<1>3. logfile \in DOMAIN logs /\ logs[logfile] \in LogFile /\ logs[logfile].synced <= Len(logs[logfile].data)
  BY <1>1 DEF DBInv, OpenInv, FilesInv, FilesTyped
<1>4. PICK f : f = Synced(logs[logfile])
  OBVIOUS
<1>5. /\ f \in LogFile /\ f.synced = Len(f.data)
      /\ Entries(f) = Entries(logs[logfile])
      /\ SyncedEntries(logs[logfile]) \subseteq SyncedEntries(f)
  BY <1>3, <1>4, SyncedLog
<1>6. /\ DOMAIN logs' = DOMAIN logs /\ logs'[logfile] = f
      /\ \A n \in DOMAIN logs : n # logfile => logs'[n] = logs[n]
  BY <1>1, <1>3, <1>4 DEF DBInv, FilesTyped
<1>7. FilesTyped'
  <2>1. logs' \in [DOMAIN logs -> LogFile]
    BY <1>1, <1>4, <1>5, <1>6 DEF DBInv, FilesTyped
  <2>2. \A n \in DOMAIN logs : logs'[n].synced <= Len(logs'[n].data)
    <3>1. f.synced <= Len(f.data)
      BY <1>5 DEF LogFile
    <3>. QED  BY <1>6, <3>1 DEF DBInv, FilesTyped
  <2>. QED  BY <1>1, <1>6, <2>1, <2>2 DEF DBInv, FilesTyped
<1>8. ManifestInv'
  BY <1>1, <1>5, <1>6, ManifestLogsGrow DEF DBInv, told
<1>9. BackgroundInv'
  BY <1>1, BackgroundFrame DEF OpenInv, versions, memory, background
<1>10. MemoryTyped'
  BY <1>1, <1>2 DEF DBInv, MemoryTyped, versions, memory, background, told
<1>11. FilesInv'
  <2>1. LogsFrom(logs', logNumber) = LogsFrom(logs, logNumber)
    BY <1>6 DEF LogsFrom
  <2>2. EntriesIn(logs', LogsFrom(logs', logNumber) \ {logfile})
          = EntriesIn(logs, LogsFrom(logs, logNumber) \ {logfile})
    BY <1>6, <2>1, EntriesInSame DEF LogsFrom
  <2>. QED  BY <1>1, <1>6, <2>2 DEF OpenInv, FilesInv, MayFind, versions, memory
<1>12. Stored' = Stored
  BY <1>1, <1>5, <1>6 DEF Stored, versions, memory
<1>13. StoredInv'
  <2>1. (mem \cup imm \cup EntriesAt(tables, version))' = mem \cup imm \cup EntriesAt(tables, version)
    BY <1>1 DEF versions, memory
  <2>. QED  BY <1>1, <1>12, <2>1 DEF DBInv, StoredInv, told
<1>14. QueueInv'
  <2>1. InFlight' = InFlight /\ GroupInv' /\ \A e : Settled(e)' <=> Settled(e)
    BY <1>1, <1>2 DEF InFlight, OpenInv, QueueInv, GroupInv, Settled, versions
  <2>2. Entries(logs'[logfile']) = Entries(logs[logfile]) /\ logs'[logfile'] = f
    BY <1>1, <1>5, <1>6 DEF memory
  <2>. QED  BY <1>1, <1>5, <2>1, <2>2 DEF OpenInv, QueueInv, versions, memory, told
<1>. QED  BY <1>1, <1>7, <1>8, <1>9, <1>10, <1>11, <1>13, <1>14 DEF DBInv, OpenInv

LEMMA NewLogFile ==
  LET f == File(<<>>, 0)
  IN f \in LogFile /\ f.synced <= Len(f.data) /\ Entries(f) = {} /\ SyncedEntries(f) = {}
BY DEF File, LogFile, Entries, Range, SyncedEntries

\* The immutable memtable has what only the log before has.
LEMMA SwitchMemTableStep ==
  ASSUME DBInv, SwitchMemTable
  PROVE  DBInv'
<1>1. /\ OpenInv /\ state = "open" /\ state' = "open" /\ group.step = "none" /\ bgError = FALSE
      /\ logs' = With(logs, nextFile, File(<<>>, 0))
      /\ logfile' = nextFile /\ nextFile' = nextFile + 1
      /\ imm = {} /\ imm' = mem /\ mem' = {} /\ Cardinality(mem) > WriteBuffer
      /\ scheduled' = TRUE
      /\ UNCHANGED <<tables, manifests, current, lastSequence, version, logNumber, manifestNumber>>
      /\ UNCHANGED <<queue, group, compaction, edit, pending, bgError, readers, toReplay, told>>
  <2>1. OpenInv /\ bgError \in BOOLEAN
    BY DEF DBInv, MemoryTyped, SwitchMemTable, AtFront, Open
  <2>. QED  BY <2>1 DEF SwitchMemTable, AtFront, Open, ScheduleFlush, MustWait, Full, writing
<1>2. /\ nextFile \in Nat /\ logfile \in Nat /\ DOMAIN logs \subseteq Nat /\ logfile \in DOMAIN logs
      /\ logNumber = logfile /\ logfile < nextFile /\ \A n \in DOMAIN logs : n <= logfile
      /\ nextFile \notin DOMAIN logs
  <2>1. FilesInv /\ {nextFile, logfile} \subseteq Nat /\ DOMAIN logs \subseteq Nat
    BY <1>1 DEF DBInv, MemoryTyped, OpenInv, FilesTyped
  <2>2. logNumber = logfile /\ logfile < nextFile /\ \A n \in DOMAIN logs : n <= logfile
    BY <1>1, <2>1 DEF FilesInv
  <2>. QED  BY <2>1, <2>2 DEF FilesInv
<1>3. mem # {}
  <2>1. WriteBuffer \in Nat /\ (mem = {} => Cardinality(mem) = 0)
    BY FS_EmptySet, DBImplAssumption
  <2>. QED  BY <1>1, <2>1
<1>4. PICK f \in LogFile : f = File(<<>>, 0) /\ f.synced <= Len(f.data) /\ Entries(f) = {}
  BY NewLogFile
<1>5. /\ DOMAIN logs' = DOMAIN logs \cup {nextFile} /\ logs'[nextFile] = f
      /\ \A n \in DOMAIN logs : n # nextFile /\ logs'[n] = logs[n]
      /\ logs' = [n \in DOMAIN logs' |-> logs'[n]]
  <2>1. PICK w : w = With(logs, nextFile, f)
    OBVIOUS
  <2>2. /\ DOMAIN w = DOMAIN logs \cup {nextFile} /\ w[nextFile] = f
        /\ \A n \in DOMAIN logs : n # nextFile => w[n] = logs[n]
        /\ w = [n \in DOMAIN w |-> w[n]]
    BY <2>1 DEF With
  <2>. QED  BY <1>1, <1>2, <1>4, <2>1, <2>2
<1>6. Entries(logs[logfile]) = mem /\ InFlight = {}
  BY <1>1 DEF OpenInv, QueueInv, InFlight
<1>7. FilesTyped'
  <2>1. \A n \in DOMAIN logs' : logs'[n] \in LogFile /\ logs'[n].synced <= Len(logs'[n].data) /\ n \in Nat
    BY <1>2, <1>4, <1>5 DEF DBInv, FilesTyped
  <2>2. logs' \in [DOMAIN logs' -> LogFile]
    BY <1>5, <2>1
  <2>. QED  BY <1>1, <2>1, <2>2 DEF DBInv, FilesTyped
<1>8. ManifestInv'
  BY <1>1, <1>5, ManifestLogsGrow DEF DBInv, told
<1>9. MemoryTyped'
  BY <1>1, <1>2 DEF DBInv, MemoryTyped, told
<1>10. Stored' = Stored
  BY <1>1, <1>4, <1>5, <1>6 DEF Stored
<1>11. StoredInv'
  <2>1. (mem \cup imm \cup EntriesAt(tables, version))' = mem \cup imm \cup EntriesAt(tables, version)
    BY <1>1
  <2>. QED  BY <1>1, <1>10, <2>1 DEF DBInv, StoredInv, told
<1>12. QueueInv'
  <2>1. GroupInv' /\ InFlight' = {} /\ \A e : Settled(e)' <=> Settled(e)
    BY <1>1 DEF OpenInv, QueueInv, GroupInv, Settled, InFlight
  <2>2. Entries(logs'[logfile']) = {} /\ group'.step # "insert"
    BY <1>1, <1>4, <1>5
  <2>. QED  BY <1>1, <2>1, <2>2 DEF OpenInv, QueueInv, told
<1>13. FilesInv'
  <2>1. LogsFrom(logs', logNumber) \ {nextFile} = {logfile}
    BY <1>2, <1>5 DEF LogsFrom
  <2>2. mem = EntriesIn(logs', LogsFrom(logs', logNumber) \ {nextFile})
    BY <1>2, <1>5, <1>6, <2>1, EntriesInOne
  <2>3. /\ \A n \in DOMAIN logs' : n <= nextFile
        /\ \A n \in DOMAIN tables : n < nextFile'
        /\ current < nextFile' /\ nextFile < nextFile' /\ logNumber <= nextFile
    BY <1>1, <1>2, <1>5 DEF OpenInv, FilesInv, DBInv, FilesTyped
  <2>4. \A r \in MayFind :
          /\ r.log \in {logNumber, nextFile}
          /\ EntriesAt(tables, version) \subseteq EntriesAt(tables, r.version)
          /\ EntriesAt(tables, r.version) \subseteq EntriesAt(tables, version) \cup mem
          /\ r.log = logNumber
    BY <1>1, <1>2 DEF OpenInv, FilesInv
  <2>. QED  BY <1>1, <1>3, <1>5, <2>2, <2>3, <2>4 DEF OpenInv, FilesInv, MayFind
<1>14. BackgroundInv'
  <2>1. \A e \in edit : e.by # "flush"
    BY <1>1 DEF OpenInv, BackgroundInv, EditInv
  <2>. QED  BY <1>1, <2>1 DEF OpenInv, BackgroundInv, EditInv, CompactionInv, MayFind, Says, Apply
<1>. QED  BY <1>1, <1>7, <1>8, <1>9, <1>11, <1>12, <1>13, <1>14 DEF DBInv, OpenInv

-----------------------------------------------------------------------------
(* The background thread.                                                   *)

LEMMA LastRecord ==
  ASSUME FilesTyped
  PROVE  /\ Says(current) \in MayFind /\ MayFind \subseteq ManifestRecord
         /\ Len(manifests[current].data) \in Nat \ {0}
         /\ Len(manifests[current].data) \in manifests[current].synced .. Len(manifests[current].data)
<1>1. PICK m, d : m = manifests[current] /\ d = m.data
  OBVIOUS
<1>2. d \in Seq(ManifestRecord) /\ m.synced \in Nat \ {0} /\ m.synced <= Len(d)
  BY <1>1 DEF FilesTyped, ManifestFile
<1>3. Len(d) \in m.synced .. Len(d) /\ \A i \in m.synced .. Len(d) : d[i] \in ManifestRecord
  BY <1>2
<1>4. Len(d) \in Nat \ {0}
  BY <1>2
<1>. QED  BY <1>1, <1>3, <1>4 DEF Says, MayFind, MayBeRead

\* Steps that leave the files, the memtables and the queue alone.
LEMMA QuietStep ==
  ASSUME DBInv, state = "open", state' = "open",
         UNCHANGED <<disk, lastSequence, version, logNumber, manifestNumber, memory, queue, group, told>>,
         nextFile' \in Nat, nextFile <= nextFile', bgError => bgError',
         UNION readers' \subseteq DOMAIN tables
  PROVE  FilesTyped' /\ ManifestInv' /\ StoredInv' /\ QueueInv' /\ FilesInv'
<1>1. OpenInv /\ FilesTyped /\ ManifestInv /\ StoredInv
  BY DEF DBInv
<1>2. FilesTyped' /\ ManifestInv' /\ StoredInv'
  BY <1>1, FilesTypedFrame, ManifestFrame, StoredFrame DEF disk, told, memory
<1>3. QueueInv'
  BY <1>1, QueueFrame DEF OpenInv, disk, told, memory
<1>4. FilesInv'
  <2>1. FilesInv /\ nextFile \in Nat /\ logfile \in Nat /\ current \in Nat /\ DOMAIN tables \subseteq Nat
    BY <1>1 DEF OpenInv, DBInv, MemoryTyped, FilesTyped
  <2>2. /\ logfile < nextFile' /\ current < nextFile'
        /\ \A n \in DOMAIN tables : n < nextFile'
    BY <2>1 DEF FilesInv
  <2>. QED  BY <2>1, <2>2 DEF FilesInv, MayFind, disk, memory
<1>. QED  BY <1>2, <1>3, <1>4

LEMMA WaitStep ==
  ASSUME DBInv, state = "open", UNCHANGED <<disk, versions, state, memory, queue, group, bgError>>,
         UNCHANGED <<compaction, edit, pending, readers, toReplay, told>>
  PROVE  DBInv'
<1>1. OpenInv /\ nextFile \in Nat
  BY DEF DBInv, MemoryTyped
<1>2. FilesTyped' /\ ManifestInv' /\ StoredInv' /\ QueueInv' /\ FilesInv'
  <2>1. UNION readers' \subseteq DOMAIN tables /\ nextFile' \in Nat /\ nextFile <= nextFile'
    BY <1>1 DEF OpenInv, FilesInv, versions
  <2>. QED  BY <2>1, QuietStep DEF versions
<1>3. BackgroundInv'
  BY <1>1, BackgroundFrame DEF OpenInv, disk, versions, memory
<1>4. MemoryTyped'
  BY DEF DBInv, MemoryTyped, versions, memory, told
<1>. QED  BY <1>2, <1>3, <1>4 DEF DBInv, OpenInv

LEMMA ReadersStep ==
  ASSUME DBInv, HoldVersion \/ ReleaseVersion
  PROVE  DBInv'
<1>1. /\ OpenInv /\ state = "open" /\ state' = "open" /\ nextFile \in Nat
      /\ UNCHANGED <<disk, versions, memory, writing, background, bgError, toReplay, told>>
      /\ readers' = readers \cup {Files(version)} \/ \E v \in readers : readers' = readers \ {v}
  BY DEF DBInv, MemoryTyped, HoldVersion, ReleaseVersion, Open
<1>2. readers' \subseteq SUBSET Nat /\ UNION readers' \subseteq DOMAIN tables
  <2>1. Files(version) \in SUBSET DOMAIN tables /\ readers \subseteq SUBSET DOMAIN tables
    BY <1>1 DEF OpenInv, FilesInv
  <2>2. DOMAIN tables \subseteq Nat
    BY DEF DBInv, FilesTyped
  <2>3. readers' \subseteq SUBSET DOMAIN tables
    BY <1>1, <2>1
  <2>. QED  BY <2>2, <2>3
<1>3. FilesTyped' /\ ManifestInv' /\ StoredInv' /\ QueueInv' /\ FilesInv'
  <2>1. nextFile' \in Nat /\ nextFile <= nextFile'
    BY <1>1 DEF versions
  <2>. QED  BY <1>1, <1>2, <2>1, QuietStep DEF versions, writing
<1>4. BackgroundInv'
  BY <1>1, BackgroundFrame DEF OpenInv, disk, versions, memory, background
<1>5. MemoryTyped'
  BY <1>1, <1>2 DEF DBInv, MemoryTyped, versions, memory, told, writing, background
<1>. QED  BY <1>1, <1>3, <1>4, <1>5 DEF DBInv, OpenInv

\* A failure of the background thread: no edit is left, and of the compaction what it was.
LEMMA BackgroundFailsStep ==
  ASSUME DBInv, state = "open", state' = "open", nextFile' \in {nextFile, nextFile + 1},
         UNCHANGED <<disk, lastSequence, version, logNumber, manifestNumber, memory, queue, group>>,
         UNCHANGED <<readers, toReplay, told>>,
         bgError' = TRUE, edit' \subseteq edit,
         \/ compaction' = {} /\ edit' = {} /\ pending' \subseteq pending
         \/ compaction' = compaction /\ pending' = pending
  PROVE  DBInv'
<1>1. OpenInv /\ nextFile \in Nat
  BY DEF DBInv, MemoryTyped
<1>2. FilesTyped' /\ ManifestInv' /\ StoredInv' /\ QueueInv' /\ FilesInv'
  <2>1. UNION readers' \subseteq DOMAIN tables /\ nextFile' \in Nat /\ nextFile <= nextFile'
    BY <1>1 DEF OpenInv, FilesInv
  <2>. QED  BY <2>1, QuietStep
<1>3. BackgroundInv'
  <2>1. CASE compaction' = {} /\ edit' = {}
    BY <2>1 DEF BackgroundInv
  <2>2. CASE compaction' = compaction /\ pending' = pending
    BY <1>1, <2>2 DEF OpenInv, BackgroundInv, EditInv, CompactionInv, MayFind, Says, disk, memory
  <2>. QED  BY <2>1, <2>2
<1>4. MemoryTyped'
  <2>1. edit' \subseteq VersionEdit /\ \A d, e \in edit' : d = e
    BY DEF DBInv, MemoryTyped
  <2>2. compaction' \subseteq Compaction /\ \A d, e \in compaction' : d = e
    BY DEF DBInv, MemoryTyped
  <2>3. bgError' \in BOOLEAN
    OBVIOUS
  <2>4. nextFile' \in Nat
    BY <1>1
  <2>5. pending' \subseteq Nat
    BY DEF DBInv, MemoryTyped
  <2>. QED  BY <2>1, <2>2, <2>3, <2>4, <2>5 DEF DBInv, MemoryTyped, memory, told
<1>. QED  BY <1>2, <1>3, <1>4 DEF DBInv, OpenInv

\* A new table, that nothing names yet.
LEMMA TableWritten ==
  ASSUME DBInv, state = "open", state' = "open", NEW E \in SUBSET Entry,
         tables' = With(tables, nextFile, E), nextFile' = nextFile + 1,
         UNCHANGED <<logs, manifests, current, lastSequence, version, logNumber, manifestNumber>>,
         UNCHANGED <<memory, queue, group, bgError, readers, told>>
  PROVE  /\ FilesTyped' /\ ManifestInv' /\ StoredInv' /\ QueueInv' /\ FilesInv'
         /\ DOMAIN tables' = DOMAIN tables \cup {nextFile} /\ tables'[nextFile] = E
         /\ \A F : F \subseteq DOMAIN tables => EntriesOf(tables', F) = EntriesOf(tables, F)
<1>1. /\ OpenInv /\ nextFile \in Nat /\ nextFile \notin DOMAIN tables /\ DOMAIN tables \subseteq Nat
      /\ FilesTyped /\ ManifestInv /\ StoredInv
  <2>1. OpenInv /\ nextFile \in Nat /\ FilesTyped /\ ManifestInv /\ StoredInv
    BY DEF DBInv, MemoryTyped
  <2>2. nextFile \notin DOMAIN tables
    BY <2>1 DEF OpenInv, FilesInv
  <2>. QED  BY <2>1, <2>2 DEF FilesTyped
<1>2. /\ DOMAIN tables' = DOMAIN tables \cup {nextFile} /\ tables'[nextFile] = E
      /\ \A n \in DOMAIN tables : tables'[n] = tables[n]
      /\ tables' = [n \in DOMAIN tables' |-> tables'[n]]
  BY <1>1 DEF With
<1>3. ASSUME NEW F, F \subseteq DOMAIN tables PROVE EntriesOf(tables', F) = EntriesOf(tables, F)
  BY <1>2, <1>3, EntriesOfSame
<1>4. FilesTyped'
  <2>1. \A n \in DOMAIN tables' : tables'[n] \in SUBSET Entry /\ n \in Nat
    BY <1>1, <1>2 DEF FilesTyped
  <2>2. tables' \in [DOMAIN tables' -> SUBSET Entry]
    BY <1>2, <2>1
  <2>. QED  BY <1>1, <2>1, <2>2 DEF FilesTyped
<1>5. \A v : Files(v) \subseteq DOMAIN tables => EntriesAt(tables', v) = EntriesAt(tables, v)
  BY <1>3 DEF EntriesAt
<1>6. Files(version) \subseteq DOMAIN tables /\ \A r \in MayFind : Files(r.version) \subseteq DOMAIN tables
  BY <1>1 DEF OpenInv, FilesInv, ManifestInv, Readable
<1>7. ManifestInv'
  <2>1. ASSUME NEW r \in MayFind PROVE Lasts(tables', logs, r) = Lasts(tables, logs, r)
    BY <1>5, <1>6 DEF Lasts
  <2>2. ASSUME NEW r \in MayFind PROVE Readable(tables', logs, r)
    BY <1>1, <1>2, <1>5, <1>6 DEF ManifestInv, Readable
  <2>. QED  BY <1>1, <2>1, <2>2 DEF ManifestInv, MayFind, told
<1>8. Stored' = Stored
  BY <1>5, <1>6 DEF Stored, memory
<1>9. StoredInv'
  BY <1>1, <1>5, <1>6, <1>8 DEF StoredInv, memory, told
<1>10. QueueInv'
  <2>1. GroupInv' /\ InFlight' = InFlight /\ \A e : Settled(e)' <=> Settled(e)
    BY <1>1 DEF OpenInv, QueueInv, GroupInv, InFlight, Settled
  <2>. QED  BY <1>1, <1>5, <1>6, <2>1 DEF OpenInv, QueueInv, memory, told
<1>11. FilesInv'
  <2>1. FilesInv /\ logfile \in Nat /\ current \in Nat
    BY <1>1 DEF OpenInv, DBInv, MemoryTyped, FilesTyped
  <2>2. /\ logfile < nextFile' /\ current < nextFile'
        /\ \A n \in DOMAIN tables' : n < nextFile'
    BY <1>1, <1>2, <2>1 DEF FilesInv
  <2>3. Files(version) \cup UNION readers \subseteq DOMAIN tables'
    BY <1>2, <2>1 DEF FilesInv
  <2>. QED  BY <1>5, <1>6, <2>1, <2>2, <2>3 DEF FilesInv, MayFind, memory
<1>. QED  BY <1>2, <1>3, <1>4, <1>7, <1>9, <1>10, <1>11

LEMMA BuildTableStep ==
  ASSUME DBInv, BuildTable
  PROVE  DBInv'
<1>1. /\ OpenInv /\ state = "open" /\ state' = "open" /\ nextFile \in Nat /\ imm \in SUBSET Entry
      /\ imm # {} /\ edit = {} /\ nextFile' = nextFile + 1 /\ tables' = With(tables, nextFile, imm)
      /\ UNCHANGED <<logs, manifests, current, lastSequence, version, logNumber, manifestNumber>>
      /\ UNCHANGED <<memory, queue, group, compaction, pending, bgError, readers, toReplay, told>>
  BY DEF DBInv, MemoryTyped, BuildTable, MayFlush, Open, writing
<1>2. PICK e : /\ e = Edit("flush", {nextFile}, {}, {}, FlushLog) /\ edit' = {e}
  BY DEF BuildTable
<1>3. /\ e.by = "flush" /\ e.add0 = {nextFile} /\ e.add1 = {} /\ e.del = {} /\ e.log = logfile
      /\ e.next = nextFile + 1 /\ e.last = lastSequence /\ e.step = "append"
      /\ e \in [by : {"flush"}, add0 : {{nextFile}}, add1 : {{}}, del : {{}}, log : {logfile},
                next : {nextFile + 1}, last : {lastSequence}, step : {"append"}]
  BY <1>1, <1>2 DEF Edit, FlushLog
<1>4. /\ FilesTyped' /\ ManifestInv' /\ StoredInv' /\ QueueInv' /\ FilesInv'
      /\ DOMAIN tables' = DOMAIN tables \cup {nextFile} /\ tables'[nextFile] = imm
      /\ \A F : F \subseteq DOMAIN tables => EntriesOf(tables', F) = EntriesOf(tables, F)
  BY <1>1, TableWritten
<1>5. MemoryTyped'
  <2>1. logfile \in Nat /\ lastSequence \in Nat
    BY DEF DBInv, MemoryTyped
  <2>2. e \in VersionEdit
    BY <1>1, <1>3, <2>1 DEF VersionEdit
  <2>. QED  BY <1>1, <1>2, <2>2 DEF DBInv, MemoryTyped, memory, told
<1>6. BackgroundInv'
  <2>1. FilesInv /\ FilesTyped /\ DOMAIN tables \subseteq Nat /\ logfile \in Nat /\ lastSequence \in Nat
    BY <1>1 DEF OpenInv, DBInv, MemoryTyped, FilesTyped
  <2>2. \A r \in MayFind : Files(r.version) \subseteq DOMAIN tables
    BY DEF DBInv, ManifestInv, Readable
  <2>3. \A c \in compaction : CompactionInv(c)'
    <3> SUFFICES ASSUME NEW c \in compaction PROVE CompactionInv(c)'
      BY <1>1
    <3>1. CompactionInv(c)
      BY <1>1 DEF OpenInv, BackgroundInv
    <3>2. c.output \subseteq DOMAIN tables => EntriesOf(tables', c.output) = EntriesOf(tables, c.output)
      BY <1>4
    <3>3. c.inputs \subseteq DOMAIN tables => EntriesOf(tables', c.inputs) = EntriesOf(tables, c.inputs)
      BY <1>4
    <3>. QED  BY <1>1, <1>4, <3>1, <3>2, <3>3 DEF CompactionInv
  <2>4. Says(current)' = Says(current) /\ MayFind' = MayFind
    BY <1>1 DEF Says, MayFind
  <2>5. \A x \in EntriesAt(tables', Says(current).version) \cup EntriesOf(tables', {nextFile}) : x.seq <= lastSequence
    <3>1. EntriesAt(tables', Says(current).version) = EntriesAt(tables, Says(current).version)
      BY <1>4, <2>1, <2>2, LastRecord DEF EntriesAt
    <3>2. EntriesOf(tables', {nextFile}) = imm
      BY <1>4, EntriesOfOne
    <3>3. EntriesAt(tables, Says(current).version) \subseteq EntriesAt(tables, version) \cup imm
      BY <2>1, LastRecord DEF FilesInv
    <3>. QED  BY <1>1, <3>1, <3>2, <3>3 DEF OpenInv, QueueInv, Settled
  <2>6. EditInv(e)'
    <3>1. /\ e.by = "flush" => /\ e.add1 = {} /\ e.del = {} /\ e.log = logfile'
                               /\ imm' # {} /\ EntriesOf(tables', e.add0) = imm'
      BY <1>1, <1>3, <1>4, EntriesOfOne DEF memory
    <3>2. /\ current < e.next /\ e.log < e.next /\ \A n \in e.add0 \cup e.add1 : n < e.next
          /\ \A r \in MayFind : \A n \in Files(r.version) : n < e.next
      <4>1. current \in Nat /\ current < nextFile /\ logfile < nextFile /\ \A n \in DOMAIN tables : n < nextFile
        BY <2>1 DEF FilesInv, FilesTyped
      <4>2. current < nextFile + 1 /\ logfile < nextFile + 1 /\ \A n \in DOMAIN tables : n < nextFile + 1
        BY <1>1, <2>1, <4>1
      <4>. QED  BY <1>1, <1>3, <2>2, <4>2
    <3>3. e.add0 \cup e.add1 = {nextFile}
      BY <1>3
    <3>. QED  BY <1>1, <1>3, <1>4, <2>4, <2>5, <3>1, <3>2, <3>3 DEF EditInv
  <2>7. ~bgError => Says(current).version = version
    BY <1>1 DEF OpenInv, BackgroundInv
  <2>. QED  BY <1>1, <1>2, <1>3, <2>3, <2>4, <2>6, <2>7 DEF BackgroundInv
<1>. QED  BY <1>1, <1>4, <1>5, <1>6 DEF DBInv, OpenInv

LEMMA StartCompactionStep ==
  ASSUME DBInv, StartCompaction
  PROVE  DBInv'
<1>1. /\ OpenInv /\ state = "open" /\ state' = "open" /\ nextFile \in Nat
      /\ compaction = {} /\ edit = {}
      /\ UNCHANGED <<disk, versions, memory, writing, edit, pending, bgError, readers, toReplay, told>>
  BY DEF DBInv, MemoryTyped, StartCompaction, Open
<1>2. PICK c, in0 :
        /\ in0 \subseteq version.l0 /\ compaction' = {c}
        /\ c = [inputs |-> in0 \cup version.l1, base |-> Files(version), output |-> {}, step |-> "start"]
  BY DEF StartCompaction
<1>3. version \in TableVersion /\ Files(version) \subseteq DOMAIN tables /\ DOMAIN tables \subseteq Nat
  BY <1>1 DEF DBInv, MemoryTyped, OpenInv, FilesInv, FilesTyped
<1>4. /\ c.inputs = in0 \cup version.l1 /\ c.base = Files(version) /\ c.output = {} /\ c.step = "start"
      /\ c \in Compaction
  BY <1>2, <1>3 DEF Compaction, Files, TableVersion
<1>5. FilesTyped' /\ ManifestInv' /\ StoredInv' /\ QueueInv' /\ FilesInv'
  <2>1. UNION readers' \subseteq DOMAIN tables /\ nextFile' \in Nat /\ nextFile <= nextFile'
    BY <1>1 DEF OpenInv, FilesInv, versions
  <2>. QED  BY <1>1, <2>1, QuietStep DEF versions, writing
<1>6. MemoryTyped'
  BY <1>1, <1>2, <1>4 DEF DBInv, MemoryTyped, versions, memory, told, writing
<1>7. BackgroundInv'
  <2>1. CompactionInv(c)'
    BY <1>1, <1>2, <1>3, <1>4 DEF CompactionInv, Files, versions, disk
  <2>. QED  BY <1>1, <1>2, <2>1 DEF OpenInv, BackgroundInv, Says, versions, disk
<1>. QED  BY <1>1, <1>5, <1>6, <1>7 DEF DBInv, OpenInv

LEMMA WriteCompactionOutputStep ==
  ASSUME DBInv, WriteCompactionOutput
  PROVE  DBInv'
<1>1. /\ OpenInv /\ state = "open" /\ state' = "open" /\ nextFile \in Nat
      /\ edit = {} /\ nextFile' = nextFile + 1 /\ pending' = pending \cup {nextFile}
      /\ UNCHANGED <<logs, manifests, current, lastSequence, version, logNumber, manifestNumber>>
      /\ UNCHANGED <<memory, queue, group, edit, bgError, readers, toReplay, told>>
  BY DEF DBInv, MemoryTyped, WriteCompactionOutput, Compacting, Open, writing
<1>2. PICK c, b :
        /\ c \in compaction
        /\ b = [c EXCEPT !.output = {nextFile}, !.step = "written"]
        /\ tables' = With(tables, nextFile, EntriesOf(tables, c.inputs)) /\ compaction' = {b}
  BY DEF WriteCompactionOutput, EntriesOf
<1>3. CompactionInv(c) /\ c \in Compaction
  BY <1>1, <1>2 DEF OpenInv, BackgroundInv, DBInv, MemoryTyped
<1>4. /\ b.inputs = c.inputs /\ b.base = c.base /\ b.output = {nextFile} /\ b.step = "written"
      /\ b \in Compaction
  BY <1>1, <1>2, <1>3 DEF Compaction
<1>5. c.inputs \subseteq DOMAIN tables /\ EntriesOf(tables, c.inputs) \in SUBSET Entry
  BY <1>3, EntriesTyped DEF CompactionInv, DBInv
<1>6. /\ FilesTyped' /\ ManifestInv' /\ StoredInv' /\ QueueInv' /\ FilesInv'
      /\ DOMAIN tables' = DOMAIN tables \cup {nextFile} /\ tables'[nextFile] = EntriesOf(tables, c.inputs)
      /\ \A F : F \subseteq DOMAIN tables => EntriesOf(tables', F) = EntriesOf(tables, F)
  BY <1>1, <1>2, <1>5, TableWritten
<1>7. MemoryTyped'
  BY <1>1, <1>2, <1>4 DEF DBInv, MemoryTyped, memory, told
<1>8. CompactionInv(b)'
  <2>1. EntriesOf(tables', {nextFile}) = EntriesOf(tables', c.inputs)
    BY <1>5, <1>6, EntriesOfOne
  <2>2. c.inputs \subseteq c.base /\ c.inputs \subseteq Files(version) /\ c.base \subseteq DOMAIN tables
    BY <1>3 DEF CompactionInv
  <2>. QED  BY <1>1, <1>4, <1>6, <2>1, <2>2 DEF CompactionInv
<1>9. BackgroundInv'
  BY <1>1, <1>2, <1>8 DEF OpenInv, BackgroundInv, Says
<1>. QED  BY <1>1, <1>6, <1>7, <1>9 DEF DBInv, OpenInv

LEMMA InstallCompactionResultsStep ==
  ASSUME DBInv, InstallCompactionResults
  PROVE  DBInv'
<1>1. /\ OpenInv /\ state = "open" /\ state' = "open" /\ nextFile \in Nat /\ edit = {}
      /\ UNCHANGED <<disk, versions, memory, queue, group, pending, bgError, readers, toReplay, told>>
      /\ edit' = {Edit("compaction", {}, c.output, c.inputs, logNumber) : c \in compaction}
      /\ compaction' = {[c EXCEPT !.step = "install"] : c \in compaction}
  BY DEF DBInv, MemoryTyped, InstallCompactionResults, Compacting, Open, writing
<1>2. PICK c \in compaction : c.step = "written"
  BY DEF InstallCompactionResults, Compacting
<1>3. CompactionInv(c) /\ c \in Compaction /\ compaction = {c}
  BY <1>1, <1>2 DEF OpenInv, BackgroundInv, DBInv, MemoryTyped
<1>4. PICK b, e :
        /\ b = [c EXCEPT !.step = "install"] /\ compaction' = {b}
        /\ e = Edit("compaction", {}, c.output, c.inputs, logNumber) /\ edit' = {e}
  <2>1. compaction' = {[c EXCEPT !.step = "install"]}
    BY <1>3 DEF InstallCompactionResults
  <2>2. edit' = {Edit("compaction", {}, c.output, c.inputs, logNumber)}
    BY <1>3 DEF InstallCompactionResults
  <2>. QED  BY <2>1, <2>2
<1>5. /\ b.inputs = c.inputs /\ b.base = c.base /\ b.output = c.output /\ b.step = "install"
      /\ b \in Compaction
  BY <1>3, <1>4 DEF Compaction
<1>6. /\ e.by = "compaction" /\ e.add0 = {} /\ e.add1 = c.output /\ e.del = c.inputs /\ e.log = logNumber
      /\ e.next = nextFile /\ e.last = lastSequence /\ e.step = "append"
      /\ e \in [by : {"compaction"}, add0 : {{}}, add1 : {c.output}, del : {c.inputs}, log : {logNumber},
                next : {nextFile}, last : {lastSequence}, step : {"append"}]
  BY <1>1, <1>4 DEF Edit, versions
<1>7. FilesTyped' /\ ManifestInv' /\ StoredInv' /\ QueueInv' /\ FilesInv'
  <2>1. UNION readers' \subseteq DOMAIN tables /\ nextFile' \in Nat /\ nextFile <= nextFile'
    BY <1>1 DEF OpenInv, FilesInv, versions
  <2>. QED  BY <1>1, <2>1, QuietStep DEF versions
<1>8. MemoryTyped'
  <2>1. logNumber \in Nat /\ lastSequence \in Nat /\ c.output \in SUBSET Nat /\ c.inputs \in SUBSET Nat
    BY <1>3 DEF DBInv, MemoryTyped, Compaction
  <2>2. e \in VersionEdit
    BY <1>1, <1>6, <2>1 DEF VersionEdit
  <2>. QED  BY <1>1, <1>4, <1>5, <2>2 DEF DBInv, MemoryTyped, versions, memory, told
<1>9. BackgroundInv'
  <2>1. CompactionInv(b)'
    BY <1>1, <1>2, <1>3, <1>5 DEF CompactionInv, versions, disk
  <2>2. /\ FilesInv /\ FilesTyped /\ \A n \in DOMAIN tables : n < nextFile
        /\ \A r \in MayFind : Files(r.version) \subseteq DOMAIN tables
    BY <1>1 DEF OpenInv, FilesInv, DBInv, ManifestInv, Readable
  <2>3. Says(current)' = Says(current) /\ MayFind' = MayFind
    BY <1>1 DEF Says, MayFind, disk
  <2>4. c.output \subseteq DOMAIN tables /\ EntriesOf(tables, c.output) \subseteq EntriesAt(tables, version)
    BY <1>2, <1>3, EntriesOfMonotone DEF CompactionInv, EntriesAt
  <2>5. \A x \in EntriesAt(tables, Says(current).version) \cup EntriesOf(tables, c.output) : x.seq <= lastSequence
    <3>1. EntriesAt(tables, Says(current).version) \subseteq EntriesAt(tables, version) \cup imm
      BY <2>2, LastRecord DEF FilesInv
    <3>. QED  BY <1>1, <2>4, <3>1 DEF OpenInv, QueueInv, Settled
  <2>6. EditInv(e)'
    <3>1. e.add0 \cup e.add1 = c.output
      BY <1>6
    <3>2. /\ current < nextFile /\ logNumber < nextFile /\ \A n \in c.output : n < nextFile
          /\ \A r \in MayFind : \A n \in Files(r.version) : n < nextFile
      <4>1. logNumber <= logfile /\ logfile < nextFile /\ logNumber \in Nat /\ logfile \in Nat
        BY <2>2 DEF FilesInv, DBInv, MemoryTyped
      <4>2. logNumber < nextFile
        BY <1>1, <4>1
      <4>. QED  BY <2>2, <2>4, <4>2 DEF FilesInv
    <3>. QED  BY <1>1, <1>4, <1>5, <1>6, <2>3, <2>4, <2>5, <3>1, <3>2 DEF EditInv, disk, versions
  <2>7. ~bgError => Says(current).version = version
    BY <1>1 DEF OpenInv, BackgroundInv
  <2>. QED  BY <1>1, <1>4, <1>6, <2>1, <2>3, <2>6, <2>7 DEF BackgroundInv, versions
<1>. QED  BY <1>1, <1>7, <1>8, <1>9 DEF DBInv, OpenInv

-----------------------------------------------------------------------------
(* LogAndApply.                                                             *)

LEMMA EditRecord ==
  ASSUME NEW v \in TableVersion, NEW e \in VersionEdit
  PROVE  /\ Apply(v, e) \in TableVersion
         /\ Files(Apply(v, e)) \subseteq Files(v) \cup e.add0 \cup e.add1
         /\ e.add0 \cup e.add1 \subseteq Files(Apply(v, e))
         /\ Files(v) \subseteq Files(Apply(v, e)) \cup e.del
         /\ Record(v, e) \in ManifestRecord
         /\ Record(v, e).version = Apply(v, e) /\ Record(v, e).log = e.log
         /\ Record(v, e).next = e.next /\ Record(v, e).last = e.last
<1>1. /\ v.l0 \subseteq Nat /\ v.l1 \subseteq Nat /\ e.add0 \subseteq Nat /\ e.add1 \subseteq Nat
      /\ e.log \in Nat /\ e.next \in Nat /\ e.last \in Nat
  BY DEF TableVersion, VersionEdit
<1>2. PICK w : w = Apply(v, e)
  OBVIOUS
<1>7. /\ w.l0 = (v.l0 \ e.del) \cup e.add0
      /\ w.l1 = (v.l1 \ e.del) \cup e.add1
  BY <1>2 DEF Apply
<1>3. w \in TableVersion
  BY <1>1, <1>2 DEF TableVersion, Apply
<1>4. Files(w) = w.l0 \cup w.l1 /\ Files(v) = v.l0 \cup v.l1
  BY DEF Files
<1>5. /\ Files(w) \subseteq Files(v) \cup e.add0 \cup e.add1
      /\ e.add0 \cup e.add1 \subseteq Files(w)
      /\ Files(v) \subseteq Files(w) \cup e.del
  BY <1>4, <1>7
<1>6. Record(v, e) = [version |-> w, log |-> e.log, next |-> e.next, last |-> e.last]
  BY <1>2 DEF Record
<1>. QED  BY <1>1, <1>2, <1>3, <1>5, <1>6 DEF ManifestRecord

\* What an edit makes of the entries: a flush adds those of the immutable memtable, a
\* compaction changes nothing.
LEMMA EditEntries ==
  ASSUME DBInv, state = "open", NEW e \in edit, NEW v \in TableVersion, Files(v) \subseteq DOMAIN tables,
         EntriesAt(tables, version) \subseteq EntriesAt(tables, v),
         EntriesAt(tables, v) \subseteq EntriesAt(tables, version) \cup imm
  PROVE  /\ Files(Apply(v, e)) \subseteq DOMAIN tables
         /\ e.by = "flush" => EntriesAt(tables, Apply(v, e)) = EntriesAt(tables, v) \cup imm
         /\ e.by = "compaction" => EntriesAt(tables, Apply(v, e)) = EntriesAt(tables, v)
         /\ e.by \in {"flush", "compaction"}
<1>1. EditInv(e) /\ BackgroundInv /\ FilesInv /\ e \in VersionEdit /\ version \in TableVersion
  BY DEF DBInv, OpenInv, BackgroundInv, MemoryTyped
<1>2. /\ Files(Apply(v, e)) \subseteq Files(v) \cup e.add0 \cup e.add1
      /\ e.add0 \cup e.add1 \subseteq Files(Apply(v, e))
      /\ Files(v) \subseteq Files(Apply(v, e)) \cup e.del
  BY <1>1, EditRecord
<1>3. PICK F : F = Files(Apply(v, e))
  OBVIOUS
<1>4. F \subseteq DOMAIN tables
  BY <1>1, <1>2, <1>3 DEF EditInv
<1>5. ASSUME e.by = "flush" PROVE EntriesOf(tables, F) = EntriesAt(tables, v) \cup imm
  <2>1. e.del = {} /\ e.add1 = {} /\ EntriesOf(tables, e.add0) = imm
    BY <1>1, <1>5 DEF EditInv
  <2>2. F = Files(v) \cup e.add0
    BY <1>2, <1>3, <2>1
  <2>. QED  BY <2>1, <2>2, EntriesOfUnion DEF EntriesAt
<1>6. ASSUME e.by = "compaction" PROVE EntriesOf(tables, F) = EntriesAt(tables, v)
  <2>1. PICK c \in compaction : c.step = "install" /\ e.add1 = c.output /\ e.del = c.inputs /\ e.add0 = {}
    BY <1>1, <1>6 DEF EditInv
  <2>2. CompactionInv(c)
    BY <1>1 DEF BackgroundInv
  <2>3. EntriesOf(tables, c.output) = EntriesOf(tables, c.inputs) /\ c.inputs \subseteq Files(version)
    BY <2>1, <2>2 DEF CompactionInv
  <2>4. EntriesOf(tables, c.inputs) \subseteq EntriesAt(tables, v)
    BY <2>3, EntriesOfMonotone DEF EntriesAt
  <2>5. EntriesOf(tables, F) \subseteq EntriesOf(tables, Files(v)) \cup EntriesOf(tables, c.output)
    <3>1. F \subseteq Files(v) \cup c.output
      BY <1>2, <1>3, <2>1
    <3>2. EntriesOf(tables, F) \subseteq EntriesOf(tables, Files(v) \cup c.output)
      BY <3>1, EntriesOfMonotone
    <3>. QED  BY <3>2, EntriesOfUnion
  <2>6. EntriesOf(tables, Files(v)) \subseteq EntriesOf(tables, F) \cup EntriesOf(tables, c.inputs)
    <3>1. Files(v) \subseteq F \cup c.inputs
      BY <1>2, <1>3, <2>1
    <3>2. EntriesOf(tables, Files(v)) \subseteq EntriesOf(tables, F \cup c.inputs)
      BY <3>1, EntriesOfMonotone
    <3>. QED  BY <3>2, EntriesOfUnion
  <2>7. EntriesOf(tables, c.output) \subseteq EntriesOf(tables, F)
    BY <1>2, <1>3, <2>1, EntriesOfMonotone
  <2>. QED  BY <2>3, <2>4, <2>5, <2>6, <2>7 DEF EntriesAt
<1>7. e.by \in {"flush", "compaction"}
  BY <1>1 DEF EditInv
<1>. QED  BY <1>3, <1>4, <1>5, <1>6, <1>7 DEF EntriesAt

LEMMA SyncedEntriesIn ==
  ASSUME NEW f \in LogFile, f.synced <= Len(f.data)
  PROVE  SyncedEntries(f) \subseteq Entries(f)
<1>1. f.data \in Seq(SUBSET Entry) /\ f.synced \in Nat /\ Len(f.data) \in Nat
  BY DEF LogFile
<1>2. 1 .. f.synced \subseteq DOMAIN f.data
  BY <1>1
<1>. QED  BY <1>2 DEF SyncedEntries, Entries, Range

LEMMA AppendEditStep ==
  ASSUME DBInv, AppendEdit
  PROVE  DBInv'
<1>1. PICK e \in edit :
        /\ e.step = "append"
        /\ manifests' = [manifests EXCEPT
             ![manifestNumber] = Appended(@, Record(Says(manifestNumber).version, e))]
        /\ edit' = {[e EXCEPT !.step = "sync"]}
  BY DEF AppendEdit
<1>2. /\ OpenInv /\ FilesInv /\ BackgroundInv /\ FilesTyped /\ ManifestInv
      /\ state = "open" /\ state' = "open" /\ edit = {e} /\ current = manifestNumber
      /\ UNCHANGED <<logs, tables, current, versions, memory, queue, group, compaction, pending>>
      /\ UNCHANGED <<bgError, readers, toReplay, told>>
  <2>1. OpenInv /\ \A d, x \in edit : d = x
    BY DEF AppendEdit, Open, DBInv, MemoryTyped
  <2>2. current = manifestNumber
    BY <2>1 DEF OpenInv, FilesInv
  <2>. QED  BY <2>1, <2>2 DEF AppendEdit, Open, DBInv, OpenInv, writing
<1>3. EditInv(e) /\ e \in VersionEdit
  BY <1>2 DEF BackgroundInv, DBInv, MemoryTyped
<1>4. PICK d : d = [e EXCEPT !.step = "sync"]
  OBVIOUS
<1>5. /\ edit' = {d} /\ d \in VersionEdit /\ d.step = "sync"
      /\ d.by = e.by /\ d.add0 = e.add0 /\ d.add1 = e.add1 /\ d.del = e.del /\ d.log = e.log
      /\ d.next = e.next /\ d.last = e.last
  BY <1>1, <1>3, <1>4 DEF VersionEdit
<1>6. PICK s, r : s = Says(current) /\ r = Record(s.version, e)
  OBVIOUS
<1>7. s \in MayFind /\ s \in ManifestRecord /\ s.version \in TableVersion
  BY <1>2, <1>6, LastRecord DEF ManifestRecord
<1>8. /\ r \in ManifestRecord /\ r.version = Apply(s.version, e) /\ r.log = e.log
      /\ r.next = e.next /\ r.last = e.last
      /\ e.add0 \cup e.add1 \subseteq Files(r.version)
      /\ Files(r.version) \subseteq Files(s.version) \cup e.add0 \cup e.add1
  BY <1>3, <1>6, <1>7, EditRecord
<1>9. PICK m, f, n : m = manifests[current] /\ f = Appended(m, r) /\ n = Len(m.data)
  OBVIOUS
<1>10. /\ m \in ManifestFile /\ m.data \in Seq(ManifestRecord) /\ m.synced \in Nat \ {0}
       /\ m.synced <= n /\ n \in Nat /\ n = Len(m.data) /\ m.data[n] = s
  BY <1>2, <1>6, <1>9 DEF FilesTyped, ManifestFile, Says
<1>11. /\ f \in ManifestFile /\ f.synced = m.synced /\ Len(f.data) = n + 1 /\ f.data[n + 1] = r
       /\ \A i \in m.synced .. n : f.data[i] = m.data[i]
  <2>1. PICK q : q = Append(m.data, r)
    OBVIOUS
  <2>2. /\ q \in Seq(ManifestRecord) /\ Len(q) = n + 1 /\ q[n + 1] = r
        /\ \A i \in 1 .. n : q[i] = m.data[i]
    BY <1>8, <1>10, <2>1
  <2>3. f = [m EXCEPT !.data = q]
    BY <1>9, <2>1 DEF Appended
  <2>4. f \in ManifestFile /\ f.synced = m.synced /\ f.data = q
    BY <1>10, <2>2, <2>3 DEF ManifestFile
  <2>5. m.synced .. n \subseteq 1 .. n
    BY <1>10
  <2>. QED  BY <2>2, <2>4, <2>5
<1>12. /\ DOMAIN manifests' = DOMAIN manifests /\ manifests'[current] = f
       /\ \A k \in DOMAIN manifests : k # current => manifests'[k] = manifests[k]
  BY <1>1, <1>2, <1>6, <1>9 DEF FilesTyped
<1>13. /\ MayFind' = MayFind \cup {r} /\ Says(current)' = r
  <2>1. m.synced .. n + 1 = (m.synced .. n) \cup {n + 1}
    BY <1>10
  <2>2. \A x : x \in MayFind' <=> \E i \in m.synced .. n + 1 : x = f.data[i]
    BY <1>2, <1>11, <1>12 DEF MayFind, MayBeRead
  <2>3. \A x : x \in MayFind <=> \E i \in m.synced .. n : x = m.data[i]
    BY <1>9 DEF MayFind, MayBeRead
  <2>4. \A x : x \in MayFind' <=> x \in MayFind \cup {r}
    BY <1>11, <2>1, <2>2, <2>3
  <2>5. Says(current)' = r
    BY <1>2, <1>11, <1>12 DEF Says
  <2>. QED  BY <2>4, <2>5
<1>14. /\ Files(s.version) \subseteq DOMAIN tables
       /\ s.log \in {logNumber, logfile}
       /\ EntriesAt(tables, version) \subseteq EntriesAt(tables, s.version)
       /\ EntriesAt(tables, s.version) \subseteq EntriesAt(tables, version) \cup imm
       /\ s.log = logNumber \/ imm \subseteq EntriesAt(tables, s.version)
  BY <1>2, <1>7 DEF FilesInv, ManifestInv, Readable
<1>15. /\ Files(r.version) \subseteq DOMAIN tables
       /\ e.by = "flush" => EntriesAt(tables, r.version) = EntriesAt(tables, s.version) \cup imm
       /\ e.by = "compaction" => EntriesAt(tables, r.version) = EntriesAt(tables, s.version)
       /\ e.by \in {"flush", "compaction"}
       /\ e.by = "flush" => e.log = logfile
       /\ e.by = "compaction" => e.log = logNumber
  BY <1>2, <1>3, <1>7, <1>8, <1>14, EditEntries DEF EditInv
<1>16. FilesTyped'
  <2>1. f.synced <= Len(f.data)
    BY <1>10, <1>11
  <2>2. manifests' \in [DOMAIN manifests -> ManifestFile] /\ \A k \in DOMAIN manifests : manifests'[k].synced <= Len(manifests'[k].data)
    BY <1>2, <1>1, <1>6, <1>9, <1>11, <1>12, <2>1 DEF FilesTyped
  <2>. QED  BY <1>2, <1>12, <2>2 DEF FilesTyped
<1>17. MemoryTyped'
  BY <1>2, <1>5 DEF DBInv, MemoryTyped, versions, memory, told
<1>18. Stored' = Stored
  BY <1>2 DEF Stored, versions, memory
<1>19. StoredInv'
  BY <1>2, <1>18 DEF DBInv, StoredInv, versions, memory, told
<1>20. QueueInv'
  BY <1>2, QueueFrame DEF OpenInv, versions, memory, told
<1>21. logNumber \in Nat /\ logfile \in Nat /\ current \in Nat /\ logNumber <= logfile
  BY <1>2 DEF DBInv, MemoryTyped, FilesTyped, FilesInv
<1>22. imm \subseteq EntriesAt(tables, r.version) \/ e.log = logNumber
  BY <1>15
<1>23. FilesInv'
  <2>1. r.log \in {logNumber, logfile}
    BY <1>8, <1>15
  <2>2. EntriesAt(tables, version) \subseteq EntriesAt(tables, r.version)
    BY <1>14, <1>15
  <2>3. EntriesAt(tables, r.version) \subseteq EntriesAt(tables, version) \cup imm
    BY <1>14, <1>15
  <2>4. r.log = logNumber \/ imm \subseteq EntriesAt(tables, r.version)
    BY <1>8, <1>22
  <2>. QED  BY <1>2, <1>13, <2>1, <2>2, <2>3, <2>4 DEF FilesInv, versions, memory
<1>24. Lasts(tables, logs, s) \subseteq Lasts(tables, logs, r)
  <2>1. EntriesAt(tables, s.version) \subseteq EntriesAt(tables, r.version)
    BY <1>15
  <2>2. ASSUME NEW k \in LogsFrom(logs, s.log) PROVE SyncedEntries(logs[k]) \subseteq Lasts(tables, logs, r)
    <3>1. k \in DOMAIN logs /\ k \in Nat /\ k >= s.log /\ k >= logNumber
      BY <1>2, <1>14, <1>21 DEF LogsFrom, FilesTyped
    <3>2. CASE k >= e.log
      BY <1>8, <3>1, <3>2 DEF Lasts, SyncedIn, LogsFrom
    <3>3. CASE ~(k >= e.log)
      <4>1. e.log = logfile /\ e.by = "flush" /\ k # logfile
        BY <1>15, <1>21, <3>1, <3>3
      <4>2. SyncedEntries(logs[k]) \subseteq Entries(logs[k])
        BY <1>2, <3>1, SyncedEntriesIn DEF FilesTyped
      <4>3. Entries(logs[k]) \subseteq imm
        BY <1>2, <3>1, <4>1 DEF FilesInv, EntriesIn, LogsFrom
      <4>. QED  BY <1>15, <4>1, <4>2, <4>3 DEF Lasts
    <3>. QED  BY <3>2, <3>3
  <2>. QED  BY <2>1, <2>2 DEF Lasts, SyncedIn
<1>25. \A x \in EntriesAt(tables, r.version) : x.seq <= e.last
  <2>1. EntriesAt(tables, r.version) \subseteq EntriesAt(tables, s.version) \cup EntriesOf(tables, e.add0 \cup e.add1)
    <3>1. EntriesOf(tables, Files(r.version)) \subseteq EntriesOf(tables, Files(s.version) \cup (e.add0 \cup e.add1))
      BY <1>8, EntriesOfMonotone
    <3>. QED  BY <3>1, EntriesOfUnion DEF EntriesAt
  <2>. QED  BY <1>3, <1>6, <2>1 DEF EditInv
<1>26. \A x \in MayFind' : \A k \in Files(x.version) : k < e.next
  BY <1>3, <1>7, <1>8, <1>13 DEF EditInv
<1>27. ManifestInv'
  <2>1. Readable(tables, logs, r) /\ current < r.next
    BY <1>3, <1>8, <1>15, <1>25 DEF Readable, EditInv
  <2>2. promised \subseteq Ids(Lasts(tables, logs, r))
    BY <1>2, <1>7, <1>24, IdsMonotone DEF ManifestInv
  <2>3. ASSUME NEW i \in f.synced .. Len(f.data), NEW j \in f.synced .. Len(f.data), i <= j,
               NEW k \in Files(f.data[i].version)
        PROVE  k < f.data[j].next
    <3>1. f.synced .. Len(f.data) = (m.synced .. n) \cup {n + 1}
      BY <1>10, <1>11
    <3>2. CASE j = n + 1
      <4>1. f.data[i] \in MayFind'
        BY <1>2, <1>12 DEF MayFind, MayBeRead
      <4>. QED  BY <1>8, <1>11, <1>26, <3>2, <4>1
    <3>3. CASE j \in m.synced .. n
      <4>1. i \in m.synced .. n
        BY <1>10, <2>3, <3>1, <3>3
      <4>2. f.data[i] = m.data[i] /\ f.data[j] = m.data[j]
        BY <1>11, <3>3, <4>1
      <4>. QED  BY <1>2, <1>9, <1>10, <2>3, <3>3, <4>1, <4>2 DEF ManifestInv
    <3>. QED  BY <3>1, <3>2, <3>3
  <2>4. \A x \in MayFind' : /\ Readable(tables, logs, x) /\ current < x.next
                            /\ promised \subseteq Ids(Lasts(tables, logs, x))
    BY <1>2, <1>13, <2>1, <2>2 DEF ManifestInv
  <2>. QED  BY <1>2, <1>12, <2>3, <2>4 DEF ManifestInv, told
<1>28. BackgroundInv'
  <2>1. \A c \in compaction : CompactionInv(c)'
    BY <1>2 DEF BackgroundInv, CompactionInv, versions
  <2>2. EditInv(d)'
    <3>1. \A x \in EntriesAt(tables, r.version) \cup EntriesOf(tables, e.add0 \cup e.add1) : x.seq <= e.last
      BY <1>3, <1>25 DEF EditInv
    <3>2. d.add0 \cup d.add1 = e.add0 \cup e.add1
      BY <1>5
    <3>. QED  BY <1>2, <1>3, <1>5, <1>8, <1>13, <1>26, <3>1, <3>2 DEF EditInv, versions, memory
  <2>3. ~bgError => r.version = Apply(version, d)
    <3>1. Apply(version, d) = Apply(version, e)
      BY <1>5 DEF Apply
    <3>2. ~bgError => s.version = version
      BY <1>1, <1>2, <1>6 DEF BackgroundInv
    <3>. QED  BY <1>8, <3>1, <3>2
  <2>. QED  BY <1>2, <1>5, <1>13, <2>1, <2>2, <2>3 DEF BackgroundInv, versions
<1>. QED  BY <1>2, <1>16, <1>17, <1>19, <1>20, <1>23, <1>27, <1>28 DEF DBInv, OpenInv

\* What DeleteObsoleteFiles leaves.
LEMMA FilesDeleted ==
  ASSUME FilesTyped, NEW held, NEW written, written \in [DOMAIN manifests -> ManifestFile],
         DeleteObsoleteFiles(held, written)
  PROVE  /\ DOMAIN tables' \subseteq DOMAIN tables /\ \A n \in DOMAIN tables' : tables'[n] = tables[n]
         /\ tables' \in [DOMAIN tables' -> SUBSET Entry]
         /\ \A n \in DOMAIN tables : bgError \/ n \in Live(version', held, pending') => n \in DOMAIN tables'
         /\ ~bgError => DOMAIN tables' = DOMAIN tables \cap Live(version', held, pending')
         /\ DOMAIN logs' \subseteq DOMAIN logs /\ \A n \in DOMAIN logs' : logs'[n] = logs[n]
         /\ logs' \in [DOMAIN logs' -> LogFile]
         /\ \A n \in DOMAIN logs : n >= logNumber' => n \in DOMAIN logs'
         /\ ~bgError => \A n \in DOMAIN logs' : n >= logNumber'
         /\ DOMAIN manifests' \subseteq DOMAIN manifests
         /\ \A n \in DOMAIN manifests' : manifests'[n] = written[n]
         /\ manifests' \in [DOMAIN manifests' -> ManifestFile]
         /\ manifestNumber \in DOMAIN manifests => manifestNumber \in DOMAIN manifests'
<1>1. /\ tables \in [DOMAIN tables -> SUBSET Entry] /\ logs \in [DOMAIN logs -> LogFile]
      /\ DOMAIN written = DOMAIN manifests /\ DOMAIN manifests \subseteq Nat
  BY DEF FilesTyped
<1>2. CASE bgError
  BY <1>1, <1>2 DEF DeleteObsoleteFiles
<1>3. CASE ~bgError
  <2>1. PICK T, L, M :
          /\ T = DOMAIN tables \cap Live(version', held, pending')
          /\ L = {n \in DOMAIN logs : n >= logNumber'}
          /\ M = {n \in DOMAIN manifests : n >= manifestNumber}
    OBVIOUS
  <2>2. /\ tables' = [n \in T |-> tables[n]] /\ logs' = [n \in L |-> logs[n]]
        /\ manifests' = [n \in M |-> written[n]]
    BY <1>3, <2>1 DEF DeleteObsoleteFiles, Restrict, KeepsManifest
  <2>3. T \subseteq DOMAIN tables /\ L \subseteq DOMAIN logs /\ M \subseteq DOMAIN manifests
    BY <2>1
  <2>4. DOMAIN tables' = T /\ DOMAIN logs' = L /\ DOMAIN manifests' = M
    BY <2>2
  <2>5. /\ tables' \in [T -> SUBSET Entry] /\ logs' \in [L -> LogFile] /\ manifests' \in [M -> ManifestFile]
    BY <1>1, <2>2, <2>3
  <2>6. \A n \in DOMAIN tables : n \in Live(version', held, pending') => n \in T
    BY <2>1
  <2>7. manifestNumber \in DOMAIN manifests => manifestNumber \in M
    BY <1>1, <2>1
  <2>8. \A n \in DOMAIN logs : n \in L <=> n >= logNumber'
    BY <2>1
  <2>. QED  BY <1>3, <2>1, <2>2, <2>3, <2>4, <2>5, <2>6, <2>7, <2>8
<1>. QED  BY <1>2, <1>3

\* The new version holds what the current one and the immutable memtable held, the MANIFEST
\* can only be found to say so, and what is deleted nobody needs.
LEMMA InstallStep ==
  ASSUME DBInv, state = "open", NEW e \in edit, NewVersion(e), NEW held, readers \subseteq held,
         DeleteObsoleteFiles(held, SyncManifest(manifests)), UNCHANGED told,
         imm' = IF e.by = "flush" THEN {} ELSE imm
  PROVE  /\ FilesTyped' /\ ManifestInv' /\ StoredInv' /\ QueueInv' /\ FilesInv'
         /\ version' \in TableVersion /\ logNumber' \in Nat
         /\ Files(version') \subseteq DOMAIN tables'
         /\ EntriesAt(tables', version') \cup imm' = EntriesAt(tables, version) \cup imm
         /\ ~bgError => Says(current)'.version = version'
         /\ \A F : F \subseteq DOMAIN tables' => EntriesOf(tables', F) = EntriesOf(tables, F)
         /\ \A n \in DOMAIN tables : n \in Live(version', held, pending') => n \in DOMAIN tables'
<1>1. /\ OpenInv /\ FilesInv /\ BackgroundInv /\ FilesTyped /\ ManifestInv /\ EditInv(e) /\ e \in VersionEdit
      /\ current = manifestNumber /\ e.step = "sync" /\ edit = {e} /\ version \in TableVersion
      /\ {logNumber, logfile, nextFile, lastSequence} \subseteq Nat
      /\ logNumber <= logfile /\ logfile \in DOMAIN logs
  <2>1. OpenInv /\ FilesTyped /\ ManifestInv /\ MemoryTyped
    BY DEF DBInv
  <2>2. FilesInv /\ BackgroundInv /\ EditInv(e)
    BY <2>1 DEF OpenInv, BackgroundInv
  <2>. QED  BY <2>1, <2>2 DEF NewVersion, MemoryTyped, FilesInv
<1>2. /\ version' = Apply(version, e) /\ logNumber' = e.log /\ edit' = {} /\ state' = "open"
      /\ UNCHANGED <<current, nextFile, lastSequence, manifestNumber, logfile, mem, queue>>
      /\ UNCHANGED <<group, bgError, readers>>
  BY DEF NewVersion
<1>3. PICK s : s = Says(current)
  OBVIOUS
<1>4. /\ s \in MayFind /\ s \in ManifestRecord /\ s.version \in TableVersion /\ s.log = e.log
      /\ ~bgError => s.version = version'
  <2>1. \A x \in edit : x.step = "sync" => (~bgError => Says(current).version = Apply(version, x))
    BY <1>1 DEF BackgroundInv
  <2>2. ~bgError => s.version = version'
    BY <1>1, <1>2, <1>3, <2>1
  <2>. QED  BY <1>1, <1>3, <2>2, LastRecord DEF EditInv, ManifestRecord
<1>5. PICK m, f, n : m = manifests[current] /\ f = Synced(m) /\ n = Len(m.data)
  OBVIOUS
<1>6. /\ m \in ManifestFile /\ n \in Nat \ {0} /\ m.data[n] = s /\ n \in m.synced .. n
      /\ m.data \in Seq(ManifestRecord)
  BY <1>1, <1>3, <1>5, LastRecord DEF FilesTyped, Says, ManifestFile
<1>7. f.data = m.data /\ f.synced = n /\ f \in ManifestFile
  BY <1>5, <1>6 DEF Synced, ManifestFile
<1>8. PICK written : written = SyncManifest(manifests)
  OBVIOUS
<1>9. /\ written \in [DOMAIN manifests -> ManifestFile] /\ written[current] = f
      /\ \A k \in DOMAIN manifests : k # current => written[k] = manifests[k]
  BY <1>1, <1>5, <1>7, <1>8 DEF SyncManifest, FilesTyped
<1>10. /\ DOMAIN tables' \subseteq DOMAIN tables /\ \A k \in DOMAIN tables' : tables'[k] = tables[k]
       /\ tables' \in [DOMAIN tables' -> SUBSET Entry]
       /\ \A k \in DOMAIN tables : bgError \/ k \in Live(version', held, pending') => k \in DOMAIN tables'
       /\ DOMAIN logs' \subseteq DOMAIN logs /\ \A k \in DOMAIN logs' : logs'[k] = logs[k]
       /\ logs' \in [DOMAIN logs' -> LogFile]
       /\ \A k \in DOMAIN logs : k >= logNumber' => k \in DOMAIN logs'
       /\ DOMAIN manifests' \subseteq DOMAIN manifests
       /\ \A k \in DOMAIN manifests' : manifests'[k] = written[k]
       /\ manifests' \in [DOMAIN manifests' -> ManifestFile]
       /\ current \in DOMAIN manifests'
  <2>1. DeleteObsoleteFiles(held, written)
    BY <1>8
  <2>2. current \in DOMAIN manifests
    BY <1>1 DEF FilesTyped
  <2>. QED  BY <1>1, <1>9, <2>1, <2>2, FilesDeleted
<1>11. ASSUME NEW F, F \subseteq DOMAIN tables' PROVE EntriesOf(tables', F) = EntriesOf(tables, F)
  BY <1>10, <1>11, EntriesOfSame
<1>12. MayFind' = {s} /\ Says(current)' = s
  <2>1. manifests'[current] = f
    BY <1>9, <1>10
  <2>2. MayFind' = {f.data[i] : i \in n .. n}
    BY <1>2, <1>5, <1>7, <2>1 DEF MayFind, MayBeRead
  <2>. QED  BY <1>2, <1>5, <1>6, <1>7, <2>1, <2>2 DEF Says
<1>13. FilesTyped'
  <2>1. \A k \in DOMAIN manifests' : manifests'[k].synced <= Len(manifests'[k].data)
    <3>1. f.synced <= Len(f.data)
      BY <1>5, <1>6, <1>7
    <3>. QED  BY <1>1, <1>9, <1>10, <3>1 DEF FilesTyped
  <2>2. \A k \in DOMAIN logs' : logs'[k].synced <= Len(logs'[k].data)
    BY <1>1, <1>10 DEF FilesTyped
  <2>3. DOMAIN tables' \subseteq Nat /\ DOMAIN logs' \subseteq Nat /\ DOMAIN manifests' \subseteq Nat
    BY <1>1, <1>10 DEF FilesTyped
  <2>. QED  BY <1>2, <1>10, <2>1, <2>2, <2>3 DEF FilesTyped
<1>14. /\ Files(version') \subseteq DOMAIN tables /\ Files(s.version) \subseteq DOMAIN tables
       /\ EntriesAt(tables, version') \cup imm' = EntriesAt(tables, version) \cup imm
       /\ EntriesAt(tables, version') \subseteq EntriesAt(tables, s.version)
       /\ EntriesAt(tables, s.version) \subseteq EntriesAt(tables, version') \cup imm'
       /\ e.log \in {logNumber, logfile} /\ (e.by = "flush" => e.log = logfile)
       /\ e.by # "flush" => e.log = logNumber
  <2>1. /\ Files(version) \subseteq DOMAIN tables /\ Files(s.version) \subseteq DOMAIN tables
        /\ EntriesAt(tables, version) \subseteq EntriesAt(tables, s.version)
        /\ EntriesAt(tables, s.version) \subseteq EntriesAt(tables, version) \cup imm
    BY <1>1, <1>4 DEF FilesInv, ManifestInv, Readable
  <2>2. /\ Files(version') \subseteq DOMAIN tables
        /\ e.by = "flush" => EntriesAt(tables, version') = EntriesAt(tables, version) \cup imm
        /\ e.by = "compaction" => EntriesAt(tables, version') = EntriesAt(tables, version)
        /\ e.by \in {"flush", "compaction"}
    BY <1>1, <1>2, <2>1, EditEntries
  <2>3. e.by = "flush" => imm \subseteq EntriesAt(tables, s.version)
    <3>1. e.by = "flush" => imm = EntriesOf(tables, e.add0)
      BY <1>1 DEF EditInv
    <3>2. e.add0 \subseteq Files(s.version)
      BY <1>1, <1>3 DEF EditInv
    <3>. QED  BY <3>1, <3>2, EntriesOfMonotone DEF EntriesAt
  <2>4. (e.by = "flush" => e.log = logfile) /\ (e.by = "compaction" => e.log = logNumber)
    BY <1>1 DEF EditInv
  <2>. QED  BY <2>1, <2>2, <2>3, <2>4
<1>15. /\ Files(version') \subseteq DOMAIN tables' /\ Files(s.version) \subseteq DOMAIN tables'
       /\ UNION readers \subseteq DOMAIN tables'
  <2>1. Files(version') \cup UNION held \subseteq Live(version', held, pending')
    BY DEF Live
  <2>2. UNION readers \subseteq UNION held /\ UNION readers \subseteq DOMAIN tables
    BY <1>1 DEF FilesInv
  <2>. QED  BY <1>4, <1>10, <1>14, <2>1, <2>2
<1>16. /\ EntriesAt(tables', version') = EntriesAt(tables, version')
       /\ EntriesAt(tables', s.version) = EntriesAt(tables, s.version)
  BY <1>11, <1>15 DEF EntriesAt
<1>17. /\ logfile \in DOMAIN logs' /\ logs'[logfile] = logs[logfile]
       /\ LogsFrom(logs', e.log) = LogsFrom(logs, e.log)
       /\ \A k \in LogsFrom(logs, e.log) : logs'[k] = logs[k]
       /\ \A k \in DOMAIN logs : k \in Nat /\ k <= logfile
  <2>1. \A k \in DOMAIN logs : k \in Nat /\ k <= logfile
    BY <1>1 DEF FilesInv, FilesTyped
  <2>2. logfile >= e.log
    BY <1>1, <1>14
  <2>3. LogsFrom(logs', e.log) = LogsFrom(logs, e.log)
    BY <1>2, <1>10 DEF LogsFrom
  <2>4. \A k \in LogsFrom(logs, e.log) : k \in DOMAIN logs'
    BY <1>2, <1>10 DEF LogsFrom
  <2>. QED  BY <1>1, <1>2, <1>10, <2>1, <2>2, <2>3, <2>4
<1>18. ManifestInv'
  <2>1. Readable(tables', logs', s) /\ current < s.next
    BY <1>1, <1>4, <1>15, <1>16 DEF ManifestInv, Readable
  <2>2. SyncedIn(logs', LogsFrom(logs', s.log)) = SyncedIn(logs, LogsFrom(logs, s.log))
    BY <1>4, <1>17, SyncedInSame
  <2>3. promised \subseteq Ids(Lasts(tables', logs', s))
    BY <1>1, <1>4, <1>16, <2>2 DEF ManifestInv, Lasts
  <2>4. \A k \in Files(s.version) : k < s.next
    BY <1>1, <1>5, <1>6 DEF ManifestInv
  <2>5. ASSUME NEW i \in f.synced .. Len(f.data) PROVE f.data[i] = s
    <3>1. i = n
      BY <1>5, <1>6, <1>7
    <3>. QED  BY <1>6, <1>7, <3>1
  <2>6. manifests'[current'] = f
    BY <1>2, <1>9, <1>10
  <2>. QED  BY <1>2, <1>12, <2>1, <2>3, <2>4, <2>5, <2>6 DEF ManifestInv, told
<1>19. Stored' = Stored
  BY <1>2, <1>14, <1>16, <1>17 DEF Stored
<1>20. StoredInv'
  <2>1. (mem \cup imm \cup EntriesAt(tables, version))' = mem \cup imm \cup EntriesAt(tables, version)
    BY <1>2, <1>14, <1>16
  <2>. QED  BY <1>2, <1>19, <2>1 DEF DBInv, StoredInv, told
<1>21. QueueInv'
  <2>1. (mem \cup imm \cup EntriesAt(tables, version))' = mem \cup imm \cup EntriesAt(tables, version)
    BY <1>2, <1>14, <1>16
  <2>2. GroupInv' /\ InFlight' = InFlight /\ \A x : Settled(x)' <=> Settled(x)
    BY <1>1, <1>2 DEF OpenInv, QueueInv, GroupInv, InFlight, Settled
  <2>3. logs'[logfile'] = logs[logfile]
    BY <1>2, <1>17
  <2>. QED  BY <1>1, <1>2, <2>1, <2>2, <2>3 DEF OpenInv, QueueInv, told
<1>22. FilesInv'
  <2>1. imm' = EntriesIn(logs', LogsFrom(logs', e.log) \ {logfile})
    <3>1. EntriesIn(logs', LogsFrom(logs', e.log) \ {logfile}) = EntriesIn(logs, LogsFrom(logs, e.log) \ {logfile})
      BY <1>17, EntriesInSame
    <3>2. CASE e.by = "flush"
      <4>1. LogsFrom(logs, e.log) \ {logfile} = {}
        BY <1>1, <1>14, <1>17, <3>2 DEF LogsFrom
      <4>. QED  BY <3>1, <3>2, <4>1, EntriesInOne
    <3>3. CASE e.by # "flush"
      BY <1>1, <1>14, <3>1, <3>3 DEF FilesInv
    <3>. QED  BY <3>2, <3>3
  <2>2. imm' = {} => e.log = logfile
    BY <1>1, <1>14 DEF FilesInv
  <2>3. \A k \in DOMAIN tables' : k < nextFile
    BY <1>1, <1>10 DEF FilesInv
  <2>4. logfile < nextFile /\ current < nextFile /\ e.log <= logfile /\ \A k \in DOMAIN logs' : k <= logfile
    BY <1>1, <1>10, <1>14, <1>17 DEF FilesInv
  <2>. QED  BY <1>1, <1>2, <1>4, <1>12, <1>14, <1>15, <1>16, <1>17, <2>1, <2>2, <2>3, <2>4 DEF FilesInv
<1>23. version' \in TableVersion /\ logNumber' \in Nat
  BY <1>1, <1>2, EditRecord DEF VersionEdit
<1>. QED  BY <1>4, <1>10, <1>11, <1>12, <1>13, <1>14, <1>15, <1>16, <1>18, <1>20, <1>21, <1>22, <1>23

LEMMA InstallFlushStep ==
  ASSUME DBInv, InstallFlush
  PROVE  DBInv'
<1>1. PICK e \in edit : e.by = "flush" /\ NewVersion(e)
  BY DEF InstallFlush
<1>2. PICK held : held = readers \cup {c.base : c \in compaction}
  OBVIOUS
<1>3. /\ OpenInv /\ state = "open" /\ imm' = {} /\ edit' = {} /\ version' = Apply(version, e)
      /\ EditInv(e) /\ \A c \in compaction : CompactionInv(c)
      /\ DeleteObsoleteFiles(held, SyncManifest(manifests))
      /\ UNCHANGED <<current, nextFile, lastSequence, manifestNumber, state, logfile, mem, queue>>
      /\ UNCHANGED <<group, bgError, readers, toReplay, told, compaction, pending>>
  <2>1. OpenInv /\ state = "open"
    BY DEF DBInv, InstallFlush, Open
  <2>. QED  BY <1>1, <1>2, <2>1 DEF InstallFlush, NewVersion, OpenInv, BackgroundInv, told
<1>4. /\ FilesTyped' /\ ManifestInv' /\ StoredInv' /\ QueueInv' /\ FilesInv'
      /\ version' \in TableVersion /\ logNumber' \in Nat
      /\ ~bgError => Says(current)'.version = version'
      /\ \A F : F \subseteq DOMAIN tables' => EntriesOf(tables', F) = EntriesOf(tables, F)
      /\ \A n \in DOMAIN tables : n \in Live(version', held, pending') => n \in DOMAIN tables'
  <2>1. readers \subseteq held
    BY <1>2
  <2>. QED  BY <1>1, <1>3, <2>1, InstallStep
<1>5. MemoryTyped'
  BY <1>3, <1>4 DEF DBInv, MemoryTyped, told
<1>6. BackgroundInv'
  <2>1. ASSUME NEW c \in compaction PROVE CompactionInv(c)'
    <3>1. CompactionInv(c)
      BY <1>3
    <3>2. c.base \subseteq Live(version', held, pending')
      BY <1>2 DEF Live
    <3>3. pending \subseteq Live(version', held, pending')
      <4>1. pending' = pending
        BY <1>3
      <4>. QED  BY <4>1 DEF Live
    <3>4. c.base \subseteq DOMAIN tables'
      BY <1>4, <3>1, <3>2 DEF CompactionInv
    <3>5. Files(version) \subseteq Files(version')
      BY <1>1, <1>3 DEF EditInv, Apply, Files
    <3>6. CASE c.step = "start"
      BY <1>3, <3>1, <3>4, <3>5, <3>6 DEF CompactionInv
    <3>7. CASE c.step # "start"
      <4>1. c.output \subseteq pending \cap DOMAIN tables'
        BY <1>4, <3>1, <3>3, <3>7 DEF CompactionInv
      <4>2. c.inputs \subseteq DOMAIN tables'
        BY <3>1, <3>4 DEF CompactionInv
      <4>3. EntriesOf(tables', c.output) = EntriesOf(tables', c.inputs)
        BY <1>4, <3>1, <3>7, <4>1, <4>2 DEF CompactionInv
      <4>. QED  BY <1>3, <3>1, <3>4, <3>5, <3>7, <4>1, <4>3 DEF CompactionInv
    <3>. QED  BY <3>6, <3>7
  <2>. QED  BY <1>3, <1>4, <2>1 DEF BackgroundInv
<1>. QED  BY <1>3, <1>4, <1>5, <1>6 DEF DBInv, OpenInv

LEMMA InstallCompactionStep ==
  ASSUME DBInv, InstallCompaction
  PROVE  DBInv'
<1>1. PICK e \in edit : e.by = "compaction" /\ NewVersion(e)
  BY DEF InstallCompaction
<1>2. /\ OpenInv /\ state = "open" /\ imm' = imm /\ edit' = {} /\ compaction' = {}
      /\ DeleteObsoleteFiles(readers, SyncManifest(manifests)) /\ pending' \subseteq pending
      /\ UNCHANGED <<current, nextFile, lastSequence, manifestNumber, state, logfile, mem, queue>>
      /\ UNCHANGED <<group, bgError, readers, toReplay, told>>
  <2>1. OpenInv /\ state = "open"
    BY DEF DBInv, InstallCompaction, Open
  <2>. QED  BY <1>1, <2>1 DEF InstallCompaction, NewVersion, told
<1>3. /\ FilesTyped' /\ ManifestInv' /\ StoredInv' /\ QueueInv' /\ FilesInv'
      /\ version' \in TableVersion /\ logNumber' \in Nat
      /\ ~bgError => Says(current)'.version = version'
  <2>1. imm' = IF e.by = "flush" THEN {} ELSE imm
    BY <1>1, <1>2
  <2>. QED  BY <1>1, <1>2, <2>1, InstallStep
<1>4. MemoryTyped'
  BY <1>2, <1>3 DEF DBInv, MemoryTyped, told
<1>5. BackgroundInv'
  BY <1>2, <1>3 DEF BackgroundInv
<1>. QED  BY <1>2, <1>3, <1>4, <1>5 DEF DBInv, OpenInv

-----------------------------------------------------------------------------
(* Crashes.                                                                 *)

LEMMA RecoverableStored ==
  ASSUME DBInv
  PROVE  /\ Recoverable = Ids(Recovers(tables, logs, Says(current)))
         /\ \A r \in MayFind : Recovers(tables, logs, r) = Stored
         /\ Says(current) \in MayFind
<1>1. Says(current) \in MayFind
  BY LastRecord DEF DBInv
<1>2. Files(Says(current).version) \subseteq DOMAIN tables
  BY <1>1 DEF DBInv, ManifestInv, Readable
<1>3. Files(Says(current).version) \cap DOMAIN tables = Files(Says(current).version)
  BY <1>2
<1>4. Recoverable = Ids(Recovers(tables, logs, Says(current)))
  BY <1>3, IdsUnion DEF Recoverable, Recovers, EntriesAt, EntriesOf, EntriesIn, LogsFrom
<1>5. \A r \in MayFind : Recovers(tables, logs, r) = Stored
  BY OpenStored DEF DBInv, RecoveryInv
<1>. QED  BY <1>1, <1>4, <1>5

LEMMA NothingTyped ==
  ASSUME NothingInMemory, writes' \in 0 .. MaxWrites
  PROVE  MemoryTyped'
<1>1. NoTables \in TableVersion /\ NoGroup \in WriteGroup /\ <<>> \in Seq(Writer)
  BY DEF NoTables, TableVersion, NoGroup, WriteGroup
<1>2. /\ {nextFile', lastSequence', logNumber', manifestNumber', logfile'} \subseteq Nat
      /\ state' = "down" /\ version' \in TableVersion /\ queue' \in Seq(Writer) /\ group' \in WriteGroup
  BY <1>1 DEF NothingInMemory
<1>3. /\ mem' = {} /\ imm' = {} /\ edit' = {} /\ compaction' = {} /\ pending' = {}
      /\ readers' = {} /\ toReplay' = {} /\ bgError' = FALSE
  BY DEF NothingInMemory
<1>. QED  BY <1>2, <1>3 DEF MemoryTyped

LEMMA AckedStored ==
  ASSUME DBInv
  PROVE  acked \subseteq Ids(Stored)
<1>1. CASE state = "open"
  <2>1. mem \cup imm \cup EntriesAt(tables, version) \subseteq Stored
    BY <1>1, OpenStored
  <2>. QED  BY <1>1, <2>1, IdsMonotone DEF DBInv, StoredInv
<1>. QED  BY <1>1 DEF DBInv, StoredInv

LEMMA KillStep ==
  ASSUME DBInv, Kill
  PROVE  DBInv'
<1>1. /\ FilesTyped /\ ManifestInv /\ StoredInv
      /\ UNCHANGED <<disk, writes, promised, acked>> /\ NothingInMemory /\ asked' = Recoverable
  BY DEF DBInv, Kill, Crash
<1>2. FilesTyped' /\ ManifestInv'
  BY <1>1, FilesTypedFrame, ManifestFrame
<1>3. MemoryTyped'
  BY <1>1, NothingTyped DEF DBInv, MemoryTyped
<1>4. /\ MayFind' = MayFind /\ \A r \in MayFind : Recovers(tables, logs, r) = Stored
      /\ Stored' = Recovers(tables, logs, Says(current)) /\ Says(current) \in MayFind
      /\ Stored' = Stored /\ asked' = Ids(Stored)
  <2>1. MayFind' = MayFind
    BY <1>1 DEF disk, MayFind
  <2>2. Stored' = Recovers(tables, logs, Says(current))
    BY <1>1 DEF disk, Stored, NothingInMemory, Says
  <2>. QED  BY <1>1, <2>1, <2>2, RecoverableStored
<1>5. StoredInv'
  <2>2. state' # "open"
    BY <1>1 DEF NothingInMemory
  <2>. QED  BY <1>1, <1>4, <2>2, AckedStored DEF StoredInv
<1>6. RecoveryInv'
  BY <1>1, <1>4 DEF RecoveryInv, NothingInMemory, disk
<1>. QED  BY <1>1, <1>2, <1>3, <1>5, <1>6 DEF DBInv, NothingInMemory

\* What is left of a file is between its synced part and the whole.
LEMMA TruncatedFile ==
  ASSUME NEW fs, NEW gs \in Truncated(fs), NEW n \in DOMAIN fs
  PROVE  \E k \in Int : /\ fs[n].synced <= k /\ k <= Len(fs[n].data)
                        /\ gs[n] = [data |-> SubSeq(fs[n].data, 1, k), synced |-> k]
<1>1. PICK K : K = Max({0} \cup {Len(fs[m].data) : m \in DOMAIN fs})
  OBVIOUS
<1>2. PICK k \in [DOMAIN fs -> 0 .. K] :
        /\ \A m \in DOMAIN fs : fs[m].synced <= k[m] /\ k[m] <= Len(fs[m].data)
        /\ gs = [m \in DOMAIN fs |-> File(SubSeq(fs[m].data, 1, k[m]), k[m])]
  BY <1>1 DEF Truncated
<1>3. k[n] \in Int
  BY <1>2
<1>4. gs[n] = [data |-> SubSeq(fs[n].data, 1, k[n]), synced |-> k[n]]
  BY <1>2 DEF File
<1>5. fs[n].synced <= k[n] /\ k[n] <= Len(fs[n].data)
  BY <1>2
<1>. QED  BY <1>3, <1>4, <1>5

LEMMA Shortened ==
  ASSUME NEW S, NEW d \in Seq(S), NEW k \in Int, 0 <= k, k <= Len(d)
  PROVE  /\ SubSeq(d, 1, k) \in Seq(S) /\ Len(SubSeq(d, 1, k)) = k
         /\ DOMAIN SubSeq(d, 1, k) = 1 .. k
         /\ \A i \in 1 .. k : i \in DOMAIN d /\ SubSeq(d, 1, k)[i] = d[i]
OBVIOUS

LEMMA PowerLossStep ==
  ASSUME DBInv, PowerLoss
  PROVE  DBInv' /\ asked' \subseteq asked
<1>1. /\ FilesTyped /\ ManifestInv /\ StoredInv
      /\ logs' \in Truncated(logs) /\ manifests' \in Truncated(manifests)
      /\ UNCHANGED <<tables, current, writes, promised>> /\ NothingInMemory /\ state' = "down"
      /\ asked' = Recoverable' /\ acked' = acked \cap asked'
  BY DEF DBInv, PowerLoss, Crash, NothingInMemory
<1>2. MemoryTyped'
  BY <1>1, NothingTyped DEF DBInv, MemoryTyped
<1>3. ASSUME NEW n \in DOMAIN logs
      PROVE  /\ logs'[n] \in LogFile /\ logs'[n].synced <= Len(logs'[n].data)
             /\ Entries(logs'[n]) \subseteq Entries(logs[n])
             /\ SyncedEntries(logs'[n]) = Entries(logs'[n])
             /\ SyncedEntries(logs[n]) \subseteq SyncedEntries(logs'[n])
  <2>1. logs[n].data \in Seq(SUBSET Entry) /\ logs[n].synced \in Nat
    BY <1>1 DEF FilesTyped, LogFile
  <2>3. PICK k \in Int :
          /\ logs[n].synced <= k /\ k <= Len(logs[n].data)
          /\ logs'[n] = [data |-> SubSeq(logs[n].data, 1, k), synced |-> k]
    BY <1>1, TruncatedFile
  <2>4. k \in Nat /\ logs[n].synced <= k
    BY <2>1, <2>3
  <2>5. PICK q : /\ q = SubSeq(logs[n].data, 1, k) /\ q \in Seq(SUBSET Entry) /\ Len(q) = k
                 /\ DOMAIN q = 1 .. k /\ \A i \in 1 .. k : i \in DOMAIN logs[n].data /\ q[i] = logs[n].data[i]
    BY <2>1, <2>3, <2>4, Shortened
  <2>6. logs'[n] \in LogFile /\ logs'[n].data = q /\ logs'[n].synced = k
    <3>1. logs'[n] = [data |-> q, synced |-> k]
      BY <2>3, <2>5
    <3>. QED  BY <2>4, <2>5, <3>1 DEF LogFile
  <2>7. Entries(logs'[n]) \subseteq Entries(logs[n])
    BY <2>5, <2>6 DEF Entries, Range
  <2>8. SyncedEntries(logs'[n]) = Entries(logs'[n])
    BY <2>5, <2>6 DEF Entries, Range, SyncedEntries
  <2>9. SyncedEntries(logs[n]) \subseteq SyncedEntries(logs'[n])
    <3>1. \A i \in 1 .. logs[n].synced : i \in 1 .. k
      BY <2>1, <2>4
    <3>. QED  BY <2>5, <2>6, <3>1 DEF SyncedEntries
  <2>10. logs'[n].synced <= Len(logs'[n].data)
    BY <2>4, <2>5, <2>6
  <2>. QED  BY <2>6, <2>7, <2>8, <2>9, <2>10
<1>4. DOMAIN logs' = DOMAIN logs /\ logs' = [m \in DOMAIN logs |-> logs'[m]]
  BY <1>1 DEF Truncated
<1>5. ASSUME NEW n \in DOMAIN manifests
      PROVE  /\ manifests'[n] \in ManifestFile /\ manifests'[n].synced <= Len(manifests'[n].data)
             /\ \E k \in manifests[n].synced .. Len(manifests[n].data) :
                  /\ Len(manifests'[n].data) = k /\ manifests'[n].synced = k /\ k \in Nat
                  /\ manifests'[n].data[k] = manifests[n].data[k]
  <2>1. manifests[n].data \in Seq(ManifestRecord) /\ manifests[n].synced \in Nat \ {0}
    BY <1>1 DEF FilesTyped, ManifestFile
  <2>2. PICK k \in Int :
          /\ manifests[n].synced <= k /\ k <= Len(manifests[n].data)
          /\ manifests'[n] = [data |-> SubSeq(manifests[n].data, 1, k), synced |-> k]
    BY <1>1, TruncatedFile
  <2>3. k \in Nat \ {0} /\ k \in 1 .. k /\ 0 <= k /\ k \in manifests[n].synced .. Len(manifests[n].data)
    BY <2>1, <2>2
  <2>4. PICK q : /\ q = SubSeq(manifests[n].data, 1, k) /\ q \in Seq(ManifestRecord) /\ Len(q) = k
                 /\ \A i \in 1 .. k : i \in DOMAIN manifests[n].data /\ q[i] = manifests[n].data[i]
    <3>1. PICK d : d = manifests[n].data
      OBVIOUS
    <3>2. d \in Seq(ManifestRecord) /\ 0 <= k /\ k <= Len(d) /\ k \in Int
      BY <2>1, <2>2, <2>3, <3>1
    <3>3. /\ SubSeq(d, 1, k) \in Seq(ManifestRecord) /\ Len(SubSeq(d, 1, k)) = k
          /\ \A i \in 1 .. k : i \in DOMAIN d /\ SubSeq(d, 1, k)[i] = d[i]
      BY <3>2, Shortened
    <3>. QED  BY <3>1, <3>3
  <2>5. manifests'[n] \in ManifestFile /\ manifests'[n].data = q /\ manifests'[n].synced = k
    <3>1. manifests'[n] = [data |-> q, synced |-> k]
      BY <2>2, <2>4
    <3>. QED  BY <2>3, <2>4, <3>1 DEF ManifestFile
  <2>. QED  BY <2>3, <2>4, <2>5
<1>6. DOMAIN manifests' = DOMAIN manifests /\ manifests' = [m \in DOMAIN manifests |-> manifests'[m]]
  BY <1>1 DEF Truncated
<1>7. FilesTyped'
  BY <1>1, <1>3, <1>4, <1>5, <1>6 DEF FilesTyped
<1>8. PICK k \in manifests[current].synced .. Len(manifests[current].data) :
        /\ Len(manifests'[current].data) = k /\ manifests'[current].synced = k /\ k \in Nat
        /\ manifests'[current].data[k] = manifests[current].data[k]
  BY <1>1, <1>5 DEF FilesTyped
<1>9. PICK r : r = manifests[current].data[k]
  OBVIOUS
<1>10. MayFind' = {r} /\ Says(current)' = r /\ r \in MayFind /\ r \in ManifestRecord
  <2>1. r \in MayFind
    BY <1>9 DEF MayFind, MayBeRead
  <2>2. MayFind' = {manifests'[current].data[i] : i \in k .. k}
    BY <1>1, <1>8 DEF MayFind, MayBeRead
  <2>3. k .. k = {k}
    BY <1>8
  <2>. QED  BY <1>1, <1>8, <1>9, <2>1, <2>2, <2>3, LastRecord DEF Says
<1>11. /\ Recovers(tables, logs, r) = Stored /\ Stored' = Recovers(tables, logs', r)
       /\ Files(r.version) \subseteq DOMAIN tables
       /\ LogsFrom(logs', r.log) = LogsFrom(logs, r.log)
  BY <1>1, <1>4, <1>10, RecoverableStored DEF Stored, ManifestInv, Readable, LogsFrom
<1>12. Stored' \subseteq Stored
  BY <1>3, <1>11 DEF Recovers, EntriesIn, LogsFrom
<1>13. Lasts(tables, logs, r) \subseteq Lasts(tables, logs', r)
  BY <1>3, <1>11 DEF Lasts, SyncedIn, LogsFrom
<1>14. Lasts(tables, logs', r) \subseteq Stored'
  BY <1>3, <1>11 DEF Lasts, SyncedIn, LogsFrom, Recovers, EntriesIn
<1>15. asked' = Ids(Stored')
  <2>1. Files(r.version) \cap DOMAIN tables = Files(r.version)
    BY <1>11
  <2>. QED  BY <1>1, <1>10, <1>11, <2>1, IdsUnion
            DEF Recoverable, Recovers, EntriesAt, EntriesOf, EntriesIn, LogsFrom
<1>16. promised \subseteq Ids(Lasts(tables, logs', r))
  BY <1>1, <1>10, <1>13, IdsMonotone DEF ManifestInv
<1>17. ManifestInv'
  <2>1. Readable(tables, logs', r) /\ current < r.next
    BY <1>1, <1>10 DEF ManifestInv, Readable
  <2>2. \A n \in Files(r.version) : n < r.next
    <3>1. manifests[current].data \in Seq(ManifestRecord) /\ manifests[current].synced \in Nat
      BY <1>1 DEF FilesTyped, ManifestFile
    <3>. QED  BY <1>1, <1>8, <1>9, <3>1 DEF ManifestInv
  <2>3. \A i \in manifests'[current].synced .. Len(manifests'[current].data) : manifests'[current].data[i] = r
    <3>1. k .. k = {k}
      BY <1>8
    <3>. QED  BY <1>8, <1>9, <3>1
  <2>. QED  BY <1>1, <1>10, <1>16, <2>1, <2>2, <2>3 DEF ManifestInv
<1>18. StoredInv'
  <2>1. IsFiniteSet(Stored')
    BY <1>1, <1>12, FS_Subset DEF StoredInv
  <2>2. Ids(Stored') \subseteq Ids(Stored) /\ promised \subseteq asked'
    BY <1>12, <1>14, <1>15, <1>16, IdsMonotone
  <2>. QED  BY <1>1, <1>12, <1>15, <2>1, <2>2 DEF StoredInv
<1>19. RecoveryInv'
  BY <1>1, <1>10, <1>11 DEF RecoveryInv, NothingInMemory
<1>20. asked' \subseteq asked
  BY <1>1, <1>12, <1>15, IdsMonotone DEF StoredInv
<1>. QED  BY <1>1, <1>2, <1>7, <1>17, <1>18, <1>19, <1>20 DEF DBInv

-----------------------------------------------------------------------------
(* DB::Open.                                                                *)

LEMMA RecoverStep ==
  ASSUME DBInv, Recover
  PROVE  DBInv' /\ Stored' = Stored
<1>1. PICK r : r = Says(current)
  OBVIOUS
<1>2. /\ state = "down" /\ state' = "replay" /\ RecoveryInv /\ FilesTyped /\ ManifestInv /\ MemoryTyped
      /\ version' = r.version /\ logNumber' = r.log /\ lastSequence' = r.last
      /\ manifestNumber' = r.next /\ nextFile' = r.next + 1
      /\ toReplay' = LogsFrom(logs, r.log)
      /\ UNCHANGED <<disk, memory, queue, group, compaction, pending, bgError, readers, told>>
  BY <1>1 DEF DBInv, Recover, LogsFrom, writing
<1>3. PICK e : e = Edit("open", {}, {}, {}, 0) /\ edit' = {e}
  BY DEF Recover
<1>4. /\ r \in MayFind /\ r \in ManifestRecord /\ \A x \in MayFind : Recovers(tables, logs, x) = Stored
      /\ r.next \in Nat /\ r.log \in Nat /\ r.last \in Nat /\ r.version \in TableVersion
  BY <1>1, <1>2, LastRecord, RecoverableStored DEF ManifestRecord
<1>5. /\ e.add0 = {} /\ e.add1 = {} /\ e.del = {}
      /\ e \in VersionEdit
  <2>1. lastSequence \in Nat /\ nextFile' \in Nat
    BY <1>2, <1>4 DEF MemoryTyped
  <2>. QED  BY <1>3, <2>1 DEF Edit, VersionEdit
<1>6. FilesTyped' /\ ManifestInv' /\ Stored' = Stored /\ MayFind' = MayFind
  BY <1>2, FilesTypedFrame, ManifestFrame DEF told, Stored, disk, Says, MayFind
<1>7. StoredInv'
  BY <1>2, <1>6 DEF DBInv, StoredInv, told
<1>8. MemoryTyped'
  <2>1. r.next + 1 \in Nat /\ LogsFrom(logs, r.log) \subseteq Nat
    BY <1>2, <1>4 DEF LogsFrom, FilesTyped
  <2>. QED  BY <1>2, <1>3, <1>4, <1>5, <2>1 DEF MemoryTyped, memory, told
<1>9. \A x \in MayFind : \A n \in Files(x.version) : n < r.next
  <2>1. PICK m, k : m = manifests[current] /\ k = Len(m.data)
    OBVIOUS
  <2>2. /\ k \in m.synced .. Len(m.data) /\ m.synced \in Nat /\ k \in Nat /\ m.data[k] = r
        /\ MayFind = {m.data[i] : i \in m.synced .. k}
    BY <1>1, <1>2, <2>1, LastRecord DEF FilesTyped, ManifestFile, Says, MayFind, MayBeRead
  <2>3. \A i \in m.synced .. k : i <= k
    BY <2>2
  <2>. QED  BY <1>2, <2>1, <2>2, <2>3 DEF ManifestInv
<1>10. /\ Files(r.version) \subseteq DOMAIN tables /\ r.log < r.next /\ current < r.next
       /\ \A x \in EntriesAt(tables, r.version) : x.seq <= r.last
  BY <1>2, <1>4 DEF ManifestInv, Readable
<1>11. /\ r.next < r.next + 1 /\ \A x \in MayFind : \A n \in Files(x.version) : n < r.next + 1
  <2>1. \A x \in MayFind : Files(x.version) \subseteq Nat
    BY <1>2 DEF ManifestInv, Readable, FilesTyped
  <2>. QED  BY <1>4, <1>9, <2>1
<1>12. /\ EntriesOf(tables, Files(r.version) \cup {}) = EntriesAt(tables, r.version)
       /\ EntriesAt(tables, r.version) \cup EntriesIn(logs, LogsFrom(logs, r.log)) = Stored
  BY <1>4 DEF Recovers, EntriesAt
<1>13. \A n \in DOMAIN logs : n \in LogsFrom(logs, r.log) \/ n < r.next + 1
  BY <1>2, <1>4, <1>10 DEF LogsFrom, FilesTyped
<1>14. RecoveryInv'
  <2>1. \A x \in MayFind' : Recovers(tables, logs, x)' = Stored'
    BY <1>2, <1>4, <1>6 DEF disk
  <2>2. LogsFrom(logs, r.log) \subseteq DOMAIN logs
    BY DEF LogsFrom
  <2>3. /\ e.del = {} /\ e.add1 = {} /\ e.add0 \subseteq DOMAIN tables
        /\ \A n \in e.add0 : n < nextFile'
        /\ EntriesOf(tables, Files(version') \cup e.add0) \cup EntriesIn(logs, toReplay') = Stored
        /\ \A x \in EntriesOf(tables, Files(version') \cup e.add0) : x.seq <= lastSequence'
    BY <1>2, <1>5, <1>10, <1>12
  <2>. QED  BY <1>2, <1>3, <1>4, <1>6, <1>10, <1>11, <1>13, <2>1, <2>2, <2>3 DEF RecoveryInv, disk, memory
<1>. QED  BY <1>2, <1>6, <1>7, <1>8, <1>14 DEF DBInv

LEMMA MarkedNumber ==
  ASSUME NEW next \in Nat, NEW n \in Nat
  PROVE  MarkFileNumberUsed(next, n) \in Nat /\ next <= MarkFileNumberUsed(next, n) /\ n < MarkFileNumberUsed(next, n)
<1>1. {next, n + 1} \subseteq Int /\ {next, n + 1} # {}
  OBVIOUS
<1>2. IsFiniteSet({next, n + 1})
  <2>1. IsFiniteSet({n + 1})
    BY FS_Singleton
  <2>2. IsFiniteSet({n + 1} \cup {next})
    BY <2>1, FS_AddElement
  <2>. QED  BY <2>2
<1>3. PICK x : x = Max({next, n + 1})
  OBVIOUS
<1>4. x \in {next, n + 1} /\ next <= x /\ n + 1 <= x
  BY <1>1, <1>2, <1>3, MaxOfFinite
<1>. QED  BY <1>3, <1>4 DEF MarkFileNumberUsed

LEMMA NewestSequence ==
  ASSUME NEW E, IsFiniteSet(E), E \subseteq Entry, lastSequence \in Nat
  PROVE  /\ RecoveredSequence(E) \in Nat /\ lastSequence <= RecoveredSequence(E)
         /\ \A e \in E : e.seq <= RecoveredSequence(E)
<1>1. PICK S : S = {lastSequence} \cup Seqs(E)
  OBVIOUS
<1>2. \A e \in E : e.seq \in Nat /\ e.seq \in S
  BY <1>1 DEF Entry, Seqs
<1>3. S \subseteq Nat /\ lastSequence \in S
  BY <1>1, <1>2 DEF Seqs
<1>4. IsFiniteSet(S)
  <2>1. PICK g : g = [e \in E |-> e.seq]
    OBVIOUS
  <2>2. g \in Surjection(E, Seqs(E))
    BY <2>1 DEF Surjection, Seqs
  <2>3. IsFiniteSet(Seqs(E))
    BY <2>2, FS_Surjection
  <2>4. IsFiniteSet(Seqs(E) \cup {lastSequence})
    BY <2>3, FS_AddElement
  <2>5. S = Seqs(E) \cup {lastSequence}
    BY <1>1
  <2>. QED  BY <2>4, <2>5
<1>5. Max(S) \in S /\ \A y \in S : y <= Max(S)
  <2>1. S \subseteq Int /\ S # {}
    BY <1>3
  <2>. QED  BY <1>4, <2>1, MaxOfFinite
<1>. QED  BY <1>1, <1>2, <1>3, <1>5 DEF RecoveredSequence

LEMMA RecoverLogFileStep ==
  ASSUME DBInv, RecoverLogFile
  PROVE  DBInv' /\ Stored' = Stored
<1>1. /\ state = "replay" /\ state' = "replay" /\ RecoveryInv /\ FilesTyped /\ ManifestInv /\ MemoryTyped
      /\ toReplay # {} /\ toReplay \subseteq Nat /\ nextFile \in Nat /\ lastSequence \in Nat
      /\ UNCHANGED <<logs, manifests, current, version, logNumber, manifestNumber, memory, queue>>
      /\ UNCHANGED <<group, compaction, pending, bgError, readers, told>>
  BY DEF DBInv, MemoryTyped, RecoverLogFile, writing
<1>2. PICK n : n = Min(toReplay)
  OBVIOUS
<1>3. n \in toReplay
  <2>1. \E x \in toReplay : \A y \in toReplay : x <= y
    BY <1>1, LeastNatural
  <2>. QED  BY <1>2, <2>1 DEF Min
<1>4. PICK E : E = Entries(logs[n])
  OBVIOUS
<1>5. /\ toReplay' = toReplay \ {n} /\ lastSequence' = RecoveredSequence(E)
      /\ \/ /\ E = {} /\ UNCHANGED <<tables, edit>> /\ nextFile' = MarkFileNumberUsed(nextFile, n)
         \/ /\ tables' = With(tables, nextFile, E)
            /\ edit' = {[x EXCEPT !.add0 = @ \cup {nextFile}] : x \in edit}
            /\ nextFile' = MarkFileNumberUsed(nextFile + 1, n)
  BY <1>2, <1>4 DEF RecoverLogFile
<1>6. PICK e \in edit :
        /\ e.del = {} /\ e.add1 = {} /\ e.add0 \subseteq DOMAIN tables
        /\ \A k \in e.add0 : k < nextFile
        /\ toReplay \subseteq DOMAIN logs
        /\ EntriesOf(tables, Files(version) \cup e.add0) \cup EntriesIn(logs, toReplay) = Stored
        /\ \A x \in EntriesOf(tables, Files(version) \cup e.add0) : x.seq <= lastSequence
  BY <1>1 DEF RecoveryInv
<1>7. edit = {e} /\ e \in VersionEdit
  BY <1>1, <1>6 DEF MemoryTyped
<1>8. /\ current < manifestNumber /\ manifestNumber < nextFile
      /\ \A r \in MayFind : \A k \in Files(r.version) : k < nextFile
      /\ Files(version) \subseteq DOMAIN tables /\ \A k \in Files(version) : k < nextFile
      /\ \A k \in DOMAIN logs : k \in toReplay \/ k < nextFile
      /\ \A r \in MayFind : Recovers(tables, logs, r) = Stored
      /\ \A r \in MayFind : Files(r.version) \subseteq DOMAIN tables
      /\ current \in Nat /\ manifestNumber \in Nat /\ DOMAIN logs \subseteq Nat /\ DOMAIN tables \subseteq Nat
  BY <1>1 DEF RecoveryInv, ManifestInv, Readable, MemoryTyped, FilesTyped
<1>9. EntriesIn(logs, toReplay) = EntriesIn(logs, toReplay') \cup E
  <2>1. toReplay = toReplay' \cup {n}
    BY <1>3, <1>5
  <2>2. EntriesIn(logs, toReplay' \cup {n}) = EntriesIn(logs, toReplay') \cup EntriesIn(logs, {n})
    BY EntriesInUnion
  <2>3. EntriesIn(logs, {n}) = E
    BY <1>4, EntriesInOne
  <2>. QED  BY <2>1, <2>2, <2>3
<1>10. E \subseteq Stored /\ E \subseteq Entry /\ IsFiniteSet(E) /\ n \in DOMAIN logs /\ n \in Nat
  <2>1. n \in DOMAIN logs /\ n \in Nat
    BY <1>1, <1>3, <1>6
  <2>2. E \subseteq Stored
    BY <1>6, <1>9
  <2>. QED  BY <1>1, <1>4, <2>1, <2>2, EntriesTyped, FS_Subset DEF DBInv, StoredInv
<1>11. nextFile' \in Nat /\ nextFile <= nextFile' /\ n < nextFile'
  <2>1. CASE nextFile' = MarkFileNumberUsed(nextFile, n)
    BY <1>1, <1>10, <2>1, MarkedNumber
  <2>2. CASE nextFile' = MarkFileNumberUsed(nextFile + 1, n)
    <3>1. nextFile + 1 \in Nat
      BY <1>1
    <3>2. nextFile' \in Nat /\ nextFile + 1 <= nextFile' /\ n < nextFile'
      BY <1>10, <2>2, <3>1, MarkedNumber
    <3>. QED  BY <1>1, <3>2
  <2>. QED  BY <1>5, <2>1, <2>2
<1>12. /\ tables' \in [DOMAIN tables' -> SUBSET Entry] /\ DOMAIN tables' \subseteq Nat
       /\ \A k \in DOMAIN tables : k \in DOMAIN tables' /\ (k < nextFile => tables'[k] = tables[k])
  <2>1. CASE UNCHANGED tables
    BY <1>1, <2>1 DEF FilesTyped
  <2>2. CASE tables' = With(tables, nextFile, E)
    <3>1. /\ DOMAIN tables' = DOMAIN tables \cup {nextFile} /\ tables'[nextFile] = E
          /\ \A k \in DOMAIN tables : k # nextFile => tables'[k] = tables[k]
          /\ tables' = [k \in DOMAIN tables' |-> tables'[k]]
      BY <2>2 DEF With
    <3>2. \A k \in DOMAIN tables' : tables'[k] \in SUBSET Entry /\ k \in Nat
      BY <1>1, <1>10, <3>1 DEF FilesTyped
    <3>3. tables' \in [DOMAIN tables' -> SUBSET Entry]
      BY <3>1, <3>2
    <3>4. \A k \in Nat : k < nextFile => k # nextFile
      BY <1>1
    <3>. QED  BY <1>8, <3>1, <3>2, <3>3, <3>4
  <2>. QED  BY <1>5, <2>1, <2>2
<1>13. ASSUME NEW F, F \subseteq DOMAIN tables, \A k \in F : k < nextFile
       PROVE  F \subseteq DOMAIN tables' /\ EntriesOf(tables', F) = EntriesOf(tables, F)
  BY <1>12, <1>13, EntriesOfSame
<1>14. PICK d : /\ edit' = {d} /\ d \in VersionEdit /\ d.del = {} /\ d.add1 = {}
                /\ d.add0 \subseteq DOMAIN tables' /\ \A k \in d.add0 : k < nextFile'
                /\ EntriesOf(tables', d.add0) = EntriesOf(tables, e.add0) \cup E
  <2>1. CASE E = {} /\ UNCHANGED <<tables, edit>>
    <3>1. \A k \in e.add0 : k < nextFile'
      BY <1>1, <1>6, <1>8, <1>11
    <3>. QED  BY <1>6, <1>7, <2>1, <3>1
  <2>2. CASE /\ tables' = With(tables, nextFile, E)
             /\ edit' = {[x EXCEPT !.add0 = @ \cup {nextFile}] : x \in edit}
             /\ nextFile' = MarkFileNumberUsed(nextFile + 1, n)
    <3>1. PICK d : d = [e EXCEPT !.add0 = @ \cup {nextFile}]
      OBVIOUS
    <3>2. edit' = {d}
      BY <1>7, <2>2, <3>1
    <3>3. d \in VersionEdit /\ d.del = {} /\ d.add1 = {} /\ d.add0 = e.add0 \cup {nextFile}
      BY <1>1, <1>6, <1>7, <3>1 DEF VersionEdit
    <3>4. nextFile \in DOMAIN tables' /\ tables'[nextFile] = E
      BY <2>2 DEF With
    <3>5. nextFile + 1 <= nextFile'
      BY <1>1, <1>10, <2>2, MarkedNumber
    <3>6. \A k \in d.add0 : k < nextFile'
      BY <1>1, <1>6, <1>8, <1>11, <3>3, <3>5
    <3>7. EntriesOf(tables', d.add0) = EntriesOf(tables, e.add0) \cup E
      <4>1. EntriesOf(tables', e.add0) = EntriesOf(tables, e.add0)
        BY <1>6, <1>13
      <4>2. EntriesOf(tables', e.add0 \cup {nextFile}) = EntriesOf(tables', e.add0) \cup EntriesOf(tables', {nextFile})
        BY EntriesOfUnion
      <4>3. EntriesOf(tables', {nextFile}) = E
        BY <3>4, EntriesOfOne
      <4>. QED  BY <3>3, <4>1, <4>2, <4>3
    <3>. QED  BY <1>6, <1>13, <3>2, <3>3, <3>4, <3>6, <3>7
  <2>. QED  BY <1>5, <2>1, <2>2
<1>15. \A r \in MayFind : EntriesAt(tables', r.version) = EntriesAt(tables, r.version)
  BY <1>8, <1>13 DEF EntriesAt
<1>16. MayFind' = MayFind /\ Says(current)' = Says(current) /\ Says(current) \in MayFind
  BY <1>1, LastRecord DEF MayFind, Says
<1>17. Stored' = Stored
  BY <1>1, <1>15, <1>16 DEF Stored, Recovers
<1>18. FilesTyped'
  BY <1>1, <1>12 DEF FilesTyped
<1>19. lastSequence' \in Nat /\ lastSequence <= lastSequence' /\ \A x \in E : x.seq <= lastSequence'
  BY <1>1, <1>5, <1>10, NewestSequence
<1>20. MemoryTyped'
  <2>1. toReplay' \subseteq Nat
    BY <1>1, <1>5
  <2>. QED  BY <1>1, <1>11, <1>14, <1>19, <2>1 DEF MemoryTyped, memory, told
<1>21. ManifestInv'
  <2>1. \A r \in MayFind : Readable(tables', logs, r)
    BY <1>1, <1>8, <1>12, <1>15 DEF ManifestInv, Readable
  <2>2. \A r \in MayFind : Lasts(tables', logs, r) = Lasts(tables, logs, r)
    BY <1>15 DEF Lasts
  <2>. QED  BY <1>1, <1>16, <2>1, <2>2 DEF ManifestInv, told
<1>22. StoredInv'
  BY <1>1, <1>17 DEF DBInv, StoredInv, told
<1>23. RecoveryInv'
  <2>1. \A r \in MayFind : Recovers(tables', logs, r) = Stored
    BY <1>8, <1>15 DEF Recovers
  <2>2. /\ manifestNumber < nextFile' /\ \A k \in Files(version) : k < nextFile'
        /\ \A r \in MayFind : \A k \in Files(r.version) : k < nextFile'
        /\ Files(version) \subseteq DOMAIN tables'
    <3>1. \A k \in Nat : k < nextFile => k < nextFile'
      BY <1>1, <1>11
    <3>2. Files(version) \subseteq Nat /\ \A r \in MayFind : Files(r.version) \subseteq Nat
      BY <1>8
    <3>. QED  BY <1>8, <1>12, <3>1, <3>2
  <2>3. PICK X, Y : X = EntriesOf(tables, Files(version) \cup e.add0) /\ Y = EntriesOf(tables', Files(version) \cup d.add0)
    OBVIOUS
  <2>4. Y = X \cup E
    <3>1. EntriesOf(tables', Files(version)) = EntriesOf(tables, Files(version))
      BY <1>8, <1>13
    <3>. QED  BY <1>14, <2>3, <3>1, EntriesOfUnion
  <2>5. Y \cup EntriesIn(logs, toReplay') = Stored
    BY <1>6, <1>9, <2>3, <2>4
  <2>6. \A x \in Y : x.seq <= lastSequence'
    <3>1. \A x \in X : x.seq \in Nat
      <4>1. X \subseteq Stored /\ \A r \in MayFind : Recovers(tables, logs, r) \subseteq Entry
        <5>1. \A r \in MayFind : LogsFrom(logs, r.log) \subseteq DOMAIN logs
          BY DEF LogsFrom
        <5>. QED  BY <1>1, <1>6, <1>8, <2>3, <5>1, EntriesTyped DEF Recovers, EntriesAt, EntriesIn
      <4>2. Stored \subseteq Entry
        BY <1>8, <1>16, <4>1
      <4>. QED  BY <4>1, <4>2 DEF Entry
    <3>2. \A x \in X : x.seq <= lastSequence
      BY <1>6, <2>3
    <3>3. \A k \in Nat : k <= lastSequence => k <= lastSequence'
      BY <1>1, <1>19
    <3>. QED  BY <1>19, <2>4, <3>1, <3>2, <3>3
  <2>7. \A k \in DOMAIN logs : k \in toReplay' \/ k < nextFile'
    BY <1>1, <1>5, <1>8, <1>11
  <2>8. toReplay' \subseteq DOMAIN logs
    BY <1>5, <1>6
  <2>. QED  BY <1>1, <1>8, <1>14, <1>16, <1>17, <2>1, <2>2, <2>3, <2>5, <2>6, <2>7, <2>8 DEF RecoveryInv, memory
<1>. QED  BY <1>1, <1>17, <1>18, <1>20, <1>21, <1>22, <1>23 DEF DBInv

LEMMA NewLogStep ==
  ASSUME DBInv, NewLog
  PROVE  DBInv' /\ Stored' = Stored
<1>1. /\ state = "replay" /\ state' = "manifest" /\ RecoveryInv /\ FilesTyped /\ ManifestInv /\ MemoryTyped
      /\ toReplay = {} /\ nextFile \in Nat /\ logs' = With(logs, nextFile, File(<<>>, 0))
      /\ logfile' = nextFile /\ nextFile' = nextFile + 1
      /\ UNCHANGED <<tables, manifests, current, lastSequence, version, logNumber, manifestNumber>>
      /\ UNCHANGED <<mem, imm, queue, group, compaction, edit, pending, bgError, readers, toReplay, told>>
  BY DEF DBInv, MemoryTyped, NewLog, writing, background
<1>2. PICK f \in LogFile : f = File(<<>>, 0) /\ f.synced <= Len(f.data) /\ Entries(f) = {} /\ SyncedEntries(f) = {}
  BY NewLogFile
<1>3. /\ \A n \in DOMAIN logs : n < nextFile /\ n \in Nat
      /\ current < manifestNumber /\ manifestNumber < nextFile
      /\ Files(version) \subseteq DOMAIN tables /\ \A n \in Files(version) : n < nextFile
      /\ \A r \in MayFind : \A n \in Files(r.version) : n < nextFile
      /\ DOMAIN tables \subseteq Nat /\ {current, manifestNumber} \subseteq Nat
      /\ \A r \in MayFind : Files(r.version) \subseteq DOMAIN tables
  BY <1>1 DEF RecoveryInv, FilesTyped, MemoryTyped, ManifestInv, Readable
<1>4. /\ DOMAIN logs' = DOMAIN logs \cup {nextFile} /\ logs'[nextFile] = f
      /\ \A n \in DOMAIN logs : n # nextFile /\ logs'[n] = logs[n]
      /\ logs' = [n \in DOMAIN logs' |-> logs'[n]]
  <2>1. nextFile \notin DOMAIN logs
    BY <1>1, <1>3
  <2>2. logs' = With(logs, nextFile, f)
    BY <1>1, <1>2
  <2>. QED  BY <2>1, <2>2 DEF With
<1>5. FilesTyped'
  <2>1. \A n \in DOMAIN logs' : logs'[n] \in LogFile /\ logs'[n].synced <= Len(logs'[n].data) /\ n \in Nat
    BY <1>1, <1>2, <1>3, <1>4 DEF FilesTyped
  <2>2. logs' \in [DOMAIN logs' -> LogFile]
    BY <1>4, <2>1
  <2>. QED  BY <1>1, <2>1, <2>2 DEF FilesTyped
<1>6. ManifestInv'
  BY <1>1, <1>4, ManifestLogsGrow DEF told
<1>7. ASSUME NEW k PROVE EntriesIn(logs', LogsFrom(logs', k)) = EntriesIn(logs, LogsFrom(logs, k))
  <2>1. \A x : x \in EntriesIn(logs', LogsFrom(logs', k)) <=>
                 \E n \in DOMAIN logs \cup {nextFile} : n >= k /\ x \in Entries(logs'[n])
    BY <1>4 DEF EntriesIn, LogsFrom
  <2>2. \A x : x \in EntriesIn(logs, LogsFrom(logs, k)) <=> \E n \in DOMAIN logs : n >= k /\ x \in Entries(logs[n])
    BY DEF EntriesIn, LogsFrom
  <2>3. \A x : x \notin Entries(logs'[nextFile])
    BY <1>2, <1>4
  <2>. QED  BY <1>4, <2>1, <2>2, <2>3
<1>8. \A r : Recovers(tables, logs', r) = Recovers(tables, logs, r)
  BY <1>7 DEF Recovers
<1>9. Stored' = Stored /\ MayFind' = MayFind
  BY <1>1, <1>8 DEF Stored, MayFind, Says
<1>10. StoredInv'
  BY <1>1, <1>9 DEF DBInv, StoredInv, told
<1>11. MemoryTyped'
  BY <1>1 DEF MemoryTyped, told
<1>12. RecoveryInv'
  <2>1. \A r \in MayFind : Recovers(tables, logs', r) = Stored
    BY <1>1, <1>8 DEF RecoveryInv
  <2>2. /\ manifestNumber < nextFile' /\ nextFile < nextFile' /\ \A n \in Files(version) : n < nextFile'
        /\ \A r \in MayFind : \A n \in Files(r.version) : n < nextFile'
        /\ \A n \in DOMAIN logs' : n <= nextFile
    <3>1. \A n \in Nat : n < nextFile => n < nextFile' /\ n <= nextFile
      BY <1>1
    <3>2. Files(version) \subseteq Nat /\ \A r \in MayFind : Files(r.version) \subseteq Nat
      BY <1>3
    <3>3. nextFile < nextFile' /\ nextFile <= nextFile
      BY <1>1
    <3>. QED  BY <1>3, <1>4, <3>1, <3>2, <3>3
  <2>3. \E e \in edit :
          /\ e.del = {} /\ e.add1 = {} /\ e.add0 \subseteq DOMAIN tables
          /\ \A n \in e.add0 : n < nextFile'
          /\ EntriesOf(tables, Files(version) \cup e.add0) \cup EntriesIn(logs', {}) = Stored
          /\ \A x \in EntriesOf(tables, Files(version) \cup e.add0) : x.seq <= lastSequence
    <3>1. PICK e \in edit :
          /\ e.del = {} /\ e.add1 = {} /\ e.add0 \subseteq DOMAIN tables
          /\ \A n \in e.add0 : n < nextFile
          /\ EntriesOf(tables, Files(version) \cup e.add0) \cup EntriesIn(logs, toReplay) = Stored
          /\ \A x \in EntriesOf(tables, Files(version) \cup e.add0) : x.seq <= lastSequence
      BY <1>1 DEF RecoveryInv
    <3>2. EntriesIn(logs, toReplay) = {} /\ EntriesIn(logs', {}) = {}
      BY <1>1, EntriesInOne
    <3>3. \A n \in e.add0 : n < nextFile'
      BY <1>1, <1>3, <3>1
    <3>. QED  BY <3>1, <3>2, <3>3
  <2>4. Entries(logs'[logfile']) = {} /\ logfile' \in DOMAIN logs' /\ {} \subseteq DOMAIN logs'
    BY <1>1, <1>2, <1>4
  <2>. QED  BY <1>1, <1>3, <1>9, <2>1, <2>2, <2>3, <2>4 DEF RecoveryInv
<1>. QED  BY <1>1, <1>5, <1>6, <1>9, <1>10, <1>11, <1>12 DEF DBInv

LEMMA WriteSnapshotStep ==
  ASSUME DBInv, WriteSnapshot
  PROVE  DBInv' /\ Stored' = Stored
<1>1. /\ state = "manifest" /\ state' = "current" /\ edit' = {}
      /\ RecoveryInv /\ FilesTyped /\ ManifestInv /\ MemoryTyped
      /\ UNCHANGED <<logs, tables, current, nextFile, lastSequence, logNumber, manifestNumber, memory>>
      /\ UNCHANGED <<queue, group, compaction, pending, bgError, readers, toReplay, told>>
  BY DEF DBInv, WriteSnapshot, writing
<1>2. PICK e \in edit :
        /\ e.del = {} /\ e.add1 = {} /\ e.add0 \subseteq DOMAIN tables
        /\ \A n \in e.add0 : n < nextFile
        /\ EntriesOf(tables, Files(version) \cup e.add0) \cup EntriesIn(logs, toReplay) = Stored
        /\ \A x \in EntriesOf(tables, Files(version) \cup e.add0) : x.seq <= lastSequence
  BY <1>1 DEF RecoveryInv
<1>3. edit = {e} /\ e \in VersionEdit /\ version \in TableVersion
  BY <1>1, <1>2 DEF MemoryTyped
<1>4. PICK v, r, f :
        /\ v = Apply(version, e)
        /\ r = [version |-> v, log |-> logfile, next |-> nextFile, last |-> lastSequence]
        /\ f = File(<<r>>, 1)
  OBVIOUS
<1>5. version' = v /\ manifests' = With(manifests, manifestNumber, f)
  <2>1. /\ version' = Apply(version, e)
        /\ manifests' = With(manifests, manifestNumber,
             File(<<[version |-> version', log |-> logfile, next |-> nextFile, last |-> lastSequence]>>, 1))
    BY <1>3 DEF WriteSnapshot
  <2>. QED  BY <1>4, <2>1
<1>6. /\ v \in TableVersion /\ Files(v) = Files(version) \cup e.add0
  <2>1. /\ Apply(version, e) \in TableVersion
        /\ Files(Apply(version, e)) \subseteq Files(version) \cup e.add0 \cup e.add1
        /\ e.add0 \cup e.add1 \subseteq Files(Apply(version, e))
        /\ Files(version) \subseteq Files(Apply(version, e)) \cup e.del
    BY <1>3, EditRecord
  <2>. QED  BY <1>2, <1>4, <2>1
<1>7. /\ toReplay = {} /\ current < manifestNumber /\ manifestNumber < nextFile
      /\ Files(version) \subseteq DOMAIN tables /\ \A n \in Files(version) : n < nextFile
      /\ {current, manifestNumber, logfile, nextFile, lastSequence} \subseteq Nat
      /\ logfile < nextFile
  BY <1>1 DEF RecoveryInv, FilesTyped, MemoryTyped
<1>8. EntriesAt(tables, v) = Stored
  <2>1. EntriesIn(logs, toReplay) = {}
    BY <1>7, EntriesInOne
  <2>. QED  BY <1>2, <1>6, <2>1 DEF EntriesAt
<1>9. r \in ManifestRecord /\ f.data = <<r>> /\ f.synced = 1 /\ f \in ManifestFile /\ f.synced <= Len(f.data)
  <2>1. r \in ManifestRecord
    BY <1>4, <1>6, <1>7 DEF ManifestRecord
  <2>2. f = [data |-> <<r>>, synced |-> 1]
    BY <1>4 DEF File
  <2>3. <<r>> \in Seq(ManifestRecord) /\ Len(<<r>>) = 1
    BY <2>1
  <2>. QED  BY <2>1, <2>2, <2>3 DEF ManifestFile
<1>10. /\ DOMAIN manifests' = DOMAIN manifests \cup {manifestNumber} /\ manifests'[manifestNumber] = f
       /\ \A n \in DOMAIN manifests : n # manifestNumber => manifests'[n] = manifests[n]
       /\ manifests' = [n \in DOMAIN manifests' |-> manifests'[n]]
  BY <1>5 DEF With
<1>11. current \in DOMAIN manifests' /\ manifests'[current] = manifests[current]
  <2>1. current # manifestNumber /\ current \in DOMAIN manifests
    BY <1>1, <1>7 DEF FilesTyped
  <2>. QED  BY <1>10, <2>1
<1>12. FilesTyped'
  <2>1. \A n \in DOMAIN manifests' : manifests'[n] \in ManifestFile /\ manifests'[n].synced <= Len(manifests'[n].data) /\ n \in Nat
    BY <1>1, <1>7, <1>9, <1>10 DEF FilesTyped
  <2>2. manifests' \in [DOMAIN manifests' -> ManifestFile]
    BY <1>10, <2>1
  <2>. QED  BY <1>1, <1>11, <2>1, <2>2 DEF FilesTyped
<1>13. MayFind' = MayFind /\ Says(current)' = Says(current) /\ Stored' = Stored
  BY <1>1, <1>11 DEF MayFind, Says, Stored
<1>14. ManifestInv'
  BY <1>1, <1>11, <1>13 DEF ManifestInv, told
<1>15. StoredInv'
  BY <1>1, <1>13 DEF DBInv, StoredInv, told
<1>16. MemoryTyped'
  BY <1>1, <1>5, <1>6 DEF MemoryTyped, memory, told
<1>17. RecoveryInv'
  <2>1. Files(v) \subseteq DOMAIN tables /\ \A n \in Files(v) : n < nextFile
    BY <1>2, <1>6, <1>7
  <2>2. \A x \in Stored : x.seq <= lastSequence
    BY <1>2, <1>6, <1>8 DEF EntriesAt
  <2>3. manifests'[manifestNumber] = File(<<[version |-> version', log |-> logfile, next |-> nextFile, last |-> lastSequence]>>, 1)
    BY <1>4, <1>5, <1>10
  <2>. QED  BY <1>1, <1>5, <1>7, <1>8, <1>10, <1>13, <2>1, <2>2, <2>3 DEF RecoveryInv, memory
<1>. QED  BY <1>1, <1>12, <1>13, <1>14, <1>15, <1>16, <1>17 DEF DBInv

LEMMA SetCurrentFileStep ==
  ASSUME DBInv, SetCurrentFile
  PROVE  /\ DBInv' /\ mem' = {} /\ imm' = {}
         /\ EntriesAt(tables', version') = Stored
<1>1. /\ state = "current" /\ state' = "open" /\ current' = manifestNumber /\ logNumber' = logfile
      /\ RecoveryInv /\ FilesTyped /\ ManifestInv /\ MemoryTyped /\ StoredInv
      /\ DeleteObsoleteFiles({}, manifests) /\ scheduled' = NeedsCompaction(version)
      /\ UNCHANGED <<version, pending, nextFile, lastSequence, manifestNumber, memory, queue, group>>
      /\ UNCHANGED <<compaction, edit, bgError, readers, toReplay, told>>
  BY DEF DBInv, SetCurrentFile, writing
<1>2. /\ mem = {} /\ imm = {} /\ queue = <<>> /\ group = NoGroup /\ edit = {}
      /\ compaction = {} /\ pending = {} /\ readers = {} /\ bgError = FALSE
      /\ manifestNumber < nextFile
      /\ Files(version) \subseteq DOMAIN tables /\ \A n \in Files(version) : n < nextFile
      /\ logfile \in DOMAIN logs /\ logfile < nextFile /\ Entries(logs[logfile]) = {}
      /\ \A n \in DOMAIN logs : n <= logfile
      /\ EntriesAt(tables, version) = Stored /\ \A x \in Stored : x.seq <= lastSequence
      /\ manifestNumber \in DOMAIN manifests
      /\ {manifestNumber, logfile, nextFile, lastSequence} \subseteq Nat
      /\ DOMAIN logs \subseteq Nat /\ DOMAIN tables \subseteq Nat /\ DOMAIN manifests \subseteq Nat
  BY <1>1 DEF RecoveryInv, FilesTyped, MemoryTyped
<1>3. PICK r : r = [version |-> version, log |-> logfile, next |-> nextFile, last |-> lastSequence]
  OBVIOUS
<1>4. manifests[manifestNumber] = File(<<r>>, 1)
  BY <1>1, <1>3 DEF RecoveryInv
<1>5. manifests \in [DOMAIN manifests -> ManifestFile]
  BY <1>1 DEF FilesTyped
<1>6. /\ DOMAIN tables' \subseteq DOMAIN tables /\ \A n \in DOMAIN tables' : tables'[n] = tables[n]
      /\ tables' \in [DOMAIN tables' -> SUBSET Entry]
      /\ \A n \in DOMAIN tables : n \in Live(version', {}, pending') => n \in DOMAIN tables'
      /\ DOMAIN tables' = DOMAIN tables \cap Live(version', {}, pending')
      /\ DOMAIN logs' \subseteq DOMAIN logs /\ \A n \in DOMAIN logs' : logs'[n] = logs[n]
      /\ logs' \in [DOMAIN logs' -> LogFile]
      /\ \A n \in DOMAIN logs : n >= logNumber' => n \in DOMAIN logs'
      /\ \A n \in DOMAIN logs' : n >= logNumber'
      /\ DOMAIN manifests' \subseteq DOMAIN manifests
      /\ \A n \in DOMAIN manifests' : manifests'[n] = manifests[n]
      /\ manifests' \in [DOMAIN manifests' -> ManifestFile]
      /\ manifestNumber \in DOMAIN manifests'
  BY <1>1, <1>2, <1>5, FilesDeleted
<1>7. Live(version', {}, pending') = Files(version)
  BY <1>1, <1>2 DEF Live
<1>8. DOMAIN tables' = Files(version) /\ EntriesAt(tables', version) = Stored
  <2>1. DOMAIN tables' = Files(version)
    BY <1>2, <1>6, <1>7
  <2>. QED  BY <1>2, <1>6, <2>1, EntriesOfSame DEF EntriesAt
<1>9. \A n \in DOMAIN logs' : n = logfile
  BY <1>1, <1>2, <1>6
<1>10. logfile \in DOMAIN logs' /\ logs'[logfile] = logs[logfile]
  BY <1>1, <1>2, <1>6
<1>11. manifests'[current'].data = <<r>> /\ manifests'[current'].synced = 1 /\ current' \in DOMAIN manifests'
  BY <1>1, <1>4, <1>6 DEF File
<1>12. MayFind' = {r} /\ Says(current)' = r
  <2>1. Len(<<r>>) = 1 /\ <<r>>[1] = r /\ 1 .. 1 = {1}
    OBVIOUS
  <2>. QED  BY <1>11, <2>1 DEF MayFind, MayBeRead, Says
<1>13. r.version = version /\ r.log = logfile /\ r.next = nextFile /\ r.last = lastSequence
  BY <1>3
<1>14. FilesTyped'
  BY <1>1, <1>2, <1>6 DEF FilesTyped
<1>15. MemoryTyped'
  BY <1>1, <1>2 DEF MemoryTyped, memory, told
<1>16. Stored' = Stored
  BY <1>1, <1>2, <1>8, <1>10 DEF Stored, memory
<1>17. StoredInv'
  BY <1>1, <1>2, <1>8, <1>16, AckedStored DEF StoredInv, memory, told
<1>18. ManifestInv'
  <2>1. Readable(tables', logs', r) /\ current' < r.next
    BY <1>1, <1>2, <1>8, <1>13 DEF Readable
  <2>2. promised \subseteq Ids(Lasts(tables', logs', r))
    BY <1>1, <1>8, <1>13, AckedStored, IdsUnion DEF StoredInv, Lasts
  <2>3. \A i \in 1 .. Len(<<r>>) : <<r>>[i] = r
    OBVIOUS
  <2>. QED  BY <1>1, <1>2, <1>11, <1>12, <1>13, <2>1, <2>2, <2>3 DEF ManifestInv, told
<1>19. QueueInv'
  <2>1. GroupInv' /\ group'.step = "none" /\ InFlight' = {}
    BY <1>1, <1>2 DEF GroupInv, NoGroup, InFlight
  <2>2. queue' = <<>> /\ DOMAIN <<>> = {}
    BY <1>1, <1>2
  <2>3. \A e \in EntriesAt(tables', version') : Settled(e)'
    BY <1>1, <1>2, <1>8, <2>2 DEF Settled
  <2>. QED  BY <1>1, <1>2, <1>10, <2>1, <2>2, <2>3 DEF QueueInv, memory
<1>20. FilesInv'
  <2>1. LogsFrom(logs', logfile) \ {logfile} = {}
    BY <1>9 DEF LogsFrom
  <2>2. EntriesIn(logs', LogsFrom(logs', logfile) \ {logfile}) = {}
    BY <2>1, EntriesInOne
  <2>3. logfile <= logfile /\ \A n \in DOMAIN logs' : n <= logfile
    BY <1>2, <1>6
  <2>. QED  BY <1>1, <1>2, <1>8, <1>10, <1>12, <1>13, <2>2, <2>3 DEF FilesInv, memory
<1>21. BackgroundInv'
  BY <1>1, <1>2, <1>12, <1>13 DEF BackgroundInv
<1>22. mem' = {} /\ imm' = {} /\ EntriesAt(tables', version') = Stored
  BY <1>1, <1>2, <1>8 DEF memory
<1>. QED  BY <1>1, <1>14, <1>15, <1>17, <1>18, <1>19, <1>20, <1>21, <1>22 DEF DBInv, OpenInv

LEMMA InitStep == Init => DBInv
<1> SUFFICES ASSUME Init PROVE DBInv
  OBVIOUS
<1>1. PICK f, r, m : /\ f = File(<<>>, 0) /\ r = [version |-> NoTables, log |-> 3, next |-> 4, last |-> 0]
                     /\ m = File(<<r>>, 1)
  OBVIOUS
<1>2. /\ logs = [n \in {3} |-> f] /\ tables = [n \in {} |-> {}]
      /\ manifests = [n \in {2} |-> m] /\ current = 2
      /\ nextFile = 4 /\ lastSequence = 0 /\ version = NoTables
      /\ logNumber = 3 /\ manifestNumber = 2
      /\ state = "open" /\ logfile = 3 /\ mem = {} /\ imm = {}
      /\ queue = <<>> /\ group = NoGroup /\ compaction = {} /\ edit = {} /\ pending = {}
      /\ bgError = FALSE /\ readers = {} /\ toReplay = {}
      /\ writes = 0 /\ asked = {} /\ acked = {} /\ promised = {}
  BY <1>1 DEF Init
<1>3. f \in LogFile /\ f.synced <= Len(f.data) /\ Entries(f) = {}
  BY <1>1, NewLogFile
<1>4. NoTables \in TableVersion /\ Files(NoTables) = {} /\ NoGroup \in WriteGroup /\ NoGroup.step = "none"
  BY DEF NoTables, TableVersion, Files, NoGroup, WriteGroup
<1>5. r \in ManifestRecord /\ m.data = <<r>> /\ m.synced = 1 /\ m \in ManifestFile /\ m.synced <= Len(m.data)
  <2>1. r \in ManifestRecord
    BY <1>1, <1>4 DEF ManifestRecord
  <2>2. m = [data |-> <<r>>, synced |-> 1]
    BY <1>1 DEF File
  <2>3. <<r>> \in Seq(ManifestRecord) /\ Len(<<r>>) = 1
    BY <2>1
  <2>. QED  BY <2>1, <2>2, <2>3 DEF ManifestFile
<1>6. FilesTyped
  <2>1. /\ DOMAIN logs = {3} /\ logs[3] = f /\ logs \in [{3} -> LogFile]
        /\ DOMAIN tables = {} /\ tables \in [{} -> SUBSET Entry]
        /\ DOMAIN manifests = {2} /\ manifests[2] = m /\ manifests \in [{2} -> ManifestFile]
    BY <1>2, <1>3, <1>5
  <2>2. logs \in [DOMAIN logs -> LogFile] /\ DOMAIN logs \subseteq Nat
    BY <2>1
  <2>3. tables \in [DOMAIN tables -> SUBSET Entry] /\ DOMAIN tables \subseteq Nat
    BY <2>1
  <2>4. manifests \in [DOMAIN manifests -> ManifestFile] /\ DOMAIN manifests \subseteq Nat
    BY <2>1
  <2>5. \A n \in DOMAIN logs : logs[n].synced <= Len(logs[n].data)
    BY <1>3, <2>1
  <2>6. \A n \in DOMAIN manifests : manifests[n].synced <= Len(manifests[n].data)
    BY <1>5, <2>1
  <2>7. current \in DOMAIN manifests
    BY <1>2, <2>1
  <2>. QED  BY <2>2, <2>3, <2>4, <2>5, <2>6, <2>7 DEF FilesTyped
<1>7. MemoryTyped
  <2>1. writes \in 0 .. MaxWrites
    BY <1>2, DBImplAssumption
  <2>2. {nextFile, lastSequence, logNumber, manifestNumber, logfile} \subseteq Nat
    BY <1>2
  <2>3. version \in TableVersion /\ queue \in Seq(Writer) /\ group \in WriteGroup
    BY <1>2, <1>4
  <2>. QED  BY <1>2, <2>1, <2>2, <2>3 DEF MemoryTyped
<1>8. MayFind = {r} /\ Says(current) = r
  <2>1. Len(<<r>>) = 1 /\ <<r>>[1] = r /\ 1 .. 1 = {1}
    OBVIOUS
  <2>. QED  BY <1>2, <1>5, <2>1 DEF MayFind, MayBeRead, Says
<1>9. EntriesAt(tables, NoTables) = {} /\ r.version = NoTables /\ r.log = 3 /\ r.next = 4 /\ r.last = 0
  BY <1>1, <1>4, EntriesOfOne DEF EntriesAt
<1>10. Stored = {}
  BY <1>2, <1>3, <1>9 DEF Stored
<1>11. ManifestInv
  <2>1. Readable(tables, logs, r) /\ current < r.next
    BY <1>2, <1>4, <1>9 DEF Readable
  <2>2. \A i \in 1 .. Len(<<r>>) : <<r>>[i] = r
    OBVIOUS
  <2>. QED  BY <1>2, <1>4, <1>5, <1>8, <1>9, <2>1, <2>2 DEF ManifestInv
<1>12. StoredInv
  BY <1>2, <1>10, FS_EmptySet DEF StoredInv, Ids
<1>13. QueueInv
  <2>1. queue = <<>> /\ DOMAIN <<>> = {}
    BY <1>2
  <2>. QED  BY <1>2, <1>3, <1>4, <1>9, <2>1 DEF QueueInv, GroupInv, InFlight
<1>14. FilesInv
  <2>1. LogsFrom(logs, logNumber) \ {logfile} = {}
    BY <1>2 DEF LogsFrom
  <2>2. EntriesIn(logs, LogsFrom(logs, logNumber) \ {logfile}) = {}
    BY <2>1, EntriesInOne
  <2>3. DOMAIN logs = {3} /\ DOMAIN tables = {}
    BY <1>2
  <2>4. \A x \in MayFind : x.log = logNumber /\ EntriesAt(tables, x.version) = EntriesAt(tables, version)
    BY <1>2, <1>8, <1>9
  <2>5. /\ current = manifestNumber /\ logfile \in DOMAIN logs /\ logNumber <= logfile /\ logfile < nextFile
        /\ \A n \in DOMAIN logs : n <= logfile
        /\ \A n \in DOMAIN tables : n < nextFile
        /\ current < nextFile /\ logNumber = logfile
    BY <1>2, <2>3
  <2>6. Files(version) \cup UNION readers = {} /\ imm = {}
    BY <1>2, <1>4
  <2>7. imm = EntriesIn(logs, LogsFrom(logs, logNumber) \ {logfile})
    BY <2>2, <2>6
  <2>. QED  BY <2>4, <2>5, <2>6, <2>7 DEF FilesInv
<1>15. BackgroundInv
  BY <1>2, <1>8, <1>9 DEF BackgroundInv
<1>. QED  BY <1>2, <1>6, <1>7, <1>11, <1>12, <1>13, <1>14, <1>15 DEF DBInv, OpenInv

LEMMA StutteringStep ==
  ASSUME DBInv, UNCHANGED vars
  PROVE  DBInv'
<1>1. /\ UNCHANGED <<disk, versions, state, memory, writing, background, bgError, readers, toReplay, told>>
      /\ FilesTyped /\ ManifestInv /\ StoredInv /\ MemoryTyped
  BY DEF vars, DBInv
<1>2. FilesTyped' /\ ManifestInv' /\ StoredInv'
  BY <1>1, FilesTypedFrame, ManifestFrame, StoredFrame DEF told, versions, memory
<1>3. MemoryTyped'
  BY <1>1 DEF MemoryTyped, versions, memory, writing, background, told
<1>4. CASE state = "open"
  <2>1. OpenInv
    BY <1>4 DEF DBInv
  <2>2. QueueInv' /\ FilesInv' /\ BackgroundInv'
    BY <1>1, <2>1, QueueFrame, FilesFrame, BackgroundFrame
       DEF OpenInv, disk, versions, memory, writing, background, told
  <2>. QED  BY <1>1, <1>2, <1>3, <1>4, <2>2 DEF DBInv, OpenInv
<1>5. CASE state # "open"
  <2>1. RecoveryInv
    BY <1>5 DEF DBInv
  <2>2. MayFind' = MayFind /\ Stored' = Stored
    BY <1>1 DEF MayFind, Stored, Says, disk, versions, memory
  <2>3. RecoveryInv'
    BY <1>1, <2>1, <2>2 DEF RecoveryInv, disk, versions, memory, writing, background
  <2>. QED  BY <1>1, <1>2, <1>3, <1>5, <2>3 DEF DBInv
<1>. QED  BY <1>4, <1>5

LEMMA WriterStepKeeps ==
  ASSUME DBInv, WriterStep
  PROVE  DBInv'
<1>1. CASE WriteAfterError
  BY <1>1, FrontFailsStep DEF WriteAfterError, background
<1>2. CASE Wait
  BY <1>2, WaitStep DEF Wait, AtFront, Open, background
<1>. QED  BY <1>1, <1>2, StartGroupStep, SwitchMemTableStep, AppendRecordStep, SyncLogStep,
             InsertGroupStep DEF WriterStep

LEMMA BackgroundStepKeeps ==
  ASSUME DBInv, BackgroundStep
  PROVE  DBInv'
<1>1. CASE BackgroundIdle
  BY <1>1, WaitStep DEF BackgroundIdle, Open
<1>. QED  BY <1>1, BuildTableStep, StartCompactionStep, WriteCompactionOutputStep,
             InstallCompactionResultsStep, AppendEditStep, InstallFlushStep, InstallCompactionStep
          DEF BackgroundStep

LEMMA FailureKeeps ==
  ASSUME DBInv, Failure
  PROVE  DBInv'
<1>1. CASE SwitchFails
  BY <1>1, FrontFailsStep DEF SwitchFails, background
<1>2. CASE AppendFails
  BY <1>2, GroupFailsStep DEF AppendFails, Open
<1>3. CASE SyncFails
  BY <1>3, GroupFailsStep DEF SyncFails, Open
<1>4. CASE BuildFails
  BY <1>4, BackgroundFailsStep DEF BuildFails, MayFlush, BackgroundError, Open
<1>5. CASE CompactionOutputFails
  BY <1>5, BackgroundFailsStep DEF CompactionOutputFails, Compacting, BackgroundError, Open
<1>6. CASE EditFails
  BY <1>6, BackgroundFailsStep DEF EditFails, BackgroundError, Open, versions
<1>. QED  BY <1>1, <1>2, <1>3, <1>4, <1>5, <1>6 DEF Failure

LEMMA NextKeeps == DBInv /\ [Next]_vars => DBInv'
<1> SUFFICES ASSUME DBInv, [Next]_vars PROVE DBInv'
  OBVIOUS
<1>1. CASE \E sync \in BOOLEAN : Write(sync)
  BY <1>1, WriteStep
<1>2. CASE OpenStep
  BY <1>2, RecoverStep, RecoverLogFileStep, NewLogStep, WriteSnapshotStep, SetCurrentFileStep DEF OpenStep
<1>3. CASE HoldVersion \/ ReleaseVersion
  BY <1>3, ReadersStep
<1>4. CASE Kill \/ PowerLoss
  BY <1>4, KillStep, PowerLossStep
<1>5. CASE UNCHANGED vars
  BY <1>5, StutteringStep
<1>. QED  BY <1>1, <1>2, <1>3, <1>4, <1>5, WriterStepKeeps, BackgroundStepKeeps, FailureKeeps DEF Next

\* The invariant holds in every reachable state: whatever the MANIFEST may turn out to say,
\* DB::Open finds the entries that were in the store.
THEOREM DBImplInvariance == Spec => []DBInv
<1>1. Init => DBInv
  BY InitStep
<1>2. DBInv /\ [Next]_vars => DBInv'
  BY NextKeeps
<1>. QED  BY <1>1, <1>2, PTL DEF Spec

-----------------------------------------------------------------------------
(* What follows from the invariant.                                         *)

\* The type invariant holds in every reachable state: the background thread is never in two
\* compactions, nor in two edits of the MANIFEST.
THEOREM TypeCorrect == Spec => []TypeOK
<1>1. DBInv => TypeOK
  <2> SUFFICES ASSUME DBInv PROVE TypeOK
    OBVIOUS
  <2>1. FilesTyped /\ MemoryTyped
    BY DEF DBInv
  <2>2. \A n \in DOMAIN logs : logs[n].data \in Seq(SUBSET Entry)
    BY <2>1 DEF FilesTyped, LogFile
  <2>3. \A n \in DOMAIN tables : tables[n] \subseteq Entry
    BY <2>1 DEF FilesTyped
  <2>4. ASSUME NEW S, \A c, d \in S : c = d PROVE Cardinality(S) <= 1
    <3>1. CASE S = {}
      BY <3>1, FS_EmptySet
    <3>2. CASE S # {}
      <4>1. PICK c \in S : S = {c}
        BY <2>4, <3>2
      <4>. QED  BY <4>1, FS_Singleton
    <3>. QED  BY <3>1, <3>2
  <2>5. Cardinality(compaction) <= 1 /\ Cardinality(edit) <= 1
    BY <2>1, <2>4 DEF MemoryTyped
  <2>. QED  BY <2>1, <2>2, <2>3, <2>5 DEF TypeOK, FilesTyped, MemoryTyped
<1>. QED  BY <1>1, DBImplInvariance, PTL

LEMMA ContentsAre == ContentsStored
<1> SUFFICES ASSUME DBInv
             PROVE  Contents = IF state = "open" THEN Ids(mem \cup imm \cup EntriesAt(tables, version)) ELSE Ids(Stored)
  BY DEF ContentsStored
<1>1. CASE state = "open"
  <2>1. Files(version) \subseteq DOMAIN tables
    BY <1>1 DEF DBInv, OpenInv, FilesInv
  <2>2. Files(version) \cap DOMAIN tables = Files(version)
    BY <2>1
  <2>. QED  BY <1>1, <2>2 DEF Contents, Found, EntriesAt, EntriesOf
<1>2. CASE state # "open"
  BY <1>2, RecoverableStored DEF Contents
<1>. QED  BY <1>1, <1>2

LEMMA ContentsAreNext == ContentsStored'
BY ContentsAre, PTL

\* A write that returned ok is read, through every switch, flush, compaction and kill.
THEOREM AckedCorrect == Spec => []AckedWritesAreRead
<1>1. DBInv => AckedWritesAreRead
  BY ContentsAre DEF DBInv, StoredInv, AckedWritesAreRead, ContentsStored
<1>. QED  BY <1>1, DBImplInvariance, PTL

\* The entries readers find are ordered as the writes were, and older than the next one.
THEOREM SequencesCorrect == Spec => []SequencesFollowWrites
<1>1. DBInv => SequencesFollowWrites
  <2> SUFFICES ASSUME DBInv, state = "open"
               PROVE  /\ \A e \in Found : e.seq <= lastSequence
                      /\ \A d, e \in Found : d.id < e.id => d.seq < e.seq
    BY DEF SequencesFollowWrites
  <2>1. Found \subseteq mem \cup imm \cup EntriesAt(tables, version)
    BY DEF Found, EntriesAt, EntriesOf
  <2>2. mem \cup imm \cup EntriesAt(tables, version) \subseteq Stored
    BY OpenStored
  <2>. QED  BY <2>1, <2>2 DEF DBInv, StoredInv, OpenInv, QueueInv, Settled
<1>. QED  BY <1>1, DBImplInvariance, PTL

\* DeleteObsoleteFiles never takes a table that a version, a reader, a compaction, an edit
\* or a state of the MANIFEST still names.
THEOREM NeededTablesCorrect == Spec => []NeededTablesExist
<1>1. DBInv => NeededTablesExist
  <2> SUFFICES ASSUME DBInv PROVE NeededTablesExist
    OBVIOUS
  <2>1. \A i \in manifests[current].synced .. Len(manifests[current].data) :
          Files(manifests[current].data[i].version) \subseteq DOMAIN tables
    BY DEF DBInv, ManifestInv, Readable, MayFind, MayBeRead
  <2>2. CASE state = "open"
    <3>1. OpenInv
      BY <2>2 DEF DBInv
    <3>2. Files(version) \cup UNION readers \subseteq DOMAIN tables
      BY <3>1 DEF OpenInv, FilesInv
    <3>3. \A c \in compaction : c.inputs \subseteq DOMAIN tables
      BY <3>1 DEF OpenInv, BackgroundInv, CompactionInv
    <3>4. \A c \in compaction : c.step # "start" => c.output \subseteq DOMAIN tables
      BY <3>1 DEF OpenInv, BackgroundInv, CompactionInv
    <3>5. \A e \in edit : e.add0 \cup e.add1 \subseteq DOMAIN tables
      BY <3>1 DEF OpenInv, BackgroundInv, EditInv
    <3>. QED  BY <2>1, <3>2, <3>3, <3>4, <3>5 DEF NeededTablesExist
  <2>3. CASE state # "open"
    <3>1. RecoveryInv /\ MemoryTyped
      BY <2>3 DEF DBInv
    <3>2. compaction = {} /\ readers = {}
      BY <3>1 DEF RecoveryInv
    <3>3. Files(version) \subseteq DOMAIN tables
      BY <3>1 DEF RecoveryInv, NoTables, Files
    <3>4. \A e \in edit : e.add0 \cup e.add1 \subseteq DOMAIN tables
      <4>1. state \in {"down", "current"} => edit = {}
        BY <3>1 DEF RecoveryInv
      <4>2. state \in {"replay", "manifest"} => \E e \in edit : e.add1 = {} /\ e.add0 \subseteq DOMAIN tables
        BY <3>1 DEF RecoveryInv
      <4>3. \A d, e \in edit : d = e
        BY <3>1 DEF MemoryTyped
      <4>4. state \in {"down", "current", "replay", "manifest"}
        BY <2>3, <3>1 DEF MemoryTyped
      <4>. QED  BY <4>1, <4>2, <4>3, <4>4
    <3>. QED  BY <2>1, <3>2, <3>3, <3>4 DEF NeededTablesExist
  <2>. QED  BY <2>2, <2>3
<1>. QED  BY <1>1, DBImplInvariance, PTL

-----------------------------------------------------------------------------
(* DBImpl implements the durable store.                                     *)

\* While the store is open its contents are those of the memtables and of the version.
LEMMA OpenContentsSame ==
  ASSUME DBInv, DBInv', state = "open", state' = "open", UNCHANGED <<asked, promised>>,
         mem' \cup imm' \cup EntriesAt(tables', version') = mem \cup imm \cup EntriesAt(tables, version)
  PROVE  ContentsSeen
<1>1. Contents = Ids(mem \cup imm \cup EntriesAt(tables, version))
  BY ContentsAre DEF ContentsStored
<1>2. Contents' = Ids(mem' \cup imm' \cup EntriesAt(tables', version'))
  BY ContentsAreNext DEF ContentsStored
<1>. QED  BY <1>1, <1>2 DEF ContentsSeen

LEMMA OpenFrame ==
  ASSUME DBInv, DBInv', state = "open", state' = "open", UNCHANGED <<asked, promised, mem, imm, version, tables>>
  PROVE  ContentsSeen
BY OpenContentsSame

LEMMA RecoveryContentsSame ==
  ASSUME DBInv, DBInv', state # "open", state' # "open", Stored' = Stored, UNCHANGED told
  PROVE  ContentsSeen
<1>1. Contents = Ids(Stored)
  BY ContentsAre DEF ContentsStored
<1>2. Contents' = Ids(Stored')
  BY ContentsAreNext DEF ContentsStored
<1>. QED  BY <1>1, <1>2 DEF ContentsSeen, told

LEMMA PromisedRead == DBInv => promised \subseteq Contents /\ Contents \subseteq asked
<1> SUFFICES ASSUME DBInv PROVE promised \subseteq Contents /\ Contents \subseteq asked
  OBVIOUS
<1>1. StoredInv
  BY DEF DBInv
<1>2. CASE state = "open"
  <2>1. Contents = Ids(mem \cup imm \cup EntriesAt(tables, version))
    BY <1>2, ContentsAre DEF ContentsStored
  <2>2. mem \cup imm \cup EntriesAt(tables, version) \subseteq Stored
    BY <1>2, OpenStored
  <2>3. Contents \subseteq Ids(Stored)
    BY <2>1, <2>2, IdsMonotone
  <2>. QED  BY <1>1, <1>2, <2>1, <2>3 DEF StoredInv
<1>3. CASE state # "open"
  <2>1. Contents = Ids(Stored)
    BY <1>3, ContentsAre DEF ContentsStored
  <2>. QED  BY <1>1, <1>3, <2>1 DEF StoredInv
<1>. QED  BY <1>2, <1>3

LEMMA WriteAsks ==
  ASSUME DBInv, DBInv', NEW sync \in BOOLEAN, Write(sync)
  PROVE  Store!Ask
<1>1. /\ state = "open" /\ state' = "open" /\ writes < MaxWrites /\ writes \in Nat
      /\ asked \subseteq 1 .. writes
      /\ asked' = asked \cup {writes + 1} /\ promised' = promised
      /\ UNCHANGED <<mem, imm, version, tables>>
  BY DEF Write, Open, DBInv, StoredInv, MemoryTyped, disk, versions, memory
<1>2. writes + 1 \in (1 .. MaxWrites) \ asked
  BY <1>1, DBImplAssumption
<1>3. Contents' = Contents
  <2>1. Contents = Ids(mem \cup imm \cup EntriesAt(tables, version))
    BY <1>1, ContentsAre DEF ContentsStored
  <2>2. Contents' = Ids(mem' \cup imm' \cup EntriesAt(tables', version'))
    BY <1>1, ContentsAreNext DEF ContentsStored
  <2>. QED  BY <1>1, <2>1, <2>2
<1>. QED  BY <1>1, <1>2, <1>3 DEF Store!Ask

LEMMA InsertGroupCommits ==
  ASSUME DBInv, DBInv', InsertGroup
  PROVE  Store!Commit
<1>1. /\ state = "open" /\ state' = "open" /\ group.step # "none"
      /\ mem' = mem \cup group.entries /\ promised \subseteq promised'
      /\ UNCHANGED <<imm, version, tables, asked>>
  BY DEF InsertGroup, GroupReturns, Open, disk
<1>2. Contents = Ids(mem \cup imm \cup EntriesAt(tables, version))
  BY <1>1, ContentsAre DEF ContentsStored
<1>3. Contents' = Ids(mem' \cup imm' \cup EntriesAt(tables', version'))
  BY <1>1, ContentsAreNext DEF ContentsStored
<1>4. Contents' = Contents \cup Ids(group.entries)
  BY <1>1, <1>2, <1>3 DEF Ids
<1>5. Ids(group.entries) \subseteq asked
  BY <1>1, GroupIds
<1>6. Contents \subseteq asked
  BY PromisedRead
<1>7. promised' \subseteq Contents'
  BY <1>1, <1>3 DEF DBInv, StoredInv
<1>. QED  BY <1>1, <1>4, <1>5, <1>6, <1>7 DEF Store!Commit

LEMMA CrashDown ==
  ASSUME DBInv', NothingInMemory, promised' = promised
  PROVE  Contents' = Recoverable' /\ promised \subseteq Contents'
<1>1. state' = "down"
  BY DEF NothingInMemory
<1>2. Contents' = Recoverable'
  BY <1>1 DEF Contents
<1>3. Contents' = Ids(Stored')
  BY <1>1, ContentsAreNext DEF ContentsStored
<1>4. promised' \subseteq Ids(Stored')
  BY <1>1 DEF DBInv, StoredInv
<1>. QED  BY <1>2, <1>3, <1>4

LEMMA KillCrashes ==
  ASSUME DBInv, DBInv', Kill
  PROVE  Store!Crash
<1>1. NothingInMemory /\ UNCHANGED <<disk, promised>> /\ asked' = Recoverable
  BY DEF Kill, Crash
<1>2. Contents' = Recoverable' /\ promised \subseteq Contents'
  BY <1>1, CrashDown
<1>3. Recoverable' = Recoverable
  BY <1>1 DEF Recoverable, disk, Says
<1>4. Recoverable \subseteq asked
  BY RecoverableStored DEF DBInv, StoredInv
<1>. QED  BY <1>1, <1>2, <1>3, <1>4 DEF Store!Crash

LEMMA PowerLossCrashes ==
  ASSUME DBInv, DBInv', PowerLoss
  PROVE  Store!Crash
<1>1. NothingInMemory /\ promised' = promised /\ asked' = Recoverable'
  BY DEF PowerLoss, Crash
<1>2. Contents' = Recoverable' /\ promised \subseteq Contents'
  BY <1>1, CrashDown
<1>3. asked' \subseteq asked
  BY PowerLossStep
<1>. QED  BY <1>1, <1>2, <1>3 DEF Store!Crash

-----------------------------------------------------------------------------
LEMMA WriterStutters ==
  ASSUME DBInv, DBInv', WriterStep, ~InsertGroup
  PROVE  ContentsSeen
<1>1. CASE WriteAfterError \/ StartGroup \/ Wait \/ AppendRecord \/ SyncLog
  <2>1. state = "open" /\ state' = "open" /\ UNCHANGED <<asked, promised, mem, imm, version, tables>>
    BY <1>1 DEF WriteAfterError, StartGroup, Wait, AppendRecord, SyncLog, AtFront, Open, told, memory, versions, disk
  <2>. QED  BY <2>1, OpenFrame
<1>2. CASE SwitchMemTable
  <2>1. /\ state = "open" /\ state' = "open" /\ UNCHANGED <<asked, promised, version, tables>>
        /\ imm = {} /\ imm' = mem /\ mem' = {}
    BY <1>2 DEF SwitchMemTable, AtFront, Open, told, MustWait
  <2>. QED  BY <2>1, OpenContentsSame
<1>. QED  BY <1>1, <1>2 DEF WriterStep

LEMMA VersionTables ==
  ASSUME DBInv, state = "open"
  PROVE  Files(version) \subseteq DOMAIN tables
BY DEF DBInv, OpenInv, FilesInv

LEMMA BackgroundStutters ==
  ASSUME DBInv, DBInv', BackgroundStep
  PROVE  ContentsSeen
<1>1. CASE BackgroundIdle \/ StartCompaction \/ InstallCompactionResults \/ AppendEdit
  <2>1. state = "open" /\ state' = "open" /\ UNCHANGED <<asked, promised, mem, imm, version, tables>>
    BY <1>1 DEF BackgroundIdle, StartCompaction, InstallCompactionResults, AppendEdit, Compacting, Open, told,
                memory, versions, disk
  <2>. QED  BY <2>1, OpenFrame
<1>2. CASE BuildTable \/ WriteCompactionOutput
  <2>1. PICK x, e : x = nextFile /\ tables' = With(tables, x, e)
    BY <1>2 DEF BuildTable, WriteCompactionOutput
  <2>2. state = "open" /\ state' = "open" /\ UNCHANGED <<asked, promised, mem, imm, version>>
    BY <1>2 DEF BuildTable, WriteCompactionOutput, Compacting, MayFlush, Open, told, memory
  <2>3. nextFile \notin DOMAIN tables /\ Files(version) \subseteq DOMAIN tables
    BY <2>2 DEF DBInv, MemoryTyped, OpenInv, FilesInv, FilesTyped
  <2>4. \A n \in Files(version) : tables'[n] = tables[n]
    BY <2>1, <2>3 DEF With
  <2>5. EntriesOf(tables', Files(version)) = EntriesOf(tables, Files(version))
    BY <2>4, EntriesOfSame
  <2>6. EntriesAt(tables', version') = EntriesAt(tables, version)
    BY <2>2, <2>5 DEF EntriesAt
  <2>. QED  BY <2>2, <2>6, OpenContentsSame
<1>3. CASE InstallFlush
  <2>1. PICK e \in edit : e.by = "flush" /\ NewVersion(e)
    BY <1>3 DEF InstallFlush
  <2>2. PICK held : held = readers \cup {c.base : c \in compaction}
    OBVIOUS
  <2>3. /\ state = "open" /\ state' = "open" /\ UNCHANGED <<told, asked, promised, mem>> /\ imm' = {}
        /\ DeleteObsoleteFiles(held, SyncManifest(manifests)) /\ readers \subseteq held
    BY <1>3, <2>1, <2>2 DEF InstallFlush, NewVersion, Open, told
  <2>4. imm' = IF e.by = "flush" THEN {} ELSE imm
    BY <2>1, <2>3
  <2>5. EntriesAt(tables', version') \cup imm' = EntriesAt(tables, version) \cup imm
    BY <2>1, <2>3, <2>4, InstallStep
  <2>. QED  BY <2>3, <2>5, OpenContentsSame
<1>4. CASE InstallCompaction
  <2>1. PICK e \in edit : e.by = "compaction" /\ NewVersion(e)
    BY <1>4 DEF InstallCompaction
  <2>2. /\ state = "open" /\ state' = "open" /\ UNCHANGED <<told, asked, promised, mem>> /\ imm' = imm
        /\ DeleteObsoleteFiles(readers, SyncManifest(manifests))
    BY <1>4, <2>1 DEF InstallCompaction, NewVersion, Open, told
  <2>3. imm' = IF e.by = "flush" THEN {} ELSE imm
    BY <2>1, <2>2
  <2>4. EntriesAt(tables', version') \cup imm' = EntriesAt(tables, version) \cup imm
    BY <2>1, <2>2, <2>3, InstallStep
  <2>. QED  BY <2>2, <2>4, OpenContentsSame
<1>. QED  BY <1>1, <1>2, <1>3, <1>4 DEF BackgroundStep

LEMMA FailureStutters ==
  ASSUME DBInv, DBInv', Failure
  PROVE  ContentsSeen
<1>1. /\ state = "open" /\ state' = "open" /\ UNCHANGED <<asked, promised, mem, imm, version, tables>>
  <2>1. CASE SwitchFails
    BY <2>1 DEF SwitchFails, AtFront, Open, told, memory, versions, disk
  <2>2. CASE AppendFails
    BY <2>2 DEF AppendFails, GroupReturns, Open, disk
  <2>3. CASE SyncFails
    BY <2>3 DEF SyncFails, GroupReturns, Open, disk
  <2>4. CASE BuildFails
    BY <2>4 DEF BuildFails, MayFlush, Open, told, memory, disk
  <2>5. CASE CompactionOutputFails
    BY <2>5 DEF CompactionOutputFails, Compacting, Open, told, memory, disk
  <2>6. CASE EditFails
    BY <2>6 DEF EditFails, Open, told, memory, versions, disk
  <2>. QED  BY <2>1, <2>2, <2>3, <2>4, <2>5, <2>6 DEF Failure
<1>. QED  BY <1>1, OpenFrame

LEMMA OpenStepStutters ==
  ASSUME DBInv, DBInv', OpenStep
  PROVE  ContentsSeen
<1>1. CASE Recover \/ RecoverLogFile \/ NewLog \/ WriteSnapshot
  <2>1. state # "open" /\ state' # "open" /\ UNCHANGED told
    BY <1>1 DEF Recover, RecoverLogFile, NewLog, WriteSnapshot
  <2>2. Stored' = Stored
    BY <1>1, RecoverStep, RecoverLogFileStep, NewLogStep, WriteSnapshotStep
  <2>. QED  BY <2>1, <2>2, RecoveryContentsSame
<1>2. CASE SetCurrentFile
  <2>1. state = "current" /\ state' = "open" /\ UNCHANGED <<asked, promised>>
    BY <1>2 DEF SetCurrentFile, told
  <2>2. mem' = {} /\ imm' = {} /\ EntriesAt(tables', version') = Stored
    BY <1>2, SetCurrentFileStep
  <2>3. Contents = Ids(Stored)
    BY <2>1, ContentsAre DEF ContentsStored
  <2>4. Contents' = Ids(mem' \cup imm' \cup EntriesAt(tables', version'))
    BY <2>1, ContentsAreNext DEF ContentsStored
  <2>. QED  BY <2>1, <2>2, <2>3, <2>4 DEF ContentsSeen
<1>. QED  BY <1>1, <1>2 DEF OpenStep

LEMMA QuietStutters ==
  ASSUME DBInv, DBInv', HoldVersion \/ ReleaseVersion \/ UNCHANGED vars
  PROVE  ContentsSeen
<1>1. CASE HoldVersion \/ ReleaseVersion
  <2>1. state = "open" /\ state' = "open" /\ UNCHANGED <<asked, promised, mem, imm, version, tables>>
    BY <1>1 DEF HoldVersion, ReleaseVersion, Open, told, memory, versions, disk
  <2>. QED  BY <2>1, OpenFrame
<1>2. CASE UNCHANGED vars
  <2>1. UNCHANGED <<state, mem, imm, version, tables, logs, manifests, current, asked, promised>>
    BY <1>2 DEF vars, disk, versions, memory, told
  <2>2. Contents' = Contents
    BY <2>1 DEF Contents, Found, Recoverable, Says
  <2>. QED  BY <2>1, <2>2 DEF ContentsSeen
<1>. QED  BY <1>1, <1>2

\* Every step of DBImpl is a step of the store, or one its callers cannot see.
LEMMA StepsImplement ==
  DBInv /\ DBInv' /\ [Next]_vars => [Store!Next]_<<asked, Contents, promised>>
<1> SUFFICES ASSUME DBInv, DBInv', [Next]_vars
             PROVE  Store!Next \/ ContentsSeen
  BY DEF ContentsSeen
<1>1. CASE \E sync \in BOOLEAN : Write(sync)
  BY <1>1, WriteAsks DEF Store!Next
<1>2. CASE InsertGroup
  BY <1>2, InsertGroupCommits DEF Store!Next
<1>3. CASE Kill \/ PowerLoss
  BY <1>3, KillCrashes, PowerLossCrashes DEF Store!Next
<1>4. CASE OpenStep
  BY <1>4, OpenStepStutters
<1>5. CASE HoldVersion \/ ReleaseVersion \/ UNCHANGED vars
  BY <1>5, QuietStutters
<1>6. CASE WriterStep
  BY <1>2, <1>6, WriterStutters
<1>7. CASE BackgroundStep \/ Failure
  BY <1>7, BackgroundStutters, FailureStutters
<1>. QED  BY <1>1, <1>3, <1>4, <1>5, <1>6, <1>7 DEF Next

\* The whole of DBImpl implements the durable store: of what its callers see, every step of
\* a writer, of the background thread, of DB::Open and every crash is a step of that store.
THEOREM SyncedWritesSurviveCorrect == Spec => SyncedWritesSurvive
<1>1. Init => Store!Init
  <2> SUFFICES ASSUME Init PROVE Store!Init
    OBVIOUS
  <2>1. state = "open" /\ mem = {} /\ imm = {} /\ version = NoTables /\ asked = {} /\ promised = {}
    BY DEF Init
  <2>2. Contents = {}
    BY <2>1 DEF Contents, Found, Files, NoTables, Ids
  <2>. QED  BY <2>1, <2>2 DEF Store!Init
<1>2. DBInv /\ DBInv' /\ [Next]_vars => [Store!Next]_<<asked, Contents, promised>>
  BY StepsImplement
<1>. QED  BY <1>1, <1>2, DBImplInvariance, PTL DEF Spec, SyncedWritesSurvive, Store!Spec
=============================================================================
