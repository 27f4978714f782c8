-------------------------- MODULE DBImplProperties --------------------------
(***************************************************************************)
(* What DBImpl must keep, and the store it implements.                     *)
(***************************************************************************)
EXTENDS DBImpl

Entry == [id : 1 .. MaxWrites, seq : Nat \ {0}]
Writer == [id : 1 .. MaxWrites, sync : BOOLEAN]

(***************************************************************************)
(* The type invariant.  In it, that a step of the background thread has at *)
(* most one edit and one compaction.                                       *)
(***************************************************************************)
TypeOK ==
  /\ \A n \in DOMAIN logs : logs[n].data \in Seq(SUBSET Entry)
  /\ \A n \in DOMAIN tables : tables[n] \subseteq Entry
  /\ current \in DOMAIN manifests
  /\ mem \subseteq Entry /\ imm \subseteq Entry
  /\ queue \in Seq(Writer)
  /\ state \in {"open", "down", "replay", "manifest", "current"}
  /\ Cardinality(compaction) <= 1 /\ Cardinality(edit) <= 1

\* What readers find: the memtables and the tables of the current version.
Found == mem \cup imm \cup UNION {tables[n] : n \in Files(version) \cap DOMAIN tables}

Contents == IF state = "open" THEN Ids(Found) ELSE Recoverable

(***************************************************************************)
(* A write that returned ok is read, through every switch, flush and       *)
(* compaction, and after the process died and the store was opened again,  *)
(* with the sync option or without it.  Only the loss of power may undo    *)
(* one that was not synced.                                                *)
(***************************************************************************)
AckedWritesAreRead == acked \subseteq Contents

(***************************************************************************)
(* Sequence numbers tell the entries apart, follow the order of the        *)
(* writes, and the next write is newer than all of them: also after a      *)
(* crash between a log, a table and the MANIFEST.                          *)
(***************************************************************************)
SequencesFollowWrites ==
  state = "open" =>
    /\ \A e \in Found : e.seq <= lastSequence
    /\ \A d, e \in Found : d.id < e.id => d.seq < e.seq

(***************************************************************************)
(* No table that something may still read is deleted: those of the current *)
(* version, of the versions readers hold, of a compaction's inputs and     *)
(* outputs, of an edit on its way, and of every state that DB::Open may    *)
(* find in the MANIFEST after a loss of power.                             *)
(***************************************************************************)
NeededTablesExist ==
  /\ Files(version) \cup UNION readers \subseteq DOMAIN tables
  /\ \A c \in compaction : c.inputs \subseteq DOMAIN tables
  /\ \A c \in compaction : c.step # "start" => c.output \subseteq DOMAIN tables
  /\ \A e \in edit : e.add0 \cup e.add1 \subseteq DOMAIN tables
  /\ \A i \in manifests[current].synced .. Len(manifests[current].data) :
       Files(manifests[current].data[i].version) \subseteq DOMAIN tables

Store == INSTANCE DurableStore WITH
  WriteId <- 1 .. MaxWrites, contents <- Contents, durable <- promised

(***************************************************************************)
(* DBImpl implements the durable store: a synced write outlives every      *)
(* crash, at any step of a write, of a flush, of a compaction and of       *)
(* DB::Open itself; opening the store changes nothing; and a write a crash *)
(* undid does not come back.                                               *)
(***************************************************************************)
SyncedWritesSurvive == Store!Spec

(***************************************************************************)
(* A writer in the queue returns, unless the process dies: the signals on  *)
(* bg_cv_ and the calls of MaybeScheduleCompaction leave no writer waiting *)
(* for the immutable memtable to go, also after errors.                    *)
(***************************************************************************)
WritersReturn ==
  \A w \in 1 .. MaxWrites :
    w \in {queue[i].id : i \in DOMAIN queue} ~> w \notin {queue[i].id : i \in DOMAIN queue}
=============================================================================
