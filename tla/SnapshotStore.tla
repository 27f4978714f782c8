--------------------------- MODULE SnapshotStore ---------------------------
(***************************************************************************)
(* What a key-value store with snapshots promises: a write changes its key *)
(* and nothing else, a snapshot is the store as it was when it was taken,  *)
(* and nothing that happens inside the store can be seen.  The writes are  *)
(* counted, so that a step that makes none is seen to change no value.     *)
(***************************************************************************)
EXTENDS Integers

CONSTANTS Key, Absent, Snapshot,
          Value     \* the value of each write, by its number

VARIABLES writes,   \* how many writes were made
          value,    \* what each key has now
          frozen    \* for each snapshot held, what each key had

Init ==
  /\ writes = 0
  /\ value = [k \in Key |-> Absent]
  /\ frozen = [s \in {} |-> value]

\* The key has what this write put there, or nothing when it was a deletion.
Write(k) ==
  /\ writes' = writes + 1
  /\ \E v \in {Value[writes + 1], Absent} : value' = [value EXCEPT ![k] = v]
  /\ UNCHANGED frozen

GetSnapshot(s) ==
  /\ s \notin DOMAIN frozen
  /\ frozen' = [t \in DOMAIN frozen \cup {s} |-> IF t = s THEN value ELSE frozen[t]]
  /\ UNCHANGED <<writes, value>>

ReleaseSnapshot(s) ==
  /\ s \in DOMAIN frozen
  /\ frozen' = [t \in DOMAIN frozen \ {s} |-> frozen[t]]
  /\ UNCHANGED <<writes, value>>

Next ==
  \/ \E k \in Key : Write(k)
  \/ \E s \in Snapshot : GetSnapshot(s) \/ ReleaseSnapshot(s)

Spec == Init /\ [][Next]_<<writes, value, frozen>>
=============================================================================
