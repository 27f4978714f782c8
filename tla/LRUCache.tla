------------------------------ MODULE LRUCache ------------------------------
(***************************************************************************)
(* One shard of LevelDB's cache of tables and blocks.  An entry is in the  *)
(* cache, or held by callers, or both; it is freed, and its deleter run,   *)
(* when it is neither.  A step is what one call does with the mutex held,  *)
(* except that the loops of Insert and Prune take a step for each entry    *)
(* they remove, with the mutex still held.                                 *)
(*                                                                         *)
(* HandleTable is a function from keys to entries: its buckets are left    *)
(* out.  An address that was freed may be given out again.                 *)
(***************************************************************************)
EXTENDS Integers, Sequences, FiniteSetsExt

CONSTANTS Key, Address,
          Charges,       \* what an entry may be charged
          Capacity,      \* capacity_
          MaxHandles     \* bound: handles callers hold at once

None == 0

ASSUME CacheAssumption ==
  /\ Charges \subseteq Nat /\ Capacity \in Nat /\ MaxHandles \in Nat
  /\ Address \subseteq Nat \ {None}

VARIABLES entries,   \* the entries allocated: key, charge, refs
          inCache,   \* those with in_cache
          lru,       \* lru_, the oldest first
          inUse,     \* in_use_
          table,     \* table_: the entry of each key, or None
          usage,     \* usage_
          handles,   \* the handles callers hold on each address
          loop       \* the loop that runs with the mutex held, if any

cacheVars == <<entries, inCache, lru, inUse, table, usage, handles, loop>>

\* What the operators of the cache work on.
Shard(E, C, L, U, n) == [entries |-> E, inCache |-> C, lru |-> L, inUse |-> U, usage |-> n]

Cache == Shard(entries, inCache, lru, inUse, usage)

-----------------------------------------------------------------------------
Without(s, e) ==
  IF \E i \in DOMAIN s : s[i] = e
  THEN LET i == CHOOSE i \in DOMAIN s : s[i] = e
       IN SubSeq(s, 1, i - 1) \o SubSeq(s, i + 1, Len(s))
  ELSE s

\* LRU_Remove takes an entry from the list it is in: Without(lru, e), inUse \ {e}.

Counted(E, e, n) == [E EXCEPT ![e].refs = @ + n]

Freed(E, e) == [d \in DOMAIN E \ {e} |-> E[d]]

Added(E, e, h) == [d \in DOMAIN E \cup {e} |-> IF d = e THEN h ELSE E[d]]

\* Mutant: a reference is counted only when the entry leaves the LRU list.
RefOnce(c, e) ==
  IF c.entries[e].refs = 1 /\ e \in c.inCache
  THEN Shard(Counted(c.entries, e, 1), c.inCache, Without(c.lru, e), c.inUse \cup {e}, c.usage)
  ELSE c

\* Ref: the first reference but the cache's makes the entry one in use.
Ref(c, e) ==
  IF c.entries[e].refs = 1 /\ e \in c.inCache
  THEN Shard(Counted(c.entries, e, 1), c.inCache, Without(c.lru, e), c.inUse \cup {e}, c.usage)
  ELSE Shard(Counted(c.entries, e, 1), c.inCache, c.lru, c.inUse, c.usage)

\* Mutant: an entry whose last handle is released stays on the in-use list.
UnrefLeaves(c, e) ==
  Shard(IF c.entries[e].refs = 1 THEN Freed(c.entries, e) ELSE Counted(c.entries, e, -1),
        c.inCache, c.lru, c.inUse, c.usage)

\* Unref: the last reference frees the entry, the last but the cache's makes it the
\* newest of the LRU list.
Unref(c, e) ==
  IF c.entries[e].refs = 1
  THEN Shard(Freed(c.entries, e), c.inCache, c.lru, c.inUse, c.usage)
  ELSE IF c.entries[e].refs = 2 /\ e \in c.inCache
  THEN Shard(Counted(c.entries, e, -1), c.inCache, Append(Without(c.lru, e), e),
             c.inUse \ {e}, c.usage)
  ELSE Shard(Counted(c.entries, e, -1), c.inCache, c.lru, c.inUse, c.usage)

\* The entry is not in the cache any more: FinishErase before it drops the reference.
Uncached(c, e, charge) ==
  Shard(c.entries, c.inCache \ {e}, Without(c.lru, e), c.inUse \ {e}, c.usage - charge)

\* Mutant: the charge of an entry that callers still hold stays.
FinishEraseCharged(c, e) ==
  IF e = None THEN c
  ELSE Unref(Uncached(c, e, IF c.entries[e].refs = 1 THEN c.entries[e].charge ELSE 0), e)

FinishErase(c, e) ==
  IF e = None THEN c ELSE Unref(Uncached(c, e, c.entries[e].charge), e)

Becomes(c) ==
  /\ entries' = c.entries /\ inCache' = c.inCache
  /\ lru' = c.lru /\ inUse' = c.inUse /\ usage' = c.usage

-----------------------------------------------------------------------------
CacheInit ==
  /\ entries = [e \in {} |-> 0]
  /\ inCache = {} /\ lru = <<>> /\ inUse = {} /\ usage = 0
  /\ table = [k \in Key |-> None]
  /\ handles = [e \in Address |-> 0]
  /\ loop = "none"

MutexFree == loop = "none"

Held(e) == [handles EXCEPT ![e] = @ + 1]

MayHold == FoldFunction(+, 0, handles) < MaxHandles

\* Insert up to its loop.  Without a capacity the entry is the caller's alone.
Insert(k, n) ==
  /\ MutexFree /\ MayHold
  /\ \E e \in Address \ DOMAIN entries :
       LET cached == Capacity > 0
           h == [key |-> k, charge |-> n, refs |-> IF cached THEN 2 ELSE 1]
           E == Added(entries, e, h)
           c == IF cached THEN Shard(E, inCache \cup {e}, lru, inUse \cup {e}, usage + n)
                ELSE Shard(E, inCache, lru, inUse, usage)
       IN /\ Becomes(IF cached THEN FinishErase(c, table[k]) ELSE c)
          /\ table' = IF cached THEN [table EXCEPT ![k] = e] ELSE table
          /\ handles' = Held(e)
  /\ loop' = "insert"

Prune ==
  /\ MutexFree
  /\ loop' = "prune"
  /\ UNCHANGED <<entries, inCache, lru, inUse, table, usage, handles>>

\* Whether the loop goes on.
Goes == lru # <<>> /\ (loop = "prune" \/ (loop = "insert" /\ usage > Capacity))

\* The oldest entry of the LRU list goes, by its key.
RemoveOldest ==
  /\ Goes
  /\ LET k == entries[Head(lru)].key
     IN /\ Becomes(FinishErase(Cache, table[k]))
        /\ table' = [table EXCEPT ![k] = None]
  /\ UNCHANGED <<handles, loop>>

LoopEnds ==
  /\ ~MutexFree /\ ~Goes
  /\ loop' = "none"
  /\ UNCHANGED <<entries, inCache, lru, inUse, table, usage, handles>>

Lookup(k) ==
  /\ MutexFree /\ MayHold
  /\ table[k] # None
  /\ Becomes(Ref(Cache, table[k]))
  /\ handles' = Held(table[k])
  /\ UNCHANGED <<table, loop>>

Release(e) ==
  /\ MutexFree /\ handles[e] > 0
  /\ Becomes(Unref(Cache, e))
  /\ handles' = [handles EXCEPT ![e] = @ - 1]
  /\ UNCHANGED <<table, loop>>

Erase(k) ==
  /\ MutexFree
  /\ Becomes(FinishErase(Cache, table[k]))
  /\ table' = [table EXCEPT ![k] = None]
  /\ UNCHANGED <<handles, loop>>

CacheNext ==
  \/ \E k \in Key : (\E n \in Charges : Insert(k, n)) \/ Lookup(k) \/ Erase(k)
  \/ \E e \in Address : Release(e)
  \/ Prune \/ RemoveOldest \/ LoopEnds

CacheSpec == CacheInit /\ [][CacheNext]_cacheVars

-----------------------------------------------------------------------------
InTable == {table[k] : k \in Key} \ {None}

(***************************************************************************)
(* An entry is there exactly as long as a caller holds it or a lookup can  *)
(* find it: what a handle refers to is never freed, whatever was inserted  *)
(* over it, erased or evicted, and nothing is left behind.                 *)
(***************************************************************************)
EntriesLiveAsLongAsNeeded ==
  DOMAIN entries = {e \in Address : handles[e] > 0} \cup InTable

(***************************************************************************)
(* usage_ is the charge of what is in the cache, not of entries that were  *)
(* replaced or erased and that callers still hold.                         *)
(***************************************************************************)
UsageIsCharged == usage = MapThenSumSet(LAMBDA e : entries[e].charge, InTable)

(***************************************************************************)
(* Insert leaves more in the cache than its capacity only when callers     *)
(* hold all of it, and Prune leaves only what callers hold.                *)
(***************************************************************************)
OverCapacityOnlyInUse ==
  [][loop # "none" /\ loop' = "none" /\ (loop = "prune" \/ usage' > Capacity)
       => \A e \in InTable' : handles'[e] > 0]_cacheVars
=============================================================================
