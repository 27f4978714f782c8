---------------------------- MODULE DurableStore ----------------------------
(***************************************************************************)
(* What a store that outlives crashes promises.  A write is asked for and  *)
(* may become part of the contents; a write that was reported durable is   *)
(* in the contents for ever; of the others a crash keeps any, and what it  *)
(* did not keep never comes back.                                          *)
(***************************************************************************)
CONSTANT WriteId

VARIABLES asked,     \* the writes that are or may still become part of the contents
          contents,  \* the writes in the store
          durable    \* the writes reported durable

Init == asked = {} /\ contents = {} /\ durable = {}

Ask ==
  /\ \E w \in WriteId \ asked : asked' = asked \cup {w}
  /\ UNCHANGED <<contents, durable>>

\* Several writes become part of the contents at once, and may be reported durable.
Commit ==
  /\ contents \subseteq contents' /\ contents' \subseteq asked
  /\ durable \subseteq durable' /\ durable' \subseteq contents'
  /\ UNCHANGED asked

Crash ==
  /\ durable \subseteq contents' /\ contents' \subseteq asked
  /\ asked' = contents'
  /\ UNCHANGED durable

Next == Ask \/ Commit \/ Crash

Spec == Init /\ [][Next]_<<asked, contents, durable>>
=============================================================================
