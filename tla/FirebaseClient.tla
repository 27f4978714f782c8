--------------------------- MODULE FirebaseClient ---------------------------
(***************************************************************************)
(* The Firebase Realtime Database as the app uses it, external code: one   *)
(* client of one app, its observers, its cache, the writes not yet         *)
(* acknowledged and the callbacks dispatched to the main queue.            *)
(*                                                                         *)
(* The state is a record c:                                                *)
(*   server     what the server has stored, per account                    *)
(*   view       what the client would show: server under its own writes    *)
(*   pending    writes sent and not acknowledged, in order                 *)
(*   listeners  observers registered by the app                            *)
(*   synced     the paths whose first answer the client has                *)
(*   queue      callbacks waiting for the main thread: a sequence of       *)
(*              batches, a batch being the events of one change            *)
(*                                                                         *)
(* The client is the only writer of the records it shows, and the security *)
(* rules (not in the repository) let it read and write: the code observes  *)
(* the whole of users/.                                                    *)
(***************************************************************************)
EXTENDS UserRecord

CONSTANT MaxSame     \* registrations of one closure for one account kept apart
ASSUME MaxSameAssumption == MaxSame \in Nat \ {0}

\* The path of all the accounts; the path of an account is its uid.
AllUsers == "users"

Controller == {"Home", "Favorites", "Search", "Notes"}

(***************************************************************************)
(* An observer is told apart by the closure it runs: "users", the check of *)
(* an account on users/; "copy", the observer that check registers on      *)
(* users/uid; "rows", the one that fills a table; "once", the single event *)
(* of the search screen.  uid is the account the closure captured.         *)
(***************************************************************************)
Kind     == {"users", "copy", "rows", "once"}
Listener == [vc : Controller, uid : Uid, kind : Kind, n : 1 .. MaxSame]
Event    == [listener : Listener, snap : Stored \cup {Nil}]
Write    == [uid : Uid, record : Stored]

Client == [server    : [Uid -> Stored \cup {Nil}],
           view      : [Uid -> Stored \cup {Nil}],
           pending   : Seq(Write),
           listeners : SUBSET Listener,
           synced    : SUBSET (Uid \cup {AllUsers}),
           queue     : Seq(SUBSET Event)]

\* A client that has just started, with no persistence on the device.
FreshClient(server) ==
  [server |-> server, view |-> server, pending |-> <<>>, listeners |-> {},
   synced |-> {}, queue |-> <<>>]

\* The client knows the whole of users/u: a first answer, or its own write.
Complete(c, u) ==
  \/ AllUsers \in c.synced
  \/ u \in c.synced
  \/ \E i \in DOMAIN c.pending : c.pending[i].uid = u

HasData(c, l) == IF l.kind = "users" THEN AllUsers \in c.synced
                                     ELSE Complete(c, l.uid)

\* One callback for each listener, with the value the client has now.
Events(view, ls) == {[listener |-> l, snap |-> view[l.uid]] : l \in ls}

Dispatch(queue, view, ls) ==
  IF ls = {} THEN queue ELSE Append(queue, Events(view, ls))

\* The registration that observe() makes: a free copy, the first when none is.
Slot(c, vc, u, kind) ==
  LET Free(n) == [vc |-> vc, uid |-> u, kind |-> kind, n |-> n] \notin c.listeners
      n == CHOOSE n \in 1 .. MaxSame : Free(n) \/ \A m \in 1 .. MaxSame : ~Free(m)
  IN [vc |-> vc, uid |-> u, kind |-> kind, n |-> n]

\* observe(.value): the first event comes at once when the value is known.
Observe(c, vc, u, kind) ==
  LET l == Slot(c, vc, u, kind)
  IN [server    |-> c.server,
      view      |-> c.view,
      pending   |-> c.pending,
      listeners |-> c.listeners \cup {l},
      synced    |-> c.synced,
      queue     |-> Dispatch(c.queue, c.view, IF HasData(c, l) THEN {l} ELSE {})]

\* The observers a write of r to users/u fires: a value event needs a change,
\* or a value that was not complete before it.
Fired(c, u, r) ==
  {l \in c.listeners :
     IF l.kind = "users"
     THEN AllUsers \in c.synced /\ c.view[u] # r
     ELSE l.uid = u /\ (c.view[u] # r \/ ~Complete(c, u))}

\* setValue: shown at once to the observers, sent, acknowledged later.
SetValue(c, u, r) ==
  LET view == [c.view EXCEPT ![u] = r]
  IN [server    |-> c.server,
      view      |-> view,
      pending   |-> Append(c.pending, [uid |-> u, record |-> r]),
      listeners |-> c.listeners,
      synced    |-> c.synced,
      queue     |-> Dispatch(c.queue, view, Fired(c, u, r))]

\* The listens the server still has to answer; one on users/ covers the rest.
Unanswered(c) ==
  IF \E l \in c.listeners : l.kind = "users"
  THEN {AllUsers} \ c.synced
  ELSE {l.uid : l \in c.listeners} \ c.synced

\* The first answer to a listen.
Answer(c, p) ==
  LET fired == {l \in c.listeners :
                  IF l.kind = "users" THEN p = AllUsers
                  ELSE p \in {AllUsers, l.uid} /\ ~Complete(c, l.uid)}
  IN [server    |-> c.server,
      view      |-> c.view,
      pending   |-> c.pending,
      listeners |-> c.listeners,
      synced    |-> c.synced \cup {p},
      queue     |-> Dispatch(c.queue, c.view, fired)]

\* The server stores the oldest write and acknowledges it.
Ack(c) ==
  LET w == Head(c.pending)
  IN [server    |-> [c.server EXCEPT ![w.uid] = w.record],
      view      |-> c.view,
      pending   |-> Tail(c.pending),
      listeners |-> c.listeners,
      synced    |-> c.synced,
      queue     |-> c.queue]

\* The callbacks the main thread may run next: of one change, those on
\* users/uid before those on users/.
Due(c) ==
  {e \in Head(c.queue) :
     e.listener.kind = "users" => \A f \in Head(c.queue) : f.listener.kind = "users"}

\* The main thread takes a callback; a single-event observer is then removed,
\* and with the last observer of a path the client drops what it knew.
Take(c, e) ==
  LET l    == e.listener
      rest == Head(c.queue) \ {e}
      left == IF l.kind = "once" THEN c.listeners \ {l} ELSE c.listeners
      kept == \E k \in left : k.uid = l.uid \/ k.kind = "users"
  IN [server    |-> c.server,
      view      |-> c.view,
      pending   |-> c.pending,
      listeners |-> left,
      synced    |-> IF kept THEN c.synced ELSE c.synced \ {l.uid},
      queue     |-> IF rest = {} THEN Tail(c.queue) ELSE <<rest>> \o Tail(c.queue)]
=============================================================================
