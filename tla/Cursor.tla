------------------------------- MODULE Cursor -------------------------------
(***************************************************************************)
(* What an iterator promises: a cursor over a set of items that does not   *)
(* change, whatever holds them and in whatever order it is moved.          *)
(***************************************************************************)
CONSTANTS Less(_, _),   \* the order of the items
          Target,       \* where one may seek
          Ends(_, _)    \* an item is at or after a target

VARIABLES contents,     \* the items
          at,           \* the item the cursor is on, or {}
          op            \* the call that brought it there

First(S) == {c \in S : \A d \in S \ {c} : Less(c, d)}
Last(S)  == {c \in S : \A d \in S \ {c} : Less(d, c)}

Init == at = {} /\ op = <<"none">>

SeekToFirst == op' = <<"first">> /\ at' = First(contents)
SeekToLast  == op' = <<"last">> /\ at' = Last(contents)
Seek(t)     == op' = <<"seek", t>> /\ at' = First({c \in contents : Ends(c, t)})

\* From an item to the nearest one after it, or before it, or off the end.
Next == /\ at # {}
        /\ op' = <<"next">>
        /\ at' = First({c \in contents : \A a \in at : Less(a, c)})

Prev == /\ at # {}
        /\ op' = <<"prev">>
        /\ at' = Last({c \in contents : \A a \in at : Less(c, a)})

Move == SeekToFirst \/ SeekToLast \/ (\E t \in Target : Seek(t)) \/ Next \/ Prev

\* The items do not change once there is a cursor.
Spec == Init /\ [][Move /\ UNCHANGED contents]_<<at, op>>
=============================================================================
