------------------------------ MODULE MCBatApp ------------------------------
(***************************************************************************)
(* Small instances of BatApp for TLC.                                      *)
(***************************************************************************)
EXTENDS BatAppProperties

CONSTANTS ana, bea, a1, n1

\* An account with nothing saved, as the app creates it.
Empty == [favorites |-> <<>>, notes |-> <<>>]
\* One with a favourite saved twice and a note.
Busy  == [favorites |-> <<a1, a1>>, notes |-> <<n1>>]

FirstLogin == {Nil}
Returning  == {Nil, Empty, Busy}
=============================================================================
