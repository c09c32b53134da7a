------------------------ MODULE MCCreateTokenLocks ------------------------
(***************************************************************************)
(* Instances of CreateTokenLocks for TLC: a good file, one that has an     *)
(* entry on two lines, and one with an entry that initialize() refuses.    *)
(***************************************************************************)
EXTENDS CreateTokenLocks

CONSTANTS l1, l2, l3, l4, e1, e2, bad, a1, a2

MCEntries == {e1, e2, bad}
MCAmountOf == (e1 :> 1) @@ (e2 :> 2) @@ (bad :> 0)
MCEntryOf == (l1 :> e1) @@ (l2 :> e2) @@ (l3 :> bad) @@ (l4 :> e1)
MCFiles == {{l1, l2}, {l1, l4}, {l3}}
=============================================================================
