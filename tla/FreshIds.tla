------------------------------ MODULE FreshIds ------------------------------
(***************************************************************************)
(* What the allocators of context IDs promise together: whoever allocates, *)
(* in whichever process, an ID is issued once.                             *)
(***************************************************************************)
EXTENDS Naturals, SequencesExt

VARIABLE issued    \* the IDs in the order in which they were issued

Issued == {issued[i] : i \in DOMAIN issued}

Init == issued = <<>>

\* Some ID that was not issued yet is.
Next == /\ issued' # <<>>
        /\ Front(issued') = issued
        /\ Last(issued') \in Nat \ Issued

Spec == Init /\ [][Next]_issued

=============================================================================
