------------------------------ MODULE Directory ------------------------------
(***************************************************************************)
(* What the factory promises: a directory with one contract for each set   *)
(* of assets, which only grows, and a reader who is given at least what    *)
(* was listed when it began.                                               *)
(***************************************************************************)
VARIABLES
    entries,    \* what is listed: records of assets and their contract
    reading,    \* whether the reader is at it
    owed,       \* the contracts that were listed when it began
    given       \* the contracts it has been given

vars == <<entries, reading, owed, given>>

Contracts == {e.contract : e \in entries}

Init == entries = {} /\ reading = FALSE /\ owed = {} /\ given = {}

\* A contract that is not listed is listed for assets that have none.
List ==
    /\ \E e \in entries' \ entries :
          /\ entries' = entries \cup {e}
          /\ e.contract \notin Contracts
          /\ \A f \in entries : f.assets # e.assets
    /\ UNCHANGED <<reading, owed, given>>

Begin ==
    /\ ~reading /\ reading'
    /\ owed' = Contracts /\ given' = {}
    /\ UNCHANGED entries

\* The reader is given contracts it did not have, which are listed.
Give ==
    /\ reading
    /\ given # given' /\ given \subseteq given'
    /\ given' \subseteq Contracts
    /\ UNCHANGED <<entries, reading, owed>>

End ==
    /\ reading /\ ~reading'
    /\ owed \subseteq given
    /\ UNCHANGED <<entries, owed, given>>

Next == List \/ Begin \/ Give \/ End

Spec == Init /\ [][Next]_vars

=============================================================================
