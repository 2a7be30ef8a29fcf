------------------------------ MODULE Install ------------------------------
(* What a replacement of the installed identity promises, whatever fails   *)
(* on the way: the device holds the whole of one owner's records or, from  *)
(* the first write to the last, none that it would run; what was replaced  *)
(* never comes back; and every request ends.                                *)
CONSTANTS Owners, Nobody

VARIABLES
    installed,   \* whose records the device would run, or Nobody's
    requested    \* whose records a request is installing, or Nobody's

vars == <<installed, requested>>

Init ==
    /\ installed \in Owners \cup {Nobody}
    /\ requested = Nobody

Request ==
    /\ requested = Nobody
    /\ requested' \in Owners
    /\ UNCHANGED installed

\* A request that is not over may end with the step it takes.
Ends == requested' \in {requested, Nobody}

Withdraw ==
    /\ requested # Nobody
    /\ installed' = Nobody
    /\ Ends

Commit ==
    /\ requested # Nobody
    /\ installed = Nobody
    /\ installed' = requested
    /\ Ends

End ==
    /\ requested # Nobody
    /\ requested' = Nobody
    /\ UNCHANGED installed

Next == Request \/ Withdraw \/ Commit \/ End

\* Requests end; a commit that is also the end counts.
Spec == Init /\ [][Next]_vars /\ WF_vars(requested # Nobody /\ requested' = Nobody /\ Next)
=============================================================================
