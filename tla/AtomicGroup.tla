----------------------------- MODULE AtomicGroup -----------------------------
(***************************************************************************)
(* What a change of authority promises to those who read one of the        *)
(* records it is about: the records of the group have one authority, it    *)
(* changes once and for all of them, a change that is given up does not    *)
(* happen after all, and a generation that was reserved for it is told to  *)
(* nobody.                                                                 *)
(***************************************************************************)
VARIABLES
    standing,   \* the authority of the group
    givenUp,    \* the change will not be made
    told        \* the last answer that a reader was given

Init ==
    /\ standing = "before"
    /\ givenUp = FALSE
    /\ told = "nothing"

GiveUp ==
    /\ standing = "before"
    /\ givenUp' = TRUE
    /\ UNCHANGED <<standing, told>>

Switch ==
    /\ standing = "before" /\ ~givenUp
    /\ standing' = "after"
    /\ UNCHANGED <<givenUp, told>>

(* What was given up has the next legacy generation. *)
Cancel ==
    /\ standing = "before" /\ givenUp
    /\ standing' = "cancelled"
    /\ UNCHANGED <<givenUp, told>>

Read ==
    /\ told' = standing
    /\ UNCHANGED <<standing, givenUp>>

Next == GiveUp \/ Switch \/ Cancel \/ Read

Spec == Init /\ [][Next]_<<standing, givenUp, told>>
=============================================================================
