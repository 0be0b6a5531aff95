---------------------------- MODULE AtomicRecords ----------------------------
(***************************************************************************)
(* What the ordinary writer promises to those who use it as they should:   *)
(* an operation reads its record at one moment and changes its files at    *)
(* one moment, and only if nothing that it read has changed in between.    *)
(* Until it is finished it can be taken back and done again, in one step   *)
(* each.  People change single files when they like.                       *)
(***************************************************************************)
CONSTANTS
    Ops,      \* operations
    Files,    \* files of records
    Hands,    \* edits by people
    reads,    \* reads[o]: the files of the record that o is about
    touches,  \* touches[o]: the files that o changes
    Nil       \* nothing read, and what a file said at first

VARIABLES
    shown,    \* who wrote what a file says
    seen      \* what an operation read

Init ==
    /\ shown = [f \in Files |-> Nil]
    /\ seen = [o \in Ops |-> Nil]

Read(o) ==
    /\ seen[o] = Nil
    /\ seen' = [seen EXCEPT ![o] = [f \in reads[o] |-> shown[f]]]
    /\ UNCHANGED shown

(* Nothing that o read has changed since, but for what o itself changed. *)
StillSeen(o) ==
    /\ seen[o] # Nil
    /\ \A f \in reads[o] : shown[f] = seen[o][f]

Commit(o) ==
    /\ StillSeen(o)
    /\ shown' = [f \in Files |-> IF f \in touches[o] THEN o ELSE shown[f]]
    /\ UNCHANGED seen

Undo(o) ==
    /\ seen[o] # Nil
    /\ \A f \in touches[o] : shown[f] = o
    /\ shown' = [f \in Files |-> IF f \in touches[o] THEN seen[o][f] ELSE shown[f]]
    /\ UNCHANGED seen

Edit(f, h) ==
    /\ shown' = [shown EXCEPT ![f] = h]
    /\ UNCHANGED seen

Next ==
    \/ \E o \in Ops : Read(o) \/ Commit(o) \/ Undo(o)
    \/ \E f \in Files, h \in Hands : Edit(f, h)

Spec == Init /\ [][Next]_<<shown, seen>>
=============================================================================
