-------------------------- MODULE MCNodePublication --------------------------
(* Small instances of NodePublication for TLC. *)
EXTENDS NodePublication, TLC

CONSTANTS a, b, u, f, g,  \* transactions: two local, a union, two foreign
          s1, s2,         \* subjects
          e1, e2,         \* captured evidence
          x, y            \* bodies of a view

(* Processes are interchangeable. *)
Symmetry == Permutations(Procs)

(* Another branch with two transactions, the second built on the first. *)
First == [op |-> f, text |-> x, subjects |-> {s1}, evidence |-> {e2},
          parents |-> {}, before |-> Nil]
Second == [op |-> g, text |-> y, subjects |-> {s2}, evidence |-> {},
           parents |-> {f}, before |-> After(First)]

Draft(o, t, subjects, evidence, imports) ==
    [op |-> o, text |-> t, subjects |-> subjects, evidence |-> evidence,
     imports |-> imports]

TwoForeign == {First, Second}

(* A local transaction, asked for in two different forms, and the union that
   imports the other branch: rivals for the same tip with frames and evidence
   in common. *)
RivalDrafts == {Draft(a, x, {s1}, {e2}, {}), Draft(a, y, {s2}, {}, {}),
                Draft(u, x, {s1}, {e2}, {First, Second})}

(* A first transaction that imports another one, and a second for the edits of
   the view. *)
Lone == [op |-> f, text |-> x, subjects |-> {s1}, evidence |-> {},
         parents |-> {}, before |-> Nil]
ImportDrafts == {Draft(u, x, {s1}, {}, {Lone}), Draft(b, x, {s1}, {}, {})}
LoneForeign == {Lone}
=============================================================================
