------------------------- MODULE MCLegacyTransaction -------------------------
(* A record of two directories, the second file of which is opened as a
   record of its own in another project. *)
EXTENDS LegacyTransaction

CONSTANTS a, m, Whole, Single, o1, o2

InDir == [f \in {a, m} |-> IF f = a THEN 1 ELSE 2]
EntryOf == [r \in {Whole, Single} |-> IF r = Whole THEN a ELSE m]
MembersOf == [r \in {Whole, Single} |-> IF r = Whole THEN {a, m} ELSE {m}]
ProjectOf == [r \in {Whole, Single} |-> IF r = Whole THEN 1 ELSE 2]
AboutOf == [o \in Ops |-> IF o = o2 THEN Single ELSE Whole]
ImagesOf == [o \in Ops |-> IF o = o1 THEN <<m, a>> ELSE <<m>>]
=============================================================================
