----------------------------- MODULE NodeHistory -----------------------------
(***************************************************************************)
(* The data a compact record is made of, and the checks that the program   *)
(* makes of it: native/src/history_node_publication.rs.                    *)
(*                                                                         *)
(* A record keeps, under one directory,                                    *)
(*   .kpopper/history-commits/<op>.json   a manifest per transaction,      *)
(*   .kpopper/history/<subject>.jsonl     a stream of frames per subject,  *)
(*   evidence/...                         immutable evidence files,        *)
(*   GROUNDING.yaml                       the readable view.               *)
(*                                                                         *)
(* A manifest is identified by its contents here; the program compares the *)
(* digest of those contents.  A frame is the bytes of one event: it is     *)
(* named by the transaction that wrote it and split into Units parts, so   *)
(* that a torn write leaves some of them.  A stream is the set of the      *)
(* parts on disk.  The order of the parts is not kept, which allows every  *)
(* torn tail the program can leave, and others.                            *)
(***************************************************************************)
EXTENDS Naturals, FiniteSets

CONSTANTS
    Ops,        \* identifiers of transactions
    Subjects,   \* the subjects that have a stream
    Sources,    \* paths of captured evidence
    Texts,      \* readable bodies of a view
    Units,      \* parts of a frame that can reach the disk separately
    Nil         \* an absent file, an absent operand

ASSUME UnitsAssumption == Units \in Nat \ {0}
ASSUME NilAssumption == Nil \notin Ops

(* The bytes of GROUNDING.yaml: a body, bound to the transaction that wrote
   it by meta.node_publication (bind_view); op = Nil is an unbound document. *)
Views == [op : Ops \cup {Nil}, text : Texts]

(* evidence/view-edits/<op>.yaml holds the bytes of the edited view that the
   transaction op was prepared from; the other paths are in Sources. *)
Evidence == Sources \cup [edit : Ops, bytes : Views]

Manifests == [op : Ops, text : Texts, subjects : SUBSET Subjects,
              evidence : SUBSET Evidence, parents : SUBSET Ops,
              before : Views \cup {Nil}]

Frame == Ops \X Texts \X (1 .. Units)

ASSUME ManifestAssumption == Nil \notin Manifests \cup Views

(* The frames one transaction writes to each of its subjects. *)
Frames(m) == {<<m.op, m.text, i>> : i \in 1 .. Units}

(* The view a manifest commits: after_view. *)
After(m) == [op |-> m.op, text |-> m.text]

-----------------------------------------------------------------------------
(* Inventories: c maps a transaction to its manifest, or to Nil. *)

Present(c) == {o \in Ops : c[o] # Nil}

(* The tips: transactions nobody names as a parent. *)
Frontier(c) == {o \in Present(c) : \A q \in Present(c) : o \notin c[q].parents}

(* Every set of transactions has one whose parents are all outside it. *)
Acyclic(c) ==
    \A S \in SUBSET Present(c) :
        S # {} => \E o \in S : c[o].parents \cap S = {}

ValidInventory(c) ==
    /\ \A o \in Present(c) : c[o].parents \subseteq Present(c)
    /\ Acyclic(c)

(* The inventory read together with the manifests a union is to import. *)
WithImports(c, imports) ==
    [o \in Ops |-> IF \E m \in imports : m.op = o
                     THEN CHOOSE m \in imports : m.op = o
                     ELSE c[o]]

NoCollision(c, imports) == \A m \in imports : c[m.op] \in {Nil, m}

-----------------------------------------------------------------------------
(* The complete closure of an inventory: exactly the frames and at least the
   evidence that its manifests name. *)

CommittedFrames(c, s) ==
    UNION {Frames(c[o]) : o \in {q \in Present(c) : s \in c[q].subjects}}

Complete(c, st, ev) ==
    /\ \A s \in Subjects : st[s] = CommittedFrames(c, s)
    /\ \A o \in Present(c) : c[o].evidence \subseteq ev

(* A missing view passes; an existing one is bound to the only tip and has
   the bytes its manifest committed. *)
ViewOK(c, v) ==
    v # Nil =>
        /\ Present(c) = {} => v.op = Nil
        /\ Present(c) # {} => Frontier(c) = {v.op} /\ v = After(c[v.op])

VerifyHistory(c, st, ev, v) ==
    /\ Complete(c, st, ev)
    /\ ViewOK(c, v)
=============================================================================
