---------------------------- MODULE AtomicHistory ----------------------------
(***************************************************************************)
(* What a compact record promises to everybody who opens it: a history that*)
(* only grows, one whole transaction at a time.  A transaction brings its  *)
(* manifest, the histories it imports, all their frames and evidence, and  *)
(* the view, in one step; nothing is ever taken away.  There is no journal,*)
(* lock, crash or recovery here: NodePublication shows that the program    *)
(* implements this (docs/node-history-storage.md, "Publication is journaled*)
(* under the directory guard").                                            *)
(***************************************************************************)
EXTENDS NodeHistory

VARIABLES commits, stream, evid, view

vars == <<commits, stream, evid, view>>

Init ==
    /\ commits = [o \in Ops |-> Nil]
    /\ stream = [s \in Subjects |-> {}]
    /\ evid \in SUBSET Sources
    /\ view \in {Nil} \cup [op : {Nil}, text : Texts]

(* The transaction o appears, and with it the histories it imports: whatever
   else is new.  It joins every tip of the history and of the imports. *)
Commit(o) ==
    /\ o \in Present(commits') \ Present(commits)
    /\ \A q \in Present(commits) : commits'[q] = commits[q]
    /\ \A q \in Present(commits') : commits'[q].op = q
    /\ ValidInventory(commits')
    /\ commits'[o].parents = Frontier([commits' EXCEPT ![o] = Nil])
    /\ evid' = evid \cup commits'[o].evidence
    /\ Complete(commits', stream', evid')
    /\ view' = After(commits'[o])

(* The user saves another body into the readable view. *)
Edit(t) ==
    /\ view # Nil
    /\ view' = [view EXCEPT !.text = t]
    /\ UNCHANGED <<commits, stream, evid>>

Next ==
    \/ \E o \in Ops : Commit(o)
    \/ \E t \in Texts : Edit(t)

Spec == Init /\ [][Next]_vars
=============================================================================
