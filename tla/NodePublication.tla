--------------------------- MODULE NodePublication ---------------------------
(***************************************************************************)
(* Journaled publication of one transaction into a compact record, and its *)
(* recovery: native/src/history_node_publication.rs, under the exclusive   *)
(* directory lock of native/src/history_transaction_fs.rs.                 *)
(*                                                                         *)
(* Several host processes prepare transactions against the record, publish *)
(* them, recover what another process left unfinished and read.  Publishing*)
(* and recovering take many separately durable steps while the lock is     *)
(* held; a process can stop between any two of them (a crash, or an I/O    *)
(* error that is returned), which releases the lock and leaves the journal.*)
(* Preparing and reading take the shared lock, so that they see no step of *)
(* a publication: each is one action.                                      *)
(***************************************************************************)
EXTENDS NodeHistory

CONSTANTS
    Procs,        \* host processes that open the record
    Foreign,      \* manifests of another branch that a union can import
    Drafts,       \* what callers ask to publish
    MaxCrashes,   \* bound on interrupted publications and recoveries
    MaxLosses,    \* bound on journaled additions lost before recovery
    MaxEdits      \* bound on edits of GROUNDING.yaml by its user

ASSUME ForeignAssumption ==
    /\ Foreign \subseteq Manifests
    /\ \A m, n \in Foreign : m.op = n.op => m = n

ASSUME DraftAssumption ==
    /\ Drafts \subseteq [op : Ops, text : Texts, subjects : SUBSET Subjects,
                         evidence : SUBSET Sources, imports : SUBSET Foreign]
    /\ \A d \in Drafts : \A m \in d.imports : m.op # d.op

ASSUME BoundAssumption ==
    /\ MaxCrashes \in Nat
    /\ MaxLosses \in Nat
    /\ MaxEdits \in Nat

(* struct Journal: everything that recovery needs.  fresh holds the evidence
   paths with existed = false, base is target_parents. *)
Journals == [manifest : Manifests, canonical : Views \cup {Nil},
             imports : SUBSET Foreign, base : SUBSET Ops,
             prefix : [Subjects -> SUBSET Frame], fresh : SUBSET Evidence]

ASSUME JournalAssumption == Nil \notin Journals

Inventories == [Ops -> Manifests \cup {Nil}]
Worlds == [commits : Inventories, stream : [Subjects -> SUBSET Frame],
           evid : SUBSET Evidence]

ASSUME WorldAssumption == Nil \notin Worlds

VARIABLES
    commits,    \* .kpopper/history-commits
    stream,     \* .kpopper/history
    evid,       \* evidence/
    view,       \* GROUNDING.yaml
    journal,    \* .kpopper/.history-node-publication.json
    pc,         \* where each process is; all but "idle" hold the lock
    prep,       \* the Prepared bytes each process keeps, across a crash too
    crashes, losses, edits,     \* steps of the environment so far
    raced,      \* history variable: the user saved while the lock was held
    pre,        \* history variable: the record when the journal was written
    witnessed   \* history variable: manifests some caller saw as committed

disk == <<commits, stream, evid, view, journal>>
budget == <<crashes, losses, edits, raced>>
vars == <<disk, pc, prep, budget, pre, witnessed>>

World == [commits |-> commits, stream |-> stream, evid |-> evid]

PublishSteps == {"checked", "writing", "committed", "viewed"}
RecoverySteps == {"rolling", "forward", "settled"}

TypeOK ==
    /\ commits \in Inventories
    /\ stream \in [Subjects -> SUBSET Frame]
    /\ evid \in SUBSET Evidence
    /\ view \in Views \cup {Nil}
    /\ journal \in Journals \cup {Nil}
    /\ pc \in [Procs -> {"idle"} \cup PublishSteps \cup RecoverySteps]
    /\ prep \in [Procs -> Journals \cup {Nil}]
    /\ crashes \in 0 .. MaxCrashes
    /\ losses \in 0 .. MaxLosses
    /\ edits \in 0 .. MaxEdits
    /\ raced \in BOOLEAN
    /\ pre \in Worlds \cup {Nil}
    /\ witnessed \in SUBSET Manifests

(* An unborn record: the marker reserves its identity and nothing is committed.
   Evidence may have been captured before, and the view is missing or an unbound
   document. *)
Init ==
    /\ commits = [o \in Ops |-> Nil]
    /\ stream = [s \in Subjects |-> {}]
    /\ evid \in SUBSET Sources
    /\ view \in {Nil} \cup [op : {Nil}, text : Texts]
    /\ journal = Nil
    /\ pc = [p \in Procs |-> "idle"]
    /\ prep = [p \in Procs |-> Nil]
    /\ crashes = 0 /\ losses = 0 /\ edits = 0 /\ raced = FALSE
    /\ pre = Nil
    /\ witnessed = {}

-----------------------------------------------------------------------------
(* The journal's parts, and the checks both paths make. *)

Op(j) == j.manifest.op
ImportOps(j) == {m.op : m \in j.imports}
Transactions(j) == j.imports \cup {j.manifest}

(* The frames the transaction appends to a stream: its own events and those
   of the histories it imports. *)
Tail(j, s) == UNION {Frames(m) : m \in {n \in Transactions(j) : s \in n.subjects}}
Touched(j) == {s \in Subjects : Tail(j, s) # {}}

(* The record without the transaction and its imports. *)
Without(c, j) ==
    [o \in Ops |-> IF o \in ImportOps(j) \cup {Op(j)} THEN Nil ELSE c[o]]
WithoutOwn(c, j) == [o \in Ops |-> IF o = Op(j) THEN Nil ELSE c[o]]

(* target_inventory: what the transaction was prepared on is still the whole
   history. *)
TargetInventory(j) ==
    /\ NoCollision(commits, j.imports)
    /\ ValidInventory(WithImports(commits, j.imports))
    /\ commits[Op(j)] \in {Nil, j.manifest}
    /\ ValidInventory(Without(commits, j))
    /\ Frontier(Without(commits, j)) = j.base

(* combined_inventory: the transaction joins every tip, imported ones too. *)
CombinedInventory(j) ==
    /\ NoCollision(commits, j.imports)
    /\ ValidInventory(WithImports(commits, j.imports))
    /\ commits[Op(j)] \in {Nil, j.manifest}
    /\ Frontier(WithoutOwn(WithImports(commits, j.imports), j)) = j.manifest.parents

AppendsDone(j) == \A s \in Touched(j) : Tail(j, s) \subseteq stream[s]
EvidenceDone(j) == j.manifest.evidence \subseteq evid
ImportsDone(j) == \A m \in j.imports : commits[m.op] = m

(* Variant: a tail is whole or absent, a torn one is refused. *)
WholeTail(j, s) == stream[s] \in {j.prefix[s], j.prefix[s] \cup Tail(j, s)}

(* append_state: the stream is the prefix the transaction was prepared on
   and a part of the frames the journal owns. *)
OwnTail(j, s) ==
    /\ j.prefix[s] \subseteq stream[s]
    /\ stream[s] \subseteq j.prefix[s] \cup Tail(j, s)

(* DirectoryGuard, exclusive: nobody is inside publish or recover. *)
LockFree == \A p \in Procs : pc[p] = "idle"
Release(p) == pc' = [pc EXCEPT ![p] = "idle"] /\ raced' = FALSE

-----------------------------------------------------------------------------
(* prepare_inner.  c is the canonical image that a caller supplies when the
   user has edited the view (prepare_edited, never with imports), or Nil. *)

Prepared(d, c) ==
    LET all == WithImports(commits, d.imports)
        m == [op |-> d.op, text |-> d.text, subjects |-> d.subjects,
              evidence |-> d.evidence \cup
                  (IF c = Nil THEN {} ELSE {[edit |-> d.op, bytes |-> view]}),
              parents |-> Frontier(all), before |-> view]
        touched == {s \in Subjects : \E n \in d.imports \cup {m} : s \in n.subjects}
    IN  [manifest |-> m, canonical |-> c, imports |-> d.imports,
         base |-> Frontier(commits),
         prefix |-> [s \in Subjects |-> IF s \in touched THEN stream[s] ELSE {}],
         fresh |-> m.evidence \ evid]

Prepare(p, d, c) ==
    LET j == Prepared(d, c)
    IN  /\ LockFree
        /\ prep[p] = Nil
        /\ journal = Nil
        /\ commits[d.op] = Nil
        /\ ValidInventory(commits)
        /\ VerifyHistory(commits, stream, evid, IF c = Nil THEN view ELSE c)
        /\ c # Nil => Present(commits) # {} /\ view # Nil /\ d.imports = {}
        /\ \A m \in d.imports : commits[m.op] = Nil
        /\ ValidInventory(WithImports(commits, d.imports))
        /\ \A m \in Transactions(j) : m.evidence \subseteq evid \cup j.manifest.evidence
        /\ prep' = [prep EXCEPT ![p] = j]
        /\ UNCHANGED <<disk, pc, budget, pre, witnessed>>

(* The caller drops a prepared transaction, after a refusal or a success. *)
Discard(p) ==
    /\ pc[p] = "idle"
    /\ prep[p] # Nil
    /\ prep' = [prep EXCEPT ![p] = Nil]
    /\ UNCHANGED <<disk, pc, budget, pre, witnessed>>

(* capture_snapshot, and capture_edited_snapshot with a canonical image: the
   whole closure is verified and the image is the one the only tip committed. *)
Capture(c) ==
    LET current == IF c = Nil THEN view ELSE c
    IN  /\ LockFree
        /\ journal = Nil
        /\ ValidInventory(commits)
        /\ c # Nil => Present(commits) # {}
        /\ VerifyHistory(commits, stream, evid, current)
        /\ Present(commits) # {} => current # Nil
        /\ witnessed' = witnessed \cup {commits[o] : o \in Present(commits)}
        /\ UNCHANGED <<disk, pc, prep, budget, pre>>

-----------------------------------------------------------------------------
(* publish *)

(* revalidate, under the lock: nothing the transaction depends on moved. *)
Revalidate(j) ==
    /\ \A e \in j.manifest.evidence : e \in evid <=> e \notin j.fresh
    /\ \A m \in j.imports : commits[m.op] = Nil
    /\ TargetInventory(j)
    /\ VerifyHistory(Without(commits, j), stream, evid,
                     IF j.canonical = Nil THEN view ELSE j.canonical)
    /\ CombinedInventory(j)
    /\ view = j.manifest.before
    /\ \A s \in Touched(j) : stream[s] = j.prefix[s]

PublishCheck(p) ==
    /\ LockFree
    /\ prep[p] # Nil
    /\ journal = Nil
    /\ commits[Op(prep[p])] = Nil
    /\ Revalidate(prep[p])
    /\ pc' = [pc EXCEPT ![p] = "checked"]
    /\ UNCHANGED <<disk, prep, budget, pre, witnessed>>

(* The transaction is committed already: an exact retry succeeds. *)
PublishRetry(p) ==
    /\ LockFree
    /\ prep[p] # Nil
    /\ journal = Nil
    /\ commits[Op(prep[p])] = prep[p].manifest
    /\ ValidInventory(commits)
    /\ VerifyHistory(commits, stream, evid, view)
    /\ view = After(prep[p].manifest)
    /\ prep' = [prep EXCEPT ![p] = Nil]
    /\ witnessed' = witnessed \cup {prep[p].manifest}
    /\ UNCHANGED <<disk, pc, budget, pre>>

WriteJournal(p) ==
    /\ pc[p] = "checked"
    /\ journal' = prep[p]
    /\ pre' = World
    /\ pc' = [pc EXCEPT ![p] = "writing"]
    /\ UNCHANGED <<commits, stream, evid, view, prep, budget, witnessed>>

(* append_frames, a part at a time: a crash leaves a torn tail. *)
AppendFrame(p, s) ==
    /\ pc[p] = "writing"
    /\ s \in Touched(journal)
    /\ OwnTail(journal, s)
    /\ \E f \in Tail(journal, s) \ stream[s] :
           stream' = [stream EXCEPT ![s] = @ \cup {f}]
    /\ UNCHANGED <<commits, evid, view, journal, pc, prep, budget, pre, witnessed>>

WriteEvidence(p, e) ==
    /\ pc[p] = "writing"
    /\ AppendsDone(journal)
    /\ e \in journal.manifest.evidence \ evid
    /\ evid' = evid \cup {e}
    /\ UNCHANGED <<commits, stream, view, journal, pc, prep, budget, pre, witnessed>>

WriteImport(p, m) ==
    /\ pc[p] = "writing"
    /\ AppendsDone(journal)
    /\ EvidenceDone(journal)
    /\ m \in journal.imports
    /\ commits[m.op] = Nil
    /\ commits' = [commits EXCEPT ![m.op] = m]
    /\ UNCHANGED <<stream, evid, view, journal, pc, prep, budget, pre, witnessed>>

(* Variant: the journal's bytes are stored under the manifest's name. *)
WriteManifestOfJournal(p) ==
    /\ pc[p] = "writing"
    /\ commits' = [commits EXCEPT ![Op(journal)] = journal]
    /\ pc' = [pc EXCEPT ![p] = "committed"]
    /\ UNCHANGED <<stream, evid, view, journal, prep, budget, pre, witnessed>>

(* The durable decision: the manifest appears. *)
WriteManifest(p) ==
    /\ pc[p] = "writing"
    /\ AppendsDone(journal)
    /\ EvidenceDone(journal)
    /\ ImportsDone(journal)
    /\ CombinedInventory(journal)
    /\ commits' = [commits EXCEPT ![Op(journal)] = journal.manifest]
    /\ pc' = [pc EXCEPT ![p] = "committed"]
    /\ UNCHANGED <<stream, evid, view, journal, prep, budget, pre, witnessed>>

ReplaceView(p) ==
    /\ pc[p] = "committed"
    /\ view' = After(journal.manifest)
    /\ pc' = [pc EXCEPT ![p] = "viewed"]
    /\ UNCHANGED <<commits, stream, evid, journal, prep, budget, pre, witnessed>>

FinishPublish(p) ==
    /\ pc[p] = "viewed"
    /\ EvidenceDone(journal)
    /\ ImportsDone(journal)
    /\ journal' = Nil
    /\ pre' = Nil
    /\ witnessed' = witnessed \cup {journal.manifest}
    /\ Release(p)
    /\ UNCHANGED <<commits, stream, evid, view, prep, crashes, losses, edits>>

-----------------------------------------------------------------------------
(* recover *)

Committed == commits[Op(journal)] # Nil

(* Variant: recovery takes whatever view it finds for one of its own. *)
RecoverAnyView(p) ==
    /\ LockFree
    /\ journal # Nil
    /\ \A s \in Touched(journal) : OwnTail(journal, s)
    /\ pc' = [pc EXCEPT ![p] = IF Committed THEN "forward" ELSE "rolling"]
    /\ UNCHANGED <<disk, prep, budget, pre, witnessed>>

(* Everything is checked, over the world that recovery will leave, before the
   first byte is changed. *)
RecoverCheck(p) ==
    LET j == journal
        m == j.manifest
        full == [s \in Subjects |-> IF s \in Touched(j)
                                      THEN j.prefix[s] \cup Tail(j, s) ELSE stream[s]]
        trimmed == [s \in Subjects |-> IF s \in Touched(j)
                                         THEN j.prefix[s] ELSE stream[s]]
        canonical == IF j.canonical = Nil THEN m.before ELSE j.canonical
    IN  /\ LockFree
        /\ j # Nil
        /\ commits[m.op] \in {Nil, m}
        /\ view = m.before \/ (Committed /\ view = After(m))
        /\ \A s \in Touched(j) : OwnTail(j, s)
        /\ m.evidence \ j.fresh \subseteq evid
        /\ IF Committed
             THEN /\ NoCollision(commits, j.imports)
                  /\ ValidInventory(WithImports(commits, j.imports))
                  /\ VerifyHistory(WithImports(commits, j.imports), full,
                                   evid \cup m.evidence, After(m))
             ELSE /\ TargetInventory(j)
                  /\ VerifyHistory(Without(commits, j), trimmed, evid, canonical)
        /\ pc' = [pc EXCEPT ![p] = IF Committed THEN "forward" ELSE "rolling"]
        /\ UNCHANGED <<disk, prep, budget, pre, witnessed>>

(* No manifest: take back what the journal owns, in the order of the code. *)
RemoveImport(p, m) ==
    /\ pc[p] = "rolling"
    /\ m \in journal.imports
    /\ commits[m.op] # Nil
    /\ commits' = [commits EXCEPT ![m.op] = Nil]
    /\ UNCHANGED <<stream, evid, view, journal, pc, prep, budget, pre, witnessed>>

ImportsGone(j) == \A m \in j.imports : commits[m.op] = Nil
TailsGone(j) == \A s \in Touched(j) : stream[s] = j.prefix[s]
EvidenceGone(j) == j.fresh \cap evid = {}

TruncateStream(p, s) ==
    /\ pc[p] = "rolling"
    /\ ImportsGone(journal)
    /\ s \in Touched(journal)
    /\ OwnTail(journal, s)
    /\ stream[s] # journal.prefix[s]
    /\ stream' = [stream EXCEPT ![s] = journal.prefix[s]]
    /\ UNCHANGED <<commits, evid, view, journal, pc, prep, budget, pre, witnessed>>

(* Variant: rollback removes every evidence file the manifest names, those
   that existed before included. *)
RemoveAnyEvidence(p, e) ==
    /\ pc[p] = "rolling"
    /\ ImportsGone(journal)
    /\ TailsGone(journal)
    /\ e \in evid
    /\ evid' = evid \ {e}
    /\ UNCHANGED <<commits, stream, view, journal, pc, prep, budget, pre, witnessed>>

RemoveEvidence(p, e) ==
    /\ pc[p] = "rolling"
    /\ ImportsGone(journal)
    /\ TailsGone(journal)
    /\ e \in journal.fresh \cap evid
    /\ evid' = evid \ {e}
    /\ UNCHANGED <<commits, stream, view, journal, pc, prep, budget, pre, witnessed>>

(* Variant: the view is restored before the tails are cut. *)
RestoreViewFirst(p) ==
    /\ pc[p] = "rolling"
    /\ ImportsGone(journal)
    /\ view' = journal.manifest.before
    /\ pc' = [pc EXCEPT ![p] = "settled"]
    /\ UNCHANGED <<commits, stream, evid, journal, prep, budget, pre, witnessed>>

RestoreView(p) ==
    /\ pc[p] = "rolling"
    /\ ImportsGone(journal)
    /\ TailsGone(journal)
    /\ EvidenceGone(journal)
    /\ view' = journal.manifest.before
    /\ pc' = [pc EXCEPT ![p] = "settled"]
    /\ UNCHANGED <<commits, stream, evid, journal, prep, budget, pre, witnessed>>

(* A manifest: finish the same transaction. *)
CompleteImport(p, m) ==
    /\ pc[p] = "forward"
    /\ m \in journal.imports
    /\ commits[m.op] = Nil
    /\ commits' = [commits EXCEPT ![m.op] = m]
    /\ UNCHANGED <<stream, evid, view, journal, pc, prep, budget, pre, witnessed>>

CompleteEvidence(p, e) ==
    /\ pc[p] = "forward"
    /\ ImportsDone(journal)
    /\ e \in journal.manifest.evidence \ evid
    /\ evid' = evid \cup {e}
    /\ UNCHANGED <<commits, stream, view, journal, pc, prep, budget, pre, witnessed>>

CompleteAppend(p, s) ==
    /\ pc[p] = "forward"
    /\ ImportsDone(journal)
    /\ EvidenceDone(journal)
    /\ s \in Touched(journal)
    /\ OwnTail(journal, s)
    /\ \E f \in Tail(journal, s) \ stream[s] :
           stream' = [stream EXCEPT ![s] = @ \cup {f}]
    /\ UNCHANGED <<commits, evid, view, journal, pc, prep, budget, pre, witnessed>>

(* Variant: the view is replaced before the rest is completed. *)
CompleteViewFirst(p) ==
    /\ pc[p] = "forward"
    /\ view' = After(journal.manifest)
    /\ pc' = [pc EXCEPT ![p] = "settled"]
    /\ UNCHANGED <<commits, stream, evid, journal, prep, budget, pre, witnessed>>

(* Variant: completion leaves the view that it found. *)
CompleteWithoutView(p) ==
    /\ pc[p] = "forward"
    /\ ImportsDone(journal)
    /\ EvidenceDone(journal)
    /\ AppendsDone(journal)
    /\ pc' = [pc EXCEPT ![p] = "settled"]
    /\ UNCHANGED <<commits, stream, evid, view, journal, prep, budget, pre, witnessed>>

CompleteView(p) ==
    /\ pc[p] = "forward"
    /\ ImportsDone(journal)
    /\ EvidenceDone(journal)
    /\ AppendsDone(journal)
    /\ ValidInventory(commits)
    /\ VerifyHistory(commits, stream, evid, After(journal.manifest))
    /\ view' = After(journal.manifest)
    /\ pc' = [pc EXCEPT ![p] = "settled"]
    /\ UNCHANGED <<commits, stream, evid, journal, prep, budget, pre, witnessed>>

FinishRecovery(p) ==
    /\ pc[p] = "settled"
    /\ journal' = Nil
    /\ pre' = Nil
    /\ witnessed' = IF Committed THEN witnessed \cup {journal.manifest} ELSE witnessed
    /\ Release(p)
    /\ UNCHANGED <<commits, stream, evid, view, prep, crashes, losses, edits>>

-----------------------------------------------------------------------------
(* The environment. *)

(* The process dies, or returns an error: the lock goes, the disk stays. *)
Interrupt(p) ==
    /\ pc[p] # "idle"
    /\ crashes < MaxCrashes
    /\ crashes' = crashes + 1
    /\ Release(p)
    /\ UNCHANGED <<disk, prep, losses, edits, pre, witnessed>>

(* Between a crash and its recovery, something the journal owns is damaged:
   a stream is cut inside the tail, an evidence file or an imported manifest
   is gone.  append_state, evidence_state and inventory_with accept this. *)
LoseAddition ==
    /\ LockFree
    /\ journal # Nil
    /\ losses < MaxLosses
    /\ losses' = losses + 1
    /\ \/ \E s \in Touched(journal) : \E f \in stream[s] \ journal.prefix[s] :
              /\ stream' = [stream EXCEPT ![s] = @ \ {f}]
              /\ UNCHANGED <<commits, evid>>
       \/ \E e \in journal.fresh \cap evid :
              /\ evid' = evid \ {e}
              /\ UNCHANGED <<commits, stream>>
       \/ \E m \in journal.imports :
              /\ commits[m.op] # Nil
              /\ commits' = [commits EXCEPT ![m.op] = Nil]
              /\ UNCHANGED <<stream, evid>>
    /\ UNCHANGED <<view, journal, pc, prep, crashes, edits, raced, pre, witnessed>>

(* The user saves GROUNDING.yaml, with no lock: at any time. *)
Edit(t) ==
    /\ edits < MaxEdits
    /\ edits' = edits + 1
    /\ view # Nil
    /\ view.text # t
    /\ view' = [view EXCEPT !.text = t]
    /\ raced' = ~LockFree
    /\ UNCHANGED <<commits, stream, evid, journal, pc, prep, crashes, losses, pre, witnessed>>

-----------------------------------------------------------------------------
Canonicals == {Nil} \cup {After(commits[o]) : o \in Frontier(commits)}

Publish(p) ==
    \/ WriteJournal(p)
    \/ \E s \in Subjects : AppendFrame(p, s)
    \/ journal # Nil /\ \E e \in journal.manifest.evidence : WriteEvidence(p, e)
    \/ journal # Nil /\ \E m \in journal.imports : WriteImport(p, m)
    \/ WriteManifest(p)
    \/ ReplaceView(p)
    \/ FinishPublish(p)

Recover(p) ==
    \/ journal # Nil /\ \E m \in journal.imports : RemoveImport(p, m) \/ CompleteImport(p, m)
    \/ \E s \in Subjects : TruncateStream(p, s) \/ CompleteAppend(p, s)
    \/ journal # Nil /\ \E e \in journal.manifest.evidence :
           RemoveEvidence(p, e) \/ CompleteEvidence(p, e)
    \/ RestoreView(p)
    \/ CompleteView(p)
    \/ FinishRecovery(p)

Next ==
    \/ \E p \in Procs :
           \/ \E d \in Drafts, c \in Canonicals : Prepare(p, d, c)
           \/ Discard(p)
           \/ PublishCheck(p)
           \/ PublishRetry(p)
           \/ Publish(p)
           \/ RecoverCheck(p)
           \/ Recover(p)
           \/ Interrupt(p)
    \/ \E c \in Canonicals : Capture(c)
    \/ LoseAddition
    \/ \E t \in Texts : Edit(t)

Spec == Init /\ [][Next]_vars

(* A process that holds the lock goes on, and someone runs `kpop recover`
   when every other operation answers node_publication_recovery_required. *)
Fairness ==
    \A p \in Procs : /\ WF_vars(Publish(p))
                     /\ WF_vars(Recover(p))
                     /\ WF_vars(RecoverCheck(p))

FairSpec == Spec /\ Fairness

-----------------------------------------------------------------------------
(* The record as its readers may know it.  Until the manifest is on disk it
   is the one the journal was written over; from then on it is that one and
   the whole transaction, whatever has reached the disk. *)

AfterCommits(w, j) == [WithImports(w.commits, j.imports) EXCEPT ![Op(j)] = j.manifest]
AfterWorld(w, j) ==
    [commits |-> AfterCommits(w, j),
     stream |-> [s \in Subjects |-> w.stream[s] \cup Tail(j, s)],
     evid |-> w.evid \cup j.manifest.evidence]

Logical ==
    IF journal = Nil THEN World
    ELSE IF Committed THEN AfterWorld(pre, journal) ELSE pre
LogicalView == IF journal # Nil /\ Committed /\ (view = Nil \/ view.op # Op(journal))
                 THEN After(journal.manifest) ELSE view

History == INSTANCE AtomicHistory
    WITH commits <- Logical.commits, stream <- Logical.stream,
         evid <- Logical.evid, view <- LogicalView

(* The steps of publish and recover implement one atomic step: every
   interrupted publication, at whatever step, in whatever order of crashes
   and recoveries, is either the whole transaction or nothing
   (docs/node-history-storage.md: no manifest means removing journal-owned
   additions, a manifest means finishing the same transaction). *)
ImplementsAtomicHistory == History!Spec

-----------------------------------------------------------------------------
(* A world that may be shown: one tip, whose closure is all there and is all
   there is. *)
Sound(w) ==
    /\ \A o \in Present(w.commits) : w.commits[o].op = o
    /\ ValidInventory(w.commits)
    /\ \A x, y \in Frontier(w.commits) : x = y
    /\ Complete(w.commits, w.stream, w.evid)

(* Whenever no journal is on disk, so that prepare, capture and publish would
   go ahead, the record is the complete closure of a history with one tip: no
   torn frame, no orphan frame, no missing evidence, no half-imported branch
   and no fork from two writers that prepared on the same tip. *)
QuiescentSound == journal = Nil => Sound(World)

(* What publish, recover or a capture has reported as committed stays: its
   manifest, every frame and every evidence file are on disk in every later
   state, in the middle of another transaction's rollback too. *)
WitnessedIntact ==
    \A m \in witnessed :
        /\ commits[m.op] = m
        /\ \A s \in m.subjects : Frames(m) \subseteq stream[s]
        /\ m.evidence \subseteq evid

(* Only one process at a time is inside publish or recover, through crashes
   and retries: the journal is never written over by a second publication. *)
JournalOwned ==
    [][journal # Nil => journal' \in {journal, Nil}]_journal

(* A journal goes away in exactly one of two ways: the record is bit for bit
   what it was when the journal was written and the view is the one observed
   then, or everything the journal names has been added and nothing else, the
   view included (recover's "rolled_back" and "committed"). *)
AllOrNothing ==
    [][journal # Nil /\ journal' = Nil =>
          \/ World' = pre /\ (raced \/ view' = journal.manifest.before)
          \/ /\ World' = AfterWorld(pre, journal)
             /\ raced \/ view' = After(journal.manifest)]_vars

(* An edit of a bound view is a body that its transaction did not commit. *)
Edited(v) == /\ v # Nil
             /\ v.op \in Present(commits)
             /\ v # After(commits[v.op])

(* Bytes a user has saved over the view are replaced only by the user, or
   once they are retained as evidence of the transaction that replaces them
   (docs/history-contract.md:210, "A conflicting user edit is preserved and
   refused").  The code fails it in one window, which is all that raced lets
   pass: a save after the process that replaces the view took the lock and
   compared it. *)
EditPreserved ==
    [][Edited(view) /\ view' # view =>
          \/ edits' # edits
          \/ raced
          \/ \E o \in Ops : [edit |-> o, bytes |-> view] \in evid]_vars

(* Without an edit the view and the history agree whenever no journal is on
   disk: every reader is served, whatever crashed before. *)
ReadersServed ==
    journal = Nil /\ edits = 0 =>
        /\ ViewOK(commits, view)
        /\ Present(commits) # {} => view # Nil

(* A pending journal is resolved, by its publisher or by recovery, unless the
   user has saved a view that is neither the one before nor the one after. *)
ForeignView ==
    /\ view # journal.manifest.before
    /\ ~Committed \/ view # After(journal.manifest)
PendingResolved == journal # Nil ~> (journal = Nil \/ ForeignView)

-----------------------------------------------------------------------------
(* The inductive invariant behind the safety properties. *)

(* The record under whatever transaction is pending. *)
Base == IF journal = Nil THEN World ELSE pre

Mutex == \A p, q \in Procs : pc[p] # "idle" /\ pc[q] # "idle" => p = q

(* The transaction j can be added to the world w as it stands. *)
Fits(w, j) ==
    /\ w \in Worlds
    /\ Sound(w)
    /\ w.commits[Op(j)] = Nil
    /\ \A m \in j.imports : w.commits[m.op] = Nil /\ m.op # Op(j)
    /\ ValidInventory(WithImports(w.commits, j.imports))
    /\ Frontier(WithImports(w.commits, j.imports)) = j.manifest.parents
    /\ \A s \in Touched(j) : j.prefix[s] = w.stream[s]
    /\ j.fresh = j.manifest.evidence \ w.evid
    /\ \A m \in Transactions(j) : m.evidence \subseteq w.evid \cup j.manifest.evidence

(* The disk holds all of w and, beyond it, only what j adds. *)
Between(w, j) ==
    /\ \A o \in Ops : commits[o] \in {w.commits[o], AfterCommits(w, j)[o]}
    /\ \A s \in Subjects : /\ w.stream[s] \subseteq stream[s]
                           /\ stream[s] \subseteq w.stream[s] \cup Tail(j, s)
    /\ w.evid \subseteq evid
    /\ evid \subseteq w.evid \cup j.manifest.evidence

JournalInv ==
    /\ journal = Nil <=> pre = Nil
    /\ journal # Nil => Fits(pre, journal) /\ Between(pre, journal)

(* What a prepared transaction keeps while others publish. *)
PrepInv ==
    \A p \in Procs : prep[p] # Nil =>
        /\ \A m \in prep[p].imports : m.op # Op(prep[p])
        /\ prep[p].fresh \subseteq prep[p].manifest.evidence
        /\ \A m \in Transactions(prep[p]) :
               m.evidence \subseteq Base.evid \cup prep[p].manifest.evidence

PcInv ==
    \A p \in Procs :
        /\ pc[p] = "checked" =>
               journal = Nil /\ prep[p] # Nil /\ Fits(World, prep[p])
        /\ pc[p] \in {"writing", "rolling"} => journal # Nil /\ ~Committed
        /\ pc[p] \in {"committed", "viewed"} =>
               journal # Nil /\ World = AfterWorld(pre, journal)
        /\ pc[p] = "forward" => journal # Nil /\ Committed
        /\ pc[p] = "viewed" => raced \/ view = After(journal.manifest)
        /\ pc[p] = "settled" =>
               /\ journal # Nil
               /\ World = IF Committed THEN AfterWorld(pre, journal) ELSE pre
               /\ raced \/ view = IF Committed THEN After(journal.manifest)
                                                     ELSE journal.manifest.before

WitnessInv == \A m \in witnessed : Base.commits[m.op] = m

IndInv ==
    /\ TypeOK
    /\ Mutex
    /\ QuiescentSound
    /\ JournalInv
    /\ PrepInv
    /\ PcInv
    /\ WitnessInv

(* The part of it that the view adds, for the refinement. *)
SameOp(v, w) == /\ v = Nil <=> w = Nil
                /\ v # Nil => v.op = w.op
Known(v, c) == v # Nil => v.op \in Present(c) \cup {Nil}

ViewInv ==
    /\ journal = Nil => Known(view, commits)
    /\ journal # Nil => Known(journal.manifest.before, pre.commits)
    /\ journal # Nil =>
           \/ SameOp(view, journal.manifest.before)
           \/ Committed /\ view # Nil /\ view.op = Op(journal)
    /\ \A p \in Procs :
           /\ pc[p] = "checked" => SameOp(view, prep[p].manifest.before)
           /\ pc[p] = "viewed" => view # Nil /\ view.op = Op(journal)
           /\ pc[p] = "settled" /\ Committed => view # Nil /\ view.op = Op(journal)

(* The part for readers: while nobody has edited the view, it is one of the
   two views that the journal allows, and the right one once a step has
   checked or replaced it. *)
Serves(c, v) == ViewOK(c, v) /\ (Present(c) # {} => v # Nil)

Readable ==
    /\ journal = Nil => Serves(commits, view)
    /\ journal # Nil =>
           /\ Serves(pre.commits, journal.manifest.before)
           /\ \/ view = journal.manifest.before
              \/ Committed /\ view = After(journal.manifest)
    /\ \A p \in Procs :
           /\ pc[p] = "checked" => view = prep[p].manifest.before
           /\ pc[p] = "viewed" => view = After(journal.manifest)
           /\ pc[p] = "settled" =>
                  view = IF Committed THEN After(journal.manifest)
                                      ELSE journal.manifest.before

ReadInv == edits = 0 => Readable

(* The part for edits: a transaction starts from a view that was committed
   or keeps its bytes as evidence, and without a save since the lock was taken
   the view stays the one that was checked until it is replaced. *)
Retained(c, j) ==
    LET v == j.manifest.before
    IN  \/ v = Nil \/ v.op = Nil
        \/ v.op \in Present(c) /\ v = After(c[v.op])
        \/ [edit |-> Op(j), bytes |-> v] \in j.manifest.evidence

Steady(p) ==
    /\ pc[p] = "checked" => view = prep[p].manifest.before
    /\ pc[p] \in {"writing", "committed", "rolling"} => view = journal.manifest.before
    /\ pc[p] = "forward" => view \in {journal.manifest.before, After(journal.manifest)}

EditInv ==
    /\ \A p \in Procs : prep[p] # Nil => Retained(Base.commits, prep[p])
    /\ journal # Nil => Retained(pre.commits, journal)
    /\ ~raced => \A p \in Procs : Steady(p)
=============================================================================
