------------------------ MODULE NodePublicationProofs ------------------------
(***************************************************************************)
(* Theorems about NodePublication, for every set of processes,             *)
(* transactions, subjects and drafts and every bound on crashes, losses and*)
(* edits.                                                                  *)
(***************************************************************************)
EXTENDS NodePublication, TLAPS

USE NilAssumption, ManifestAssumption, JournalAssumption, WorldAssumption

-----------------------------------------------------------------------------
(* Inventories *)

(* The frames of a manifest are frames. *)
LEMMA FramesType == \A m \in Manifests : Frames(m) \subseteq Frame
BY UnitsAssumption DEF Manifests, Frames, Frame

(* Reading an inventory with the imports finds each import under its own
   name, and everything else as it is. *)
LEMMA ImportLookup ==
    ASSUME NEW c \in Inventories, NEW I \in SUBSET Foreign
    PROVE  /\ WithImports(c, I) \in Inventories
           /\ \A m \in I : m.op \in Ops /\ WithImports(c, I)[m.op] = m
           /\ \A o \in Ops : (\A m \in I : m.op # o) => WithImports(c, I)[o] = c[o]
<1>1. \A m \in I : m \in Manifests /\ m.op \in Ops
  BY ForeignAssumption DEF Manifests
<1>2. \A m \in I : WithImports(c, I)[m.op] = m
  <2> SUFFICES ASSUME NEW m \in I PROVE WithImports(c, I)[m.op] = m
    OBVIOUS
  <2>1. m.op \in Ops
    BY <1>1
  <2>2. WithImports(c, I)[m.op] = CHOOSE n \in I : n.op = m.op
    BY <2>1 DEF WithImports
  <2>3. (CHOOSE n \in I : n.op = m.op) \in I /\ (CHOOSE n \in I : n.op = m.op).op = m.op
    OBVIOUS
  <2> QED
    BY <2>2, <2>3, ForeignAssumption
<1>3. \A o \in Ops : (\A m \in I : m.op # o) => WithImports(c, I)[o] = c[o]
  BY DEF WithImports
<1>4. \A o \in Ops : WithImports(c, I)[o] \in Manifests \cup {Nil}
  BY <1>1, <1>2, <1>3 DEF Inventories
<1>5. WithImports(c, I) = [o \in Ops |-> WithImports(c, I)[o]]
  BY DEF WithImports
<1> QED
  BY <1>1, <1>2, <1>3, <1>4, <1>5 DEF Inventories

(* A new transaction on top of a valid inventory, with no child yet, leaves
   it valid, and if its parents are all the tips it is the only tip. *)
LEMMA AddTip ==
    ASSUME NEW c \in Inventories, NEW m \in Manifests,
           ValidInventory(c), c[m.op] = Nil, m.parents = Frontier(c)
    PROVE  /\ ValidInventory([c EXCEPT ![m.op] = m])
           /\ Frontier([c EXCEPT ![m.op] = m]) = {m.op}
           /\ Present([c EXCEPT ![m.op] = m]) = Present(c) \cup {m.op}
<1> DEFINE d == [c EXCEPT ![m.op] = m]
<1>1. m.op \in Ops /\ m # Nil
  BY DEF Manifests
<1>2. d[m.op] = m /\ \A o \in Ops : o # m.op => d[o] = c[o]
  BY <1>1 DEF Inventories
<1>3. Present(d) = Present(c) \cup {m.op} /\ m.op \notin Present(c)
  BY <1>1, <1>2 DEF Present
<1>4. m.parents \subseteq Present(c)
  BY DEF Frontier
<1>5. \A o \in Present(c) : c[o].parents \subseteq Present(c)
  BY DEF ValidInventory
<1>6. \A o \in Present(d) : m.op \notin d[o].parents
  BY <1>2, <1>3, <1>4, <1>5 DEF Present
<1>7. \A o \in Present(d) : d[o].parents \subseteq Present(d)
  BY <1>2, <1>3, <1>4, <1>5 DEF Present
<1>8. Acyclic(d)
  <2> SUFFICES ASSUME NEW S \in SUBSET Present(d), S # {}
               PROVE  \E o \in S : d[o].parents \cap S = {}
    BY DEF Acyclic
  <2>1. CASE S = {m.op}
    BY <2>1, <1>6
  <2>2. CASE S # {m.op}
    <3> DEFINE T == S \ {m.op}
    <3>1. T \in SUBSET Present(c) /\ T # {}
      BY <2>2, <1>3
    <3>2. PICK o \in T : c[o].parents \cap T = {}
      BY <3>1 DEF ValidInventory, Acyclic
    <3>3. d[o].parents = c[o].parents
      BY <3>1, <3>2, <1>2 DEF Present
    <3>4. d[o].parents \cap S = {}
      BY <3>2, <3>3, <1>6
    <3> QED
      BY <3>2, <3>4
  <2> QED
    BY <2>1, <2>2
<1>9. Frontier(d) = {m.op}
  <2>1. m.op \in Frontier(d)
    BY <1>3, <1>6 DEF Frontier
  <2>2. ASSUME NEW o \in Frontier(d), o # m.op PROVE FALSE
    <3>1. o \in Present(c)
      BY <2>2, <1>3 DEF Frontier
    <3>2. \A q \in Present(c) : o \notin c[q].parents
      BY <1>2, <1>3 DEF Frontier, Present
    <3>3. o \in m.parents
      BY <3>1, <3>2 DEF Frontier
    <3> QED
      BY <3>3, <1>2, <1>3 DEF Frontier
  <2> QED
    BY <2>1, <2>2
<1> QED
  BY <1>3, <1>7, <1>8, <1>9 DEF ValidInventory

-----------------------------------------------------------------------------
(* A pending transaction *)

(* The parts of a journal have the types their names say. *)
LEMMA JournalType ==
    ASSUME NEW j \in Journals
    PROVE  /\ j.manifest \in Manifests
           /\ Op(j) \in Ops
           /\ j.imports \in SUBSET Foreign
           /\ Transactions(j) \subseteq Manifests
           /\ \A s \in Subjects : Tail(j, s) \subseteq Frame
           /\ j.manifest.evidence \subseteq Evidence
<1>1. j.manifest \in Manifests /\ j.imports \in SUBSET Foreign
  BY DEF Journals
<1>2. Op(j) \in Ops /\ j.manifest.evidence \subseteq Evidence
  BY <1>1 DEF Op, Manifests
<1>3. Transactions(j) \subseteq Manifests
  BY <1>1, ForeignAssumption DEF Transactions
<1>4. \A s \in Subjects : Tail(j, s) \subseteq Frame
  BY <1>3, FramesType DEF Tail
<1> QED
  BY <1>1, <1>2, <1>3, <1>4

(* The inventory after the transaction: the old one, the imports and the
   manifest, each under its name. *)
LEMMA AfterLookup ==
    ASSUME NEW w \in Worlds, NEW j \in Journals,
           \A m \in j.imports : m.op # Op(j)
    PROVE  /\ AfterCommits(w, j) \in Inventories
           /\ AfterCommits(w, j)[Op(j)] = j.manifest
           /\ \A m \in j.imports : AfterCommits(w, j)[m.op] = m
           /\ \A o \in Ops : o # Op(j) /\ (\A m \in j.imports : m.op # o)
                             => AfterCommits(w, j)[o] = w.commits[o]
<1> DEFINE all == WithImports(w.commits, j.imports)
<1>1. w.commits \in Inventories
  BY DEF Worlds
<1>2. /\ j.manifest \in Manifests /\ Op(j) \in Ops
      /\ j.imports \in SUBSET Foreign
  BY JournalType
<1>3. /\ all \in Inventories
      /\ \A m \in j.imports : m.op \in Ops /\ all[m.op] = m
      /\ \A o \in Ops : (\A m \in j.imports : m.op # o) => all[o] = w.commits[o]
  BY <1>1, <1>2, ImportLookup
<1>4. AfterCommits(w, j) = [all EXCEPT ![Op(j)] = j.manifest]
  BY DEF AfterCommits
<1> HIDE DEF all
<1> QED
  BY <1>2, <1>3, <1>4 DEF Inventories

(* The transaction is the only tip of the inventory it leaves. *)
LEMMA AfterTip ==
    ASSUME NEW w \in Worlds, NEW j \in Journals, Fits(w, j)
    PROVE  /\ ValidInventory(AfterCommits(w, j))
           /\ Frontier(AfterCommits(w, j)) = {Op(j)}
           /\ Present(AfterCommits(w, j)) =
                  Present(WithImports(w.commits, j.imports)) \cup {Op(j)}
<1> DEFINE all == WithImports(w.commits, j.imports)
<1>1. /\ j.manifest \in Manifests /\ Op(j) \in Ops
      /\ j.imports \in SUBSET Foreign /\ w.commits \in Inventories
  BY JournalType DEF Worlds
<1>2. \A m \in j.imports : m.op # Op(j)
  BY DEF Fits
<1>3. all \in Inventories /\ all[Op(j)] = Nil
  BY <1>1, <1>2, ImportLookup DEF Fits
<1>4. ValidInventory(all) /\ Frontier(all) = j.manifest.parents
  BY DEF Fits
<1>5. AfterCommits(w, j) = [all EXCEPT ![j.manifest.op] = j.manifest]
  BY DEF AfterCommits, Op
<1> HIDE DEF all
<1> QED
  BY <1>1, <1>3, <1>4, <1>5, AddTip DEF Op, all

(* A transaction that fits a sound world leaves a sound world. *)
LEMMA AfterSound ==
    ASSUME NEW w \in Worlds, NEW j \in Journals, Fits(w, j)
    PROVE  Sound(AfterWorld(w, j))
<1> DEFINE all == WithImports(w.commits, j.imports)
           new == AfterCommits(w, j)
<1>1. /\ j.manifest \in Manifests /\ Op(j) \in Ops
      /\ j.imports \in SUBSET Foreign /\ w.commits \in Inventories
  BY JournalType DEF Worlds
<1>2. \A m \in j.imports : m.op # Op(j) /\ w.commits[m.op] = Nil
  BY DEF Fits
<1>3. /\ all \in Inventories
      /\ \A m \in j.imports : m.op \in Ops /\ all[m.op] = m
      /\ \A o \in Ops : (\A m \in j.imports : m.op # o) => all[o] = w.commits[o]
  BY <1>1, ImportLookup
<1>5. /\ ValidInventory(new)
      /\ Frontier(new) = {Op(j)}
      /\ Present(new) = Present(all) \cup {Op(j)}
  BY AfterTip
<1>6. /\ new \in Inventories /\ new[Op(j)] = j.manifest
      /\ \A m \in j.imports : new[m.op] = m
      /\ \A o \in Ops : o # Op(j) /\ (\A m \in j.imports : m.op # o)
                        => new[o] = w.commits[o]
  BY <1>2, AfterLookup
<1>7. ASSUME NEW o \in Ops
      PROVE  \/ o \in Present(w.commits) /\ new[o] = w.commits[o]
             \/ o = Op(j) /\ new[o] = j.manifest
             \/ \E m \in j.imports : o = m.op /\ new[o] = m
             \/ o \notin Present(new) /\ o \notin Present(w.commits)
  BY <1>6 DEF Present
<1>8. \A m \in Transactions(j) : m.op \in Present(new) /\ new[m.op] = m /\ m # Nil
  <2>1. \A m \in j.imports : m \in Manifests
    BY <1>1, ForeignAssumption
  <2> QED
    BY <1>1, <1>3, <1>6, <2>1 DEF Transactions, Op, Present
<1>9. \A o \in Present(w.commits) : o \in Present(new) /\ new[o] = w.commits[o]
  <2>1. \A o \in Present(w.commits) : o \in Ops /\ w.commits[o] # Nil
    BY DEF Present
  <2>2. \A o \in Present(w.commits) : o # Op(j) /\ (\A m \in j.imports : m.op # o)
    BY <2>1, <1>2 DEF Fits
  <2> QED
    BY <2>1, <2>2, <1>6 DEF Present
<1>10. \A o \in Present(new) : new[o].op = o
  BY <1>7 DEF Fits, Sound, Op, Present
<1>11. ASSUME NEW s \in Subjects
       PROVE  w.stream[s] \cup Tail(j, s) = CommittedFrames(new, s)
  <2>1. w.stream[s] = CommittedFrames(w.commits, s)
    BY <1>11 DEF Fits, Sound, Complete
  <2>2. Tail(j, s) \subseteq CommittedFrames(new, s)
    BY <1>8 DEF Tail, CommittedFrames
  <2>3. CommittedFrames(w.commits, s) \subseteq CommittedFrames(new, s)
    BY <1>9 DEF CommittedFrames
  <2>4. ASSUME NEW o \in Present(new), s \in new[o].subjects
        PROVE  Frames(new[o]) \subseteq CommittedFrames(w.commits, s) \cup Tail(j, s)
    <3>1. o \in Ops
      BY DEF Present
    <3>2. CASE o \in Present(w.commits) /\ new[o] = w.commits[o]
      BY <2>4, <3>2 DEF CommittedFrames
    <3>3. CASE new[o] \in Transactions(j)
      BY <2>4, <3>3 DEF Tail
    <3> QED
      BY <1>7, <3>1, <3>2, <3>3 DEF Transactions
  <2>5. CommittedFrames(new, s) \subseteq CommittedFrames(w.commits, s) \cup Tail(j, s)
    BY <2>4 DEF CommittedFrames
  <2> QED
    BY <2>1, <2>2, <2>3, <2>5
<1>12. \A o \in Present(new) : new[o].evidence \subseteq w.evid \cup j.manifest.evidence
  <2> SUFFICES ASSUME NEW o \in Present(new)
               PROVE  new[o].evidence \subseteq w.evid \cup j.manifest.evidence
    OBVIOUS
  <2>1. CASE o \in Present(w.commits) /\ new[o] = w.commits[o]
    BY <2>1 DEF Fits, Sound, Complete
  <2>2. CASE new[o] \in Transactions(j)
    BY <2>2 DEF Fits
  <2> QED
    BY <1>7, <2>1, <2>2 DEF Transactions, Present
<1>13. /\ AfterWorld(w, j).commits = new
       /\ AfterWorld(w, j).stream = [s \in Subjects |-> w.stream[s] \cup Tail(j, s)]
       /\ AfterWorld(w, j).evid = w.evid \cup j.manifest.evidence
  BY DEF AfterWorld
<1> HIDE DEF new, all
<1>14. Complete(AfterWorld(w, j).commits, AfterWorld(w, j).stream, AfterWorld(w, j).evid)
  BY <1>11, <1>12, <1>13 DEF Complete
<1> QED
  BY <1>5, <1>10, <1>13, <1>14 DEF Sound

-----------------------------------------------------------------------------
(* Facts about one state *)

(* While a process holds the lock the others are outside. *)
LEMMA OthersIdle ==
    ASSUME Mutex, NEW p \in Procs, pc[p] # "idle", NEW q \in Procs, q # p
    PROVE  pc[q] = "idle"
BY DEF Mutex

(* The prefix, the tail and the fresh evidence leave nothing else to undo:
   when they are gone the disk is the world the journal was written over. *)
LEMMA UndoneWorld ==
    ASSUME TypeOK, journal \in Journals, pre \in Worlds,
           Fits(pre, journal), Between(pre, journal), ~Committed,
           ImportsGone(journal), TailsGone(journal), EvidenceGone(journal)
    PROVE  World = pre
<1>1. /\ Op(journal) \in Ops
      /\ commits \in Inventories /\ pre.commits \in Inventories
      /\ \A m \in journal.imports : pre.commits[m.op] = Nil /\ m.op # Op(journal)
  BY JournalType DEF TypeOK, Worlds, Fits
<1>2. \A o \in Ops : commits[o] = pre.commits[o]
  <2> SUFFICES ASSUME NEW o \in Ops PROVE commits[o] = pre.commits[o]
    OBVIOUS
  <2>1. CASE o = Op(journal)
    BY <2>1 DEF Committed, Fits
  <2>2. CASE \E m \in journal.imports : m.op = o
    BY <2>2, <1>1 DEF ImportsGone
  <2>3. CASE o # Op(journal) /\ \A m \in journal.imports : m.op # o
    BY <2>3, <1>1, AfterLookup DEF Between
  <2> QED
    BY <2>1, <2>2, <2>3
<1>3. commits = pre.commits
  BY <1>1, <1>2 DEF Inventories
<1>4. \A s \in Subjects : stream[s] = pre.stream[s]
  <2> SUFFICES ASSUME NEW s \in Subjects PROVE stream[s] = pre.stream[s]
    OBVIOUS
  <2>1. CASE s \in Touched(journal)
    BY <2>1 DEF TailsGone, Fits
  <2>2. CASE s \notin Touched(journal)
    BY <2>2 DEF Touched, Between
  <2> QED
    BY <2>1, <2>2
<1>5. stream = pre.stream
  BY <1>4 DEF TypeOK, Worlds
<1>6. evid = pre.evid
  BY DEF EvidenceGone, Fits, Between
<1> QED
  BY <1>3, <1>5, <1>6 DEF World, Worlds

(* When nothing the journal names is missing, and the manifest is there, the
   disk is the world after the transaction. *)
LEMMA DoneWorld ==
    ASSUME TypeOK, journal \in Journals, pre \in Worlds,
           Fits(pre, journal), Between(pre, journal),
           NEW c \in Inventories, c[Op(journal)] = journal.manifest,
           \A o \in Ops : o # Op(journal) => c[o] = commits[o],
           AppendsDone(journal), EvidenceDone(journal), ImportsDone(journal)
    PROVE  [commits |-> c, stream |-> stream, evid |-> evid] = AfterWorld(pre, journal)
<1>1. /\ Op(journal) \in Ops
      /\ commits \in Inventories /\ pre.commits \in Inventories
      /\ \A m \in journal.imports : m.op # Op(journal)
  BY JournalType DEF TypeOK, Worlds, Fits
<1>2. /\ AfterCommits(pre, journal) \in Inventories
      /\ AfterCommits(pre, journal)[Op(journal)] = journal.manifest
      /\ \A m \in journal.imports : AfterCommits(pre, journal)[m.op] = m
      /\ \A o \in Ops : o # Op(journal) /\ (\A m \in journal.imports : m.op # o)
                        => AfterCommits(pre, journal)[o] = pre.commits[o]
  BY <1>1, AfterLookup
<1>3. \A o \in Ops : c[o] = AfterCommits(pre, journal)[o]
  <2> SUFFICES ASSUME NEW o \in Ops PROVE c[o] = AfterCommits(pre, journal)[o]
    OBVIOUS
  <2>1. CASE o = Op(journal)
    BY <2>1, <1>2
  <2>2. CASE \E m \in journal.imports : m.op = o
    BY <2>2, <1>1, <1>2 DEF ImportsDone
  <2>3. CASE o # Op(journal) /\ \A m \in journal.imports : m.op # o
    BY <2>3, <1>2 DEF Between
  <2> QED
    BY <2>1, <2>2, <2>3
<1>4. c = AfterCommits(pre, journal)
  BY <1>2, <1>3 DEF Inventories
<1>5. \A s \in Subjects : stream[s] = pre.stream[s] \cup Tail(journal, s)
  <2> SUFFICES ASSUME NEW s \in Subjects
               PROVE  stream[s] = pre.stream[s] \cup Tail(journal, s)
    OBVIOUS
  <2>1. CASE s \in Touched(journal)
    BY <2>1 DEF AppendsDone, Between
  <2>2. CASE s \notin Touched(journal)
    BY <2>2 DEF Touched, Between
  <2> QED
    BY <2>1, <2>2
<1>6. stream = [s \in Subjects |-> pre.stream[s] \cup Tail(journal, s)]
  BY <1>5 DEF TypeOK
<1>7. evid = pre.evid \cup journal.manifest.evidence
  BY DEF EvidenceDone, Between
<1> QED
  BY <1>4, <1>6, <1>7 DEF AfterWorld

(* A step that leaves the journal, the prepared transactions and the
   witnesses alone, and the disk between the two worlds, keeps everything
   but the types, the lock and the facts about the steps themselves. *)
LEMMA PendingKeeps ==
    ASSUME IndInv, journal # Nil, UNCHANGED <<journal, pre, prep, witnessed>>,
           Between(pre, journal)'
    PROVE  QuiescentSound' /\ JournalInv' /\ PrepInv' /\ WitnessInv'
<1>1. QuiescentSound'
  BY DEF QuiescentSound
<1>2. JournalInv'
  BY DEF IndInv, JournalInv
<1>3. Base' = Base
  BY DEF Base
<1>4. PrepInv'
  BY <1>3 DEF IndInv, PrepInv
<1>5. WitnessInv'
  BY <1>3 DEF IndInv, WitnessInv
<1> QED
  BY <1>1, <1>2, <1>4, <1>5

(* The same for the facts about steps: only the process that holds the lock
   has any. *)
LEMMA HolderMoves ==
    ASSUME IndInv, NEW p \in Procs, pc[p] # "idle",
           NEW v \in {"idle"} \cup PublishSteps \cup RecoverySteps,
           pc' = [pc EXCEPT ![p] = v]
    PROVE  /\ pc' \in [Procs -> {"idle"} \cup PublishSteps \cup RecoverySteps]
           /\ Mutex'
           /\ \A q \in Procs : q # p => pc'[q] = "idle"
           /\ pc'[p] = v
BY OthersIdle DEF IndInv, TypeOK, Mutex

-----------------------------------------------------------------------------
(* Every action keeps the invariant *)

(* A prepared transaction is well typed. *)
LEMMA PreparedType ==
    ASSUME TypeOK, NEW d \in Drafts, NEW c \in Canonicals, c # Nil => view # Nil
    PROVE  Prepared(d, c) \in Journals
<1>1. /\ d.op \in Ops /\ d.text \in Texts /\ d.subjects \in SUBSET Subjects
      /\ d.evidence \in SUBSET Sources /\ d.imports \in SUBSET Foreign
  BY DraftAssumption
<1>2. c \in Views \cup {Nil}
  <2> SUFFICES ASSUME c # Nil PROVE c \in Views
    OBVIOUS
  <2>1. PICK o \in Frontier(commits) : c = After(commits[o])
    BY DEF Canonicals
  <2>2. commits[o] \in Manifests
    BY DEF Frontier, Present, TypeOK, Inventories
  <2> QED
    BY <2>1, <2>2 DEF After, Manifests, Views
<1>3. d.evidence \cup (IF c = Nil THEN {} ELSE {[edit |-> d.op, bytes |-> view]})
         \in SUBSET Evidence
  BY <1>1 DEF Evidence, TypeOK
<1>4. /\ Frontier(WithImports(commits, d.imports)) \in SUBSET Ops
      /\ Frontier(commits) \in SUBSET Ops
  BY DEF Frontier, Present
<1>5. view \in Views \cup {Nil}
  BY DEF TypeOK
<1>6. \A T : [s \in Subjects |-> IF s \in T THEN stream[s] ELSE {}]
                 \in [Subjects -> SUBSET Frame]
  BY DEF TypeOK
<1>7. Prepared(d, c).manifest \in Manifests
  BY <1>1, <1>3, <1>4, <1>5 DEF Prepared, Manifests
<1>8. Prepared(d, c).fresh \in SUBSET Evidence
  BY <1>3 DEF Prepared
<1>9. Prepared(d, c).prefix \in [Subjects -> SUBSET Frame]
  BY <1>6 DEF Prepared
<1> QED
  BY <1>1, <1>2, <1>4, <1>7, <1>8, <1>9 DEF Prepared, Journals

(* Preparing reads the record and remembers; nothing on disk moves. *)
LEMMA PrepareStep ==
    ASSUME IndInv, NEW p \in Procs, NEW d \in Drafts, NEW c \in Canonicals,
           Prepare(p, d, c)
    PROVE  IndInv'
<1> DEFINE j == Prepared(d, c)
<1>1. /\ LockFree /\ journal = Nil /\ prep' = [prep EXCEPT ![p] = j]
      /\ UNCHANGED <<disk, pc, budget, pre, witnessed>>
      /\ c # Nil => view # Nil
      /\ \A m \in Transactions(j) : m.evidence \subseteq evid \cup j.manifest.evidence
  BY DEF Prepare
<1>2. j \in Journals
  BY <1>1, PreparedType DEF IndInv
<1>3. /\ \A m \in j.imports : m.op # Op(j)
      /\ j.fresh \subseteq j.manifest.evidence
  BY DraftAssumption DEF Prepared, Op
<1> HIDE DEF j
<1>4. TypeOK'
  BY <1>1, <1>2 DEF IndInv, TypeOK, disk, budget
<1>5. Base' = Base /\ Base.evid = evid
  BY <1>1 DEF Base, World, disk
<1>6. PrepInv'
  BY <1>1, <1>2, <1>3, <1>5 DEF IndInv, PrepInv, TypeOK
<1>7. Mutex' /\ PcInv'
  BY <1>1 DEF IndInv, Mutex, LockFree, PcInv
<1>8. QuiescentSound' /\ JournalInv' /\ WitnessInv'
  BY <1>1, <1>5 DEF IndInv, QuiescentSound, JournalInv, WitnessInv, World, disk
<1> QED
  BY <1>4, <1>6, <1>7, <1>8 DEF IndInv

(* Dropping a prepared transaction forgets it. *)
LEMMA DiscardStep ==
    ASSUME IndInv, NEW p \in Procs, Discard(p)
    PROVE  IndInv'
<1>1. /\ pc[p] = "idle" /\ prep' = [prep EXCEPT ![p] = Nil]
      /\ UNCHANGED <<disk, pc, budget, pre, witnessed>>
  BY DEF Discard
<1>2. TypeOK'
  BY <1>1 DEF IndInv, TypeOK, disk, budget
<1>3. Base' = Base /\ World' = World
  BY <1>1 DEF Base, World, disk
<1>4. PrepInv'
  BY <1>1, <1>3 DEF IndInv, PrepInv, TypeOK
<1>5. PcInv'
  BY <1>1, <1>3 DEF IndInv, PcInv, TypeOK, Committed, disk, budget
<1>6. Mutex' /\ QuiescentSound' /\ WitnessInv'
  BY <1>1, <1>3 DEF IndInv, Mutex, QuiescentSound, WitnessInv, disk
<1>7. JournalInv'
  BY <1>1 DEF IndInv, JournalInv, Between, disk
<1> QED
  BY <1>2, <1>4, <1>5, <1>6, <1>7 DEF IndInv

(* A capture witnesses what the record holds. *)
LEMMA CaptureStep ==
    ASSUME IndInv, NEW c \in Canonicals, Capture(c)
    PROVE  IndInv'
<1>1. /\ LockFree /\ journal = Nil
      /\ witnessed' = witnessed \cup {commits[o] : o \in Present(commits)}
      /\ UNCHANGED <<disk, pc, prep, budget, pre>>
  BY DEF Capture
<1>2. \A o \in Present(commits) : commits[o] \in Manifests /\ commits[o].op = o
  BY <1>1 DEF IndInv, TypeOK, QuiescentSound, Sound, World, Present, Inventories
<1>3. TypeOK'
  BY <1>1, <1>2 DEF IndInv, TypeOK, disk, budget
<1>4. Base' = Base /\ World' = World /\ Base.commits = commits
  BY <1>1 DEF Base, World, disk
<1>5. WitnessInv'
  BY <1>1, <1>2, <1>4 DEF IndInv, WitnessInv
<1>6. PrepInv' /\ Mutex' /\ PcInv'
  BY <1>1, <1>4 DEF IndInv, PrepInv, Mutex, PcInv, LockFree
<1>7. QuiescentSound' /\ JournalInv'
  BY <1>1, <1>4 DEF IndInv, QuiescentSound, JournalInv, disk
<1> QED
  BY <1>3, <1>5, <1>6, <1>7 DEF IndInv

(* Revalidation under the lock is enough for the transaction to fit. *)
LEMMA PublishCheckStep ==
    ASSUME IndInv, NEW p \in Procs, PublishCheck(p)
    PROVE  IndInv'
<1> DEFINE j == prep[p]
<1>1. /\ LockFree /\ journal = Nil /\ j # Nil /\ j \in Journals
      /\ commits[Op(j)] = Nil /\ Revalidate(j)
      /\ pc' = [pc EXCEPT ![p] = "checked"]
      /\ UNCHANGED <<disk, prep, budget, pre, witnessed>>
  BY DEF PublishCheck, IndInv, TypeOK
<1>2. /\ World \in Worlds /\ Sound(World)
      /\ World.commits = commits /\ World.stream = stream /\ World.evid = evid
  BY <1>1 DEF IndInv, TypeOK, World, Worlds, QuiescentSound
<1>3. /\ \A m \in j.imports : m.op # Op(j)
      /\ j.fresh \subseteq j.manifest.evidence
      /\ \A m \in Transactions(j) : m.evidence \subseteq evid \cup j.manifest.evidence
  BY <1>1, <1>2 DEF IndInv, PrepInv, Base
<1>4. Fits(World, j)
  <2>1. \A m \in j.imports : commits[m.op] = Nil
    BY <1>1 DEF Revalidate
  <2>2. ValidInventory(WithImports(commits, j.imports))
    BY <1>1 DEF Revalidate, TargetInventory
  <2>3. Frontier(WithImports(commits, j.imports)) = j.manifest.parents
    <3> DEFINE all == WithImports(commits, j.imports)
    <3>1. all \in Inventories /\ all[Op(j)] = Nil
      BY <1>1, <1>3, JournalType, ImportLookup DEF IndInv, TypeOK
    <3>2. WithoutOwn(all, j) = all
      <4> HIDE DEF all
      <4> QED
        BY <3>1 DEF WithoutOwn, Inventories
    <3> QED
      BY <1>1, <3>2 DEF Revalidate, CombinedInventory
  <2>4. \A s \in Touched(j) : j.prefix[s] = stream[s]
    BY <1>1 DEF Revalidate
  <2>5. j.fresh = j.manifest.evidence \ evid
    BY <1>1, <1>3 DEF Revalidate
  <2> QED
    BY <1>1, <1>2, <1>3, <2>1, <2>2, <2>3, <2>4, <2>5 DEF Fits
<1>5. World' = World /\ Base' = Base
  BY <1>1 DEF World, Base, disk
<1>6. /\ pc' \in [Procs -> {"idle"} \cup PublishSteps \cup RecoverySteps]
      /\ pc'[p] = "checked"
      /\ \A q \in Procs : q # p => pc'[q] = "idle"
      /\ Mutex'
  BY <1>1 DEF IndInv, TypeOK, LockFree, Mutex, PublishSteps
<1>7. TypeOK'
  BY <1>1, <1>6 DEF IndInv, TypeOK, disk, budget
<1>8. PcInv'
  <2> SUFFICES ASSUME NEW q \in Procs, pc'[q] = "checked"
               PROVE  journal' = Nil /\ prep'[q] # Nil /\ Fits(World', prep'[q])
    BY <1>6 DEF PcInv
  <2> QED
    BY <1>1, <1>4, <1>5, <1>6 DEF disk
<1>9. QuiescentSound' /\ JournalInv' /\ PrepInv' /\ WitnessInv'
  BY <1>1, <1>5 DEF IndInv, QuiescentSound, JournalInv, PrepInv, WitnessInv, disk
<1> QED
  BY <1>6, <1>7, <1>8, <1>9 DEF IndInv

(* An exact retry witnesses the transaction it finds committed. *)
LEMMA PublishRetryStep ==
    ASSUME IndInv, NEW p \in Procs, PublishRetry(p)
    PROVE  IndInv'
<1>1. /\ LockFree /\ journal = Nil /\ prep[p] \in Journals
      /\ commits[Op(prep[p])] = prep[p].manifest
      /\ prep' = [prep EXCEPT ![p] = Nil]
      /\ witnessed' = witnessed \cup {prep[p].manifest}
      /\ UNCHANGED <<disk, pc, budget, pre>>
  BY DEF PublishRetry, IndInv, TypeOK
<1>2. prep[p].manifest \in Manifests
  BY <1>1, JournalType
<1>3. TypeOK'
  BY <1>1, <1>2 DEF IndInv, TypeOK, disk, budget
<1>4. Base' = Base /\ World' = World /\ Base.commits = commits
  BY <1>1 DEF Base, World, disk
<1>5. WitnessInv'
  BY <1>1, <1>4 DEF IndInv, WitnessInv, Op
<1>6. PrepInv' /\ Mutex' /\ PcInv'
  BY <1>1, <1>4 DEF IndInv, PrepInv, Mutex, PcInv, LockFree, TypeOK
<1>7. QuiescentSound' /\ JournalInv'
  BY <1>1, <1>4 DEF IndInv, QuiescentSound, JournalInv, disk
<1> QED
  BY <1>3, <1>5, <1>6, <1>7 DEF IndInv

(* The journal is written over the record that the transaction fits. *)
LEMMA WriteJournalStep ==
    ASSUME IndInv, NEW p \in Procs, WriteJournal(p)
    PROVE  IndInv'
<1>1. /\ pc[p] = "checked" /\ journal' = prep[p] /\ pre' = World
      /\ pc' = [pc EXCEPT ![p] = "writing"]
      /\ UNCHANGED <<commits, stream, evid, view, prep, budget, witnessed>>
  BY DEF WriteJournal
<1>2. journal = Nil /\ prep[p] \in Journals /\ Fits(World, prep[p])
  BY <1>1 DEF IndInv, PcInv, TypeOK
<1>3. World \in Worlds
  BY DEF IndInv, TypeOK, World, Worlds
<1>4. /\ pc' \in [Procs -> {"idle"} \cup PublishSteps \cup RecoverySteps]
      /\ Mutex' /\ pc'[p] = "writing"
      /\ \A q \in Procs : q # p => pc'[q] = "idle"
  BY <1>1, HolderMoves DEF PublishSteps
<1>5. TypeOK'
  BY <1>1, <1>2, <1>3, <1>4 DEF IndInv, TypeOK, budget
<1>7. Between(pre, journal)'
  <2>1. World' = World
    BY <1>1 DEF World
  <2> QED
    BY <1>1, <2>1 DEF Between, World
<1>8. journal' # Nil /\ pre' # Nil
  BY <1>1, <1>2, <1>3
<1>9. QuiescentSound' /\ JournalInv'
  BY <1>1, <1>2, <1>7, <1>8 DEF QuiescentSound, JournalInv
<1>10. Base' = Base
  BY <1>1, <1>2, <1>8 DEF Base
<1>11. PrepInv' /\ WitnessInv'
  BY <1>1, <1>10 DEF IndInv, PrepInv, WitnessInv
<1>12. PcInv'
  <2>1. ~Committed'
    BY <1>1, <1>2 DEF Committed, Fits, World
  <2> QED
    BY <1>4, <1>8, <2>1 DEF PcInv
<1> QED
  BY <1>4, <1>5, <1>9, <1>11, <1>12 DEF IndInv

(* The facts a process has while it adds to the disk under the journal. *)
LEMMA WritingFacts ==
    ASSUME IndInv, NEW p \in Procs, pc[p] \in {"writing", "rolling", "forward"}
    PROVE  /\ journal \in Journals /\ pre \in Worlds
           /\ Fits(pre, journal) /\ Between(pre, journal)
           /\ Op(journal) \in Ops
           /\ AfterCommits(pre, journal) \in Inventories
           /\ AfterCommits(pre, journal)[Op(journal)] = journal.manifest
           /\ \A m \in journal.imports :
                 /\ m.op \in Ops /\ m.op # Op(journal)
                 /\ pre.commits[m.op] = Nil
                 /\ AfterCommits(pre, journal)[m.op] = m
                 /\ m \in Manifests
<1>1. /\ journal \in Journals /\ pre \in Worlds
      /\ Fits(pre, journal) /\ Between(pre, journal)
  BY DEF IndInv, TypeOK, PcInv, JournalInv
<1>2. /\ Op(journal) \in Ops /\ journal.imports \in SUBSET Foreign
  BY <1>1, JournalType
<1>3. \A m \in journal.imports : m.op # Op(journal) /\ pre.commits[m.op] = Nil
  BY <1>1 DEF Fits
<1>4. \A m \in journal.imports : m \in Manifests /\ m.op \in Ops
  BY <1>2, ForeignAssumption DEF Manifests
<1> QED
  BY <1>1, <1>2, <1>3, <1>4, AfterLookup

(* A part of a frame is one the journal owns, in publish as in recover. *)
LEMMA AppendFrameStep ==
    ASSUME IndInv, NEW p \in Procs, NEW s \in Subjects,
           AppendFrame(p, s) \/ CompleteAppend(p, s)
    PROVE  IndInv'
<1>1. PICK f \in Tail(journal, s) :
        /\ stream' = [stream EXCEPT ![s] = @ \cup {f}]
        /\ pc[p] \in {"writing", "forward"}
        /\ UNCHANGED <<commits, evid, view, journal, pc, prep, budget, pre, witnessed>>
  BY DEF AppendFrame, CompleteAppend
<1>2. /\ journal \in Journals /\ pre \in Worlds
      /\ Fits(pre, journal) /\ Between(pre, journal)
  BY <1>1, WritingFacts
<1>3. TypeOK'
  <2>1. f \in Frame
    BY <1>1, <1>2, JournalType
  <2> QED
    BY <1>1, <2>1 DEF IndInv, TypeOK, budget
<1>4. Between(pre, journal)'
  BY <1>1, <1>2 DEF Between, IndInv, TypeOK
<1>5. QuiescentSound' /\ JournalInv' /\ PrepInv' /\ WitnessInv'
  BY <1>1, <1>2, <1>4, PendingKeeps
<1>6. Mutex' /\ PcInv'
  <2>1. \A q \in Procs : q # p => pc[q] = "idle"
    BY <1>1, OthersIdle DEF IndInv
  <2> QED
    BY <1>1, <2>1 DEF IndInv, Mutex, PcInv, Committed
<1> QED
  BY <1>3, <1>5, <1>6 DEF IndInv

(* An evidence file is one the manifest names. *)
LEMMA WriteEvidenceStep ==
    ASSUME IndInv, NEW p \in Procs, NEW e \in journal.manifest.evidence,
           WriteEvidence(p, e) \/ CompleteEvidence(p, e)
    PROVE  IndInv'
<1>1. /\ evid' = evid \cup {e}
      /\ pc[p] \in {"writing", "forward"}
      /\ UNCHANGED <<commits, stream, view, journal, pc, prep, budget, pre, witnessed>>
  BY DEF WriteEvidence, CompleteEvidence
<1>2. /\ journal \in Journals /\ pre \in Worlds
      /\ Fits(pre, journal) /\ Between(pre, journal)
  BY <1>1, WritingFacts
<1>3. TypeOK'
  <2>1. e \in Evidence
    BY <1>2, JournalType
  <2> QED
    BY <1>1, <2>1 DEF IndInv, TypeOK, budget
<1>4. Between(pre, journal)'
  BY <1>1, <1>2 DEF Between
<1>5. QuiescentSound' /\ JournalInv' /\ PrepInv' /\ WitnessInv'
  BY <1>1, <1>2, <1>4, PendingKeeps
<1>6. Mutex' /\ PcInv'
  <2>1. \A q \in Procs : q # p => pc[q] = "idle"
    BY <1>1, OthersIdle DEF IndInv
  <2> QED
    BY <1>1, <2>1 DEF IndInv, Mutex, PcInv, Committed
<1> QED
  BY <1>3, <1>5, <1>6 DEF IndInv

(* An imported manifest is one the transaction brings. *)
LEMMA WriteImportStep ==
    ASSUME IndInv, NEW p \in Procs, NEW m \in journal.imports,
           WriteImport(p, m) \/ CompleteImport(p, m)
    PROVE  IndInv'
<1>1. /\ commits' = [commits EXCEPT ![m.op] = m]
      /\ pc[p] \in {"writing", "forward"}
      /\ UNCHANGED <<stream, evid, view, journal, pc, prep, budget, pre, witnessed>>
  BY DEF WriteImport, CompleteImport
<1>2. /\ journal \in Journals /\ pre \in Worlds
      /\ Fits(pre, journal) /\ Between(pre, journal)
      /\ m.op \in Ops /\ m.op # Op(journal) /\ m \in Manifests
      /\ AfterCommits(pre, journal)[m.op] = m
  BY <1>1, WritingFacts
<1>3. TypeOK'
  BY <1>1, <1>2 DEF IndInv, TypeOK, budget, Inventories
<1>4. Between(pre, journal)'
  <2>1. \A o \in Ops : commits'[o] \in {pre.commits[o], AfterCommits(pre, journal)[o]}
    BY <1>1, <1>2 DEF Between, IndInv, TypeOK, Inventories
  <2> QED
    BY <1>1, <1>2, <2>1 DEF Between
<1>5. QuiescentSound' /\ JournalInv' /\ PrepInv' /\ WitnessInv'
  BY <1>1, <1>2, <1>4, PendingKeeps
<1>6. Mutex' /\ PcInv'
  <2>1. \A q \in Procs : q # p => pc[q] = "idle"
    BY <1>1, OthersIdle DEF IndInv
  <2>2. Committed' = Committed
    BY <1>1, <1>2 DEF Committed, IndInv, TypeOK, Inventories
  <2> QED
    BY <1>1, <2>1, <2>2 DEF IndInv, Mutex, PcInv
<1> QED
  BY <1>3, <1>5, <1>6 DEF IndInv

(* The manifest is written last: everything it names is on disk. *)
LEMMA WriteManifestStep ==
    ASSUME IndInv, NEW p \in Procs, WriteManifest(p)
    PROVE  IndInv'
<1>1. /\ pc[p] = "writing"
      /\ AppendsDone(journal) /\ EvidenceDone(journal) /\ ImportsDone(journal)
      /\ commits' = [commits EXCEPT ![Op(journal)] = journal.manifest]
      /\ pc' = [pc EXCEPT ![p] = "committed"]
      /\ UNCHANGED <<stream, evid, view, journal, prep, budget, pre, witnessed>>
  BY DEF WriteManifest
<1>2. /\ journal \in Journals /\ pre \in Worlds
      /\ Fits(pre, journal) /\ Between(pre, journal)
      /\ Op(journal) \in Ops
      /\ AfterCommits(pre, journal)[Op(journal)] = journal.manifest
  BY <1>1, WritingFacts
<1>3. commits' \in Inventories
  BY <1>1, <1>2, JournalType DEF IndInv, TypeOK, Inventories
<1>4. /\ pc' \in [Procs -> {"idle"} \cup PublishSteps \cup RecoverySteps]
      /\ Mutex' /\ pc'[p] = "committed"
      /\ \A q \in Procs : q # p => pc'[q] = "idle"
  BY <1>1, HolderMoves DEF PublishSteps
<1>5. TypeOK'
  BY <1>1, <1>3, <1>4 DEF IndInv, TypeOK, budget
<1>6. /\ commits'[Op(journal)] = journal.manifest
      /\ \A o \in Ops : o # Op(journal) => commits'[o] = commits[o]
  BY <1>1, <1>2 DEF IndInv, TypeOK, Inventories
<1>7. World' = AfterWorld(pre, journal)
  BY <1>1, <1>2, <1>3, <1>6, DoneWorld DEF IndInv, World
<1>8. Between(pre, journal)'
  <2>1. \A o \in Ops : commits'[o] \in {pre.commits[o], AfterCommits(pre, journal)[o]}
    BY <1>2, <1>6 DEF Between
  <2> QED
    BY <1>1, <1>2, <2>1 DEF Between
<1>9. QuiescentSound' /\ JournalInv' /\ PrepInv' /\ WitnessInv'
  BY <1>1, <1>2, <1>8, PendingKeeps
<1>10. PcInv'
  BY <1>1, <1>2, <1>4, <1>7 DEF PcInv
<1> QED
  BY <1>4, <1>5, <1>9, <1>10 DEF IndInv

(* What holds of a disk that holds the whole transaction. *)
LEMMA CommittedFacts ==
    ASSUME IndInv, NEW p \in Procs, pc[p] \in {"committed", "viewed"}
    PROVE  /\ journal \in Journals /\ pre \in Worlds
           /\ Fits(pre, journal) /\ Between(pre, journal)
           /\ World = AfterWorld(pre, journal)
           /\ After(journal.manifest) \in Views
           /\ Op(journal) \in Ops
           /\ commits[Op(journal)] = journal.manifest /\ Committed
<1>1. /\ journal \in Journals /\ pre \in Worlds
      /\ Fits(pre, journal) /\ Between(pre, journal)
      /\ World = AfterWorld(pre, journal)
  BY DEF IndInv, TypeOK, PcInv, JournalInv
<1>2. journal.manifest \in Manifests /\ Op(journal) \in Ops
  BY <1>1, JournalType
<1>3. After(journal.manifest) \in Views
  BY <1>2 DEF After, Manifests, Views
<1>4. AfterCommits(pre, journal)[Op(journal)] = journal.manifest
  BY <1>1, AfterLookup DEF Fits
<1>5. commits = AfterCommits(pre, journal)
  BY <1>1 DEF World, AfterWorld
<1> QED
  BY <1>1, <1>2, <1>3, <1>4, <1>5 DEF Committed

(* Replacing the view leaves the committed world as it is. *)
LEMMA ReplaceViewStep ==
    ASSUME IndInv, NEW p \in Procs, ReplaceView(p)
    PROVE  IndInv'
<1>1. /\ pc[p] = "committed" /\ view' = After(journal.manifest)
      /\ pc' = [pc EXCEPT ![p] = "viewed"]
      /\ UNCHANGED <<commits, stream, evid, journal, prep, budget, pre, witnessed>>
  BY DEF ReplaceView
<1>2. /\ journal \in Journals /\ After(journal.manifest) \in Views
      /\ World = AfterWorld(pre, journal) /\ Between(pre, journal)
  BY <1>1, CommittedFacts
<1>3. /\ pc' \in [Procs -> {"idle"} \cup PublishSteps \cup RecoverySteps]
      /\ Mutex' /\ pc'[p] = "viewed"
      /\ \A q \in Procs : q # p => pc'[q] = "idle"
  BY <1>1, HolderMoves DEF PublishSteps
<1>4. TypeOK'
  BY <1>1, <1>2, <1>3 DEF IndInv, TypeOK, budget
<1>5. Between(pre, journal)' /\ World' = World
  BY <1>1, <1>2 DEF Between, World
<1>6. QuiescentSound' /\ JournalInv' /\ PrepInv' /\ WitnessInv'
  BY <1>1, <1>2, <1>5, PendingKeeps
<1>7. PcInv'
  BY <1>1, <1>2, <1>3, <1>5 DEF PcInv
<1> QED
  BY <1>3, <1>4, <1>6, <1>7 DEF IndInv

(* The journal goes: the disk is a sound world that holds everything that
   was ever witnessed. *)
LEMMA JournalGoes ==
    ASSUME IndInv, NEW p \in Procs, pc[p] # "idle", pc' = [pc EXCEPT ![p] = "idle"],
           journal \in Journals, pre \in Worlds, Fits(pre, journal),
           journal' = Nil, pre' = Nil,
           raced' = FALSE,
           UNCHANGED <<commits, stream, evid, view, prep, crashes, losses, edits>>,
           \/ World = pre /\ witnessed' = witnessed
           \/ /\ World = AfterWorld(pre, journal)
              /\ witnessed' \subseteq witnessed \cup {journal.manifest}
    PROVE  IndInv'
<1>1. /\ pc' \in [Procs -> {"idle"} \cup PublishSteps \cup RecoverySteps]
      /\ Mutex'
      /\ \A q \in Procs : pc'[q] = "idle"
  BY HolderMoves
<1>2. journal.manifest \in Manifests /\ Op(journal) \in Ops
  BY JournalType
<1>3. TypeOK'
  BY <1>1, <1>2 DEF IndInv, TypeOK
<1>4. World' = World /\ Base' = World /\ Base = pre
  BY DEF World, Base
<1>5. QuiescentSound'
  BY <1>4, AfterSound DEF QuiescentSound, Fits
<1>6. JournalInv' /\ PcInv'
  BY <1>1 DEF JournalInv, PcInv
<1>8. PrepInv'
  <2>1. Base.evid \subseteq World.evid
    BY <1>4 DEF AfterWorld
  <2> QED
    BY <1>4, <2>1 DEF IndInv, PrepInv
<1>9. WitnessInv'
  <2> SUFFICES ASSUME NEW m \in witnessed' PROVE World.commits[m.op] = m
    BY <1>4 DEF WitnessInv
  <2>1. /\ AfterWorld(pre, journal).commits = AfterCommits(pre, journal)
        /\ AfterCommits(pre, journal)[Op(journal)] = journal.manifest
    BY AfterLookup DEF Fits, AfterWorld
  <2>2. CASE m \in witnessed
    <3>1. pre.commits[m.op] = m /\ m \in Manifests /\ m.op \in Ops /\ m # Nil
      BY <1>4, <2>2 DEF IndInv, WitnessInv, TypeOK, Manifests
    <3>2. AfterCommits(pre, journal)[m.op] = m
      BY <3>1, AfterLookup DEF Fits
    <3> QED
      BY <2>1, <3>1, <3>2
  <2>3. CASE m \notin witnessed
    BY <2>1, <2>3 DEF Op
  <2> QED
    BY <2>2, <2>3
<1> QED
  BY <1>1, <1>3, <1>5, <1>6, <1>8, <1>9 DEF IndInv

(* Publish removes its journal over the committed world. *)
LEMMA FinishPublishStep ==
    ASSUME IndInv, NEW p \in Procs, FinishPublish(p)
    PROVE  IndInv'
<1>1. /\ pc[p] = "viewed" /\ journal' = Nil /\ pre' = Nil
      /\ witnessed' = witnessed \cup {journal.manifest}
      /\ pc' = [pc EXCEPT ![p] = "idle"]
      /\ raced' = FALSE
      /\ UNCHANGED <<commits, stream, evid, view, prep, crashes, losses, edits>>
  BY DEF FinishPublish, Release
<1>2. /\ journal \in Journals /\ pre \in Worlds
      /\ Fits(pre, journal) /\ World = AfterWorld(pre, journal)
  BY <1>1, CommittedFacts
<1> QED
  BY <1>1, <1>2, JournalGoes

(* Recovery checks and then knows on which side of the decision it is. *)
LEMMA RecoverCheckStep ==
    ASSUME IndInv, NEW p \in Procs, RecoverCheck(p)
    PROVE  IndInv'
<1>1. /\ LockFree /\ journal # Nil
      /\ pc' = [pc EXCEPT ![p] = IF Committed THEN "forward" ELSE "rolling"]
      /\ UNCHANGED <<disk, prep, budget, pre, witnessed>>
  BY DEF RecoverCheck
<1>2. /\ pc' \in [Procs -> {"idle"} \cup PublishSteps \cup RecoverySteps]
      /\ pc'[p] = IF Committed THEN "forward" ELSE "rolling"
      /\ \A q \in Procs : q # p => pc'[q] = "idle"
      /\ Mutex'
  BY <1>1 DEF IndInv, TypeOK, LockFree, Mutex, RecoverySteps
<1>3. TypeOK'
  BY <1>1, <1>2 DEF IndInv, TypeOK, disk, budget
<1>4. Base' = Base /\ World' = World /\ Committed' = Committed
  BY <1>1 DEF Base, World, Committed, disk
<1>5. PcInv'
  BY <1>1, <1>2, <1>4 DEF PcInv, disk
<1>6. QuiescentSound' /\ JournalInv' /\ PrepInv' /\ WitnessInv'
  BY <1>1, <1>4 DEF IndInv, QuiescentSound, JournalInv, Between, PrepInv, WitnessInv, disk
<1> QED
  BY <1>2, <1>3, <1>5, <1>6 DEF IndInv

(* An imported manifest is not the transaction's own: taking it back leaves
   the disk between the two worlds. *)
LEMMA ImportGoes ==
    ASSUME IndInv, journal # Nil, NEW m \in journal.imports,
           commits' = [commits EXCEPT ![m.op] = Nil],
           UNCHANGED <<stream, evid, journal, pre>>
    PROVE  commits' \in Inventories /\ Between(pre, journal)' /\ Committed' = Committed
<1>1. /\ journal \in Journals /\ pre \in Worlds
      /\ Fits(pre, journal) /\ Between(pre, journal)
  BY DEF IndInv, TypeOK, JournalInv
<1>2. m.op \in Ops /\ m.op # Op(journal) /\ pre.commits[m.op] = Nil
  BY <1>1, JournalType, ForeignAssumption DEF Fits, Manifests
<1>3. /\ commits' \in Inventories /\ commits'[m.op] = Nil
      /\ \A o \in Ops : o # m.op => commits'[o] = commits[o]
  BY <1>2 DEF IndInv, TypeOK, Inventories
<1>4. Committed' = Committed
  BY <1>1, <1>2, <1>3, JournalType DEF Committed
<1>5. \A o \in Ops : commits'[o] \in {pre.commits[o], AfterCommits(pre, journal)[o]}
  BY <1>1, <1>2, <1>3 DEF Between
<1> QED
  BY <1>1, <1>3, <1>4, <1>5 DEF Between

(* Rollback takes an imported manifest back. *)
LEMMA RemoveImportStep ==
    ASSUME IndInv, NEW p \in Procs, NEW m \in journal.imports, RemoveImport(p, m)
    PROVE  IndInv'
<1>1. /\ pc[p] = "rolling"
      /\ commits' = [commits EXCEPT ![m.op] = Nil]
      /\ UNCHANGED <<stream, evid, view, journal, pc, prep, budget, pre, witnessed>>
  BY DEF RemoveImport
<1>2. journal # Nil
  BY <1>1 DEF IndInv, PcInv
<1>3. commits' \in Inventories /\ Between(pre, journal)' /\ Committed' = Committed
  BY <1>1, <1>2, ImportGoes
<1>4. TypeOK'
  BY <1>1, <1>3 DEF IndInv, TypeOK, budget
<1>5. QuiescentSound' /\ JournalInv' /\ PrepInv' /\ WitnessInv'
  BY <1>1, <1>2, <1>3, PendingKeeps
<1>6. Mutex' /\ PcInv'
  <2>1. \A q \in Procs : q # p => pc[q] = "idle"
    BY <1>1, OthersIdle DEF IndInv
  <2> QED
    BY <1>1, <1>3, <2>1 DEF IndInv, Mutex, PcInv
<1> QED
  BY <1>4, <1>5, <1>6 DEF IndInv

(* Rollback cuts a stream at the prefix the journal keeps. *)
LEMMA TruncateStreamStep ==
    ASSUME IndInv, NEW p \in Procs, NEW s \in Subjects, TruncateStream(p, s)
    PROVE  IndInv'
<1>1. /\ pc[p] = "rolling" /\ s \in Touched(journal)
      /\ stream' = [stream EXCEPT ![s] = journal.prefix[s]]
      /\ UNCHANGED <<commits, evid, view, journal, pc, prep, budget, pre, witnessed>>
  BY DEF TruncateStream
<1>2. /\ journal \in Journals /\ pre \in Worlds
      /\ Fits(pre, journal) /\ Between(pre, journal)
  BY <1>1, WritingFacts
<1>3. journal.prefix[s] = pre.stream[s] /\ pre.stream[s] \subseteq Frame
  BY <1>1, <1>2 DEF Fits, Worlds
<1>4. TypeOK'
  BY <1>1, <1>3 DEF IndInv, TypeOK, budget
<1>5. Between(pre, journal)'
  BY <1>1, <1>2, <1>3 DEF Between, IndInv, TypeOK
<1>6. QuiescentSound' /\ JournalInv' /\ PrepInv' /\ WitnessInv'
  BY <1>1, <1>2, <1>5, PendingKeeps
<1>7. Mutex' /\ PcInv'
  <2>1. \A q \in Procs : q # p => pc[q] = "idle"
    BY <1>1, OthersIdle DEF IndInv
  <2> QED
    BY <1>1, <2>1 DEF IndInv, Mutex, PcInv, Committed
<1> QED
  BY <1>4, <1>6, <1>7 DEF IndInv

(* Rollback removes only evidence that was not there before. *)
LEMMA RemoveEvidenceStep ==
    ASSUME IndInv, NEW p \in Procs, NEW e \in journal.manifest.evidence,
           RemoveEvidence(p, e)
    PROVE  IndInv'
<1>1. /\ pc[p] = "rolling" /\ e \in journal.fresh
      /\ evid' = evid \ {e}
      /\ UNCHANGED <<commits, stream, view, journal, pc, prep, budget, pre, witnessed>>
  BY DEF RemoveEvidence
<1>2. /\ journal \in Journals /\ pre \in Worlds
      /\ Fits(pre, journal) /\ Between(pre, journal)
  BY <1>1, WritingFacts
<1>3. TypeOK'
  BY <1>1 DEF IndInv, TypeOK, budget
<1>4. Between(pre, journal)'
  BY <1>1, <1>2 DEF Between, Fits
<1>5. QuiescentSound' /\ JournalInv' /\ PrepInv' /\ WitnessInv'
  BY <1>1, <1>2, <1>4, PendingKeeps
<1>6. Mutex' /\ PcInv'
  <2>1. \A q \in Procs : q # p => pc[q] = "idle"
    BY <1>1, OthersIdle DEF IndInv
  <2> QED
    BY <1>1, <2>1 DEF IndInv, Mutex, PcInv, Committed
<1> QED
  BY <1>3, <1>5, <1>6 DEF IndInv

(* Recovery settles when the world is one of the two and the view with it. *)
LEMMA SettleStep ==
    ASSUME IndInv, NEW p \in Procs, pc[p] \in {"rolling", "forward"},
           World = IF Committed THEN AfterWorld(pre, journal) ELSE pre,
           view' = IF Committed THEN After(journal.manifest) ELSE journal.manifest.before,
           pc' = [pc EXCEPT ![p] = "settled"],
           UNCHANGED <<commits, stream, evid, journal, prep, budget, pre, witnessed>>
    PROVE  IndInv'
<1>1. /\ journal \in Journals /\ pre \in Worlds
      /\ Fits(pre, journal) /\ Between(pre, journal)
  BY WritingFacts
<1>2. journal.manifest \in Manifests /\ Op(journal) \in Ops
  BY <1>1, JournalType
<1>3. view' \in Views \cup {Nil}
  BY <1>2 DEF After, Manifests, Views
<1>4. /\ pc' \in [Procs -> {"idle"} \cup PublishSteps \cup RecoverySteps]
      /\ Mutex' /\ pc'[p] = "settled"
      /\ \A q \in Procs : q # p => pc'[q] = "idle"
  BY HolderMoves DEF RecoverySteps
<1>5. TypeOK'
  BY <1>3, <1>4 DEF IndInv, TypeOK, budget
<1>6. Between(pre, journal)' /\ World' = World /\ Committed' = Committed
  BY <1>1 DEF Between, World, Committed
<1>7. QuiescentSound' /\ JournalInv' /\ PrepInv' /\ WitnessInv'
  BY <1>1, <1>6, PendingKeeps
<1>8. PcInv'
  BY <1>1, <1>4, <1>6 DEF PcInv
<1> QED
  BY <1>4, <1>5, <1>7, <1>8 DEF IndInv

(* Rollback ends on the world that the journal was written over. *)
LEMMA RestoreViewStep ==
    ASSUME IndInv, NEW p \in Procs, RestoreView(p)
    PROVE  IndInv'
<1>1. /\ pc[p] = "rolling" /\ ~Committed
      /\ ImportsGone(journal) /\ TailsGone(journal) /\ EvidenceGone(journal)
      /\ view' = journal.manifest.before
      /\ pc' = [pc EXCEPT ![p] = "settled"]
      /\ UNCHANGED <<commits, stream, evid, journal, prep, budget, pre, witnessed>>
  BY DEF RestoreView, IndInv, PcInv
<1>2. World = pre
  BY <1>1, WritingFacts, UndoneWorld DEF IndInv
<1> QED
  BY <1>1, <1>2, SettleStep

(* Completion ends on the world after the transaction. *)
LEMMA CompleteViewStep ==
    ASSUME IndInv, NEW p \in Procs, CompleteView(p)
    PROVE  IndInv'
<1>1. /\ pc[p] = "forward" /\ Committed
      /\ ImportsDone(journal) /\ EvidenceDone(journal) /\ AppendsDone(journal)
      /\ view' = After(journal.manifest)
      /\ pc' = [pc EXCEPT ![p] = "settled"]
      /\ UNCHANGED <<commits, stream, evid, journal, prep, budget, pre, witnessed>>
  BY DEF CompleteView, IndInv, PcInv
<1>2. /\ journal \in Journals /\ pre \in Worlds
      /\ Fits(pre, journal) /\ Between(pre, journal)
      /\ Op(journal) \in Ops
      /\ AfterCommits(pre, journal)[Op(journal)] = journal.manifest
  BY <1>1, WritingFacts
<1>3. commits[Op(journal)] = journal.manifest
  BY <1>1, <1>2 DEF Between, Fits, Committed
<1>4. World = AfterWorld(pre, journal)
  BY <1>1, <1>2, <1>3, DoneWorld DEF IndInv, TypeOK, World
<1> QED
  BY <1>1, <1>4, SettleStep

(* Recovery removes the journal. *)
LEMMA FinishRecoveryStep ==
    ASSUME IndInv, NEW p \in Procs, FinishRecovery(p)
    PROVE  IndInv'
<1>1. /\ pc[p] = "settled" /\ journal' = Nil /\ pre' = Nil
      /\ witnessed' = IF Committed THEN witnessed \cup {journal.manifest} ELSE witnessed
      /\ pc' = [pc EXCEPT ![p] = "idle"]
      /\ raced' = FALSE
      /\ UNCHANGED <<commits, stream, evid, view, prep, crashes, losses, edits>>
  BY DEF FinishRecovery, Release
<1>2. /\ journal \in Journals /\ pre \in Worlds /\ Fits(pre, journal)
      /\ World = IF Committed THEN AfterWorld(pre, journal) ELSE pre
  BY <1>1 DEF IndInv, PcInv, TypeOK, JournalInv
<1> QED
  BY <1>1, <1>2, JournalGoes

-----------------------------------------------------------------------------
(* The environment keeps it too. *)

(* Whoever is interrupted leaves the lock and the disk. *)
LEMMA InterruptStep ==
    ASSUME IndInv, NEW p \in Procs, Interrupt(p)
    PROVE  IndInv'
<1>1. /\ pc[p] # "idle" /\ crashes < MaxCrashes /\ crashes' = crashes + 1
      /\ pc' = [pc EXCEPT ![p] = "idle"] /\ raced' = FALSE
      /\ UNCHANGED <<disk, prep, losses, edits, pre, witnessed>>
  BY DEF Interrupt, Release
<1>2. /\ pc' \in [Procs -> {"idle"} \cup PublishSteps \cup RecoverySteps]
      /\ Mutex' /\ pc'[p] = "idle"
      /\ \A q \in Procs : q # p => pc'[q] = "idle"
  BY <1>1, HolderMoves
<1>3. crashes' \in 0 .. MaxCrashes
  BY <1>1, BoundAssumption DEF IndInv, TypeOK
<1>4. TypeOK'
  BY <1>1, <1>2, <1>3 DEF IndInv, TypeOK, disk
<1>5. Base' = Base /\ World' = World
  BY <1>1 DEF Base, World, disk
<1>6. PcInv'
  BY <1>2 DEF PcInv
<1>7. QuiescentSound' /\ JournalInv' /\ PrepInv' /\ WitnessInv'
  BY <1>1, <1>5 DEF IndInv, QuiescentSound, JournalInv, Between, PrepInv, WitnessInv, disk
<1> QED
  BY <1>2, <1>4, <1>6, <1>7 DEF IndInv

(* A lost addition is one that the journal owns. *)
LEMMA LoseAdditionStep == IndInv /\ LoseAddition => IndInv'
<1> SUFFICES ASSUME IndInv, LoseAddition PROVE IndInv'
  OBVIOUS
<1>1. /\ LockFree /\ journal # Nil /\ losses < MaxLosses /\ losses' = losses + 1
      /\ UNCHANGED <<view, journal, pc, prep, crashes, edits, raced, pre, witnessed>>
  BY DEF LoseAddition
<1>2. /\ journal \in Journals /\ pre \in Worlds
      /\ Fits(pre, journal) /\ Between(pre, journal)
  BY <1>1 DEF IndInv, TypeOK, JournalInv
<1>3. losses' \in 0 .. MaxLosses
  BY <1>1, BoundAssumption DEF IndInv, TypeOK
<1>4. /\ Between(pre, journal)'
      /\ commits' \in Inventories
      /\ stream' \in [Subjects -> SUBSET Frame]
      /\ evid' \in SUBSET Evidence
  <2>1. CASE \E s \in Touched(journal) : \E f \in stream[s] \ journal.prefix[s] :
               /\ stream' = [stream EXCEPT ![s] = @ \ {f}]
               /\ UNCHANGED <<commits, evid>>
    <3>1. PICK s \in Touched(journal) : \E f \in stream[s] \ journal.prefix[s] :
               /\ stream' = [stream EXCEPT ![s] = @ \ {f}]
               /\ UNCHANGED <<commits, evid>>
      BY <2>1
    <3>2. PICK f \in stream[s] \ journal.prefix[s] :
               /\ stream' = [stream EXCEPT ![s] = @ \ {f}]
               /\ UNCHANGED <<commits, evid>>
      BY <3>1
    <3>3. s \in Subjects /\ f \notin pre.stream[s]
      BY <1>2, <3>1, <3>2 DEF Touched, Fits
    <3> QED
      BY <1>1, <1>2, <3>2, <3>3 DEF Between, IndInv, TypeOK
  <2>2. CASE \E e \in journal.fresh \cap evid :
               /\ evid' = evid \ {e}
               /\ UNCHANGED <<commits, stream>>
    BY <1>1, <1>2, <2>2 DEF Between, Fits, IndInv, TypeOK
  <2>3. CASE \E m \in journal.imports :
               /\ commits[m.op] # Nil
               /\ commits' = [commits EXCEPT ![m.op] = Nil]
               /\ UNCHANGED <<stream, evid>>
    BY <1>1, <2>3, ImportGoes DEF IndInv, TypeOK
  <2> QED
    BY <2>1, <2>2, <2>3 DEF LoseAddition
<1>5. TypeOK'
  BY <1>1, <1>3, <1>4 DEF IndInv, TypeOK
<1>6. QuiescentSound' /\ JournalInv' /\ PrepInv' /\ WitnessInv'
  BY <1>1, <1>4, PendingKeeps
<1>7. Mutex' /\ PcInv'
  BY <1>1 DEF IndInv, Mutex, PcInv, LockFree
<1> QED
  BY <1>5, <1>6, <1>7 DEF IndInv

(* An edit touches the view alone. *)
LEMMA EditStep ==
    ASSUME IndInv, NEW t \in Texts, Edit(t)
    PROVE  IndInv'
<1>1. /\ raced' = ~LockFree
      /\ edits < MaxEdits /\ edits' = edits + 1 /\ view # Nil
      /\ view' = [view EXCEPT !.text = t]
      /\ UNCHANGED <<commits, stream, evid, journal, pc, prep, crashes, losses, pre, witnessed>>
  BY DEF Edit
<1>2. edits' \in 0 .. MaxEdits /\ view' \in Views
  BY <1>1, BoundAssumption DEF IndInv, TypeOK, Views
<1>3. TypeOK'
  BY <1>1, <1>2 DEF IndInv, TypeOK
<1>4. Base' = Base /\ World' = World /\ Committed' = Committed
  BY <1>1 DEF Base, World, Committed
<1>5. PcInv'
  <2>1. CASE ~LockFree
    <3>1. raced'
      BY <1>1, <2>1
    <3> QED
      BY <1>1, <1>4, <3>1 DEF IndInv, PcInv
  <2>2. CASE LockFree
    BY <1>1, <2>2 DEF PcInv, LockFree
  <2> QED
    BY <2>1, <2>2
<1>6. Mutex' /\ QuiescentSound' /\ JournalInv' /\ PrepInv' /\ WitnessInv'
  BY <1>1, <1>4 DEF IndInv, Mutex, QuiescentSound, JournalInv, Between, PrepInv, WitnessInv
<1> QED
  BY <1>3, <1>5, <1>6 DEF IndInv

-----------------------------------------------------------------------------
(* The theorems *)

(* An unborn record satisfies the invariant: its history is empty. *)
LEMMA InitStep == Init => IndInv
<1> SUFFICES ASSUME Init PROVE IndInv
  OBVIOUS
<1>1. Present(commits) = {}
  BY DEF Init, Present
<1>2. Sound(World)
  BY <1>1 DEF Init, World, Sound, ValidInventory, Acyclic, Frontier, Complete, CommittedFrames
<1>3. TypeOK
  <2>1. crashes \in 0 .. MaxCrashes /\ losses \in 0 .. MaxLosses /\ edits \in 0 .. MaxEdits
    BY BoundAssumption DEF Init
  <2>2. commits \in Inventories /\ stream \in [Subjects -> SUBSET Frame]
        /\ evid \in SUBSET Evidence /\ view \in Views \cup {Nil}
        /\ pc \in [Procs -> {"idle"} \cup PublishSteps \cup RecoverySteps]
        /\ prep \in [Procs -> Journals \cup {Nil}]
    BY DEF Init, Inventories, Evidence, Views
  <2>3. raced \in BOOLEAN /\ journal = Nil /\ pre = Nil /\ witnessed = {}
    BY DEF Init
  <2> QED
    BY <2>1, <2>2, <2>3 DEF TypeOK
<1> QED
  BY <1>2, <1>3 DEF Init, IndInv, Mutex, QuiescentSound, JournalInv, PrepInv, PcInv, WitnessInv

(* Every step of publish, recover, their callers and the environment keeps
   the invariant. *)
LEMMA NextStep == IndInv /\ [Next]_vars => IndInv'
<1> SUFFICES ASSUME IndInv, [Next]_vars PROVE IndInv'
  OBVIOUS
<1>1. CASE \E p \in Procs, d \in Drafts, c \in Canonicals : Prepare(p, d, c)
  BY <1>1, PrepareStep
<1>2. CASE \E p \in Procs : Discard(p) \/ PublishCheck(p) \/ PublishRetry(p)
  BY <1>2, DiscardStep, PublishCheckStep, PublishRetryStep
<1>3. CASE \E p \in Procs : Publish(p)
  BY <1>3, WriteJournalStep, AppendFrameStep, WriteEvidenceStep, WriteImportStep,
     WriteManifestStep, ReplaceViewStep, FinishPublishStep DEF Publish
<1>4. CASE \E p \in Procs : RecoverCheck(p)
  BY <1>4, RecoverCheckStep
<1>5. CASE \E p \in Procs : Recover(p)
  BY <1>5, RemoveImportStep, WriteImportStep, TruncateStreamStep, AppendFrameStep,
     RemoveEvidenceStep, WriteEvidenceStep, RestoreViewStep, CompleteViewStep,
     FinishRecoveryStep DEF Recover
<1>6. CASE \E p \in Procs : Interrupt(p)
  BY <1>6, InterruptStep
<1>7. CASE LoseAddition \/ \E c \in Canonicals : Capture(c)
  BY <1>7, CaptureStep, LoseAdditionStep
<1>8. CASE \E t \in Texts : Edit(t)
  BY <1>8, EditStep
<1>9. CASE UNCHANGED vars
  BY <1>9 DEF vars, disk, budget, IndInv, TypeOK, Mutex, QuiescentSound, JournalInv,
     Between, PrepInv, PcInv, WitnessInv, Base, World, Committed
<1> QED
  BY <1>1, <1>2, <1>3, <1>4, <1>5, <1>6, <1>7, <1>8, <1>9 DEF Next

(* The invariant holds in every reachable state. *)
THEOREM Invariance == Spec => []IndInv
BY InitStep, NextStep, PTL DEF Spec

(* Every variable keeps its type, whatever crashes, is lost or is edited. *)
THEOREM TypeCorrect == Spec => []TypeOK
<1>1. IndInv => TypeOK
  BY DEF IndInv
<1> QED
  BY <1>1, Invariance, PTL

(* Whenever no journal is on disk the record is the complete closure of a
   history with one tip: no torn, orphan or missing part, no fork. *)
THEOREM QuiescentRecordIsSound == Spec => []QuiescentSound
<1>1. IndInv => QuiescentSound
  BY DEF IndInv
<1> QED
  BY <1>1, Invariance, PTL

(* A manifest that was there before a pending transaction is still there,
   with its frames and its evidence. *)
LEMMA WitnessedStays == IndInv => WitnessedIntact
<1> SUFFICES ASSUME IndInv, NEW m \in witnessed
             PROVE  /\ commits[m.op] = m
                    /\ \A s \in m.subjects : Frames(m) \subseteq stream[s]
                    /\ m.evidence \subseteq evid
  BY DEF WitnessedIntact
<1>1. m \in Manifests /\ m.op \in Ops /\ m # Nil /\ m.subjects \subseteq Subjects
  BY DEF IndInv, TypeOK, Manifests
<1>2. Base.commits[m.op] = m
  BY DEF IndInv, WitnessInv
<1>3. CASE journal = Nil
  <2>1. Base = World /\ Sound(World)
    BY <1>3 DEF IndInv, QuiescentSound, Base
  <2>2. commits[m.op] = m /\ m.op \in Present(commits)
    BY <1>1, <1>2, <2>1 DEF World, Present
  <2>3. Complete(commits, stream, evid)
    BY <2>1 DEF Sound, World
  <2>4. \A s \in m.subjects : Frames(m) \subseteq CommittedFrames(commits, s)
    BY <2>2 DEF CommittedFrames
  <2> QED
    BY <1>1, <2>2, <2>3, <2>4 DEF Complete
<1>4. CASE journal # Nil
  <2>1. /\ journal \in Journals /\ pre \in Worlds
        /\ Fits(pre, journal) /\ Between(pre, journal)
    BY <1>4 DEF IndInv, TypeOK, JournalInv
  <2>2. pre.commits[m.op] = m /\ m.op \in Present(pre.commits)
    BY <1>1, <1>2, <1>4 DEF Base, Present
  <2>3. AfterCommits(pre, journal)[m.op] = m
    BY <1>1, <2>1, <2>2, AfterLookup DEF Fits
  <2>4. Complete(pre.commits, pre.stream, pre.evid)
    BY <2>1 DEF Fits, Sound
  <2>5. \A s \in m.subjects : Frames(m) \subseteq CommittedFrames(pre.commits, s)
    BY <2>2 DEF CommittedFrames
  <2>6. \A s \in m.subjects : Frames(m) \subseteq pre.stream[s]
    BY <1>1, <2>4, <2>5 DEF Complete
  <2>7. m.evidence \subseteq pre.evid
    BY <2>2, <2>4 DEF Complete
  <2> QED
    BY <1>1, <2>1, <2>2, <2>3, <2>6, <2>7 DEF Between
<1> QED
  BY <1>3, <1>4

(* What a caller saw as committed is on disk in every later state, in the
   middle of every later publication, rollback and completion. *)
THEOREM WitnessedHistoryIsDurable == Spec => []WitnessedIntact
BY WitnessedStays, Invariance, PTL

(* A journal that is on disk is left alone by every step except the last
   step of publish and the last step of recover. *)
LEMMA JournalMoves ==
    ASSUME IndInv, [Next]_vars, journal # Nil, journal' # journal
    PROVE  \E p \in Procs : FinishPublish(p) \/ FinishRecovery(p)
<1> USE DEF disk
<1>1. ~ UNCHANGED vars
  BY DEF vars
<1>2. ASSUME NEW p \in Procs, Publish(p) PROVE FinishPublish(p)
  <2>1. ~WriteJournal(p)
    BY DEF WriteJournal, IndInv, PcInv
  <2> QED
    BY <1>2, <2>1 DEF Publish, AppendFrame, WriteEvidence, WriteImport,
       WriteManifest, ReplaceView
<1>3. ASSUME NEW p \in Procs, Recover(p) PROVE FinishRecovery(p)
  BY <1>3 DEF Recover, RemoveImport, CompleteImport, TruncateStream, CompleteAppend,
     RemoveEvidence, CompleteEvidence, RestoreView, CompleteView
<1>4. ASSUME NEW p \in Procs
      PROVE  /\ \A d \in Drafts, c \in Canonicals : ~Prepare(p, d, c)
             /\ ~Discard(p) /\ ~PublishCheck(p) /\ ~PublishRetry(p)
             /\ ~RecoverCheck(p) /\ ~Interrupt(p)
  BY DEF Prepare, Discard, PublishCheck, PublishRetry, RecoverCheck, Interrupt
<1>5. /\ \A c \in Canonicals : ~Capture(c)
      /\ ~LoseAddition
      /\ \A t \in Texts : ~Edit(t)
  BY DEF Capture, LoseAddition, Edit
<1> QED
  BY <1>1, <1>2, <1>3, <1>4, <1>5 DEF Next

(* Publication and recovery are all or nothing, in every interleaving of
   crashes and losses: the journal leaves either the record it was written
   over, or that record and the whole transaction. *)
THEOREM PublicationIsAllOrNothing == Spec => AllOrNothing
<1>1. ASSUME IndInv, [Next]_vars, journal # Nil, journal' = Nil
      PROVE  \/ World' = pre /\ (raced \/ view' = journal.manifest.before)
             \/ /\ World' = AfterWorld(pre, journal)
                /\ raced \/ view' = After(journal.manifest)
  <2>1. PICK p \in Procs : FinishPublish(p) \/ FinishRecovery(p)
    BY <1>1, JournalMoves
  <2>2. World' = World /\ view' = view
    BY <2>1 DEF FinishPublish, FinishRecovery, World
  <2>3. CASE FinishPublish(p)
    BY <1>1, <2>2, <2>3 DEF FinishPublish, IndInv, PcInv
  <2>4. CASE FinishRecovery(p)
    BY <1>1, <2>2, <2>4 DEF FinishRecovery, IndInv, PcInv
  <2> QED
    BY <2>1, <2>3, <2>4
<1>2. IndInv /\ [Next]_vars =>
        [journal # Nil /\ journal' = Nil =>
            \/ World' = pre /\ (raced \/ view' = journal.manifest.before)
            \/ /\ World' = AfterWorld(pre, journal)
               /\ raced \/ view' = After(journal.manifest)]_vars
  BY <1>1
<1> QED
  BY <1>2, Invariance, PTL DEF Spec, AllOrNothing

(* A pending journal is never written over by another publication. *)
THEOREM JournalHasOneOwner == Spec => JournalOwned
<1>1. IndInv /\ [Next]_vars => [journal # Nil => journal' \in {journal, Nil}]_journal
  BY JournalMoves DEF FinishPublish, FinishRecovery
<1> QED
  BY <1>1, Invariance, PTL DEF Spec, JournalOwned

-----------------------------------------------------------------------------
(***************************************************************************)
(* NodePublication implements AtomicHistory.  Logical and LogicalView give *)
(* the record as its readers may know it; the manifest's appearance is the *)
(* abstract Commit, replacing or restoring the view is an abstract Edit or *)
(* nothing, and every other step is nothing.                               *)
(***************************************************************************)
-----------------------------------------------------------------------------
(* The view *)

(* Facts about the journal in a state of the invariant. *)
LEMMA PendingFacts ==
    ASSUME IndInv, journal # Nil
    PROVE  /\ journal \in Journals /\ pre \in Worlds
           /\ Fits(pre, journal) /\ Between(pre, journal)
           /\ journal.manifest \in Manifests
           /\ Op(journal) \in Ops /\ Op(journal) # Nil
           /\ pre.commits[Op(journal)] = Nil
           /\ After(journal.manifest) \in Views
           /\ After(journal.manifest).op = Op(journal)
<1>1. /\ journal \in Journals /\ pre \in Worlds
      /\ Fits(pre, journal) /\ Between(pre, journal)
  BY DEF IndInv, TypeOK, JournalInv
<1>2. journal.manifest \in Manifests /\ Op(journal) \in Ops /\ Op(journal) # Nil
  BY <1>1, JournalType
<1> QED
  BY <1>1, <1>2 DEF Fits, After, Views, Manifests, Op

(* No step between writing the journal and removing it takes the decision
   back: only the manifest's appearance changes it. *)
LEMMA DecisionStays ==
    ASSUME IndInv, journal # Nil, [Next]_vars, journal' # Nil,
           \A p \in Procs : ~WriteManifest(p)
    PROVE  /\ journal' = journal /\ pre' = pre
           /\ Committed' = Committed
<1> USE DEF disk
<1>1. journal' = journal
  BY JournalMoves DEF FinishPublish, FinishRecovery
<1>2. ASSUME NEW p \in Procs, Publish(p) PROVE pre' = pre /\ Committed' = Committed
  <2>1. ~WriteJournal(p)
    BY DEF WriteJournal, IndInv, PcInv
  <2>2. ~FinishPublish(p)
    BY DEF FinishPublish
  <2>3. CASE \E s \in Subjects : AppendFrame(p, s)
    BY <1>1, <2>3 DEF AppendFrame, Committed
  <2>4. CASE \E e \in journal.manifest.evidence : WriteEvidence(p, e)
    BY <1>1, <2>4 DEF WriteEvidence, Committed
  <2>5. CASE \E m \in journal.imports : WriteImport(p, m)
    <3>1. PICK m \in journal.imports : WriteImport(p, m)
      BY <2>5
    <3>2. m.op \in Ops /\ m.op # Op(journal) /\ Op(journal) \in Ops
      BY <3>1, WritingFacts DEF WriteImport
    <3> QED
      BY <1>1, <3>1, <3>2 DEF WriteImport, Committed, IndInv, TypeOK, Inventories
  <2>6. CASE ReplaceView(p)
    BY <1>1, <2>6 DEF ReplaceView, Committed
  <2> QED
    BY <1>2, <2>1, <2>2, <2>3, <2>4, <2>5, <2>6 DEF Publish
<1>3. ASSUME NEW p \in Procs, Recover(p) PROVE pre' = pre /\ Committed' = Committed
  <2>1. ~FinishRecovery(p)
    BY DEF FinishRecovery
  <2>2. CASE \E m \in journal.imports : RemoveImport(p, m) \/ CompleteImport(p, m)
    <3>1. PICK m \in journal.imports : RemoveImport(p, m) \/ CompleteImport(p, m)
      BY <2>2
    <3>2. m.op \in Ops /\ m.op # Op(journal) /\ Op(journal) \in Ops
      BY <3>1, WritingFacts DEF RemoveImport, CompleteImport
    <3> QED
      BY <1>1, <3>1, <3>2
      DEF RemoveImport, CompleteImport, Committed, IndInv, TypeOK, Inventories
  <2>3. CASE \E s \in Subjects : TruncateStream(p, s) \/ CompleteAppend(p, s)
    BY <1>1, <2>3 DEF TruncateStream, CompleteAppend, Committed
  <2>4. CASE \E e \in journal.manifest.evidence : RemoveEvidence(p, e) \/ CompleteEvidence(p, e)
    BY <1>1, <2>4 DEF RemoveEvidence, CompleteEvidence, Committed
  <2>5. CASE RestoreView(p) \/ CompleteView(p)
    BY <1>1, <2>5 DEF RestoreView, CompleteView, Committed
  <2> QED
    BY <1>3, <2>1, <2>2, <2>3, <2>4, <2>5 DEF Recover
<1>4. CASE LoseAddition
  <2>1. UNCHANGED <<pre, journal>>
    BY <1>4 DEF LoseAddition
  <2>2. CASE commits' = commits
    BY <1>1, <2>1, <2>2 DEF Committed
  <2>3. CASE \E m \in journal.imports : /\ commits' = [commits EXCEPT ![m.op] = Nil]
                                        /\ UNCHANGED <<stream, evid>>
    BY <2>1, <2>3, ImportGoes
  <2> QED
    BY <1>4, <2>1, <2>2, <2>3 DEF LoseAddition
<1>5. CASE \E t \in Texts : Edit(t)
  BY <1>1, <1>5 DEF Edit, Committed
<1>6. CASE UNCHANGED <<commits, journal, pre>>
  BY <1>6 DEF Committed
<1>7. ASSUME NEW p \in Procs,
             \/ \E d \in Drafts, c \in Canonicals : Prepare(p, d, c)
             \/ Discard(p) \/ PublishCheck(p) \/ PublishRetry(p)
             \/ RecoverCheck(p) \/ Interrupt(p)
      PROVE  UNCHANGED <<commits, journal, pre>>
  BY <1>7 DEF Prepare, Discard, PublishCheck, PublishRetry, RecoverCheck, Interrupt
<1>8. (\E c \in Canonicals : Capture(c)) \/ UNCHANGED vars
         => UNCHANGED <<commits, journal, pre>>
  BY DEF Capture, vars
<1> QED
  BY <1>1, <1>2, <1>3, <1>4, <1>5, <1>6, <1>7, <1>8 DEF Next

(* The steps that the view and the decision depend on, and the rest: what is
   neither shows nothing to a reader. *)
Hidden == /\ UNCHANGED <<journal, pre, view>>
          /\ Committed' = Committed
          /\ journal = Nil => World' = World

(* How a process came to hold the lock: it held it, or it has just checked. *)
Arrived == \A q \in Procs : pc'[q] # "idle" =>
              \/ pc[q] = pc'[q] /\ prep'[q] = prep[q]
              \/ pc'[q] = "checked" /\ PublishCheck(q)
              \/ pc'[q] \in {"rolling", "forward"} /\ RecoverCheck(q)

ViewWriter(p) == ReplaceView(p) \/ RestoreView(p) \/ CompleteView(p)
Finisher(p) == FinishPublish(p) \/ FinishRecovery(p)

(* Every step is hidden or one of the steps that a reader may notice. *)
LEMMA Moves ==
    ASSUME IndInv, [Next]_vars
    PROVE  \/ Hidden /\ Arrived
           \/ \E p \in Procs : \/ WriteJournal(p) \/ WriteManifest(p)
                               \/ ViewWriter(p) \/ Finisher(p)
           \/ \E t \in Texts : Edit(t)
<1> SUFFICES ASSUME \A p \in Procs : /\ ~WriteJournal(p) /\ ~WriteManifest(p)
                                     /\ ~ViewWriter(p) /\ ~Finisher(p),
                    \A t \in Texts : ~Edit(t)
             PROVE  Hidden /\ Arrived
  OBVIOUS
<1>1. CASE UNCHANGED <<disk, pre>>
  <2>1. Hidden
    BY <1>1 DEF Hidden, Committed, World, disk
  <2>2. Arrived
    <3>1. CASE UNCHANGED <<pc, prep>>
      BY <3>1 DEF Arrived
    <3>2. CASE \E p \in Procs : /\ pc[p] = "idle" /\ UNCHANGED pc
                                /\ \E j : prep' = [prep EXCEPT ![p] = j]
      BY <3>2 DEF Arrived, IndInv, TypeOK
    <3>3. CASE \E p \in Procs : Interrupt(p)
      BY <3>3 DEF Arrived, Interrupt, Release, IndInv, TypeOK
    <3>4. CASE \E p \in Procs : PublishCheck(p) \/ RecoverCheck(p)
      <4>1. PICK p \in Procs : PublishCheck(p) \/ RecoverCheck(p)
        BY <3>4
      <4>2. PICK c \in {"checked", "forward", "rolling"} :
                pc' = [pc EXCEPT ![p] = c] /\ (c = "checked" <=> PublishCheck(p))
        BY <4>1 DEF PublishCheck, RecoverCheck
      <4>3. UNCHANGED prep
        BY <4>1 DEF PublishCheck, RecoverCheck
      <4>4. pc'[p] = c /\ \A q \in Procs : q # p => pc'[q] = pc[q]
        BY <4>2 DEF IndInv, TypeOK
      <4> QED
        BY <4>1, <4>2, <4>3, <4>4 DEF Arrived
    <3>5. ASSUME NEW p \in Procs,
                 \/ \E d \in Drafts, c \in Canonicals : Prepare(p, d, c)
                 \/ Discard(p) \/ PublishRetry(p)
          PROVE  /\ pc[p] = "idle" /\ UNCHANGED pc
                 /\ \E j : prep' = [prep EXCEPT ![p] = j]
      BY <3>5 DEF Prepare, Discard, PublishRetry, LockFree
    <3>6. ASSUME NEW p \in Procs, Publish(p) \/ Recover(p)
          PROVE  UNCHANGED <<pc, prep>>
      BY <3>6 DEF Publish, Recover, ViewWriter, Finisher, AppendFrame, WriteEvidence,
         WriteImport, RemoveImport, CompleteImport, TruncateStream, CompleteAppend,
         RemoveEvidence, CompleteEvidence
    <3>7. (\E c \in Canonicals : Capture(c)) \/ LoseAddition \/ UNCHANGED vars
             => UNCHANGED <<pc, prep>>
      BY DEF Capture, LoseAddition, vars
    <3> QED
      BY <3>1, <3>2, <3>3, <3>4, <3>5, <3>6, <3>7 DEF Next
  <2> QED
    BY <2>1, <2>2
<1>2. CASE ~ UNCHANGED <<disk, pre>>
  <2>1. /\ ~ UNCHANGED vars /\ \A c \in Canonicals : ~Capture(c)
        /\ \A p \in Procs : /\ \A d \in Drafts, c \in Canonicals : ~Prepare(p, d, c)
                            /\ ~Discard(p) /\ ~PublishCheck(p) /\ ~PublishRetry(p)
                            /\ ~RecoverCheck(p) /\ ~Interrupt(p)
    BY <1>2 DEF Capture, vars, Prepare, Discard, PublishCheck, PublishRetry,
       RecoverCheck, Interrupt
  <2>2. LoseAddition \/ \E p \in Procs : Publish(p) \/ Recover(p)
    BY <2>1 DEF Next
  <2>3. ASSUME NEW p \in Procs, Publish(p) \/ Recover(p)
        PROVE  journal # Nil /\ UNCHANGED <<view, journal, pc, prep>>
    <3>1. pc[p] \in {"writing", "rolling", "forward"} /\ UNCHANGED <<view, journal, pc, prep>>
      BY <2>3 DEF Publish, Recover, ViewWriter, Finisher, AppendFrame, WriteEvidence,
         WriteImport, RemoveImport, CompleteImport, TruncateStream, CompleteAppend,
         RemoveEvidence, CompleteEvidence
    <3> QED
      BY <3>1 DEF IndInv, PcInv
  <2>4. LoseAddition => journal # Nil /\ UNCHANGED <<view, journal, pc, prep>>
    BY DEF LoseAddition
  <2>5. journal # Nil /\ UNCHANGED <<view, journal, pc, prep>>
    BY <2>2, <2>3, <2>4
  <2>6. pre' = pre /\ Committed' = Committed
    BY <2>5, DecisionStays
  <2> QED
    BY <2>5, <2>6 DEF Hidden, Arrived
<1> QED
  BY <1>1, <1>2

(* In a state of both invariants: before the decision the view is bound as
   it was, which is not to the pending transaction. *)
LEMMA Undecided ==
    ASSUME IndInv, ViewInv, journal # Nil, ~Committed
    PROVE  view # Nil => view.op # Op(journal)
<1>1. Op(journal) \notin Present(pre.commits) \cup {Nil}
  BY PendingFacts DEF Present
<1> QED
  BY <1>1 DEF ViewInv, Known, SameOp

(* What a process that replaces the view does. *)
LEMMA ViewWritten ==
    ASSUME IndInv, NEW p \in Procs, ViewWriter(p)
    PROVE  /\ journal # Nil /\ UNCHANGED <<journal, pre, prep, commits, stream, evid>>
           /\ World' = World /\ Committed' = Committed
           /\ \A q \in Procs : q # p => pc'[q] = "idle"
           /\ \/ Committed /\ view' = After(journal.manifest)
              \/ ~Committed /\ view' = journal.manifest.before /\ pc'[p] = "settled"
<1>1. /\ UNCHANGED <<journal, pre, prep, commits, stream, evid>>
      /\ pc[p] \in {"committed", "rolling", "forward"}
      /\ pc' = [pc EXCEPT ![p] = IF pc[p] = "committed" THEN "viewed" ELSE "settled"]
      /\ view' = IF pc[p] = "rolling" THEN journal.manifest.before ELSE After(journal.manifest)
  BY DEF ViewWriter, ReplaceView, RestoreView, CompleteView
<1>2. journal # Nil /\ (Committed <=> pc[p] # "rolling")
  BY <1>1, CommittedFacts DEF IndInv, PcInv
<1>3. pc'[p] = IF pc[p] = "committed" THEN "viewed" ELSE "settled"
  BY <1>1 DEF IndInv, TypeOK
<1>4. \A q \in Procs : q # p => pc'[q] = "idle"
  BY <1>1, OthersIdle DEF IndInv, TypeOK
<1>5. World' = World /\ Committed' = Committed
  BY <1>1 DEF World, Committed
<1> QED
  BY <1>1, <1>2, <1>3, <1>4, <1>5

(* What the last step of publish and recover does. *)
LEMMA Finished ==
    ASSUME IndInv, ViewInv, NEW p \in Procs, Finisher(p)
    PROVE  /\ journal # Nil /\ journal' = Nil
           /\ UNCHANGED <<commits, stream, evid, view, prep>>
           /\ \A q \in Procs : pc'[q] = "idle"
           /\ World' = World
           /\ \/ Committed /\ World = AfterWorld(pre, journal)
                 /\ view # Nil /\ view.op = Op(journal)
              \/ ~Committed /\ World = pre
<1>1. /\ journal' = Nil /\ UNCHANGED <<commits, stream, evid, view, prep>>
      /\ pc[p] \in {"viewed", "settled"} /\ pc' = [pc EXCEPT ![p] = "idle"]
  BY DEF Finisher, FinishPublish, FinishRecovery, Release
<1>2. \A q \in Procs : pc'[q] = "idle"
  BY <1>1, OthersIdle DEF IndInv, TypeOK
<1>3. World' = World
  BY <1>1 DEF World
<1>4. CASE pc[p] = "viewed"
  BY <1>1, <1>2, <1>3, <1>4, CommittedFacts DEF ViewInv
<1>5. CASE pc[p] = "settled"
  BY <1>1, <1>2, <1>3, <1>5 DEF ViewInv, IndInv, PcInv
<1> QED
  BY <1>1, <1>4, <1>5

(* The transaction a process has checked was prepared from this very view. *)
LEMMA CheckedView ==
    ASSUME NEW p \in Procs, PublishCheck(p)
    PROVE  SameOp(view, prep[p].manifest.before)
BY DEF PublishCheck, Revalidate, SameOp

(* The facts about the view are kept by every step. *)
LEMMA ViewStep == IndInv /\ ViewInv /\ [Next]_vars => ViewInv'
<1> SUFFICES ASSUME IndInv, ViewInv, [Next]_vars PROVE ViewInv'
  OBVIOUS
<1>0. IndInv'
  BY NextStep
<1>1. CASE Hidden /\ Arrived
  <2>1. journal = Nil => commits' = commits
    BY <1>1 DEF Hidden, World
  <2>2. journal' = Nil => Known(view', commits')
    BY <1>1, <2>1 DEF Hidden, ViewInv
  <2>3. journal' # Nil => Known(journal'.manifest.before, pre'.commits)
    BY <1>1 DEF Hidden, ViewInv
  <2>4. journal' # Nil => \/ SameOp(view', journal'.manifest.before)
                          \/ Committed' /\ view' # Nil /\ view'.op = Op(journal')
    BY <1>1 DEF Hidden, ViewInv
  <2>5. ASSUME NEW q \in Procs
        PROVE  /\ pc'[q] = "checked" => SameOp(view', prep'[q].manifest.before)
               /\ pc'[q] = "viewed" => view' # Nil /\ view'.op = Op(journal')
               /\ pc'[q] = "settled" /\ Committed' => view' # Nil /\ view'.op = Op(journal')
    <3>1. CASE PublishCheck(q) /\ pc'[q] = "checked"
      <4>1. UNCHANGED <<view, prep>>
        BY <3>1 DEF PublishCheck, disk
      <4> QED
        BY <3>1, <4>1, CheckedView
    <3>2. CASE pc[q] = pc'[q] /\ prep'[q] = prep[q]
      BY <1>1, <3>2 DEF Hidden, ViewInv
    <3>3. CASE pc'[q] \notin {"checked", "viewed", "settled"}
      BY <3>3
    <3> QED
      BY <1>1, <3>1, <3>2, <3>3 DEF Arrived
  <2> QED
    BY <2>2, <2>3, <2>4, <2>5 DEF ViewInv
<1>2. ASSUME NEW p \in Procs, WriteJournal(p) PROVE ViewInv'
  <2>1. /\ pc[p] = "checked" /\ journal' = prep[p] /\ pre' = World
        /\ pc' = [pc EXCEPT ![p] = "writing"] /\ view' = view
    BY <1>2 DEF WriteJournal
  <2>2. journal = Nil /\ prep[p] # Nil
    BY <2>1 DEF IndInv, PcInv
  <2>3. SameOp(view, prep[p].manifest.before) /\ Known(view, commits)
    BY <2>1, <2>2 DEF ViewInv
  <2>4. \A q \in Procs : pc'[q] \in {"idle", "writing"}
    BY <2>1, OthersIdle DEF IndInv, TypeOK
  <2>5. pre'.commits = commits
    BY <2>1 DEF World
  <2> QED
    BY <2>1, <2>2, <2>3, <2>4, <2>5 DEF ViewInv, Known, SameOp
<1>3. ASSUME NEW p \in Procs, WriteManifest(p) PROVE ViewInv'
  <2>1. /\ pc[p] = "writing" /\ UNCHANGED <<journal, pre, view>>
        /\ pc' = [pc EXCEPT ![p] = "committed"]
    BY <1>3 DEF WriteManifest
  <2>2. journal # Nil /\ ~Committed
    BY <2>1 DEF IndInv, PcInv
  <2>3. \A q \in Procs : pc'[q] \in {"idle", "committed"}
    BY <2>1, OthersIdle DEF IndInv, TypeOK
  <2> QED
    BY <2>1, <2>2, <2>3 DEF ViewInv
<1>4. ASSUME NEW p \in Procs, ViewWriter(p) PROVE ViewInv'
  <2>1. /\ journal # Nil /\ UNCHANGED <<journal, pre, prep, commits>>
        /\ Committed' = Committed
        /\ \A q \in Procs : q # p => pc'[q] = "idle"
        /\ \/ Committed /\ view' = After(journal.manifest)
           \/ ~Committed /\ view' = journal.manifest.before /\ pc'[p] = "settled"
    BY <1>4, ViewWritten
  <2>2. /\ After(journal.manifest) # Nil
        /\ After(journal.manifest).op = Op(journal)
    BY <2>1, PendingFacts
  <2>3. journal' # Nil => \/ SameOp(view', journal'.manifest.before)
                          \/ Committed' /\ view' # Nil /\ view'.op = Op(journal')
    BY <2>1, <2>2 DEF SameOp
  <2>4. ASSUME NEW q \in Procs, pc'[q] \in {"checked", "viewed"} PROVE Committed'
    BY <1>0, <2>1, <2>4 DEF IndInv, PcInv
  <2>5. \A q \in Procs : pc'[q] # "checked"
    BY <1>0, <2>1 DEF IndInv, PcInv
  <2> QED
    BY <2>1, <2>2, <2>3, <2>4, <2>5 DEF ViewInv
<1>5. ASSUME NEW p \in Procs, Finisher(p) PROVE ViewInv'
  <2>1. /\ journal # Nil /\ journal' = Nil
        /\ UNCHANGED <<commits, stream, evid, view, prep>>
        /\ \A q \in Procs : pc'[q] = "idle"
        /\ \/ Committed /\ view # Nil /\ view.op = Op(journal)
           \/ ~Committed /\ World = pre
    BY <1>5, Finished
  <2>2. Known(view, commits)
    <3>1. CASE Committed /\ view # Nil /\ view.op = Op(journal)
      BY <2>1, <3>1, PendingFacts DEF Known, Committed, Present
    <3>2. CASE ~Committed /\ World = pre
      <4>1. pre.commits = commits
        BY <3>2 DEF World
      <4> QED
        BY <2>1, <3>2, <4>1 DEF ViewInv, Known, SameOp
    <3> QED
      BY <2>1, <3>1, <3>2
  <2> QED
    BY <2>1, <2>2 DEF ViewInv
<1>6. ASSUME NEW t \in Texts, Edit(t) PROVE ViewInv'
  <2>1. /\ view # Nil /\ view' = [view EXCEPT !.text = t]
        /\ UNCHANGED <<commits, journal, pc, prep, pre>>
    BY <1>6 DEF Edit
  <2>2. view \in Views
    BY <2>1 DEF IndInv, TypeOK
  <2>3. view' # Nil /\ view'.op = view.op
    BY <1>0, <2>1, <2>2 DEF Views
  <2>4. \A w : SameOp(view', w) <=> SameOp(view, w)
    BY <2>1, <2>3 DEF SameOp
  <2>5. Known(view, commits) => Known(view', commits')
    BY <2>1, <2>3 DEF Known
  <2>6. Committed' = Committed
    BY <2>1 DEF Committed
  <2> QED
    BY <2>1, <2>3, <2>4, <2>5, <2>6 DEF ViewInv
<1> QED
  BY <1>1, <1>2, <1>3, <1>4, <1>5, <1>6, Moves

-----------------------------------------------------------------------------
(* The refinement *)

(* An unborn record is an empty history. *)
LEMMA InitRefines == Init => History!Init /\ ViewInv
<1> SUFFICES ASSUME Init PROVE History!Init /\ ViewInv
  OBVIOUS
<1>1. Logical = World /\ LogicalView = view
  BY DEF Init, Logical, LogicalView
<1>2. History!Init
  BY <1>1 DEF Init, World, History!Init
<1>3. ViewInv
  BY DEF Init, ViewInv, Known
<1> QED
  BY <1>2, <1>3

(* A reader sees nothing of a hidden step. *)
LEMMA HiddenStutters ==
    ASSUME Hidden PROVE Logical' = Logical /\ LogicalView' = LogicalView
BY DEF Hidden, Logical, LogicalView

(* Writing the journal over the record shows the record. *)
LEMMA WriteJournalStutters ==
    ASSUME IndInv, NEW p \in Procs, WriteJournal(p)
    PROVE  Logical' = Logical /\ LogicalView' = LogicalView
<1>1. /\ pc[p] = "checked" /\ journal' = prep[p] /\ pre' = World
      /\ UNCHANGED <<commits, view>>
  BY DEF WriteJournal
<1>2. journal = Nil /\ journal' # Nil /\ Fits(World, prep[p])
  BY <1>1 DEF IndInv, PcInv
<1>3. ~Committed'
  BY <1>1, <1>2 DEF Fits, Committed, World
<1> QED
  BY <1>1, <1>2, <1>3 DEF Logical, LogicalView

(* Without the transaction the inventory after it is the one it joins. *)
LEMMA AfterWithout ==
    ASSUME NEW w \in Worlds, NEW j \in Journals, Fits(w, j)
    PROVE  [AfterCommits(w, j) EXCEPT ![Op(j)] = Nil] = WithImports(w.commits, j.imports)
<1> DEFINE all == WithImports(w.commits, j.imports)
<1>1. w.commits \in Inventories /\ j.imports \in SUBSET Foreign /\ Op(j) \in Ops
  BY JournalType DEF Worlds
<1>2. all \in Inventories /\ all[Op(j)] = Nil
  BY <1>1, ImportLookup DEF Fits
<1>3. AfterCommits(w, j) = [all EXCEPT ![Op(j)] = j.manifest]
  BY DEF AfterCommits
<1> HIDE DEF all
<1>4. [[all EXCEPT ![Op(j)] = j.manifest] EXCEPT ![Op(j)] = Nil] = all
  BY <1>1, <1>2 DEF Inventories
<1> QED
  BY <1>3, <1>4 DEF all

(* The manifest's appearance is the whole transaction. *)
LEMMA ManifestCommits ==
    ASSUME IndInv, ViewInv, NEW p \in Procs, WriteManifest(p)
    PROVE  \E o \in Ops : History!Commit(o)
<1>1. /\ pc[p] = "writing" /\ UNCHANGED <<journal, pre, view>>
      /\ commits' = [commits EXCEPT ![Op(journal)] = journal.manifest]
  BY DEF WriteManifest
<1>2. journal # Nil /\ ~Committed
  BY <1>1 DEF IndInv, PcInv
<1>3. /\ journal \in Journals /\ pre \in Worlds /\ Fits(pre, journal)
      /\ Op(journal) \in Ops /\ pre.commits[Op(journal)] = Nil
      /\ journal.manifest \in Manifests /\ journal.manifest # Nil
  BY <1>2, PendingFacts
<1>4. Committed'
  BY <1>1, <1>3 DEF Committed, IndInv, TypeOK, Inventories
<1> DEFINE o == Op(journal)
           new == AfterWorld(pre, journal)
<1>5. /\ Logical = pre /\ Logical' = new
      /\ LogicalView' = After(journal.manifest)
  <2>1. view # Nil => view.op # Op(journal)
    BY <1>2, Undecided
  <2> QED
    BY <1>1, <1>2, <1>4, <2>1 DEF Logical, LogicalView
<1>6. /\ new.commits = AfterCommits(pre, journal)
      /\ new.evid = pre.evid \cup journal.manifest.evidence
  BY DEF AfterWorld
<1>7. Sound(new)
  BY <1>3, AfterSound
<1>8. /\ new.commits[o] = journal.manifest
      /\ o \in Present(new.commits) \ Present(pre.commits)
      /\ \A q \in Present(pre.commits) : new.commits[q] = pre.commits[q]
  <2>1. \A q \in Present(pre.commits) :
           q \in Ops /\ q # o /\ \A m \in journal.imports : m.op # q
    BY <1>3 DEF Present, Fits
  <2> QED
    BY <1>3, <1>6, <2>1, AfterLookup DEF Fits, Present
<1>9. new.commits[o].parents = Frontier([new.commits EXCEPT ![o] = Nil])
  BY <1>3, <1>6, <1>8, AfterWithout DEF Fits
<1> HIDE DEF o, new
<1>10. o \in Ops
  BY <1>3 DEF o
<1>11. \A c : History!Present(c) = Present(c) /\ History!Frontier(c) = Frontier(c)
  BY DEF History!Present, Present, History!Frontier, Frontier
<1>12. \A c : History!ValidInventory(c) <=> ValidInventory(c)
  BY <1>11 DEF History!ValidInventory, ValidInventory, History!Acyclic, Acyclic
<1>13. \A m : History!After(m) = After(m) /\ History!Frames(m) = Frames(m)
  BY DEF History!After, After, History!Frames, Frames
<1>14. \A c, st, ev : Complete(c, st, ev) => History!Complete(c, st, ev)
  BY <1>11, <1>13
  DEF History!Complete, Complete, History!CommittedFrames, CommittedFrames
<1>15. History!Commit(o)
  BY <1>5, <1>6, <1>7, <1>8, <1>9, <1>11, <1>12, <1>13, <1>14
  DEF History!Commit, Sound
<1> QED
  BY <1>10, <1>15

(* Replacing one body of a view by another is an edit. *)
LEMMA Retext ==
    ASSUME NEW v \in Views, NEW w \in Views, v.op = w.op
    PROVE  w = [v EXCEPT !.text = w.text] /\ w.text \in Texts
BY DEF Views

(* Replacing or restoring the view shows the committed view, which readers
   could derive already, or takes an edit back. *)
LEMMA ViewWriterEdits ==
    ASSUME IndInv, ViewInv, NEW p \in Procs, ViewWriter(p)
    PROVE  \/ Logical' = Logical /\ LogicalView' = LogicalView
           \/ \E t \in Texts : History!Edit(t)
<1>1. /\ journal # Nil /\ UNCHANGED <<journal, pre>> /\ World' = World
      /\ Committed' = Committed
      /\ \/ Committed /\ view' = After(journal.manifest)
         \/ ~Committed /\ view' = journal.manifest.before
  BY ViewWritten
<1>2. Logical' = Logical
  BY <1>1 DEF Logical
<1>3. view \in Views \cup {Nil}
  BY DEF IndInv, TypeOK
<1>4. /\ After(journal.manifest) \in Views /\ After(journal.manifest).op = Op(journal)
      /\ journal.manifest.before \in Views \cup {Nil}
  BY <1>1, PendingFacts DEF Manifests
<1>5. ASSUME LogicalView \in Views, LogicalView' \in Views, LogicalView.op = LogicalView'.op
      PROVE  \E t \in Texts : History!Edit(t)
  <2>1. LogicalView # Nil
    BY <1>5
  <2>2. PICK t \in Texts : LogicalView' = [LogicalView EXCEPT !.text = t]
    BY <1>5, Retext
  <2> QED
    BY <1>2, <2>1, <2>2 DEF History!Edit
<1>6. CASE Committed
  <2>1. LogicalView' = After(journal.manifest)
    BY <1>1, <1>4, <1>6 DEF LogicalView
  <2>2. CASE view = Nil \/ view.op # Op(journal)
    BY <1>1, <1>2, <1>6, <2>1, <2>2 DEF LogicalView
  <2>3. CASE view # Nil /\ view.op = Op(journal)
    <3>1. LogicalView = view
      BY <1>1, <1>6, <2>3 DEF LogicalView
    <3> QED
      BY <1>3, <1>4, <1>5, <2>1, <2>3, <3>1
  <2> QED
    BY <2>2, <2>3
<1>7. CASE ~Committed
  <2>1. LogicalView = view /\ LogicalView' = journal.manifest.before
    BY <1>1, <1>7 DEF LogicalView
  <2>2. SameOp(view, journal.manifest.before)
    BY <1>1, <1>7 DEF ViewInv
  <2> QED
    BY <1>2, <1>3, <1>4, <1>5, <2>1, <2>2 DEF SameOp
<1> QED
  BY <1>6, <1>7

(* Removing the journal shows what was shown. *)
LEMMA FinisherStutters ==
    ASSUME IndInv, ViewInv, NEW p \in Procs, Finisher(p)
    PROVE  Logical' = Logical /\ LogicalView' = LogicalView
BY Finished DEF Logical, LogicalView

(* The user's edit is an edit, or is hidden behind the committed view. *)
LEMMA EditEdits ==
    ASSUME IndInv, NEW t \in Texts, Edit(t)
    PROVE  \/ Logical' = Logical /\ LogicalView' = LogicalView
           \/ History!Edit(t)
<1>1. /\ view # Nil /\ view' = [view EXCEPT !.text = t]
      /\ UNCHANGED <<commits, stream, evid, journal, pre>>
  BY DEF Edit
<1>2. view \in Views
  BY <1>1 DEF IndInv, TypeOK
<1>3. view' # Nil /\ view'.op = view.op
  BY <1>1, <1>2 DEF Views
<1>4. Logical' = Logical /\ Committed' = Committed
  BY <1>1 DEF Logical, World, Committed
<1>5. CASE journal # Nil /\ Committed /\ view.op # Op(journal)
  BY <1>1, <1>3, <1>4, <1>5 DEF LogicalView
<1>6. CASE ~(journal # Nil /\ Committed /\ view.op # Op(journal))
  <2>1. LogicalView = view /\ LogicalView' = view'
    BY <1>1, <1>3, <1>4, <1>6 DEF LogicalView
  <2> QED
    BY <1>1, <1>4, <2>1 DEF History!Edit
<1> QED
  BY <1>5, <1>6

(* Every step of the program is a step of the abstract history or nothing. *)
LEMMA StepRefines ==
    IndInv /\ ViewInv /\ [Next]_vars => [History!Next]_(History!vars)
<1> SUFFICES ASSUME IndInv, ViewInv, [Next]_vars
             PROVE  [History!Next]_(History!vars)
  OBVIOUS
<1>1. Logical' = Logical /\ LogicalView' = LogicalView => UNCHANGED History!vars
  BY DEF History!vars
<1>2. CASE Hidden
  BY <1>1, <1>2, HiddenStutters
<1>3. CASE \E p \in Procs : WriteJournal(p)
  BY <1>1, <1>3, WriteJournalStutters
<1>4. CASE \E p \in Procs : WriteManifest(p)
  BY <1>4, ManifestCommits DEF History!Next
<1>5. CASE \E p \in Procs : ViewWriter(p)
  BY <1>1, <1>5, ViewWriterEdits DEF History!Next
<1>6. CASE \E p \in Procs : Finisher(p)
  BY <1>1, <1>6, FinisherStutters
<1>7. CASE \E t \in Texts : Edit(t)
  BY <1>1, <1>7, EditEdits DEF History!Next
<1> QED
  BY <1>2, <1>3, <1>4, <1>5, <1>6, <1>7, Moves

(* The view is bound to a transaction the record has, or, once decided, to
   the pending one. *)
THEOREM ViewIsBound == Spec => []ViewInv
BY InitStep, NextStep, InitRefines, ViewStep, PTL DEF Spec

(* The journaled steps of publish and recover, interrupted anywhere and
   resumed by anyone, implement atomic transactions. *)
THEOREM PublicationRefinesAtomicHistory == Spec => ImplementsAtomicHistory
BY InitStep, NextStep, InitRefines, ViewStep, StepRefines, PTL
DEF Spec, ImplementsAtomicHistory, History!Spec

-----------------------------------------------------------------------------
(***************************************************************************)
(* Readers and edits: what the view is while nobody has edited it, and what*)
(* happens to an edit.                                                     *)
(***************************************************************************)

(* Only an edit counts as one. *)
LEMMA EditsCounted ==
    ASSUME [Next]_vars
    PROVE  edits' = edits \/ \E t \in Texts : Edit(t)
<1> USE DEF budget
<1>1. ASSUME NEW p \in Procs, Publish(p) PROVE edits' = edits
  BY <1>1 DEF Publish, WriteJournal, AppendFrame, WriteEvidence, WriteImport,
     WriteManifest, ReplaceView, FinishPublish
<1>2. ASSUME NEW p \in Procs, Recover(p) PROVE edits' = edits
  BY <1>2 DEF Recover, RemoveImport, CompleteImport, TruncateStream, CompleteAppend,
     RemoveEvidence, CompleteEvidence, RestoreView, CompleteView, FinishRecovery
<1>3. ASSUME NEW p \in Procs,
             \/ \E d \in Drafts, c \in Canonicals : Prepare(p, d, c)
             \/ Discard(p) \/ PublishCheck(p) \/ PublishRetry(p)
             \/ RecoverCheck(p) \/ Interrupt(p)
      PROVE  edits' = edits
  BY <1>3 DEF Prepare, Discard, PublishCheck, PublishRetry, RecoverCheck, Interrupt
<1>4. (\E c \in Canonicals : Capture(c)) \/ LoseAddition \/ UNCHANGED vars
         => edits' = edits
  BY DEF Capture, LoseAddition, vars
<1> QED
  BY <1>1, <1>2, <1>3, <1>4 DEF Next

(* A transaction's own view serves the record that it leaves. *)
LEMMA AfterServes ==
    ASSUME NEW w \in Worlds, NEW j \in Journals, Fits(w, j)
    PROVE  Serves(AfterWorld(w, j).commits, After(j.manifest))
<1>1. AfterWorld(w, j).commits = AfterCommits(w, j)
  BY DEF AfterWorld
<1>2. /\ Frontier(AfterCommits(w, j)) = {Op(j)} /\ Op(j) \in Present(AfterCommits(w, j))
      /\ AfterCommits(w, j)[Op(j)] = j.manifest
  BY AfterTip, AfterLookup DEF Fits
<1>3. After(j.manifest).op = Op(j) /\ After(j.manifest) # Nil
  <2>1. After(j.manifest) \in Views
    BY JournalType DEF After, Views, Manifests
  <2> QED
    BY <2>1 DEF After, Op
<1> QED
  BY <1>1, <1>2, <1>3 DEF Serves, ViewOK

(* Without an edit every step keeps the view right. *)
LEMMA ReadStep == IndInv /\ ViewInv /\ ReadInv /\ [Next]_vars => ReadInv'
<1> SUFFICES ASSUME IndInv, ViewInv, ReadInv, [Next]_vars, edits' = 0
             PROVE  Readable'
  BY DEF ReadInv
<1>0. IndInv'
  BY NextStep
<1>1. \A t \in Texts : ~Edit(t)
  BY DEF Edit, IndInv, TypeOK
<1>2. Readable
  BY <1>1, EditsCounted DEF ReadInv
<1>3. CASE Hidden /\ Arrived
  <2>1. UNCHANGED <<journal, pre, view>> /\ Committed' = Committed
        /\ (journal = Nil => commits' = commits)
    BY <1>3 DEF Hidden, World
  <2>2. /\ journal' = Nil => Serves(commits', view')
        /\ journal' # Nil =>
               /\ Serves(pre'.commits, journal'.manifest.before)
               /\ \/ view' = journal'.manifest.before
                  \/ Committed' /\ view' = After(journal'.manifest)
    BY <1>2, <2>1 DEF Readable
  <2>3. ASSUME NEW q \in Procs
        PROVE  /\ pc'[q] = "checked" => view' = prep'[q].manifest.before
               /\ pc'[q] = "viewed" => view' = After(journal'.manifest)
               /\ pc'[q] = "settled" =>
                      view' = IF Committed' THEN After(journal'.manifest)
                                            ELSE journal'.manifest.before
    <3>1. CASE PublishCheck(q) /\ pc'[q] = "checked"
      BY <3>1 DEF PublishCheck, Revalidate, disk
    <3>2. CASE pc[q] = pc'[q] /\ prep'[q] = prep[q]
      BY <1>2, <2>1, <3>2 DEF Readable
    <3>3. CASE pc'[q] \notin {"checked", "viewed", "settled"}
      BY <3>3
    <3> QED
      BY <1>3, <3>1, <3>2, <3>3 DEF Arrived
  <2> QED
    BY <2>2, <2>3 DEF Readable
<1>4. ASSUME NEW p \in Procs, WriteJournal(p) PROVE Readable'
  <2>1. /\ pc[p] = "checked" /\ journal' = prep[p] /\ pre' = World
        /\ pc' = [pc EXCEPT ![p] = "writing"] /\ view' = view
    BY <1>4 DEF WriteJournal
  <2>2. journal = Nil /\ prep[p] # Nil
    BY <2>1 DEF IndInv, PcInv
  <2>3. view = prep[p].manifest.before /\ Serves(commits, view)
    BY <1>2, <2>1, <2>2 DEF Readable
  <2>4. \A q \in Procs : pc'[q] \in {"idle", "writing"}
    BY <2>1, OthersIdle DEF IndInv, TypeOK
  <2>5. pre'.commits = commits
    BY <2>1 DEF World
  <2> QED
    BY <2>1, <2>2, <2>3, <2>4, <2>5 DEF Readable
<1>5. ASSUME NEW p \in Procs, WriteManifest(p) PROVE Readable'
  <2>1. /\ pc[p] = "writing" /\ UNCHANGED <<journal, pre, view>>
        /\ pc' = [pc EXCEPT ![p] = "committed"]
    BY <1>5 DEF WriteManifest
  <2>2. journal # Nil /\ ~Committed
    BY <2>1 DEF IndInv, PcInv
  <2>3. \A q \in Procs : pc'[q] \in {"idle", "committed"}
    BY <2>1, OthersIdle DEF IndInv, TypeOK
  <2> QED
    BY <1>2, <2>1, <2>2, <2>3 DEF Readable
<1>6. ASSUME NEW p \in Procs, ViewWriter(p) PROVE Readable'
  <2>1. /\ journal # Nil /\ UNCHANGED <<journal, pre>> /\ Committed' = Committed
        /\ \A q \in Procs : q # p => pc'[q] = "idle"
        /\ \/ Committed /\ view' = After(journal.manifest)
           \/ ~Committed /\ view' = journal.manifest.before
    BY <1>6, ViewWritten
  <2>2. pc'[p] \in {"viewed", "settled"} /\ (pc'[p] = "viewed" => Committed)
    BY <1>6, CommittedFacts
    DEF ViewWriter, ReplaceView, RestoreView, CompleteView, IndInv, TypeOK
  <2> QED
    BY <1>2, <2>1, <2>2 DEF Readable
<1>7. ASSUME NEW p \in Procs, Finisher(p) PROVE Readable'
  <2>1. /\ journal # Nil /\ journal' = Nil /\ UNCHANGED <<commits, view>>
        /\ \A q \in Procs : pc'[q] = "idle"
        /\ \/ Committed /\ World = AfterWorld(pre, journal)
           \/ ~Committed /\ World = pre
    BY <1>7, Finished
  <2>2. view = IF Committed THEN After(journal.manifest) ELSE journal.manifest.before
    <3>1. pc[p] = "viewed" \/ pc[p] = "settled"
      BY <1>7 DEF Finisher, FinishPublish, FinishRecovery
    <3>2. pc[p] = "viewed" => Committed
      BY CommittedFacts
    <3> QED
      BY <1>2, <3>1, <3>2 DEF Readable
  <2>3. commits = World.commits
    BY DEF World
  <2>4. Serves(commits, view)
    <3>1. CASE Committed
      BY <2>1, <2>2, <2>3, <3>1, PendingFacts, AfterServes
    <3>2. CASE ~Committed
      BY <1>2, <2>1, <2>2, <2>3, <3>2 DEF Readable
    <3> QED
      BY <3>1, <3>2
  <2> QED
    BY <2>1, <2>4 DEF Readable
<1> QED
  BY <1>1, <1>3, <1>4, <1>5, <1>6, <1>7, Moves

(* A reader is never refused because of a crash: without an edit the view and
   the history agree whenever no journal is on disk. *)
THEOREM ReadersAreServed == Spec => []ReadersServed
<1>1. Init => ReadInv
  BY DEF Init, ReadInv, Readable, Serves, ViewOK, Present, Views
<1>2. ReadInv => ReadersServed
  BY DEF ReadInv, Readable, Serves, ReadersServed
<1> QED
  BY <1>1, <1>2, ReadStep, Invariance, ViewIsBound, PTL DEF Spec

(* The record under a transaction only grows. *)
LEMMA BaseGrows ==
    ASSUME IndInv, ViewInv, [Next]_vars
    PROVE  \A o \in Present(Base.commits) :
               o \in Present(Base'.commits) /\ Base'.commits[o] = Base.commits[o]
<1>1. CASE Hidden
  BY <1>1 DEF Hidden, Base
<1>2. ASSUME NEW p \in Procs, WriteJournal(p) PROVE Base' = Base
  <2>1. pc[p] = "checked" /\ journal' = prep[p] /\ pre' = World
    BY <1>2 DEF WriteJournal
  <2>2. journal = Nil /\ journal' # Nil
    BY <2>1 DEF IndInv, PcInv
  <2> QED
    BY <2>1, <2>2 DEF Base
<1>3. ASSUME NEW p \in Procs, WriteManifest(p) PROVE Base' = Base
  <2>1. journal # Nil /\ UNCHANGED <<journal, pre>>
    BY <1>3 DEF WriteManifest, IndInv, PcInv
  <2> QED
    BY <2>1 DEF Base
<1>4. ASSUME NEW p \in Procs, ViewWriter(p) PROVE Base' = Base
  BY <1>4, ViewWritten DEF Base
<1>5. ASSUME NEW p \in Procs, Finisher(p)
      PROVE  \A o \in Present(Base.commits) :
                 o \in Present(Base'.commits) /\ Base'.commits[o] = Base.commits[o]
  <2>1. /\ journal # Nil /\ Base = pre /\ Base' = World
        /\ World = AfterWorld(pre, journal) \/ World = pre
    BY <1>5, Finished DEF Base
  <2>2. /\ journal \in Journals /\ pre \in Worlds /\ Fits(pre, journal)
    BY <2>1, PendingFacts
  <2>3. \A o \in Present(pre.commits) :
            o \in Ops /\ o # Op(journal) /\ \A m \in journal.imports : m.op # o
    BY <2>2 DEF Present, Fits
  <2>4. \A o \in Present(pre.commits) : AfterCommits(pre, journal)[o] = pre.commits[o]
    BY <2>2, <2>3, AfterLookup DEF Fits
  <2>5. AfterWorld(pre, journal).commits = AfterCommits(pre, journal)
    BY DEF AfterWorld
  <2> QED
    BY <2>1, <2>4, <2>5 DEF Present
<1>6. ASSUME NEW t \in Texts, Edit(t) PROVE Base' = Base
  BY <1>6 DEF Edit, Base, World
<1> QED
  BY <1>1, <1>2, <1>3, <1>4, <1>5, <1>6, Moves

(* A transaction is what some process prepared. *)
LEMMA PrepOrigin ==
    ASSUME IndInv, [Next]_vars, NEW q \in Procs, prep'[q] # Nil
    PROVE  \/ prep'[q] = prep[q]
           \/ \E d \in Drafts, c \in Canonicals : Prepare(q, d, c)
<1> USE DEF IndInv, TypeOK
<1>1. ASSUME NEW p \in Procs, Publish(p) PROVE prep' = prep
  BY <1>1 DEF Publish, WriteJournal, AppendFrame, WriteEvidence, WriteImport,
     WriteManifest, ReplaceView, FinishPublish
<1>2. ASSUME NEW p \in Procs, Recover(p) PROVE prep' = prep
  BY <1>2 DEF Recover, RemoveImport, CompleteImport, TruncateStream, CompleteAppend,
     RemoveEvidence, CompleteEvidence, RestoreView, CompleteView, FinishRecovery
<1>3. ASSUME NEW p \in Procs, PublishCheck(p) \/ RecoverCheck(p) \/ Interrupt(p)
      PROVE  prep' = prep
  BY <1>3 DEF PublishCheck, RecoverCheck, Interrupt
<1>4. ASSUME NEW p \in Procs, Discard(p) \/ PublishRetry(p)
      PROVE  prep'[q] = prep[q]
  BY <1>4 DEF Discard, PublishRetry
<1>5. ASSUME NEW p \in Procs, NEW d \in Drafts, NEW c \in Canonicals,
             p # q, Prepare(p, d, c)
      PROVE  prep'[q] = prep[q]
  BY <1>5 DEF Prepare
<1>6. (\E c \in Canonicals : Capture(c)) \/ LoseAddition \/ (\E t \in Texts : Edit(t))
         \/ UNCHANGED vars
         => prep' = prep
  BY DEF Capture, LoseAddition, Edit, vars
<1> QED
  BY <1>1, <1>2, <1>3, <1>4, <1>5, <1>6 DEF Next

(* prepare refuses an edited view unless the caller supplies the committed
   one, and then it keeps the edited bytes. *)
LEMMA PreparedRetains ==
    ASSUME IndInv, NEW p \in Procs, NEW d \in Drafts, NEW c \in Canonicals,
           Prepare(p, d, c)
    PROVE  Retained(Base.commits, prep'[p])
<1>1. /\ prep'[p] = Prepared(d, c) /\ Base.commits = commits
      /\ ViewOK(commits, IF c = Nil THEN view ELSE c)
  BY DEF Prepare, IndInv, TypeOK, Base, World, VerifyHistory
<1> DEFINE j == Prepared(d, c)
<1>2. j.manifest.before = view /\ Op(j) = d.op
      /\ (c # Nil => [edit |-> d.op, bytes |-> view] \in j.manifest.evidence)
  BY DEF Prepared, Op
<1> HIDE DEF j
<1>3. CASE c # Nil
  BY <1>1, <1>2, <1>3 DEF Retained, j
<1>4. CASE c = Nil
  <2>1. view = Nil \/ view.op = Nil
        \/ (Frontier(commits) = {view.op} /\ view = After(commits[view.op]))
    BY <1>1, <1>4 DEF ViewOK
  <2>2. Frontier(commits) \subseteq Present(commits)
    BY DEF Frontier
  <2> QED
    BY <1>1, <1>2, <2>1, <2>2 DEF Retained, j
<1> QED
  BY <1>3, <1>4

(* What is retained stays so while the record grows. *)
LEMMA RetainedStays ==
    ASSUME NEW c, NEW d, NEW j, Retained(c, j),
           \A o \in Present(c) : o \in Present(d) /\ d[o] = c[o]
    PROVE  Retained(d, j)
BY DEF Retained

(* A save under the lock is remembered until the lock goes. *)
LEMMA RacedUntilReleased ==
    ASSUME IndInv, [Next]_vars
    PROVE  \/ raced' = raced
           \/ \A q \in Procs : pc'[q] = "idle"
           \/ \E t \in Texts : Edit(t)
<1> USE DEF budget
<1>1. ASSUME NEW p \in Procs, Publish(p) PROVE raced' = raced \/ FinishPublish(p)
  BY <1>1 DEF Publish, WriteJournal, AppendFrame, WriteEvidence, WriteImport,
     WriteManifest, ReplaceView
<1>2. ASSUME NEW p \in Procs, Recover(p) PROVE raced' = raced \/ FinishRecovery(p)
  BY <1>2 DEF Recover, RemoveImport, CompleteImport, TruncateStream, CompleteAppend,
     RemoveEvidence, CompleteEvidence, RestoreView, CompleteView
<1>3. ASSUME NEW p \in Procs,
             \/ \E d \in Drafts, c \in Canonicals : Prepare(p, d, c)
             \/ Discard(p) \/ PublishCheck(p) \/ PublishRetry(p) \/ RecoverCheck(p)
      PROVE  raced' = raced
  BY <1>3 DEF Prepare, Discard, PublishCheck, PublishRetry, RecoverCheck
<1>4. (\E c \in Canonicals : Capture(c)) \/ LoseAddition \/ UNCHANGED vars
         => raced' = raced
  BY DEF Capture, LoseAddition, vars
<1>5. ASSUME NEW p \in Procs, FinishPublish(p) \/ FinishRecovery(p) \/ Interrupt(p)
      PROVE  \A q \in Procs : pc'[q] = "idle"
  <2>1. pc[p] # "idle" /\ pc' = [pc EXCEPT ![p] = "idle"]
    BY <1>5 DEF FinishPublish, FinishRecovery, Interrupt, Release
  <2> QED
    BY <2>1, OthersIdle DEF IndInv, TypeOK
<1> QED
  BY <1>1, <1>2, <1>3, <1>4, <1>5 DEF Next

(* Without a save under the lock, no step but the last one moves the view. *)
LEMMA SteadyStep ==
    ASSUME IndInv, ~raced => \A p \in Procs : Steady(p), [Next]_vars, ~raced'
    PROVE  \A p \in Procs : Steady(p)'
<1>0. ~raced \/ (\A q \in Procs : pc'[q] = "idle") \/ \E t \in Texts : Edit(t)
  BY RacedUntilReleased
<1>1. CASE ~raced /\ Hidden /\ Arrived
  <2> SUFFICES ASSUME NEW q \in Procs PROVE Steady(q)'
    OBVIOUS
  <2>1. UNCHANGED <<view, journal>>
    BY <1>1 DEF Hidden
  <2>2. CASE PublishCheck(q) /\ pc'[q] = "checked"
    BY <2>1, <2>2 DEF PublishCheck, Revalidate, Steady
  <2>3. CASE RecoverCheck(q) /\ pc'[q] \in {"rolling", "forward"}
    <3>1. pc'[q] = IF Committed THEN "forward" ELSE "rolling"
      BY <2>3 DEF RecoverCheck, IndInv, TypeOK
    <3>2. \/ view = journal.manifest.before
          \/ Committed /\ view = After(journal.manifest)
      BY <2>3 DEF RecoverCheck
    <3> QED
      BY <2>1, <3>1, <3>2 DEF Steady
  <2>4. CASE pc[q] = pc'[q] /\ prep'[q] = prep[q]
    BY <1>1, <2>1, <2>4 DEF Steady
  <2>5. CASE pc'[q] = "idle"
    BY <2>5 DEF Steady
  <2> QED
    BY <1>1, <2>2, <2>3, <2>4, <2>5 DEF Arrived
<1>2. ASSUME ~raced, NEW p \in Procs, WriteJournal(p)
      PROVE  \A q \in Procs : Steady(q)'
  <2>1. /\ pc[p] = "checked" /\ journal' = prep[p]
        /\ pc' = [pc EXCEPT ![p] = "writing"] /\ view' = view
    BY <1>2 DEF WriteJournal
  <2>2. \A q \in Procs : pc'[q] \in {"idle", "writing"}
    BY <2>1, OthersIdle DEF IndInv, TypeOK
  <2> QED
    BY <1>2, <2>1, <2>2 DEF Steady
<1>3. ASSUME ~raced, NEW p \in Procs, WriteManifest(p)
      PROVE  \A q \in Procs : Steady(q)'
  <2>1. /\ pc[p] = "writing" /\ UNCHANGED <<journal, view>>
        /\ pc' = [pc EXCEPT ![p] = "committed"]
    BY <1>3 DEF WriteManifest
  <2>2. \A q \in Procs : pc'[q] \in {"idle", "committed"}
    BY <2>1, OthersIdle DEF IndInv, TypeOK
  <2> QED
    BY <1>3, <2>1, <2>2 DEF Steady
<1>4. ASSUME NEW p \in Procs, ViewWriter(p) PROVE \A q \in Procs : Steady(q)'
  <2>1. \A q \in Procs : q # p => pc'[q] = "idle"
    BY <1>4, ViewWritten
  <2>2. pc'[p] \in {"viewed", "settled"}
    BY <1>4 DEF ViewWriter, ReplaceView, RestoreView, CompleteView, IndInv, TypeOK
  <2> QED
    BY <2>1, <2>2 DEF Steady
<1>5. ASSUME NEW p \in Procs, Finisher(p) PROVE \A q \in Procs : Steady(q)'
  <2>1. pc[p] # "idle" /\ pc' = [pc EXCEPT ![p] = "idle"]
    BY <1>5 DEF Finisher, FinishPublish, FinishRecovery, Release
  <2>2. \A q \in Procs : pc'[q] = "idle"
    BY <2>1, OthersIdle DEF IndInv, TypeOK
  <2> QED
    BY <2>2 DEF Steady
<1>6. ASSUME NEW t \in Texts, Edit(t) PROVE \A q \in Procs : Steady(q)'
  BY <1>6 DEF Edit, LockFree, Steady
<1>7. CASE \A q \in Procs : pc'[q] = "idle"
  BY <1>7 DEF Steady
<1> QED
  BY <1>0, <1>1, <1>2, <1>3, <1>4, <1>5, <1>6, <1>7, Moves

(* The facts about edits are kept by every step. *)
LEMMA EditInvStep == IndInv /\ ViewInv /\ EditInv /\ [Next]_vars => EditInv'
<1> SUFFICES ASSUME IndInv, ViewInv, EditInv, [Next]_vars PROVE EditInv'
  OBVIOUS
<1>1. ASSUME NEW q \in Procs, prep'[q] # Nil PROVE Retained(Base'.commits, prep'[q])
  <2>1. Retained(Base.commits, prep'[q])
    BY <1>1, PrepOrigin, PreparedRetains DEF EditInv
  <2> QED
    BY <2>1, BaseGrows, RetainedStays
<1>2. ASSUME journal' # Nil PROVE Retained(pre'.commits, journal')
  <2>1. CASE journal' = journal /\ pre' = pre
    BY <1>2, <2>1 DEF EditInv
  <2>2. ASSUME NEW p \in Procs, WriteJournal(p) PROVE Retained(pre'.commits, journal')
    <3>1. pc[p] = "checked" /\ journal' = prep[p] /\ pre' = World
      BY <2>2 DEF WriteJournal
    <3>2. journal = Nil /\ prep[p] # Nil
      BY <3>1 DEF IndInv, PcInv
    <3> QED
      BY <3>1, <3>2 DEF EditInv, Base
  <2>3. ASSUME NEW p \in Procs, WriteManifest(p) \/ ViewWriter(p) \/ Finisher(p)
        PROVE  journal' = journal /\ pre' = pre
    BY <1>2, <2>3 DEF WriteManifest, ViewWriter, ReplaceView, RestoreView, CompleteView,
       Finisher, FinishPublish, FinishRecovery
  <2>4. ASSUME NEW t \in Texts, Edit(t) PROVE journal' = journal /\ pre' = pre
    BY <2>4 DEF Edit
  <2>5. Hidden => journal' = journal /\ pre' = pre
    BY DEF Hidden
  <2> QED
    BY <2>1, <2>2, <2>3, <2>4, <2>5, Moves
<1>3. ~raced' => \A p \in Procs : Steady(p)'
  BY SteadyStep DEF EditInv
<1> QED
  BY <1>1, <1>2, <1>3 DEF EditInv

(* Recovery and publication replace a view that the user edited only when
   its bytes are evidence of the transaction that replaces it. *)
LEMMA EditKept ==
    ASSUME IndInv, ViewInv, EditInv, ~raced, [Next]_vars,
           Edited(view), view' # view
    PROVE  \/ edits' # edits
           \/ \E o \in Ops : [edit |-> o, bytes |-> view] \in evid
<1>1. ASSUME NEW p \in Procs, ViewWriter(p)
      PROVE  \E o \in Ops : [edit |-> o, bytes |-> view] \in evid
  <2>1. journal # Nil /\ Fits(pre, journal) /\ Between(pre, journal)
        /\ journal \in Journals /\ pre \in Worlds /\ Op(journal) \in Ops
    BY <1>1, ViewWritten, PendingFacts
  <2>2. /\ view = journal.manifest.before
        /\ journal.manifest.evidence \subseteq evid
    <3>1. CASE ReplaceView(p)
      <4>1. pc[p] = "committed" /\ World = AfterWorld(pre, journal)
        BY <3>1, CommittedFacts DEF ReplaceView
      <4>2. evid = pre.evid \cup journal.manifest.evidence
        BY <4>1 DEF World, AfterWorld
      <4> QED
        BY <4>1, <4>2 DEF EditInv, Steady
    <3>2. CASE RestoreView(p)
      BY <3>2 DEF RestoreView, EditInv, Steady
    <3>3. CASE CompleteView(p)
      BY <3>3 DEF CompleteView, EvidenceDone, EditInv, Steady
    <3> QED
      BY <1>1, <3>1, <3>2, <3>3 DEF ViewWriter
  <2>3. view.op \in Ops /\ view # Nil /\ view.op # Nil /\ view # After(commits[view.op])
    BY DEF Edited, Present
  <2>4. ASSUME view.op \in Present(pre.commits)
        PROVE  commits[view.op] = pre.commits[view.op]
    <3>1. view.op # Op(journal) /\ \A m \in journal.imports : m.op # view.op
      BY <2>1, <2>4 DEF Fits, Present
    <3>2. AfterCommits(pre, journal)[view.op] = pre.commits[view.op]
      BY <2>1, <2>3, <3>1, AfterLookup DEF Fits
    <3> QED
      BY <2>1, <2>3, <3>2 DEF Between
  <2>5. Retained(pre.commits, journal)
    BY <2>1 DEF EditInv
  <2>6. [edit |-> Op(journal), bytes |-> view] \in journal.manifest.evidence
    BY <2>2, <2>3, <2>4, <2>5 DEF Retained
  <2> QED
    BY <2>1, <2>2, <2>6
<1>2. ASSUME NEW p \in Procs, WriteJournal(p) \/ WriteManifest(p) \/ Finisher(p)
      PROVE  view' = view
  BY <1>2 DEF WriteJournal, WriteManifest, Finisher, FinishPublish, FinishRecovery
<1>3. ASSUME NEW t \in Texts, Edit(t) PROVE edits' # edits
  BY <1>3 DEF Edit, IndInv, TypeOK
<1>4. Hidden => view' = view
  BY DEF Hidden
<1> QED
  BY <1>1, <1>2, <1>3, <1>4, Moves

(* A saved edit is never lost to publish or recover, whatever is interrupted
   and whenever the user saves, but for a save after the process that replaces
   the view took the lock and compared it. *)
THEOREM EditsArePreserved == Spec => EditPreserved
<1>1. Init => EditInv
  BY DEF Init, EditInv, Steady
<1>2. IndInv /\ ViewInv /\ EditInv /\ [Next]_vars =>
      [Edited(view) /\ view' # view =>
          \/ edits' # edits
          \/ raced
          \/ \E o \in Ops : [edit |-> o, bytes |-> view] \in evid]_vars
  BY EditKept
<1> QED
  BY <1>1, <1>2, EditInvStep, Invariance, ViewIsBound, PTL DEF Spec, EditPreserved
=============================================================================
