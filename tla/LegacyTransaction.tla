-------------------------- MODULE LegacyTransaction --------------------------
(***************************************************************************)
(* The ordinary writer over several directories: publish_legacy and        *)
(* recover_legacy of native/src/history_transaction_fs.rs as               *)
(* legacy_authoring.rs and ordinary_document.rs use them.                  *)
(*                                                                         *)
(* A record is an entry and members that may lie in other directories and  *)
(* be members of other records too.  A publication writes a journal beside *)
(* the entry, a guard into every other directory, a marker that all guards *)
(* are there, then the files one by one, and removes guards, marker and    *)
(* journal.  Readers take shared locks and refuse what is guarded; writers *)
(* and recoveries take exclusive ones, in path order, and hold the lock of *)
(* their project.  Processes die anywhere and people edit files.           *)
(***************************************************************************)
EXTENDS Naturals, Sequences, FiniteSets

CONSTANTS
    Procs,      \* processes
    Files,      \* files of records
    Dirs,       \* directories, numbered in path order
    dir,        \* dir[f]: the directory of a file
    Records,    \* records
    entry,      \* entry[r]: the file that a record is opened by
    members,    \* members[r]: its files, the entry among them
    project,    \* project[r]: the project whose lock its writers hold
    Ops,        \* operations
    about,      \* about[o]: the record that o changes
    images,     \* images[o]: the files that o changes, in order
    Hands,      \* edits by people
    MaxCrashes, \* bound on deaths and failed calls
    Nil         \* nobody, nothing

Touched(o) == {images[o][i] : i \in DOMAIN images[o]}

ASSUME ConstantsAssumption ==
    /\ Dirs \subseteq Nat /\ IsFiniteSet(Dirs)
    /\ dir \in [Files -> Dirs]
    /\ members \in [Records -> SUBSET Files]
    /\ entry \in [Records -> Files]
    /\ \A r \in Records : entry[r] \in members[r]
    /\ about \in [Ops -> Records]
    /\ images \in [Ops -> Seq(Files)]
    /\ \A o \in Ops : Touched(o) # {} /\ Touched(o) \subseteq members[about[o]]
    /\ \A o \in Ops : \A i, j \in DOMAIN images[o] : images[o][i] = images[o][j] => i = j
    /\ Nil \notin Ops \cup Hands \cup Records
    /\ \A r \in Records : Nil \notin [members[r] -> Ops \cup Hands \cup {Nil}]
    /\ Ops \cap Hands = {}
    /\ MaxCrashes \in Nat

VARIABLES
    content,    \* who wrote what a file says
    saw,        \* saw[o]: the record as o's preparation read it, its before images
    journal,    \* the journal beside a record's entry
    guard,      \* guard[d]: operations with a member guard in d
    ready,      \* operations with a readiness marker
    held,       \* held[p][d]: the lock that p has on d
    run,        \* where each process is
    landed,     \* history variable: operations whose files were all changed
    crashes     \* deaths and failed calls so far

disk == <<content, journal, guard, ready>>
vars == <<disk, saw, held, run, landed, crashes>>

Contents == Ops \cup Hands \cup {Nil}

(* What a process is after. *)
Ways == {"look", "write", "after", "before"}
Locking == {"read", "check", "recheck"}
Changing == {"guards", "ready", "apply", "unguard", "unready", "close"}

Idle == [at |-> "idle", way |-> "look", record |-> Nil, op |-> Nil,
         dirs |-> {}, files |-> <<>>]

TypeOK ==
    /\ content \in [Files -> Contents]
    /\ DOMAIN saw = Ops
    /\ \A o \in Ops : saw[o] = Nil \/ saw[o] \in [members[about[o]] -> Contents]
    /\ journal \in [Records -> Ops \cup {Nil}]
    /\ guard \in [Dirs -> SUBSET Ops]
    /\ ready \subseteq Ops
    /\ held \in [Procs -> [Dirs -> {"none", "shared", "exclusive"}]]
    /\ run \in [Procs -> [at : {"idle", "prepared"} \cup Locking \cup Changing,
                          way : Ways, record : Records \cup {Nil},
                          op : Ops \cup {Nil}, dirs : SUBSET Dirs,
                          files : Seq(Files)]]
    /\ \A p \in Procs : run[p].way # "look" <=> run[p].op # Nil
    /\ landed \subseteq Ops
    /\ crashes \in 0 .. MaxCrashes

NoLocks == [d \in Dirs |-> "none"]

Init ==
    /\ content = [f \in Files |-> Nil]
    /\ saw = [o \in Ops |-> Nil]
    /\ journal = [r \in Records |-> Nil]
    /\ guard = [d \in Dirs |-> {}]
    /\ ready = {}
    /\ held = [p \in Procs |-> NoLocks]
    /\ run = [p \in Procs |-> Idle]
    /\ landed = {}
    /\ crashes = 0

-----------------------------------------------------------------------------
(* Directory locks. *)

Home(r) == dir[entry[r]]

(* participant_directories *)
Directories(r) == {dir[f] : f \in members[r]}

(* The directories that get a guard: none if there is one directory only. *)
Replicas(r) == Directories(r) \ {Home(r)}

First(S) == CHOOSE d \in S : \A e \in S : d <= e

Mode(p) == IF run[p].at = "read" THEN "shared" ELSE "exclusive"

Compatible(p, d) ==
    \A q \in Procs \ {p} :
        \/ held[q][d] = "none"
        \/ held[q][d] = "shared" /\ Mode(p) = "shared"

(* Variant: the directories are locked in any order. *)
LockAnyDirectory(p) ==
    /\ run[p].at \in Locking
    /\ run[p].dirs # {}
    /\ \E d \in run[p].dirs :
           /\ Compatible(p, d)
           /\ held' = [held EXCEPT ![p][d] = Mode(p)]
           /\ run' = [run EXCEPT ![p].dirs = @ \ {d}]
    /\ UNCHANGED <<disk, saw, landed, crashes>>

(* guards: one directory after the other, in path order. *)
LockDirectory(p) ==
    /\ run[p].at \in Locking
    /\ run[p].dirs # {}
    /\ LET d == First(run[p].dirs) IN
           /\ Compatible(p, d)
           /\ held' = [held EXCEPT ![p][d] = Mode(p)]
           /\ run' = [run EXCEPT ![p].dirs = @ \ {d}]
    /\ UNCHANGED <<disk, saw, landed, crashes>>

Inside(p, step) == run[p].at = step /\ run[p].dirs = {}

Leave(p) ==
    /\ run' = [run EXCEPT ![p] = Idle]
    /\ held' = [held EXCEPT ![p] = NoLocks]

(* WriteRoute: writers and recoveries hold their project's lock. *)
ProjectFree(r) ==
    \A p \in Procs :
        run[p].at # "idle" /\ run[p].way # "look" => project[run[p].record] # project[r]

-----------------------------------------------------------------------------
(* Reading: ordinary_document::load under check_member_journals. *)

StartRead(p, r, way, o) ==
    /\ run[p].at = "idle"
    /\ run' = [run EXCEPT ![p] = [Idle EXCEPT !.at = "read", !.way = way, !.record = r,
                                              !.op = o, !.dirs = Directories(r)]]
    /\ UNCHANGED <<disk, saw, held, landed, crashes>>

Look(p, r) == StartRead(p, r, "look", Nil)

(* A writer reads its record first. *)
Write(p, o) ==
    /\ saw[o] = Nil
    /\ ProjectFree(about[o])
    /\ \A q \in Procs : run[q].op # o
    /\ StartRead(p, about[o], "write", o)

(* A guard of the directory names f, or a journal in it is about f. *)
Fenced(f) ==
    \E o \in Ops :
        /\ f \in members[about[o]]
        /\ \/ o \in guard[dir[f]]
           \/ journal[about[o]] = o /\ Home(about[o]) = dir[f]

(* Variant: only the journal of the record itself is looked for. *)
ReadableAlone(r) == journal[r] = Nil

Readable(r) == \A f \in members[r] : ~Fenced(f)

ReadRefused(p) ==
    /\ Inside(p, "read")
    /\ ~Readable(run[p].record)
    /\ Leave(p)
    /\ UNCHANGED <<disk, saw, landed, crashes>>

ReadDone(p) ==
    /\ Inside(p, "read")
    /\ Readable(run[p].record)
    /\ run[p].way = "look"
    /\ Leave(p)
    /\ UNCHANGED <<disk, saw, landed, crashes>>

Prepare(p) ==
    /\ Inside(p, "read")
    /\ Readable(run[p].record)
    /\ run[p].way = "write"
    /\ saw' = [saw EXCEPT ![run[p].op] = [f \in members[run[p].record] |-> content[f]]]
    /\ run' = [run EXCEPT ![p].at = "prepared"]
    /\ held' = [held EXCEPT ![p] = NoLocks]
    /\ UNCHANGED <<disk, landed, crashes>>

-----------------------------------------------------------------------------
(* publish_legacy *)

Publish(p) ==
    /\ run[p].at = "prepared"
    /\ run' = [run EXCEPT ![p].at = "check", ![p].dirs = Directories(run[p].record)]
    /\ UNCHANGED <<disk, saw, held, landed, crashes>>

(* preflight and the verifier: the files are as they were read. *)
AsSeen(o) == \A f \in members[about[o]] : content[f] = saw[o][f]

PublishRefused(p) ==
    /\ Inside(p, "check")
    /\ journal[run[p].record] # Nil \/ ~AsSeen(run[p].op)
    /\ Leave(p)
    /\ UNCHANGED <<disk, saw, landed, crashes>>

Guarding(p) == [run EXCEPT ![p].at = "guards", ![p].dirs = Replicas(run[p].record)]

WriteJournal(p) ==
    /\ Inside(p, "check")
    /\ journal[run[p].record] = Nil
    /\ AsSeen(run[p].op)
    /\ journal' = [journal EXCEPT ![run[p].record] = run[p].op]
    /\ run' = Guarding(p)
    /\ UNCHANGED <<content, guard, ready, saw, held, landed, crashes>>

WriteGuard(p) ==
    /\ run[p].at = "guards"
    /\ run[p].dirs # {}
    /\ LET d == First(run[p].dirs) IN
           /\ guard' = [guard EXCEPT ![d] = @ \cup {run[p].op}]
           /\ run' = [run EXCEPT ![p].dirs = @ \ {d}]
    /\ UNCHANGED <<content, journal, ready, saw, held, landed, crashes>>

Applying(p) == [run EXCEPT ![p].at = "apply", ![p].files = images[run[p].op]]

(* Variant: the marker is written before the guards. *)
WriteReadyEarly(p) ==
    /\ run[p].at = "guards"
    /\ ready' = IF Replicas(run[p].record) = {} THEN ready ELSE ready \cup {run[p].op}
    /\ run' = [Applying(p) EXCEPT ![p].dirs = {}]
    /\ UNCHANGED <<content, journal, guard, saw, held, landed, crashes>>

(* The marker is there to say that all guards are. *)
WriteReady(p) ==
    /\ run[p].at = "guards"
    /\ run[p].dirs = {}
    /\ ready' = IF Replicas(run[p].record) = {} THEN ready ELSE ready \cup {run[p].op}
    /\ run' = Applying(p)
    /\ UNCHANGED <<content, journal, guard, saw, held, landed, crashes>>

Image(p, f) == IF run[p].way = "before" THEN saw[run[p].op][f] ELSE run[p].op

(* One file.  The operation has landed while all its files show it. *)
Apply(p) ==
    /\ run[p].at = "apply"
    /\ run[p].files # <<>>
    /\ content' = [content EXCEPT ![Head(run[p].files)] = Image(p, Head(run[p].files))]
    /\ run' = [run EXCEPT ![p].files = Tail(@)]
    /\ landed' = IF \A f \in Touched(run[p].op) : content'[f] = run[p].op
                   THEN landed \cup {run[p].op}
                   ELSE landed \ {run[p].op}
    /\ UNCHANGED <<journal, guard, ready, saw, held, crashes>>

Applied(p) ==
    /\ run[p].at = "apply"
    /\ run[p].files = <<>>
    /\ run' = [run EXCEPT ![p].at = "unguard", ![p].dirs = Replicas(run[p].record)]
    /\ UNCHANGED <<disk, saw, held, landed, crashes>>

(* remove_journals: the guards, the marker, the journal. *)
RemoveGuard(p) ==
    /\ run[p].at = "unguard"
    /\ run[p].dirs # {}
    /\ LET d == First(run[p].dirs) IN
           /\ guard' = [guard EXCEPT ![d] = @ \ {run[p].op}]
           /\ run' = [run EXCEPT ![p].dirs = @ \ {d}]
    /\ UNCHANGED <<content, journal, ready, saw, held, landed, crashes>>

RemoveReady(p) ==
    /\ Inside(p, "unguard")
    /\ ready' = ready \ {run[p].op}
    /\ run' = [run EXCEPT ![p].at = "close"]
    /\ UNCHANGED <<content, journal, guard, saw, held, landed, crashes>>

RemoveJournal(p) ==
    /\ run[p].at = "close"
    /\ journal' = [journal EXCEPT ![run[p].record] = Nil]
    /\ Leave(p)
    /\ UNCHANGED <<content, guard, ready, saw, landed, crashes>>

-----------------------------------------------------------------------------
(* recover_legacy *)

(* Variant: no look at the journal before the locks are taken. *)
RecoverNothing(p, r, way) ==
    /\ run[p].at = "idle"
    /\ ProjectFree(r)
    /\ run' = [run EXCEPT ![p] = [Idle EXCEPT !.at = "recheck", !.way = way, !.record = r,
                                              !.op = journal[r], !.dirs = Directories(r)]]
    /\ UNCHANGED <<disk, saw, held, landed, crashes>>

(* The journal is read before the locks are taken, and again after. *)
Recover(p, r, way) ==
    /\ run[p].at = "idle"
    /\ ProjectFree(r)
    /\ journal[r] # Nil
    /\ run' = [run EXCEPT ![p] = [Idle EXCEPT !.at = "recheck", !.way = way, !.record = r,
                                              !.op = journal[r], !.dirs = Directories(r)]]
    /\ UNCHANGED <<disk, saw, held, landed, crashes>>

(* verify_recovery: a file that o changes is as before or as after, any other
   member is as it was read. *)
Untangled(o) ==
    \A f \in members[about[o]] :
        content[f] = saw[o][f] \/ (f \in Touched(o) /\ content[f] = o)

(* Guards may be missing, so no file was changed. *)
Unready(p) ==
    run[p].way = "before" /\ Replicas(run[p].record) # {} /\ run[p].op \notin ready

RecoverRefused(p) ==
    /\ Inside(p, "recheck")
    /\ \/ journal[run[p].record] # run[p].op
       \/ ~Untangled(run[p].op)
       \/ Unready(p) /\ ~AsSeen(run[p].op)
    /\ Leave(p)
    /\ UNCHANGED <<disk, saw, landed, crashes>>

(* A publication that was only prepared is cancelled. *)
Cancel(p) ==
    /\ Inside(p, "recheck")
    /\ journal[run[p].record] = run[p].op
    /\ AsSeen(run[p].op)
    /\ Unready(p)
    /\ run' = [run EXCEPT ![p].at = "unguard", ![p].dirs = Replicas(run[p].record)]
    /\ UNCHANGED <<disk, saw, held, landed, crashes>>

RecoverCheck(p) ==
    /\ Inside(p, "recheck")
    /\ journal[run[p].record] = run[p].op
    /\ Untangled(run[p].op)
    /\ ~Unready(p)
    /\ run' = Guarding(p)
    /\ UNCHANGED <<disk, saw, held, landed, crashes>>

-----------------------------------------------------------------------------
(* The environment. *)

Die(p) ==
    /\ run[p].at # "idle"
    /\ crashes < MaxCrashes
    /\ crashes' = crashes + 1
    /\ Leave(p)
    /\ UNCHANGED <<disk, saw, landed>>

(* Nobody edits what is being published or recovered at the moment, or brings
   back by hand just what a pending operation replaces. *)
Edit(f, h) ==
    /\ \A o \in Ops : f \in Touched(o) /\ journal[about[o]] = o => saw[o][f] # h
    /\ \A p \in Procs : run[p].at \in Changing => f \notin members[run[p].record]
    /\ content' = [content EXCEPT ![f] = h]
    /\ UNCHANGED <<journal, guard, ready, saw, held, run, landed, crashes>>

-----------------------------------------------------------------------------
Step(p) ==
    \/ ReadRefused(p)
    \/ ReadDone(p)
    \/ Prepare(p)
    \/ Publish(p)
    \/ PublishRefused(p)
    \/ WriteJournal(p)
    \/ WriteGuard(p)
    \/ WriteReady(p)
    \/ Apply(p)
    \/ Applied(p)
    \/ RemoveGuard(p)
    \/ RemoveReady(p)
    \/ RemoveJournal(p)
    \/ RecoverRefused(p)
    \/ Cancel(p)
    \/ RecoverCheck(p)

Start(p) ==
    \/ \E r \in Records : Look(p, r)
    \/ \E o \in Ops : Write(p, o)
    \/ \E r \in Records, way \in {"after", "before"} : Recover(p, r, way)

Next ==
    \/ \E p \in Procs : Start(p) \/ LockDirectory(p) \/ Step(p) \/ Die(p)
    \/ \E f \in Files, h \in Hands : Edit(f, h)

Spec == Init /\ [][Next]_vars

(* A process that is not killed goes on, and a lock that is free again and
   again is obtained in the end.  Nobody has to start or to recover anything. *)
FairSpec ==
    /\ Spec
    /\ \A p \in Procs : WF_vars(Step(p)) /\ SF_vars(LockDirectory(p))

-----------------------------------------------------------------------------
Pending(o) == journal[about[o]] = o

(* What a file says to those who keep to the rules: an operation that was
   begun and not completed has not happened. *)
logical ==
    [f \in Files |->
        IF content[f] \in Ops /\ Pending(content[f]) /\ content[f] \notin landed
          THEN saw[content[f]][f]
          ELSE content[f]]

Abstract == INSTANCE AtomicRecords WITH
    shown <- logical,
    seen <- saw,
    reads <- [o \in Ops |-> members[about[o]]],
    touches <- [o \in Ops |-> Touched(o)]

(* Whatever dies in between, an operation reads its record at one moment and
   changes its files at one moment, if they are then as it read them: no
   writer prepares itself from the half of another's files, and a recovery
   takes back or completes the whole (history_transaction_fs.rs).  With two
   deaths this needs that no two operations are pending whose records share a
   file; PendingComesFirst, which does not hold either, would not be enough. *)
ImplementsAtomicRecords == Abstract!Spec

(* Guards before files: while some and not all files of a pending operation
   are changed, its marker and every guard are there, so that whoever opens
   one of its members by another record is refused. *)
PartialIsFenced ==
    \A o \in Ops :
        Pending(o) /\ o \notin landed /\ (\E f \in Touched(o) : content[f] = o) =>
            /\ \A d \in Replicas(about[o]) : o \in guard[d]
            /\ Replicas(about[o]) # {} => o \in ready

(* Readers, writers and recoveries of records that share directories do not
   wait for each other in a circle: each call ends. *)
OperationEnds == \A p \in Procs : run[p].at # "idle" ~> run[p].at = "idle"

(* A pending operation has to be recovered before another one changes a file
   of its record: history-contract.md says it of every pending journal. *)
PendingComesFirst ==
    [][\A o \in Ops :
          journal[about[o]] # o /\ journal'[about[o]] = o =>
              \A u \in Ops \ {o} :
                  Pending(u) => members[about[u]] \cap Touched(o) = {}]_vars
=============================================================================
