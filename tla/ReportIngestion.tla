--------------------------- MODULE ReportIngestion ---------------------------
(***************************************************************************)
(* Queued source reports: native/src/ingestion_orchestration.rs and the    *)
(* writer it calls, run_bound of native/src/public_update.rs.              *)
(*                                                                         *)
(* `kpop ingest capture` retains a report and launches a worker unless the *)
(* lease names a live one.  A worker makes passes over the queue; each     *)
(* report is bound to the target that its capture read, its mutation is    *)
(* retained in a journal of its own and published through the record's     *)
(* writer journal, and a receipt tells the outcome.  Workers and captures  *)
(* die, calls fail, other commands write the record and `kpop recover`     *)
(* completes or takes back what they left behind.                          *)
(*                                                                         *)
(* An ordinary record (legacy_authoring.rs) and one with an active history *)
(* (direct_history.rs) take the same steps and differ where a publication  *)
(* was interrupted.  What a critical section does under the record's       *)
(* directory lock is one step, or one that is cut short after any of the   *)
(* files it writes; the files of one mutation are written together.        *)
(***************************************************************************)
EXTENDS Naturals, Sequences, FiniteSets

CONSTANTS
    Reports,     \* event ids
    Edits,       \* writes of other commands, each made once at most
    Targets,     \* entries of the record
    target,      \* the entry that a report is about
    Procs,       \* processes that `ingest _worker` may run as
    Tokens,      \* lease tokens
    MaxPasses,   \* passes of a worker (MAX_WORKER_PASSES, 4)
    MaxEvents,   \* reports in a pass (MAX_EVENTS, 32)
    MaxCrashes,  \* bound on deaths and failed calls
    Nil          \* nobody, nothing

ASSUME ConstantsAssumption ==
    /\ target \in [Reports -> Targets]
    /\ Reports \cap Edits = {}
    /\ Nil \notin Reports \cup Edits \cup Procs \cup Tokens
    /\ "issue" \notin Reports
    \* A new token is none of those in use: a nonce in the code.
    /\ \A use \in [Procs \cup {Nil} -> Tokens \cup {Nil}] :
           \E k \in Tokens : \A x \in Procs \cup {Nil} : use[x] # k
    /\ MaxPasses \in Nat \ {0}
    /\ MaxEvents \in Nat \ {0}
    /\ MaxCrashes \in Nat

VARIABLES
    store,     \* "ordinary" or "history": what the record is
    record,    \* who wrote what an entry says; Nil is what it said before
    writer,    \* the record's writer journal
    edited,    \* the edits made
    order,     \* captured reports, in capture order
    seen,      \* what calls of capture have read of a report's target
    event,     \* events/<id>.json: the state
    snap,      \* target_snapshot; "issue" is a capture_issue
    journal,   \* journals/<id>.json
    receipt,   \* receipts/<id>.json: the state
    lease,     \* worker.lease
    run,       \* where each process is; the Processing ones hold processor.lock
    crashes,   \* deaths and failed calls so far
    landed     \* history variable: reports whose mutation the record took

files == <<event, snap, journal, receipt>>
vars == <<store, record, writer, edited, order, seen, files, lease, run, crashes, landed>>

Writers == Reports \cup Edits \cup {Nil}
Images == [Targets -> Writers]
Untouched == [t \in Targets |-> Nil]
NoWriter == [by |-> Nil, before |-> Untouched, after |-> Untouched]
NoJournal == [phase |-> "none", before |-> Untouched, after |-> Untouched]
NoLease == [token |-> Nil, pid |-> Nil, stale |-> FALSE]
Idle == [at |-> "none", token |-> Nil, passes |-> 0, todo |-> {}, report |-> Nil,
         expected |-> Nil, wrote |-> FALSE]

AutoStates == {"captured", "processing"}
Terminal == {"applied", "needs_primary"}
Processing == {"next", "bind", "refuse", "write", "recover", "redo", "resume", "settle",
               "failed", "close"}

TypeOK ==
    /\ store \in {"ordinary", "history"}
    /\ record \in Images
    /\ writer \in [by : Writers, before : Images, after : Images]
    /\ edited \subseteq Edits
    /\ order \in Seq(Reports)
    /\ seen \in [Reports -> SUBSET (Writers \cup {"issue"})]
    /\ event \in [Reports -> {"none", "recovery_required"} \cup AutoStates \cup Terminal]
    /\ snap \in [Reports -> Writers \cup {"issue"}]
    /\ journal \in [Reports -> [phase : {"none", "prepared", "committed"},
                                   before : Images, after : Images]]
    /\ receipt \in [Reports -> {"none"} \cup Terminal]
    /\ lease \in [token : Tokens \cup {Nil}, pid : Procs \cup {Nil}, stale : BOOLEAN]
    /\ run \in [Procs -> [at : {"none", "check", "acquire", "end", "handover"} \cup Processing,
                          token : Tokens \cup {Nil}, passes : 0 .. MaxPasses - 1,
                          todo : SUBSET Reports, report : Reports \cup {Nil},
                          expected : Writers, wrote : BOOLEAN]]
    /\ crashes \in 0 .. MaxCrashes
    /\ landed \subseteq Reports

Init ==
    /\ store \in {"ordinary", "history"}
    /\ record = Untouched /\ writer = NoWriter /\ edited = {}
    /\ order = <<>>
    /\ seen = [e \in Reports |-> {}]
    /\ event = [e \in Reports |-> "none"]
    /\ snap = [e \in Reports |-> Nil]
    /\ journal = [e \in Reports |-> NoJournal]
    /\ receipt = [e \in Reports |-> "none"]
    /\ lease = NoLease
    /\ run = [p \in Procs |-> Idle]
    /\ crashes = 0
    /\ landed = {}

Pending == writer # NoWriter

(* An ordinary record is not read while its writer journal is there. *)
Readable == store = "history" \/ ~Pending

Miss == crashes < MaxCrashes /\ crashes' = crashes + 1

-----------------------------------------------------------------------------
(* capture and the worker's lease. *)

(* Variant: a process that died still holds its lease. *)
LeaseActiveByPid ==
    lease # NoLease /\ (lease.pid = Nil => ~lease.stale)

(* lease_active: a process that runs, or one that is being spawned and has
   5 s for it. *)
LeaseActive ==
    /\ lease # NoLease
    /\ IF lease.pid = Nil THEN ~lease.stale ELSE run[lease.pid].at # "none"

FreeTokens == Tokens \ ({lease.token} \cup {run[p].token : p \in Procs})

Worker(k) == [Idle EXCEPT !.at = "check", !.token = k]

(* start_worker_with *)
Launch(from) ==
    LET k == CHOOSE k \in FreeTokens : TRUE
        p == CHOOSE p \in Procs : from[p].at = "none"
    IN  /\ \E q \in Procs : from[q].at = "none"
        /\ lease' = [token |-> k, pid |-> p, stale |-> FALSE]
        /\ run' = [from EXCEPT ![p] = Worker(k)]

(* A call of capture reads the target before it waits for capture.lock.  Of a
   report that is retained already nobody uses what is read. *)
ReadTarget(e) ==
    /\ event[e] = "none"
    /\ seen' = [seen EXCEPT ![e] = @ \cup {IF Readable THEN record[target[e]] ELSE "issue"}]
    /\ UNCHANGED <<store, record, writer, edited, order, files, lease, run, crashes, landed>>

(* Under capture.lock: the first of the calls about e retains it with what it
   has read. *)
Retain(e) ==
    IF event[e] # "none" THEN UNCHANGED <<order, seen, event, snap>>
    ELSE \E read \in seen[e] :
             /\ order' = Append(order, e)
             /\ event' = [event EXCEPT ![e] = "captured"]
             /\ snap' = [snap EXCEPT ![e] = read]
             /\ seen' = [seen EXCEPT ![e] = {}]

(* A new report, or the exact retry of one. *)
Capture(e) ==
    /\ Retain(e)
    /\ IF event'[e] \in AutoStates /\ ~LeaseActive THEN Launch(run)
       ELSE UNCHANGED <<lease, run>>
    /\ UNCHANGED <<store, record, writer, edited, journal, receipt, crashes, landed>>

(* The caller dies before the lease, or between the lease and the spawn, or
   before the spawned process is named in it; or it cannot spawn, and removes
   the lease. *)
CaptureCutShort(e) ==
    /\ Miss
    /\ Retain(e)
    /\ event'[e] \in AutoStates /\ ~LeaseActive
    /\ \/ UNCHANGED <<lease, run>>
       \/ lease' = NoLease /\ run' = run
       \/ LET k == CHOOSE k \in FreeTokens : TRUE
          IN  /\ lease' = [token |-> k, pid |-> Nil, stale |-> FALSE]
              /\ \/ run' = run
                 \/ \E p \in Procs : /\ run[p].at = "none"
                                     /\ run' = [run EXCEPT ![p] = Worker(k)]
    /\ UNCHANGED <<store, record, writer, edited, journal, receipt, landed>>

(* 5 s pass. *)
LeaseAges ==
    /\ lease # NoLease /\ lease.pid = Nil /\ ~lease.stale
    /\ lease' = [lease EXCEPT !.stale = TRUE]
    /\ UNCHANGED <<store, record, writer, edited, order, seen, files, run, crashes, landed>>

-----------------------------------------------------------------------------
(* worker and process *)

Goto(p, step) == run' = [run EXCEPT ![p].at = step]
Leave(p) == run' = [run EXCEPT ![p] = Idle]

OnlyRun == UNCHANGED <<store, record, writer, edited, order, seen, files, lease, crashes, landed>>

Holds(p) == lease # NoLease /\ lease.token = run[p].token

CheckLease(p) ==
    /\ run[p].at = "check"
    /\ IF Holds(p) THEN Goto(p, "acquire") ELSE Leave(p)
    /\ OnlyRun

Earlier(e, f) ==
    \E i, j \in 1 .. Len(order) : i < j /\ order[i] = e /\ order[j] = f

(* list_events: captured, and without an outcome. *)
Open == {e \in Reports : event[e] \notin Terminal \cup {"none"}}

(* The oldest of them, as many as a pass takes. *)
Queue == {e \in Open : Cardinality({f \in Open : Earlier(f, e)}) < MaxEvents}

ProcessorFree == \A p \in Procs : run[p].at \notin Processing

ListEvents(p) ==
    /\ run[p].at = "acquire"
    /\ ProcessorFree
    /\ run' = [run EXCEPT ![p].at = "next", ![p].todo = Queue]
    /\ OnlyRun

NextEvent(p) ==
    /\ run[p].at = "next"
    /\ \E e \in run[p].todo :
           /\ \A f \in run[p].todo : ~Earlier(f, e)
           /\ run' = [run EXCEPT ![p].at = "bind", ![p].report = e,
                                 ![p].todo = @ \ {e}, ![p].wrote = FALSE]
           /\ event' = [event EXCEPT ![e] = "processing"]
    /\ UNCHANGED <<store, record, writer, edited, order, seen, snap, journal, receipt,
                   lease, crashes, landed>>

NoMoreEvents(p) ==
    /\ run[p].at = "next"
    /\ run[p].todo = {}
    /\ run' = [run EXCEPT ![p].at = "end", ![p].report = Nil, ![p].expected = Nil,
                          ![p].wrote = FALSE]
    /\ OnlyRun

Work == \E e \in Reports : event[e] \in AutoStates

(* Variant: the worker ends when its pass is over. *)
EndPassAnyway(p) ==
    /\ run[p].at = "end"
    /\ Leave(p)
    /\ lease' = IF Holds(p) THEN NoLease ELSE lease
    /\ UNCHANGED <<store, record, writer, edited, order, seen, files, crashes, landed>>

(* Variant: the passes are counted one too far. *)
EndPassLate(p) ==
    /\ run[p].at = "end"
    /\ IF Holds(p) /\ Work
         THEN /\ lease' = lease
              /\ IF run[p].passes < MaxPasses
                   THEN run' = [run EXCEPT ![p].at = "check", ![p].passes = @ + 1]
                   ELSE Goto(p, "handover")
         ELSE /\ Leave(p)
              /\ lease' = IF Holds(p) THEN NoLease ELSE lease
    /\ UNCHANGED <<store, record, writer, edited, order, seen, files, crashes, landed>>

(* Under capture.lock: a report captured meanwhile is work for another pass. *)
EndPass(p) ==
    /\ run[p].at = "end"
    /\ IF Holds(p) /\ Work
         THEN /\ lease' = lease
              /\ IF run[p].passes + 1 < MaxPasses
                   THEN run' = [run EXCEPT ![p].at = "check", ![p].passes = @ + 1]
                   ELSE Goto(p, "handover")
         ELSE /\ Leave(p)
              /\ lease' = IF Holds(p) THEN NoLease ELSE lease
    /\ UNCHANGED <<store, record, writer, edited, order, seen, files, crashes, landed>>

(* Out of passes: another worker takes the rest. *)
HandOver(p) ==
    /\ run[p].at = "handover"
    /\ IF Holds(p) /\ Work
         THEN Launch([run EXCEPT ![p] = Idle])
         ELSE /\ Leave(p)
              /\ lease' = IF Holds(p) THEN NoLease ELSE lease
    /\ UNCHANGED <<store, record, writer, edited, order, seen, files, crashes, landed>>

-----------------------------------------------------------------------------
(* One report: bound_target, then run_bound. *)

Mine(p) == run[p].report

(* The entry says what an earlier report of the queue is known to have put
   there. *)
Owned(e) ==
    LET current == record[target[e]] IN
    /\ current \in Reports
    /\ receipt[current] = "applied"
    /\ target[current] = target[e]
    /\ Earlier(current, e)

(* Variant: the report is bound to what the entry says now. *)
BindTargetNow(p) ==
    /\ run[p].at = "bind"
    /\ IF snap[Mine(p)] = "issue" \/ ~Readable
         THEN Goto(p, "refuse")
         ELSE run' = [run EXCEPT ![p].at = "write",
                                 ![p].expected = record[target[Mine(p)]]]
    /\ OnlyRun

BindTarget(p) ==
    /\ run[p].at = "bind"
    /\ IF snap[Mine(p)] = "issue" \/ ~Readable
         THEN Goto(p, "refuse")
         ELSE run' = [run EXCEPT ![p].at = "write",
                                 ![p].expected = IF Owned(Mine(p))
                                                   THEN record[target[Mine(p)]]
                                                   ELSE snap[Mine(p)]]
    /\ OnlyRun

OnlyReceipt == UNCHANGED <<store, record, writer, edited, order, seen, event, snap, journal,
                           lease, crashes, landed>>

(* finish_question, up to the event. *)
Refuse(p) ==
    /\ run[p].at = "refuse"
    /\ receipt' = [receipt EXCEPT ![Mine(p)] = "needs_primary"]
    /\ Goto(p, "close")
    /\ OnlyReceipt

CloseEvent(p) ==
    /\ run[p].at = "close"
    /\ event' = [event EXCEPT ![Mine(p)] = receipt[Mine(p)]]
    /\ Goto(p, "next")
    /\ UNCHANGED <<store, record, writer, edited, order, seen, snap, journal, receipt,
                   lease, crashes, landed>>

Answered(p) ==
    /\ run[p].at = "write"
    /\ receipt[Mine(p)] # "none"
    /\ Goto(p, "close")
    /\ OnlyRun

Retained(p) ==
    /\ run[p].at = "write"
    /\ receipt[Mine(p)] = "none"
    /\ journal[Mine(p)] # NoJournal
    /\ Goto(p, "recover")
    /\ OnlyRun

Fresh(p) == run[p].at = "write" /\ receipt[Mine(p)] = "none" /\ journal[Mine(p)] = NoJournal

Prepared(e) == [phase |-> "prepared", before |-> record,
                after |-> [record EXCEPT ![target[e]] = e]]

(* The record is not read, or its target is not the captured one. *)
Unacceptable(p) == ~Readable \/ record[target[Mine(p)]] # run[p].expected

RefuseUpdate(p) ==
    /\ Fresh(p)
    /\ Unacceptable(p)
    /\ receipt' = [receipt EXCEPT ![Mine(p)] = "needs_primary"]
    /\ Goto(p, "close")
    /\ OnlyReceipt

Publishes(e, m) ==
    /\ record' = m.after
    /\ landed' = landed \cup {e}

Update(p) ==
    /\ Fresh(p)
    /\ ~Unacceptable(p) /\ ~Pending
    /\ Publishes(Mine(p), Prepared(Mine(p)))
    /\ journal' = [journal EXCEPT ![Mine(p)] =
                       [Prepared(Mine(p)) EXCEPT !.phase = "committed"]]
    /\ receipt' = [receipt EXCEPT ![Mine(p)] = "applied"]
    /\ run' = [run EXCEPT ![p].at = "close", ![p].wrote = TRUE]
    /\ UNCHANGED <<store, writer, edited, order, seen, event, snap, lease, crashes>>

(* Another writer's journal is in the way of a history's publication. *)
UpdateBlocked(p) ==
    /\ Fresh(p)
    /\ ~Unacceptable(p) /\ Pending
    /\ journal' = [journal EXCEPT ![Mine(p)] = Prepared(Mine(p))]
    /\ Goto(p, "failed")
    /\ UNCHANGED <<store, record, writer, edited, order, seen, event, snap, receipt, lease,
                   crashes, landed>>

(* The publication of m is cut short: after the writer journal (1), the
   record (2), the report's journal (3) or the end of the writer journal (4),
   by the death of the process or by an error. *)
CutShort(p, m) ==
    \E stage \in 1 .. 4 :
        /\ writer' = IF stage < 4 THEN [by |-> Mine(p), before |-> m.before, after |-> m.after]
                     ELSE writer
        /\ IF stage > 1 THEN Publishes(Mine(p), m) ELSE UNCHANGED <<record, landed>>
        /\ journal' = [journal EXCEPT ![Mine(p)] =
                           IF stage > 2 THEN [m EXCEPT !.phase = "committed"] ELSE m]
        /\ \/ Leave(p)
           \/ run' = [run EXCEPT ![p].at = "failed", ![p].wrote = @ \/ stage > 1]

UpdateCutShort(p) ==
    /\ Fresh(p)
    /\ ~Unacceptable(p) /\ ~Pending
    /\ Miss
    /\ CutShort(p, Prepared(Mine(p)))
    /\ UNCHANGED <<store, edited, order, seen, event, snap, receipt, lease>>

(* Or before the writer journal. *)
UpdatePreparedOnly(p) ==
    /\ Fresh(p)
    /\ ~Unacceptable(p) /\ ~Pending
    /\ Miss
    /\ journal' = [journal EXCEPT ![Mine(p)] = Prepared(Mine(p))]
    /\ (Leave(p) \/ Goto(p, "failed"))
    /\ UNCHANGED <<store, record, writer, edited, order, seen, event, snap, receipt, lease,
                   landed>>

(* An error of the writer while a journal of the record is there. *)
Failed(p) ==
    /\ run[p].at = "failed"
    /\ IF Pending
         THEN /\ event' = [event EXCEPT ![Mine(p)] = "recovery_required"]
              /\ Goto(p, "next")
         ELSE Goto(p, "refuse") /\ event' = event
    /\ UNCHANGED <<store, record, writer, edited, order, seen, snap, journal, receipt,
                   lease, crashes, landed>>

-----------------------------------------------------------------------------
(* A report whose journal was retained: the record's lock is given up and the
   rest is done in steps of their own. *)

Found(p) == journal[Mine(p)]

RecoverReport(p) ==
    /\ run[p].at = "recover"
    /\ Goto(p, CASE store = "history" \/ Pending -> "redo"
                 [] ~Pending /\ Found(p).phase = "prepared" -> "resume"
                 [] OTHER -> "settle")
    /\ OnlyRun

(* recover_expected, with the writer journal of this very report. *)
RedoReport(p) ==
    /\ run[p].at = "redo"
    /\ writer.by = Mine(p)
    /\ Publishes(Mine(p), Found(p))
    /\ writer' = NoWriter
    /\ run' = [run EXCEPT ![p].at = "settle", ![p].wrote = @ \/ record # record']
    /\ UNCHANGED <<store, edited, order, seen, files, lease, crashes>>

RedoOther(p) ==
    /\ run[p].at = "redo"
    /\ IF Pending THEN writer.by # Mine(p) ELSE store = "ordinary"
    /\ Goto(p, "failed")
    /\ OnlyRun

(* recover_expected of a history without a writer journal, publish_expected of
   an ordinary record. *)
Resuming(p) ==
    \/ run[p].at = "redo" /\ store = "history" /\ ~Pending
    \/ run[p].at = "resume"

(* Variant: what the record says now is not compared with what was prepared. *)
ResumeUnchecked(p) ==
    /\ Resuming(p) /\ ~Pending
    /\ record # Found(p).after
    /\ Publishes(Mine(p), Found(p))
    /\ journal' = [journal EXCEPT ![Mine(p)].phase = "committed"]
    /\ run' = [run EXCEPT ![p].at = "settle", ![p].wrote = TRUE]
    /\ UNCHANGED <<store, writer, edited, order, seen, event, snap, receipt, lease, crashes>>

Resume(p) ==
    /\ Resuming(p) /\ ~Pending
    /\ record = Found(p).before
    /\ Publishes(Mine(p), Found(p))
    /\ journal' = [journal EXCEPT ![Mine(p)].phase = "committed"]
    /\ run' = [run EXCEPT ![p].at = "settle", ![p].wrote = TRUE]
    /\ UNCHANGED <<store, writer, edited, order, seen, event, snap, receipt, lease, crashes>>

ResumeCutShort(p) ==
    /\ Resuming(p) /\ ~Pending
    /\ record = Found(p).before
    /\ Miss
    /\ CutShort(p, Found(p))
    /\ UNCHANGED <<store, edited, order, seen, event, snap, receipt, lease>>

(* The after images are there already: a history has the commit that explains
   them, an ordinary record's publication refuses them. *)
ResumeDone(p) ==
    /\ Resuming(p)
    /\ record = Found(p).after
    /\ Goto(p, IF store = "history" THEN "settle" ELSE "failed")
    /\ OnlyRun

ResumeBlocked(p) ==
    /\ run[p].at = "resume"
    /\ record = Found(p).before /\ Pending
    /\ Goto(p, "failed")
    /\ OnlyRun

Stale(p) == record \notin {Found(p).before, Found(p).after}

(* Variant: the record has moved on, so the report must have been applied. *)
ResumeStaleDone(p) ==
    /\ Resuming(p)
    /\ Stale(p)
    /\ Goto(p, "settle")
    /\ OnlyRun

(* The record is neither: the primary decides, once no writer is pending. *)
ResumeStale(p) ==
    /\ Resuming(p)
    /\ Stale(p)
    /\ IF Pending
         THEN receipt' = receipt /\ Goto(p, "failed")
         ELSE /\ receipt' = [receipt EXCEPT ![Mine(p)] = "needs_primary"]
              /\ Goto(p, "close")
    /\ OnlyReceipt

(* The receipt of a report that was found published. *)
Settle(p) ==
    /\ run[p].at = "settle"
    /\ receipt' = [receipt EXCEPT ![Mine(p)] = "applied"]
    /\ journal' = [journal EXCEPT ![Mine(p)].phase = "committed"]
    /\ Goto(p, "close")
    /\ UNCHANGED <<store, record, writer, edited, order, seen, event, snap, lease, crashes,
                   landed>>

SettleFails(p) ==
    /\ run[p].at = "settle"
    /\ Miss
    /\ Goto(p, "failed")
    /\ UNCHANGED <<store, record, writer, edited, order, seen, files, lease, landed>>

-----------------------------------------------------------------------------
(* The environment. *)

Die(p) ==
    /\ run[p].at # "none"
    /\ Miss
    /\ Leave(p)
    /\ UNCHANGED <<store, record, writer, edited, order, seen, files, lease, landed>>

Changed(m, t) == [record EXCEPT ![t] = m]

(* Another command writes, or somebody does by hand. *)
Edit(m, t) ==
    /\ ~Pending
    /\ m \notin edited
    /\ edited' = edited \cup {m}
    /\ record' = Changed(m, t)
    /\ UNCHANGED <<store, writer, order, seen, files, lease, run, crashes, landed>>

EditCutShort(m, t) ==
    /\ ~Pending
    /\ m \notin edited
    /\ edited' = edited \cup {m}
    /\ writer' = [by |-> m, before |-> record, after |-> Changed(m, t)]
    /\ record' \in {record, Changed(m, t)}
    /\ UNCHANGED <<store, order, seen, files, lease, run, crashes, landed>>

(* kpop recover *)
Complete ==
    /\ Pending
    /\ record' = writer.after
    /\ landed' = landed \cup ({writer.by} \cap Reports)
    /\ writer' = NoWriter
    /\ UNCHANGED <<store, edited, order, seen, files, lease, run, crashes>>

(* kpop recover --rollback: a history does not take back what is committed. *)
RollBack ==
    /\ Pending
    /\ store = "history" => record = writer.before
    /\ record' = writer.before
    /\ landed' = landed \ {writer.by}
    /\ writer' = NoWriter
    /\ UNCHANGED <<store, edited, order, seen, files, lease, run, crashes>>

-----------------------------------------------------------------------------
Process(p) ==
    \/ CheckLease(p)
    \/ ListEvents(p)
    \/ NextEvent(p)
    \/ NoMoreEvents(p)
    \/ EndPass(p)
    \/ HandOver(p)
    \/ BindTarget(p)
    \/ Refuse(p)
    \/ CloseEvent(p)
    \/ Answered(p)
    \/ Retained(p)
    \/ RefuseUpdate(p)
    \/ Update(p)
    \/ UpdateBlocked(p)
    \/ Failed(p)
    \/ RecoverReport(p)
    \/ RedoReport(p)
    \/ RedoOther(p)
    \/ Resume(p)
    \/ ResumeDone(p)
    \/ ResumeBlocked(p)
    \/ ResumeStale(p)
    \/ Settle(p)

Fault(p) ==
    \/ UpdateCutShort(p)
    \/ UpdatePreparedOnly(p)
    \/ ResumeCutShort(p)
    \/ SettleFails(p)
    \/ Die(p)

Next ==
    \/ \E e \in Reports : ReadTarget(e) \/ Capture(e) \/ CaptureCutShort(e)
    \/ LeaseAges
    \/ \E p \in Procs : Process(p) \/ Fault(p)
    \/ \E m \in Edits, t \in Targets : Edit(m, t) \/ EditCutShort(m, t)
    \/ Complete
    \/ RollBack

Spec == Init /\ [][Next]_vars

(* Processes run, time passes, callers retry what was not answered, and
   somebody runs kpop recover when it is asked for. *)
FairSpec ==
    /\ Spec
    /\ WF_vars(LeaseAges)
    /\ WF_vars(Complete \/ RollBack)
    /\ \A e \in Reports : WF_vars(Capture(e))
    /\ \A p \in Procs : WF_vars(Process(p))

-----------------------------------------------------------------------------
(* INGESTION.md: reports are processed in capture order, and external changes
   to a report's target require review.  In whatever step its mutation reaches
   the record, a report leaves the other entries alone and replaces what an
   earlier report of the queue put there, or, where no report has written, what
   its capture read: that read comes before capture.lock and before its place
   in the queue, and others may write and capture in between. *)
TargetBound ==
    [][\A e \in landed' \ landed :
          LET t == target[e] IN
          /\ \A u \in Targets \ {t} : record'[u] = record[u]
          /\ IF record[t] \in Reports THEN Earlier(record[t], e)
             ELSE record[t] = snap[e]]_vars

(* A report that was written over is never written again, by a worker that
   finds its journal or by a recovery, unless the write that is over it is
   itself taken back. *)
NeverReapplied ==
    [][\A e \in landed :
          /\ record[target[e]] # e
          /\ Pending => record' # writer.before
          => record'[target[e]] # e]_vars

(* With an active history an "applied" receipt is never given for a mutation
   that the record did not take or that was taken back. *)
AppliedIsWritten ==
    store = "history" =>
        \A e \in Reports : receipt[e] = "applied" => e \in landed

(* Without deaths and failed calls, a report that waits always has a live
   worker that holds the lease. *)
WorkIsAwaited ==
    crashes = 0 /\ Work =>
        /\ lease.pid \in Procs
        /\ run[lease.pid].at # "none" /\ run[lease.pid].token = lease.token

(* Whatever died, a captured report is answered or waits for a recovery. *)
EveryReportAnswered ==
    \A e \in Reports : event[e] \in AutoStates ~> event[e] \notin AutoStates

(* INGESTION.md: "If the result is needs_primary, none of that report's
   requested changes was applied by that attempt". *)
RefusedIsUntouched ==
    [][\A p \in Procs :
          run[p].at \notin {"none", "close"} /\ run'[p].at = "close"
          /\ receipt'[run[p].report] = "needs_primary" => ~run[p].wrote]_vars
=============================================================================
