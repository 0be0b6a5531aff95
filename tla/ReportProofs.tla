---------------------------- MODULE ReportProofs ----------------------------
(***************************************************************************)
(* Theorems about ReportIngestion, for any reports, entries, edits and     *)
(* processes and any number of deaths and failed calls.                    *)
(*                                                                         *)
(* Four invariants, each inductive over the ones before it: Shape says     *)
(* where a process may be and what it has read; Lineage says what the      *)
(* record, the writer journal and the journals of the reports tell of each *)
(* other; Ordered is about what captures read and their places in the      *)
(* queue, Attended about the worker's lease while nothing has failed.      *)
(***************************************************************************)
EXTENDS ReportIngestion, TLAPS, SequenceTheorems

(* What a report about e's entry may replace. *)
Bound(e, v) == v = snap[e] \/ (v \in Reports /\ Earlier(v, e))

WithReport == Processing \ {"next"}
WithJournal == {"recover", "redo", "resume", "settle"}

(* What a process knows of its report by where it is. *)
Knows(p) ==
    LET e == run[p].report IN
    /\ run[p].at \in WithReport => e \in Reports /\ event[e] # "none"
    /\ \A f \in run[p].todo : event[f] # "none"
    /\ run[p].at = "write" => Bound(e, run[p].expected)
    /\ run[p].at \in WithJournal => journal[e] # NoJournal
    /\ run[p].at = "close" => receipt[e] # "none"

Shape == TypeOK /\ \A p \in Procs : Knows(p)

-----------------------------------------------------------------------------
(* An image says only what was written and not taken back. *)
Written(image) ==
    \A t \in Targets :
        /\ image[t] \in Reports => target[image[t]] = t /\ image[t] \in landed
        /\ image[t] \in Edits => image[t] \in edited

(* The journal of a report: its own entry changes, from what it may replace,
   and what it was prepared over cannot be taken back any more. *)
Journaled(e) ==
    LET j == journal[e]
        t == target[e]
    IN  /\ event[e] # "none" /\ j.phase # "none"
        /\ j.after = [j.before EXCEPT ![t] = e]
        /\ j.before[t] # e /\ Bound(e, j.before[t])
        /\ Written(j.before)
        /\ \A u \in Targets :
               j.before[u] \in Reports /\ writer.by = j.before[u] => store = "history"

Journals == \A e \in Reports : journal[e] # NoJournal => Journaled(e)

(* A writer journal is that of a report, or of an edit. *)
OfReport(e) ==
    /\ e \in Reports /\ journal[e] # NoJournal
    /\ writer.before = journal[e].before /\ writer.after = journal[e].after
    /\ e \in landed <=> record = writer.after

OfEdit(m) ==
    /\ m \in edited
    /\ \E t \in Targets : writer.after = [writer.before EXCEPT ![t] = m]
    /\ \A t \in Targets : writer.before[t] # m
    /\ record # writer.after =>
           \A e \in Reports : journal[e] # NoJournal =>
               \A t \in Targets : journal[e].before[t] # m

WriterJournal ==
    Pending =>
        /\ record \in {writer.before, writer.after}
        /\ Written(writer.before)
        /\ OfReport(writer.by) \/ OfEdit(writer.by)

(* What a report that landed has replaced is never there again, nor will it be
   put back by a rollback, except by that of its own publication. *)
NoReturn ==
    \A e \in landed :
        LET t == target[e] IN
        /\ journal[e] # NoJournal
        /\ record[t] # journal[e].before[t]
        /\ Pending /\ writer.by # e => writer.before[t] # journal[e].before[t]

(* With a history, who found its report published was right. *)
Settled ==
    store = "history" =>
        \A p \in Procs : run[p].at = "settle" => run[p].report \in landed

Told == Written(record) /\ Journals /\ WriterJournal /\ NoReturn

Lineage == Told /\ Settled /\ AppliedIsWritten

-----------------------------------------------------------------------------
(* A capture reads before it has its place in the queue: the report that it
   found in its target has its own place already, an earlier one. *)
Captured(e) == event[e] # "none"
Queued(e) == \E i \in 1 .. Len(order) : order[i] = e

Behind(e) == Captured(e) /\ snap[e] \in Reports => Earlier(snap[e], e)

Ordered ==
    \A e \in Reports :
        /\ Captured(e) => Queued(e)
        /\ \A f \in seen[e] \cap Reports : Captured(f)
        /\ Behind(e)

-----------------------------------------------------------------------------
(* As long as nothing has failed there is one worker at most, and the lease is
   its own; and there is one while there is work. *)
Attended ==
    crashes = 0 =>
        /\ lease = NoLease \/ lease.pid \in Procs
        /\ \A p \in Procs : run[p].at # "none" => lease.pid = p /\ lease.token = run[p].token
        /\ Work => \E p \in Procs : run[p].at # "none"

-----------------------------------------------------------------------------
(* Facts about the state. *)

Steps == {"none", "check", "acquire", "end", "handover"} \cup Processing

Runs == [at : Steps, token : Tokens \cup {Nil}, passes : 0 .. MaxPasses - 1,
         todo : SUBSET Reports, report : Reports \cup {Nil}, expected : Writers,
         wrote : BOOLEAN]

LEMMA RunFacts ==
    ASSUME TypeOK, NEW p \in Procs
    PROVE  /\ run \in [Procs -> Runs] /\ DOMAIN run = Procs
           /\ run[p] \in Runs /\ run[p].report \in Reports \cup {Nil}
           /\ run[p].todo \subseteq Reports /\ run[p].expected \in Writers
BY DEF TypeOK, Runs, Steps

LEMMA RunType == ASSUME TypeOK PROVE run \in [Procs -> Runs]
BY DEF TypeOK, Runs, Steps

LEMMA IdleRun == Idle \in Runs /\ Idle.at = "none" /\ Idle.todo = {}
<1>1. 0 \in 0 .. MaxPasses - 1 BY ConstantsAssumption
<1>2. QED BY <1>1 DEF Idle, Runs, Steps, Writers

(* What is known of the reports is never unlearnt. *)
Grows ==
    \A e \in Reports :
        /\ event[e] # "none" => event'[e] # "none" /\ snap'[e] = snap[e]
        /\ journal[e] # NoJournal => journal'[e] # NoJournal
        /\ receipt[e] # "none" => receipt'[e] # "none"
        /\ \A f : Earlier(f, e) => Earlier(f, e)'

LEMMA GrowsWhenKept ==
    ASSUME UNCHANGED <<order, event, snap, journal, receipt>>
    PROVE  Grows
BY DEF Grows, Earlier

LEMMA BoundStays ==
    ASSUME Grows, NEW e \in Reports, event[e] # "none", NEW v, Bound(e, v)
    PROVE  Bound(e, v)'
BY DEF Grows, Bound

LEMMA KnowsStays ==
    ASSUME TypeOK, Grows, NEW p \in Procs, Knows(p), run'[p] = run[p]
    PROVE  Knows(p)'
<1>1. run[p].report \in Reports \cup {Nil} /\ run[p].todo \subseteq Reports BY RunFacts
<1>2. run[p].at \in WithReport => run[p].report \in Reports /\ event'[run[p].report] # "none"
  BY DEF Knows, Grows
<1>3. \A f \in run[p].todo : event'[f] # "none" BY <1>1 DEF Knows, Grows
<1>4. ASSUME run[p].at = "write" PROVE Bound(run[p].report, run[p].expected)'
  <2>1. run[p].report \in Reports /\ event[run[p].report] # "none"
    BY <1>4 DEF Knows, WithReport, Processing
  <2>2. PICK e \in Reports : e = run[p].report BY <2>1
  <2>3. PICK v : v = run[p].expected OBVIOUS
  <2>4. Bound(e, v) BY <1>4, <2>2, <2>3 DEF Knows
  <2>5. Bound(e, v)' BY <2>1, <2>2, <2>4, BoundStays
  <2>6. QED BY <2>2, <2>3, <2>5 DEF Bound, Earlier
<1>5. run[p].at \in WithJournal => journal'[run[p].report] # NoJournal
  BY DEF Knows, Grows, WithJournal, WithReport, Processing
<1>6. run[p].at = "close" => receipt'[run[p].report] # "none"
  BY DEF Knows, Grows, WithReport, Processing
<1>7. QED BY <1>2, <1>3, <1>4, <1>5, <1>6 DEF Knows

LEMMA AllKnow ==
    ASSUME Shape, Grows, NEW p \in Procs, \A q \in Procs \ {p} : run'[q] = run[q], Knows(p)'
    PROVE  \A q \in Procs : Knows(q)'
BY KnowsStays DEF Shape

(* A process goes on to a step. *)
LEMMA GotoFacts ==
    ASSUME TypeOK, NEW p \in Procs, NEW step \in Steps, Goto(p, step)
    PROVE  /\ run' \in [Procs -> Runs]
           /\ \A q \in Procs \ {p} : run'[q] = run[q]
           /\ run'[p].at = step /\ run'[p].token = run[p].token
           /\ run'[p].todo = run[p].todo /\ run'[p].report = run[p].report
           /\ run'[p].expected = run[p].expected
<1>1. run \in [Procs -> Runs] BY RunFacts
<1>2. QED BY <1>1 DEF Goto, Runs

LEMMA LeaveFacts ==
    ASSUME TypeOK, NEW p \in Procs, Leave(p)
    PROVE  /\ run' \in [Procs -> Runs]
           /\ \A q \in Procs \ {p} : run'[q] = run[q]
           /\ run'[p] = Idle /\ Knows(p)'
<1>1. run \in [Procs -> Runs] BY RunFacts
<1>2. run' \in [Procs -> Runs] /\ run'[p] = Idle /\ \A q \in Procs \ {p} : run'[q] = run[q]
  BY <1>1, IdleRun DEF Leave
<1>3. Knows(p)' BY <1>2, IdleRun DEF Knows, WithReport, WithJournal, Processing
<1>4. QED BY <1>2, <1>3

(* A step of a process that changes nothing else: where it comes to. *)
LEMMA OnlyRunShape ==
    ASSUME Shape, NEW p \in Procs, OnlyRun, run' \in [Procs -> Runs],
           \A q \in Procs \ {p} : run'[q] = run[q], Knows(p)'
    PROVE  Shape' /\ Grows
<1>1. UNCHANGED <<store, record, writer, edited, order, seen, event, snap, journal, receipt, lease,
                  crashes, landed>>
  BY DEF OnlyRun, files
<1>2. TypeOK' BY <1>1 DEF Shape, TypeOK, Runs, Steps
<1>3. Grows BY <1>1, GrowsWhenKept
<1>4. QED BY <1>2, <1>3, AllKnow DEF Shape

(* The same of a step that has the report and what is known of it. *)
LEMMA GotoKnows ==
    ASSUME Shape, Grows, NEW p \in Procs, NEW step \in Steps, Goto(p, step),
           step \in WithReport => run[p].at \in WithReport,
           step # "write",
           step \in WithJournal => journal'[run[p].report] # NoJournal,
           step = "close" => receipt'[run[p].report] # "none"
    PROVE  Knows(p)'
<1>1. /\ run'[p].at = step /\ run'[p].todo = run[p].todo /\ run'[p].report = run[p].report
  BY GotoFacts DEF Shape
<1>2. run[p].todo \subseteq Reports /\ Knows(p) BY RunFacts DEF Shape
<1>3. step \in WithReport => run[p].report \in Reports /\ event'[run[p].report] # "none"
  BY <1>2 DEF Knows, Grows
<1>4. \A f \in run[p].todo : event'[f] # "none" BY <1>2 DEF Knows, Grows
<1>5. QED BY <1>1, <1>3, <1>4 DEF Knows

LEMMA GotoShape ==
    ASSUME Shape, NEW p \in Procs, NEW step \in Steps, Goto(p, step), OnlyRun,
           step \in WithReport => run[p].at \in WithReport,
           step # "write",
           step \in WithJournal => journal[run[p].report] # NoJournal,
           step = "close" => receipt[run[p].report] # "none"
    PROVE  Shape' /\ Grows
<1>1. UNCHANGED <<order, event, snap, journal, receipt>> BY DEF OnlyRun, files
<1>2. Grows BY <1>1, GrowsWhenKept
<1>3. Knows(p)' BY <1>1, <1>2, GotoKnows
<1>4. run' \in [Procs -> Runs] /\ \A q \in Procs \ {p} : run'[q] = run[q]
  BY GotoFacts DEF Shape
<1>5. QED BY <1>3, <1>4, OnlyRunShape


-----------------------------------------------------------------------------
(* Shape is kept by every step. *)

JournalStates == [phase : {"none", "prepared", "committed"}, before : Images, after : Images]
WriterStates == [by : Writers, before : Images, after : Images]

(* The process stays with its report, or is done with it. *)
Moves(p) ==
    /\ run' \in [Procs -> Runs]
    /\ \A q \in Procs \ {p} : run'[q] = run[q]
    /\ run'[p].todo \subseteq run[p].todo
    /\ run'[p].at \in WithReport => run'[p].report = run[p].report
    /\ run'[p].at # "write"

LEMMA GotoMoves ==
    ASSUME TypeOK, NEW p \in Procs, NEW step \in Steps \ {"write"}, Goto(p, step)
    PROVE  Moves(p) /\ run'[p].at = step
BY GotoFacts DEF Moves

LEMMA LeaveMoves ==
    ASSUME TypeOK, NEW p \in Procs, Leave(p)
    PROVE  Moves(p) /\ run'[p].at = "none"
BY LeaveFacts, IdleRun DEF Moves, WithReport, Processing

LEMMA WroteMoves ==
    ASSUME TypeOK, NEW p \in Procs, NEW step \in Steps \ {"write"}, NEW w \in BOOLEAN,
           run' = [run EXCEPT ![p].at = step, ![p].wrote = w]
    PROVE  Moves(p) /\ run'[p].at = step
<1>1. run \in [Procs -> Runs] BY RunFacts
<1>2. QED BY <1>1 DEF Moves, Runs

(* A step of a process that leaves the reports' events alone. *)
LEMMA MoveShape ==
    ASSUME Shape, NEW p \in Procs, Moves(p), run[p].at \in WithReport,
           UNCHANGED <<store, edited, order, seen, event, snap, lease>>,
           record' \in Images, writer' \in WriterStates, journal' \in [Reports -> JournalStates],
           receipt' \in [Reports -> {"none"} \cup Terminal],
           landed' \subseteq Reports, crashes' \in 0 .. MaxCrashes,
           \A e \in Reports : journal[e] # NoJournal => journal'[e] # NoJournal,
           \A e \in Reports : receipt[e] # "none" => receipt'[e] # "none",
           run'[p].at \in WithJournal => journal'[run[p].report] # NoJournal,
           run'[p].at = "close" => receipt'[run[p].report] # "none"
    PROVE  Shape' /\ Grows
<1>1. Grows BY DEF Grows, Earlier
<1>2. TypeOK' BY DEF Shape, TypeOK, Moves, Runs, Steps, JournalStates, WriterStates
<1>3. Knows(p) /\ run[p].todo \subseteq Reports BY RunFacts DEF Shape
<1>4. run'[p].at \in WithReport => run'[p].report \in Reports /\ event'[run'[p].report] # "none"
  BY <1>3 DEF Knows, Moves
<1>5. \A f \in run'[p].todo : event'[f] # "none" BY <1>3 DEF Knows, Moves
<1>6. run'[p].at \in WithJournal => run'[p].at \in WithReport
  BY DEF WithJournal, WithReport, Processing
<1>7. run'[p].at = "close" => run'[p].at \in WithReport BY DEF WithReport, Processing
<1>8. Knows(p)' BY <1>4, <1>5, <1>6, <1>7 DEF Knows, Moves
<1>9. QED BY <1>1, <1>2, <1>8, AllKnow DEF Shape, Moves

LEMMA MineFacts ==
    ASSUME Shape, NEW p \in Procs, run[p].at \in WithReport
    PROVE  /\ Mine(p) \in Reports /\ event[Mine(p)] # "none" /\ Mine(p) \in Writers
           /\ target[Mine(p)] \in Targets
BY ConstantsAssumption DEF Shape, Knows, Mine, Writers

(* What stays is of its type. *)
LEMMA KeptTypes ==
    ASSUME TypeOK
    PROVE  /\ record \in Images /\ writer \in WriterStates /\ journal \in [Reports -> JournalStates]
           /\ receipt \in [Reports -> {"none"} \cup Terminal]
           /\ landed \subseteq Reports /\ crashes \in 0 .. MaxCrashes
           /\ NoWriter \in WriterStates /\ Untouched \in Images
BY DEF TypeOK, JournalStates, WriterStates, NoWriter, Untouched, Images, Writers

LEMMA MissType == ASSUME TypeOK, Miss PROVE crashes' \in 0 .. MaxCrashes
BY ConstantsAssumption DEF TypeOK, Miss

(* Steps that only go on. *)
LEMMA GoShape ==
    ASSUME Shape, NEW p \in Procs, NEW step \in Steps \ {"write"}, Goto(p, step),
           UNCHANGED <<store, record, writer, edited, order, seen, files, lease, landed>>,
           crashes' \in 0 .. MaxCrashes, run[p].at \in WithReport,
           step \in WithJournal => journal[Mine(p)] # NoJournal,
           step = "close" => receipt[Mine(p)] # "none"
    PROVE  Shape' /\ Grows
<1>1. UNCHANGED <<store, record, writer, edited, order, seen, event, snap, journal, receipt, lease,
                  landed>>
  BY DEF files
<1>2. Moves(p) /\ run'[p].at = step BY GotoMoves DEF Shape
<1>3. QED BY <1>1, <1>2, MoveShape, KeptTypes DEF Shape, Mine

(* Steps that answer. *)
LEMMA ReceiptShape ==
    ASSUME Shape, NEW p \in Procs, NEW r \in Terminal, Goto(p, "close"), run[p].at \in WithReport,
           receipt' = [receipt EXCEPT ![Mine(p)] = r], OnlyReceipt
    PROVE  Shape' /\ Grows
<1>1. Moves(p) /\ run'[p].at = "close" BY GotoMoves DEF Shape, Steps, Processing
<1>2. Mine(p) \in Reports BY MineFacts
<1>3. receipt \in [Reports -> {"none"} \cup Terminal] BY KeptTypes DEF Shape
<1>4. receipt' \in [Reports -> {"none"} \cup Terminal] BY <1>2, <1>3
<1>5. "none" \notin Terminal BY DEF Terminal
<1>6. receipt'[Mine(p)] # "none" BY <1>2, <1>3, <1>5
<1>7. \A e \in Reports : receipt[e] # "none" => receipt'[e] # "none" BY <1>2, <1>3, <1>5
<1>8. UNCHANGED <<store, record, writer, edited, order, seen, event, snap, journal, lease, crashes,
                  landed>>
  BY DEF OnlyReceipt
<1>9. run'[p].at \notin WithJournal BY <1>1 DEF WithJournal
<1>10. QED BY <1>1, <1>4, <1>6, <1>7, <1>8, <1>9, MoveShape, KeptTypes DEF Shape, Mine

LEMMA PreparedType ==
    ASSUME TypeOK, NEW e \in Reports
    PROVE  /\ Prepared(e) \in JournalStates /\ Prepared(e) # NoJournal
           /\ Prepared(e).phase = "prepared" /\ Prepared(e).before = record
           /\ Prepared(e).after = [record EXCEPT ![target[e]] = e]
<1>1. e \in Writers /\ target[e] \in Targets /\ record \in Images
  BY ConstantsAssumption DEF TypeOK, Writers
<1>2. [record EXCEPT ![target[e]] = e] \in Images BY <1>1 DEF Images
<1>3. QED BY <1>1, <1>2 DEF Prepared, JournalStates, NoJournal

(* The journal of a report that its mutation is retained in. *)
LEMMA JournalType ==
    ASSUME TypeOK, NEW e \in Reports, NEW m \in JournalStates, m # NoJournal,
           \/ journal' = [journal EXCEPT ![e] = m]
           \/ journal' = [journal EXCEPT ![e] = [m EXCEPT !.phase = "committed"]]
    PROVE  /\ journal' \in [Reports -> JournalStates]
           /\ journal'[e] # NoJournal
           /\ journal'[e].before = m.before /\ journal'[e].after = m.after
           /\ \A f \in Reports : f # e => journal'[f] = journal[f]
<1>1. journal \in [Reports -> JournalStates] BY KeptTypes
<1>2. [m EXCEPT !.phase = "committed"] \in JournalStates
  BY DEF JournalStates
<1>3. [m EXCEPT !.phase = "committed"] # NoJournal BY DEF JournalStates, NoJournal
<1>4. [m EXCEPT !.phase = "committed"].before = m.before
      /\ [m EXCEPT !.phase = "committed"].after = m.after
  BY DEF JournalStates
<1>5. QED BY <1>1, <1>2, <1>3, <1>4

LEMMA RefuseShape == ASSUME Shape, NEW p \in Procs, Refuse(p) PROVE Shape' /\ Grows
<1>1. run[p].at \in WithReport BY DEF Refuse, WithReport, Processing
<1>2. QED BY <1>1, ReceiptShape DEF Refuse, Terminal

LEMMA RefuseUpdateShape == ASSUME Shape, NEW p \in Procs, RefuseUpdate(p) PROVE Shape' /\ Grows
<1>1. run[p].at \in WithReport BY DEF RefuseUpdate, Fresh, WithReport, Processing
<1>2. QED BY <1>1, ReceiptShape DEF RefuseUpdate, Terminal

LEMMA AnsweredShape == ASSUME Shape, NEW p \in Procs, Answered(p) PROVE Shape' /\ Grows
<1>1. run[p].at \in WithReport BY DEF Answered, WithReport, Processing
<1>2. "close" \in Steps \ {"write"} /\ "close" \notin WithJournal
  BY DEF Steps, Processing, WithJournal
<1>3. QED BY <1>1, <1>2, GotoShape DEF Answered, Mine

LEMMA RetainedShape == ASSUME Shape, NEW p \in Procs, Retained(p) PROVE Shape' /\ Grows
<1>1. run[p].at \in WithReport BY DEF Retained, WithReport, Processing
<1>2. "recover" \in Steps \ {"write"} BY DEF Steps, Processing
<1>3. QED BY <1>1, <1>2, GotoShape DEF Retained, Mine

(* Steps between those of a report whose journal was retained. *)
LEMMA RetainedGoes ==
    ASSUME Shape, NEW p \in Procs, NEW step \in WithJournal \cup {"failed"}, Goto(p, step),
           run[p].at \in WithJournal, OnlyRun
    PROVE  Shape' /\ Grows
<1>1. run[p].at \in WithReport /\ step \in Steps \ {"write"} /\ step # "close"
  BY DEF WithJournal, WithReport, Processing, Steps
<1>2. journal[run[p].report] # NoJournal BY DEF Shape, Knows
<1>3. QED BY <1>1, <1>2, GotoShape

LEMMA RecoverShape == ASSUME Shape, NEW p \in Procs, RecoverReport(p) PROVE Shape' /\ Grows
<1>1. PICK step : step = CASE store = "history" \/ Pending -> "redo"
                           [] ~Pending /\ Found(p).phase = "prepared" -> "resume"
                           [] OTHER -> "settle"
  OBVIOUS
<1>2. step \in WithJournal BY <1>1 DEF WithJournal
<1>3. run[p].at \in WithJournal BY DEF RecoverReport, WithJournal
<1>4. QED BY <1>1, <1>2, <1>3, RetainedGoes DEF RecoverReport

LEMMA RedoOtherShape == ASSUME Shape, NEW p \in Procs, RedoOther(p) PROVE Shape' /\ Grows
<1>1. run[p].at \in WithJournal BY DEF RedoOther, WithJournal
<1>2. QED BY <1>1, RetainedGoes DEF RedoOther

LEMMA ResumeDoneShape == ASSUME Shape, NEW p \in Procs, ResumeDone(p) PROVE Shape' /\ Grows
<1>1. run[p].at \in WithJournal BY DEF ResumeDone, Resuming, WithJournal
<1>2. PICK step : step = IF store = "history" THEN "settle" ELSE "failed" OBVIOUS
<1>3. step \in WithJournal \cup {"failed"} BY <1>2 DEF WithJournal
<1>4. Goto(p, step) BY <1>2 DEF ResumeDone
<1>5. QED BY <1>1, <1>3, <1>4, RetainedGoes DEF ResumeDone

LEMMA ResumeBlockedShape == ASSUME Shape, NEW p \in Procs, ResumeBlocked(p) PROVE Shape' /\ Grows
<1>1. run[p].at \in WithJournal BY DEF ResumeBlocked, WithJournal
<1>2. QED BY <1>1, RetainedGoes DEF ResumeBlocked

LEMMA ResumeStaleShape == ASSUME Shape, NEW p \in Procs, ResumeStale(p) PROVE Shape' /\ Grows
<1>1. run[p].at \in WithJournal /\ run[p].at \in WithReport
  BY DEF ResumeStale, Resuming, WithJournal, WithReport, Processing
<1>2. CASE Pending
  <2>1. OnlyRun BY <1>2 DEF ResumeStale, OnlyReceipt, OnlyRun, files
  <2>2. QED BY <1>1, <1>2, <2>1, RetainedGoes DEF ResumeStale
<1>3. CASE ~Pending BY <1>1, <1>3, ReceiptShape DEF ResumeStale, Terminal
<1>4. QED BY <1>2, <1>3

LEMMA SettleFailsShape == ASSUME Shape, NEW p \in Procs, SettleFails(p) PROVE Shape' /\ Grows
<1>1. run[p].at \in WithReport BY DEF SettleFails, WithReport, Processing
<1>2. "failed" \in Steps \ {"write"} /\ "failed" \notin WithJournal
  BY DEF Steps, Processing, WithJournal
<1>3. crashes' \in 0 .. MaxCrashes BY MissType DEF SettleFails, Shape
<1>4. QED BY <1>1, <1>2, <1>3, GoShape DEF SettleFails

LEMMA UpdateShape == ASSUME Shape, NEW p \in Procs, Update(p) PROVE Shape' /\ Grows
<1>1. run[p].at \in WithReport BY DEF Update, Fresh, WithReport, Processing
<1>2. Mine(p) \in Reports BY <1>1, MineFacts
<1>3. PICK m \in JournalStates : m = Prepared(Mine(p)) /\ m # NoJournal
  BY <1>2, PreparedType DEF Shape
<1>4. journal' \in [Reports -> JournalStates]
      /\ \A f \in Reports : journal[f] # NoJournal => journal'[f] # NoJournal
  BY <1>2, <1>3, JournalType DEF Update, Shape
<1>5. record' \in Images /\ landed' \subseteq Reports
  BY <1>2, <1>3, KeptTypes DEF Update, Publishes, JournalStates, Shape
<1>6. receipt \in [Reports -> {"none"} \cup Terminal] BY KeptTypes DEF Shape
<1>7. receipt' = [receipt EXCEPT ![Mine(p)] = "applied"] BY DEF Update
<1>8. /\ receipt' \in [Reports -> {"none"} \cup Terminal]
      /\ receipt'[Mine(p)] # "none"
      /\ \A f \in Reports : receipt[f] # "none" => receipt'[f] # "none"
  BY <1>2, <1>6, <1>7 DEF Terminal
<1>9. "close" \in Steps \ {"write"} /\ "close" \notin WithJournal
  BY DEF Steps, Processing, WithJournal
<1>10. Moves(p) /\ run'[p].at = "close" BY <1>9, WroteMoves DEF Update, Shape
<1>11. writer' \in WriterStates /\ crashes' \in 0 .. MaxCrashes BY KeptTypes DEF Update, Shape
<1>12. UNCHANGED <<store, edited, order, seen, event, snap, lease>> BY DEF Update
<1>13. QED
  BY <1>1, <1>4, <1>5, <1>8, <1>9, <1>10, <1>11, <1>12, MoveShape DEF Mine

(* The report's journal is retained and nothing else is written. *)
LEMMA RetainShape ==
    ASSUME Shape, NEW p \in Procs, Fresh(p),
           journal' = [journal EXCEPT ![Mine(p)] = Prepared(Mine(p))],
           Moves(p), run'[p].at \in {"none", "failed"},
           UNCHANGED <<store, record, writer, edited, order, seen, event, snap, receipt, lease, landed>>,
           crashes' \in 0 .. MaxCrashes
    PROVE  Shape' /\ Grows
<1>1. run[p].at \in WithReport BY DEF Fresh, WithReport, Processing
<1>2. Mine(p) \in Reports BY <1>1, MineFacts
<1>3. PICK m \in JournalStates : m = Prepared(Mine(p)) /\ m # NoJournal
  BY <1>2, PreparedType DEF Shape
<1>4. journal' \in [Reports -> JournalStates]
      /\ \A f \in Reports : journal[f] # NoJournal => journal'[f] # NoJournal
  BY <1>2, <1>3, JournalType DEF Shape
<1>5. run'[p].at \notin WithJournal /\ run'[p].at # "close" BY DEF WithJournal
<1>6. QED BY <1>1, <1>4, <1>5, MoveShape, KeptTypes DEF Shape

LEMMA UpdateBlockedShape == ASSUME Shape, NEW p \in Procs, UpdateBlocked(p) PROVE Shape' /\ Grows
<1>1. "failed" \in Steps \ {"write"} BY DEF Steps, Processing
<1>2. Moves(p) /\ run'[p].at = "failed" BY <1>1, GotoMoves DEF UpdateBlocked, Shape
<1>3. crashes' \in 0 .. MaxCrashes BY KeptTypes DEF UpdateBlocked, Shape
<1>4. QED BY <1>2, <1>3, RetainShape DEF UpdateBlocked

LEMMA UpdatePreparedOnlyShape ==
    ASSUME Shape, NEW p \in Procs, UpdatePreparedOnly(p) PROVE Shape' /\ Grows
<1>1. "failed" \in Steps \ {"write"} BY DEF Steps, Processing
<1>2. Moves(p) /\ run'[p].at \in {"none", "failed"}
  BY <1>1, GotoMoves, LeaveMoves DEF UpdatePreparedOnly, Shape
<1>3. crashes' \in 0 .. MaxCrashes BY MissType DEF UpdatePreparedOnly, Shape
<1>4. QED BY <1>2, <1>3, RetainShape DEF UpdatePreparedOnly

(* What a publication that is cut short writes. *)
LEMMA CutShortTypes ==
    ASSUME Shape, NEW p \in Procs, run[p].at \in WithReport,
           NEW m \in JournalStates, m # NoJournal, CutShort(p, m)
    PROVE  /\ writer' \in WriterStates /\ record' \in Images /\ landed' \subseteq Reports
           /\ journal' \in [Reports -> JournalStates]
           /\ \A f \in Reports : journal[f] # NoJournal => journal'[f] # NoJournal
           /\ Moves(p) /\ run'[p].at \in {"none", "failed"}
<1>1. Mine(p) \in Reports /\ Mine(p) \in Writers BY MineFacts
<1>2. PICK stage \in 1 .. 4 :
        /\ writer' = IF stage < 4 THEN [by |-> Mine(p), before |-> m.before, after |-> m.after]
                     ELSE writer
        /\ IF stage > 1 THEN Publishes(Mine(p), m) ELSE UNCHANGED <<record, landed>>
        /\ journal' = [journal EXCEPT ![Mine(p)] =
                           IF stage > 2 THEN [m EXCEPT !.phase = "committed"] ELSE m]
        /\ \/ Leave(p)
           \/ run' = [run EXCEPT ![p].at = "failed", ![p].wrote = @ \/ stage > 1]
  BY DEF CutShort
<1>3. writer' \in WriterStates
  BY <1>1, <1>2, KeptTypes DEF WriterStates, JournalStates, Shape
<1>4. record' \in Images /\ landed' \subseteq Reports
  BY <1>1, <1>2, KeptTypes DEF Publishes, JournalStates, Shape
<1>5. journal' \in [Reports -> JournalStates]
      /\ \A f \in Reports : journal[f] # NoJournal => journal'[f] # NoJournal
  <2>1. \/ journal' = [journal EXCEPT ![Mine(p)] = m]
        \/ journal' = [journal EXCEPT ![Mine(p)] = [m EXCEPT !.phase = "committed"]]
    BY <1>2
  <2>2. QED BY <1>1, <2>1, JournalType DEF Shape
<1>6. Moves(p) /\ run'[p].at \in {"none", "failed"}
  <2>1. CASE Leave(p) BY <2>1, LeaveMoves DEF Shape
  <2>2. CASE run' = [run EXCEPT ![p].at = "failed", ![p].wrote = @ \/ stage > 1]
    <3>1. PICK w : w = (run[p].wrote \/ stage > 1) OBVIOUS
    <3>2. run[p].wrote \in BOOLEAN BY RunFacts DEF Shape, Runs
    <3>3. w \in BOOLEAN BY <3>1, <3>2
    <3>4. run' = [run EXCEPT ![p].at = "failed", ![p].wrote = w] BY <2>2, <3>1
    <3>5. "failed" \in Steps \ {"write"} BY DEF Steps, Processing
    <3>6. QED BY <3>3, <3>4, <3>5, WroteMoves DEF Shape
  <2>3. QED BY <1>2, <2>1, <2>2
<1>7. QED BY <1>3, <1>4, <1>5, <1>6

LEMMA UpdateCutShortShape ==
    ASSUME Shape, NEW p \in Procs, UpdateCutShort(p) PROVE Shape' /\ Grows
<1>1. run[p].at \in WithReport BY DEF UpdateCutShort, Fresh, WithReport, Processing
<1>2. PICK m \in JournalStates : m = Prepared(Mine(p)) /\ m # NoJournal
  BY <1>1, MineFacts, PreparedType DEF Shape
<1>3. CutShort(p, m) BY <1>2 DEF UpdateCutShort
<1>4. run'[p].at \notin WithJournal /\ run'[p].at # "close"
  BY <1>1, <1>2, <1>3, CutShortTypes DEF WithJournal
<1>5. crashes' \in 0 .. MaxCrashes BY MissType DEF UpdateCutShort, Shape
<1>6. UNCHANGED <<store, edited, order, seen, event, snap, receipt, lease>> BY DEF UpdateCutShort
<1>7. receipt \in [Reports -> {"none"} \cup Terminal] BY KeptTypes DEF Shape
<1>8. QED BY <1>1, <1>2, <1>3, <1>4, <1>5, <1>6, <1>7, CutShortTypes, MoveShape

LEMMA FoundType ==
    ASSUME Shape, NEW p \in Procs, run[p].at \in WithJournal
    PROVE  /\ run[p].at \in WithReport /\ Mine(p) \in Reports
           /\ Found(p) \in JournalStates /\ Found(p) # NoJournal
<1>1. run[p].at \in WithReport BY DEF WithJournal, WithReport, Processing
<1>2. Mine(p) \in Reports BY <1>1, MineFacts
<1>3. QED BY <1>1, <1>2, KeptTypes DEF Found, Mine, Shape, Knows

LEMMA ResumeCutShortShape ==
    ASSUME Shape, NEW p \in Procs, ResumeCutShort(p) PROVE Shape' /\ Grows
<1>1. run[p].at \in WithJournal BY DEF ResumeCutShort, Resuming, WithJournal
<1>2. run[p].at \in WithReport BY <1>1, FoundType
<1>3. PICK m \in JournalStates : m = Found(p) /\ m # NoJournal BY <1>1, FoundType
<1>4. CutShort(p, m) BY <1>3 DEF ResumeCutShort
<1>5. run'[p].at \notin WithJournal /\ run'[p].at # "close"
  BY <1>2, <1>3, <1>4, CutShortTypes DEF WithJournal
<1>6. crashes' \in 0 .. MaxCrashes BY MissType DEF ResumeCutShort, Shape
<1>7. UNCHANGED <<store, edited, order, seen, event, snap, receipt, lease>> BY DEF ResumeCutShort
<1>8. receipt \in [Reports -> {"none"} \cup Terminal] BY KeptTypes DEF Shape
<1>9. QED BY <1>2, <1>3, <1>4, <1>5, <1>6, <1>7, <1>8, CutShortTypes, MoveShape

(* Steps that go on to the receipt. *)
LEMMA SettleSoonShape ==
    ASSUME Shape, NEW p \in Procs, run[p].at \in WithJournal, Publishes(Mine(p), Found(p)),
           UNCHANGED <<store, edited, order, seen, event, snap, receipt, lease, crashes>>,
           writer' \in WriterStates,
           \/ journal' = journal
           \/ journal' = [journal EXCEPT ![Mine(p)].phase = "committed"],
           NEW w \in BOOLEAN, run' = [run EXCEPT ![p].at = "settle", ![p].wrote = w]
    PROVE  Shape' /\ Grows
<1>1. run[p].at \in WithReport /\ Mine(p) \in Reports BY FoundType
<1>2. PICK m \in JournalStates : m = Found(p) /\ m # NoJournal BY FoundType
<1>3. /\ journal' \in [Reports -> JournalStates]
      /\ \A f \in Reports : journal[f] # NoJournal => journal'[f] # NoJournal
      /\ journal'[Mine(p)] # NoJournal
  <2>1. CASE journal' = journal BY <1>1, <1>2, <2>1, KeptTypes DEF Shape, Found
  <2>2. CASE journal' = [journal EXCEPT ![Mine(p)].phase = "committed"]
    <3>1. journal' = [journal EXCEPT ![Mine(p)] = [m EXCEPT !.phase = "committed"]]
      BY <1>1, <1>2, <2>2, KeptTypes DEF Shape, Found
    <3>2. QED BY <1>1, <1>2, <3>1, JournalType DEF Shape
  <2>3. QED BY <2>1, <2>2
<1>4. record' \in Images /\ landed' \subseteq Reports
  BY <1>1, <1>2, KeptTypes DEF Publishes, JournalStates, Shape
<1>5. "settle" \in Steps \ {"write"} BY DEF Steps, Processing
<1>6. Moves(p) /\ run'[p].at = "settle" BY <1>5, WroteMoves DEF Shape
<1>7. receipt \in [Reports -> {"none"} \cup Terminal] BY KeptTypes DEF Shape
<1>8. QED
  BY <1>1, <1>3, <1>4, <1>6, <1>7, MoveShape, KeptTypes DEF Shape, Mine

LEMMA ResumeShape == ASSUME Shape, NEW p \in Procs, Resume(p) PROVE Shape' /\ Grows
<1>1. run[p].at \in WithJournal BY DEF Resume, Resuming, WithJournal
<1>2. writer' \in WriterStates BY KeptTypes DEF Resume, Shape
<1>3. QED BY <1>1, <1>2, SettleSoonShape DEF Resume

LEMMA RedoReportShape == ASSUME Shape, NEW p \in Procs, RedoReport(p) PROVE Shape' /\ Grows
<1>1. run[p].at \in WithJournal BY DEF RedoReport, WithJournal
<1>2. writer' \in WriterStates BY KeptTypes DEF RedoReport, Shape
<1>3. run[p].wrote \in BOOLEAN BY RunFacts DEF Shape, Runs
<1>4. PICK w : w = (run[p].wrote \/ record # record') OBVIOUS
<1>5. w \in BOOLEAN BY <1>3, <1>4
<1>6. run' = [run EXCEPT ![p].at = "settle", ![p].wrote = w] BY <1>4 DEF RedoReport
<1>7. UNCHANGED <<store, edited, order, seen, event, snap, journal, receipt, lease, crashes>>
  BY DEF RedoReport, files
<1>8. Publishes(Mine(p), Found(p)) BY DEF RedoReport
<1>9. QED BY <1>1, <1>2, <1>5, <1>6, <1>7, <1>8, SettleSoonShape

LEMMA SettleShape == ASSUME Shape, NEW p \in Procs, Settle(p) PROVE Shape' /\ Grows
<1>1. run[p].at \in WithJournal BY DEF Settle, WithJournal
<1>2. run[p].at \in WithReport /\ Mine(p) \in Reports BY <1>1, FoundType
<1>3. PICK m \in JournalStates : m = Found(p) /\ m # NoJournal BY <1>1, FoundType
<1>4. journal' = [journal EXCEPT ![Mine(p)] = [m EXCEPT !.phase = "committed"]]
  BY <1>2, <1>3, KeptTypes DEF Settle, Shape, Found
<1>5. /\ journal' \in [Reports -> JournalStates]
      /\ \A f \in Reports : journal[f] # NoJournal => journal'[f] # NoJournal
  BY <1>2, <1>3, <1>4, JournalType DEF Shape
<1>6. receipt \in [Reports -> {"none"} \cup Terminal] BY KeptTypes DEF Shape
<1>7. receipt' = [receipt EXCEPT ![Mine(p)] = "applied"] BY DEF Settle
<1>8. /\ receipt' \in [Reports -> {"none"} \cup Terminal]
      /\ receipt'[Mine(p)] # "none"
      /\ \A f \in Reports : receipt[f] # "none" => receipt'[f] # "none"
  BY <1>2, <1>6, <1>7 DEF Terminal
<1>9. "close" \in Steps \ {"write"} /\ "close" \notin WithJournal
  BY DEF Steps, Processing, WithJournal
<1>10. Moves(p) /\ run'[p].at = "close" BY <1>9, GotoMoves DEF Settle, Shape
<1>11. UNCHANGED <<store, record, writer, edited, order, seen, event, snap, lease, crashes, landed>>
  BY DEF Settle
<1>12. QED BY <1>2, <1>5, <1>8, <1>9, <1>10, <1>11, MoveShape, KeptTypes DEF Shape, Mine

(* The worker's way between reports. *)
LEMMA CheckLeaseShape == ASSUME Shape, NEW p \in Procs, CheckLease(p) PROVE Shape' /\ Grows
<1>1. CASE Goto(p, "acquire")
  <2>1. /\ "acquire" \in Steps /\ "acquire" \notin WithReport /\ "acquire" \notin WithJournal
    BY DEF Steps, WithReport, WithJournal, Processing
  <2>2. QED BY <1>1, <2>1, GotoShape DEF CheckLease
<1>2. CASE Leave(p) BY <1>2, LeaveFacts, OnlyRunShape DEF CheckLease, Shape
<1>3. QED BY <1>1, <1>2 DEF CheckLease

LEMMA ListEventsShape == ASSUME Shape, NEW p \in Procs, ListEvents(p) PROVE Shape' /\ Grows
<1>1. run \in [Procs -> Runs] /\ Queue \subseteq Reports BY RunFacts DEF Shape, Queue, Open
<1>2. \A e \in Queue : event[e] # "none" BY DEF Queue, Open
<1>3. PICK queue \in SUBSET Reports : queue = Queue BY <1>1
<1>4. run' = [run EXCEPT ![p].at = "next", ![p].todo = queue] BY <1>3 DEF ListEvents
<1>5. "next" \in Steps BY DEF Steps, Processing
<1>6. /\ run' \in [Procs -> Runs] /\ run'[p].at = "next" /\ run'[p].todo = queue
      /\ \A q \in Procs \ {p} : run'[q] = run[q]
  BY <1>1, <1>4, <1>5 DEF Runs
<1>7. event' = event BY DEF ListEvents, OnlyRun, files
<1>8. Knows(p)' BY <1>2, <1>3, <1>6, <1>7 DEF Knows, WithReport, WithJournal
<1>9. QED BY <1>6, <1>8, OnlyRunShape DEF ListEvents

LEMMA NoMoreEventsShape == ASSUME Shape, NEW p \in Procs, NoMoreEvents(p) PROVE Shape' /\ Grows
<1>1. run \in [Procs -> Runs] /\ run[p].todo = {} BY RunFacts DEF Shape, NoMoreEvents
<1>2. "end" \in Steps /\ Nil \in Writers BY DEF Steps, Writers
<1>3. run' = [run EXCEPT ![p].at = "end", ![p].report = Nil, ![p].expected = Nil,
                         ![p].wrote = FALSE]
  BY DEF NoMoreEvents
<1>4. /\ run' \in [Procs -> Runs] /\ run'[p].at = "end" /\ run'[p].todo = {}
      /\ \A q \in Procs \ {p} : run'[q] = run[q]
  <2>1. PICK r : r = [run[p] EXCEPT !.at = "end", !.report = Nil, !.expected = Nil,
                                    !.wrote = FALSE]
    OBVIOUS
  <2>2. r \in Runs /\ r.at = "end" /\ r.todo = run[p].todo BY <1>1, <1>2, <2>1 DEF Runs
  <2>3. run' = [run EXCEPT ![p] = r] BY <1>1, <1>3, <2>1 DEF Runs
  <2>4. QED BY <1>1, <2>2, <2>3
<1>5. Knows(p)' BY <1>4 DEF Knows, WithReport, WithJournal, Processing
<1>6. QED BY <1>4, <1>5, OnlyRunShape DEF NoMoreEvents

LEMMA BindTargetShape == ASSUME Shape, NEW p \in Procs, BindTarget(p) PROVE Shape' /\ Grows
<1>1. run[p].at \in WithReport BY DEF BindTarget, WithReport, Processing
<1>2. CASE snap[Mine(p)] = "issue" \/ ~Readable
  <2>1. "refuse" \in Steps /\ "refuse" \notin WithJournal
    BY DEF Steps, Processing, WithJournal
  <2>2. QED BY <1>1, <1>2, <2>1, GotoShape DEF BindTarget
<1>3. CASE ~(snap[Mine(p)] = "issue" \/ ~Readable)
  <2>1. PICK e \in Reports : e = Mine(p) /\ event[e] # "none" BY <1>1, MineFacts
  <2>2. PICK v : v = IF Owned(Mine(p)) THEN record[target[Mine(p)]] ELSE snap[Mine(p)] OBVIOUS
  <2>3. v \in Writers /\ Bound(e, v)
    BY <1>3, <2>1, <2>2 DEF Owned, Bound, Shape, TypeOK, Writers
  <2>4. run' = [run EXCEPT ![p].at = "write", ![p].expected = v]
    BY <1>3, <2>2 DEF BindTarget
  <2>5. run \in [Procs -> Runs] /\ "write" \in Steps BY RunFacts DEF Shape, Steps, Processing
  <2>6. /\ run' \in [Procs -> Runs] /\ run'[p].at = "write" /\ run'[p].expected = v
        /\ run'[p].todo = run[p].todo /\ run'[p].report = run[p].report
        /\ \A q \in Procs \ {p} : run'[q] = run[q]
    BY <2>3, <2>4, <2>5 DEF Runs
  <2>7. UNCHANGED <<event, order, snap>> BY DEF BindTarget, OnlyRun, files
  <2>8. Bound(e, v)' BY <2>3, <2>7 DEF Bound, Earlier
  <2>9. run'[p].report = e /\ run'[p].at \notin WithJournal BY <2>1, <2>6 DEF Mine, WithJournal
  <2>10. \A f \in run[p].todo : event[f] # "none" BY DEF Shape, Knows
  <2>11. Bound(run[p].report, run[p].expected)' BY <2>6, <2>8, <2>9 DEF Bound, Earlier
  <2>12. Knows(p)' BY <2>1, <2>6, <2>7, <2>9, <2>10, <2>11 DEF Knows
  <2>13. QED BY <2>6, <2>12, OnlyRunShape DEF BindTarget
<1>4. QED BY <1>2, <1>3

(* Steps that write the state of one report that was captured. *)
LEMMA EventShape ==
    ASSUME Shape, NEW p \in Procs, NEW e \in Reports,
           NEW st \in {"processing", "recovery_required"} \cup Terminal,
           event' = [event EXCEPT ![e] = st],
           UNCHANGED <<store, record, writer, edited, order, seen, snap, journal, receipt, lease,
                       crashes, landed>>,
           run' \in [Procs -> Runs], \A q \in Procs \ {p} : run'[q] = run[q],
           run'[p].at \in {"next", "bind", "refuse"}, run'[p].todo \subseteq run[p].todo,
           run'[p].at # "next" => run'[p].report = e
    PROVE  Shape' /\ Grows
<1>1. st # "none" /\ st \in {"none", "recovery_required"} \cup AutoStates \cup Terminal
  BY DEF AutoStates, Terminal
<1>2. event \in [Reports -> {"none", "recovery_required"} \cup AutoStates \cup Terminal]
  BY DEF Shape, TypeOK
<1>3. event' \in [Reports -> {"none", "recovery_required"} \cup AutoStates \cup Terminal]
  BY <1>1, <1>2
<1>4. \A f \in Reports : event[f] # "none" => event'[f] # "none" BY <1>1, <1>2
<1>5. event'[e] # "none" BY <1>1, <1>2
<1>6. Grows BY <1>4 DEF Grows, Earlier
<1>7. TypeOK' BY <1>3 DEF Shape, TypeOK, Runs, Steps
<1>8. run[p].todo \subseteq Reports /\ \A f \in run[p].todo : event[f] # "none"
  BY RunFacts DEF Shape, Knows
<1>9. Knows(p)' BY <1>4, <1>5, <1>8 DEF Knows, WithReport, WithJournal
<1>10. QED BY <1>6, <1>7, <1>9, AllKnow DEF Shape

LEMMA NextEventShape == ASSUME Shape, NEW p \in Procs, NextEvent(p) PROVE Shape' /\ Grows
<1>1. PICK e \in run[p].todo :
        /\ run' = [run EXCEPT ![p].at = "bind", ![p].report = e,
                              ![p].todo = @ \ {e}, ![p].wrote = FALSE]
        /\ event' = [event EXCEPT ![e] = "processing"]
  BY DEF NextEvent
<1>2. run \in [Procs -> Runs] /\ e \in Reports BY <1>1, RunFacts DEF Shape
<1>3. PICK rest \in SUBSET Reports : rest = run[p].todo \ {e} BY RunFacts DEF Shape
<1>4. run' = [run EXCEPT ![p].at = "bind", ![p].report = e, ![p].todo = rest,
                         ![p].wrote = FALSE]
  BY <1>1, <1>3
<1>5. "bind" \in Steps BY DEF Steps, Processing
<1>6. /\ run' \in [Procs -> Runs] /\ run'[p].at = "bind" /\ run'[p].report = e
      /\ run'[p].todo = rest /\ \A q \in Procs \ {p} : run'[q] = run[q]
  BY <1>2, <1>3, <1>4, <1>5 DEF Runs
<1>7. UNCHANGED <<store, record, writer, edited, order, seen, snap, journal, receipt, lease,
                  crashes, landed>>
  BY DEF NextEvent
<1>8. rest \subseteq run[p].todo BY <1>3
<1>9. QED BY <1>1, <1>2, <1>6, <1>7, <1>8, EventShape

LEMMA CloseEventShape == ASSUME Shape, NEW p \in Procs, CloseEvent(p) PROVE Shape' /\ Grows
<1>1. run[p].at \in WithReport /\ run[p].at = "close" BY DEF CloseEvent, WithReport, Processing
<1>2. PICK e \in Reports : e = Mine(p) BY <1>1, MineFacts
<1>3. receipt[e] # "none" BY <1>1, <1>2 DEF Shape, Knows, Mine
<1>4. receipt[e] \in Terminal BY <1>3, KeptTypes DEF Shape
<1>5. event' = [event EXCEPT ![e] = receipt[e]] BY <1>2 DEF CloseEvent
<1>6. PICK st \in Terminal : st = receipt[e] BY <1>4
<1>7. "next" \in Steps BY DEF Steps, Processing
<1>8. /\ run' \in [Procs -> Runs] /\ run'[p].at = "next" /\ run'[p].todo = run[p].todo
      /\ \A q \in Procs \ {p} : run'[q] = run[q]
  BY <1>7, GotoFacts DEF CloseEvent, Shape
<1>9. UNCHANGED <<store, record, writer, edited, order, seen, snap, journal, receipt, lease,
                  crashes, landed>>
  BY DEF CloseEvent
<1>10. event' = [event EXCEPT ![e] = st] BY <1>5, <1>6
<1>11. QED BY <1>8, <1>9, <1>10, EventShape

LEMMA FailedShape == ASSUME Shape, NEW p \in Procs, Failed(p) PROVE Shape' /\ Grows
<1>1. run[p].at \in WithReport BY DEF Failed, WithReport, Processing
<1>2. CASE Pending
  <2>1. PICK e \in Reports : e = Mine(p) BY <1>1, MineFacts
  <2>2. "next" \in Steps BY DEF Steps, Processing
  <2>3. /\ run' \in [Procs -> Runs] /\ run'[p].at = "next" /\ run'[p].todo = run[p].todo
        /\ \A q \in Procs \ {p} : run'[q] = run[q]
    BY <1>2, <2>2, GotoFacts DEF Failed, Shape
  <2>4. event' = [event EXCEPT ![e] = "recovery_required"] BY <1>2, <2>1 DEF Failed
  <2>5. UNCHANGED <<store, record, writer, edited, order, seen, snap, journal, receipt, lease,
                    crashes, landed>>
    BY DEF Failed
  <2>6. QED BY <2>3, <2>4, <2>5, EventShape
<1>3. CASE ~Pending
  <2>1. OnlyRun BY <1>3 DEF Failed, OnlyRun, files
  <2>2. "refuse" \in Steps /\ "refuse" \notin WithJournal
    BY DEF Steps, Processing, WithJournal
  <2>3. QED BY <1>1, <1>3, <2>1, <2>2, GotoShape DEF Failed
<1>4. QED BY <1>2, <1>3

LEMMA DieShape == ASSUME Shape, NEW p \in Procs, Die(p) PROVE Shape' /\ Grows
<1>1. UNCHANGED <<store, record, writer, edited, order, seen, event, snap, journal, receipt, lease,
                  landed>>
  BY DEF Die, files
<1>2. crashes' \in 0 .. MaxCrashes BY MissType DEF Die, Shape
<1>3. run' \in [Procs -> Runs] /\ Knows(p)' /\ \A q \in Procs \ {p} : run'[q] = run[q]
  BY LeaveFacts DEF Die, Shape
<1>4. Grows BY <1>1, GrowsWhenKept
<1>5. TypeOK' BY <1>1, <1>2, <1>3 DEF Shape, TypeOK, Runs, Steps
<1>6. QED BY <1>3, <1>4, <1>5, AllKnow DEF Shape

-----------------------------------------------------------------------------
(* Launching a worker: the lease and the token. *)

LeaseStates == [token : Tokens \cup {Nil}, pid : Procs \cup {Nil}, stale : BOOLEAN]
Readings == [Reports -> SUBSET (Writers \cup {"issue"})]

LEMMA NewToken ==
    ASSUME TypeOK
    PROVE  /\ (CHOOSE k \in FreeTokens : TRUE) \in Tokens
           /\ (CHOOSE k \in FreeTokens : TRUE) \in FreeTokens
<1> DEFINE use == [x \in Procs \cup {Nil} |-> IF x \in Procs THEN run[x].token ELSE lease.token]
<1>1. run \in [Procs -> Runs] /\ lease.token \in Tokens \cup {Nil}
  BY RunFacts DEF TypeOK, Runs
<1>2. use \in [Procs \cup {Nil} -> Tokens \cup {Nil}] BY <1>1 DEF Runs
<1>3. PICK k \in Tokens : \A x \in Procs \cup {Nil} : use[x] # k BY <1>2, ConstantsAssumption
<1>4. \A p \in Procs : run[p].token # k BY <1>3
<1>5. lease.token # k BY <1>3, ConstantsAssumption
<1>6. k \in FreeTokens BY <1>4, <1>5 DEF FreeTokens
<1>7. QED BY <1>6 DEF FreeTokens

LEMMA WorkerType ==
    ASSUME NEW k \in Tokens
    PROVE  Worker(k) \in Runs /\ Worker(k).at = "check" /\ Worker(k).todo = {}
           /\ Worker(k).token = k
<1>1. "check" \in Steps BY DEF Steps
<1>2. QED BY <1>1, IdleRun DEF Worker, Runs, Idle

LEMMA LaunchFacts ==
    ASSUME TypeOK, NEW from \in [Procs -> Runs], Launch(from)
    PROVE  \E p \in Procs, k \in Tokens :
               /\ k \in FreeTokens /\ from[p].at = "none"
               /\ lease' = [token |-> k, pid |-> p, stale |-> FALSE] /\ lease' \in LeaseStates
               /\ run' \in [Procs -> Runs] /\ run'[p] = Worker(k)
               /\ \A q \in Procs \ {p} : run'[q] = from[q]
<1> DEFINE k == CHOOSE k \in FreeTokens : TRUE
           p == CHOOSE p \in Procs : from[p].at = "none"
<1>1. k \in Tokens /\ k \in FreeTokens BY NewToken
<1>2. p \in Procs /\ from[p].at = "none" BY DEF Launch
<1>3. lease' = [token |-> k, pid |-> p, stale |-> FALSE] /\ run' = [from EXCEPT ![p] = Worker(k)]
  BY DEF Launch
<1> HIDE DEF k, p
<1>4. lease' \in LeaseStates BY <1>1, <1>2, <1>3 DEF LeaseStates
<1>5. run' \in [Procs -> Runs] /\ run'[p] = Worker(k) /\ \A q \in Procs \ {p} : run'[q] = from[q]
  BY <1>1, <1>2, <1>3, WorkerType
<1>6. QED BY <1>1, <1>2, <1>3, <1>4, <1>5

LEMMA WorkerKnows ==
    ASSUME NEW p \in Procs, NEW k \in Tokens, run'[p] = Worker(k)
    PROVE  Knows(p)'
BY WorkerType DEF Knows, WithReport, WithJournal, Processing

(* A step that leaves the reports alone, or captures one. *)
LEMMA LeaseShape ==
    ASSUME Shape, Grows, UNCHANGED <<store, record, writer, edited, journal, receipt, landed>>,
           order' \in Seq(Reports), seen' \in Readings,
           event' \in [Reports -> {"none", "recovery_required"} \cup AutoStates \cup Terminal],
           snap' \in [Reports -> Writers \cup {"issue"}],
           lease' \in LeaseStates, run' \in [Procs -> Runs], crashes' \in 0 .. MaxCrashes,
           \A q \in Procs : run'[q] = run[q] \/ Knows(q)'
    PROVE  Shape'
<1>1. TypeOK' BY DEF Shape, TypeOK, LeaseStates, Readings, Runs, Steps
<1>2. \A q \in Procs : Knows(q)' BY KnowsStays DEF Shape
<1>3. QED BY <1>1, <1>2 DEF Shape

LEMMA EarlierGrows ==
    ASSUME order \in Seq(Reports), NEW e \in Reports, order' \in {order, Append(order, e)}
    PROVE  \A f, g : Earlier(f, g) => Earlier(f, g)'
<1> SUFFICES ASSUME NEW f, NEW g, Earlier(f, g) PROVE Earlier(f, g)'
  OBVIOUS
<1>1. PICK i \in 1 .. Len(order), j \in 1 .. Len(order) :
        i < j /\ order[i] = f /\ order[j] = g
  BY DEF Earlier
<1>2. Len(order') >= Len(order) /\ order'[i] = f /\ order'[j] = g
  BY <1>1
<1>3. Len(order) \in Nat /\ Len(order') \in Nat OBVIOUS
<1>4. i \in 1 .. Len(order') /\ j \in 1 .. Len(order') BY <1>1, <1>2, <1>3
<1>5. QED BY <1>1, <1>2, <1>4 DEF Earlier

LEMMA RetainFacts ==
    ASSUME TypeOK, NEW e \in Reports, Retain(e), UNCHANGED <<journal, receipt>>
    PROVE  /\ order' \in Seq(Reports) /\ seen' \in Readings /\ Grows
           /\ event' \in [Reports -> {"none", "recovery_required"} \cup AutoStates \cup Terminal]
           /\ snap' \in [Reports -> Writers \cup {"issue"}]
           /\ \A f \in Reports \ {e} : event'[f] = event[f]
<1>1. /\ order \in Seq(Reports) /\ snap \in [Reports -> Writers \cup {"issue"}]
      /\ event \in [Reports -> {"none", "recovery_required"} \cup AutoStates \cup Terminal]
      /\ seen \in Readings
  BY DEF TypeOK, Readings
<1>2. CASE event[e] # "none"
  <2>1. UNCHANGED <<order, seen, event, snap, journal, receipt>> BY <1>2 DEF Retain
  <2>2. QED BY <1>1, <2>1, GrowsWhenKept
<1>3. CASE event[e] = "none"
  <2>1. PICK read \in seen[e] :
          /\ order' = Append(order, e) /\ event' = [event EXCEPT ![e] = "captured"]
          /\ snap' = [snap EXCEPT ![e] = read] /\ seen' = [seen EXCEPT ![e] = {}]
    BY <1>3 DEF Retain
  <2>2. order' \in Seq(Reports) BY <1>1, <2>1, AppendProperties
  <2>3. event' \in [Reports -> {"none", "recovery_required"} \cup AutoStates \cup Terminal]
    BY <1>1, <2>1 DEF AutoStates
  <2>4. read \in Writers \cup {"issue"} BY <1>1, <2>1 DEF Readings
  <2>5. snap' \in [Reports -> Writers \cup {"issue"}] BY <1>1, <2>1, <2>4
  <2>6. seen' \in Readings BY <1>1, <2>1 DEF Readings
  <2>7. \A f, g : Earlier(f, g) => Earlier(f, g)' BY <1>1, <2>1, EarlierGrows
  <2>8. \A f \in Reports : event[f] # "none" => event'[f] # "none" /\ snap'[f] = snap[f]
    BY <1>1, <1>3, <2>1
  <2>9. Grows BY <2>7, <2>8 DEF Grows
  <2>10. QED BY <1>1, <2>1, <2>2, <2>3, <2>5, <2>6, <2>9
<1>4. QED BY <1>2, <1>3

LEMMA CaptureShape == ASSUME Shape, NEW e \in Reports, Capture(e) PROVE Shape' /\ Grows
<1>1. TypeOK /\ UNCHANGED <<store, record, writer, edited, journal, receipt, crashes, landed>>
  BY DEF Shape, Capture
<1>2. /\ order' \in Seq(Reports) /\ seen' \in Readings /\ Grows
      /\ event' \in [Reports -> {"none", "recovery_required"} \cup AutoStates \cup Terminal]
      /\ snap' \in [Reports -> Writers \cup {"issue"}]
  BY <1>1, RetainFacts DEF Capture
<1>3. run \in [Procs -> Runs] /\ lease \in LeaseStates /\ crashes \in 0 .. MaxCrashes
  BY <1>1, RunFacts DEF TypeOK, LeaseStates, Runs, Steps
<1>4. lease' \in LeaseStates /\ run' \in [Procs -> Runs]
      /\ \A q \in Procs : run'[q] = run[q] \/ Knows(q)'
  <2>1. CASE Launch(run) BY <1>1, <1>3, <2>1, LaunchFacts, WorkerKnows
  <2>2. CASE UNCHANGED <<lease, run>> BY <1>3, <2>2
  <2>3. QED BY <2>1, <2>2 DEF Capture
<1>5. QED BY <1>1, <1>2, <1>3, <1>4, LeaseShape

LEMMA CaptureCutShortShape == ASSUME Shape, NEW e \in Reports, CaptureCutShort(e) PROVE Shape' /\ Grows
<1>1. TypeOK /\ UNCHANGED <<store, record, writer, edited, journal, receipt, landed>>
  BY DEF Shape, CaptureCutShort
<1>2. /\ order' \in Seq(Reports) /\ seen' \in Readings /\ Grows
      /\ event' \in [Reports -> {"none", "recovery_required"} \cup AutoStates \cup Terminal]
      /\ snap' \in [Reports -> Writers \cup {"issue"}]
  BY <1>1, RetainFacts DEF CaptureCutShort
<1>3. run \in [Procs -> Runs] /\ lease \in LeaseStates /\ NoLease \in LeaseStates
  BY <1>1, RunFacts DEF TypeOK, LeaseStates, Runs, Steps, NoLease
<1>4. crashes' \in 0 .. MaxCrashes BY <1>1, MissType DEF CaptureCutShort
<1>5. lease' \in LeaseStates /\ run' \in [Procs -> Runs]
      /\ \A q \in Procs : run'[q] = run[q] \/ Knows(q)'
  <2>1. CASE UNCHANGED <<lease, run>> BY <1>3, <2>1
  <2>2. CASE lease' = NoLease /\ run' = run BY <1>3, <2>2
  <2>3. CASE LET k == CHOOSE k \in FreeTokens : TRUE
             IN  /\ lease' = [token |-> k, pid |-> Nil, stale |-> FALSE]
                 /\ \/ run' = run
                    \/ \E p \in Procs : /\ run[p].at = "none"
                                        /\ run' = [run EXCEPT ![p] = Worker(k)]
    <3>1. PICK k \in Tokens : k = CHOOSE x \in FreeTokens : TRUE BY <1>1, NewToken
    <3>2. lease' = [token |-> k, pid |-> Nil, stale |-> FALSE] BY <2>3, <3>1
    <3>3. lease' \in LeaseStates BY <3>2 DEF LeaseStates
    <3>4. CASE run' = run BY <1>3, <3>3, <3>4
    <3>5. CASE run' # run
      <4>1. PICK p \in Procs : run' = [run EXCEPT ![p] = Worker(k)] BY <2>3, <3>1, <3>5
      <4>2. run' \in [Procs -> Runs] /\ run'[p] = Worker(k)
            /\ \A q \in Procs \ {p} : run'[q] = run[q]
        BY <1>3, <4>1, WorkerType
      <4>3. QED BY <3>3, <4>2, WorkerKnows
    <3>6. QED BY <3>4, <3>5
  <2>4. QED BY <2>1, <2>2, <2>3 DEF CaptureCutShort
<1>6. QED BY <1>1, <1>2, <1>3, <1>4, <1>5, LeaseShape

LEMMA ReadTargetShape == ASSUME Shape, NEW e \in Reports, ReadTarget(e) PROVE Shape' /\ Grows
<1>1. UNCHANGED <<store, record, writer, edited, order, event, snap, journal, receipt, lease, run,
                  crashes, landed>>
  BY DEF ReadTarget, files
<1>2. PICK read : read = IF Readable THEN record[target[e]] ELSE "issue" OBVIOUS
<1>3. seen \in Readings /\ record \in Images /\ target[e] \in Targets
  BY ConstantsAssumption DEF Shape, TypeOK, Readings
<1>4. read \in Writers \cup {"issue"} BY <1>2, <1>3 DEF Images
<1>5. seen' = [seen EXCEPT ![e] = @ \cup {read}] BY <1>2 DEF ReadTarget
<1>6. seen' \in Readings BY <1>3, <1>4, <1>5 DEF Readings
<1>7. Grows BY <1>1, GrowsWhenKept
<1>8. run' \in [Procs -> Runs] BY <1>1, RunType DEF Shape
<1>9. QED BY <1>1, <1>6, <1>7, <1>8, LeaseShape DEF Shape, TypeOK, LeaseStates

LEMMA LeaseAgesShape == ASSUME Shape, LeaseAges PROVE Shape' /\ Grows
<1>1. UNCHANGED <<store, record, writer, edited, order, seen, event, snap, journal, receipt, run,
                  crashes, landed>>
  BY DEF LeaseAges, files
<1>2. Grows BY <1>1, GrowsWhenKept
<1>3. lease' \in LeaseStates BY DEF LeaseAges, Shape, TypeOK, LeaseStates
<1>4. run \in [Procs -> Runs] BY DEF Shape, TypeOK, Runs, Steps
<1>5. QED BY <1>1, <1>2, <1>3, <1>4, LeaseShape DEF Shape, TypeOK, Readings

(* The end of a pass. *)
LEMMA PassShape ==
    ASSUME Shape, NEW p \in Procs,
           UNCHANGED <<store, record, writer, edited, order, seen, files, crashes, landed>>,
           lease' \in LeaseStates, run' \in [Procs -> Runs],
           \A q \in Procs : run'[q] = run[q] \/ Knows(q)'
    PROVE  Shape' /\ Grows
<1>1. UNCHANGED <<store, record, writer, edited, order, seen, event, snap, journal, receipt, crashes,
                  landed>>
  BY DEF files
<1>2. Grows BY <1>1, GrowsWhenKept
<1>3. QED BY <1>1, <1>2, LeaseShape DEF Shape, TypeOK, Readings

LEMMA EndPassShape == ASSUME Shape, NEW p \in Procs, EndPass(p) PROVE Shape' /\ Grows
<1>1. run \in [Procs -> Runs] /\ lease \in LeaseStates /\ NoLease \in LeaseStates
  BY RunFacts DEF Shape, TypeOK, LeaseStates, NoLease
<1>2. UNCHANGED <<store, record, writer, edited, order, seen, event, snap, journal, receipt, crashes,
                  landed>>
  BY DEF EndPass, files
<1>3. Grows BY <1>2, GrowsWhenKept
<1>4. lease' \in LeaseStates BY <1>1 DEF EndPass
<1>5. Knows(p) /\ run[p].todo \subseteq Reports BY RunFacts DEF Shape
<1>6. CASE Leave(p) BY <1>4, <1>6, LeaveFacts, PassShape DEF EndPass, Shape
<1>7. CASE Goto(p, "handover")
  <2>1. "handover" \in Steps /\ "handover" \notin WithReport /\ "handover" \notin WithJournal
    BY DEF Steps, WithReport, WithJournal, Processing
  <2>2. Knows(p)' BY <1>3, <1>7, <2>1, GotoKnows
  <2>3. QED BY <1>4, <1>7, <2>1, <2>2, GotoFacts, PassShape DEF EndPass, Shape
<1>8. CASE run' = [run EXCEPT ![p].at = "check", ![p].passes = @ + 1] /\ run[p].passes + 1 < MaxPasses
  <2>1. run[p].passes \in 0 .. MaxPasses - 1 BY <1>1 DEF Runs
  <2>2. PICK n : n = run[p].passes + 1 OBVIOUS
  <2>3. n \in 0 .. MaxPasses - 1 BY <1>8, <2>1, <2>2, ConstantsAssumption
  <2>4. run' = [run EXCEPT ![p].at = "check", ![p].passes = n] BY <1>8, <2>2
  <2>5. "check" \in Steps BY DEF Steps
  <2>6. /\ run' \in [Procs -> Runs] /\ run'[p].at = "check" /\ run'[p].todo = run[p].todo
        /\ \A q \in Procs \ {p} : run'[q] = run[q]
    BY <1>1, <2>3, <2>4, <2>5 DEF Runs
  <2>7. Knows(p)' BY <1>2, <1>5, <2>6 DEF Knows, WithReport, WithJournal, Processing
  <2>8. QED BY <1>4, <2>6, <2>7, PassShape DEF EndPass
<1>9. QED BY <1>6, <1>7, <1>8 DEF EndPass

LEMMA HandOverShape == ASSUME Shape, NEW p \in Procs, HandOver(p) PROVE Shape' /\ Grows
<1>1. run \in [Procs -> Runs] /\ lease \in LeaseStates /\ NoLease \in LeaseStates
  BY RunFacts DEF Shape, TypeOK, LeaseStates, NoLease
<1>2. CASE Leave(p) /\ lease' = IF Holds(p) THEN NoLease ELSE lease
  BY <1>1, <1>2, LeaveFacts, PassShape DEF HandOver, Shape
<1>3. CASE Launch([run EXCEPT ![p] = Idle])
  <2>1. PICK from \in [Procs -> Runs] : from = [run EXCEPT ![p] = Idle] BY <1>1, IdleRun
  <2>2. from[p] = Idle /\ \A q \in Procs \ {p} : from[q] = run[q] BY <1>1, <2>1
  <2>3. PICK o \in Procs, k \in Tokens :
          /\ lease' \in LeaseStates
          /\ run' \in [Procs -> Runs] /\ run'[o] = Worker(k)
          /\ \A q \in Procs \ {o} : run'[q] = from[q]
    BY <1>3, <2>1, LaunchFacts DEF Shape
  <2>4. Knows(o)' BY <2>3, WorkerKnows
  <2>5. p # o => Knows(p)' BY <2>2, <2>3, IdleRun DEF Knows, WithReport, WithJournal, Processing
  <2>6. QED BY <2>2, <2>3, <2>4, <2>5, PassShape DEF HandOver
<1>4. QED BY <1>2, <1>3 DEF HandOver

LEMMA ChangedType ==
    ASSUME TypeOK, NEW m \in Edits, NEW t \in Targets
    PROVE  m \in Writers /\ Changed(m, t) \in Images
BY DEF TypeOK, Images, Writers, Changed

(* Steps of the environment that write the record. *)
LEMMA RecordShape ==
    ASSUME Shape, UNCHANGED <<store, order, seen, files, lease, run, crashes>>,
           record' \in Images, writer' \in WriterStates, edited' \subseteq Edits,
           landed' \subseteq Reports
    PROVE  Shape' /\ Grows
<1>1. UNCHANGED <<store, order, seen, event, snap, journal, receipt, lease, run, crashes>> BY DEF files
<1>2. Grows BY <1>1, GrowsWhenKept
<1>3. TypeOK' BY <1>1 DEF Shape, TypeOK, WriterStates
<1>4. QED BY <1>1, <1>2, <1>3, KnowsStays DEF Shape

LEMMA EditShape ==
    ASSUME Shape, NEW m \in Edits, NEW t \in Targets, Edit(m, t) \/ EditCutShort(m, t)
    PROVE  Shape' /\ Grows
<1>1. /\ m \in Writers /\ Changed(m, t) \in Images /\ record \in Images
      /\ writer \in WriterStates /\ edited \subseteq Edits /\ landed \subseteq Reports
  BY ChangedType, KeptTypes DEF Shape, TypeOK
<1>2. record' \in Images /\ edited' \subseteq Edits /\ landed' \subseteq Reports
  BY <1>1 DEF Edit, EditCutShort
<1>3. writer' \in WriterStates BY <1>1 DEF Edit, EditCutShort, WriterStates
<1>4. QED BY <1>2, <1>3, RecordShape DEF Edit, EditCutShort

LEMMA RecoverAllShape == ASSUME Shape, Complete \/ RollBack PROVE Shape' /\ Grows
<1>1. writer \in WriterStates /\ NoWriter \in WriterStates /\ edited \subseteq Edits
      /\ landed \subseteq Reports
  BY KeptTypes DEF Shape, TypeOK
<1>2. record' \in Images /\ landed' \subseteq Reports /\ writer' \in WriterStates
  BY <1>1 DEF Complete, RollBack, WriterStates
<1>3. edited' \subseteq Edits BY <1>1 DEF Complete, RollBack
<1>4. QED BY <1>2, <1>3, RecordShape DEF Complete, RollBack

LEMMA ShapeInit == Init => Shape
<1> SUFFICES ASSUME Init PROVE Shape
  OBVIOUS
<1>1. Idle \in Runs /\ Untouched \in Images BY IdleRun DEF Untouched, Images, Writers
<1>2. run = [p \in Procs |-> Idle] /\ run \in [Procs -> Runs] BY <1>1 DEF Init
<1>3. /\ store \in {"ordinary", "history"} /\ record \in Images /\ edited \subseteq Edits
      /\ order \in Seq(Reports) /\ crashes \in 0 .. MaxCrashes /\ landed \subseteq Reports
  BY <1>1, ConstantsAssumption DEF Init
<1>4. writer \in WriterStates BY <1>1 DEF Init, NoWriter, WriterStates, Writers
<1>5. event \in [Reports -> {"none", "recovery_required"} \cup AutoStates \cup Terminal]
      /\ seen \in Readings
  BY DEF Init, Readings
<1>6. snap \in [Reports -> Writers \cup {"issue"}] BY DEF Init, Writers
<1>7. journal \in [Reports -> JournalStates] BY <1>1 DEF Init, NoJournal, JournalStates
<1>8. receipt \in [Reports -> {"none"} \cup Terminal] BY DEF Init
<1>9. lease \in LeaseStates BY DEF Init, NoLease, LeaseStates
<1>10. TypeOK
  BY <1>2, <1>3, <1>4, <1>5, <1>6, <1>7, <1>8, <1>9
  DEF TypeOK, Readings, Runs, Steps, LeaseStates, JournalStates, WriterStates
<1>11. \A p \in Procs : Knows(p)
  BY <1>2, IdleRun DEF Knows, WithReport, WithJournal, Processing
<1>12. QED BY <1>10, <1>11 DEF Shape

LEMMA ShapeStep == ASSUME Shape, [Next]_vars PROVE Shape' /\ Grows
<1>1. ASSUME NEW e \in Reports, ReadTarget(e) \/ Capture(e) \/ CaptureCutShort(e)
      PROVE  Shape' /\ Grows
  BY <1>1, ReadTargetShape, CaptureShape, CaptureCutShortShape
<1>2. ASSUME NEW p \in Procs, Process(p) PROVE Shape' /\ Grows
  BY <1>2, CheckLeaseShape, ListEventsShape, NextEventShape, NoMoreEventsShape, EndPassShape,
     HandOverShape, BindTargetShape, RefuseShape, CloseEventShape, AnsweredShape, RetainedShape,
     RefuseUpdateShape, UpdateShape, UpdateBlockedShape, FailedShape, RecoverShape,
     RedoReportShape, RedoOtherShape, ResumeShape, ResumeDoneShape, ResumeBlockedShape,
     ResumeStaleShape, SettleShape
  DEF Process
<1>3. ASSUME NEW p \in Procs, Fault(p) PROVE Shape' /\ Grows
  BY <1>3, UpdateCutShortShape, UpdatePreparedOnlyShape, ResumeCutShortShape, SettleFailsShape,
     DieShape
  DEF Fault
<1>4. CASE UNCHANGED vars
  <2>1. UNCHANGED <<store, record, writer, edited, order, seen, files, lease, run, crashes, landed>>
    BY <1>4 DEF vars
  <2>2. QED BY <2>1, RecordShape, KeptTypes DEF Shape, TypeOK
<1>5. QED
  BY <1>1, <1>2, <1>3, <1>4, LeaseAgesShape, EditShape, RecoverAllShape DEF Next

(* Where a process may be, and what it has read, in every reachable state. *)
THEOREM ShapeAlways == Spec => []Shape
<1>1. Shape /\ [Next]_vars => Shape' BY ShapeStep
<1>2. QED BY <1>1, ShapeInit, PTL DEF Spec

(* TypeOK: the types of the queue, the journals and the record's writer. *)
THEOREM ReportTypes == Spec => []TypeOK
<1>1. Shape => TypeOK BY DEF Shape
<1>2. QED BY <1>1, ShapeAlways, PTL

-----------------------------------------------------------------------------
(* What the record, the writer journal and the journals tell of each other. *)

(* What no step does, given what they tell: with a history a mutation is not
   taken back, and TargetBound and NeverReapplied. *)
Steady ==
    /\ store = "history" => landed \subseteq landed'
    /\ \A e \in landed' \ landed :
          LET t == target[e] IN
          /\ \A u \in Targets \ {t} : record'[u] = record[u]
          /\ record[t] = snap[e] \/ (record[t] \in Reports /\ Earlier(record[t], e))
    /\ \A e \in landed :
          /\ record[target[e]] # e
          /\ Pending => record' # writer.before
          => record'[target[e]] # e

LEMMA SteadyWhenKept == ASSUME UNCHANGED <<record, landed>> PROVE Steady
BY DEF Steady

LEMMA WrittenStays ==
    ASSUME NEW image, Written(image), landed \subseteq landed', edited \subseteq edited'
    PROVE  Written(image)'
BY DEF Written

LEMMA JournaledStays ==
    ASSUME Grows, NEW e \in Reports, Journaled(e), NEW b, b = journal[e].before,
           journal'[e].before = b, journal'[e].after = journal[e].after,
           journal'[e].phase # "none", store' = store, Written(b)',
           \A u \in Targets : b[u] \in Reports /\ writer'.by = b[u] => store = "history"
    PROVE  Journaled(e)'
<1>1. PICK v : v = b[target[e]] OBVIOUS
<1>2. Bound(e, v)' BY <1>1, BoundStays DEF Journaled
<1>3. Bound(e, journal[e].before[target[e]])' BY <1>1, <1>2 DEF Bound, Earlier
<1>4. Written(journal[e].before)' BY DEF Written
<1>5. event'[e] # "none" BY DEF Journaled, Grows
<1>6. QED BY <1>3, <1>4, <1>5 DEF Journaled

LEMMA PhaseMatters ==
    ASSUME NEW j, j.phase # "none" PROVE j # NoJournal
BY DEF NoJournal

(* A step that keeps the record, the writer journal and what the journals of
   the reports say. *)
LEMMA ToldWhenKept ==
    ASSUME Shape, Told, Grows, UNCHANGED <<store, record, writer, edited, landed>>,
           \A e \in Reports : \/ journal[e] = NoJournal /\ journal'[e] = NoJournal
                              \/ /\ journal[e] # NoJournal /\ journal'[e].phase # "none"
                                 /\ journal'[e].before = journal[e].before
                                 /\ journal'[e].after = journal[e].after
    PROVE  Told' /\ Steady
<1>1. \A e \in Reports : journal[e] # NoJournal <=> journal'[e] # NoJournal
  BY PhaseMatters
<1>2. Written(record)' BY DEF Told, Written
<1>3. ASSUME NEW e \in Reports, journal'[e] # NoJournal PROVE Journaled(e)'
  <2>1. journal[e] # NoJournal /\ Journaled(e) BY <1>1, <1>3 DEF Told, Journals
  <2>2. PICK b : b = journal[e].before OBVIOUS
  <2>3. Written(b) BY <2>1, <2>2 DEF Journaled
  <2>4. Written(b)' BY <2>3, WrittenStays
  <2>5. \A u \in Targets : b[u] \in Reports /\ writer'.by = b[u] => store = "history"
    BY <2>1, <2>2 DEF Journaled
  <2>6. QED BY <1>3, <2>1, <2>2, <2>4, <2>5, JournaledStays
<1>4. WriterJournal'
  <2>1. SUFFICES ASSUME Pending PROVE WriterJournal'
    BY DEF WriterJournal, Pending
  <2>2. record \in {writer.before, writer.after} /\ Written(writer.before)
    BY <2>1 DEF Told, WriterJournal
  <2>3. Written(writer.before)' BY <2>2 DEF Written
  <2>4. CASE OfReport(writer.by)
    <3>1. OfReport(writer.by)' BY <1>1, <2>4 DEF OfReport
    <3>2. QED BY <2>2, <2>3, <3>1 DEF WriterJournal
  <2>5. CASE OfEdit(writer.by)
    <3>1. OfEdit(writer.by)' BY <1>1, <2>5 DEF OfEdit
    <3>2. QED BY <2>2, <2>3, <3>1 DEF WriterJournal
  <2>6. QED BY <2>1, <2>4, <2>5 DEF Told, WriterJournal
<1>5. NoReturn'
  <2>1. \A e \in landed : e \in Reports BY DEF Shape, TypeOK
  <2>2. QED BY <1>1, <2>1 DEF Told, NoReturn, Pending
<1>6. QED BY <1>2, <1>3, <1>4, <1>5, SteadyWhenKept DEF Told, Journals

(* What is not in an image that was written. *)
LEMMA NotWritten ==
    ASSUME NEW image, Written(image), NEW e \in Reports, NEW t \in Targets, image[t] = e
    PROVE  e \in landed /\ target[e] = t
BY DEF Written

(* A report is published, or its publication is cut short: its journal, the
   writer journal and the record. *)
LEMMA PublicationTold ==
    ASSUME Shape, Told, Grows, NEW e \in Reports, e \notin landed, ~Pending,
           event[e] # "none", Bound(e, record[target[e]]),
           NEW a, a = [record EXCEPT ![target[e]] = e],
           journal'[e].before = record, journal'[e].after = a, journal'[e].phase # "none",
           \A f \in Reports : f # e => journal'[f] = journal[f],
           UNCHANGED <<store, edited>>,
           \/ record' = record /\ landed' = landed
           \/ record' = a /\ landed' = landed \cup {e},
           writer' \in {NoWriter, [by |-> e, before |-> record, after |-> a]}
    PROVE  Told' /\ Steady
<1> DEFINE t == target[e]
<1>1. t \in Targets /\ record \in [Targets -> Writers] /\ landed \subseteq Reports
      /\ e # Nil /\ target \in [Reports -> Targets]
  BY ConstantsAssumption DEF Shape, TypeOK, Images
<1>2. PICK b \in [Targets -> Writers] : b = record BY <1>1
<1>3. b[t] # e /\ a = [b EXCEPT ![t] = e] /\ a[t] = e /\ \A u \in Targets \ {t} : a[u] = b[u]
  BY <1>1, <1>2, NotWritten DEF Told
<1>4. landed \subseteq landed' /\ landed' \subseteq landed \cup {e} /\ Written(b)
  BY <1>2 DEF Told
<1>5. Written(b)' BY <1>4, WrittenStays
<1>6. Written(record)'
  <2>1. CASE record' = record BY <1>2, <1>5, <2>1 DEF Written
  <2>2. CASE record' = a /\ landed' = landed \cup {e}
    <3>1. e \notin Edits BY ConstantsAssumption
    <3>2. \A u \in Targets : a[u] \in Reports => target[a[u]] = u /\ a[u] \in landed'
      BY <1>3, <1>5, <2>2 DEF Written
    <3>3. \A u \in Targets : a[u] \in Edits => a[u] \in edited'
      BY <1>3, <1>5, <3>1 DEF Written
    <3>4. QED BY <2>2, <3>2, <3>3 DEF Written
  <2>3. QED BY <2>1, <2>2
<1>7. writer'.by \in {Nil, e} BY DEF NoWriter
<1>8. ASSUME NEW f \in Reports, journal'[f] # NoJournal PROVE Journaled(f)'
  <2>1. CASE f = e
    <3>1. PICK v : v = b[t] OBVIOUS
    <3>2. Bound(e, v) BY <1>2, <3>1
    <3>3. Bound(e, v)' BY <3>2, BoundStays
    <3>4. Bound(e, journal[e].before[target[e]])' BY <1>2, <3>1, <3>3 DEF Bound, Earlier
    <3>5. Written(journal[e].before)' BY <1>2, <1>5 DEF Written
    <3>6. event'[e] # "none" BY DEF Grows
    <3>7. \A u \in Targets : b[u] \in Reports => writer'.by # b[u]
      BY <1>2, <1>4, <1>7, ConstantsAssumption, NotWritten
    <3>8. journal'[e].after = [journal'[e].before EXCEPT ![target[e]] = e]
          /\ journal'[e].before[target[e]] # e
      BY <1>2, <1>3
    <3>9. \A u \in Targets : journal'[e].before[u] \in Reports => writer'.by # journal'[e].before[u]
      BY <1>2, <3>7
    <3>10. QED BY <2>1, <3>4, <3>5, <3>6, <3>8, <3>9 DEF Journaled
  <2>2. CASE f # e
    <3>1. journal[f] # NoJournal /\ Journaled(f) /\ journal'[f] = journal[f]
      BY <1>8, <2>2 DEF Told, Journals
    <3>2. PICK c : c = journal[f].before OBVIOUS
    <3>3. Written(c) BY <3>1, <3>2 DEF Journaled
    <3>4. Written(c)' BY <1>4, <3>3, WrittenStays
    <3>5. \A u \in Targets : c[u] \in Reports => writer'.by # c[u]
      BY <1>7, <3>3, ConstantsAssumption, NotWritten
    <3>6. journal'[f].phase # "none" BY <3>1 DEF Journaled
    <3>7. QED BY <3>1, <3>2, <3>4, <3>5, <3>6, JournaledStays
  <2>3. QED BY <2>1, <2>2
<1>9. journal'[e] # NoJournal BY PhaseMatters
<1>10. WriterJournal'
  <2>1. CASE writer' = NoWriter BY <2>1 DEF WriterJournal, Pending
  <2>2. CASE writer' = [by |-> e, before |-> b, after |-> a]
    <3>1. writer'.by = e /\ writer'.before = b /\ writer'.after = a BY <2>2
    <3>2. record' \in {b, a} BY <1>2
    <3>3. Written(writer.before)' BY <1>5, <3>1 DEF Written
    <3>4. e \in landed' <=> record' = a BY <1>2, <1>3
    <3>5. OfReport(writer.by)' BY <1>2, <1>9, <3>1, <3>4 DEF OfReport
    <3>6. QED BY <3>1, <3>2, <3>3, <3>5 DEF WriterJournal
  <2>3. QED BY <1>2, <2>1, <2>2
<1>11. ASSUME NEW f \in landed'
       PROVE  /\ journal'[f] # NoJournal
              /\ record'[target[f]] # journal'[f].before[target[f]]
              /\ Pending' /\ writer'.by # f =>
                     writer'.before[target[f]] # journal'[f].before[target[f]]
  <2>1. CASE f = e
    <3>1. record' = a BY <2>1
    <3>2. writer' # NoWriter => writer'.by = e OBVIOUS
    <3>3. QED BY <1>2, <1>3, <1>9, <2>1, <3>1, <3>2 DEF Pending
  <2>2. CASE f # e
    <3>1. f \in landed /\ f \in Reports /\ journal'[f] = journal[f] BY <1>1, <2>2
    <3>2. journal[f] # NoJournal /\ b[target[f]] # journal[f].before[target[f]]
      BY <1>2, <3>1 DEF Told, NoReturn
    <3>3. Journaled(f) /\ target[f] \in Targets BY <1>1, <3>1, <3>2 DEF Told, Journals
    <3>4. PICK c : c = journal[f].before OBVIOUS
    <3>5. Written(c) BY <3>3, <3>4 DEF Journaled
    <3>6. c[target[f]] # e BY <3>3, <3>5, NotWritten
    <3>7. a[target[f]] # c[target[f]] BY <1>3, <3>2, <3>3, <3>4, <3>6
    <3>8. writer' # NoWriter => writer'.before = b BY <1>2
    <3>9. QED BY <1>2, <3>1, <3>2, <3>4, <3>7, <3>8 DEF Pending
  <2>3. QED BY <2>1, <2>2
<1>12. NoReturn' BY <1>11 DEF NoReturn
<1>13. Steady
  <2>1. \A f \in landed' \ landed : f = e /\ record' = a BY <1>4
  <2>2. ASSUME NEW f \in landed, record[target[f]] # f PROVE record'[target[f]] # f
    <3>1. f # e /\ target[f] \in Targets BY <1>1
    <3>2. QED BY <1>2, <1>3, <2>2, <3>1
  <2>3. QED BY <1>2, <1>3, <1>4, <2>1, <2>2 DEF Steady, Bound
<1>14. QED BY <1>6, <1>8, <1>10, <1>12, <1>13 DEF Told, Journals

(* The mutation of a pending report is completed. *)
LEMMA LandingTold ==
    ASSUME Shape, Told, Grows, Pending, NEW e \in Reports, writer.by = e,
           record' = writer.after, landed' = landed \cup {e}, writer' = NoWriter,
           UNCHANGED <<store, edited, journal>>
    PROVE  Told' /\ Steady
<1> DEFINE t == target[e]
<1>1. t \in Targets /\ landed \subseteq Reports /\ e \notin Edits /\ edited \subseteq Edits
      /\ target \in [Reports -> Targets]
  BY ConstantsAssumption DEF Shape, TypeOK
<1>2. ~OfEdit(e) BY <1>1 DEF OfEdit
<1>3. OfReport(e) /\ Written(writer.before) /\ record \in {writer.before, writer.after}
  BY <1>2 DEF Told, WriterJournal
<1>4. Journaled(e) BY <1>3 DEF Told, Journals, OfReport
<1>5. writer.before \in [Targets -> Writers] BY KeptTypes DEF Shape, WriterStates, Images
<1>6. PICK b, a : b \in [Targets -> Writers] /\ b = writer.before /\ a = writer.after BY <1>5
<1>7. /\ b[t] # e /\ a = [b EXCEPT ![t] = e] /\ a[t] = e
      /\ \A u \in Targets \ {t} : a[u] = b[u]
  BY <1>1, <1>3, <1>4, <1>6 DEF OfReport, Journaled
<1>8. /\ e \in landed <=> record = a
      /\ e \notin landed => record = b
  BY <1>3, <1>6 DEF OfReport
<1>9. landed \subseteq landed' /\ Written(b) /\ Written(b)'
  BY <1>3, <1>6, WrittenStays
<1>10. Written(record)'
  <2>1. \A u \in Targets : a[u] \in Reports => target[a[u]] = u /\ a[u] \in landed'
    BY <1>7, <1>9 DEF Written
  <2>2. \A u \in Targets : a[u] \in Edits => a[u] \in edited'
    BY <1>1, <1>7, <1>9 DEF Written
  <2>3. QED BY <1>6, <2>1, <2>2 DEF Written
<1>11. ASSUME NEW f \in Reports, journal'[f] # NoJournal PROVE Journaled(f)'
  <2>1. journal[f] # NoJournal /\ Journaled(f) /\ journal'[f] = journal[f]
    BY <1>11 DEF Told, Journals
  <2>2. PICK c : c = journal[f].before OBVIOUS
  <2>3. Written(c) BY <2>1, <2>2 DEF Journaled
  <2>4. Written(c)' BY <1>9, <2>3, WrittenStays
  <2>5. \A u \in Targets : c[u] \in Reports => writer'.by # c[u]
    BY ConstantsAssumption DEF NoWriter
  <2>6. journal'[f].phase # "none" BY <2>1 DEF Journaled
  <2>7. QED BY <2>1, <2>2, <2>4, <2>5, <2>6, JournaledStays
<1>12. WriterJournal' BY DEF WriterJournal, Pending
<1>13. ASSUME NEW f \in landed'
       PROVE  /\ journal[f] # NoJournal
              /\ a[target[f]] # journal[f].before[target[f]]
  <2>1. CASE f = e BY <1>3, <1>6, <1>7, <2>1 DEF OfReport
  <2>2. CASE f # e /\ e \in landed BY <1>8, <2>2 DEF Told, NoReturn
  <2>3. CASE f # e /\ e \notin landed
    <3>1. f \in landed /\ f \in Reports BY <1>1, <2>3
    <3>2. journal[f] # NoJournal /\ b[target[f]] # journal[f].before[target[f]]
      BY <1>6, <2>3, <3>1 DEF Told, NoReturn
    <3>3. Journaled(f) /\ target[f] \in Targets BY <1>1, <3>1, <3>2 DEF Told, Journals
    <3>4. PICK c : c = journal[f].before OBVIOUS
    <3>5. c[target[f]] # e BY <2>3, <3>3, <3>4, NotWritten DEF Journaled
    <3>6. QED BY <1>7, <3>2, <3>3, <3>4, <3>5
  <2>4. QED BY <2>1, <2>2, <2>3
<1>14. NoReturn' BY <1>6, <1>13 DEF NoReturn, Pending
<1>15. Steady
  <2>1. CASE e \in landed
    <3>1. record' = record /\ landed' = landed BY <1>6, <1>8, <2>1
    <3>2. QED BY <3>1, SteadyWhenKept
  <2>2. CASE e \notin landed
    <3>1. record = b /\ record' = a /\ landed' \ landed = {e} BY <1>6, <1>8, <2>2
    <3>2. Bound(e, b[t]) BY <1>3, <1>4, <1>6 DEF Journaled, OfReport
    <3>3. ASSUME NEW f \in landed, record[target[f]] # f PROVE record'[target[f]] # f
      <4>1. f # e /\ target[f] \in Targets BY <1>1, <2>2
      <4>2. QED BY <1>7, <3>1, <3>3, <4>1
    <3>4. QED BY <1>7, <1>9, <3>1, <3>2, <3>3 DEF Steady, Bound
  <2>3. QED BY <2>1, <2>2
<1>16. QED BY <1>10, <1>11, <1>12, <1>14, <1>15 DEF Told, Journals

(* The write of another command is completed. *)
LEMMA EditLandsTold ==
    ASSUME Shape, Told, Grows, Pending, writer.by \notin Reports,
           record' = writer.after, landed' = landed, writer' = NoWriter,
           UNCHANGED <<store, edited, journal>>
    PROVE  Told' /\ Steady
<1>1. /\ landed \subseteq Reports /\ edited \subseteq Edits /\ target \in [Reports -> Targets]
      /\ Reports \cap Edits = {} /\ writer.before \in [Targets -> Writers]
  BY ConstantsAssumption, KeptTypes DEF Shape, TypeOK, WriterStates, Images
<1>2. PICK m : m = writer.by OBVIOUS
<1>3. OfEdit(m) /\ Written(writer.before) /\ record \in {writer.before, writer.after}
  BY <1>2 DEF Told, WriterJournal, OfReport
<1>4. PICK t \in Targets : writer.after = [writer.before EXCEPT ![t] = m] BY <1>3 DEF OfEdit
<1>5. PICK b, a : b \in [Targets -> Writers] /\ b = writer.before /\ a = writer.after BY <1>1
<1>6. m \in edited /\ m \in Edits /\ m \notin Reports BY <1>1, <1>3 DEF OfEdit
<1>7. a[t] = m /\ \A u \in Targets \ {t} : a[u] = b[u] BY <1>4, <1>5
<1>8. Written(record)'
  <2>1. \A u \in Targets : a[u] \in Reports => target[a[u]] = u /\ a[u] \in landed'
    BY <1>3, <1>5, <1>6, <1>7 DEF Written
  <2>2. \A u \in Targets : a[u] \in Edits => a[u] \in edited'
    BY <1>3, <1>5, <1>6, <1>7 DEF Written
  <2>3. QED BY <1>5, <2>1, <2>2 DEF Written
<1>9. ASSUME NEW f \in Reports, journal'[f] # NoJournal PROVE Journaled(f)'
  <2>1. journal[f] # NoJournal /\ Journaled(f) /\ journal'[f] = journal[f]
    BY <1>9 DEF Told, Journals
  <2>2. PICK c : c = journal[f].before OBVIOUS
  <2>3. Written(c) BY <2>1, <2>2 DEF Journaled
  <2>4. Written(c)' BY <2>3, WrittenStays
  <2>5. \A u \in Targets : c[u] \in Reports => writer'.by # c[u]
    BY ConstantsAssumption DEF NoWriter
  <2>6. journal'[f].phase # "none" BY <2>1 DEF Journaled
  <2>7. QED BY <2>1, <2>2, <2>4, <2>5, <2>6, JournaledStays
<1>10. WriterJournal' BY DEF WriterJournal, Pending
<1>11. ASSUME NEW f \in landed
       PROVE  /\ journal[f] # NoJournal
              /\ a[target[f]] # journal[f].before[target[f]]
  <2>1. CASE record = a BY <2>1 DEF Told, NoReturn
  <2>2. CASE record # a
    <3>1. f \in Reports /\ f # m /\ target[f] \in Targets BY <1>1, <1>6
    <3>2. journal[f] # NoJournal /\ b[target[f]] # journal[f].before[target[f]]
      BY <1>2, <1>5, <3>1 DEF Told, NoReturn
    <3>3. journal[f].before[target[f]] # m BY <1>3, <1>5, <2>2, <3>1, <3>2 DEF OfEdit
    <3>4. QED BY <1>7, <3>1, <3>2, <3>3
  <2>3. QED BY <2>1, <2>2
<1>12. NoReturn' BY <1>5, <1>11 DEF NoReturn, Pending
<1>13. Steady
  <2>1. CASE record = a
    <3>1. record' = record BY <1>5, <2>1
    <3>2. QED BY <3>1, SteadyWhenKept
  <2>2. CASE record # a
    <3>1. record = b /\ record' = a BY <1>3, <1>5, <2>2
    <3>2. ASSUME NEW f \in landed, record[target[f]] # f PROVE record'[target[f]] # f
      <4>1. f # m /\ target[f] \in Targets BY <1>1, <1>6
      <4>2. QED BY <1>7, <3>1, <3>2, <4>1
    <3>3. QED BY <3>2 DEF Steady
  <2>3. QED BY <2>1, <2>2
<1>14. QED BY <1>8, <1>9, <1>10, <1>12, <1>13 DEF Told, Journals

LEMMA CompleteTold == ASSUME Shape, Told, Grows, Complete PROVE Told' /\ Steady
<1>1. UNCHANGED <<store, edited, journal>> /\ writer' = NoWriter /\ record' = writer.after
      /\ landed' = landed \cup ({writer.by} \cap Reports) /\ Pending
  BY DEF Complete, files
<1>2. CASE writer.by \in Reports
  <2>1. landed' = landed \cup {writer.by} BY <1>1, <1>2
  <2>2. QED BY <1>1, <1>2, <2>1, LandingTold
<1>3. CASE writer.by \notin Reports
  <2>1. landed' = landed BY <1>1, <1>3
  <2>2. QED BY <1>1, <1>3, <2>1, EditLandsTold
<1>4. QED BY <1>2, <1>3

(* An interrupted publication is taken back. *)
LEMMA RollBackTold == ASSUME Shape, Told, Grows, RollBack PROVE Told' /\ Steady
<1>1. /\ UNCHANGED <<store, edited, journal>> /\ writer' = NoWriter /\ record' = writer.before
      /\ landed' = landed \ {writer.by} /\ Pending
      /\ store = "history" => record = writer.before
  BY DEF RollBack, files
<1>2. /\ landed \subseteq Reports /\ edited \subseteq Edits /\ target \in [Reports -> Targets]
      /\ Reports \cap Edits = {} /\ writer.before \in [Targets -> Writers]
  BY ConstantsAssumption, KeptTypes DEF Shape, TypeOK, WriterStates, Images
<1>w. PICK w : w = writer.by OBVIOUS
<1>b. PICK b \in [Targets -> Writers] : b = writer.before BY <1>2
<1>3. w = writer.by /\ b = writer.before BY <1>w, <1>b
<1>4. Written(b) /\ (OfReport(w) \/ OfEdit(w)) BY <1>1, <1>3 DEF Told, WriterJournal
<1>5. \A u \in Targets : b[u] # w
  <2>1. CASE OfEdit(w) BY <1>3, <2>1 DEF OfEdit
  <2>2. CASE OfReport(w)
    <3>1. Journaled(w) /\ w \in Reports /\ b = journal[w].before
      BY <1>3, <2>2 DEF OfReport, Told, Journals
    <3>2. b[target[w]] # w BY <3>1 DEF Journaled
    <3>3. QED BY <1>4, <3>1, <3>2, NotWritten
  <2>3. QED BY <1>4, <2>1, <2>2
<1>6. store = "history" => w \notin landed
  <2>1. SUFFICES ASSUME store = "history" PROVE w \notin landed
    OBVIOUS
  <2>2. record = b BY <1>1, <1>3, <2>1
  <2>3. CASE OfReport(w)
    <3>1. /\ Journaled(w) /\ w \in Reports /\ target[w] \in Targets
          /\ b = journal[w].before /\ writer.after = journal[w].after
      BY <1>2, <1>3, <2>3 DEF OfReport, Told, Journals
    <3>2. writer.after = [b EXCEPT ![target[w]] = w] BY <3>1 DEF Journaled
    <3>3. writer.after # b BY <1>3, <1>5, <3>1, <3>2
    <3>4. QED BY <2>2, <2>3, <3>3 DEF OfReport
  <2>4. CASE OfEdit(w) BY <1>2, <2>4 DEF OfEdit
  <2>5. QED BY <1>4, <2>3, <2>4
<1>7. Written(b)' /\ Written(record)' BY <1>1, <1>3, <1>4, <1>5 DEF Written
<1>8. ASSUME NEW f \in Reports, journal'[f] # NoJournal PROVE Journaled(f)'
  <2>1. journal[f] # NoJournal /\ Journaled(f) /\ journal'[f] = journal[f]
    BY <1>1, <1>8 DEF Told, Journals
  <2>2. PICK c : c = journal[f].before OBVIOUS
  <2>3. Written(c) BY <2>1, <2>2 DEF Journaled
  <2>4. Written(c)'
    <3>1. CASE store = "history"
      <4>1. landed' = landed BY <1>1, <1>3, <1>6, <3>1
      <4>2. QED BY <1>1, <2>3, <4>1, WrittenStays
    <3>2. CASE store # "history"
      <4>1. \A u \in Targets : c[u] \in Reports => c[u] # w
        BY <1>3, <2>1, <2>2, <3>2 DEF Journaled
      <4>2. QED BY <1>1, <1>3, <2>3, <4>1 DEF Written
    <3>3. QED BY <3>1, <3>2
  <2>5. \A u \in Targets : c[u] \in Reports => writer'.by # c[u]
    BY <1>1, ConstantsAssumption DEF NoWriter
  <2>6. journal'[f].phase # "none" BY <2>1 DEF Journaled
  <2>7. QED BY <1>1, <2>1, <2>2, <2>4, <2>5, <2>6, JournaledStays
<1>9. WriterJournal' BY <1>1 DEF WriterJournal, Pending
<1>10. ASSUME NEW f \in landed'
       PROVE  journal[f] # NoJournal /\ b[target[f]] # journal[f].before[target[f]]
  <2>1. f \in landed /\ f # w BY <1>1, <1>3
  <2>2. QED BY <1>1, <1>3, <2>1 DEF Told, NoReturn
<1>11. NoReturn' BY <1>1, <1>3, <1>10 DEF NoReturn, Pending
<1>12. Steady
  <2>1. landed' \ landed = {} /\ (store = "history" => landed \subseteq landed')
    BY <1>1, <1>3, <1>6
  <2>2. QED BY <1>1, <2>1 DEF Steady
<1>13. QED BY <1>7, <1>8, <1>9, <1>11, <1>12 DEF Told, Journals

(* Another command writes. *)
LEMMA EditTold ==
    ASSUME Shape, Told, Grows, NEW m \in Edits, NEW t \in Targets,
           Edit(m, t) \/ EditCutShort(m, t)
    PROVE  Told' /\ Steady
<1>1. /\ landed \subseteq Reports /\ edited \subseteq Edits /\ target \in [Reports -> Targets]
      /\ Reports \cap Edits = {} /\ record \in [Targets -> Writers] /\ m # Nil
  BY ConstantsAssumption DEF Shape, TypeOK, Images
<1>2. PICK b, a : b \in [Targets -> Writers] /\ b = record /\ a = [b EXCEPT ![t] = m] BY <1>1
<1>3. /\ ~Pending /\ m \notin edited /\ edited' = edited \cup {m} /\ landed' = landed
      /\ UNCHANGED <<store, journal>> /\ record' \in {b, a}
      /\ writer' \in {NoWriter, [by |-> m, before |-> b, after |-> a]}
  BY <1>2 DEF Edit, EditCutShort, Changed, files, Pending
<1>4. a[t] = m /\ \A u \in Targets \ {t} : a[u] = b[u] BY <1>2
<1>5. Written(b) /\ Written(b)' BY <1>2, <1>3, WrittenStays DEF Told
<1>6. \A u \in Targets : b[u] # m BY <1>3, <1>5 DEF Written
<1>7. Written(a)'
  <2>1. \A u \in Targets : a[u] \in Reports => target[a[u]] = u /\ a[u] \in landed'
    BY <1>1, <1>4, <1>5 DEF Written
  <2>2. \A u \in Targets : a[u] \in Edits => a[u] \in edited' BY <1>3, <1>4, <1>5 DEF Written
  <2>3. QED BY <2>1, <2>2 DEF Written
<1>8. Written(record)' BY <1>3, <1>5, <1>7 DEF Written
<1>9. writer'.by \notin Reports BY <1>1, <1>3, ConstantsAssumption DEF NoWriter
<1>10. ASSUME NEW f \in Reports, journal[f] # NoJournal, NEW c, c = journal[f].before
       PROVE  Written(c) /\ (\A u \in Targets : c[u] # m) /\ Journaled(f)
  <2>1. Written(c) /\ Journaled(f) BY <1>10 DEF Told, Journals, Journaled
  <2>2. QED BY <1>3, <2>1 DEF Written
<1>11. ASSUME NEW f \in Reports, journal'[f] # NoJournal PROVE Journaled(f)'
  <2>1. journal[f] # NoJournal /\ journal'[f] = journal[f] BY <1>3, <1>11
  <2>2. PICK c : c = journal[f].before OBVIOUS
  <2>3. Written(c) /\ Journaled(f) BY <1>10, <2>1, <2>2
  <2>4. Written(c)' BY <1>3, <2>3, WrittenStays
  <2>5. journal'[f].phase # "none" BY <2>1, <2>3 DEF Journaled
  <2>6. \A u \in Targets : c[u] \in Reports => writer'.by # c[u] BY <1>9
  <2>7. QED BY <1>3, <2>1, <2>2, <2>3, <2>4, <2>5, <2>6, JournaledStays
<1>12. WriterJournal'
  <2>1. CASE writer' = NoWriter BY <2>1 DEF WriterJournal, Pending
  <2>2. CASE writer' = [by |-> m, before |-> b, after |-> a]
    <3>1. writer'.by = m /\ writer'.before = b /\ writer'.after = a BY <2>2
    <3>2. Written(writer.before)' BY <1>5, <3>1 DEF Written
    <3>3. \A f \in Reports : journal'[f] # NoJournal =>
              \A u \in Targets : journal'[f].before[u] # m
      BY <1>3, <1>10
    <3>4. OfEdit(writer.by)' BY <1>2, <1>3, <1>6, <3>1, <3>3 DEF OfEdit
    <3>5. QED BY <1>3, <3>1, <3>2, <3>4 DEF WriterJournal
  <2>3. QED BY <1>3, <2>1, <2>2
<1>13. ASSUME NEW f \in landed
       PROVE  /\ journal[f] # NoJournal
              /\ b[target[f]] # journal[f].before[target[f]]
              /\ a[target[f]] # journal[f].before[target[f]]
  <2>1. f \in Reports /\ target[f] \in Targets BY <1>1
  <2>2. journal[f] # NoJournal /\ b[target[f]] # journal[f].before[target[f]]
    BY <1>2 DEF Told, NoReturn
  <2>3. journal[f].before[target[f]] # m BY <1>10, <2>1, <2>2
  <2>4. QED BY <1>4, <2>1, <2>2, <2>3
<1>14. NoReturn'
  <2>1. writer' # NoWriter => writer'.before = b BY <1>3
  <2>2. QED BY <1>3, <1>13, <2>1 DEF NoReturn, Pending
<1>15. Steady
  <2>1. ASSUME NEW f \in landed, record[target[f]] # f PROVE record'[target[f]] # f
    <3>1. f # m /\ target[f] \in Targets BY <1>1
    <3>2. QED BY <1>2, <1>3, <1>4, <2>1, <3>1
  <2>2. QED BY <1>3, <2>1 DEF Steady
<1>16. QED BY <1>8, <1>11, <1>12, <1>14, <1>15 DEF Told, Journals

(* A report is prepared in a history while a writer journal is there. *)
LEMMA BlockedTold ==
    ASSUME Shape, Told, Grows, NEW e \in Reports, journal[e] = NoJournal, Pending,
           store = "history", event[e] # "none", Bound(e, record[target[e]]),
           journal'[e] = Prepared(e), \A f \in Reports : f # e => journal'[f] = journal[f],
           UNCHANGED <<store, record, writer, edited, landed>>
    PROVE  Told' /\ Steady
<1>1. target[e] \in Targets /\ landed \subseteq Reports
  BY ConstantsAssumption DEF Shape, TypeOK
<1>2. e \notin landed BY DEF Told, NoReturn
<1>3. Written(record) /\ Written(record)' /\ record[target[e]] # e
  <2>1. Written(record) BY DEF Told
  <2>2. record[target[e]] # e BY <1>1, <1>2, <2>1, NotWritten
  <2>3. QED BY <2>1, <2>2 DEF Written
<1>4. /\ journal'[e].before = record /\ journal'[e].phase # "none"
      /\ journal'[e].after = [record EXCEPT ![target[e]] = e]
  BY PreparedType DEF Shape
<1>5. journal'[e] # NoJournal BY <1>4, PhaseMatters
<1>6. Journaled(e)'
  <2>1. PICK v : v = record[target[e]] OBVIOUS
  <2>2. Bound(e, v)' BY <2>1, BoundStays
  <2>3. Bound(e, journal[e].before[target[e]])' BY <1>4, <2>1, <2>2 DEF Bound, Earlier
  <2>4. Written(journal[e].before)' BY <1>3, <1>4 DEF Written
  <2>5. event'[e] # "none" BY DEF Grows
  <2>6. QED BY <1>3, <1>4, <2>3, <2>4, <2>5 DEF Journaled
<1>7. ASSUME NEW f \in Reports, journal'[f] # NoJournal PROVE Journaled(f)'
  <2>1. CASE f = e BY <1>6, <2>1
  <2>2. CASE f # e
    <3>1. journal[f] # NoJournal /\ Journaled(f) /\ journal'[f] = journal[f]
      BY <1>7, <2>2 DEF Told, Journals
    <3>2. PICK c : c = journal[f].before OBVIOUS
    <3>3. Written(c)' BY <3>1, <3>2, WrittenStays DEF Journaled
    <3>4. journal'[f].phase # "none" BY <3>1 DEF Journaled
    <3>5. QED BY <3>1, <3>2, <3>3, <3>4, JournaledStays
  <2>3. QED BY <2>1, <2>2
<1>8. WriterJournal'
  <2>1. record \in {writer.before, writer.after} /\ Written(writer.before)
    BY DEF Told, WriterJournal
  <2>2. Written(writer.before)' BY <2>1 DEF Written
  <2>3. CASE OfReport(writer.by)
    <3>1. writer.by # e /\ writer.by \in Reports BY <2>3 DEF OfReport
    <3>2. OfReport(writer.by)' BY <2>3, <3>1 DEF OfReport
    <3>3. QED BY <2>1, <2>2, <3>2 DEF WriterJournal
  <2>4. CASE OfEdit(writer.by)
    <3>1. ASSUME record # writer.after, NEW f \in Reports, journal'[f] # NoJournal,
                 NEW u \in Targets
          PROVE  journal'[f].before[u] # writer.by
      BY <1>4, <2>1, <2>4, <3>1 DEF OfEdit
    <3>2. OfEdit(writer.by)' BY <2>4, <3>1 DEF OfEdit
    <3>3. QED BY <2>1, <2>2, <3>2 DEF WriterJournal
  <2>5. QED BY <2>3, <2>4 DEF Told, WriterJournal
<1>9. NoReturn'
  <2>1. \A f \in landed : f \in Reports /\ f # e BY <1>1, <1>2
  <2>2. QED BY <2>1 DEF Told, NoReturn, Pending
<1>10. QED BY <1>3, <1>7, <1>8, <1>9, SteadyWhenKept DEF Told, Journals

(* The report that a process has, and its mutation. *)
LEMMA FreshFacts ==
    ASSUME Shape, Told, NEW p \in Procs, Fresh(p)
    PROVE  /\ Mine(p) \in Reports /\ event[Mine(p)] # "none" /\ journal[Mine(p)] = NoJournal
           /\ Mine(p) \notin landed
           /\ ~Unacceptable(p) => Bound(Mine(p), record[target[Mine(p)]])
<1>1. run[p].at \in WithReport BY DEF Fresh, WithReport, Processing
<1>2. Mine(p) \in Reports /\ event[Mine(p)] # "none" BY <1>1, MineFacts
<1>3. journal[Mine(p)] = NoJournal BY DEF Fresh
<1>4. Mine(p) \notin landed BY <1>3 DEF Told, NoReturn
<1>5. Bound(Mine(p), run[p].expected) BY DEF Shape, Knows, Fresh, Mine
<1>6. QED BY <1>2, <1>3, <1>4, <1>5 DEF Unacceptable

LEMMA FoundFacts ==
    ASSUME Shape, Told, NEW p \in Procs, run[p].at \in WithJournal
    PROVE  /\ Mine(p) \in Reports /\ event[Mine(p)] # "none"
           /\ Found(p) = journal[Mine(p)] /\ journal[Mine(p)] # NoJournal /\ Journaled(Mine(p))
           /\ record = Found(p).before =>
                  /\ Mine(p) \notin landed /\ Bound(Mine(p), record[target[Mine(p)]])
                  /\ Found(p).after = [record EXCEPT ![target[Mine(p)]] = Mine(p)]
           /\ record = Found(p).after => Mine(p) \in landed
<1>1. run[p].at \in WithReport /\ Mine(p) \in Reports /\ Found(p) # NoJournal BY FoundType
<1>2. event[Mine(p)] # "none" /\ target[Mine(p)] \in Targets BY <1>1, MineFacts
<1>3. Found(p) = journal[Mine(p)] /\ Journaled(Mine(p)) BY <1>1 DEF Found, Told, Journals
<1>4. record = Found(p).before => Mine(p) \notin landed BY <1>3 DEF Told, NoReturn
<1>5. ASSUME record = Found(p).after PROVE Mine(p) \in landed
  <2>1. journal[Mine(p)].before \in Images BY <1>1, KeptTypes DEF Shape, JournalStates
  <2>2. record[target[Mine(p)]] = Mine(p) BY <1>2, <1>3, <1>5, <2>1 DEF Journaled, Images
  <2>3. QED BY <1>1, <1>2, <2>2, NotWritten DEF Told
<1>6. record = Found(p).before => /\ Bound(Mine(p), record[target[Mine(p)]])
                                  /\ Found(p).after = [record EXCEPT ![target[Mine(p)]] = Mine(p)]
  BY <1>3 DEF Journaled
<1>7. QED BY <1>1, <1>2, <1>3, <1>4, <1>5, <1>6

LEMMA CutShortTold ==
    ASSUME Shape, Told, Grows, NEW p \in Procs, run[p].at \in WithReport, NEW m \in JournalStates,
           m # NoJournal, m.phase # "none", CutShort(p, m), ~Pending, Mine(p) \notin landed,
           m.before = record, m.after = [record EXCEPT ![target[Mine(p)]] = Mine(p)],
           Bound(Mine(p), record[target[Mine(p)]]), UNCHANGED <<store, edited>>
    PROVE  Told' /\ Steady
<1>1. Mine(p) \in Reports /\ event[Mine(p)] # "none" BY MineFacts
<1>2. PICK e \in Reports : e = Mine(p) BY <1>1
<1>3. PICK stage \in 1 .. 4 :
        /\ writer' = IF stage < 4 THEN [by |-> Mine(p), before |-> m.before, after |-> m.after]
                     ELSE writer
        /\ IF stage > 1 THEN Publishes(Mine(p), m) ELSE UNCHANGED <<record, landed>>
        /\ journal' = [journal EXCEPT ![Mine(p)] =
                           IF stage > 2 THEN [m EXCEPT !.phase = "committed"] ELSE m]
  BY DEF CutShort
<1>4. writer' \in {NoWriter, [by |-> e, before |-> record, after |-> m.after]}
  BY <1>2, <1>3 DEF Pending
<1>5. \/ record' = record /\ landed' = landed
      \/ record' = m.after /\ landed' = landed \cup {e}
  BY <1>2, <1>3 DEF Publishes
<1>6. PICK j : j = IF stage > 2 THEN [m EXCEPT !.phase = "committed"] ELSE m OBVIOUS
<1>7. j.before = record /\ j.after = m.after /\ j.phase # "none" BY <1>6 DEF JournalStates
<1>8. journal' = [journal EXCEPT ![e] = j] BY <1>2, <1>3, <1>6
<1>9. journal \in [Reports -> JournalStates] BY KeptTypes DEF Shape
<1>10. journal'[e] = j /\ \A f \in Reports : f # e => journal'[f] = journal[f]
  BY <1>8, <1>9
<1>11. PICK a : a = m.after OBVIOUS
<1>12. QED
  BY <1>1, <1>2, <1>4, <1>5, <1>7, <1>10, <1>11, PublicationTold

LEMMA UpdateTold == ASSUME Shape, Told, Grows, NEW p \in Procs, Update(p) PROVE Told' /\ Steady
<1>1. /\ Mine(p) \in Reports /\ event[Mine(p)] # "none" /\ journal[Mine(p)] = NoJournal
      /\ Mine(p) \notin landed /\ Bound(Mine(p), record[target[Mine(p)]]) /\ ~Pending
  BY FreshFacts DEF Update
<1>2. PICK e \in Reports : e = Mine(p) BY <1>1
<1>3. PICK m \in JournalStates :
        /\ m = Prepared(e) /\ m.before = record
        /\ m.after = [record EXCEPT ![target[e]] = e]
  BY <1>2, PreparedType DEF Shape
<1>4. PICK a : a = m.after OBVIOUS
<1>5. PICK j : j = [m EXCEPT !.phase = "committed"] OBVIOUS
<1>6. j.before = record /\ j.after = a /\ j.phase # "none" BY <1>3, <1>4, <1>5 DEF JournalStates
<1>7. journal' = [journal EXCEPT ![e] = j] BY <1>2, <1>3, <1>5 DEF Update
<1>8. journal \in [Reports -> JournalStates] BY KeptTypes DEF Shape
<1>9. journal'[e] = j /\ \A f \in Reports : f # e => journal'[f] = journal[f]
  BY <1>7, <1>8
<1>10. record' = a /\ landed' = landed \cup {e} BY <1>2, <1>3, <1>4 DEF Update, Publishes
<1>11. writer' = NoWriter /\ UNCHANGED <<store, edited>> BY <1>1 DEF Update, Pending
<1>12. QED BY <1>1, <1>2, <1>3, <1>4, <1>6, <1>9, <1>10, <1>11, PublicationTold

LEMMA UpdateCutShortTold ==
    ASSUME Shape, Told, Grows, NEW p \in Procs, UpdateCutShort(p) PROVE Told' /\ Steady
<1>1. /\ Mine(p) \in Reports /\ Mine(p) \notin landed
      /\ Bound(Mine(p), record[target[Mine(p)]]) /\ ~Pending
  BY FreshFacts DEF UpdateCutShort
<1>2. run[p].at \in WithReport BY DEF UpdateCutShort, Fresh, WithReport, Processing
<1>3. PICK m \in JournalStates :
        /\ m = Prepared(Mine(p)) /\ m # NoJournal /\ m.phase # "none" /\ m.before = record
        /\ m.after = [record EXCEPT ![target[Mine(p)]] = Mine(p)]
  BY <1>1, PreparedType DEF Shape
<1>4. CutShort(p, m) /\ UNCHANGED <<store, edited>> BY <1>3 DEF UpdateCutShort
<1>5. QED BY <1>1, <1>2, <1>3, <1>4, CutShortTold

LEMMA PreparedOnlyTold ==
    ASSUME Shape, Told, Grows, NEW p \in Procs, UpdatePreparedOnly(p) PROVE Told' /\ Steady
<1>1. /\ Mine(p) \in Reports /\ event[Mine(p)] # "none"
      /\ Mine(p) \notin landed /\ Bound(Mine(p), record[target[Mine(p)]]) /\ ~Pending
  BY FreshFacts DEF UpdatePreparedOnly
<1>2. PICK e \in Reports : e = Mine(p) BY <1>1
<1>3. PICK m \in JournalStates :
        /\ m = Prepared(e) /\ m.phase # "none" /\ m.before = record
        /\ m.after = [record EXCEPT ![target[e]] = e]
  BY <1>2, PreparedType DEF Shape
<1>4. PICK a : a = m.after OBVIOUS
<1>5. journal' = [journal EXCEPT ![e] = m] BY <1>2, <1>3 DEF UpdatePreparedOnly
<1>6. journal \in [Reports -> JournalStates] BY KeptTypes DEF Shape
<1>7. journal'[e] = m /\ \A f \in Reports : f # e => journal'[f] = journal[f]
  BY <1>5, <1>6
<1>8. record' = record /\ landed' = landed /\ writer' = NoWriter /\ UNCHANGED <<store, edited>>
  BY <1>1 DEF UpdatePreparedOnly, Pending
<1>9. QED BY <1>1, <1>2, <1>3, <1>4, <1>7, <1>8, PublicationTold

LEMMA UpdateBlockedTold ==
    ASSUME Shape, Told, Grows, NEW p \in Procs, UpdateBlocked(p) PROVE Told' /\ Steady
<1>1. /\ Mine(p) \in Reports /\ event[Mine(p)] # "none" /\ journal[Mine(p)] = NoJournal
      /\ Bound(Mine(p), record[target[Mine(p)]]) /\ Pending
  BY FreshFacts DEF UpdateBlocked
<1>2. store = "history" BY <1>1 DEF UpdateBlocked, Unacceptable, Readable
<1>3. journal' = [journal EXCEPT ![Mine(p)] = Prepared(Mine(p))] BY DEF UpdateBlocked
<1>4. journal \in [Reports -> JournalStates] BY KeptTypes DEF Shape
<1>5. PICK e \in Reports : e = Mine(p) BY <1>1
<1>6. journal'[e] = Prepared(e) /\ \A f \in Reports : f # e => journal'[f] = journal[f]
  BY <1>3, <1>4, <1>5
<1>7. UNCHANGED <<store, record, writer, edited, landed>> BY DEF UpdateBlocked
<1>8. QED BY <1>1, <1>2, <1>5, <1>6, <1>7, BlockedTold

(* The journal of a report becomes committed. *)
LEMMA CommittedFacts ==
    ASSUME Shape, NEW e \in Reports, journal[e] # NoJournal, journal[e].phase # "none",
           journal' = [journal EXCEPT ![e].phase = "committed"]
    PROVE  /\ journal'[e].before = journal[e].before /\ journal'[e].after = journal[e].after
           /\ journal'[e].phase # "none"
           /\ \A f \in Reports : f # e => journal'[f] = journal[f]
<1>1. journal \in [Reports -> JournalStates] BY KeptTypes DEF Shape
<1>2. PICK m \in JournalStates : m = journal[e] BY <1>1
<1>3. PICK j : j = [m EXCEPT !.phase = "committed"] OBVIOUS
<1>4. j.before = m.before /\ j.after = m.after /\ j.phase # "none" BY <1>3 DEF JournalStates
<1>5. journal' = [journal EXCEPT ![e] = j] BY <1>1, <1>2, <1>3
<1>6. QED BY <1>1, <1>2, <1>4, <1>5

LEMMA ResumeTold == ASSUME Shape, Told, Grows, NEW p \in Procs, Resume(p) PROVE Told' /\ Steady
<1>1. run[p].at \in WithJournal /\ ~Pending /\ record = Found(p).before
  BY DEF Resume, Resuming, WithJournal
<1>2. PICK e \in Reports : e = Mine(p) BY <1>1, FoundFacts
<1>3. /\ event[e] # "none" /\ e \notin landed /\ Bound(e, record[target[e]])
      /\ journal[e] # NoJournal /\ Journaled(e)
      /\ Found(p) = journal[e] /\ Found(p).after = [record EXCEPT ![target[e]] = e]
  BY <1>1, <1>2, FoundFacts
<1>4. journal' = [journal EXCEPT ![e].phase = "committed"] BY <1>2 DEF Resume
<1>5. journal[e].phase # "none" BY <1>3 DEF Journaled
<1>6. PICK a : a = Found(p).after OBVIOUS
<1>7. /\ journal'[e].before = record /\ journal'[e].after = a /\ journal'[e].phase # "none"
      /\ \A f \in Reports : f # e => journal'[f] = journal[f]
  BY <1>1, <1>3, <1>4, <1>5, <1>6, CommittedFacts
<1>8. record' = a /\ landed' = landed \cup {e} BY <1>2, <1>6 DEF Resume, Publishes
<1>9. writer' = NoWriter /\ UNCHANGED <<store, edited>> BY <1>1 DEF Resume, Pending
<1>10. QED BY <1>1, <1>3, <1>6, <1>7, <1>8, <1>9, PublicationTold

LEMMA ResumeCutShortTold ==
    ASSUME Shape, Told, Grows, NEW p \in Procs, ResumeCutShort(p) PROVE Told' /\ Steady
<1>1. run[p].at \in WithJournal /\ ~Pending /\ record = Found(p).before
  BY DEF ResumeCutShort, Resuming, WithJournal
<1>2. PICK m \in JournalStates : m = Found(p) /\ m # NoJournal BY <1>1, FoundType
<1>3. run[p].at \in WithReport BY <1>1, FoundType
<1>4. /\ Mine(p) \notin landed /\ Bound(Mine(p), record[target[Mine(p)]])
      /\ m.phase # "none" /\ m.before = record
      /\ m.after = [record EXCEPT ![target[Mine(p)]] = Mine(p)]
  BY <1>1, <1>2, FoundFacts DEF Journaled
<1>5. CutShort(p, m) /\ UNCHANGED <<store, edited>> BY <1>2 DEF ResumeCutShort
<1>6. QED BY <1>1, <1>2, <1>3, <1>4, <1>5, CutShortTold

LEMMA RedoReportTold ==
    ASSUME Shape, Told, Grows, NEW p \in Procs, RedoReport(p) PROVE Told' /\ Steady
<1>1. run[p].at \in WithJournal BY DEF RedoReport, WithJournal
<1>2. PICK e \in Reports : e = Mine(p) BY <1>1, FoundFacts
<1>3. writer.by = e /\ Found(p) = journal[e] BY <1>1, <1>2, FoundFacts DEF RedoReport
<1>4. Pending BY <1>2, <1>3, ConstantsAssumption DEF Pending, NoWriter
<1>5. ~OfEdit(e) BY ConstantsAssumption DEF OfEdit, Shape, TypeOK
<1>6. OfReport(e) BY <1>3, <1>4, <1>5 DEF Told, WriterJournal
<1>7. record' = writer.after /\ landed' = landed \cup {e} /\ writer' = NoWriter
  BY <1>2, <1>3, <1>6 DEF RedoReport, Publishes, OfReport
<1>8. UNCHANGED <<store, edited, journal>> BY DEF RedoReport, files
<1>9. QED BY <1>3, <1>4, <1>7, <1>8, LandingTold

LEMMA SettleTold == ASSUME Shape, Told, Grows, NEW p \in Procs, Settle(p) PROVE Told' /\ Steady
<1>1. run[p].at \in WithJournal BY DEF Settle, WithJournal
<1>2. PICK e \in Reports : e = Mine(p) BY <1>1, FoundFacts
<1>3. journal[e] # NoJournal /\ journal[e].phase # "none" BY <1>1, <1>2, FoundFacts DEF Journaled
<1>4. journal' = [journal EXCEPT ![e].phase = "committed"] BY <1>2 DEF Settle
<1>5. \A f \in Reports : journal[f] # NoJournal => journal[f].phase # "none"
  BY DEF Told, Journals, Journaled
<1>6. \A f \in Reports : \/ journal[f] = NoJournal /\ journal'[f] = NoJournal
                         \/ /\ journal[f] # NoJournal /\ journal'[f].phase # "none"
                            /\ journal'[f].before = journal[f].before
                            /\ journal'[f].after = journal[f].after
  BY <1>3, <1>4, <1>5, CommittedFacts
<1>7. UNCHANGED <<store, record, writer, edited, landed>> BY DEF Settle
<1>8. QED BY <1>6, <1>7, ToldWhenKept

(* Every other step keeps what they tell. *)
LEMMA OtherTold ==
    ASSUME Shape, Told, Grows, UNCHANGED <<store, record, writer, edited, landed, journal>>
    PROVE  Told' /\ Steady
<1>1. \A f \in Reports : journal[f] # NoJournal => journal[f].phase # "none"
  BY DEF Told, Journals, Journaled
<1>2. QED BY <1>1, ToldWhenKept

LEMMA ToldInit == Init => Told
<1> SUFFICES ASSUME Init PROVE Told
  OBVIOUS
<1>1. Written(record) BY ConstantsAssumption DEF Init, Written, Untouched
<1>2. QED BY <1>1 DEF Init, Told, Journals, WriterJournal, Pending, NoReturn

LEMMA ToldStep == ASSUME Shape, Told, [Next]_vars PROVE Told' /\ Steady
<1>1. Grows BY ShapeStep
<1>2. ASSUME NEW e \in Reports, ReadTarget(e) \/ Capture(e) \/ CaptureCutShort(e)
      PROVE  Told' /\ Steady
  BY <1>1, <1>2, OtherTold DEF ReadTarget, Capture, CaptureCutShort, files
<1>3. CASE LeaseAges BY <1>1, <1>3, OtherTold DEF LeaseAges, files
<1>4. ASSUME NEW p \in Procs, Process(p) PROVE Told' /\ Steady
  <2>1. CASE \/ CheckLease(p) \/ ListEvents(p) \/ NoMoreEvents(p) \/ BindTarget(p)
             \/ Answered(p) \/ Retained(p) \/ RecoverReport(p) \/ RedoOther(p) \/ ResumeDone(p)
             \/ ResumeBlocked(p)
    <3>1. OnlyRun
      BY <2>1 DEF CheckLease, ListEvents, NoMoreEvents, BindTarget, Answered, Retained,
         RecoverReport, RedoOther, ResumeDone, ResumeBlocked
    <3>2. QED BY <1>1, <3>1, OtherTold DEF OnlyRun, files
  <2>2. CASE Refuse(p) \/ RefuseUpdate(p) \/ ResumeStale(p)
    <3>1. OnlyReceipt BY <2>2 DEF Refuse, RefuseUpdate, ResumeStale
    <3>2. QED BY <1>1, <3>1, OtherTold DEF OnlyReceipt
  <2>3. CASE NextEvent(p) \/ CloseEvent(p) \/ Failed(p)
    BY <1>1, <2>3, OtherTold DEF NextEvent, CloseEvent, Failed
  <2>4. CASE EndPass(p) \/ HandOver(p)
    BY <1>1, <2>4, OtherTold DEF EndPass, HandOver, files
  <2>5. QED
    BY <1>1, <1>4, <2>1, <2>2, <2>3, <2>4, UpdateTold, UpdateBlockedTold, RedoReportTold,
       ResumeTold, SettleTold
    DEF Process
<1>5. ASSUME NEW p \in Procs, Fault(p) PROVE Told' /\ Steady
  <2>1. CASE SettleFails(p) \/ Die(p) BY <1>1, <2>1, OtherTold DEF SettleFails, Die, files
  <2>2. QED
    BY <1>1, <1>5, <2>1, UpdateCutShortTold, PreparedOnlyTold, ResumeCutShortTold DEF Fault
<1>6. CASE UNCHANGED vars BY <1>1, <1>6, OtherTold DEF vars, files
<1>7. QED
  BY <1>1, <1>2, <1>3, <1>4, <1>5, <1>6, EditTold, CompleteTold, RollBackTold DEF Next

-----------------------------------------------------------------------------
(* What is answered.  A history has the mutation of a report that is answered
   "applied", or is about to be. *)

(* No process comes to the receipt of a report that was found published. *)
NobodySettles ==
    \A q \in Procs : run'[q].at = "settle" =>
        run[q].at = "settle" /\ run'[q].report = run[q].report

LEMMA GotoSettles ==
    ASSUME TypeOK, NEW p \in Procs, NEW step, step # "settle", Goto(p, step)
    PROVE  NobodySettles
<1>1. run \in [Procs -> Runs] BY RunFacts
<1>2. QED BY <1>1 DEF NobodySettles, Goto, Runs

LEMMA LeaveSettles == ASSUME TypeOK, NEW p \in Procs, Leave(p) PROVE NobodySettles
<1>1. \A q \in Procs \ {p} : run'[q] = run[q] BY LeaveFacts
<1>2. run'[p].at = "none" BY LeaveFacts, IdleRun
<1>3. QED BY <1>1, <1>2 DEF NobodySettles

LEMMA LaunchSettles ==
    ASSUME TypeOK, NEW from \in [Procs -> Runs], Launch(from),
           \A q \in Procs : from[q].at = "settle" =>
               run[q].at = "settle" /\ from[q].report = run[q].report
    PROVE  NobodySettles
<1>1. PICK p \in Procs, k \in Tokens :
        run'[p] = Worker(k) /\ \A q \in Procs \ {p} : run'[q] = from[q]
  BY LaunchFacts
<1>2. run'[p].at = "check" BY <1>1, WorkerType
<1>3. QED BY <1>1, <1>2 DEF NobodySettles

(* Steps that leave the receipts alone. *)
LEMMA AnswersKept ==
    ASSUME Settled, AppliedIsWritten, Steady, NobodySettles, store' = store, receipt' = receipt
    PROVE  Settled' /\ AppliedIsWritten'
BY DEF Settled, AppliedIsWritten, Steady, NobodySettles

(* Steps that answer. *)
LEMMA RefusalAnswers ==
    ASSUME Shape, Settled, AppliedIsWritten, Steady, NEW p \in Procs, store' = store,
           run[p].at \in WithReport, receipt' = [receipt EXCEPT ![Mine(p)] = "needs_primary"],
           Goto(p, "close")
    PROVE  Settled' /\ AppliedIsWritten'
<1>1. NobodySettles BY GotoSettles DEF Shape
<1>2. receipt \in [Reports -> {"none"} \cup Terminal] BY KeptTypes DEF Shape
<1>3. \A e \in Reports : receipt'[e] = "applied" => receipt[e] = "applied" BY <1>2
<1>4. QED BY <1>1, <1>3 DEF Settled, AppliedIsWritten, Steady, NobodySettles

LEMMA ApprovalAnswers ==
    ASSUME Shape, Settled, AppliedIsWritten, Steady, NEW p \in Procs, store' = store,
           receipt' = [receipt EXCEPT ![Mine(p)] = "applied"],
           store = "history" => Mine(p) \in landed', NobodySettles
    PROVE  Settled' /\ AppliedIsWritten'
<1>1. receipt \in [Reports -> {"none"} \cup Terminal] BY KeptTypes DEF Shape
<1>2. \A e \in Reports : receipt'[e] = "applied" => receipt[e] = "applied" \/ e = Mine(p)
  BY <1>1
<1>3. QED BY <1>2 DEF Settled, AppliedIsWritten, Steady, NobodySettles

(* Steps that come to the receipt of a report found published. *)
LEMMA SettlingAnswers ==
    ASSUME Shape, Settled, AppliedIsWritten, Steady, NEW p \in Procs, store' = store,
           receipt' = receipt, \A q \in Procs \ {p} : run'[q] = run[q],
           run'[p].report = Mine(p), store = "history" => Mine(p) \in landed'
    PROVE  Settled' /\ AppliedIsWritten'
BY DEF Settled, AppliedIsWritten, Steady

LEMMA WroteFacts ==
    ASSUME Shape, NEW p \in Procs, NEW step, NEW w,
           run' = [run EXCEPT ![p].at = step, ![p].wrote = w]
    PROVE  /\ \A q \in Procs \ {p} : run'[q] = run[q]
           /\ run'[p].report = run[p].report /\ run'[p].at = step
<1>1. run \in [Procs -> Runs] BY RunFacts DEF Shape
<1>2. QED BY <1>1 DEF Runs

LEMMA RetainedAnswers ==
    ASSUME Shape, Lineage, Steady, NEW p \in Procs,
           RecoverReport(p) \/ RedoReport(p) \/ RedoOther(p) \/ Resume(p) \/ ResumeDone(p)
           \/ ResumeBlocked(p) \/ ResumeStale(p) \/ Settle(p)
    PROVE  Settled' /\ AppliedIsWritten'
<1>1. Settled /\ AppliedIsWritten /\ Told /\ TypeOK BY DEF Lineage, Shape
<1>2. CASE RecoverReport(p)
  <2>1. UNCHANGED <<store, receipt>> BY <1>2 DEF RecoverReport, OnlyRun, files
  <2>2. PICK step : step = CASE store = "history" \/ Pending -> "redo"
                             [] ~Pending /\ Found(p).phase = "prepared" -> "resume"
                             [] OTHER -> "settle"
    OBVIOUS
  <2>3. Goto(p, step) BY <1>2, <2>2 DEF RecoverReport
  <2>4. CASE step = "settle"
    <3>1. store # "history" BY <2>2, <2>4
    <3>2. QED BY <2>1, <3>1 DEF Settled, AppliedIsWritten
  <2>5. CASE step # "settle" BY <1>1, <2>1, <2>3, <2>5, GotoSettles, AnswersKept
  <2>6. QED BY <2>4, <2>5
<1>3. CASE RedoReport(p) \/ Resume(p)
  <2>1. UNCHANGED <<store, receipt>> /\ Mine(p) \in landed'
    BY <1>3 DEF RedoReport, Resume, files, Publishes
  <2>2. \E w : run' = [run EXCEPT ![p].at = "settle", ![p].wrote = w]
    BY <1>3 DEF RedoReport, Resume
  <2>3. /\ \A q \in Procs \ {p} : run'[q] = run[q]
        /\ run'[p].report = run[p].report
    BY <2>2, WroteFacts
  <2>4. QED BY <1>1, <2>1, <2>3, SettlingAnswers DEF Mine
<1>4. CASE RedoOther(p) \/ ResumeBlocked(p)
  <2>1. UNCHANGED <<store, receipt>> /\ Goto(p, "failed")
    BY <1>4 DEF RedoOther, ResumeBlocked, OnlyRun, files
  <2>2. QED BY <1>1, <2>1, GotoSettles, AnswersKept
<1>5. CASE ResumeDone(p)
  <2>1. UNCHANGED <<store, receipt, landed>> BY <1>5 DEF ResumeDone, OnlyRun, files
  <2>2. run[p].at \in WithJournal /\ record = Found(p).after
    BY <1>5 DEF ResumeDone, Resuming, WithJournal
  <2>3. Mine(p) \in landed BY <1>1, <2>2, FoundFacts
  <2>4. PICK step : step = IF store = "history" THEN "settle" ELSE "failed" OBVIOUS
  <2>5. Goto(p, step) /\ step \in Steps BY <1>5, <2>4 DEF ResumeDone, Steps, Processing
  <2>6. \A q \in Procs \ {p} : run'[q] = run[q] BY <1>1, <2>5, GotoFacts
  <2>7. run'[p].report = Mine(p) BY <1>1, <2>5, GotoFacts DEF Mine
  <2>8. QED BY <1>1, <2>1, <2>3, <2>6, <2>7, SettlingAnswers
<1>6. CASE ResumeStale(p)
  <2>1. store' = store /\ run[p].at \in WithReport
    BY <1>6 DEF ResumeStale, OnlyReceipt, Resuming, WithReport, Processing
  <2>2. CASE Pending
    <3>1. receipt' = receipt /\ Goto(p, "failed") BY <1>6, <2>2 DEF ResumeStale
    <3>2. QED BY <1>1, <2>1, <3>1, GotoSettles, AnswersKept
  <2>3. CASE ~Pending BY <1>1, <1>6, <2>1, <2>3, RefusalAnswers DEF ResumeStale
  <2>4. QED BY <2>2, <2>3
<1>7. CASE Settle(p)
  <2>1. /\ store' = store /\ landed' = landed /\ Goto(p, "close")
        /\ receipt' = [receipt EXCEPT ![Mine(p)] = "applied"]
    BY <1>7 DEF Settle
  <2>2. store = "history" => Mine(p) \in landed BY <1>1, <1>7 DEF Settle, Settled, Mine
  <2>3. NobodySettles BY <1>1, <2>1, GotoSettles
  <2>4. QED BY <1>1, <2>1, <2>2, <2>3, ApprovalAnswers
<1>8. QED BY <1>2, <1>3, <1>4, <1>5, <1>6, <1>7

LEMMA ProcessAnswers ==
    ASSUME Shape, Lineage, Steady, NEW p \in Procs, Process(p)
    PROVE  Settled' /\ AppliedIsWritten'
<1>1. Settled /\ AppliedIsWritten /\ Told /\ TypeOK BY DEF Lineage, Shape
<1>2. run \in [Procs -> Runs] BY <1>1, RunFacts
<1>3. CASE CheckLease(p) \/ Answered(p) \/ Retained(p)
  <2>1. UNCHANGED <<store, receipt>> BY <1>3 DEF CheckLease, Answered, Retained, OnlyRun, files
  <2>2. NobodySettles
    BY <1>1, <1>3, GotoSettles, LeaveSettles DEF CheckLease, Answered, Retained
  <2>3. QED BY <1>1, <2>1, <2>2, AnswersKept
<1>4. CASE ListEvents(p) \/ NextEvent(p) \/ NoMoreEvents(p) \/ BindTarget(p)
  <2>1. UNCHANGED <<store, receipt>>
    BY <1>4 DEF ListEvents, NextEvent, NoMoreEvents, BindTarget, OnlyRun, files
  <2>2. CASE ListEvents(p)
    <3>1. PICK queue : run' = [run EXCEPT ![p].at = "next", ![p].todo = queue]
      BY <2>2 DEF ListEvents
    <3>2. run'[p].at = "next" /\ \A q \in Procs \ {p} : run'[q] = run[q] BY <1>2, <3>1 DEF Runs
    <3>3. NobodySettles BY <3>2 DEF NobodySettles
    <3>4. QED BY <1>1, <2>1, <3>3, AnswersKept
  <2>3. CASE NextEvent(p)
    <3>1. PICK e : run' = [run EXCEPT ![p].at = "bind", ![p].report = e,
                                      ![p].todo = @ \ {e}, ![p].wrote = FALSE]
      BY <2>3 DEF NextEvent
    <3>2. PICK rest : rest = run[p].todo \ {e} OBVIOUS
    <3>3. run' = [run EXCEPT ![p].at = "bind", ![p].report = e, ![p].todo = rest,
                             ![p].wrote = FALSE]
      BY <3>1, <3>2
    <3>4. run'[p].at = "bind" /\ \A q \in Procs \ {p} : run'[q] = run[q] BY <1>2, <3>3 DEF Runs
    <3>5. NobodySettles BY <3>4 DEF NobodySettles
    <3>6. QED BY <1>1, <2>1, <3>5, AnswersKept
  <2>4. CASE NoMoreEvents(p)
    <3>1. run' = [run EXCEPT ![p].at = "end", ![p].report = Nil, ![p].expected = Nil,
                             ![p].wrote = FALSE]
      BY <2>4 DEF NoMoreEvents
    <3>2. run'[p].at = "end" /\ \A q \in Procs \ {p} : run'[q] = run[q] BY <1>2, <3>1 DEF Runs
    <3>3. NobodySettles BY <3>2 DEF NobodySettles
    <3>4. QED BY <1>1, <2>1, <3>3, AnswersKept
  <2>5. CASE BindTarget(p)
    <3>1. CASE Goto(p, "refuse") BY <1>1, <2>1, <3>1, GotoSettles, AnswersKept
    <3>2. CASE \E v : run' = [run EXCEPT ![p].at = "write", ![p].expected = v]
      <4>1. PICK v : run' = [run EXCEPT ![p].at = "write", ![p].expected = v] BY <3>2
      <4>2. run'[p].at = "write" /\ \A q \in Procs \ {p} : run'[q] = run[q] BY <1>2, <4>1 DEF Runs
      <4>3. NobodySettles BY <4>2 DEF NobodySettles
      <4>4. QED BY <1>1, <2>1, <4>3, AnswersKept
    <3>3. QED BY <2>5, <3>1, <3>2 DEF BindTarget
  <2>6. QED BY <1>4, <2>2, <2>3, <2>4, <2>5
<1>5. CASE EndPass(p)
  <2>1. UNCHANGED <<store, receipt>> BY <1>5 DEF EndPass, files
  <2>2. CASE Leave(p) BY <1>1, <2>1, <2>2, LeaveSettles, AnswersKept
  <2>3. CASE Goto(p, "handover") BY <1>1, <2>1, <2>3, GotoSettles, AnswersKept
  <2>4. CASE run' = [run EXCEPT ![p].at = "check", ![p].passes = @ + 1]
    <3>1. PICK n : n = run[p].passes + 1 OBVIOUS
    <3>2. run' = [run EXCEPT ![p].at = "check", ![p].passes = n] BY <2>4, <3>1
    <3>3. run'[p].at = "check" /\ \A q \in Procs \ {p} : run'[q] = run[q] BY <1>2, <3>2 DEF Runs
    <3>4. NobodySettles BY <3>3 DEF NobodySettles
    <3>5. QED BY <1>1, <2>1, <3>4, AnswersKept
  <2>5. QED BY <1>5, <2>2, <2>3, <2>4 DEF EndPass
<1>6. CASE HandOver(p)
  <2>1. UNCHANGED <<store, receipt>> BY <1>6 DEF HandOver, files
  <2>2. CASE Leave(p) BY <1>1, <2>1, <2>2, LeaveSettles, AnswersKept
  <2>3. CASE Launch([run EXCEPT ![p] = Idle])
    <3>1. PICK from \in [Procs -> Runs] : from = [run EXCEPT ![p] = Idle] BY <1>2, IdleRun
    <3>2. \A q \in Procs : from[q].at = "settle" =>
              run[q].at = "settle" /\ from[q].report = run[q].report
      BY <1>2, <3>1, IdleRun
    <3>3. NobodySettles BY <1>1, <2>3, <3>1, <3>2, LaunchSettles
    <3>4. QED BY <1>1, <2>1, <3>3, AnswersKept
  <2>4. QED BY <1>6, <2>2, <2>3 DEF HandOver
<1>7. CASE Refuse(p) \/ RefuseUpdate(p)
  <2>1. run[p].at \in WithReport /\ store' = store
    BY <1>7 DEF Refuse, RefuseUpdate, Fresh, WithReport, Processing, OnlyReceipt
  <2>2. QED BY <1>1, <1>7, <2>1, RefusalAnswers DEF Refuse, RefuseUpdate
<1>8. CASE CloseEvent(p) \/ Failed(p) \/ UpdateBlocked(p)
  <2>1. UNCHANGED <<store, receipt>> BY <1>8 DEF CloseEvent, Failed, UpdateBlocked
  <2>2. NobodySettles BY <1>1, <1>8, GotoSettles DEF CloseEvent, Failed, UpdateBlocked
  <2>3. QED BY <1>1, <2>1, <2>2, AnswersKept
<1>9. CASE Update(p)
  <2>1. /\ store' = store /\ Mine(p) \in landed'
        /\ receipt' = [receipt EXCEPT ![Mine(p)] = "applied"]
    BY <1>9 DEF Update, Publishes
  <2>2. run' = [run EXCEPT ![p].at = "close", ![p].wrote = TRUE] BY <1>9 DEF Update
  <2>3. NobodySettles BY <2>2, WroteFacts DEF NobodySettles
  <2>4. QED BY <1>1, <2>1, <2>3, ApprovalAnswers
<1>10. QED
  BY <1>3, <1>4, <1>5, <1>6, <1>7, <1>8, <1>9, RetainedAnswers DEF Process

LEMMA FaultAnswers ==
    ASSUME Shape, Lineage, Steady, NEW p \in Procs, Fault(p)
    PROVE  Settled' /\ AppliedIsWritten'
<1>1. Settled /\ AppliedIsWritten /\ TypeOK BY DEF Lineage, Shape
<1>2. UNCHANGED <<store, receipt>>
  BY DEF Fault, UpdateCutShort, UpdatePreparedOnly, ResumeCutShort, SettleFails, Die, files
<1>3. CASE Leave(p) BY <1>1, <1>2, <1>3, LeaveSettles, AnswersKept
<1>4. CASE Goto(p, "failed") BY <1>1, <1>2, <1>4, GotoSettles, AnswersKept
<1>5. CASE \E w : run' = [run EXCEPT ![p].at = "failed", ![p].wrote = w]
  <2>1. PICK w : run' = [run EXCEPT ![p].at = "failed", ![p].wrote = w] BY <1>5
  <2>2. run'[p].at = "failed" /\ \A q \in Procs \ {p} : run'[q] = run[q] BY <2>1, WroteFacts
  <2>3. NobodySettles BY <2>2 DEF NobodySettles
  <2>4. QED BY <1>1, <1>2, <2>3, AnswersKept
<1>6. QED
  BY <1>3, <1>4, <1>5
  DEF Fault, UpdateCutShort, UpdatePreparedOnly, ResumeCutShort, SettleFails, Die, CutShort

LEMMA LineageStep == ASSUME Shape, Lineage, [Next]_vars PROVE Lineage' /\ Steady
<1>1. Told' /\ Steady BY ToldStep DEF Lineage
<1>t. TypeOK BY DEF Shape
<1>2. Settled /\ AppliedIsWritten /\ TypeOK /\ run \in [Procs -> Runs]
  BY <1>t, RunType DEF Lineage
<1>3. ASSUME UNCHANGED <<store, receipt, run>> PROVE Settled' /\ AppliedIsWritten'
  BY <1>1, <1>2, <1>3, AnswersKept DEF NobodySettles
<1>4. ASSUME NEW e \in Reports, Capture(e) PROVE Settled' /\ AppliedIsWritten'
  <2>1. UNCHANGED <<store, receipt>> BY <1>4 DEF Capture
  <2>2. CASE Launch(run) BY <1>1, <1>2, <2>1, <2>2, LaunchSettles, AnswersKept
  <2>3. CASE UNCHANGED <<lease, run>> BY <1>3, <2>1, <2>3
  <2>4. QED BY <1>4, <2>2, <2>3 DEF Capture
<1>5. ASSUME NEW e \in Reports, CaptureCutShort(e) PROVE Settled' /\ AppliedIsWritten'
  <2>1. UNCHANGED <<store, receipt>> BY <1>5 DEF CaptureCutShort
  <2>2. CASE run' = run BY <1>3, <2>1, <2>2
  <2>3. CASE run' # run
    <3>1. PICK k \in Tokens : k = CHOOSE x \in FreeTokens : TRUE BY <1>2, NewToken
    <3>2. PICK p \in Procs : run' = [run EXCEPT ![p] = Worker(k)]
      BY <1>5, <2>3, <3>1 DEF CaptureCutShort
    <3>3. run'[p].at = "check" /\ \A q \in Procs \ {p} : run'[q] = run[q]
      BY <1>2, <3>2, WorkerType
    <3>4. NobodySettles BY <3>3 DEF NobodySettles
    <3>5. QED BY <1>1, <1>2, <2>1, <3>4, AnswersKept
  <2>4. QED BY <2>2, <2>3
<1>6. ASSUME LeaseAges PROVE Settled' /\ AppliedIsWritten'
  BY <1>3, <1>6 DEF LeaseAges, files
<1>r. ASSUME NEW e \in Reports, ReadTarget(e) PROVE Settled' /\ AppliedIsWritten'
  BY <1>3, <1>r DEF ReadTarget, files
<1>7. ASSUME NEW m \in Edits, NEW t \in Targets, Edit(m, t) \/ EditCutShort(m, t)
      PROVE  Settled' /\ AppliedIsWritten'
  BY <1>3, <1>7 DEF Edit, EditCutShort, files
<1>8. ASSUME Complete \/ RollBack PROVE Settled' /\ AppliedIsWritten'
  BY <1>3, <1>8 DEF Complete, RollBack, files
<1>9. ASSUME UNCHANGED vars PROVE Settled' /\ AppliedIsWritten'
  BY <1>3, <1>9 DEF vars, files
<1>10. Settled' /\ AppliedIsWritten'
  BY <1>1, <1>4, <1>5, <1>6, <1>r, <1>7, <1>8, <1>9, ProcessAnswers, FaultAnswers DEF Next
<1>11. QED BY <1>1, <1>10 DEF Lineage

LEMMA LineageInit == Init => Lineage
<1>1. ASSUME Init PROVE Settled /\ AppliedIsWritten
  <2>1. \A p \in Procs : run[p].at = "none" BY <1>1, IdleRun DEF Init
  <2>2. QED BY <1>1, <2>1 DEF Init, Settled, AppliedIsWritten
<1>2. QED BY <1>1, ToldInit DEF Lineage

(* The record, the writer journal and the journals of the reports agree on
   what was written, and on what may still be taken back. *)
THEOREM LineageAlways == Spec => []Lineage
<1>1. Shape /\ Lineage /\ [Next]_vars => Lineage' BY LineageStep
<1>2. QED BY <1>1, LineageInit, ShapeAlways, PTL DEF Spec

(* AppliedIsWritten: with an active history, an "applied" receipt is given
   only for a mutation that the record took and that nobody took back. *)
THEOREM AppliedIsAlwaysWritten == Spec => []AppliedIsWritten
<1>1. Lineage => AppliedIsWritten BY DEF Lineage
<1>2. QED BY <1>1, LineageAlways, PTL

(* NeverReapplied: a report that was written over comes back only when the
   write over it is itself taken back. *)
THEOREM ReportsAreNeverReapplied == Spec => NeverReapplied
<1>1. Shape /\ Lineage /\ [Next]_vars =>
        [\A e \in landed :
            /\ record[target[e]] # e
            /\ Pending => record' # writer.before
            => record'[target[e]] # e]_vars
  BY LineageStep DEF Steady
<1>2. QED BY <1>1, LineageAlways, ShapeAlways, PTL DEF Spec, NeverReapplied

-----------------------------------------------------------------------------
(* What captures have read, and the order of the queue. *)

(* Every step but a capture leaves the queue alone. *)
QueueKept ==
    /\ UNCHANGED <<order, snap>>
    /\ \A f \in Reports : Captured(f)' => Captured(f)

LEMMA OrderedWhenKept ==
    ASSUME Ordered, Grows, QueueKept, UNCHANGED seen
    PROVE  Ordered'
<1> SUFFICES ASSUME NEW e \in Reports
             PROVE  /\ Captured(e)' => Queued(e)'
                    /\ \A f \in seen'[e] \cap Reports : Captured(f)'
                    /\ Behind(e)'
  BY DEF Ordered
<1>1. Captured(e)' => Captured(e) BY DEF QueueKept
<1>2. order' = order /\ snap' = snap /\ seen' = seen BY DEF QueueKept
<1>3. Captured(e)' => Queued(e)' BY <1>1, <1>2 DEF Ordered, Queued
<1>4. \A f \in Reports : Captured(f) => Captured(f)' BY DEF Grows, Captured
<1>5. \A f \in seen'[e] \cap Reports : Captured(f)' BY <1>2, <1>4 DEF Ordered
<1>6. Behind(e)' BY <1>1, <1>2 DEF Ordered, Behind, Earlier
<1>7. QED BY <1>3, <1>5, <1>6

LEMMA ProcessKeepsQueue ==
    ASSUME Shape, NEW p \in Procs, Process(p) \/ Fault(p)
    PROVE  QueueKept /\ UNCHANGED seen
<1>1. UNCHANGED <<order, snap, seen>>
  BY DEF Process, Fault, CheckLease, ListEvents, NextEvent, NoMoreEvents, EndPass, HandOver,
     BindTarget, Refuse, CloseEvent, Answered, Retained, RefuseUpdate, Update, UpdateBlocked,
     Failed, RecoverReport, RedoReport, RedoOther, Resume, ResumeDone, ResumeBlocked, ResumeStale,
     Settle, UpdateCutShort, UpdatePreparedOnly, ResumeCutShort, SettleFails, Die,
     OnlyRun, OnlyReceipt, files
<1>2. ASSUME NEW e \in Reports, Captured(e), NEW s, event' = [event EXCEPT ![e] = s]
      PROVE  \A f \in Reports : Captured(f)' => Captured(f)
  BY <1>2 DEF Captured, Shape, TypeOK
<1>3. CASE NextEvent(p)
  <2>1. PICK e \in run[p].todo : event' = [event EXCEPT ![e] = "processing"]
    BY <1>3 DEF NextEvent
  <2>2. e \in Reports /\ Captured(e) BY <2>1, RunFacts DEF Shape, Knows, Captured
  <2>3. QED BY <1>1, <1>2, <2>1, <2>2 DEF QueueKept
<1>4. CASE CloseEvent(p) \/ Failed(p)
  <2>1. run[p].at \in WithReport BY <1>4 DEF CloseEvent, Failed, WithReport, Processing
  <2>2. Mine(p) \in Reports /\ Captured(Mine(p)) BY <2>1, MineFacts DEF Captured
  <2>3. event' = event \/ \E s : event' = [event EXCEPT ![Mine(p)] = s]
    BY <1>4 DEF CloseEvent, Failed
  <2>4. CASE event' = event BY <1>1, <2>4 DEF QueueKept, Captured
  <2>5. CASE \E s : event' = [event EXCEPT ![Mine(p)] = s]
    <3>1. PICK s : event' = [event EXCEPT ![Mine(p)] = s] BY <2>5
    <3>2. QED BY <1>1, <1>2, <2>2, <3>1 DEF QueueKept
  <2>6. QED BY <2>3, <2>4, <2>5
<1>5. CASE ~(NextEvent(p) \/ CloseEvent(p) \/ Failed(p))
  <2>1. event' = event
    BY <1>5 DEF Process, Fault, CheckLease, ListEvents, NoMoreEvents, EndPass, HandOver,
       BindTarget, Refuse, Answered, Retained, RefuseUpdate, Update, UpdateBlocked,
       RecoverReport, RedoReport, RedoOther, Resume, ResumeDone, ResumeBlocked, ResumeStale,
       Settle, UpdateCutShort, UpdatePreparedOnly, ResumeCutShort, SettleFails, Die,
       OnlyRun, OnlyReceipt, files
  <2>2. QED BY <1>1, <2>1 DEF QueueKept, Captured
<1>6. QED BY <1>1, <1>3, <1>4, <1>5

(* What a report says is in the record was captured. *)
LEMMA WriterCaptured ==
    ASSUME Lineage, NEW t \in Targets, record[t] \in Reports
    PROVE  Captured(record[t])
<1>1. record[t] \in landed BY DEF Lineage, Told, Written
<1>2. journal[record[t]] # NoJournal BY <1>1 DEF Lineage, Told, NoReturn
<1>3. Journaled(record[t]) BY <1>2 DEF Lineage, Told, Journals
<1>4. QED BY <1>3 DEF Journaled, Captured

LEMMA ReadTargetOrdered ==
    ASSUME Shape, Lineage, Ordered, NEW e \in Reports, ReadTarget(e)
    PROVE  Ordered'
<1>1. UNCHANGED <<order, snap, event>> BY DEF ReadTarget, files
<1>2. PICK read : read = IF Readable THEN record[target[e]] ELSE "issue" OBVIOUS
<1>3. target[e] \in Targets BY ConstantsAssumption
<1>4. read \in Reports => Captured(read)
  <2>1. CASE Readable BY <1>2, <1>3, <2>1, WriterCaptured
  <2>2. CASE ~Readable BY <1>2, <2>2, ConstantsAssumption
  <2>3. QED BY <2>1, <2>2
<1>5. seen' = [seen EXCEPT ![e] = @ \cup {read}] BY <1>2 DEF ReadTarget
<1>6. seen \in Readings BY DEF Shape, TypeOK, Readings
<1>7. \A f \in Reports : seen'[f] \subseteq seen[f] \cup {read} BY <1>5, <1>6 DEF Readings
<1>8. \A f, g \in Reports : g \in seen'[f] => Captured(g)
  BY <1>4, <1>7 DEF Ordered
<1>9. QED BY <1>1, <1>8 DEF Ordered, Captured, Queued, Behind, Earlier

LEMMA RetainOrdered ==
    ASSUME Shape, Ordered, NEW e \in Reports, Retain(e), UNCHANGED <<journal, receipt>>
    PROVE  Ordered'
<1>1. Grows /\ order' \in Seq(Reports) BY RetainFacts DEF Shape
<1>2. CASE event[e] # "none"
  <2>1. UNCHANGED <<order, seen, event, snap>> BY <1>2 DEF Retain
  <2>2. QED BY <1>1, <2>1, OrderedWhenKept DEF QueueKept, Captured
<1>3. CASE event[e] = "none"
  <2>1. PICK read \in seen[e] :
          /\ order' = Append(order, e) /\ event' = [event EXCEPT ![e] = "captured"]
          /\ snap' = [snap EXCEPT ![e] = read] /\ seen' = [seen EXCEPT ![e] = {}]
    BY <1>3 DEF Retain
  <2>2. /\ order \in Seq(Reports) /\ DOMAIN event = Reports /\ seen \in Readings
        /\ snap \in [Reports -> Writers \cup {"issue"}]
    BY DEF Shape, TypeOK, Readings
  <2>3. Len(order) \in Nat /\ Len(order') = Len(order) + 1 /\ order'[Len(order) + 1] = e
        /\ \A i \in 1 .. Len(order) : order'[i] = order[i]
    BY <2>1, <2>2
  <2>4. \A f \in Reports : Queued(f) => Queued(f)' BY <2>3 DEF Queued
  <2>5. Queued(e)' BY <2>3 DEF Queued
  <2>6. \A f \in Reports : Captured(f) => Captured(f)' BY <1>1 DEF Grows, Captured
  <2>7. \A f \in Reports \ {e} : /\ Captured(f)' => Captured(f)
                                 /\ snap'[f] = snap[f] /\ seen'[f] = seen[f]
    BY <2>1, <2>2 DEF Captured, Readings
  <2>8. snap'[e] = read /\ seen'[e] = {} BY <2>1, <2>2 DEF Readings
  <2>9. read \in Reports => Earlier(read, e)'
    <3>1. SUFFICES ASSUME read \in Reports PROVE Earlier(read, e)'
      OBVIOUS
    <3>2. Queued(read) BY <2>1, <3>1 DEF Ordered
    <3>3. PICK i \in 1 .. Len(order) : order[i] = read BY <3>2 DEF Queued
    <3>4. i \in 1 .. Len(order') /\ Len(order) + 1 \in 1 .. Len(order') /\ i < Len(order) + 1
      BY <2>3, <3>3
    <3>5. order'[i] = read /\ order'[Len(order) + 1] = e BY <2>3, <3>3
    <3>6. \E j \in 1 .. Len(order') : i < j /\ order'[j] = e BY <3>4, <3>5
    <3>7. QED BY <3>4, <3>5, <3>6 DEF Earlier
  <2>10. ASSUME NEW f \in Reports \ {e}
         PROVE  /\ Captured(f)' => Queued(f)'
                /\ \A g \in seen'[f] \cap Reports : Captured(g)'
                /\ Behind(f)'
    <3>1. Captured(f)' => Queued(f)' BY <2>4, <2>7 DEF Ordered
    <3>2. \A g \in seen'[f] \cap Reports : Captured(g)' BY <2>6, <2>7 DEF Ordered
    <3>3. PICK v : v = snap[f] OBVIOUS
    <3>4. snap'[f] = v BY <2>7, <3>3
    <3>5. Captured(f)' /\ v \in Reports => Earlier(v, f) BY <2>7, <3>3 DEF Ordered, Behind
    <3>6. Earlier(v, f) => Earlier(v, f)' BY <1>1 DEF Grows
    <3>7. Behind(f)' BY <3>4, <3>5, <3>6 DEF Behind, Earlier
    <3>8. QED BY <3>1, <3>2, <3>7
  <2>11. Behind(e)' BY <2>8, <2>9 DEF Behind, Earlier
  <2>12. \A g \in seen'[e] \cap Reports : Captured(g)' BY <2>8
  <2>13. QED BY <2>5, <2>10, <2>11, <2>12 DEF Ordered
<1>4. QED BY <1>2, <1>3

LEMMA OrderedStep == ASSUME Shape, Lineage, Ordered, [Next]_vars PROVE Ordered'
<1>1. Grows BY ShapeStep
<1>2. ASSUME NEW e \in Reports, ReadTarget(e) \/ Capture(e) \/ CaptureCutShort(e) PROVE Ordered'
  BY <1>2, ReadTargetOrdered, RetainOrdered DEF Capture, CaptureCutShort
<1>3. ASSUME NEW p \in Procs, Process(p) \/ Fault(p) PROVE Ordered'
  BY <1>1, <1>3, ProcessKeepsQueue, OrderedWhenKept
<1>4. ASSUME UNCHANGED <<order, seen, event, snap>> PROVE Ordered'
  BY <1>1, <1>4, OrderedWhenKept DEF QueueKept, Captured
<1>5. CASE LeaseAges BY <1>4, <1>5 DEF LeaseAges, files
<1>6. ASSUME NEW m \in Edits, NEW t \in Targets, Edit(m, t) \/ EditCutShort(m, t) PROVE Ordered'
  BY <1>4, <1>6 DEF Edit, EditCutShort, files
<1>7. CASE Complete \/ RollBack BY <1>4, <1>7 DEF Complete, RollBack, files
<1>8. CASE UNCHANGED vars BY <1>4, <1>8 DEF vars, files
<1>9. QED BY <1>2, <1>3, <1>5, <1>6, <1>7, <1>8 DEF Next

LEMMA OrderedInit == Init => Ordered
BY DEF Init, Ordered, Captured, Behind

(* A report in which a capture found another's mutation is behind it in the
   queue, however long it waited for capture.lock. *)
THEOREM OrderedAlways == Spec => []Ordered
<1>1. Shape /\ Lineage /\ Ordered /\ [Next]_vars => Ordered' BY OrderedStep
<1>2. QED BY <1>1, OrderedInit, ShapeAlways, LineageAlways, PTL DEF Spec

(* Only steps that leave the queue alone publish. *)
LEMMA LandingKeepsQueue ==
    ASSUME Shape, [Next]_vars, landed' # landed
    PROVE  QueueKept
<1>1. ~\E e \in Reports : ReadTarget(e) \/ Capture(e) \/ CaptureCutShort(e)
  BY DEF ReadTarget, Capture, CaptureCutShort
<1>2. ~LeaseAges /\ ~UNCHANGED vars
      /\ ~\E m \in Edits, t \in Targets : Edit(m, t) \/ EditCutShort(m, t)
  BY DEF LeaseAges, vars, Edit, EditCutShort
<1>3. CASE Complete \/ RollBack BY <1>3 DEF Complete, RollBack, files, QueueKept, Captured
<1>4. QED BY <1>1, <1>2, <1>3, ProcessKeepsQueue DEF Next

(* TargetBound: in whatever step a report's mutation reaches the record, by
   its worker, by a later worker or by kpop recover, it replaces what an
   earlier report of the queue put there, or, where no report has written,
   what its capture read before it had its place in the queue. *)
THEOREM ReportsKeepToTheirTarget == Spec => TargetBound
<1>1. ASSUME Shape, Lineage, Ordered, [Next]_vars, NEW e \in landed' \ landed
      PROVE  LET t == target[e] IN
             /\ \A u \in Targets \ {t} : record'[u] = record[u]
             /\ IF record[t] \in Reports THEN Earlier(record[t], e)
                ELSE record[t] = snap[e]
  <2>1. Lineage' /\ Steady /\ Shape' BY <1>1, LineageStep, ShapeStep
  <2>2. e \in Reports BY <2>1 DEF Shape, TypeOK
  <2>3. journal'[e] # NoJournal BY <2>1 DEF Lineage, Told, NoReturn
  <2>4. Captured(e)' BY <2>1, <2>2, <2>3 DEF Lineage, Told, Journals, Journaled, Captured
  <2>5. Captured(e) BY <1>1, <2>2, <2>4, LandingKeepsQueue DEF QueueKept
  <2>6. snap[e] \in Reports => Earlier(snap[e], e) BY <1>1, <2>2, <2>5 DEF Ordered, Behind
  <2>7. QED BY <2>1, <2>6 DEF Steady
<1>2. Shape /\ Lineage /\ Ordered /\ [Next]_vars =>
        [\A e \in landed' \ landed :
            LET t == target[e] IN
            /\ \A u \in Targets \ {t} : record'[u] = record[u]
            /\ IF record[t] \in Reports THEN Earlier(record[t], e)
               ELSE record[t] = snap[e]]_vars
  BY <1>1
<1>3. QED BY <1>2, LineageAlways, OrderedAlways, ShapeAlways, PTL DEF Spec, TargetBound

-----------------------------------------------------------------------------
(* The worker's lease while nothing has failed. *)

LEMMA NoMiss == ASSUME Shape, Miss PROVE crashes' # 0
BY ConstantsAssumption DEF Miss, Shape, TypeOK

(* The worker goes on under its lease. *)
LEMMA OnAttended ==
    ASSUME Attended, NEW p \in Procs, run[p].at # "none", run'[p].at # "none",
           run'[p].token = run[p].token, \A q \in Procs \ {p} : run'[q] = run[q],
           UNCHANGED <<lease, crashes>>
    PROVE  Attended'
<1>1. SUFFICES ASSUME crashes = 0 PROVE Attended'
  BY DEF Attended
<1>2. \A q \in Procs : run'[q].at # "none" => run[q].at # "none" /\ run'[q].token = run[q].token
  OBVIOUS
<1>3. lease = NoLease \/ lease.pid \in Procs BY <1>1 DEF Attended
<1>4. \A q \in Procs : run[q].at # "none" => lease.pid = q /\ lease.token = run[q].token
  BY <1>1 DEF Attended
<1>5. QED BY <1>2, <1>3, <1>4 DEF Attended

LEMMA GotoAttended ==
    ASSUME Shape, Attended, NEW p \in Procs, run[p].at # "none", NEW step \in Steps \ {"none"},
           Goto(p, step), UNCHANGED <<lease, crashes>>
    PROVE  Attended'
<1>1. /\ \A q \in Procs \ {p} : run'[q] = run[q]
      /\ run'[p].at = step /\ run'[p].token = run[p].token
  BY GotoFacts DEF Shape
<1>2. QED BY <1>1, OnAttended

LEMMA WroteAttended ==
    ASSUME Shape, Attended, NEW p \in Procs, run[p].at # "none", NEW step, step # "none", NEW w,
           run' = [run EXCEPT ![p].at = step, ![p].wrote = w], UNCHANGED <<lease, crashes>>
    PROVE  Attended'
<1>1. run \in [Procs -> Runs] BY RunType DEF Shape
<1>2. /\ \A q \in Procs \ {p} : run'[q] = run[q]
      /\ run'[p].at = step /\ run'[p].token = run[p].token
  BY <1>1 DEF Runs
<1>3. QED BY <1>2, OnAttended

(* Who runs holds the lease, alone. *)
LEMMA RunnerHolds ==
    ASSUME Attended, crashes = 0, NEW p \in Procs, run[p].at # "none"
    PROVE  /\ Holds(p) /\ lease # NoLease
           /\ \A q \in Procs \ {p} : run[q].at = "none"
<1>1. lease.pid = p /\ lease.token = run[p].token BY DEF Attended
<1>2. lease # NoLease BY <1>1, ConstantsAssumption DEF NoLease
<1>3. QED BY <1>1, <1>2 DEF Attended, Holds

LEMMA LaunchAttended ==
    ASSUME Shape, NEW from \in [Procs -> Runs], Launch(from), crashes' = crashes,
           crashes = 0 => \A q \in Procs : from[q].at = "none"
    PROVE  Attended'
<1>1. PICK p \in Procs, k \in Tokens :
        /\ lease' = [token |-> k, pid |-> p, stale |-> FALSE] /\ run'[p] = Worker(k)
        /\ \A q \in Procs \ {p} : run'[q] = from[q]
  BY LaunchFacts DEF Shape
<1>2. run'[p].at = "check" /\ run'[p].token = k BY <1>1, WorkerType
<1>3. SUFFICES ASSUME crashes = 0 PROVE Attended'
  BY DEF Attended
<1>4. \A q \in Procs \ {p} : run'[q].at = "none" BY <1>1, <1>3
<1>5. lease'.pid = p /\ lease'.token = k BY <1>1
<1>6. \A q \in Procs : run'[q].at # "none" => q = p BY <1>4
<1>7. QED BY <1>2, <1>5, <1>6 DEF Attended

(* The last worker ends and gives the lease up. *)
LEMMA LeaveAttended ==
    ASSUME Shape, Attended, NEW p \in Procs, run[p].at # "none", Leave(p), event' = event,
           lease' = IF Holds(p) THEN NoLease ELSE lease, crashes' = crashes, Holds(p) => ~Work
    PROVE  Attended'
<1>1. SUFFICES ASSUME crashes = 0 PROVE Attended'
  BY DEF Attended
<1>2. Holds(p) /\ \A q \in Procs \ {p} : run[q].at = "none" BY <1>1, RunnerHolds
<1>3. lease' = NoLease /\ ~Work' BY <1>2 DEF Work
<1>4. \A q \in Procs : run'[q].at = "none" BY <1>2, LeaveFacts, IdleRun DEF Shape
<1>5. QED BY <1>3, <1>4 DEF Attended

LEMMA CaptureAttended ==
    ASSUME Shape, Attended, NEW e \in Reports, Capture(e) PROVE Attended'
<1>1. crashes' = crashes /\ run \in [Procs -> Runs] BY RunType DEF Capture, Shape
<1>2. SUFFICES ASSUME crashes = 0 PROVE Attended'
  BY <1>1 DEF Attended
<1>3. CASE event'[e] \in AutoStates /\ ~LeaseActive
  <2>1. Launch(run) BY <1>3 DEF Capture
  <2>2. ASSUME NEW q \in Procs, run[q].at # "none" PROVE FALSE
    <3>1. lease.pid = q /\ lease # NoLease BY <1>2, <2>2, RunnerHolds DEF Attended
    <3>2. LeaseActive BY <2>2, <3>1, ConstantsAssumption DEF LeaseActive
    <3>3. QED BY <1>3, <3>2
  <2>3. QED BY <1>1, <2>1, <2>2, LaunchAttended
<1>4. CASE ~(event'[e] \in AutoStates /\ ~LeaseActive)
  <2>1. UNCHANGED <<lease, run>> BY <1>4 DEF Capture
  <2>2. Work' => \E p \in Procs : run[p].at # "none"
    <3>1. CASE LeaseActive
      <4>1. lease.pid \in Procs BY <1>2, <3>1 DEF Attended, LeaseActive
      <4>2. QED BY <3>1, <4>1, ConstantsAssumption DEF LeaseActive
    <3>2. CASE event'[e] \notin AutoStates
      <4>1. \A f \in Reports \ {e} : event'[f] = event[f]
        BY RetainFacts DEF Capture, Shape
      <4>2. Work' => Work BY <3>2, <4>1 DEF Work
      <4>3. QED BY <1>2, <4>2 DEF Attended
    <3>3. QED BY <1>4, <3>1, <3>2
  <2>3. QED BY <1>2, <2>1, <2>2 DEF Attended
<1>5. QED BY <1>3, <1>4

LEMMA ProcessAttended ==
    ASSUME Shape, Attended, NEW p \in Procs, Process(p) PROVE Attended'
<1>1. run \in [Procs -> Runs] BY RunType DEF Shape
<1>2. run[p].at # "none"
  BY DEF Process, CheckLease, ListEvents, NextEvent, NoMoreEvents, EndPass, HandOver,
     BindTarget, Refuse, CloseEvent, Answered, Retained, RefuseUpdate, Update, UpdateBlocked, Fresh,
     Failed, RecoverReport, RedoReport, RedoOther, Resume, ResumeDone, ResumeBlocked, ResumeStale,
     Resuming, Settle
<1>3. /\ "acquire" \in Steps \ {"none"} /\ "refuse" \in Steps \ {"none"}
      /\ "close" \in Steps \ {"none"} /\ "next" \in Steps \ {"none"}
      /\ "recover" \in Steps \ {"none"} /\ "failed" \in Steps \ {"none"}
      /\ "redo" \in Steps \ {"none"} /\ "resume" \in Steps \ {"none"}
      /\ "settle" \in Steps \ {"none"} /\ "handover" \in Steps \ {"none"}
  BY DEF Steps, Processing
<1>4. CASE CheckLease(p)
  <2>1. UNCHANGED <<lease, crashes>> BY <1>4 DEF CheckLease, OnlyRun
  <2>2. CASE Holds(p) BY <1>2, <1>3, <1>4, <2>1, <2>2, GotoAttended DEF CheckLease
  <2>3. CASE ~Holds(p)
    <3>1. crashes # 0 BY <1>2, <2>3, RunnerHolds
    <3>2. QED BY <2>1, <3>1 DEF Attended
  <2>4. QED BY <2>2, <2>3
<1>5. CASE ListEvents(p)
  <2>1. PICK queue : run' = [run EXCEPT ![p].at = "next", ![p].todo = queue]
    BY <1>5 DEF ListEvents
  <2>2. /\ run'[p].at = "next" /\ run'[p].token = run[p].token
        /\ \A q \in Procs \ {p} : run'[q] = run[q]
    BY <1>1, <2>1 DEF Runs
  <2>3. QED BY <1>2, <1>5, <2>2, OnAttended DEF ListEvents, OnlyRun
<1>6. CASE NextEvent(p)
  <2>1. PICK e : run' = [run EXCEPT ![p].at = "bind", ![p].report = e,
                                    ![p].todo = @ \ {e}, ![p].wrote = FALSE]
    BY <1>6 DEF NextEvent
  <2>2. PICK rest : rest = run[p].todo \ {e} OBVIOUS
  <2>3. run' = [run EXCEPT ![p].at = "bind", ![p].report = e, ![p].todo = rest,
                           ![p].wrote = FALSE]
    BY <2>1, <2>2
  <2>4. /\ run'[p].at = "bind" /\ run'[p].token = run[p].token
        /\ \A q \in Procs \ {p} : run'[q] = run[q]
    BY <1>1, <2>3 DEF Runs
  <2>5. QED BY <1>2, <1>6, <2>4, OnAttended DEF NextEvent
<1>7. CASE NoMoreEvents(p)
  <2>1. run' = [run EXCEPT ![p].at = "end", ![p].report = Nil, ![p].expected = Nil,
                           ![p].wrote = FALSE]
    BY <1>7 DEF NoMoreEvents
  <2>2. /\ run'[p].at = "end" /\ run'[p].token = run[p].token
        /\ \A q \in Procs \ {p} : run'[q] = run[q]
    BY <1>1, <2>1 DEF Runs
  <2>3. QED BY <1>2, <1>7, <2>2, OnAttended DEF NoMoreEvents, OnlyRun
<1>8. CASE BindTarget(p)
  <2>1. UNCHANGED <<lease, crashes>> BY <1>8 DEF BindTarget, OnlyRun
  <2>2. CASE Goto(p, "refuse") BY <1>2, <1>3, <2>1, <2>2, GotoAttended
  <2>3. CASE \E v : run' = [run EXCEPT ![p].at = "write", ![p].expected = v]
    <3>1. PICK v : run' = [run EXCEPT ![p].at = "write", ![p].expected = v] BY <2>3
    <3>2. /\ run'[p].at = "write" /\ run'[p].token = run[p].token
          /\ \A q \in Procs \ {p} : run'[q] = run[q]
      BY <1>1, <3>1 DEF Runs
    <3>3. QED BY <1>2, <2>1, <3>2, OnAttended
  <2>4. QED BY <1>8, <2>2, <2>3 DEF BindTarget
<1>9. CASE EndPass(p)
  <2>1. crashes' = crashes /\ event' = event BY <1>9 DEF EndPass, files
  <2>2. CASE Holds(p) /\ Work
    <3>1. lease' = lease BY <1>9, <2>2 DEF EndPass
    <3>2. CASE Goto(p, "handover") BY <1>2, <1>3, <2>1, <3>1, <3>2, GotoAttended
    <3>3. CASE run' = [run EXCEPT ![p].at = "check", ![p].passes = @ + 1]
      <4>1. PICK n : n = run[p].passes + 1 OBVIOUS
      <4>2. run' = [run EXCEPT ![p].at = "check", ![p].passes = n] BY <3>3, <4>1
      <4>3. /\ run'[p].at = "check" /\ run'[p].token = run[p].token
            /\ \A q \in Procs \ {p} : run'[q] = run[q]
        BY <1>1, <4>2 DEF Runs
      <4>4. QED BY <1>2, <2>1, <3>1, <4>3, OnAttended
    <3>4. QED BY <1>9, <2>2, <3>2, <3>3 DEF EndPass
  <2>3. CASE ~(Holds(p) /\ Work)
    BY <1>2, <1>9, <2>1, <2>3, LeaveAttended DEF EndPass
  <2>4. QED BY <2>2, <2>3
<1>10. CASE HandOver(p)
  <2>1. crashes' = crashes /\ event' = event BY <1>10 DEF HandOver, files
  <2>2. CASE Holds(p) /\ Work
    <3>1. PICK from \in [Procs -> Runs] : from = [run EXCEPT ![p] = Idle] BY <1>1, IdleRun
    <3>2. crashes = 0 => \A q \in Procs : from[q].at = "none"
      BY <1>1, <1>2, <3>1, RunnerHolds, IdleRun
    <3>3. Launch(from) BY <1>10, <2>2, <3>1 DEF HandOver
    <3>4. QED BY <2>1, <3>2, <3>3, LaunchAttended
  <2>3. CASE ~(Holds(p) /\ Work)
    BY <1>2, <1>10, <2>1, <2>3, LeaveAttended DEF HandOver
  <2>4. QED BY <2>2, <2>3
<1>11. CASE Refuse(p) \/ RefuseUpdate(p) \/ CloseEvent(p) \/ Answered(p) \/ Retained(p)
            \/ UpdateBlocked(p) \/ Failed(p) \/ RedoOther(p) \/ ResumeDone(p)
            \/ ResumeBlocked(p) \/ ResumeStale(p) \/ Settle(p) \/ RecoverReport(p)
  <2>1. UNCHANGED <<lease, crashes>>
    BY <1>11 DEF Refuse, RefuseUpdate, CloseEvent, Answered, Retained, UpdateBlocked, Failed,
       RedoOther, ResumeDone, ResumeBlocked, ResumeStale, Settle, RecoverReport,
       OnlyRun, OnlyReceipt
  <2>2. \E step \in {"close", "next", "recover", "failed", "refuse", "settle", "redo", "resume"} :
            Goto(p, step)
    <3>1. CASE Refuse(p) \/ RefuseUpdate(p) \/ CloseEvent(p) \/ Answered(p) \/ Retained(p)
               \/ UpdateBlocked(p) \/ Failed(p) \/ RedoOther(p)
      BY <3>1 DEF Refuse, RefuseUpdate, CloseEvent, Answered, Retained, UpdateBlocked, Failed,
         RedoOther
    <3>2. CASE ResumeDone(p) \/ ResumeBlocked(p) \/ ResumeStale(p) \/ Settle(p)
      BY <3>2 DEF ResumeDone, ResumeBlocked, ResumeStale, Settle
    <3>3. CASE RecoverReport(p)
      <4>1. PICK step : step = CASE store = "history" \/ Pending -> "redo"
                                 [] ~Pending /\ Found(p).phase = "prepared" -> "resume"
                                 [] OTHER -> "settle"
        OBVIOUS
      <4>2. Goto(p, step) BY <3>3, <4>1 DEF RecoverReport
      <4>3. QED BY <4>1, <4>2
    <3>4. QED BY <1>11, <3>1, <3>2, <3>3
  <2>3. QED BY <1>2, <1>3, <2>1, <2>2, GotoAttended
<1>12. CASE Update(p) \/ RedoReport(p) \/ Resume(p)
  <2>1. UNCHANGED <<lease, crashes>> BY <1>12 DEF Update, RedoReport, Resume
  <2>2. \E step \in {"close", "settle"} : \E w :
           run' = [run EXCEPT ![p].at = step, ![p].wrote = w]
    BY <1>12 DEF Update, RedoReport, Resume
  <2>3. QED BY <1>2, <2>1, <2>2, WroteAttended
<1>13. QED
  BY <1>4, <1>5, <1>6, <1>7, <1>8, <1>9, <1>10, <1>11, <1>12 DEF Process

LEMMA AttendedInit == Init => Attended
<1> SUFFICES ASSUME Init PROVE Attended
  OBVIOUS
<1>1. \A p \in Procs : run[p].at = "none" BY IdleRun DEF Init
<1>2. ~Work BY DEF Init, Work, AutoStates
<1>3. QED BY <1>1, <1>2 DEF Init, Attended

LEMMA AttendedStep == ASSUME Shape, Attended, [Next]_vars PROVE Attended'
<1>1. ASSUME Miss PROVE Attended' BY <1>1, NoMiss DEF Attended
<1>2. ASSUME NEW e \in Reports, CaptureCutShort(e) PROVE Attended'
  BY <1>1, <1>2 DEF CaptureCutShort
<1>3. ASSUME LeaseAges PROVE Attended'
  <2>1. crashes # 0
    <3>1. lease # NoLease /\ lease.pid \notin Procs BY <1>3, ConstantsAssumption DEF LeaseAges
    <3>2. QED BY <3>1 DEF Attended
  <2>2. QED BY <1>3, <2>1 DEF LeaseAges, Attended
<1>4. ASSUME NEW p \in Procs, Fault(p) PROVE Attended'
  BY <1>1, <1>4 DEF Fault, UpdateCutShort, UpdatePreparedOnly, ResumeCutShort, SettleFails, Die
<1>5. ASSUME UNCHANGED <<event, lease, run, crashes>> PROVE Attended'
  BY <1>5 DEF Attended, Work
<1>6. ASSUME NEW m \in Edits, NEW t \in Targets, Edit(m, t) \/ EditCutShort(m, t)
      PROVE  Attended'
  BY <1>5, <1>6 DEF Edit, EditCutShort, files
<1>r. ASSUME NEW e \in Reports, ReadTarget(e) PROVE Attended'
  BY <1>5, <1>r DEF ReadTarget, files
<1>7. ASSUME Complete \/ RollBack PROVE Attended'
  BY <1>5, <1>7 DEF Complete, RollBack, files
<1>8. ASSUME UNCHANGED vars PROVE Attended' BY <1>5, <1>8 DEF vars, files
<1>9. QED
  BY <1>2, <1>3, <1>4, <1>6, <1>r, <1>7, <1>8, CaptureAttended, ProcessAttended DEF Next

(* WorkIsAwaited: as long as no process died and no call failed, a report that
   waits has a live worker, and the lease names it. *)
THEOREM WorkIsAlwaysAwaited == Spec => []WorkIsAwaited
<1>1. Shape /\ Attended /\ [Next]_vars => Attended' BY AttendedStep
<1>2. Attended => WorkIsAwaited BY DEF Attended, WorkIsAwaited
<1>3. QED BY <1>1, <1>2, AttendedInit, ShapeAlways, PTL DEF Spec
=============================================================================
