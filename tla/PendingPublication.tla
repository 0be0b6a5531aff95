------------------------- MODULE PendingPublication -------------------------
(***************************************************************************)
(* The publisher of pending contributions: Publisher of                    *)
(* native/src/pending_publication.rs with the decisions of                 *)
(* pending_control.rs.                                                     *)
(*                                                                         *)
(* Captured contributions are collected in a ledger.  A publisher holds a  *)
(* lock, compares its saved receipts with the remote, pushes one commit    *)
(* with all that is pending to a managed branch and keeps one pull request *)
(* for it.  Before each call that changes the remote it saves its intent.  *)
(* A call may fail although it was carried out, or is carried out later;   *)
(* processes die; pull requests end; others may write the branch.          *)
(***************************************************************************)
EXTENDS Naturals, FiniteSets

CONSTANTS
    Revisions,  \* contributions
    Judgeable,  \* those that a user decides about
    Foreign,    \* a head that somebody else wrote
    Nil,        \* no head
    MaxCommits, \* bound on commits that somebody remembers
    MaxCycles,  \* bound on pull requests: the last one does not end
    MaxWaiting, \* bound on publishers that wait for the lock
    MaxRounds,  \* cycles of one automatic run
    MaxTroubles \* bound on lost calls and deaths

ASSUME ConstantsAssumption ==
    /\ Foreign # Nil
    /\ Judgeable \subseteq Revisions
    /\ {MaxCommits, MaxCycles, MaxWaiting, MaxRounds, MaxTroubles} \subseteq Nat
    /\ MaxRounds > 0
    /\ \A id \in 1 .. MaxCommits, has \in SUBSET Revisions :
           [id |-> id, has |-> has] \notin {Foreign, Nil}

Commits == [id : 1 .. MaxCommits, has : SUBSET Revisions]
Heads == Commits \cup {Foreign, Nil}
Cycles == 1 .. MaxCycles

VARIABLES
    ledger,     \* captured contributions
    saved,      \* publication.json
    job,        \* the publisher that holds the lock
    waiting,    \* publishers that wait for it
    head,       \* head of the managed branch on the remote
    target,     \* contributions that are in the target branch
    prs,        \* prs[c]: state of the pull request with cycle marker c
    wire,       \* calls whose answer was lost and that may still arrive
    troubles    \* lost calls and deaths so far

remote == <<head, target, prs, wire>>
vars == <<ledger, saved, job, waiting, remote, troubles>>

NoIntent == [kind |-> "none", commit |-> Nil, expected |-> Nil, revisions |-> {}, pr |-> 0]

Intents ==
    [kind : {"none", "push", "create", "update"}, commit : Commits \cup {Nil},
     expected : Heads, revisions : SUBSET Revisions, pr : {0} \cup Cycles]

(* Receipts: later says that retry_at is in the future. *)
States ==
    [head : Heads, pr : {0} \cup Cycles, cycle : {0} \cup Cycles,
     proposed : SUBSET Revisions, intent : Intents, decided : SUBSET Revisions,
     shown : SUBSET Revisions, later : BOOLEAN]

PrStates == {"none", "open", "merged", "closed"}

NewState ==
    [head |-> Nil, pr |-> 0, cycle |-> 0, proposed |-> {}, intent |-> NoIntent,
     decided |-> {}, shown |-> {}, later |-> FALSE]

Calling == {"push", "repush", "update", "create"}

Free ==
    [at |-> "free", mem |-> NewState, batch |-> {}, head |-> Nil, accepted |-> {},
     rows |-> [c \in Cycles |-> "none"], round |-> 0, forced |-> FALSE]

(* The intent of every call under way, and of every call that may still
   arrive, was saved first. *)
TypeOK ==
    /\ ledger \subseteq Revisions
    /\ saved \in States
    /\ job \in [at : {"free", "begin", "remote", "list", "reconcile", "decide",
                      "propose", "finish", "close"} \cup Calling,
                mem : States, batch : SUBSET Revisions, head : Heads,
                accepted : SUBSET Revisions, rows : [Cycles -> PrStates],
                round : 0 .. MaxRounds, forced : BOOLEAN]
    /\ waiting \in 0 .. MaxWaiting
    /\ head \in Heads
    /\ target \subseteq Revisions
    /\ prs \in [Cycles -> PrStates]
    /\ wire \subseteq Intents
    /\ troubles \in 0 .. MaxTroubles
    /\ job.at \in Calling => 
           saved.intent = job.mem.intent /\ saved.intent.kind # "none"

Init ==
    /\ ledger = {}
    /\ saved = NewState
    /\ job = Free
    /\ waiting = 0
    /\ head = Nil
    /\ target = {}
    /\ prs = [c \in Cycles |-> "none"]
    /\ wire = {}
    /\ troubles = 0

-----------------------------------------------------------------------------
(* Contributions, decisions and the start of publishers. *)

(* trigger_after_capture: no child while an earlier failure backs off. *)
Woken ==
    IF saved.later \/ waiting = MaxWaiting THEN waiting ELSE waiting + 1

Capture(r) ==
    /\ r \notin ledger
    /\ ledger' = ledger \cup {r}
    /\ waiting' = Woken
    /\ UNCHANGED <<saved, job, remote, troubles>>

(* A session opens. *)
Session ==
    /\ ledger # {}
    /\ waiting < MaxWaiting
    /\ waiting' = Woken
    /\ UNCHANGED <<ledger, saved, job, remote, troubles>>

(* withdraw, reject, supersede *)
Withdraw(r) ==
    /\ job.at = "free"
    /\ r \in ledger
    /\ saved' = [saved EXCEPT !.decided = @ \cup {r}, !.shown = @ \ {r}]
    /\ UNCHANGED <<ledger, job, waiting, remote, troubles>>

(* resume names a contribution to be proposed again. *)
Resume(r) ==
    /\ job.at = "free"
    /\ r \in ledger
    /\ saved' = [saved EXCEPT !.decided = @ \ {r}, !.shown = @ \ {r}]
    /\ UNCHANGED <<ledger, job, waiting, remote, troubles>>

(* run_automatic gets the lock ... *)
Acquire ==
    /\ job.at = "free"
    /\ waiting > 0
    /\ waiting' = waiting - 1
    /\ job' = [Free EXCEPT !.at = "begin", !.round = 1]
    /\ UNCHANGED <<ledger, saved, remote, troubles>>

(* ... or has waited for a minute and leaves: "queued". *)
GiveUp ==
    /\ job.at # "free"
    /\ waiting > 0
    /\ waiting' = waiting - 1
    /\ UNCHANGED <<ledger, saved, job, remote, troubles>>

(* kpop pending publish: one cycle, at once or not at all. *)
Publish(force) ==
    /\ job.at = "free"
    /\ job' = [Free EXCEPT !.at = "begin", !.round = MaxRounds, !.forced = force]
    /\ UNCHANGED <<ledger, saved, waiting, remote, troubles>>

-----------------------------------------------------------------------------
(* run_cycle *)

At(step) == job.at = step

Goes(step) == job' = [job EXCEPT !.at = step]

(* What is in memory is changed to m, saved, and step comes next. *)
Saves(m, step) ==
    /\ saved' = m
    /\ job' = [job EXCEPT !.mem = m, !.at = step]

Ends(m) ==
    /\ saved' = m
    /\ job' = Free

(* The cycle is over; what it saw is forgotten. *)
Completes(m) ==
    /\ saved' = [m EXCEPT !.later = FALSE]
    /\ job' = [Free EXCEPT !.at = "close", !.batch = job.batch, !.round = job.round]

Attention(m) == Ends(m)

Unknown(m) == Ends([m EXCEPT !.later = TRUE])

Local == UNCHANGED <<ledger, waiting, remote, troubles>>

Begin ==
    /\ At("begin")
    /\ job' = IF saved.later /\ ~job.forced
                THEN Free
                ELSE [job EXCEPT !.at = "remote", !.mem = saved, !.batch = ledger,
                                 !.forced = FALSE]
    /\ UNCHANGED saved
    /\ Local

(* remote and accepted *)
Observe ==
    /\ At("remote")
    /\ job' = [job EXCEPT !.at = "list", !.head = head, !.accepted = target \cap job.batch]
    /\ UNCHANGED saved
    /\ Local

Open(rows) == {c \in Cycles : rows[c] = "open"}

(* Variant: what cannot be found was not created. *)
NeverUnconfirmed == FALSE

(* No second creation is sent while the first one is uncertain. *)
Unconfirmed ==
    /\ job.mem.intent.kind = "create"
    /\ prs[job.mem.intent.pr] = "none"

Uncertain ==
    /\ At("list")
    /\ Cardinality(Open(prs)) <= 1
    /\ Unconfirmed
    /\ Unknown(job.mem)
    /\ Local

Overrun ==
    /\ job.mem.intent.kind = "push"
    /\ job.head \notin {job.mem.intent.commit, job.mem.intent.expected}

(* provider_rows finds two open pull requests, or somebody has written the
   branch while the push was uncertain. *)
SettleStops ==
    /\ At("list")
    /\ Overrun \/ Cardinality(Open(prs)) > 1
    /\ Attention(job.mem)
    /\ Local

(* The part of reconcile about the intent: what was done is noted down. *)
Settled(m) ==
    LET i == m.intent IN
    CASE i.kind = "create" /\ prs[i.pr] # "none" ->
            [m EXCEPT !.pr = i.pr, !.proposed = i.revisions, !.intent = NoIntent]
      [] i.kind = "push" /\ job.head = i.commit ->
            [m EXCEPT !.head = i.commit, !.proposed = i.revisions, !.intent = NoIntent]
      [] i.kind = "push" /\ job.head # i.commit -> m
      [] OTHER -> [m EXCEPT !.intent = NoIntent]

(* A pull request was created and has ended meanwhile: left to the next run. *)
SettleEnded ==
    /\ At("list")
    /\ Cardinality(Open(prs)) <= 1
    /\ job.mem.intent.kind = "create"
    /\ prs[job.mem.intent.pr] \in {"merged", "closed"}
    /\ Unknown(Settled(job.mem))
    /\ Local

Settle ==
    /\ At("list")
    /\ Cardinality(Open(prs)) <= 1
    /\ ~Unconfirmed
    /\ ~Overrun
    /\ job.mem.intent.kind = "create" => prs[job.mem.intent.pr] \notin {"merged", "closed"}
    /\ saved' = Settled(job.mem)
    /\ job' = [job EXCEPT !.at = "reconcile", !.mem = Settled(job.mem), !.rows = prs]
    /\ Local

Ended == job.mem.pr # 0 /\ job.rows[job.mem.pr] \in {"merged", "closed"}

(* A closed pull request decides about what it proposed. *)
Judged ==
    IF job.mem.pr # 0 /\ job.rows[job.mem.pr] = "closed"
      THEN [job.mem EXCEPT !.decided = @ \cup (job.mem.proposed \ job.accepted)]
      ELSE job.mem

(* Variant: no branch may be missing. *)
MovedAlways == job.head # job.mem.head

(* The head is not the one that the last push left. *)
Moved == job.head # job.mem.head /\ ~(Ended /\ job.head = Nil)

Reconcile ==
    /\ At("reconcile")
    /\ Open(job.rows) \subseteq {job.mem.pr}
    /\ ~Moved
    /\ LET m == IF Ended
                  THEN [Judged EXCEPT !.pr = 0, !.head = job.head, !.proposed = {}]
                  ELSE Judged
       IN Saves([m EXCEPT !.shown = IF Open(job.rows) = {} THEN {}
                                     ELSE (m.proposed \cap job.batch)
                                            \ (job.accepted \cup m.decided)],
                IF m.intent.kind = "push" THEN "repush" ELSE "decide")
    /\ Local

ReconcileStops ==
    /\ At("reconcile")
    /\ \/ ~(Open(job.rows) \subseteq {job.mem.pr}) /\ Attention(job.mem)
       \/ Open(job.rows) \subseteq {job.mem.pr} /\ Moved /\ Attention(Judged)
    /\ Local

(* Not accepted and not decided about. *)
Pending == job.batch \ (job.accepted \cup job.mem.decided)

Active == Open(job.rows) # {}

IdleCycle ==
    /\ At("decide")
    /\ Pending = {}
    /\ ~(Active /\ job.mem.proposed \cap job.mem.decided # {})
    /\ Completes(job.mem)
    /\ Local

(* Variant: what is proposed once stays as it is. *)
ChangedFirst == job.head = Nil \/ ~Active

Changed == job.mem.proposed # Pending \/ job.head = Nil \/ ~Active

(* Every commit that the remote, a receipt or a call on its way names. *)
Remembered ==
    {head, saved.head, job.head, job.mem.head}
        \cup UNION {{i.commit, i.expected} : i \in wire \cup {saved.intent, job.mem.intent}}

(* Other commits' names are free. *)
FreshIds == {id \in 1 .. MaxCommits : \A c \in Remembered \cap Commits : c.id # id}

(* prepare_commit: a new commit, even if it has the same contents. *)
Prepare ==
    /\ At("decide")
    /\ Pending # {} \/ (Active /\ job.mem.proposed \cap job.mem.decided # {})
    /\ Changed
    /\ FreshIds # {}
    /\ LET new == [id |-> CHOOSE id \in FreshIds : TRUE, has |-> Pending] IN
           Saves([job.mem EXCEPT !.intent =
                     [NoIntent EXCEPT !.kind = "push", !.commit = new,
                                      !.expected = job.head, !.revisions = Pending]], "push")
    /\ Local

Unchanged ==
    /\ At("decide")
    /\ Pending # {} \/ (Active /\ job.mem.proposed \cap job.mem.decided # {})
    /\ ~Changed
    /\ Goes("propose")
    /\ UNCHANGED saved
    /\ Local

-----------------------------------------------------------------------------
(* Calls to the remote. *)

(* Variant: push --force. *)
AcceptsAnything(i) == TRUE

(* push --force-with-lease, or there is nothing to do. *)
Accepts(i) == head \in {i.expected, i.commit}

Pushed ==
    /\ job.at \in {"push", "repush"}
    /\ LET i == job.mem.intent IN
           /\ Accepts(i)
           /\ head' = i.commit
           /\ Saves([job.mem EXCEPT !.head = i.commit, !.proposed = i.revisions,
                                    !.intent = NoIntent],
                    IF At("repush") THEN "decide" ELSE "propose")
    /\ UNCHANGED <<ledger, waiting, target, prs, wire, troubles>>

PushRefused ==
    /\ job.at \in {"push", "repush"}
    /\ ~Accepts(job.mem.intent)
    /\ Unknown(job.mem)
    /\ Local

ProposeUpdate ==
    /\ At("propose")
    /\ Active
    /\ Saves([job.mem EXCEPT !.intent = [NoIntent EXCEPT !.kind = "update", !.pr = job.mem.pr]],
             "update")
    /\ Local

Updated ==
    /\ At("update")
    /\ IF prs[job.mem.pr] = "open"
         THEN Saves([job.mem EXCEPT !.intent = NoIntent], "finish")
         ELSE Unknown(job.mem)
    /\ Local

(* Variant: the call first, the receipt afterwards. *)
ProposeUnsaved ==
    /\ At("propose")
    /\ ~Active
    /\ job.mem.cycle < MaxCycles
    /\ LET c == job.mem.cycle + 1 IN
           job' = [job EXCEPT !.at = "create", !.mem.cycle = c,
                              !.mem.intent = [NoIntent EXCEPT !.kind = "create", !.pr = c,
                                                              !.revisions = Pending]]
    /\ UNCHANGED saved
    /\ Local

ProposeNew ==
    /\ At("propose")
    /\ ~Active
    /\ job.mem.cycle < MaxCycles
    /\ LET c == job.mem.cycle + 1 IN
           Saves([job.mem EXCEPT !.cycle = c,
                                 !.intent = [NoIntent EXCEPT !.kind = "create", !.pr = c,
                                                             !.revisions = Pending]], "create")
    /\ Local

Created ==
    /\ At("create")
    /\ LET c == job.mem.intent.pr IN
           /\ prs' = [prs EXCEPT ![c] = "open"]
           /\ Saves([job.mem EXCEPT !.pr = c, !.intent = NoIntent], "finish")
    /\ UNCHANGED <<ledger, waiting, head, target, wire, troubles>>

(* What may be carried out later; a late update of the text changes nothing. *)
Late == wire \cup (IF At("update") THEN {} ELSE {job.mem.intent})

(* The answer is lost; the call may still be carried out. *)
CallLost ==
    /\ job.at \in Calling
    /\ troubles < MaxTroubles
    /\ troubles' = troubles + 1
    /\ wire' = Late
    /\ Unknown(job.mem)
    /\ UNCHANGED <<ledger, waiting, head, target, prs>>

ReadFails ==
    /\ job.at \in {"remote", "list"}
    /\ troubles < MaxTroubles
    /\ troubles' = troubles + 1
    /\ Unknown(job.mem)
    /\ UNCHANGED <<ledger, waiting, remote>>

Finish ==
    /\ At("finish")
    /\ Completes([job.mem EXCEPT !.shown = @ \cup Pending])
    /\ Local

(* run_automatic looks whether something was captured during the cycle. *)
Close ==
    /\ At("close")
    /\ job' = IF ledger # job.batch /\ job.round < MaxRounds
                THEN [Free EXCEPT !.at = "begin", !.round = job.round + 1]
                ELSE Free
    /\ UNCHANGED saved
    /\ Local

Die ==
    /\ job.at # "free"
    /\ troubles < MaxTroubles
    /\ troubles' = troubles + 1
    /\ job' = Free
    /\ wire' \in {wire} \cup (IF job.at \in Calling THEN {Late} ELSE {})
    /\ UNCHANGED <<ledger, saved, waiting, head, target, prs>>

-----------------------------------------------------------------------------
(* The remote. *)

Arrive(i) ==
    /\ i \in wire
    /\ wire' = wire \ {i}
    /\ \/ i.kind = "push" /\ Accepts(i) /\ head' = i.commit /\ UNCHANGED prs
       \/ i.kind = "push" /\ ~Accepts(i) /\ UNCHANGED <<head, prs>>
       \/ i.kind = "create" /\ prs' = [prs EXCEPT ![i.pr] = "open"] /\ UNCHANGED head
    /\ UNCHANGED <<ledger, saved, job, waiting, target, troubles>>

Merge(c) ==
    /\ prs[c] = "open"
    /\ c < MaxCycles
    /\ prs' = [prs EXCEPT ![c] = "merged"]
    /\ target' = IF head \in Commits THEN target \cup head.has ELSE target
    /\ head' \in {head, Nil}
    /\ UNCHANGED <<ledger, saved, job, waiting, wire, troubles>>

CloseRequest(c) ==
    /\ prs[c] = "open"
    /\ c < MaxCycles
    /\ prs' = [prs EXCEPT ![c] = "closed"]
    /\ UNCHANGED <<ledger, saved, job, waiting, head, target, wire, troubles>>

Intrude ==
    /\ head' = Foreign
    /\ UNCHANGED <<ledger, saved, job, waiting, target, prs, wire, troubles>>

TimePasses ==
    /\ saved.later
    /\ saved' = [saved EXCEPT !.later = FALSE]
    /\ job' = [job EXCEPT !.mem.later = FALSE]
    /\ UNCHANGED <<ledger, waiting, remote, troubles>>

-----------------------------------------------------------------------------
Step ==
    \/ Begin \/ Observe
    \/ Uncertain \/ SettleStops \/ SettleEnded \/ Settle
    \/ Reconcile \/ ReconcileStops
    \/ IdleCycle \/ Prepare \/ Unchanged
    \/ Pushed \/ PushRefused
    \/ ProposeUpdate \/ Updated \/ ProposeNew \/ Created
    \/ Finish \/ Close

Users ==
    \/ \E r \in Revisions : Capture(r)
    \/ \E r \in Judgeable : Withdraw(r) \/ Resume(r)
    \/ \E force \in BOOLEAN : Publish(force)

Remote ==
    \/ \E i \in wire : Arrive(i)
    \/ \E c \in Cycles : Merge(c) \/ CloseRequest(c)
    \/ Intrude

Next ==
    \/ Step \/ Acquire \/ GiveUp \/ Session \/ TimePasses
    \/ Users \/ Remote
    \/ CallLost \/ ReadFails \/ Die

Spec == Init /\ [][Next]_vars

(* A publisher that is not killed goes on, waiters get a lock that is free,
   time passes and sessions are opened. *)
FairSpec ==
    Spec /\ WF_vars(Step) /\ WF_vars(Acquire) /\ WF_vars(TimePasses) /\ WF_vars(Session)

-----------------------------------------------------------------------------
(* A commit of somebody else is never overwritten, whatever was lost, late or
   done twice: the publisher stops for an unexpected writer (push). *)
ForeignKept == [][head = Foreign /\ head' # head => job' = job /\ wire' = wire]_vars

(* One cumulative pull request: whatever was lost or late, two are never open
   at a time (reconcile). *)
OnePullRequest == Cardinality(Open(prs)) <= 1

(* What a completed cycle reports as proposed is in the commit that the open
   pull request shows (run_cycle). *)
ProposedIsShown ==
    \A c \in Cycles :
        /\ job.at = "close"
        /\ prs[c] = "open" /\ saved.pr = c
        /\ head \in Commits
        => saved.shown \subseteq head.has

(* The branch is not the one that the receipts name and was not deleted with
   the last pull request, or a call is not known to have been carried out: the
   publisher does not go on from there. *)
Stopped ==
    \/ saved.intent.kind \in {"push", "create"}
    \/ /\ head # saved.head
       /\ head # Nil \/ saved.pr = 0 \/ prs[saved.pr] = "open"

(* What is captured is proposed, accepted or decided about in the end, whatever
   was lost and whoever died, unless the publisher stops for good
   (run_automatic). *)
EveryCaptureProposed ==
    \A r \in Revisions :
        r \in ledger ~> r \in saved.shown \cup saved.decided \cup target \/ []Stopped

(* The publisher stops for an unexpected writer only: project-modes.md says
   that transient failures do not permanently exhaust its retries. *)
StopsForOthersOnly ==
    job.at = "list" /\ Overrun => Foreign \in {job.head, job.mem.intent.expected}
=============================================================================
