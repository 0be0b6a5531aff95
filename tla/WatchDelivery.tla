---------------------------- MODULE WatchDelivery ----------------------------
(***************************************************************************)
(* How the findings of kpop watch reach one Codex session: `offer` of      *)
(* native/src/watch_store.rs, native/src/watch_delivery.rs and the watch   *)
(* hook of native/src/host_hooks.rs.                                       *)
(*                                                                         *)
(* Two channels serve the session.  The hook (one at a time, it holds the  *)
(* session's waiters lock) polls the stored result and prints what the     *)
(* session's receipt does not name.  A native background agent, dispatched *)
(* with a reserved job, waits for findings, claims the job, sends them as  *)
(* a message and reports the outcome.  A live job hides the hook.  Job and *)
(* receipt are read and written under delivery.lock, and between two such  *)
(* steps either channel can be overtaken by the other.                     *)
(***************************************************************************)
EXTENDS Naturals, FiniteSets

CONSTANTS
    Findings,    \* fingerprints of findings
    Outage,      \* the one finding of an "unavailable" result
    Agents,      \* native background agents
    Lease,       \* ticks a job's lease lasts (120 s)
    Batch,       \* findings in one notice (8)
    MaxJobs,     \* bound on reservations
    MaxResults,  \* bound on stored results
    MaxFailures  \* bound on processes that die and on failed status calls

ASSUME ConstantsAssumption ==
    /\ Outage \in Findings
    /\ Lease \in Nat \ {0}
    /\ Batch \in Nat \ {0}
    /\ MaxJobs \in Nat /\ MaxResults \in Nat /\ MaxFailures \in Nat

VARIABLES
    result,     \* result.json
    moved,      \* the worktree is not what result was drawn from
    receipt,    \* delivery/<session>.json
    job,        \* native/<session>.json
    lease,      \* the job's expires minus the present
    hook,       \* the hook that holds the waiters lock
    agent,      \* the background agents
    results, failures,  \* steps of the environment so far
    told,       \* history variable: findings printed or sent, with their episode
    doubtful,   \* history variable: those of which nobody knows that they were: a
                \* send of unknown outcome, or the death of a hook about to print
    held        \* history variable: findings of an uncertain send that the receipt
                \* names, since when neither channel consumed another report

history == <<told, doubtful, held>>
vars == <<result, moved, receipt, job, lease, hook, agent, results, failures, history>>

Episodes == 0 .. MaxResults
Reports == [state : {"clear", "attention", "unavailable"},
            findings : SUBSET Findings, episode : Episodes]
NoReport == [state |-> "clear", findings |-> {}, episode |-> 0]

JobStates == {"none", "reserved", "waiting", "sending", "quiet",
              "sent", "failed", "unknown", "expired"}

TypeOK ==
    /\ result \in Reports
    /\ moved \in BOOLEAN
    /\ receipt \in [ids : SUBSET Findings, episode : Episodes]
    /\ job \in [id : 0 .. MaxJobs, state : JobStates,
                findings : SUBSET Findings, episode : Episodes]
    /\ lease \in 0 .. Lease
    /\ hook \in [at : {"idle", "look", "poll", "offer", "print"},
                 got : Reports, out : SUBSET Findings]
    /\ agent \in [Agents -> [at : {"idle", "wait", "poll", "offer", "claim",
                                   "quiet", "send", "complete"},
                             job : 0 .. MaxJobs, got : Reports,
                             notice : SUBSET Findings,
                             outcome : {"none", "sent", "failed", "unknown"}]]
    /\ results \in 0 .. MaxResults
    /\ failures \in 0 .. MaxFailures
    /\ told \in SUBSET (Findings \X Episodes)
    /\ doubtful \in SUBSET (Findings \X Episodes)
    /\ held \in SUBSET Findings

IdleHook == [at |-> "idle", got |-> NoReport, out |-> {}]
IdleAgent == [at |-> "idle", job |-> 0, got |-> NoReport, notice |-> {},
              outcome |-> "none"]

(* Watch is set up; nothing was compared, offered or reserved. *)
Init ==
    /\ result = NoReport
    /\ moved = TRUE
    /\ receipt = [ids |-> {}, episode |-> 0]
    /\ job = [id |-> 0, state |-> "none", findings |-> {}, episode |-> 0]
    /\ lease = 0
    /\ hook = IdleHook
    /\ agent = [a \in Agents |-> IdleAgent]
    /\ results = 0 /\ failures = 0
    /\ told = {} /\ doubtful = {} /\ held = {}

-----------------------------------------------------------------------------
(* The processor stores a result (process_with).  The episode goes on while
   the state stays the same. *)
StoreResult(state, found) ==
    /\ results < MaxResults
    /\ results' = results + 1
    /\ state = "clear" => found = {}
    /\ state = "attention" => found # {} /\ Outage \notin found
    /\ state = "unavailable" => found = {Outage}
    /\ result' = [state |-> state, findings |-> found,
                  episode |-> IF results > 0 /\ state = result.state
                                THEN result.episode ELSE results + 1]
    /\ moved' = FALSE
    /\ held' = IF result'.episode = result.episode THEN held \cap found ELSE {}
    /\ UNCHANGED <<receipt, job, lease, hook, agent, failures, told, doubtful>>

Move ==
    /\ ~moved
    /\ results < MaxResults
    /\ moved' = TRUE
    /\ UNCHANGED <<result, receipt, job, lease, hook, agent, results, failures,
                   history>>

-----------------------------------------------------------------------------
(* offer *)

Offered(r) == IF receipt.episode = r.episode THEN receipt.ids ELSE {}

Fresh(r) == r.findings \ Offered(r)

(* The first findings of a report that the receipt does not name. *)
Notices(r) ==
    {n \in SUBSET Fresh(r) :
        Cardinality(n) = IF Cardinality(Fresh(r)) < Batch
                           THEN Cardinality(Fresh(r)) ELSE Batch}

(* A consumed offer forgets the findings that the report no longer has. *)
Consumed(r, notice) ==
    [ids |-> (Offered(r) \cap r.findings) \cup notice, episode |-> r.episode]

Speaks(r) == r.state # "clear"

-----------------------------------------------------------------------------
(* The hook (host_hooks.rs, watch). *)

(* Variant: a job hides the hook until somebody ends it. *)
HiddenUntilEnded == job.state \in {"reserved", "waiting", "sending"}

Hidden == job.state \in {"reserved", "waiting", "sending"} /\ lease > 0

HookStart ==
    /\ hook.at = "idle"
    /\ hook' = [hook EXCEPT !.at = "look"]
    /\ UNCHANGED <<result, moved, receipt, job, lease, agent, results, failures,
                   history>>

(* hidden is read without delivery.lock, once per turn of the loop. *)
HookLook ==
    /\ hook.at = "look"
    /\ hook' = IF Hidden THEN IdleHook ELSE [hook EXCEPT !.at = "poll"]
    /\ UNCHANGED <<result, moved, receipt, job, lease, agent, results, failures,
                   history>>

(* poll_result and status: a report of another version is not shown.  The
   hook waits for one until its deadline. *)
HookPoll ==
    /\ hook.at = "poll"
    /\ IF moved \/ results = 0
         THEN hook' \in {IdleHook, [hook EXCEPT !.at = "look"]}
         ELSE hook' = [hook EXCEPT !.at = "offer", !.got = result]
    /\ UNCHANGED <<result, moved, receipt, job, lease, agent, results, failures,
                   history>>

(* status cannot capture a snapshot: its answer is of no episode. *)
Unavailable == [state |-> "unavailable", findings |-> {Outage}, episode |-> 0]

HookPollFails ==
    /\ hook.at = "poll"
    /\ results > 0
    /\ failures < MaxFailures
    /\ failures' = failures + 1
    /\ hook' = [hook EXCEPT !.at = "offer", !.got = Unavailable]
    /\ UNCHANGED <<result, moved, receipt, job, lease, agent, results, history>>

(* offer with consume: the receipt is saved before anything is printed, and a
   clear report empties it. *)
HookOffer ==
    /\ hook.at = "offer"
    /\ IF Speaks(hook.got)
         THEN \E n \in Notices(hook.got) :
                  /\ receipt' = Consumed(hook.got, n)
                  /\ hook' = IF n = {} THEN IdleHook
                             ELSE [hook EXCEPT !.at = "print", !.out = n]
                  /\ held' = IF hook.got.episode = receipt.episode
                               THEN held \cap hook.got.findings ELSE {}
         ELSE /\ receipt' = [ids |-> {}, episode |-> 0]
              /\ hook' = IdleHook
              /\ held' = {}
    /\ UNCHANGED <<result, moved, job, lease, agent, results, failures, told, doubtful>>

(* What the hook has on its receipt and not printed yet. *)
Unprinted == IF hook.at = "print" THEN hook.out \X {hook.got.episode} ELSE {}

HookPrint ==
    /\ hook.at = "print"
    /\ hook' = IdleHook
    /\ told' = told \cup Unprinted
    /\ UNCHANGED <<result, moved, receipt, job, lease, agent, results, failures,
                   doubtful, held>>

HookDie ==
    /\ hook.at # "idle"
    /\ failures < MaxFailures
    /\ failures' = failures + 1
    /\ hook' = IdleHook
    /\ doubtful' = doubtful \cup Unprinted
    /\ UNCHANGED <<result, moved, receipt, job, lease, agent, results, told, held>>

-----------------------------------------------------------------------------
(* The native job: reserve, wait, complete, resume. *)

Unchanged == UNCHANGED <<result, moved, hook, results, failures>>

Reserve ==
    /\ lease = 0
    /\ job.id < MaxJobs
    /\ job' = [id |-> job.id + 1, state |-> "reserved", findings |-> {}, episode |-> 0]
    /\ lease' = Lease
    /\ UNCHANGED <<receipt, agent, history>>
    /\ Unchanged

(* The host runs the packet's wait_command, twice if it retries, or never. *)
Dispatch(a) ==
    /\ agent[a].at = "idle"
    /\ job.id > 0
    /\ job.state = "reserved"
    /\ agent' = [agent EXCEPT ![a] = [IdleAgent EXCEPT !.at = "wait", !.job = job.id]]
    /\ UNCHANGED <<receipt, job, lease, history>>
    /\ Unchanged

Mine(a) == agent[a].job = job.id

(* Variant: a job that is alive can be waited on, whatever its state. *)
WaitStartAlive(a) ==
    /\ agent[a].at = "wait"
    /\ IF Mine(a) /\ lease > 0
         THEN /\ job' = [job EXCEPT !.state = "waiting"]
              /\ lease' = Lease
              /\ agent' = [agent EXCEPT ![a].at = "poll"]
         ELSE /\ agent' = [agent EXCEPT ![a] = IdleAgent]
              /\ UNCHANGED <<job, lease>>
    /\ UNCHANGED <<receipt, history>>
    /\ Unchanged

WaitStart(a) ==
    /\ agent[a].at = "wait"
    /\ IF Mine(a) /\ job.state = "reserved" /\ lease > 0
         THEN /\ job' = [job EXCEPT !.state = "waiting"]
              /\ lease' = Lease
              /\ agent' = [agent EXCEPT ![a].at = "poll"]
         ELSE /\ agent' = [agent EXCEPT ![a] = IdleAgent]
              /\ UNCHANGED <<job, lease>>
    /\ UNCHANGED <<receipt, history>>
    /\ Unchanged

(* A report with findings is offered; any other one ends the wait, as the
   deadline does when there is none. *)
WaitPoll(a) ==
    /\ agent[a].at = "poll"
    /\ agent' = IF ~moved /\ results > 0 /\ Speaks(result)
                  THEN [agent EXCEPT ![a].at = "offer", ![a].got = result]
                  ELSE [agent EXCEPT ![a].at = "quiet"]
    /\ UNCHANGED <<receipt, job, lease, history>>
    /\ Unchanged

WaitPollFails(a) ==
    /\ agent[a].at = "poll"
    /\ results > 0
    /\ failures < MaxFailures
    /\ failures' = failures + 1
    /\ agent' = [agent EXCEPT ![a].at = "offer", ![a].got = Unavailable]
    /\ UNCHANGED <<result, moved, receipt, job, lease, hook, results, history>>

(* Variant: the receipt is saved with the notice, before anything is sent. *)
WaitOfferConsumed(a) ==
    /\ agent[a].at = "offer"
    /\ \E n \in Notices(agent[a].got) :
           /\ agent' = IF n = {}
                         THEN [agent EXCEPT ![a].at = "quiet", ![a].got = NoReport]
                         ELSE [agent EXCEPT ![a].at = "claim", ![a].notice = n]
           /\ receipt' = Consumed(agent[a].got, n)
    /\ UNCHANGED <<job, lease, history>>
    /\ Unchanged

(* offer without consume: the receipt is read and left alone. *)
WaitOffer(a) ==
    /\ agent[a].at = "offer"
    /\ \E n \in Notices(agent[a].got) :
           agent' = IF n = {}
                      THEN [agent EXCEPT ![a].at = "quiet", ![a].got = NoReport]
                      ELSE [agent EXCEPT ![a].at = "claim", ![a].notice = n]
    /\ UNCHANGED <<receipt, job, lease, history>>
    /\ Unchanged

(* Variant: the lease is extended instead of begun again. *)
WaitClaimExtends(a) ==
    /\ agent[a].at = "claim"
    /\ IF Mine(a) /\ job.state = "waiting"
         THEN /\ job' = [job EXCEPT !.state = "sending",
                                    !.findings = agent[a].notice,
                                    !.episode = agent[a].got.episode]
              /\ lease' = lease + Lease
              /\ agent' = [agent EXCEPT ![a].at = "send"]
         ELSE /\ agent' = [agent EXCEPT ![a] = IdleAgent]
              /\ UNCHANGED <<job, lease>>
    /\ UNCHANGED <<receipt, history>>
    /\ Unchanged

WaitClaim(a) ==
    /\ agent[a].at = "claim"
    /\ IF Mine(a) /\ job.state = "waiting"
         THEN /\ job' = [job EXCEPT !.state = "sending",
                                    !.findings = agent[a].notice,
                                    !.episode = agent[a].got.episode]
              /\ lease' = Lease
              /\ agent' = [agent EXCEPT ![a].at = "send"]
         ELSE /\ agent' = [agent EXCEPT ![a] = IdleAgent]
              /\ UNCHANGED <<job, lease>>
    /\ UNCHANGED <<receipt, history>>
    /\ Unchanged

(* The end of a wait does not look at the state it overwrites. *)
WaitQuiet(a) ==
    /\ agent[a].at = "quiet"
    /\ IF Mine(a)
         THEN job' = [job EXCEPT !.state = "quiet"] /\ lease' = 0
         ELSE UNCHANGED <<job, lease>>
    /\ agent' = [agent EXCEPT ![a] = IdleAgent]
    /\ UNCHANGED <<receipt, history>>
    /\ Unchanged

Notice(a) == agent[a].notice \X {agent[a].got.episode}

(* The host's messaging tool, which may not know what became of a message. *)
Send(a) ==
    /\ agent[a].at = "send"
    /\ \E outcome \in {"sent", "failed", "unknown"} :
           /\ agent' = [agent EXCEPT ![a] = [IdleAgent EXCEPT !.at = "complete",
                                             !.job = agent[a].job, !.outcome = outcome]]
           /\ told' = IF outcome = "sent" THEN told \cup Notice(a) ELSE told
           /\ doubtful' = IF outcome = "unknown" THEN doubtful \cup Notice(a) ELSE doubtful
    /\ UNCHANGED <<receipt, job, lease, held>>
    /\ Unchanged

(* The receipt that names what the job sent. *)
Delivered ==
    [ids |-> job.findings \cup (IF receipt.episode = job.episode THEN receipt.ids ELSE {}),
     episode |-> job.episode]

NowUncertain(a) ==
    IF agent[a].outcome = "unknown" /\ job.episode = result.episode
      THEN job.findings \cap result.findings ELSE {}

StillHeld(a) ==
    IF agent[a].outcome = "failed" \/ job.episode = receipt.episode THEN held ELSE {}

(* Variant: an unknown outcome is handled like a failed one. *)
CompleteUnknownAsFailed(a) ==
    /\ agent[a].at = "complete"
    /\ IF Mine(a) /\ job.state = "sending"
         THEN /\ job' = [job EXCEPT !.state = agent[a].outcome]
              /\ lease' = 0
              /\ receipt' = IF agent[a].outcome # "sent" THEN receipt
                            ELSE Delivered
              /\ held' = StillHeld(a) \cup NowUncertain(a)
         ELSE UNCHANGED <<job, lease, receipt, held>>
    /\ agent' = [agent EXCEPT ![a] = IdleAgent]
    /\ UNCHANGED <<told, doubtful>>
    /\ Unchanged

Complete(a) ==
    /\ agent[a].at = "complete"
    /\ IF Mine(a) /\ job.state = "sending"
         THEN /\ job' = [job EXCEPT !.state = agent[a].outcome]
              /\ lease' = 0
              /\ receipt' = IF agent[a].outcome = "failed" THEN receipt
                            ELSE Delivered
              /\ held' = StillHeld(a) \cup NowUncertain(a)
         ELSE UNCHANGED <<job, lease, receipt, held>>
    /\ agent' = [agent EXCEPT ![a] = IdleAgent]
    /\ UNCHANGED <<told, doubtful>>
    /\ Unchanged

(* A new session start: what an uncertain send may have lost is offered again. *)
Resume ==
    /\ job.state = "unknown"
    /\ receipt' = [ids |-> {}, episode |-> 0]
    /\ job' = [job EXCEPT !.state = "expired"]
    /\ lease' = 0
    /\ held' = {}
    /\ UNCHANGED <<agent, told, doubtful>>
    /\ Unchanged

(* Both save the receipt first, and die before the job. *)
CompleteCutShort(a) ==
    /\ agent[a].at = "complete"
    /\ Mine(a) /\ job.state = "sending" /\ agent[a].outcome # "failed"
    /\ failures < MaxFailures
    /\ failures' = failures + 1
    /\ receipt' = Delivered
    /\ held' = StillHeld(a) \cup NowUncertain(a)
    /\ agent' = [agent EXCEPT ![a] = IdleAgent]
    /\ UNCHANGED <<result, moved, job, lease, hook, results, told, doubtful>>

ResumeCutShort ==
    /\ job.state = "unknown"
    /\ failures < MaxFailures
    /\ failures' = failures + 1
    /\ receipt' = [ids |-> {}, episode |-> 0]
    /\ held' = {}
    /\ UNCHANGED <<result, moved, job, lease, hook, agent, results, told, doubtful>>

AgentDie(a) ==
    /\ agent[a].at # "idle"
    /\ failures < MaxFailures
    /\ failures' = failures + 1
    /\ agent' = [agent EXCEPT ![a] = IdleAgent]
    /\ UNCHANGED <<result, moved, receipt, job, lease, hook, results, history>>

Tick ==
    /\ lease > 0
    /\ lease' = lease - 1
    /\ UNCHANGED <<result, moved, receipt, job, hook, agent, results, failures,
                   history>>

-----------------------------------------------------------------------------
Hook == HookStart \/ HookLook \/ HookPoll \/ HookOffer \/ HookPrint

Agent(a) ==
    \/ Dispatch(a)
    \/ WaitStart(a)
    \/ WaitPoll(a)
    \/ WaitOffer(a)
    \/ WaitClaim(a)
    \/ WaitQuiet(a)
    \/ Send(a)
    \/ Complete(a)

Next ==
    \/ \E state \in {"clear", "attention", "unavailable"}, found \in SUBSET Findings :
           StoreResult(state, found)
    \/ Move
    \/ Hook
    \/ HookPollFails
    \/ HookDie
    \/ Reserve
    \/ \E a \in Agents : Agent(a) \/ WaitPollFails(a) \/ CompleteCutShort(a) \/ AgentDie(a)
    \/ Resume
    \/ ResumeCutShort
    \/ Tick

Spec == Init /\ [][Next]_vars

(* The session goes on, so hooks keep running, and time passes.  Nothing is
   assumed of agents: a host need not dispatch one, nor let it finish. *)
FairSpec == Spec /\ WF_vars(Hook) /\ WF_vars(Tick)

-----------------------------------------------------------------------------
(* A receipt silences nothing that the session was not told.  Each of its ids
   was printed by the hook or sent by an agent in the receipt's episode, or is
   about to be printed; the exceptions are a send whose outcome the host does
   not know and a hook that died after it had saved the receipt, and they are
   recorded when they happen, not when the receipt is written. *)
ReceiptHonest ==
    \A f \in receipt.ids : <<f, receipt.episode>> \in told \cup doubtful \cup Unprinted

(* However often the host runs a packet's wait_command, one agent at most
   sends for a job: no two hold a notice under the same claim. *)
OneSender ==
    \A a, b \in Agents :
        /\ agent[a].at \in {"send", "complete"}
        /\ agent[b].at \in {"send", "complete"}
        /\ agent[a].job = agent[b].job
        => a = b

(* It is decided to tell the session a finding of the episode e: the hook's
   offer, an agent's claim. *)
Telling(f, e) ==
    \/ /\ hook.at = "offer" /\ hook'.at = "print"
       /\ f \in hook'.out /\ e = hook.got.episode
    \/ \E a \in Agents :
           /\ agent[a].at = "claim" /\ agent'[a].at = "send"
           /\ f \in agent[a].notice /\ e = agent[a].got.episode

(* A finding whose send is uncertain is told again in the episode of the result
   only after the hook has consumed a report that did not have it, or either
   channel one of another episode, or after a resume (compatibility.md:40 says:
   only after a resume). *)
UncertainHeld ==
    [][\A f \in held : ~Telling(f, result.episode)]_vars

(* Failed, expired and abandoned jobs leave the hook as a fallback
   (compatibility.md:39): a finding that stays is printed or sent in the end,
   whatever failed before, unless a receipt names it that a hook which died
   before its output has left, or a send of which nobody knows. *)
FindingReachesSession ==
    \A f \in Findings :
        <>[](f \in result.findings /\ ~moved) =>
            <>[]\/ <<f, result.episode>> \in told
                \/ f \in Offered(result) /\ <<f, result.episode>> \in doubtful
=============================================================================
