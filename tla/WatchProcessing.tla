--------------------------- MODULE WatchProcessing ---------------------------
(***************************************************************************)
(* The background comparison of kpop watch: native/src/watch_store.rs.     *)
(*                                                                         *)
(* Hooks and `kpop watch scan` file a request and, when no lease is        *)
(* running, launch a detached process.  The processor that gets            *)
(* processor.lock takes a ticket, compares a snapshot of the worktree,     *)
(* stores the result and stops if the request is still the one it took; it *)
(* makes at most MaxPasses passes.  Requests and the ticket are exchanged  *)
(* under request.lock; the worktree changes under everybody's feet.        *)
(*                                                                         *)
(* Time is the lease alone: lease is active.until minus the present, in    *)
(* ticks, and 0 once it has passed.                                        *)
(***************************************************************************)
EXTENDS Naturals, FiniteSets

CONSTANTS
    Procs,       \* processes that `watch _process` may run as
    Tickets,     \* identifiers of requests
    Versions,    \* identities of what a snapshot captures
    Conflicting, \* the versions whose comparison finds something
    Lease,       \* ticks a lease lasts (30 s)
    MaxPasses,   \* passes a processor makes (3)
    MaxCrashes,  \* bound on processes that die and on failed comparisons
    MaxChanges,  \* bound on changes of the worktree and on pauses
    Nil          \* no request, no result, no ticket

ASSUME ConstantsAssumption ==
    /\ Conflicting \subseteq Versions
    /\ Nil \notin Tickets \cup Versions
    /\ Lease \in Nat \ {0}
    /\ MaxPasses \in Nat \ {0}
    /\ MaxCrashes \in Nat
    /\ MaxChanges \in Nat

VARIABLES
    enabled,    \* config.enabled
    request,    \* request.json
    lease,      \* active.json
    result,     \* result.json
    content,    \* the worktree, its record and the base it is compared with
    pc,         \* where each process is; Running ones hold processor.lock
    ticket, passes, observed, draft,    \* the processor's locals
    crashes, changes,                   \* steps of the environment so far
    owed,       \* history variable: a request that waits for its comparison
    covers      \* history variable: observed was captured after that request

locals == <<ticket, passes, observed, draft>>
budget == <<crashes, changes>>
vars == <<enabled, request, lease, result, content, pc, locals, budget, owed, covers>>

Running == {"pass", "shared", "look", "recheck", "save", "finish", "giveup", "leaving"}
States == {"clear", "attention", "unavailable"}
Results == [identity : Versions \cup {Nil}, state : States]

TypeOK ==
    /\ enabled \in BOOLEAN
    /\ request \in Tickets \cup {Nil}
    /\ lease \in 0 .. Lease
    /\ result \in Results \cup {Nil}
    /\ content \in Versions
    /\ pc \in [Procs -> {"none", "launched"} \cup Running]
    /\ ticket \in Tickets \cup {Nil}
    /\ passes \in 0 .. MaxPasses
    /\ observed \in Versions \cup {Nil}
    /\ draft \in Results \cup {Nil}
    /\ crashes \in 0 .. MaxCrashes
    /\ changes \in 0 .. MaxChanges
    /\ owed \in BOOLEAN /\ covers \in BOOLEAN

(* Just after watch setup. *)
Init ==
    /\ enabled = TRUE
    /\ request = Nil /\ lease = 0 /\ result = Nil
    /\ content \in Versions
    /\ pc = [p \in Procs |-> "none"]
    /\ ticket = Nil /\ passes = 0 /\ observed = Nil /\ draft = Nil
    /\ crashes = 0 /\ changes = 0
    /\ owed = FALSE /\ covers = FALSE

Processing == {p \in Procs : pc[p] \in Running}

(* processor.lock is taken without waiting. *)
ProcessorFree == Processing = {}

-----------------------------------------------------------------------------
(* request_with.  Any request may be the one whose fate owed follows. *)

NewRequest(i) ==
    /\ i \notin {request, ticket}
    /\ request' = i
    /\ owed' \in {owed, TRUE}

(* Variant: a request that waits in request.json stands for a processor. *)
TakeLeaseOnce(from) ==
    IF lease > 0 \/ request # Nil
      THEN lease' = lease /\ pc' = from
      ELSE /\ lease' = Lease
           /\ \E p \in Procs : /\ from[p] = "none"
                               /\ pc' = [from EXCEPT ![p] = "launched"]

(* A request under a running lease counts on the processor it stands for;
   otherwise it takes the lease and launches one. *)
TakeLease(from) ==
    IF lease > 0
      THEN lease' = lease /\ pc' = from
      ELSE /\ lease' = Lease
           /\ \E p \in Procs : /\ from[p] = "none"
                               /\ pc' = [from EXCEPT ![p] = "launched"]

Request(i) ==
    /\ enabled
    /\ NewRequest(i)
    /\ TakeLease(pc)
    /\ UNCHANGED <<enabled, result, content, locals, budget, covers>>

(* The caller dies after request.json, or the process cannot be spawned. *)
RequestCutShort(i) ==
    /\ enabled
    /\ crashes < MaxCrashes
    /\ crashes' = crashes + 1
    /\ NewRequest(i)
    /\ lease = 0
    /\ lease' \in {0, Lease}
    /\ UNCHANGED <<enabled, result, content, pc, locals, changes, covers>>

-----------------------------------------------------------------------------
(* process_with *)

Goto(p, step) == pc' = [pc EXCEPT ![p] = step]

(* A process leaves at once if watch is paused or another one is busy. *)
Start(p) ==
    /\ pc[p] = "launched"
    /\ IF enabled /\ ProcessorFree
         THEN Goto(p, "pass") /\ passes' = 0
         ELSE Goto(p, "none") /\ passes' = passes
    /\ UNCHANGED <<enabled, request, lease, result, content, ticket, observed,
                   draft, budget, owed, covers>>

(* Variant: one pass more than the bound. *)
NextPassLate == IF passes <= MaxPasses THEN "pass" ELSE "giveup"

NextPass == IF passes < MaxPasses THEN "pass" ELSE "giveup"

TakeTicket(p) ==
    /\ pc[p] = "pass"
    /\ ticket' = request
    /\ lease' = Lease
    /\ passes' = passes + 1
    /\ Goto(p, "shared")
    /\ UNCHANGED <<enabled, request, result, content, observed, draft, budget,
                   owed, covers>>

(* watch_shared::process applied reports to the shared record, which is part
   of what is compared: request_all asks for this worktree again. *)
ApplyShared(p, v, i) ==
    /\ pc[p] = "shared"
    /\ changes < MaxChanges
    /\ changes' = changes + 1
    /\ v # content
    /\ content' = v
    /\ enabled
    /\ NewRequest(i)
    /\ TakeLease([pc EXCEPT ![p] = "look"])
    /\ UNCHANGED <<enabled, result, locals, crashes, covers>>

NothingShared(p) ==
    /\ pc[p] = "shared"
    /\ Goto(p, "look")
    /\ UNCHANGED <<enabled, request, lease, result, content, locals, budget,
                   owed, covers>>

Compared(v) == [identity |-> v,
                state |-> IF v \in Conflicting THEN "attention" ELSE "clear"]

(* Variant: the result of the last comparison is taken whatever it is of. *)
ObserveStored(p) ==
    /\ pc[p] = "look"
    /\ observed' = content
    /\ covers' = owed
    /\ draft' = IF result # Nil THEN result ELSE Compared(content)
    /\ Goto(p, "recheck")
    /\ UNCHANGED <<enabled, request, lease, result, content, ticket, passes,
                   budget, owed>>

(* A snapshot and its comparison; a stored result for the same identity that
   is not "unavailable" is taken instead. *)
Observe(p) ==
    /\ pc[p] = "look"
    /\ observed' = content
    /\ covers' = owed
    /\ draft' = IF result # Nil /\ result.identity = content /\ result.state # "unavailable"
                  THEN result ELSE Compared(content)
    /\ Goto(p, "recheck")
    /\ UNCHANGED <<enabled, request, lease, result, content, ticket, passes,
                   budget, owed>>

(* A snapshot or a comparison fails: the result says so. *)
Fail(p) ==
    /\ pc[p] \in {"shared", "look", "recheck"}
    /\ crashes < MaxCrashes
    /\ crashes' = crashes + 1
    /\ draft' = [identity |-> IF pc[p] = "recheck" THEN observed ELSE Nil,
                 state |-> "unavailable"]
    /\ covers' = IF pc[p] = "recheck" THEN covers ELSE owed
    /\ Goto(p, "save")
    /\ UNCHANGED <<enabled, request, lease, result, content, ticket, passes,
                   observed, changes, owed>>

(* A second snapshot: what has changed meanwhile is compared again. *)
Recheck(p) ==
    /\ pc[p] = "recheck"
    /\ Goto(p, IF content = observed THEN "save" ELSE NextPass)
    /\ UNCHANGED <<enabled, request, lease, result, content, locals, budget,
                   owed, covers>>

SaveResult(p) ==
    /\ pc[p] = "save"
    /\ result' = draft
    /\ owed' = (owed /\ ~covers)
    /\ covers' = FALSE
    /\ Goto(p, "finish")
    /\ UNCHANGED <<enabled, request, lease, content, locals, budget>>

(* Variant: the processor ends after its result, whoever asked meanwhile. *)
FinishAnyway(p) ==
    /\ pc[p] = "finish"
    /\ lease' = 0
    /\ Goto(p, "leaving")
    /\ UNCHANGED <<enabled, request, result, content, locals, budget, owed, covers>>

(* Under request.lock: nobody has asked since the ticket. *)
Finish(p) ==
    /\ pc[p] = "finish"
    /\ IF request = ticket
         THEN lease' = 0 /\ Goto(p, "leaving")
         ELSE lease' = lease /\ Goto(p, NextPass)
    /\ UNCHANGED <<enabled, request, result, content, locals, budget, owed, covers>>

(* Out of passes, and outside request.lock. *)
GiveUp(p) ==
    /\ pc[p] = "giveup"
    /\ lease' = 0
    /\ Goto(p, "leaving")
    /\ UNCHANGED <<enabled, request, result, content, locals, budget, owed, covers>>

(* request.lock is dropped before processor.lock. *)
Leave(p) ==
    /\ pc[p] = "leaving"
    /\ Goto(p, "none")
    /\ ticket' = Nil /\ passes' = 0 /\ observed' = Nil /\ draft' = Nil
    /\ covers' = FALSE
    /\ UNCHANGED <<enabled, request, lease, result, content, budget, owed>>

-----------------------------------------------------------------------------
(* The environment. *)

Crash(p) ==
    /\ pc[p] # "none"
    /\ crashes < MaxCrashes
    /\ crashes' = crashes + 1
    /\ Goto(p, "none")
    /\ IF pc[p] \in Running
         THEN /\ ticket' = Nil /\ passes' = 0 /\ observed' = Nil /\ draft' = Nil
              /\ covers' = FALSE
         ELSE UNCHANGED <<locals, covers>>
    /\ UNCHANGED <<enabled, request, lease, result, content, changes, owed>>

Change(v) ==
    /\ changes < MaxChanges
    /\ changes' = changes + 1
    /\ v # content
    /\ content' = v
    /\ UNCHANGED <<enabled, request, lease, result, pc, locals, crashes, owed, covers>>

(* pause, and setup after it. *)
Configure(on) ==
    /\ changes < MaxChanges
    /\ changes' = changes + 1
    /\ enabled # on
    /\ enabled' = on
    /\ UNCHANGED <<request, lease, result, content, pc, locals, crashes, owed, covers>>

Tick ==
    /\ lease > 0
    /\ lease' = lease - 1
    /\ UNCHANGED <<enabled, request, result, content, pc, locals, budget, owed, covers>>

-----------------------------------------------------------------------------
Process(p) ==
    \/ Start(p)
    \/ TakeTicket(p)
    \/ NothingShared(p)
    \/ Observe(p)
    \/ Recheck(p)
    \/ SaveResult(p)
    \/ Finish(p)
    \/ GiveUp(p)
    \/ Leave(p)

Next ==
    \/ \E i \in Tickets : Request(i) \/ RequestCutShort(i)
    \/ \E p \in Procs :
           \/ Process(p)
           \/ \E v \in Versions, i \in Tickets : ApplyShared(p, v, i)
           \/ Fail(p)
           \/ Crash(p)
    \/ \E v \in Versions : Change(v)
    \/ \E on \in BOOLEAN : Configure(on)
    \/ Tick

Spec == Init /\ [][Next]_vars

(* Processes run and time passes. *)
FairSpec ==
    Spec /\ WF_vars(Tick) /\ \A p \in Procs : WF_vars(Process(p))

(* And the session goes on: its hooks ask again after tools and prompts. *)
ActiveSpec == FairSpec /\ WF_vars(\E i \in Tickets : Request(i))

-----------------------------------------------------------------------------
(* A verdict that is stored, and the one about to be, is the verdict on the
   version it names, which two snapshots agreed on, however many processes
   died, failed or left their results behind: status compares only identities
   before it shows one. *)
VerdictOfItsVersion ==
    /\ result # Nil /\ result.state # "unavailable" =>
           result = Compared(result.identity)
    /\ \A p \in Procs :
           pc[p] = "save" /\ draft.state # "unavailable" => draft = Compared(observed)

(* Only one process is between processor.lock and its release, and its ticket
   never runs ahead of the requests: a processor that stops because nobody has
   asked since (process_with's `request == ticket`) leaves a result whose
   snapshot was captured after the last request. *)
NobodyLeftWaiting ==
    [][\A p \in Procs :
          pc[p] = "finish" /\ pc'[p] = "leaving" => ~owed']_vars

(* While the session's hooks keep asking, every request is followed by a
   result from a snapshot taken after it, whatever lease a dead process left
   behind (unless watch is paused). *)
EveryRequestServed == owed ~> (~owed \/ ~enabled)
=============================================================================
