--------------------------- MODULE GroupTransition ---------------------------
(***************************************************************************)
(* A change of authority for the records of several worktrees at once:     *)
(* publish and recover of native/src/history_group_activation.rs, with     *)
(* what they call in history_activation.rs and history_transaction_fs.rs.  *)
(*                                                                         *)
(* The group is prepared.  Publishing it writes a coordinator beside the   *)
(* first member, a guard into every member, a marker that all guards are   *)
(* there, the files of one member after the other, a proof of completion,  *)
(* and takes guards, marker and coordinator away.  A call holds the locks  *)
(* of all members, so that readers and managed writers come only when none *)
(* runs; it may die after any file, and people edit records when they      *)
(* like.  A recovery goes forward or back.  Going back from an activation  *)
(* that was ready leaves its objects and a receipt, and a new legacy       *)
(* authority in every member.                                              *)
(***************************************************************************)
EXTENDS Naturals

CONSTANTS
    N,          \* members of the group, in path order
    MaxEdits,   \* bound on edits by people and managed writers
    MaxStops    \* bound on calls that die

ASSUME ConstantsAssumption ==
    /\ N \in Nat /\ N >= 2
    /\ MaxEdits \in Nat /\ MaxStops \in Nat

Entries == 1 .. N

VARIABLES
    direction,      \* what was prepared
    record,         \* record[e]: the image that the record of e shows
    authority,      \* authority[e]: its authority marker
    objects,        \* members with the history objects of the reserved generation
    receipt,        \* members with a cancellation receipt
    guard,          \* members with a local guard
    coordinator, ready, cancel,   \* the group's files that exist
    complete,       \* the proof of completion
    call,           \* the call that runs, and the member it is at
    edits, stops,   \* steps of the environment so far
    told,           \* history variable: the last answer to a reader
    raced           \* history variable: members edited since the running call
                    \* last looked at them

files == <<record, authority, objects, receipt>>
journals == <<guard, coordinator, ready, cancel, complete>>
history == <<told, raced>>
vars == <<direction, files, journals, call, edits, stops, history>>

Idle == [at |-> "idle", way |-> "none", on |-> 1]

Points == {"coordinator", "guards", "check", "ready", "targets", "cancel",
           "objects", "receipt", "record", "authority", "final", "complete",
           "unguard", "unready", "uncancel", "close"}

(* How a call goes about it: "unready" gives up what was never ready. *)
Ways == {"publish", "after", "before", "compensate", "unready"}

TypeOK ==
    /\ direction \in {"activate", "deactivate"}
    /\ record \in [Entries -> {"before", "after", "other"}]
    /\ authority \in [Entries -> {"before", "after", "cancelled"}]
    /\ objects \subseteq Entries /\ receipt \subseteq Entries
    /\ guard \subseteq Entries
    /\ coordinator \in BOOLEAN /\ ready \in BOOLEAN /\ cancel \in BOOLEAN
    /\ complete \in {"none", "after", "before", "compensate", "unready"}
    /\ \/ call = Idle
       \/ call \in [at : Points, way : Ways, on : Entries]
    /\ edits \in 0 .. MaxEdits /\ stops \in 0 .. MaxStops
    /\ told \in {"nothing", "before", "after", "cancelled"}
    /\ raced \subseteq Entries

Init ==
    /\ direction \in {"activate", "deactivate"}
    /\ record = [e \in Entries |-> "before"]
    /\ authority = [e \in Entries |-> "before"]
    /\ objects = {} /\ receipt = {} /\ guard = {}
    /\ coordinator = FALSE /\ ready = FALSE /\ cancel = FALSE
    /\ complete = "none"
    /\ call = Idle
    /\ edits = 0 /\ stops = 0
    /\ told = "nothing" /\ raced = {}

-----------------------------------------------------------------------------
(* What a call requires of the members. *)

(* transition_targets and mutable_before *)
Untouched(e) == record[e] = "before" /\ authority[e] = "before"

(* transition_targets *)
Between(e) == record[e] \in {"before", "after"} /\ authority[e] \in {"before", "after"}

(* Variant: the marker alone is looked at. *)
CompensableMarker(e) == authority[e] = "cancelled" => e \in receipt /\ e \in objects

(* verify_cancellation of what is not complete *)
Compensable(e) ==
    /\ record[e] \in {"before", "after"}
    /\ authority[e] = "cancelled" => e \in receipt /\ e \in objects

(* cancel_unready: no member shows what was to come, and what was edited is
   not behind the group's guard. *)
Unreleased(e) ==
    /\ record[e] # "after" /\ authority[e] = "before" /\ e \notin objects
    /\ record[e] = "other" => e \notin guard

(* The images that a call leaves in every member. *)
RecordImage(way) == IF way \in {"publish", "after"} THEN "after" ELSE "before"

AuthorityImage(way) ==
    IF way \in {"publish", "after"} THEN "after"
    ELSE IF way = "compensate" THEN "cancelled" ELSE "before"

(* terminal_images, and verify_cancellation of what is complete *)
Ended(way, e) ==
    IF way = "unready"
      THEN Unreleased(e)
      ELSE /\ record[e] = RecordImage(way)
           /\ authority[e] = AuthorityImage(way)
           /\ direction = "activate" => e \in objects
           /\ way = "compensate" => e \in receipt

-----------------------------------------------------------------------------
(* Calls begin: they take every lock and look at every member. *)

Begin(at, way) ==
    /\ call' = [at |-> at, way |-> way, on |-> 1]
    /\ raced' = {}
    /\ UNCHANGED <<direction, files, journals, edits, stops, told>>

Publish ==
    /\ call = Idle
    /\ complete = "none" /\ ~coordinator /\ ~ready /\ ~cancel /\ guard = {}
    /\ \A e \in Entries : Untouched(e)
    /\ Begin("coordinator", "publish")

Recovering == call = Idle /\ coordinator

(* Variant: forward although a cancellation has begun. *)
RecoverAfterCancel ==
    /\ Recovering
    /\ complete = "none"
    /\ IF ready
         THEN guard = Entries /\ \A e \in Entries : Between(e)
         ELSE \A e \in Entries : Untouched(e)
    /\ Begin("guards", "after")

RecoverAfter ==
    /\ Recovering
    /\ complete = "none" /\ ~cancel
    /\ IF ready
         THEN guard = Entries /\ \A e \in Entries : Between(e)
         ELSE \A e \in Entries : Untouched(e)
    /\ Begin("guards", "after")

(* A deactivation goes back to its before images. *)
RecoverBefore ==
    /\ Recovering
    /\ complete = "none" /\ ready
    /\ direction = "deactivate"
    /\ guard = Entries /\ \A e \in Entries : Between(e)
    /\ Begin("guards", "before")

(* An activation that was ready is compensated. *)
Compensate ==
    /\ Recovering
    /\ complete = "none" /\ ready
    /\ direction = "activate"
    /\ guard = Entries /\ \A e \in Entries : Compensable(e)
    /\ Begin("cancel", "compensate")

CancelUnready ==
    /\ Recovering
    /\ complete = "none" /\ ~ready /\ ~cancel
    /\ \A e \in Entries : Unreleased(e)
    /\ Begin("final", "unready")

(* Variant: every guard must still be there. *)
RecoverCompleteGuarded ==
    /\ Recovering
    /\ complete # "none"
    /\ cancel => complete # "after"
    /\ guard = Entries
    /\ \A e \in Entries : Ended(complete, e)
    /\ Begin("unguard", complete)

(* What is complete is only cleaned up, if its members still are as proved. *)
RecoverComplete ==
    /\ Recovering
    /\ complete # "none"
    /\ cancel => complete # "after"
    /\ \A e \in Entries : Ended(complete, e)
    /\ Begin("unguard", complete)

-----------------------------------------------------------------------------
(* The steps of a call, a file each. *)

Goto(at) == call' = [call EXCEPT !.at = at]

(* Variant: one member too many. *)
ForEachAndOne(first, then) ==
    call' = IF call.on <= N THEN [call EXCEPT !.at = first, !.on = @ + 1]
                            ELSE [call EXCEPT !.at = then, !.on = 1]

(* The same for the next member, then what follows. *)
ForEach(first, then) ==
    call' = IF call.on < N THEN [call EXCEPT !.at = first, !.on = @ + 1]
                           ELSE [call EXCEPT !.at = then, !.on = 1]

PutCoordinator ==
    /\ call.at = "coordinator"
    /\ coordinator' = TRUE
    /\ Goto("guards")
    /\ UNCHANGED <<direction, files, guard, ready, cancel, complete, edits, stops, history>>

(* install_guards *)
PutGuard ==
    /\ call.at = "guards"
    /\ guard' = guard \cup {call.on}
    /\ ForEach("guards", IF call.way = "publish" THEN "check" ELSE "ready")
    /\ UNCHANGED <<direction, files, coordinator, ready, cancel, complete, edits, stops, history>>

(* Every member is looked at; the call ends if one is not as it must be. *)
Look(at, fits, next) ==
    /\ call.at = at
    /\ IF fits THEN Goto(next) ELSE call' = Idle
    /\ raced' = {}
    /\ UNCHANGED <<direction, files, journals, edits, stops, told>>

CheckGuarded ==
    Look("check", guard = Entries /\ \A e \in Entries : Untouched(e), "ready")

PutReady ==
    /\ call.at = "ready"
    /\ ready' = TRUE
    /\ Goto("targets")
    /\ UNCHANGED <<direction, files, guard, coordinator, cancel, complete, edits, stops, history>>

CheckTargets ==
    Look("targets", \A e \in Entries : Between(e),
         IF call.way = "before" THEN "record" ELSE "objects")

PutCancel ==
    /\ call.at = "cancel"
    /\ cancel' = TRUE
    /\ Goto("objects")
    /\ UNCHANGED <<direction, files, guard, coordinator, ready, complete, edits, stops, history>>

PutObjects ==
    /\ call.at = "objects"
    /\ objects' = IF direction = "activate" THEN objects \cup {call.on} ELSE objects
    /\ Goto(IF call.way = "compensate" THEN "receipt" ELSE "record")
    /\ UNCHANGED <<direction, record, authority, receipt, journals, edits, stops, history>>

PutReceipt ==
    /\ call.at = "receipt"
    /\ receipt' = receipt \cup {call.on}
    /\ Goto("record")
    /\ UNCHANGED <<direction, record, authority, objects, journals, edits, stops, history>>

PutRecord ==
    /\ call.at = "record"
    /\ record' = [record EXCEPT ![call.on] = RecordImage(call.way)]
    /\ Goto("authority")
    /\ UNCHANGED <<direction, authority, objects, receipt, journals, edits, stops, history>>

PutAuthority ==
    /\ call.at = "authority"
    /\ authority' = [authority EXCEPT ![call.on] = AuthorityImage(call.way)]
    /\ ForEach(IF call.way = "before" THEN "record" ELSE "objects", "final")
    /\ UNCHANGED <<direction, record, objects, receipt, journals, edits, stops, history>>

CheckFinal == Look("final", \A e \in Entries : Ended(call.way, e), "complete")

PutComplete ==
    /\ call.at = "complete"
    /\ complete' = IF call.way = "publish" THEN "after" ELSE call.way
    /\ Goto("unguard")
    /\ UNCHANGED <<direction, files, guard, coordinator, ready, cancel, edits, stops, history>>

(* cleanup *)
RemoveGuard ==
    /\ call.at = "unguard"
    /\ guard' = guard \ {call.on}
    /\ ForEach("unguard", "unready")
    /\ UNCHANGED <<direction, files, coordinator, ready, cancel, complete, edits, stops, history>>

RemoveReady ==
    /\ call.at = "unready"
    /\ ready' = FALSE
    /\ Goto("uncancel")
    /\ UNCHANGED <<direction, files, guard, coordinator, cancel, complete, edits, stops, history>>

RemoveCancel ==
    /\ call.at = "uncancel"
    /\ cancel' = FALSE
    /\ Goto("close")
    /\ UNCHANGED <<direction, files, guard, coordinator, ready, complete, edits, stops, history>>

RemoveCoordinator ==
    /\ call.at = "close"
    /\ coordinator' = FALSE
    /\ call' = Idle
    /\ UNCHANGED <<direction, files, guard, ready, cancel, complete, edits, stops, history>>

Step ==
    \/ PutCoordinator \/ PutGuard \/ CheckGuarded \/ PutReady
    \/ CheckTargets \/ PutCancel
    \/ PutObjects \/ PutReceipt \/ PutRecord \/ PutAuthority
    \/ CheckFinal \/ PutComplete
    \/ RemoveGuard \/ RemoveReady \/ RemoveCancel \/ RemoveCoordinator

-----------------------------------------------------------------------------
(* A call dies, or something else that it asks for is not so: its locks go,
   its files stay. *)
Stop ==
    /\ call # Idle
    /\ stops < MaxStops
    /\ stops' = stops + 1
    /\ call' = Idle
    /\ UNCHANGED <<direction, files, journals, edits, history>>

(* A reader takes the lock of one member and refuses it if it is guarded. *)
Read(e) ==
    /\ call = Idle
    /\ e \notin guard
    /\ told' = authority[e]
    /\ UNCHANGED <<direction, files, journals, call, edits, stops, raced>>

(* Somebody changes a record by hand, or a writer one that it may change. *)
Edit(e) ==
    /\ edits < MaxEdits
    /\ edits' = edits + 1
    /\ record' = [record EXCEPT ![e] = "other"]
    /\ raced' = IF call = Idle THEN raced ELSE raced \cup {e}
    /\ UNCHANGED <<direction, authority, objects, receipt, journals, call, stops, told>>

(* The owner puts an edit aside and restores the image that recovery asks for. *)
Asked ==
    IF complete = "none" THEN IF ready THEN {"before", "after"} ELSE {"before"}
    ELSE {IF complete = "after" THEN "after" ELSE "before"}

Restore(e) ==
    /\ call = Idle
    /\ coordinator
    /\ record[e] = "other"
    /\ \E image \in Asked : record' = [record EXCEPT ![e] = image]
    /\ UNCHANGED <<direction, authority, objects, receipt, journals, call, edits, stops, history>>

Recover == RecoverAfter \/ RecoverBefore \/ Compensate \/ CancelUnready \/ RecoverComplete

Next ==
    \/ Publish \/ Recover \/ Step \/ Stop
    \/ \E e \in Entries : Read(e) \/ Edit(e) \/ Restore(e)

Spec == Init /\ [][Next]_vars

Fairness ==
    /\ WF_vars(Step)
    /\ WF_vars(Recover)
    /\ WF_vars(\E e \in Entries : Restore(e))

FairSpec == Spec /\ Fairness

-----------------------------------------------------------------------------
(* The authority of the group, by what is proved complete. *)
Standing == IF complete = "none" THEN "before" ELSE AuthorityImage(complete)

Group == INSTANCE AtomicGroup
             WITH standing <- Standing, givenUp <- cancel \/ complete = "compensate"

(* A group changes its authority as one record would.  Whatever dies, whoever
   looks at a member that is not guarded is told the authority that all
   members have, no two readers disagree, an activation whose compensation has
   begun is never completed, and nobody is told of a generation that was
   cancelled ("never_released_to_readers"). *)
ImplementsAtomicGroup == Group!Spec

(* No call overwrites what somebody wrote into a record before the call last
   looked at it: publish, recover and compensate refuse and keep the bytes. *)
EditSurvives ==
    [][\A e \in Entries :
           (record[e] = "other" /\ record'[e] # "other") =>
               (call = Idle \/ e \in raced)]_vars

(* A group that was begun is completed or given up: wherever calls die, a
   recovery in one direction is accepted once edits are put aside, a cleanup
   that was cut short included. *)
RecoveryEnds == coordinator ~> ~coordinator
=============================================================================
