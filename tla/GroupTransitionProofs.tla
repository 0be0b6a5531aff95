------------------------ MODULE GroupTransitionProofs ------------------------
(***************************************************************************)
(* What a change of a group's authority promises, for groups of any size   *)
(* and any number of edits and deaths: it implements the change of one     *)
(* authority, and no call overwrites an edit that it could have seen.      *)
(*                                                                         *)
(* That unguarded members agree is not inductive.  The invariant says what *)
(* the files of the group stand for: without the readiness marker no       *)
(* authority was touched; with it, and without the proof of completion,    *)
(* every member is guarded; with the proof, every member has the authority *)
(* that it names.  What a call has still to do is bound to them.           *)
(***************************************************************************)
EXTENDS GroupTransition, TLAPS

Opening == {"coordinator", "guards", "check", "ready", "targets"}
Writing == {"objects", "receipt", "record", "authority"}
Cleaning == {"unguard", "unready", "uncancel", "close"}

(* Not ready, and nothing proved: the members are as they were. *)
Undecided ==
    complete = "none" /\ ~ready =>
        ~cancel /\ \A e \in Entries : authority[e] = "before"

(* Ready, and nothing proved: all members are guarded. *)
Fenced == complete = "none" /\ ready => guard = Entries

(* Proved: the members are as the proof says. *)
Decided ==
    complete # "none" =>
        /\ \A e \in Entries : authority[e] = AuthorityImage(complete)
        /\ cancel => complete = "compensate"

(* Only activations are compensated. *)
Compensated == cancel => direction = "activate"

(* Who writes images has the readiness marker, and who gives up has said so. *)
Bound == ready /\ (call.way = "compensate" <=> cancel)

Phases ==
    /\ call.at \in Opening =>
           complete = "none" /\ ~cancel /\ call.way \in {"publish", "after", "before"}
    /\ call.at = "coordinator" => call.on = 1
    /\ call.at = "guards" => \A e \in Entries : e < call.on => e \in guard
    /\ call.at \in {"check", "ready"} => guard = Entries
    /\ call.at = "targets" => ready
    /\ call.at = "cancel" =>
           complete = "none" /\ ready /\ call.way = "compensate" /\ direction = "activate"
    /\ call.at \in Writing => complete = "none" /\ call.way # "unready" /\ Bound
    /\ call.at \in {"final", "complete"} =>
           complete = "none" /\ IF call.way = "unready" THEN ~ready ELSE Bound
    /\ call.at = "complete" =>
           \A e \in Entries : authority[e] = AuthorityImage(call.way)
    /\ call.at \in Cleaning => complete # "none"

(* What a call is about to overwrite was edited after it looked. *)
Looked ==
    call.at \in Writing \cup {"cancel"} =>
        \A e \in Entries : record[e] = "other" => e \in raced

Calls == [at : Points, way : Ways, on : Entries]

IInv == TypeOK /\ Undecided /\ Fenced /\ Decided /\ Compensated /\ Phases /\ Looked

-----------------------------------------------------------------------------
LEMMA MembersExist == 1 \in Entries /\ N \in Entries
BY ConstantsAssumption DEF Entries

(* Of a running call its record is known. *)
LEMMA Running ==
    ASSUME TypeOK, call # Idle
    PROVE  call \in Calls
BY DEF TypeOK, Calls

(* What follows a step of a running call is a call again. *)
LEMMA NextPoint ==
    ASSUME call \in Calls, NEW at \in Points, Goto(at)
    PROVE  /\ call' \in Calls
           /\ call'.at = at /\ call'.way = call.way /\ call'.on = call.on
BY DEF Calls, Goto

LEMMA NextMember ==
    ASSUME call \in Calls, NEW first \in Points, NEW then \in Points,
           ForEach(first, then)
    PROVE  /\ call' \in Calls
           /\ call'.way = call.way
           /\ \/ call.on < N /\ call'.at = first /\ call'.on = call.on + 1
              \/ call.on = N /\ call'.at = then /\ call'.on = 1
<1>1. call.on \in Entries BY DEF Calls
<1>2. call.on \in Nat /\ N \in Nat /\ call.on <= N
  BY <1>1, ConstantsAssumption DEF Entries
<1>3. CASE call.on < N
  <2>1. call.on + 1 \in Entries BY <1>1, <1>2, <1>3, ConstantsAssumption DEF Entries
  <2>2. QED BY <1>3, <2>1 DEF Calls, ForEach
<1>4. CASE call.on = N
  <2>1. ~(call.on < N) BY <1>2, <1>4
  <2>2. call' = [call EXCEPT !.at = then, !.on = 1] BY <2>1 DEF ForEach
  <2>3. QED BY <1>4, <2>2, MembersExist DEF Calls
<1>5. QED BY <1>2, <1>3, <1>4

LEMMA InitInv ==
    ASSUME Init
    PROVE  IInv
<1>1. TypeOK
  <2>1. call = Idle BY DEF Init
  <2>2. edits \in 0 .. MaxEdits /\ stops \in 0 .. MaxStops BY ConstantsAssumption DEF Init
  <2>3. record \in [Entries -> {"before", "after", "other"}] BY DEF Init
  <2>4. authority \in [Entries -> {"before", "after", "cancelled"}] BY DEF Init
  <2>5. QED BY <2>1, <2>2, <2>3, <2>4 DEF Init, TypeOK
<1>2. Undecided /\ Fenced /\ Decided /\ Compensated
  BY DEF Init, Undecided, Fenced, Decided, Compensated
<1>3. call.at = "idle" BY DEF Init, Idle
<1>4. Phases /\ Looked BY <1>3 DEF Phases, Looked, Opening, Writing, Cleaning
<1>5. QED BY <1>1, <1>2, <1>4 DEF IInv

-----------------------------------------------------------------------------
(* Calls that begin. *)

LEMMA BeginTypes ==
    ASSUME TypeOK, NEW at \in Points, NEW way \in Ways, Begin(at, way)
    PROVE  /\ TypeOK' /\ call' \in Calls /\ call'.at = at /\ call'.way = way
           /\ call'.on = 1 /\ raced' = {}
BY MembersExist DEF TypeOK, Begin, Calls, files, journals

LEMMA BeginKeeps ==
    ASSUME IInv, NEW at \in Points, NEW way \in Ways, Begin(at, way)
    PROVE  Undecided' /\ Fenced' /\ Decided' /\ Compensated'
BY DEF IInv, Undecided, Fenced, Decided, Compensated, Begin, files, journals

LEMMA BeginInv ==
    ASSUME IInv, Publish \/ Recover
    PROVE  IInv'
<1>1. CASE Publish
  <2>1. Begin("coordinator", "publish") /\ "coordinator" \in Points /\ "publish" \in Ways
    BY <1>1 DEF Publish, Points, Ways, IInv, TypeOK
  <2>2. /\ TypeOK' /\ call'.at = "coordinator" /\ call'.way = "publish" /\ call'.on = 1
        /\ raced' = {}
    BY <2>1, BeginTypes DEF IInv
  <2>3. Undecided' /\ Fenced' /\ Decided' /\ Compensated' BY <2>1, BeginKeeps
  <2>4. Phases'
    BY <1>1, <2>1, <2>2, ConstantsAssumption
       DEF Publish, Begin, IInv, Undecided, Decided, Compensated, Phases, Opening,
           Writing, Cleaning, files, journals, Entries
  <2>5. Looked'
    BY <1>1, <2>1, <2>2 DEF Publish, Looked, Writing, Begin, files, journals, Compensable
  <2>6. QED BY <2>2, <2>3, <2>4, <2>5 DEF IInv
<1>2. CASE RecoverAfter
  <2>1. Begin("guards", "after") /\ "guards" \in Points /\ "after" \in Ways
    BY <1>2 DEF RecoverAfter, Points, Ways, IInv, TypeOK
  <2>2. /\ TypeOK' /\ call'.at = "guards" /\ call'.way = "after" /\ call'.on = 1
        /\ raced' = {}
    BY <2>1, BeginTypes DEF IInv
  <2>3. Undecided' /\ Fenced' /\ Decided' /\ Compensated' BY <2>1, BeginKeeps
  <2>4. Phases'
    BY <1>2, <2>1, <2>2, ConstantsAssumption
       DEF RecoverAfter, Recovering, Begin, IInv, Undecided, Decided, Compensated, Phases, Opening,
           Writing, Cleaning, files, journals, Entries
  <2>5. Looked'
    BY <1>2, <2>1, <2>2 DEF RecoverAfter, Looked, Writing, Begin, files, journals, Compensable
  <2>6. QED BY <2>2, <2>3, <2>4, <2>5 DEF IInv
<1>3. CASE RecoverBefore
  <2>1. Begin("guards", "before") /\ "guards" \in Points /\ "before" \in Ways
    BY <1>3 DEF RecoverBefore, Points, Ways, IInv, TypeOK
  <2>2. /\ TypeOK' /\ call'.at = "guards" /\ call'.way = "before" /\ call'.on = 1
        /\ raced' = {}
    BY <2>1, BeginTypes DEF IInv
  <2>3. Undecided' /\ Fenced' /\ Decided' /\ Compensated' BY <2>1, BeginKeeps
  <2>4. Phases'
    BY <1>3, <2>1, <2>2, ConstantsAssumption
       DEF RecoverBefore, Recovering, Begin, IInv, Undecided, Decided, Compensated, Phases, Opening,
           Writing, Cleaning, files, journals, Entries
  <2>5. Looked'
    BY <1>3, <2>1, <2>2 DEF RecoverBefore, Looked, Writing, Begin, files, journals, Compensable
  <2>6. QED BY <2>2, <2>3, <2>4, <2>5 DEF IInv
<1>4. CASE Compensate
  <2>1. Begin("cancel", "compensate") /\ "cancel" \in Points /\ "compensate" \in Ways
    BY <1>4 DEF Compensate, Points, Ways, IInv, TypeOK
  <2>2. /\ TypeOK' /\ call'.at = "cancel" /\ call'.way = "compensate" /\ call'.on = 1
        /\ raced' = {}
    BY <2>1, BeginTypes DEF IInv
  <2>3. Undecided' /\ Fenced' /\ Decided' /\ Compensated' BY <2>1, BeginKeeps
  <2>4. Phases'
    BY <1>4, <2>1, <2>2, ConstantsAssumption
       DEF Compensate, Recovering, Begin, IInv, Undecided, Decided, Compensated, Phases, Opening,
           Writing, Cleaning, files, journals, Entries
  <2>5. Looked'
    BY <1>4, <2>1, <2>2 DEF Compensate, Looked, Writing, Begin, files, journals, Compensable
  <2>6. QED BY <2>2, <2>3, <2>4, <2>5 DEF IInv
<1>5. CASE CancelUnready
  <2>1. Begin("final", "unready") /\ "final" \in Points /\ "unready" \in Ways
    BY <1>5 DEF CancelUnready, Points, Ways, IInv, TypeOK
  <2>2. /\ TypeOK' /\ call'.at = "final" /\ call'.way = "unready" /\ call'.on = 1
        /\ raced' = {}
    BY <2>1, BeginTypes DEF IInv
  <2>3. Undecided' /\ Fenced' /\ Decided' /\ Compensated' BY <2>1, BeginKeeps
  <2>4. Phases'
    BY <1>5, <2>1, <2>2, ConstantsAssumption
       DEF CancelUnready, Recovering, Begin, IInv, Undecided, Decided, Compensated, Phases, Opening,
           Writing, Cleaning, files, journals, Entries
  <2>5. Looked'
    BY <1>5, <2>1, <2>2 DEF CancelUnready, Looked, Writing, Begin, files, journals, Compensable
  <2>6. QED BY <2>2, <2>3, <2>4, <2>5 DEF IInv
<1>6. CASE RecoverComplete
  <2>1. Begin("unguard", complete) /\ "unguard" \in Points /\ complete \in Ways
    BY <1>6 DEF RecoverComplete, Points, Ways, IInv, TypeOK
  <2>2. /\ TypeOK' /\ call'.at = "unguard" /\ call'.way = complete /\ call'.on = 1
        /\ raced' = {}
    BY <2>1, BeginTypes DEF IInv
  <2>3. Undecided' /\ Fenced' /\ Decided' /\ Compensated' BY <2>1, BeginKeeps
  <2>4. Phases'
    BY <1>6, <2>1, <2>2, ConstantsAssumption
       DEF RecoverComplete, Recovering, Begin, IInv, Undecided, Decided, Compensated, Phases, Opening,
           Writing, Cleaning, files, journals, Entries
  <2>5. Looked'
    BY <1>6, <2>1, <2>2 DEF RecoverComplete, Looked, Writing, Begin, files, journals, Compensable
  <2>6. QED BY <2>2, <2>3, <2>4, <2>5 DEF IInv
<1>7. QED BY <1>1, <1>2, <1>3, <1>4, <1>5, <1>6 DEF Recover

-----------------------------------------------------------------------------
(* The invariant reads neither the counters nor what was told. *)

LEMMA EndedInv ==
    ASSUME IInv, TypeOK', call' = Idle,
           UNCHANGED <<direction, authority, guard, ready, cancel, complete>>
    PROVE  IInv'
<1>1. Undecided' /\ Fenced' /\ Decided' /\ Compensated'
  BY DEF IInv, Undecided, Fenced, Decided, Compensated
<1>2. call'.at = "idle" BY DEF Idle
<1>3. Phases' /\ Looked' BY <1>2 DEF Phases, Looked, Opening, Writing, Cleaning
<1>4. QED BY <1>1, <1>3 DEF IInv

LEMMA ApartInv ==
    ASSUME IInv, TypeOK', Looked',
           UNCHANGED <<direction, authority, guard, ready, cancel, complete, call>>
    PROVE  IInv'
<1>1. Undecided' /\ Fenced' /\ Decided' /\ Compensated'
  BY DEF IInv, Undecided, Fenced, Decided, Compensated
<1>2. Phases' BY DEF IInv, Phases, Bound
<1>3. QED BY <1>1, <1>2 DEF IInv

-----------------------------------------------------------------------------
(* Steps of a call. *)

LEMMA PutCoordinatorInv ==
    ASSUME IInv, PutCoordinator
    PROVE  IInv'
<1>1. call \in Calls BY Running DEF PutCoordinator, IInv, Idle
<1>2. /\ call' \in Calls /\ call'.way = call.way /\ call'.on = call.on
      /\ call'.at = "guards"
  BY <1>1, NextPoint DEF PutCoordinator, Points
<1>3. TypeOK'
  BY <1>1, <1>2 DEF PutCoordinator, IInv, TypeOK, Calls, files, journals, history
<1>4. Undecided' /\ Fenced' /\ Decided' /\ Compensated'
  BY <1>1, <1>2
     DEF PutCoordinator, IInv, Undecided, Fenced, Decided, Compensated, Phases, Bound,
         Opening, Writing, Cleaning, files, journals
<1>5. Phases'
  <2>1. complete = "none" /\ ~cancel /\ call.way \in {"publish", "after", "before"}
        /\ call.on = 1
    BY DEF PutCoordinator, IInv, Phases, Opening
  <2>2. \A e \in Entries : ~(e < call'.on) BY <1>2, <2>1 DEF Entries
  <2>3. QED
    BY <1>2, <2>1, <2>2 DEF PutCoordinator, Phases, Opening, Writing, Cleaning, files
<1>6. Looked'
  BY <1>2 DEF PutCoordinator, IInv, Looked, Writing, files, journals, history
<1>7. QED BY <1>3, <1>4, <1>5, <1>6 DEF IInv

LEMMA PutReadyInv ==
    ASSUME IInv, PutReady
    PROVE  IInv'
<1>1. call \in Calls BY Running DEF PutReady, IInv, Idle
<1>2. /\ call' \in Calls /\ call'.way = call.way /\ call'.on = call.on
      /\ call'.at = "targets"
  BY <1>1, NextPoint DEF PutReady, Points
<1>3. TypeOK'
  BY <1>1, <1>2 DEF PutReady, IInv, TypeOK, Calls, files, journals, history
<1>4. Undecided' /\ Fenced' /\ Decided' /\ Compensated'
  BY <1>1, <1>2
     DEF PutReady, IInv, Undecided, Fenced, Decided, Compensated, Phases, Bound,
         Opening, Writing, Cleaning, files, journals
<1>5. Phases'
  BY <1>2
     DEF PutReady, IInv, Phases, Bound, Opening, Writing, Cleaning, files, journals
<1>6. Looked'
  BY <1>2 DEF PutReady, IInv, Looked, Writing, files, journals, history
<1>7. QED BY <1>3, <1>4, <1>5, <1>6 DEF IInv

LEMMA PutCancelInv ==
    ASSUME IInv, PutCancel
    PROVE  IInv'
<1>1. call \in Calls BY Running DEF PutCancel, IInv, Idle
<1>2. /\ call' \in Calls /\ call'.way = call.way /\ call'.on = call.on
      /\ call'.at = "objects"
  BY <1>1, NextPoint DEF PutCancel, Points
<1>3. TypeOK'
  BY <1>1, <1>2 DEF PutCancel, IInv, TypeOK, Calls, files, journals, history
<1>4. Undecided' /\ Fenced' /\ Decided' /\ Compensated'
  BY <1>1, <1>2
     DEF PutCancel, IInv, Undecided, Fenced, Decided, Compensated, Phases, Bound,
         Opening, Writing, Cleaning, files, journals
<1>5. Phases'
  BY <1>2
     DEF PutCancel, IInv, Phases, Bound, Opening, Writing, Cleaning, files, journals
<1>6. Looked'
  BY <1>2 DEF PutCancel, IInv, Looked, Writing, files, journals, history
<1>7. QED BY <1>3, <1>4, <1>5, <1>6 DEF IInv

LEMMA PutReceiptInv ==
    ASSUME IInv, PutReceipt
    PROVE  IInv'
<1>1. call \in Calls BY Running DEF PutReceipt, IInv, Idle
<1>2. /\ call' \in Calls /\ call'.way = call.way /\ call'.on = call.on
      /\ call'.at = "record"
  BY <1>1, NextPoint DEF PutReceipt, Points
<1>3. TypeOK'
  BY <1>1, <1>2 DEF PutReceipt, IInv, TypeOK, Calls, files, journals, history
<1>4. Undecided' /\ Fenced' /\ Decided' /\ Compensated'
  BY <1>1, <1>2
     DEF PutReceipt, IInv, Undecided, Fenced, Decided, Compensated, Phases, Bound,
         Opening, Writing, Cleaning, files, journals
<1>5. Phases'
  BY <1>2
     DEF PutReceipt, IInv, Phases, Bound, Opening, Writing, Cleaning, files, journals
<1>6. Looked'
  BY <1>2 DEF PutReceipt, IInv, Looked, Writing, files, journals, history
<1>7. QED BY <1>3, <1>4, <1>5, <1>6 DEF IInv

LEMMA PutRecordInv ==
    ASSUME IInv, PutRecord
    PROVE  IInv'
<1>1. call \in Calls BY Running DEF PutRecord, IInv, Idle
<1>2. /\ call' \in Calls /\ call'.way = call.way /\ call'.on = call.on
      /\ call'.at = "authority"
  BY <1>1, NextPoint DEF PutRecord, Points
<1>3. TypeOK'
  <2>1. RecordImage(call.way) \in {"before", "after", "other"} BY DEF RecordImage
  <2>2. record' \in [Entries -> {"before", "after", "other"}]
    BY <2>1 DEF PutRecord, IInv, TypeOK
  <2>3. QED BY <1>2, <2>2 DEF PutRecord, IInv, TypeOK, Calls, journals, history
<1>4. Undecided' /\ Fenced' /\ Decided' /\ Compensated'
  BY <1>1, <1>2
     DEF PutRecord, IInv, Undecided, Fenced, Decided, Compensated, Phases, Bound,
         Opening, Writing, Cleaning, files, journals
<1>5. Phases'
  BY <1>2
     DEF PutRecord, IInv, Phases, Bound, Opening, Writing, Cleaning, files, journals
<1>6. Looked'
  BY <1>2 DEF PutRecord, IInv, Looked, Writing, files, journals, history, TypeOK, RecordImage
<1>7. QED BY <1>3, <1>4, <1>5, <1>6 DEF IInv

LEMMA PutCompleteInv ==
    ASSUME IInv, PutComplete
    PROVE  IInv'
<1>1. call \in Calls BY Running DEF PutComplete, IInv, Idle
<1>2. /\ call' \in Calls /\ call'.way = call.way /\ call'.on = call.on
      /\ call'.at = "unguard"
  BY <1>1, NextPoint DEF PutComplete, Points
<1>3. call.way \in Ways BY <1>1 DEF Calls
<1>4. complete' \in {"after", "before", "compensate", "unready"}
  BY <1>3 DEF PutComplete, Ways
<1>5. TypeOK'
  <2>1. complete' \in {"none", "after", "before", "compensate", "unready"} BY <1>4
  <2>2. QED BY <1>2, <2>1 DEF PutComplete, IInv, TypeOK, Calls, files, history
<1>6. AuthorityImage(complete') = AuthorityImage(call.way)
  BY <1>3 DEF PutComplete, AuthorityImage, Ways
<1>7. Decided'
  <2>1. \A e \in Entries : authority[e] = AuthorityImage(call.way)
    BY DEF PutComplete, IInv, Phases
  <2>2. cancel => complete' = "compensate"
    <3>1. CASE call.way = "unready"
      BY <3>1 DEF PutComplete, IInv, Phases, Undecided
    <3>2. CASE call.way # "unready"
      BY <3>2 DEF PutComplete, IInv, Phases, Bound
    <3>3. QED BY <3>1, <3>2
  <2>3. authority' = authority /\ cancel' = cancel BY DEF PutComplete, files
  <2>4. QED BY <1>6, <2>1, <2>2, <2>3 DEF Decided, AuthorityImage
<1>8. Undecided' /\ Fenced' BY <1>4 DEF Undecided, Fenced
<1>9. Compensated' BY DEF PutComplete, IInv, Compensated
<1>10. Phases' /\ Looked'
  BY <1>2, <1>4 DEF Phases, Looked, Opening, Writing, Cleaning
<1>11. QED BY <1>5, <1>7, <1>8, <1>9, <1>10 DEF IInv

LEMMA RemoveReadyInv ==
    ASSUME IInv, RemoveReady
    PROVE  IInv'
<1>1. call \in Calls BY Running DEF RemoveReady, IInv, Idle
<1>2. /\ call' \in Calls /\ call'.way = call.way /\ call'.on = call.on
      /\ call'.at = "uncancel"
  BY <1>1, NextPoint DEF RemoveReady, Points
<1>3. TypeOK'
  BY <1>1, <1>2 DEF RemoveReady, IInv, TypeOK, Calls, files, journals, history
<1>4. Undecided' /\ Fenced' /\ Decided' /\ Compensated'
  BY <1>1, <1>2
     DEF RemoveReady, IInv, Undecided, Fenced, Decided, Compensated, Phases, Bound,
         Opening, Writing, Cleaning, files, journals
<1>5. Phases'
  BY <1>2
     DEF RemoveReady, IInv, Phases, Bound, Opening, Writing, Cleaning, files, journals
<1>6. Looked'
  BY <1>2 DEF RemoveReady, IInv, Looked, Writing, files, journals, history
<1>7. QED BY <1>3, <1>4, <1>5, <1>6 DEF IInv

LEMMA RemoveCancelInv ==
    ASSUME IInv, RemoveCancel
    PROVE  IInv'
<1>1. call \in Calls BY Running DEF RemoveCancel, IInv, Idle
<1>2. /\ call' \in Calls /\ call'.way = call.way /\ call'.on = call.on
      /\ call'.at = "close"
  BY <1>1, NextPoint DEF RemoveCancel, Points
<1>3. TypeOK'
  BY <1>1, <1>2 DEF RemoveCancel, IInv, TypeOK, Calls, files, journals, history
<1>4. Undecided' /\ Fenced' /\ Decided' /\ Compensated'
  BY <1>1, <1>2
     DEF RemoveCancel, IInv, Undecided, Fenced, Decided, Compensated, Phases, Bound,
         Opening, Writing, Cleaning, files, journals
<1>5. Phases'
  BY <1>2
     DEF RemoveCancel, IInv, Phases, Bound, Opening, Writing, Cleaning, files, journals
<1>6. Looked'
  BY <1>2 DEF RemoveCancel, IInv, Looked, Writing, files, journals, history
<1>7. QED BY <1>3, <1>4, <1>5, <1>6 DEF IInv

LEMMA PutObjectsInv ==
    ASSUME IInv, PutObjects
    PROVE  IInv'
<1>1. call \in Calls BY Running DEF PutObjects, IInv, Idle
<1>2. /\ call' \in Calls /\ call'.way = call.way /\ call'.on = call.on
      /\ call'.at = IF call.way = "compensate" THEN "receipt" ELSE "record"
  BY <1>1, NextPoint DEF PutObjects, Points
<1>3. TypeOK'
  BY <1>1, <1>2 DEF PutObjects, IInv, TypeOK, Calls, files, journals, history
<1>4. Undecided' /\ Fenced' /\ Decided' /\ Compensated'
  BY <1>1, <1>2
     DEF PutObjects, IInv, Undecided, Fenced, Decided, Compensated, Phases, Bound,
         Opening, Writing, Cleaning, files, journals
<1>5. Phases'
  BY <1>2
     DEF PutObjects, IInv, Phases, Bound, Opening, Writing, Cleaning, files, journals
<1>6. Looked'
  BY <1>2 DEF PutObjects, IInv, Looked, Writing, files, journals, history
<1>7. QED BY <1>3, <1>4, <1>5, <1>6 DEF IInv

-----------------------------------------------------------------------------
(* Steps that go from member to member. *)

LEMMA PutGuardInv ==
    ASSUME IInv, PutGuard
    PROVE  IInv'
<1> DEFINE then == IF call.way = "publish" THEN "check" ELSE "ready"
<1>1. call \in Calls BY Running DEF PutGuard, IInv, Idle
<1>2. then \in Points /\ "guards" \in Points BY DEF Points
<1>3. ForEach("guards", then) BY DEF PutGuard
<1>4. /\ call' \in Calls /\ call'.way = call.way
      /\ \/ call.on < N /\ call'.at = "guards" /\ call'.on = call.on + 1
         \/ call.on = N /\ call'.at = then /\ call'.on = 1
  BY <1>1, <1>2, <1>3, NextMember
<1>5. call.on \in Entries BY <1>1 DEF Calls
<1>6. guard' = guard \cup {call.on} BY DEF PutGuard
<1>7. guard' \subseteq Entries BY <1>5, <1>6 DEF IInv, TypeOK
<1>8. TypeOK' BY <1>4, <1>7 DEF PutGuard, IInv, TypeOK, Calls, files, history
<1>9. Undecided' /\ Decided' /\ Compensated'
  BY DEF PutGuard, IInv, Undecided, Decided, Compensated, files
<1>10. Fenced' BY <1>6, <1>7 DEF PutGuard, IInv, Fenced
<1>11. \A e \in Entries : e < call.on => e \in guard
  BY <1>5 DEF PutGuard, IInv, Phases, Entries
<1>12. CASE call.on < N
  <2>1. call'.at = "guards" /\ call'.on = call.on + 1 BY <1>4, <1>12, ConstantsAssumption
  <2>2. \A e \in Entries : e < call'.on => e \in guard'
    BY <1>5, <1>6, <1>11, <2>1 DEF Entries
  <2>3. Phases'
    BY <1>4, <2>1, <2>2 DEF PutGuard, IInv, Phases, Opening, Writing, Cleaning
  <2>4. Looked' BY <2>1 DEF Looked, Writing
  <2>5. QED BY <1>8, <1>9, <1>10, <2>3, <2>4 DEF IInv
<1>13. CASE call.on = N
  <2>1. ~(call.on < N) BY <1>13, ConstantsAssumption
  <2>2. call'.at = then BY <1>4, <2>1
  <2>3. guard' = Entries
    <3>1. \A e \in Entries : e < call.on \/ e = call.on
      BY <1>13, ConstantsAssumption DEF Entries
    <3>2. QED BY <1>6, <1>7, <1>11, <3>1
  <2>4. then \in {"check", "ready"} OBVIOUS
  <2>5. Phases'
    BY <1>4, <2>2, <2>3, <2>4 DEF PutGuard, IInv, Phases, Opening, Writing, Cleaning
  <2>6. Looked' BY <2>2, <2>4 DEF Looked, Writing
  <2>7. QED BY <1>8, <1>9, <1>10, <2>5, <2>6 DEF IInv
<1>14. QED BY <1>4, <1>12, <1>13

LEMMA PutAuthorityInv ==
    ASSUME IInv, PutAuthority
    PROVE  IInv'
<1> DEFINE first == IF call.way = "before" THEN "record" ELSE "objects"
<1>1. call \in Calls BY Running DEF PutAuthority, IInv, Idle
<1>2. first \in Points /\ "final" \in Points BY DEF Points
<1>3. ForEach(first, "final") BY DEF PutAuthority
<1>4. call' \in Calls /\ call'.way = call.way /\ call'.at \in {first, "final"}
  BY <1>1, <1>2, <1>3, NextMember
<1>5. AuthorityImage(call.way) \in {"before", "after", "cancelled"}
  BY DEF AuthorityImage
<1>6. TypeOK' BY <1>4, <1>5 DEF PutAuthority, IInv, TypeOK, Calls, journals, history
<1>7. complete = "none" /\ call.way # "unready" /\ Bound
  BY DEF PutAuthority, IInv, Phases, Writing
<1>8. Undecided' /\ Fenced' /\ Decided' /\ Compensated'
  BY <1>7 DEF PutAuthority, IInv, Undecided, Fenced, Decided, Compensated, Bound, journals
<1>9. Bound' BY <1>4, <1>7 DEF PutAuthority, Bound, journals
<1>10. Phases'
  BY <1>4, <1>7, <1>9 DEF PutAuthority, Phases, Opening, Writing, Cleaning, journals
<1>11. Looked'
  BY <1>4 DEF PutAuthority, IInv, Looked, Writing, history
<1>12. QED BY <1>6, <1>8, <1>10, <1>11 DEF IInv

LEMMA RemoveGuardInv ==
    ASSUME IInv, RemoveGuard
    PROVE  IInv'
<1>1. call \in Calls BY Running DEF RemoveGuard, IInv, Idle
<1>2. "unguard" \in Points /\ "unready" \in Points BY DEF Points
<1>3. ForEach("unguard", "unready") BY DEF RemoveGuard
<1>4. call' \in Calls /\ call'.at \in {"unguard", "unready"}
  BY <1>1, <1>2, <1>3, NextMember
<1>5. TypeOK' BY <1>4 DEF RemoveGuard, IInv, TypeOK, Calls, files, history
<1>6. complete # "none" BY DEF RemoveGuard, IInv, Phases, Cleaning
<1>7. Undecided' /\ Fenced' /\ Decided' /\ Compensated'
  BY <1>6 DEF RemoveGuard, IInv, Undecided, Fenced, Decided, Compensated, files
<1>8. Phases' /\ Looked'
  BY <1>4, <1>6 DEF RemoveGuard, Phases, Looked, Opening, Writing, Cleaning
<1>9. QED BY <1>5, <1>7, <1>8 DEF IInv

-----------------------------------------------------------------------------
(* Looks at the members. *)

LEMMA LookTypes ==
    ASSUME IInv, NEW at, at # "idle", NEW fits \in BOOLEAN, NEW next \in Points,
           Look(at, fits, next)
    PROVE  /\ TypeOK'
           /\ IF fits
                THEN /\ call' \in Calls /\ call'.at = next
                     /\ call'.way = call.way /\ call'.on = call.on
                ELSE call' = Idle
<1>1. call \in Calls BY Running DEF Look, IInv, Idle
<1>2. CASE fits
  <2>1. Goto(next) BY <1>2 DEF Look
  <2>2. /\ call' \in Calls /\ call'.at = next
        /\ call'.way = call.way /\ call'.on = call.on
    BY <1>1, <2>1, NextPoint
  <2>3. QED BY <1>2, <2>2 DEF Look, IInv, TypeOK, Calls, files, journals
<1>3. CASE ~fits
  BY <1>3 DEF Look, IInv, TypeOK, files, journals
<1>4. QED BY <1>2, <1>3

LEMMA LookInv ==
    ASSUME IInv, NEW at, at # "idle", NEW fits \in BOOLEAN, NEW next \in Points,
           Look(at, fits, next),
           fits => Phases' /\ Looked'
    PROVE  IInv'
<1>1. CASE fits
  <2>1. TypeOK' BY LookTypes
  <2>2. Undecided' /\ Fenced' /\ Decided' /\ Compensated'
    BY DEF Look, IInv, Undecided, Fenced, Decided, Compensated, files, journals
  <2>3. QED BY <1>1, <2>1, <2>2 DEF IInv
<1>2. CASE ~fits
  <2>1. TypeOK' /\ call' = Idle BY <1>2, LookTypes
  <2>2. QED BY <2>1, EndedInv DEF Look, files, journals
<1>3. QED BY <1>1, <1>2

LEMMA CheckGuardedInv ==
    ASSUME IInv, CheckGuarded
    PROVE  IInv'
<1> DEFINE fits == guard = Entries /\ \A e \in Entries : Untouched(e)
<1>1. Look("check", fits, "ready") /\ "ready" \in Points /\ fits \in BOOLEAN
  BY DEF CheckGuarded, Points
<1>2. ASSUME fits PROVE Phases' /\ Looked'
  <2>1. call'.at = "ready" /\ call'.way = call.way BY <1>1, <1>2, LookTypes
  <2>2. guard' = Entries BY <1>1, <1>2 DEF Look, journals
  <2>3. QED
    BY <1>1, <2>1, <2>2
       DEF Look, journals, IInv, Phases, Looked, Opening, Writing, Cleaning
<1>3. QED BY <1>1, <1>2, LookInv

LEMMA CheckTargetsInv ==
    ASSUME IInv, CheckTargets
    PROVE  IInv'
<1> DEFINE fits == \A e \in Entries : Between(e)
           next == IF call.way = "before" THEN "record" ELSE "objects"
<1>1. Look("targets", fits, next) /\ next \in Points /\ fits \in BOOLEAN
  BY DEF CheckTargets, Points
<1>2. ASSUME fits PROVE Phases' /\ Looked'
  <2>1. call'.at \in {"record", "objects"} /\ call'.way = call.way
    BY <1>1, <1>2, LookTypes
  <2>2. complete = "none" /\ ~cancel /\ ready /\ call.way \in {"publish", "after", "before"}
    BY <1>1 DEF Look, IInv, Phases, Opening
  <2>3. UNCHANGED <<record, complete, cancel, ready, guard>>
    BY <1>1 DEF Look, files, journals
  <2>4. Bound' BY <2>1, <2>2, <2>3 DEF Bound
  <2>5. Phases' BY <2>1, <2>2, <2>3, <2>4 DEF Phases, Opening, Writing, Cleaning
  <2>6. \A e \in Entries : record[e] # "other" BY <1>2 DEF Between
  <2>7. QED BY <2>3, <2>5, <2>6 DEF Looked
<1>3. QED BY <1>1, <1>2, LookInv

LEMMA CheckFinalInv ==
    ASSUME IInv, CheckFinal
    PROVE  IInv'
<1> DEFINE fits == \A e \in Entries : Ended(call.way, e)
<1>1. Look("final", fits, "complete") /\ "complete" \in Points /\ fits \in BOOLEAN
  BY DEF CheckFinal, Points
<1>2. ASSUME fits PROVE Phases' /\ Looked'
  <2>1. call'.at = "complete" /\ call'.way = call.way BY <1>1, <1>2, LookTypes
  <2>2. complete = "none" /\ IF call.way = "unready" THEN ~ready ELSE Bound
    BY <1>1 DEF Look, IInv, Phases
  <2>3. UNCHANGED <<authority, complete, cancel, ready, guard>>
    BY <1>1 DEF Look, files, journals
  <2>4. \A e \in Entries : authority[e] = AuthorityImage(call.way)
    BY <1>2 DEF Ended, Unreleased, AuthorityImage
  <2>5. \A e \in Entries : authority'[e] = AuthorityImage(call.way)'
    BY <2>1, <2>3, <2>4 DEF AuthorityImage
  <2>6. IF call'.way = "unready" THEN ~ready' ELSE Bound'
    BY <2>1, <2>2, <2>3 DEF Bound
  <2>7. Phases'
    BY <2>1, <2>2, <2>3, <2>5, <2>6 DEF Phases, Opening, Writing, Cleaning
  <2>8. QED BY <2>1, <2>7 DEF Looked, Writing
<1>3. QED BY <1>1, <1>2, LookInv

-----------------------------------------------------------------------------
(* Calls that end, and what others do. *)

LEMMA RemoveCoordinatorInv ==
    ASSUME IInv, RemoveCoordinator
    PROVE  IInv'
<1>1. TypeOK' BY DEF RemoveCoordinator, IInv, TypeOK, files, history
<1>2. QED BY <1>1, EndedInv DEF RemoveCoordinator, files

LEMMA StopInv ==
    ASSUME IInv, Stop
    PROVE  IInv'
<1>1. stops' \in 0 .. MaxStops
  BY ConstantsAssumption DEF Stop, IInv, TypeOK
<1>2. TypeOK' BY <1>1 DEF Stop, IInv, TypeOK, files, journals, history
<1>3. QED BY <1>2, EndedInv DEF Stop, files, journals

LEMMA ReadInv ==
    ASSUME IInv, NEW e \in Entries, Read(e)
    PROVE  IInv'
<1>1. told' \in {"before", "after", "cancelled"} BY DEF Read, IInv, TypeOK
<1>2. TypeOK' BY <1>1 DEF Read, IInv, TypeOK, files, journals
<1>3. Looked' BY DEF Read, IInv, Looked, files
<1>4. QED BY <1>2, <1>3, ApartInv DEF Read, files, journals

LEMMA EditInv ==
    ASSUME IInv, NEW e \in Entries, Edit(e)
    PROVE  IInv'
<1>1. edits' \in 0 .. MaxEdits BY ConstantsAssumption DEF Edit, IInv, TypeOK
<1>2. TypeOK' BY <1>1 DEF Edit, IInv, TypeOK, journals
<1>3. Looked'
  <2>1. CASE call = Idle BY <2>1 DEF Edit, Looked, Idle, Writing
  <2>2. CASE call # Idle BY <2>2 DEF Edit, IInv, Looked, TypeOK
  <2>3. QED BY <2>1, <2>2
<1>4. QED BY <1>2, <1>3, ApartInv DEF Edit, journals

LEMMA RestoreInv ==
    ASSUME IInv, NEW e \in Entries, Restore(e)
    PROVE  IInv'
<1>1. Asked \subseteq {"before", "after"} BY DEF Asked
<1>2. TypeOK' BY <1>1 DEF Restore, IInv, TypeOK, journals, history
<1>3. Looked' BY DEF Restore, Looked, Idle, Writing
<1>4. QED BY <1>2, <1>3, ApartInv DEF Restore, journals

LEMMA NextStep ==
    ASSUME IInv, [Next]_vars
    PROVE  IInv'
<1>1. CASE Publish \/ Recover BY <1>1, BeginInv
<1>2. CASE Step
  BY <1>2, PutCoordinatorInv, PutGuardInv, CheckGuardedInv, PutReadyInv, CheckTargetsInv,
     PutCancelInv, PutObjectsInv, PutReceiptInv, PutRecordInv, PutAuthorityInv,
     CheckFinalInv, PutCompleteInv, RemoveGuardInv, RemoveReadyInv, RemoveCancelInv,
     RemoveCoordinatorInv
     DEF Step
<1>3. CASE Stop BY <1>3, StopInv
<1>4. CASE \E e \in Entries : Read(e) \/ Edit(e) \/ Restore(e)
  BY <1>4, ReadInv, EditInv, RestoreInv
<1>5. CASE UNCHANGED vars
  <2>1. TypeOK' BY <1>5 DEF vars, files, journals, history, IInv, TypeOK
  <2>2. Looked' BY <1>5 DEF vars, files, history, IInv, Looked
  <2>3. QED BY <1>5, <2>1, <2>2, ApartInv DEF vars, files, journals
<1>6. QED BY <1>1, <1>2, <1>3, <1>4, <1>5 DEF Next

LEMMA Invariance == Spec => []IInv
<1>1. Init => IInv BY InitInv
<1>2. IInv /\ [Next]_vars => IInv' BY NextStep
<1>3. QED BY <1>1, <1>2, PTL DEF Spec

-----------------------------------------------------------------------------
(* The state of a group keeps its type: a call is always at one of the members
   of the group, whatever its size (install_guards, finish, cleanup). *)
THEOREM GroupTypes == Spec => []TypeOK
<1>1. IInv => TypeOK BY DEF IInv
<1>2. QED BY <1>1, Invariance, PTL

(* No call overwrites what somebody wrote into a record before the call last
   looked at it, for groups of any size: only PutRecord and the owner's
   Restore replace such a record. *)
THEOREM EditsSurvive == Spec => EditSurvives
<1> DEFINE Kept == \A e \in Entries :
                      (record[e] = "other" /\ record'[e] # "other") =>
                          (call = Idle \/ e \in raced)
<1>1. ASSUME IInv, [Next]_vars PROVE Kept
  <2>1. CASE PutRecord
    BY <1>1, <2>1 DEF PutRecord, IInv, TypeOK, Looked, Writing
  <2>2. CASE \E e \in Entries : Edit(e) BY <1>1, <2>2 DEF Edit, IInv, TypeOK
  <2>3. CASE \E e \in Entries : Restore(e) BY <2>3 DEF Restore
  <2>4. CASE record' = record BY <2>4
  <2>5. QED
    BY <1>1, <2>1, <2>2, <2>3, <2>4
       DEF Next, vars, files, Publish, Recover, RecoverAfter, RecoverBefore, Compensate,
           CancelUnready, RecoverComplete, Begin, Step, PutCoordinator, PutGuard,
           CheckGuarded, CheckTargets, CheckFinal, Look, PutReady, PutCancel, PutObjects,
           PutReceipt, PutAuthority, PutComplete, RemoveGuard, RemoveReady, RemoveCancel,
           RemoveCoordinator, Stop, Read
<1>2. IInv /\ [Next]_vars => [Kept]_vars BY <1>1
<1>3. QED BY <1>2, Invariance, PTL DEF Spec, EditSurvives

-----------------------------------------------------------------------------
(* The refinement. *)

GivenUp == cancel \/ complete = "compensate"

LEMMA StandingStarts == Init => Group!Init
BY DEF Init, Standing, Group!Init

LEMMA CancelGivesUp ==
    ASSUME IInv, PutCancel
    PROVE  Group!GiveUp
<1>1. complete = "none" BY DEF PutCancel, IInv, Phases
<1>2. Standing = "before" BY <1>1 DEF Standing
<1>3. Standing' = "before" /\ cancel' = TRUE /\ told' = told
  BY <1>1 DEF PutCancel, Standing, history
<1>4. QED BY <1>2, <1>3 DEF Group!GiveUp

LEMMA CompleteDecides ==
    ASSUME IInv, PutComplete
    PROVE  Group!Switch \/ Group!Cancel \/ UNCHANGED <<Standing, GivenUp, told>>
<1>1. complete = "none" /\ Standing = "before" BY DEF PutComplete, IInv, Phases, Standing
<1>2. told' = told /\ cancel' = cancel BY DEF PutComplete, history
<1>3. call \in Calls BY Running DEF PutComplete, IInv, Idle
<1>4. call.way \in Ways BY <1>3 DEF Calls
<1>5. call.way # "unready" => (call.way = "compensate" <=> cancel)
  BY DEF PutComplete, IInv, Phases, Bound
<1>6. CASE call.way \in {"publish", "after"}
  <2>1. complete' = "after" /\ ~cancel BY <1>5, <1>6 DEF PutComplete
  <2>2. Standing' = "after" BY <2>1 DEF Standing, AuthorityImage
  <2>3. QED BY <1>1, <1>2, <2>1, <2>2 DEF Group!Switch
<1>7. CASE call.way = "compensate"
  <2>1. complete' = "compensate" /\ cancel BY <1>5, <1>7 DEF PutComplete
  <2>2. Standing' = "cancelled" BY <2>1 DEF Standing, AuthorityImage
  <2>3. QED BY <1>1, <1>2, <2>1, <2>2 DEF Group!Cancel
<1>8. CASE call.way \in {"before", "unready"}
  <2>1. complete' = call.way BY <1>8 DEF PutComplete
  <2>2. Standing' = "before" BY <1>8, <2>1 DEF Standing, AuthorityImage
  <2>3. GivenUp' = GivenUp BY <1>1, <1>2, <1>8, <2>1 DEF GivenUp
  <2>4. QED BY <1>1, <1>2, <2>2, <2>3
<1>9. QED BY <1>4, <1>6, <1>7, <1>8 DEF Ways

LEMMA CleanupKeeps ==
    ASSUME IInv, RemoveCancel
    PROVE  UNCHANGED <<Standing, GivenUp, told>>
<1>1. complete # "none" BY DEF RemoveCancel, IInv, Phases, Cleaning
<1>2. cancel => complete = "compensate" BY <1>1 DEF IInv, Decided
<1>3. complete' = complete /\ told' = told /\ cancel' = FALSE BY DEF RemoveCancel, history
<1>4. Standing' = Standing BY <1>3 DEF Standing, AuthorityImage
<1>5. GivenUp' = GivenUp BY <1>2, <1>3 DEF GivenUp, IInv, TypeOK
<1>6. QED BY <1>3, <1>4, <1>5

LEMMA ReadersAreToldIt ==
    ASSUME IInv, NEW e \in Entries, Read(e)
    PROVE  Group!Read
<1>1. told' = authority[e] BY DEF Read
<1>2. authority[e] = Standing
  <2>1. CASE complete = "none"
    <3>1. ~ready BY <2>1 DEF Read, IInv, Fenced
    <3>2. QED BY <2>1, <3>1 DEF IInv, Undecided, Standing
  <2>2. CASE complete # "none" BY <2>2 DEF IInv, Decided, Standing
  <2>3. QED BY <2>1, <2>2
<1>3. complete' = complete /\ cancel' = cancel BY DEF Read, journals
<1>4. Standing' = Standing BY <1>3 DEF Standing, AuthorityImage
<1>5. QED BY <1>1, <1>2, <1>3, <1>4 DEF Group!Read

LEMMA GroupStep ==
    ASSUME IInv, [Next]_vars
    PROVE  [Group!Next]_<<Standing, GivenUp, told>>
<1>1. CASE PutCancel BY <1>1, CancelGivesUp DEF Group!Next
<1>2. CASE PutComplete BY <1>2, CompleteDecides DEF Group!Next
<1>3. CASE RemoveCancel BY <1>3, CleanupKeeps
<1>4. CASE \E e \in Entries : Read(e) BY <1>4, ReadersAreToldIt DEF Group!Next
<1>5. CASE UNCHANGED <<complete, cancel, told>>
  <2>1. Standing' = Standing BY <1>5 DEF Standing, AuthorityImage
  <2>2. GivenUp' = GivenUp BY <1>5 DEF GivenUp
  <2>3. QED BY <1>5, <2>1, <2>2
<1>6. QED
  BY <1>1, <1>2, <1>3, <1>4, <1>5
     DEF Next, vars, journals, history, Publish, Recover, RecoverAfter, RecoverBefore,
         Compensate, CancelUnready, RecoverComplete, Begin, Step, PutCoordinator, PutGuard,
         CheckGuarded, CheckTargets, CheckFinal, Look, PutReady, PutObjects, PutReceipt,
         PutRecord, PutAuthority, RemoveGuard, RemoveReady, RemoveCoordinator, Stop, Edit,
         Restore

(* The members change their authority at once, or not at all: whatever dies,
   every reader is told what one record with one authority would say, in
   groups of any size. *)
THEOREM GroupChangesAsOne == Spec => ImplementsAtomicGroup
<1>1. Init => Group!Init BY StandingStarts
<1>2. IInv /\ [Next]_vars => [Group!Next]_<<Standing, cancel \/ complete = "compensate", told>>
  BY GroupStep DEF GivenUp
<1>3. QED BY <1>1, <1>2, Invariance, PTL DEF Spec, ImplementsAtomicGroup, Group!Spec
=============================================================================
