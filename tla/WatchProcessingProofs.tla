------------------------- MODULE WatchProcessingProofs -------------------------
(***************************************************************************)
(* Theorems about the background comparison of kpop watch, for every set   *)
(* of processes, requests and versions and every bound.                    *)
(*                                                                         *)
(* Both properties rest on processor.lock: what the one process between    *)
(* its acquisition and its release keeps in its locals is changed by       *)
(* nobody else.  NobodyLeftWaiting adds that the request differs from the  *)
(* ticket once somebody has asked, and stays different.                    *)
(***************************************************************************)
EXTENDS WatchProcessing, TLAPS

(* At most one process holds processor.lock. *)
Exclusive == \A p, q \in Procs : pc[p] \in Running /\ pc[q] \in Running => p = q

(* A pass is begun only while one is left. *)
PassesLeft == \A p \in Procs : pc[p] = "pass" => passes < MaxPasses

(* What is stored is the verdict of its version. *)
StoredTrue ==
    result # Nil /\ result.state # "unavailable" => result = Compared(result.identity)

(* What p is about to store, and has not checked yet, is a verdict on what it
   observed. *)
DraftTrue(p) ==
    /\ pc[p] \in {"recheck", "save"} => draft \in Results
    /\ pc[p] = "recheck" => observed \in Versions
    /\ pc[p] \in {"recheck", "save"} /\ draft.state # "unavailable" =>
           draft = Compared(observed)

(* Unless somebody has asked since the ticket, the snapshot in p's hands covers
   every request, and nobody waits when its result is stored. *)
Answers(p) ==
    request = ticket =>
        /\ pc[p] \in {"recheck", "save"} => (owed => covers)
        /\ pc[p] = "finish" => ~owed

(* The parts of TypeOK. *)
Flags == enabled \in BOOLEAN /\ owed \in BOOLEAN /\ covers \in BOOLEAN

Counters ==
    /\ lease \in 0 .. Lease
    /\ passes \in 0 .. MaxPasses
    /\ crashes \in 0 .. MaxCrashes
    /\ changes \in 0 .. MaxChanges

Values ==
    /\ request \in Tickets \cup {Nil}
    /\ result \in Results \cup {Nil}
    /\ content \in Versions
    /\ ticket \in Tickets \cup {Nil}
    /\ observed \in Versions \cup {Nil}
    /\ draft \in Results \cup {Nil}

Places == pc \in [Procs -> {"none", "launched"} \cup Running]

IInv ==
    /\ TypeOK
    /\ Exclusive
    /\ PassesLeft
    /\ StoredTrue
    /\ \A p \in Procs : DraftTrue(p)
    /\ \A p \in Procs : Answers(p)

-----------------------------------------------------------------------------

(* A verdict is a result, and Nil, which the constants keep apart from all
   versions, is no version. *)
LEMMA ComparedIsResult ==
    ASSUME NEW v \in Versions
    PROVE  Compared(v) \in Results /\ Compared(v).identity = v
BY DEF Compared, Results, States

LEMMA TypeParts == TypeOK <=> Flags /\ Counters /\ Values /\ Places
BY DEF TypeOK, Flags, Counters, Values, Places

LEMMA TypePartsNext ==
    ASSUME Flags', Counters', Values', Places'
    PROVE  TypeOK'
BY DEF TypeOK, Flags, Counters, Values, Places

(* The program starts with nothing running and nothing owed. *)
LEMMA InitIInv == Init => IInv
<1> SUFFICES ASSUME Init PROVE IInv
  OBVIOUS
<1>1. Flags BY DEF Init, Flags
<1>2. Counters BY ConstantsAssumption DEF Init, Counters
<1>3. Values /\ Places BY DEF Init, Values, Places
<1>4. Exclusive /\ PassesLeft /\ StoredTrue
  BY DEF Init, Exclusive, PassesLeft, StoredTrue, Running
<1>5. \A p \in Procs : DraftTrue(p) /\ Answers(p)
  BY DEF Init, DraftTrue, Answers
<1> QED BY <1>1, <1>2, <1>3, <1>4, <1>5, TypeParts DEF IInv

(* A new request is none of those that anybody compares: the processor cannot
   take it for its ticket (request_with). *)
LEMMA NewRequestKeepsAnswers ==
    ASSUME NEW i \in Tickets, NewRequest(i), UNCHANGED <<ticket, covers>>,
           NEW p \in Procs
    PROVE  Answers(p)'
BY DEF NewRequest, Answers

(* TakeLease launches a process that is inside nothing. *)
LEMMA TakeLeaseKeeps ==
    ASSUME NEW from \in [Procs -> {"none", "launched"} \cup Running],
           TakeLease(from), lease \in 0 .. Lease
    PROVE  /\ pc' \in [Procs -> {"none", "launched"} \cup Running]
           /\ lease' \in 0 .. Lease
           /\ \A p \in Procs : pc'[p] \in Running => from[p] = pc'[p]
BY ConstantsAssumption DEF TakeLease, Running

LEMMA RequestStep ==
    ASSUME IInv, NEW i \in Tickets, Request(i)
    PROVE  IInv'
<1>1. pc \in [Procs -> {"none", "launched"} \cup Running] /\ lease \in 0 .. Lease
  BY DEF IInv, TypeOK
<1>2. /\ pc' \in [Procs -> {"none", "launched"} \cup Running]
      /\ lease' \in 0 .. Lease
      /\ \A p \in Procs : pc'[p] \in Running => pc[p] = pc'[p]
  BY <1>1, TakeLeaseKeeps DEF Request
<1>3. TypeOK'
  BY <1>2 DEF IInv, TypeOK, Request, NewRequest, locals, budget
<1>4. Exclusive' /\ PassesLeft' /\ StoredTrue'
  BY <1>2 DEF IInv, Exclusive, PassesLeft, StoredTrue, Request, locals, Running
<1>5. ASSUME NEW p \in Procs PROVE DraftTrue(p)'
  BY <1>2 DEF IInv, DraftTrue, Request, locals, Running
<1>6. ASSUME NEW p \in Procs PROVE Answers(p)'
  BY NewRequestKeepsAnswers DEF Request, locals
<1> QED BY <1>3, <1>4, <1>5, <1>6 DEF IInv

LEMMA RequestCutShortStep ==
    ASSUME IInv, NEW i \in Tickets, RequestCutShort(i)
    PROVE  IInv'
<1>1. TypeOK'
  <2>1. Flags' BY TypeParts DEF IInv, Flags, RequestCutShort, NewRequest, locals
  <2>2. Counters' BY TypeParts, ConstantsAssumption DEF IInv, Counters, RequestCutShort, NewRequest, locals
  <2>3. Values' /\ Places' BY TypeParts DEF IInv, Values, Places, RequestCutShort, NewRequest, locals
  <2> QED BY <2>1, <2>2, <2>3, TypePartsNext
<1>2. Exclusive' /\ PassesLeft' /\ StoredTrue'
  BY DEF IInv, Exclusive, PassesLeft, StoredTrue, RequestCutShort, locals
<1>3. ASSUME NEW p \in Procs PROVE DraftTrue(p)'
  BY DEF IInv, DraftTrue, RequestCutShort, locals
<1>4. ASSUME NEW p \in Procs PROVE Answers(p)'
  BY NewRequestKeepsAnswers DEF RequestCutShort, locals
<1> QED BY <1>1, <1>2, <1>3, <1>4 DEF IInv

-----------------------------------------------------------------------------
(* Steps of one process. *)

(* p moves to step, and nobody enters or all were outside: the lock keeps its
   single holder. *)
LEMMA GotoKeepsExclusion ==
    ASSUME IInv, NEW p \in Procs, NEW step \in {"none"} \cup Running, Goto(p, step),
           pc[p] \in Running \/ step = "none" \/ ProcessorFree
    PROVE  /\ Exclusive'
           /\ pc' \in [Procs -> {"none", "launched"} \cup Running]
           /\ pc'[p] = step
           /\ \A q \in Procs \ {p} : pc'[q] = pc[q]
           /\ step \in Running => \A q \in Procs \ {p} : pc'[q] \notin Running
<1>1. Places BY TypeParts DEF IInv
<1>2. /\ pc' \in [Procs -> {"none", "launched"} \cup Running]
      /\ pc'[p] = step
      /\ \A q \in Procs \ {p} : pc'[q] = pc[q]
  BY <1>1 DEF Places, Goto
<1>3. "none" \notin Running BY DEF Running
<1>4. step \in Running => \A q \in Procs \ {p} : pc'[q] \notin Running
  BY <1>2, <1>3 DEF IInv, Exclusive, ProcessorFree, Processing
<1>5. Exclusive' BY <1>2, <1>3, <1>4 DEF IInv, Exclusive
<1> QED BY <1>2, <1>4, <1>5

LEMMA StartStep ==
    ASSUME IInv, NEW p \in Procs, Start(p)
    PROVE  IInv'
<1>1. CASE enabled /\ ProcessorFree
  <2>1. Goto(p, "pass") /\ passes' = 0 BY <1>1 DEF Start
  <2>2. "pass" \in Running BY DEF Running
  <2>3. /\ Exclusive'
        /\ pc' \in [Procs -> {"none", "launched"} \cup Running]
        /\ pc'[p] = "pass"
        /\ \A q \in Procs \ {p} : pc'[q] = pc[q] /\ pc'[q] \notin Running
    BY <1>1, <2>1, <2>2, GotoKeepsExclusion
  <2>4. TypeOK' /\ PassesLeft' /\ StoredTrue'
    BY <2>1, <2>3, ConstantsAssumption
    DEF IInv, TypeOK, PassesLeft, StoredTrue, Start, budget, Running
  <2>5. ASSUME NEW q \in Procs PROVE DraftTrue(q)' /\ Answers(q)'
    BY <2>3 DEF DraftTrue, Answers, Running
  <2> QED BY <2>3, <2>4, <2>5 DEF IInv
<1>2. CASE ~(enabled /\ ProcessorFree)
  <2>1. Goto(p, "none") /\ passes' = passes BY <1>2 DEF Start
  <2>2. /\ Exclusive'
        /\ pc' \in [Procs -> {"none", "launched"} \cup Running]
        /\ pc'[p] = "none"
        /\ \A q \in Procs \ {p} : pc'[q] = pc[q]
    BY <2>1, GotoKeepsExclusion
  <2>3. TypeOK' /\ PassesLeft' /\ StoredTrue'
    BY <2>1, <2>2 DEF IInv, TypeOK, PassesLeft, StoredTrue, Start, budget
  <2>4. ASSUME NEW q \in Procs PROVE DraftTrue(q)' /\ Answers(q)'
    BY <2>1, <2>2 DEF IInv, DraftTrue, Answers, Start
  <2> QED BY <2>2, <2>3, <2>4 DEF IInv
<1> QED BY <1>1, <1>2

LEMMA TakeTicketStep ==
    ASSUME IInv, NEW p \in Procs, TakeTicket(p)
    PROVE  IInv'
<1>1. pc[p] \in Running /\ "shared" \in Running BY DEF TakeTicket, Running
<1>2. /\ Exclusive'
      /\ pc' \in [Procs -> {"none", "launched"} \cup Running]
      /\ pc'[p] = "shared"
      /\ \A q \in Procs \ {p} : pc'[q] = pc[q] /\ pc'[q] \notin Running
  BY <1>1, GotoKeepsExclusion DEF TakeTicket
<1>3. passes < MaxPasses BY DEF IInv, PassesLeft, TakeTicket
<1>4. TypeOK' /\ PassesLeft' /\ StoredTrue'
  BY <1>2, <1>3, ConstantsAssumption
  DEF IInv, TypeOK, PassesLeft, StoredTrue, TakeTicket, budget, Running
<1>5. ASSUME NEW q \in Procs PROVE DraftTrue(q)' /\ Answers(q)'
  BY <1>2 DEF DraftTrue, Answers, Running
<1> QED BY <1>2, <1>4, <1>5 DEF IInv

LEMMA ApplySharedStep ==
    ASSUME IInv, NEW p \in Procs, NEW v \in Versions, NEW i \in Tickets,
           ApplyShared(p, v, i)
    PROVE  IInv'
<1> DEFINE from == [pc EXCEPT ![p] = "look"]
<1>1. /\ from \in [Procs -> {"none", "launched"} \cup Running]
      /\ from[p] = "look"
      /\ \A q \in Procs \ {p} : from[q] = pc[q]
  BY DEF IInv, TypeOK, Running
<1>2. TakeLease(from) BY DEF ApplyShared
<1> HIDE DEF from
<1>3. lease \in 0 .. Lease BY DEF IInv, TypeOK
<1>4. /\ pc' \in [Procs -> {"none", "launched"} \cup Running]
      /\ lease' \in 0 .. Lease
      /\ \A q \in Procs : pc'[q] \in Running => from[q] = pc'[q]
  BY <1>1, <1>2, <1>3, TakeLeaseKeeps
<1>5. \A q \in Procs : pc'[q] \in Running => q = p /\ pc'[q] = "look"
  BY <1>1, <1>4 DEF IInv, Exclusive, ApplyShared, Running
<1>6. TypeOK'
  <2>1. Flags' BY <1>4, TypeParts DEF IInv, Flags, ApplyShared, NewRequest, locals
  <2>2. Counters' BY <1>4, TypeParts, ConstantsAssumption DEF IInv, Counters, ApplyShared, NewRequest, locals
  <2>3. Values' /\ Places' BY <1>4, TypeParts DEF IInv, Values, Places, ApplyShared, NewRequest, locals
  <2> QED BY <2>1, <2>2, <2>3, TypePartsNext
<1>7. Exclusive' /\ PassesLeft' /\ StoredTrue'
  BY <1>5 DEF IInv, Exclusive, PassesLeft, StoredTrue, ApplyShared, Running
<1>8. ASSUME NEW q \in Procs PROVE DraftTrue(q)' /\ Answers(q)'
  BY <1>5 DEF DraftTrue, Answers, Running
<1> QED BY <1>6, <1>7, <1>8 DEF IInv

LEMMA NothingSharedStep ==
    ASSUME IInv, NEW p \in Procs, NothingShared(p)
    PROVE  IInv'
<1>1. pc[p] \in Running /\ "look" \in Running BY DEF NothingShared, Running
<1>2. /\ Exclusive'
      /\ pc' \in [Procs -> {"none", "launched"} \cup Running]
      /\ pc'[p] = "look"
      /\ \A q \in Procs \ {p} : pc'[q] = pc[q] /\ pc'[q] \notin Running
  BY <1>1, GotoKeepsExclusion DEF NothingShared
<1>3. TypeOK' /\ PassesLeft' /\ StoredTrue'
  BY <1>2 DEF IInv, TypeOK, PassesLeft, StoredTrue, NothingShared, locals, budget, Running
<1>4. ASSUME NEW q \in Procs PROVE DraftTrue(q)' /\ Answers(q)'
  BY <1>2 DEF DraftTrue, Answers, Running
<1> QED BY <1>2, <1>3, <1>4 DEF IInv

(* A stored result that is taken over is the verdict of the version that was
   just observed; a new one is by definition. *)
LEMMA ObserveStep ==
    ASSUME IInv, NEW p \in Procs, Observe(p)
    PROVE  IInv'
<1>1. pc[p] \in Running /\ "recheck" \in Running BY DEF Observe, Running
<1>2. /\ Exclusive'
      /\ pc' \in [Procs -> {"none", "launched"} \cup Running]
      /\ pc'[p] = "recheck"
      /\ \A q \in Procs \ {p} : pc'[q] = pc[q] /\ pc'[q] \notin Running
  BY <1>1, GotoKeepsExclusion DEF Observe
<1>3. content \in Versions /\ observed' = content /\ covers' = owed
  BY DEF IInv, TypeOK, Observe
<1>4. draft' = Compared(content)
  BY DEF Observe, IInv, StoredTrue
<1>5. draft' \in Results BY <1>3, <1>4, ComparedIsResult
<1>6. TypeOK' /\ PassesLeft' /\ StoredTrue'
  BY <1>2, <1>3, <1>5 DEF IInv, TypeOK, PassesLeft, StoredTrue, Observe, budget, Running
<1>7. ASSUME NEW q \in Procs PROVE DraftTrue(q)'
  BY <1>2, <1>3, <1>4, <1>5 DEF DraftTrue, Running, Compared
<1>8. ASSUME NEW q \in Procs PROVE Answers(q)'
  BY <1>2, <1>3 DEF Answers, Running, Observe
<1> QED BY <1>2, <1>6, <1>7, <1>8 DEF IInv

LEMMA FailStep ==
    ASSUME IInv, NEW p \in Procs, Fail(p)
    PROVE  IInv'
<1>1. pc[p] \in Running /\ "save" \in Running BY DEF Fail, Running
<1>2. /\ Exclusive'
      /\ pc' \in [Procs -> {"none", "launched"} \cup Running]
      /\ pc'[p] = "save"
      /\ \A q \in Procs \ {p} : pc'[q] = pc[q] /\ pc'[q] \notin Running
  BY <1>1, GotoKeepsExclusion DEF Fail
<1>3. draft' \in Results /\ draft'.state = "unavailable"
  BY DEF Fail, IInv, TypeOK, Results, States
<1>4. TypeOK'
  <2>1. Flags' BY <1>2, <1>3, TypeParts DEF IInv, Flags, Fail
  <2>2. Counters' BY <1>2, <1>3, TypeParts, ConstantsAssumption DEF IInv, Counters, Fail
  <2>3. Values' /\ Places' BY <1>2, <1>3, TypeParts DEF IInv, Values, Places, Fail
  <2> QED BY <2>1, <2>2, <2>3, TypePartsNext
<1>7. PassesLeft' /\ StoredTrue'
  BY <1>2 DEF IInv, PassesLeft, StoredTrue, Fail, Running
<1>5. ASSUME NEW q \in Procs PROVE DraftTrue(q)'
  BY <1>2, <1>3 DEF DraftTrue, Running
<1>6. ASSUME NEW q \in Procs PROVE Answers(q)'
  BY <1>2 DEF Answers, Running, Fail, IInv
<1> QED BY <1>2, <1>4, <1>5, <1>6, <1>7 DEF IInv

LEMMA RecheckStep ==
    ASSUME IInv, NEW p \in Procs, Recheck(p)
    PROVE  IInv'
<1> DEFINE step == IF content = observed THEN "save" ELSE NextPass
<1>1. pc[p] \in Running /\ step \in Running BY DEF Recheck, Running, NextPass
<1>2. Goto(p, step) BY DEF Recheck
<1>3. step = "pass" => passes < MaxPasses BY DEF NextPass
<1>4. step \in {"save", "pass", "giveup"} BY DEF NextPass
<1> HIDE DEF step
<1>5. /\ Exclusive'
      /\ pc' \in [Procs -> {"none", "launched"} \cup Running]
      /\ pc'[p] = step
      /\ \A q \in Procs \ {p} : pc'[q] = pc[q] /\ pc'[q] \notin Running
  BY <1>1, <1>2, GotoKeepsExclusion
<1>6. TypeOK' /\ PassesLeft' /\ StoredTrue'
  BY <1>3, <1>5 DEF IInv, TypeOK, PassesLeft, StoredTrue, Recheck, locals, budget, Running
<1>7. ASSUME NEW q \in Procs PROVE DraftTrue(q)' /\ Answers(q)'
  <2>1. CASE q # p BY <1>5, <2>1 DEF DraftTrue, Answers, Running
  <2>2. CASE q = p
    BY <1>4, <1>5, <2>2 DEF IInv, DraftTrue, Answers, Recheck, locals
  <2> QED BY <2>1, <2>2
<1> QED BY <1>5, <1>6, <1>7 DEF IInv

(* What is stored names the version that it was compared for; requests that the
   snapshot covers are answered. *)
LEMMA SaveResultStep ==
    ASSUME IInv, NEW p \in Procs, SaveResult(p)
    PROVE  IInv'
<1>1. pc[p] \in Running /\ "finish" \in Running BY DEF SaveResult, Running
<1>2. /\ Exclusive'
      /\ pc' \in [Procs -> {"none", "launched"} \cup Running]
      /\ pc'[p] = "finish"
      /\ \A q \in Procs \ {p} : pc'[q] = pc[q] /\ pc'[q] \notin Running
  BY <1>1, GotoKeepsExclusion DEF SaveResult
<1>3. DraftTrue(p) BY DEF IInv
<1>4. draft \in Results /\ result' = draft BY <1>3 DEF DraftTrue, SaveResult
<1>5. draft.state # "unavailable" => draft = Compared(draft.identity)
  BY <1>3 DEF DraftTrue, SaveResult, Compared
<1>6. TypeOK' /\ PassesLeft'
  BY <1>2, <1>4 DEF IInv, TypeOK, PassesLeft, SaveResult, locals, budget, Running
<1>7. StoredTrue' BY <1>4, <1>5 DEF StoredTrue, Compared
<1>8. ASSUME NEW q \in Procs PROVE DraftTrue(q)' /\ Answers(q)'
  <2>1. CASE q # p BY <1>2, <2>1 DEF DraftTrue, Answers, Running
  <2>2. CASE q = p
    BY <1>2, <2>2 DEF IInv, DraftTrue, Answers, SaveResult, locals
  <2> QED BY <2>1, <2>2
<1> QED BY <1>2, <1>6, <1>7, <1>8 DEF IInv

LEMMA FinishStep ==
    ASSUME IInv, NEW p \in Procs, Finish(p)
    PROVE  IInv'
<1> DEFINE step == IF request = ticket THEN "leaving" ELSE NextPass
<1>1. pc[p] \in Running /\ step \in Running BY DEF Finish, Running, NextPass
<1>2. Goto(p, step) /\ lease' \in 0 .. Lease
  BY ConstantsAssumption DEF Finish, IInv, TypeOK
<1>3. step = "pass" => passes < MaxPasses BY DEF NextPass
<1>4. step \notin {"recheck", "save", "finish"} BY DEF NextPass
<1> HIDE DEF step
<1>5. /\ Exclusive'
      /\ pc' \in [Procs -> {"none", "launched"} \cup Running]
      /\ pc'[p] = step
      /\ \A q \in Procs \ {p} : pc'[q] = pc[q] /\ pc'[q] \notin Running
  BY <1>1, <1>2, GotoKeepsExclusion
<1>6. TypeOK' /\ PassesLeft' /\ StoredTrue'
  BY <1>2, <1>3, <1>5 DEF IInv, TypeOK, PassesLeft, StoredTrue, Finish, locals, budget, Running
<1>7. ASSUME NEW q \in Procs PROVE DraftTrue(q)' /\ Answers(q)'
  BY <1>4, <1>5 DEF DraftTrue, Answers, Running
<1> QED BY <1>5, <1>6, <1>7 DEF IInv

LEMMA GiveUpStep ==
    ASSUME IInv, NEW p \in Procs, GiveUp(p)
    PROVE  IInv'
<1>1. pc[p] \in Running /\ "leaving" \in Running BY DEF GiveUp, Running
<1>2. /\ Exclusive'
      /\ pc' \in [Procs -> {"none", "launched"} \cup Running]
      /\ pc'[p] = "leaving"
      /\ \A q \in Procs \ {p} : pc'[q] = pc[q] /\ pc'[q] \notin Running
  BY <1>1, GotoKeepsExclusion DEF GiveUp
<1>3. TypeOK' /\ PassesLeft' /\ StoredTrue'
  BY <1>2, ConstantsAssumption
  DEF IInv, TypeOK, PassesLeft, StoredTrue, GiveUp, locals, budget, Running
<1>4. ASSUME NEW q \in Procs PROVE DraftTrue(q)' /\ Answers(q)'
  BY <1>2 DEF DraftTrue, Answers, Running
<1> QED BY <1>2, <1>3, <1>4 DEF IInv

(* Nobody is inside after the only process inside has left, whatever became of
   it. *)
LEMMA NobodyInside ==
    ASSUME IInv, NEW p \in Procs, pc[p] \in Running, Goto(p, "none")
    PROVE  /\ pc' \in [Procs -> {"none", "launched"} \cup Running]
           /\ \A q \in Procs : pc'[q] \notin Running
BY DEF IInv, TypeOK, Exclusive, Goto, Running

LEMMA LeaveStep ==
    ASSUME IInv, NEW p \in Procs, Leave(p)
    PROVE  IInv'
<1>1. pc[p] \in Running BY DEF Leave, Running
<1>2. /\ pc' \in [Procs -> {"none", "launched"} \cup Running]
      /\ \A q \in Procs : pc'[q] \notin Running
  BY <1>1, NobodyInside DEF Leave
<1>3. TypeOK'
  <2>1. Flags' BY <1>2, TypeParts DEF IInv, Flags, Leave, budget
  <2>2. Counters' BY <1>2, TypeParts, ConstantsAssumption DEF IInv, Counters, Leave, budget
  <2>3. Values' /\ Places' BY <1>2, TypeParts DEF IInv, Values, Places, Leave, budget
  <2> QED BY <2>1, <2>2, <2>3, TypePartsNext
<1>4. Exclusive' /\ PassesLeft' /\ StoredTrue'
  BY <1>2 DEF IInv, Exclusive, PassesLeft, StoredTrue, Leave, Running
<1>5. ASSUME NEW q \in Procs PROVE DraftTrue(q)' /\ Answers(q)'
  BY <1>2 DEF DraftTrue, Answers, Running
<1> QED BY <1>3, <1>4, <1>5 DEF IInv

LEMMA CrashStep ==
    ASSUME IInv, NEW p \in Procs, Crash(p)
    PROVE  IInv'
<1>1. CASE pc[p] \in Running
  <2>1. /\ pc' \in [Procs -> {"none", "launched"} \cup Running]
        /\ \A q \in Procs : pc'[q] \notin Running
    BY <1>1, NobodyInside DEF Crash
  <2>2. TypeOK'
    <3>1. Flags' BY <1>1, <2>1, TypeParts DEF IInv, Flags, Crash
    <3>2. Counters' BY <1>1, <2>1, TypeParts, ConstantsAssumption DEF IInv, Counters, Crash
    <3>3. Values' /\ Places' BY <1>1, <2>1, TypeParts DEF IInv, Values, Places, Crash
    <3> QED BY <3>1, <3>2, <3>3, TypePartsNext
  <2>3. Exclusive' /\ PassesLeft' /\ StoredTrue'
    BY <2>1 DEF IInv, Exclusive, PassesLeft, StoredTrue, Crash, Running
  <2>4. ASSUME NEW q \in Procs PROVE DraftTrue(q)' /\ Answers(q)'
    BY <2>1 DEF DraftTrue, Answers, Running
  <2> QED BY <2>2, <2>3, <2>4 DEF IInv
<1>2. CASE pc[p] \notin Running
  <2>1. /\ Exclusive'
        /\ pc' \in [Procs -> {"none", "launched"} \cup Running]
        /\ pc'[p] = "none"
        /\ \A q \in Procs \ {p} : pc'[q] = pc[q]
    BY GotoKeepsExclusion DEF Crash
  <2>2. UNCHANGED <<locals, covers>> BY <1>2 DEF Crash
  <2>3. TypeOK'
    <3>1. Flags' BY <2>1, <2>2, TypeParts DEF IInv, Flags, Crash, locals
    <3>2. Counters' BY <2>1, <2>2, TypeParts, ConstantsAssumption DEF IInv, Counters, Crash, locals
    <3>3. Values' /\ Places' BY <2>1, <2>2, TypeParts DEF IInv, Values, Places, Crash, locals
    <3> QED BY <3>1, <3>2, <3>3, TypePartsNext
  <2>5. PassesLeft' /\ StoredTrue'
    BY <2>1, <2>2 DEF IInv, PassesLeft, StoredTrue, Crash, locals
  <2>4. ASSUME NEW q \in Procs PROVE DraftTrue(q)' /\ Answers(q)'
    BY <2>1, <2>2 DEF IInv, DraftTrue, Answers, Crash, locals
  <2> QED BY <2>1, <2>3, <2>4, <2>5 DEF IInv
<1> QED BY <1>1, <1>2

(* Steps that leave the processor and the requests alone. *)
LEMMA EnvironmentStep ==
    ASSUME IInv,
           \/ \E v \in Versions : Change(v)
           \/ \E on \in BOOLEAN : Configure(on)
           \/ Tick
           \/ UNCHANGED vars
    PROVE  IInv'
<1>1. UNCHANGED <<request, result, pc, locals, owed, covers>>
  BY DEF Change, Configure, Tick, vars, locals
<1>2. TypeOK'
  <2>1. Flags' BY TypeParts DEF IInv, Flags, Change, Configure, Tick, vars, locals, budget
  <2>2. Counters' BY TypeParts, ConstantsAssumption DEF IInv, Counters, Change, Configure, Tick, vars, locals, budget
  <2>3. Values' /\ Places' BY TypeParts DEF IInv, Values, Places, Change, Configure, Tick, vars, locals, budget
  <2> QED BY <2>1, <2>2, <2>3, TypePartsNext
<1>3. Exclusive' /\ PassesLeft' /\ StoredTrue'
  BY <1>1 DEF IInv, Exclusive, PassesLeft, StoredTrue, locals
<1>4. ASSUME NEW p \in Procs PROVE DraftTrue(p)' /\ Answers(p)'
  BY <1>1 DEF IInv, DraftTrue, Answers, locals
<1> QED BY <1>2, <1>3, <1>4 DEF IInv

-----------------------------------------------------------------------------

LEMMA NextStep ==
    ASSUME IInv, [Next]_vars
    PROVE  IInv'
<1>1. CASE \E i \in Tickets : Request(i) \/ RequestCutShort(i)
  BY <1>1, RequestStep, RequestCutShortStep
<1>2. CASE \E p \in Procs : Process(p)
  BY <1>2, StartStep, TakeTicketStep, NothingSharedStep, ObserveStep, RecheckStep,
     SaveResultStep, FinishStep, GiveUpStep, LeaveStep DEF Process
<1>3. CASE \E p \in Procs : \E v \in Versions, i \in Tickets : ApplyShared(p, v, i)
  BY <1>3, ApplySharedStep
<1>4. CASE \E p \in Procs : Fail(p) \/ Crash(p)
  BY <1>4, FailStep, CrashStep
<1>5. CASE \/ \E v \in Versions : Change(v)
           \/ \E on \in BOOLEAN : Configure(on)
           \/ Tick
           \/ UNCHANGED vars
  BY <1>5, EnvironmentStep
<1> QED BY <1>1, <1>2, <1>3, <1>4, <1>5 DEF Next

(* The inductive invariant holds of every behaviour of the processor, its
   requests and its environment. *)
THEOREM IInvHolds == Spec => []IInv
BY InitIInv, NextStep, PTL DEF Spec

(* Every variable has its type: no processor makes a pass more than
   MaxPasses. *)
THEOREM WatchTypes == Spec => []TypeOK
<1>1. IInv => TypeOK BY DEF IInv
<1> QED BY <1>1, IInvHolds, PTL

(* A verdict that is stored, or about to be, is the verdict on the version that
   it names. *)
THEOREM VerdictsNameTheirVersion == Spec => []VerdictOfItsVersion
<1>1. IInv => VerdictOfItsVersion
  BY DEF IInv, StoredTrue, DraftTrue, VerdictOfItsVersion
<1> QED BY <1>1, IInvHolds, PTL

(* A processor that stops because nobody has asked since its ticket has
   answered every request. *)
THEOREM NobodyIsLeftWaiting == Spec => NobodyLeftWaiting
<1> DEFINE Stop == \A p \in Procs : pc[p] = "finish" /\ pc'[p] = "leaving" => ~owed'
<1>1. ASSUME IInv, [Next]_vars PROVE [Stop]_vars
  <2> SUFFICES ASSUME Next, NEW p \in Procs, pc[p] = "finish", pc'[p] = "leaving"
               PROVE  ~owed'
    BY <1>1
  <2>1. Finish(p)
    <3>0. Places BY <1>1, TypeParts DEF IInv
    <3>1. \A i \in Tickets : ~Request(i) /\ ~RequestCutShort(i)
      BY <3>0 DEF Request, RequestCutShort, TakeLease, Places
    <3>2. ASSUME NEW q \in Procs PROVE pc'[p] = pc[p] \/ q = p \/ ~Process(q)
      BY <3>0 DEF Process, Start, TakeTicket, NothingShared, Observe, Recheck,
             SaveResult, Finish, GiveUp, Leave, Goto, Places
    <3>3. Process(p) => Finish(p)
      BY DEF Process, Start, TakeTicket, NothingShared, Observe, Recheck, SaveResult,
             GiveUp, Leave
    <3>4. ASSUME NEW q \in Procs, NEW v \in Versions, NEW i \in Tickets
          PROVE  ~ApplyShared(q, v, i)
      BY <3>0 DEF ApplyShared, TakeLease, Places
    <3>5. ASSUME NEW q \in Procs PROVE ~Fail(q) /\ ~Crash(q)
      BY <3>0 DEF Fail, Crash, Goto, Places
    <3>6. ~Tick /\ (\A v \in Versions : ~Change(v)) /\ (\A on \in BOOLEAN : ~Configure(on))
      BY DEF Tick, Change, Configure
    <3> QED BY <3>1, <3>2, <3>3, <3>4, <3>5, <3>6 DEF Next
  <2>0. Places BY <1>1, TypeParts DEF IInv
  <2>2. request = ticket BY <2>0, <2>1 DEF Finish, Goto, NextPass, Places
  <2> QED BY <1>1, <2>1, <2>2 DEF IInv, Answers, Finish
<1>2. [][Stop]_vars <=> NobodyLeftWaiting BY DEF NobodyLeftWaiting
<1> QED BY <1>1, <1>2, IInvHolds, PTL DEF Spec
=============================================================================
