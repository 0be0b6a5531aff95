-------------------------- MODULE WatchDeliveryProofs --------------------------
(***************************************************************************)
(* What kpop watch promises about its messages, for every set of findings  *)
(* and agents and every bound: one agent at most sends for a job, a        *)
(* receipt names only what was told, is about to be told or was lost with  *)
(* nobody knowing, and what may have arrived is not told again while its   *)
(* receipt stands.                                                         *)
(*                                                                         *)
(* Nobody holds delivery.lock while a message is sent, so all rest on the  *)
(* job: its id grows with each reservation, only a reserved job can be     *)
(* waited on, and nothing makes a job reserved again.                      *)
(***************************************************************************)
EXTENDS WatchDelivery, TLAPS

JobTypes ==
    [id : 0 .. MaxJobs, state : JobStates, findings : SUBSET Findings,
     episode : Episodes]

HookTypes ==
    [at : {"idle", "look", "poll", "offer", "print"},
     got : Reports, out : SUBSET Findings]

AgentPlaces == {"idle", "wait", "poll", "offer", "claim", "quiet", "send", "complete"}

AgentTypes ==
    [at : AgentPlaces, job : 0 .. MaxJobs, got : Reports, notice : SUBSET Findings,
     outcome : {"none", "sent", "failed", "unknown"}]

Receipts == [ids : SUBSET Findings, episode : Episodes]

(* The parts of TypeOK. *)
Counters ==
    /\ moved \in BOOLEAN
    /\ lease \in 0 .. Lease
    /\ results \in 0 .. MaxResults
    /\ failures \in 0 .. MaxFailures

Values ==
    /\ result \in Reports
    /\ receipt \in Receipts
    /\ job \in JobTypes
    /\ hook \in HookTypes
    /\ told \in SUBSET (Findings \X Episodes)
    /\ doubtful \in SUBSET (Findings \X Episodes)
    /\ held \in SUBSET Findings

Types == Counters /\ Values /\ agent \in [Agents -> AgentTypes]

(* An agent that was the one to make its job wait. *)
Waited(a) == agent[a].at \in AgentPlaces \ {"idle", "wait"}

(* Nobody works on a job that is not reserved yet. *)
JobsKnown == \A a \in Agents : agent[a].job <= job.id

(* A reserved job was waited on by nobody, and every other job by one agent. *)
OneWaiter ==
    /\ job.state = "reserved" => \A a \in Agents : Waited(a) => agent[a].job # job.id
    /\ \A a, b \in Agents :
           Waited(a) /\ Waited(b) /\ agent[a].job = agent[b].job => a = b

(* What has an end that somebody saw, and what is left of it to the hook. *)
Ended == told \cup doubtful
Accounted == Ended \cup Unprinted

(* A job that is being sent says what its agent sends, and has sent when it
   reports anything but a failure. *)
Sender(a) ==
    agent[a].job = job.id /\ job.state = "sending" =>
        /\ agent[a].at = "send" =>
               job.findings = agent[a].notice /\ job.episode = agent[a].got.episode
        /\ agent[a].at = "complete" /\ agent[a].outcome # "failed" =>
               \A f \in job.findings : <<f, job.episode>> \in Ended

Inv ==
    /\ JobsKnown
    /\ OneWaiter
    /\ \A a \in Agents : Sender(a)
    /\ ReceiptHonest

IInv == Types /\ Inv

-----------------------------------------------------------------------------
(* Records. *)

LEMMA Constant == NoReport \in Reports /\ IdleHook \in HookTypes /\ IdleAgent \in AgentTypes
BY ConstantsAssumption
DEF NoReport, Reports, Episodes, IdleHook, HookTypes, IdleAgent, AgentTypes, AgentPlaces

LEMMA UnavailableType == Unavailable \in Reports
BY ConstantsAssumption DEF Unavailable, Reports, Episodes

LEMMA Idle == IdleAgent.at = "idle" /\ IdleAgent.job = 0
BY DEF IdleAgent

(* A notice is part of its report and new to the receipt. *)
LEMMA NoticeType ==
    ASSUME NEW r \in Reports, NEW n \in Notices(r)
    PROVE  n \subseteq r.findings /\ n \subseteq Findings /\ r.episode \in Episodes
BY DEF Notices, Fresh, Reports

(* A consumed offer names the notice and what was on the receipt already, if
   that was of the same episode. *)
LEMMA ConsumedHonest ==
    ASSUME NEW r \in Reports, NEW n \in Notices(r), receipt \in Receipts, ReceiptHonest,
           receipt' = Consumed(r, n),
           Accounted \subseteq Accounted',
           \A f \in n : <<f, r.episode>> \in Accounted'
    PROVE  receipt' \in Receipts /\ ReceiptHonest'
<1>1. n \subseteq Findings /\ r.episode \in Episodes BY NoticeType
<1>2. Offered(r) \subseteq Findings BY DEF Offered, Receipts
<1>3. receipt'.ids = (Offered(r) \cap r.findings) \cup n /\ receipt'.episode = r.episode
  BY DEF Consumed
<1>4. receipt' \in Receipts BY <1>1, <1>2 DEF Consumed, Receipts
<1>5. \A f \in Offered(r) : receipt.episode = r.episode /\ f \in receipt.ids
  BY DEF Offered
<1>6. ReceiptHonest' BY <1>3, <1>5 DEF ReceiptHonest, Accounted, Ended
<1> QED BY <1>4, <1>6

(* A receipt that is left alone stays honest. *)
LEMMA HonestStays ==
    ASSUME ReceiptHonest, receipt' = receipt, Accounted \subseteq Accounted'
    PROVE  ReceiptHonest'
BY DEF ReceiptHonest, Accounted, Ended

LEMMA SameHistory ==
    ASSUME UNCHANGED <<hook, told, doubtful>>
    PROVE  Accounted' = Accounted /\ Ended' = Ended
BY DEF Accounted, Ended, Unprinted

LEMMA UnprintedType == ASSUME hook \in HookTypes PROVE Unprinted \subseteq Findings \X Episodes
BY DEF Unprinted, HookTypes, Reports, Episodes

(* One agent's record is replaced. *)
LEMMA AgentSet ==
    ASSUME agent \in [Agents -> AgentTypes], NEW a \in Agents, NEW x \in AgentTypes,
           agent' = [agent EXCEPT ![a] = x]
    PROVE  /\ agent' \in [Agents -> AgentTypes]
           /\ agent'[a] = x
           /\ \A b \in Agents \ {a} : agent'[b] = agent[b]
OBVIOUS

-----------------------------------------------------------------------------
(* Groups of steps. *)

LEMMA InitIInv == Init => IInv
<1> SUFFICES ASSUME Init PROVE IInv
  OBVIOUS
<1>1. Counters BY ConstantsAssumption DEF Init, Counters
<1>2. Values
  BY Constant, ConstantsAssumption
  DEF Init, Values, Receipts, JobTypes, JobStates, Episodes
<1>3. agent \in [Agents -> AgentTypes] BY Constant DEF Init
<1>4. Inv
  BY Idle DEF Init, Inv, JobsKnown, OneWaiter, Waited, Sender, ReceiptHonest
<1> QED BY <1>1, <1>2, <1>3, <1>4 DEF IInv, Types

(* Jobs, agents and receipt are left alone, and nothing told is forgotten. *)
LEMMA AloneKeepsInv ==
    ASSUME Inv, UNCHANGED <<job, agent, receipt>>,
           Ended \subseteq Ended', Accounted \subseteq Accounted'
    PROVE  Inv'
<1>1. JobsKnown' /\ OneWaiter' BY DEF Inv, JobsKnown, OneWaiter, Waited
<1>2. \A a \in Agents : Sender(a)' BY DEF Inv, Sender
<1>3. ReceiptHonest' BY HonestStays DEF Inv
<1> QED BY <1>1, <1>2, <1>3 DEF Inv

(* An agent goes on without a claim, or ends. *)
LEMMA AgentGoesOn ==
    ASSUME IInv, NEW a \in Agents, NEW x \in AgentTypes,
           agent' = [agent EXCEPT ![a] = x],
           UNCHANGED <<job, receipt, hook, told, doubtful>>,
           x = IdleAgent \/ (x.job = agent[a].job /\ Waited(a)
                               /\ x.at \in {"poll", "offer", "claim", "quiet"})
    PROVE  Inv' /\ agent' \in [Agents -> AgentTypes]
<1>1. /\ agent' \in [Agents -> AgentTypes]
      /\ agent'[a] = x
      /\ \A b \in Agents \ {a} : agent'[b] = agent[b]
  BY AgentSet DEF IInv, Types
<1>2. job.id \in Nat BY DEF IInv, Types, Values, JobTypes
<1>3. JobsKnown'
  BY <1>1, <1>2, Idle DEF IInv, Inv, JobsKnown
<1>4. \A b \in Agents : Waited(b)' => Waited(b) /\ agent'[b].job = agent[b].job
  BY <1>1, Idle DEF Waited
<1>5. OneWaiter' BY <1>4 DEF IInv, Inv, OneWaiter
<1>6. ASSUME NEW b \in Agents PROVE Sender(b)'
  BY <1>1, Idle, SameHistory DEF IInv, Inv, Sender
<1>7. ReceiptHonest' BY SameHistory, HonestStays DEF IInv, Inv
<1> QED BY <1>1, <1>3, <1>5, <1>6, <1>7 DEF Inv

-----------------------------------------------------------------------------
(* The processor, the hook and the clock. *)

LEMMA StoreStep ==
    ASSUME IInv, NEW state \in {"clear", "attention", "unavailable"},
           NEW found \in SUBSET Findings, StoreResult(state, found)
    PROVE  IInv'
<1>1. results + 1 \in 0 .. MaxResults
  BY ConstantsAssumption DEF StoreResult, IInv, Types, Counters
<1>2. result' \in Reports
  BY <1>1 DEF StoreResult, IInv, Types, Values, Reports, Episodes
<1>3. Counters' BY <1>1 DEF StoreResult, IInv, Types, Counters
<1>4. held' \in SUBSET Findings BY DEF StoreResult, IInv, Types, Values
<1>5. Types' BY <1>2, <1>3, <1>4 DEF StoreResult, IInv, Types, Values
<1>6. Ended' = Ended /\ Accounted' = Accounted BY SameHistory DEF StoreResult
<1>7. Inv' BY <1>6, AloneKeepsInv DEF StoreResult, IInv
<1> QED BY <1>5, <1>7 DEF IInv

(* What the hook has announced on the receipt is told when it prints, and
   doubtful when it dies. *)
LEMMA HookStep ==
    ASSUME IInv,
           \/ HookStart \/ HookLook \/ HookPoll \/ HookPollFails \/ HookPrint \/ HookDie
    PROVE  IInv'
<1>1. hook' \in HookTypes
  <2>1. hook \in HookTypes /\ result \in Reports BY DEF IInv, Types, Values
  <2>2. CASE HookStart BY <2>1, <2>2 DEF HookStart, HookTypes
  <2>3. CASE HookLook BY <2>1, <2>3, Constant DEF HookLook, HookTypes
  <2>4. CASE HookPoll BY <2>1, <2>4, Constant DEF HookPoll, HookTypes
  <2>5. CASE HookPollFails BY <2>1, <2>5, UnavailableType DEF HookPollFails, HookTypes
  <2>6. CASE HookPrint \/ HookDie BY <2>6, Constant DEF HookPrint, HookDie
  <2> QED BY <2>2, <2>3, <2>4, <2>5, <2>6
<1>2. UNCHANGED <<result, moved, receipt, job, lease, agent, results, held>>
  BY DEF HookStart, HookLook, HookPoll, HookPollFails, HookPrint, HookDie, history
<1>3. failures' \in 0 .. MaxFailures
  <2>1. failures \in 0 .. MaxFailures BY DEF IInv, Types, Counters
  <2>2. CASE HookPollFails \/ HookDie
    BY <2>1, <2>2, ConstantsAssumption DEF HookPollFails, HookDie
  <2>3. CASE HookStart \/ HookLook \/ HookPoll \/ HookPrint
    BY <2>1, <2>3 DEF HookStart, HookLook, HookPoll, HookPrint
  <2> QED BY <2>2, <2>3
<1>4. Counters' BY <1>2, <1>3 DEF IInv, Types, Counters
<1>5. /\ told' \in SUBSET (Findings \X Episodes) /\ doubtful' \in SUBSET (Findings \X Episodes)
      /\ Ended \subseteq Ended' /\ Accounted \subseteq Accounted'
  <2>1. /\ told \in SUBSET (Findings \X Episodes) /\ doubtful \in SUBSET (Findings \X Episodes)
        /\ Unprinted \subseteq Findings \X Episodes
    BY UnprintedType DEF IInv, Types, Values
  <2>2. CASE HookStart \/ HookLook \/ HookPoll \/ HookPollFails
    <3>1. UNCHANGED <<told, doubtful>> /\ hook.at # "print"
      BY <2>2 DEF HookStart, HookLook, HookPoll, HookPollFails, history
    <3>2. Unprinted = {} BY <3>1 DEF Unprinted
    <3> QED BY <2>1, <3>1, <3>2 DEF Accounted, Ended
  <2>3. CASE HookPrint
    <3>1. told' = told \cup Unprinted /\ doubtful' = doubtful BY <2>3 DEF HookPrint
    <3> QED BY <2>1, <3>1 DEF Accounted, Ended
  <2>4. CASE HookDie
    <3>1. doubtful' = doubtful \cup Unprinted /\ told' = told BY <2>4 DEF HookDie
    <3> QED BY <2>1, <3>1 DEF Accounted, Ended
  <2> QED BY <2>2, <2>3, <2>4
<1>6. Values' BY <1>1, <1>2, <1>5 DEF IInv, Types, Values
<1>7. Inv' BY <1>2, <1>5, AloneKeepsInv DEF IInv
<1> QED BY <1>2, <1>4, <1>6, <1>7 DEF IInv, Types

(* The receipt is saved before anything is printed: what it then names is what
   the hook is about to print. *)
LEMMA HookOfferStep ==
    ASSUME IInv, HookOffer
    PROVE  IInv'
<1>1. hook \in HookTypes /\ hook.got \in Reports /\ receipt \in Receipts
      /\ held \subseteq Findings
  BY DEF IInv, Types, Values, HookTypes
<1>2. UNCHANGED <<result, moved, job, lease, agent, results, failures, told, doubtful>>
  BY DEF HookOffer
<1>2a. Ended' = Ended /\ Accounted \subseteq Accounted'
  <2>1. Unprinted = {} BY DEF HookOffer, Unprinted
  <2> QED BY <1>2, <2>1 DEF Ended, Accounted
<1>3. /\ receipt' \in Receipts /\ ReceiptHonest' /\ hook' \in HookTypes
      /\ held' \subseteq Findings
  <2>1. CASE Speaks(hook.got)
    <3>1. PICK n \in Notices(hook.got) :
              /\ receipt' = Consumed(hook.got, n)
              /\ hook' = IF n = {} THEN IdleHook
                         ELSE [hook EXCEPT !.at = "print", !.out = n]
              /\ held' = IF hook.got.episode = receipt.episode
                           THEN held \cap hook.got.findings ELSE {}
      BY <2>1 DEF HookOffer
    <3>2. n \subseteq Findings /\ hook.got.episode \in Episodes
      BY <1>1, NoticeType
    <3>3. \A f \in n : <<f, hook.got.episode>> \in Accounted'
      <4>1. SUFFICES ASSUME NEW f \in n PROVE <<f, hook.got.episode>> \in Accounted'
        OBVIOUS
      <4>2. hook' = [hook EXCEPT !.at = "print", !.out = n] BY <3>1
      <4>3. hook'.at = "print" /\ hook'.out = n /\ hook'.got = hook.got
        BY <1>1, <4>2 DEF HookTypes
      <4>4. Unprinted' = n \X {hook.got.episode} BY <4>3 DEF Unprinted
      <4> QED BY <4>4 DEF Accounted
    <3>4. receipt' \in Receipts /\ ReceiptHonest'
      BY <1>1, <1>2a, <3>1, <3>3, ConsumedHonest DEF IInv, Inv
    <3>5. hook' \in HookTypes BY <1>1, <3>1, <3>2, Constant DEF HookTypes
    <3> QED BY <1>1, <3>1, <3>4, <3>5
  <2>2. CASE ~Speaks(hook.got)
    <3>1. /\ receipt' = [ids |-> {}, episode |-> 0] /\ hook' = IdleHook
          /\ held' = {}
      BY <2>2 DEF HookOffer
    <3>2. receipt' \in Receipts BY <3>1, ConstantsAssumption DEF Receipts, Episodes
    <3>3. ReceiptHonest' BY <3>1 DEF ReceiptHonest
    <3> QED BY <1>1, <3>1, <3>2, <3>3, Constant
  <2> QED BY <2>1, <2>2
<1>4. Types' BY <1>2, <1>3 DEF IInv, Types, Counters, Values
<1>5. JobsKnown' /\ OneWaiter' BY <1>2 DEF IInv, Inv, JobsKnown, OneWaiter, Waited
<1>6. \A a \in Agents : Sender(a)' BY <1>2, <1>2a DEF IInv, Inv, Sender
<1> QED BY <1>3, <1>4, <1>5, <1>6 DEF IInv, Inv

LEMMA EnvironmentStep ==
    ASSUME IInv, Move \/ Tick \/ UNCHANGED vars
    PROVE  IInv'
<1>1. UNCHANGED <<result, receipt, job, hook, agent, results, failures, history>>
  BY DEF Move, Tick, vars
<1>2. Counters'
  <2>1. CASE Move
    <3>1. UNCHANGED <<lease, results, failures>> /\ moved' = TRUE BY <2>1 DEF Move
    <3>2. moved' \in BOOLEAN BY <3>1
    <3> QED BY <3>1, <3>2 DEF IInv, Types, Counters
  <2>2. CASE Tick
    <3>1. UNCHANGED <<moved, results, failures>> /\ lease > 0 /\ lease' = lease - 1
      BY <2>2 DEF Tick
    <3>2. lease \in 0 .. Lease BY DEF IInv, Types, Counters
    <3>3. lease' \in 0 .. Lease BY <3>1, <3>2, ConstantsAssumption
    <3> QED BY <3>1, <3>3 DEF IInv, Types, Counters
  <2>3. CASE UNCHANGED vars
    BY <2>3 DEF vars, IInv, Types, Counters
  <2> QED BY <2>1, <2>2, <2>3
<1>3. Values' BY <1>1 DEF IInv, Types, Values, history
<1>4. Inv' BY <1>1, SameHistory, AloneKeepsInv DEF IInv, history
<1> QED BY <1>1, <1>2, <1>3, <1>4 DEF IInv, Types

-----------------------------------------------------------------------------
(* The native job. *)

(* A new job is one that no agent has heard of. *)
LEMMA ReserveStep ==
    ASSUME IInv, Reserve
    PROVE  IInv'
<1>1. job.id \in 0 .. MaxJobs /\ \A a \in Agents : agent[a].job \in 0 .. MaxJobs
  BY DEF IInv, Types, Values, JobTypes, AgentTypes
<1>2. job' = [id |-> job.id + 1, state |-> "reserved", findings |-> {}, episode |-> 0]
  BY DEF Reserve
<1>3. job' \in JobTypes /\ job'.id = job.id + 1 /\ job'.state = "reserved"
  BY <1>1, <1>2, ConstantsAssumption DEF Reserve, JobTypes, JobStates, Episodes
<1>4. Counters'
  BY ConstantsAssumption DEF Reserve, Unchanged, IInv, Types, Counters
<1>5. Types'
  BY <1>3, <1>4 DEF Reserve, Unchanged, history, IInv, Types, Values
<1>6. \A a \in Agents : agent[a].job < job'.id
  BY <1>1, <1>3 DEF IInv, Inv, JobsKnown
<1>7. agent' = agent /\ receipt' = receipt /\ UNCHANGED <<hook, told, doubtful>>
  BY DEF Reserve, Unchanged, history
<1>8. \A a \in Agents : agent'[a].job <= job'.id /\ agent'[a].job # job'.id
  BY <1>1, <1>3, <1>6, <1>7
<1>9. JobsKnown' /\ OneWaiter'
  BY <1>7, <1>8 DEF IInv, Inv, JobsKnown, OneWaiter, Waited
<1>10. (\A a \in Agents : Sender(a)') /\ ReceiptHonest'
  BY <1>3, <1>7, SameHistory, HonestStays DEF IInv, Inv, Sender
<1> QED BY <1>5, <1>9, <1>10 DEF IInv, Inv

LEMMA DispatchStep ==
    ASSUME IInv, NEW a \in Agents, Dispatch(a)
    PROVE  IInv'
<1> DEFINE x == [IdleAgent EXCEPT !.at = "wait", !.job = job.id]
<1>1. job.id \in 0 .. MaxJobs BY DEF IInv, Types, Values, JobTypes
<1>2. x \in AgentTypes /\ x.at = "wait" /\ x.job = job.id
  BY <1>1, Constant DEF AgentTypes, AgentPlaces
<1>3. agent' = [agent EXCEPT ![a] = x] BY DEF Dispatch
<1> HIDE DEF x
<1>4. /\ agent' \in [Agents -> AgentTypes]
      /\ agent'[a] = x
      /\ \A b \in Agents \ {a} : agent'[b] = agent[b]
  BY <1>2, <1>3, AgentSet DEF IInv, Types
<1>5. UNCHANGED <<receipt, job, lease, history, result, moved, hook, results, failures>>
  BY DEF Dispatch, Unchanged
<1>6. Types' BY <1>4, <1>5 DEF IInv, Types, Counters, Values, history
<1>7. JobsKnown' BY <1>1, <1>2, <1>4, <1>5 DEF IInv, Inv, JobsKnown
<1>8. OneWaiter' BY <1>2, <1>4, <1>5 DEF IInv, Inv, OneWaiter, Waited
<1>8a. Ended' = Ended /\ Accounted' = Accounted BY <1>5, SameHistory DEF history
<1>9. ASSUME NEW b \in Agents PROVE Sender(b)'
  BY <1>2, <1>4, <1>5, <1>8a DEF IInv, Inv, Sender
<1>10. ReceiptHonest' BY <1>5, <1>8a, HonestStays DEF IInv, Inv
<1> QED BY <1>6, <1>7, <1>8, <1>9, <1>10 DEF IInv, Inv

(* An agent that ends, or goes on without a claim. *)
LEMMA QuietAgentStep ==
    ASSUME IInv, NEW a \in Agents,
           WaitPoll(a) \/ WaitPollFails(a) \/ WaitOffer(a) \/ AgentDie(a)
    PROVE  IInv'
<1>1. agent[a] \in AgentTypes /\ agent[a].got \in Reports /\ result \in Reports
  BY DEF IInv, Types, Values, AgentTypes
<1>2. agent \in [Agents -> AgentTypes] BY DEF IInv, Types
<1>3. \E x \in AgentTypes :
          /\ agent' = [agent EXCEPT ![a] = x]
          /\ \/ x = IdleAgent
             \/ /\ x.job = agent[a].job /\ Waited(a)
                /\ x.at \in {"poll", "offer", "claim", "quiet"}
  <2>1. CASE WaitPoll(a)
    <3> DEFINE x == [agent[a] EXCEPT !.at = "offer", !.got = result]
               y == [agent[a] EXCEPT !.at = "quiet"]
    <3>1. /\ x \in AgentTypes /\ x.job = agent[a].job /\ x.at = "offer"
          /\ y \in AgentTypes /\ y.job = agent[a].job /\ y.at = "quiet"
      BY <1>1 DEF AgentTypes, AgentPlaces
    <3>2. agent' = [agent EXCEPT ![a] = x] \/ agent' = [agent EXCEPT ![a] = y]
      BY <1>2, <2>1 DEF WaitPoll
    <3>3. Waited(a) BY <2>1 DEF WaitPoll, Waited, AgentPlaces
    <3> HIDE DEF x, y
    <3> QED BY <3>1, <3>2, <3>3
  <2>2. CASE WaitPollFails(a)
    <3> DEFINE x == [agent[a] EXCEPT !.at = "offer", !.got = Unavailable]
    <3>1. x \in AgentTypes /\ x.job = agent[a].job /\ x.at = "offer"
      BY <1>1, UnavailableType DEF AgentTypes, AgentPlaces
    <3>2. agent' = [agent EXCEPT ![a] = x] BY <1>2, <2>2 DEF WaitPollFails
    <3>3. Waited(a) BY <2>2 DEF WaitPollFails, Waited, AgentPlaces
    <3> HIDE DEF x
    <3> QED BY <3>1, <3>2, <3>3
  <2>3. CASE WaitOffer(a)
    <3>1. PICK n \in Notices(agent[a].got) :
              agent' = IF n = {}
                         THEN [agent EXCEPT ![a].at = "quiet", ![a].got = NoReport]
                         ELSE [agent EXCEPT ![a].at = "claim", ![a].notice = n]
      BY <2>3 DEF WaitOffer
    <3> DEFINE x == [agent[a] EXCEPT !.at = "quiet", !.got = NoReport]
               y == [agent[a] EXCEPT !.at = "claim", !.notice = n]
    <3>2. n \subseteq Findings BY <1>1, NoticeType
    <3>3. /\ x \in AgentTypes /\ x.job = agent[a].job /\ x.at = "quiet"
          /\ y \in AgentTypes /\ y.job = agent[a].job /\ y.at = "claim"
      BY <1>1, <3>2, Constant DEF AgentTypes, AgentPlaces
    <3>4. agent' = [agent EXCEPT ![a] = x] \/ agent' = [agent EXCEPT ![a] = y]
      BY <1>2, <3>1
    <3>5. Waited(a) BY <2>3 DEF WaitOffer, Waited, AgentPlaces
    <3> HIDE DEF x, y
    <3> QED BY <3>3, <3>4, <3>5
  <2>4. CASE AgentDie(a) BY <2>4, Constant DEF AgentDie
  <2> QED BY <2>1, <2>2, <2>3, <2>4
<1>4. UNCHANGED <<result, moved, receipt, job, lease, hook, results, history>>
  BY DEF WaitPoll, WaitPollFails, WaitOffer, AgentDie, Unchanged
<1>5. Inv' /\ agent' \in [Agents -> AgentTypes]
  BY <1>3, <1>4, AgentGoesOn DEF history
<1>6. failures' \in 0 .. MaxFailures
  <2>1. failures \in 0 .. MaxFailures BY DEF IInv, Types, Counters
  <2>2. CASE WaitPollFails(a) \/ AgentDie(a)
    BY <2>1, <2>2, ConstantsAssumption DEF WaitPollFails, AgentDie
  <2>3. CASE WaitPoll(a) \/ WaitOffer(a)
    BY <2>1, <2>3 DEF WaitPoll, WaitOffer, Unchanged
  <2> QED BY <2>2, <2>3
<1>7. Types' BY <1>4, <1>5, <1>6 DEF IInv, Types, Counters, Values, history
<1> QED BY <1>5, <1>7 DEF IInv

(* Only a reserved job can be waited on, so its waiter is the first. *)
LEMMA WaitStartStep ==
    ASSUME IInv, NEW a \in Agents, WaitStart(a)
    PROVE  IInv'
<1>1. UNCHANGED <<receipt, history, result, moved, hook, results, failures>>
  BY DEF WaitStart, Unchanged
<1>2. CASE Mine(a) /\ job.state = "reserved" /\ lease > 0
  <2> DEFINE x == [agent[a] EXCEPT !.at = "poll"]
             j == [job EXCEPT !.state = "waiting"]
  <2>1. agent \in [Agents -> AgentTypes] /\ agent[a] \in AgentTypes /\ job \in JobTypes
    BY DEF IInv, Types, Values
  <2>2. x \in AgentTypes /\ x.at = "poll" /\ x.job = agent[a].job
    BY <2>1 DEF AgentTypes, AgentPlaces
  <2>3. j \in JobTypes /\ j.id = job.id /\ j.state = "waiting"
    BY <2>1 DEF JobTypes, JobStates
  <2>4. agent' = [agent EXCEPT ![a] = x] /\ job' = j /\ lease' = Lease
    BY <1>2, <2>1 DEF WaitStart
  <2> HIDE DEF x, j
  <2>5. /\ agent' \in [Agents -> AgentTypes]
        /\ agent'[a] = x
        /\ \A b \in Agents \ {a} : agent'[b] = agent[b]
    BY <2>1, <2>2, <2>4, AgentSet
  <2>6. Counters'
    BY <1>1, <2>4, ConstantsAssumption DEF IInv, Types, Counters
  <2>7. Types' BY <1>1, <2>3, <2>4, <2>5, <2>6 DEF IInv, Types, Values, history
  <2>8. JobsKnown' BY <2>2, <2>3, <2>4, <2>5 DEF IInv, Inv, JobsKnown
  <2>9. \A b \in Agents \ {a} : Waited(b) => agent[b].job # job.id
    BY <1>2 DEF IInv, Inv, OneWaiter
  <2>10. OneWaiter'
    BY <1>2, <2>2, <2>3, <2>4, <2>5, <2>9 DEF IInv, Inv, OneWaiter, Waited, Mine
  <2>11. ASSUME NEW b \in Agents PROVE Sender(b)'
    BY <2>3, <2>4 DEF Sender
  <2>12. ReceiptHonest' BY <1>1, SameHistory, HonestStays DEF IInv, Inv, history
  <2> QED BY <2>7, <2>8, <2>10, <2>11, <2>12 DEF IInv, Inv
<1>3. CASE ~(Mine(a) /\ job.state = "reserved" /\ lease > 0)
  <2>1. agent' = [agent EXCEPT ![a] = IdleAgent] /\ UNCHANGED <<job, lease>>
    BY <1>3 DEF WaitStart
  <2>2. Inv' /\ agent' \in [Agents -> AgentTypes]
    BY <1>1, <2>1, Constant, AgentGoesOn DEF history
  <2>3. Types' BY <1>1, <2>1, <2>2 DEF IInv, Types, Counters, Values, history
  <2> QED BY <2>2, <2>3 DEF IInv
<1> QED BY <1>2, <1>3

(* Whoever claims is the only one who ever waited on this job. *)
LEMMA WaitClaimStep ==
    ASSUME IInv, NEW a \in Agents, WaitClaim(a)
    PROVE  IInv'
<1>1. UNCHANGED <<receipt, history, result, moved, hook, results, failures>>
  BY DEF WaitClaim, Unchanged
<1>2. CASE Mine(a) /\ job.state = "waiting"
  <2> DEFINE x == [agent[a] EXCEPT !.at = "send"]
             j == [job EXCEPT !.state = "sending", !.findings = agent[a].notice,
                              !.episode = agent[a].got.episode]
  <2>1. /\ agent \in [Agents -> AgentTypes] /\ agent[a] \in AgentTypes /\ job \in JobTypes
        /\ agent[a].at = "claim"
    BY DEF IInv, Types, Values, WaitClaim
  <2>2. /\ x \in AgentTypes /\ x.at = "send" /\ x.job = agent[a].job
        /\ x.notice = agent[a].notice /\ x.got = agent[a].got
    BY <2>1 DEF AgentTypes, AgentPlaces
  <2>3. agent[a].notice \in SUBSET Findings /\ agent[a].got.episode \in Episodes
    BY <2>1 DEF AgentTypes, Reports
  <2>4. /\ j \in JobTypes /\ j.id = job.id /\ j.state = "sending"
        /\ j.findings = agent[a].notice /\ j.episode = agent[a].got.episode
    BY <2>1, <2>3 DEF JobTypes, JobStates
  <2>5. agent' = [agent EXCEPT ![a] = x] /\ job' = j /\ lease' = Lease
    BY <1>2, <2>1 DEF WaitClaim
  <2> HIDE DEF x, j
  <2>6. /\ agent' \in [Agents -> AgentTypes]
        /\ agent'[a] = x
        /\ \A b \in Agents \ {a} : agent'[b] = agent[b]
    BY <2>1, <2>2, <2>5, AgentSet
  <2>7. Counters'
    BY <1>1, <2>5, ConstantsAssumption DEF IInv, Types, Counters
  <2>8. Types' BY <1>1, <2>4, <2>5, <2>6, <2>7 DEF IInv, Types, Values, history
  <2>9. JobsKnown' BY <2>2, <2>4, <2>5, <2>6 DEF IInv, Inv, JobsKnown
  <2>10. Waited(a) BY <2>1 DEF Waited, AgentPlaces
  <2>11. OneWaiter'
    BY <2>2, <2>4, <2>5, <2>6, <2>10 DEF IInv, Inv, OneWaiter, Waited
  <2>12. ASSUME NEW b \in Agents PROVE Sender(b)'
    <3>1. CASE b = a BY <2>2, <2>4, <2>5, <2>6, <3>1 DEF Sender
    <3>2. CASE b # a
      <4>1. agent[b].at \in {"send", "complete"} => agent[b].job # job.id
        BY <1>2, <2>10, <3>2 DEF IInv, Inv, OneWaiter, Waited, Mine, AgentPlaces
      <4> QED BY <2>4, <2>5, <2>6, <3>2, <4>1 DEF Sender
    <3> QED BY <3>1, <3>2
  <2>13. ReceiptHonest' BY <1>1, SameHistory, HonestStays DEF IInv, Inv, history
  <2> QED BY <2>8, <2>9, <2>11, <2>12, <2>13 DEF IInv, Inv
<1>3. CASE ~(Mine(a) /\ job.state = "waiting")
  <2>1. agent' = [agent EXCEPT ![a] = IdleAgent] /\ UNCHANGED <<job, lease>>
    BY <1>3 DEF WaitClaim
  <2>2. Inv' /\ agent' \in [Agents -> AgentTypes]
    BY <1>1, <2>1, Constant, AgentGoesOn DEF history
  <2>3. Types' BY <1>1, <2>1, <2>2 DEF IInv, Types, Counters, Values, history
  <2> QED BY <2>2, <2>3 DEF IInv
<1> QED BY <1>2, <1>3

(* A job ends: it is neither reserved nor being sent. *)
LEMMA JobEnds ==
    ASSUME IInv, NEW s \in JobStates \ {"reserved", "sending"},
           job' = [job EXCEPT !.state = s],
           (\E a \in Agents : agent' = [agent EXCEPT ![a] = IdleAgent]) \/ agent' = agent
    PROVE  /\ job' \in JobTypes
           /\ agent' \in [Agents -> AgentTypes]
           /\ JobsKnown' /\ OneWaiter' /\ \A b \in Agents : Sender(b)'
<1>1. agent \in [Agents -> AgentTypes] /\ job \in JobTypes BY DEF IInv, Types, Values
<1>2. job' \in JobTypes /\ job'.id = job.id /\ job'.state = s
  BY <1>1 DEF JobTypes
<1>3. /\ agent' \in [Agents -> AgentTypes]
      /\ \A b \in Agents : agent'[b] = agent[b] \/ agent'[b] = IdleAgent
  BY <1>1, Constant
<1>4. job.id \in Nat BY <1>1 DEF JobTypes
<1>5. JobsKnown' BY <1>2, <1>3, <1>4, Idle DEF IInv, Inv, JobsKnown
<1>6. OneWaiter' BY <1>2, <1>3, Idle DEF IInv, Inv, OneWaiter, Waited
<1>7. \A b \in Agents : Sender(b)' BY <1>2 DEF Sender
<1> QED BY <1>2, <1>3, <1>5, <1>6, <1>7

LEMMA WaitQuietStep ==
    ASSUME IInv, NEW a \in Agents, WaitQuiet(a)
    PROVE  IInv'
<1>1. UNCHANGED <<receipt, history, result, moved, hook, results, failures>>
  BY DEF WaitQuiet, Unchanged
<1>2. agent' = [agent EXCEPT ![a] = IdleAgent] BY DEF WaitQuiet
<1>3. CASE Mine(a)
  <2>1. job' = [job EXCEPT !.state = "quiet"] /\ lease' = 0 BY <1>3 DEF WaitQuiet
  <2>2. /\ job' \in JobTypes /\ agent' \in [Agents -> AgentTypes]
        /\ JobsKnown' /\ OneWaiter' /\ \A b \in Agents : Sender(b)'
    BY <1>2, <2>1, JobEnds DEF JobStates
  <2>3. Counters' BY <1>1, <2>1, ConstantsAssumption DEF IInv, Types, Counters
  <2>4. Types' BY <1>1, <2>2, <2>3 DEF IInv, Types, Values, history
  <2>5. ReceiptHonest' BY <1>1, SameHistory, HonestStays DEF IInv, Inv, history
  <2> QED BY <2>2, <2>4, <2>5 DEF IInv, Inv
<1>4. CASE ~Mine(a)
  <2>1. UNCHANGED <<job, lease>> BY <1>4 DEF WaitQuiet
  <2>2. Inv' /\ agent' \in [Agents -> AgentTypes]
    BY <1>1, <1>2, <2>1, Constant, AgentGoesOn DEF history
  <2>3. Types' BY <1>1, <2>1, <2>2 DEF IInv, Types, Counters, Values, history
  <2> QED BY <2>2, <2>3 DEF IInv
<1> QED BY <1>3, <1>4

LEMMA SendStep ==
    ASSUME IInv, NEW a \in Agents, Send(a)
    PROVE  IInv'
<1>1. PICK outcome \in {"sent", "failed", "unknown"} :
          /\ agent' = [agent EXCEPT ![a] = [IdleAgent EXCEPT !.at = "complete",
                                            !.job = agent[a].job, !.outcome = outcome]]
          /\ told' = IF outcome = "sent" THEN told \cup Notice(a) ELSE told
          /\ doubtful' = IF outcome = "unknown" THEN doubtful \cup Notice(a) ELSE doubtful
  BY DEF Send
<1> DEFINE x == [IdleAgent EXCEPT !.at = "complete", !.job = agent[a].job,
                                  !.outcome = outcome]
<1>2. agent \in [Agents -> AgentTypes] /\ agent[a] \in AgentTypes /\ agent[a].at = "send"
  BY DEF IInv, Types, Send
<1>3. x \in AgentTypes /\ x.at = "complete" /\ x.job = agent[a].job /\ x.outcome = outcome
  BY <1>2, Constant DEF AgentTypes, AgentPlaces
<1>4. agent' = [agent EXCEPT ![a] = x] BY <1>1
<1> HIDE DEF x
<1>5. /\ agent' \in [Agents -> AgentTypes]
      /\ agent'[a] = x
      /\ \A b \in Agents \ {a} : agent'[b] = agent[b]
  BY <1>2, <1>3, <1>4, AgentSet
<1>6. Notice(a) \subseteq Findings \X Episodes
  BY <1>2 DEF Notice, AgentTypes, Reports
<1>7. UNCHANGED <<receipt, job, lease, held, result, moved, hook, results, failures>>
  BY DEF Send, Unchanged
<1>8. /\ told' \in SUBSET (Findings \X Episodes) /\ doubtful' \in SUBSET (Findings \X Episodes)
      /\ Ended \subseteq Ended'
      /\ outcome # "failed" => Notice(a) \subseteq Ended'
  BY <1>1, <1>6 DEF IInv, Types, Values, Ended
<1>9. Accounted \subseteq Accounted' BY <1>7, <1>8 DEF Accounted, Unprinted
<1>10. Types' BY <1>5, <1>7, <1>8 DEF IInv, Types, Counters, Values
<1>11. JobsKnown' BY <1>3, <1>5, <1>7 DEF IInv, Inv, JobsKnown
<1>12. Waited(a) BY <1>2 DEF Waited, AgentPlaces
<1>13. OneWaiter' BY <1>3, <1>5, <1>7, <1>12 DEF IInv, Inv, OneWaiter, Waited
<1>14. ASSUME NEW b \in Agents PROVE Sender(b)'
  <2>1. CASE b = a
    <3>1. SUFFICES ASSUME x.job = job.id, job.state = "sending", outcome # "failed",
                          NEW f \in job.findings
                   PROVE  <<f, job.episode>> \in Ended'
      BY <1>3, <1>5, <1>7, <2>1 DEF Sender
    <3>2. job.findings = agent[a].notice /\ job.episode = agent[a].got.episode
      BY <1>2, <1>3, <3>1 DEF IInv, Inv, Sender
    <3>3. <<f, job.episode>> \in Notice(a) BY <3>2 DEF Notice
    <3> QED BY <1>8, <3>1, <3>3
  <2>2. CASE b # a BY <1>5, <1>7, <1>8, <2>2 DEF IInv, Inv, Sender
  <2> QED BY <2>1, <2>2
<1>15. ReceiptHonest' BY <1>7, <1>9, HonestStays DEF IInv, Inv
<1> QED BY <1>10, <1>11, <1>13, <1>14, <1>15 DEF IInv, Inv

(* The receipt of what an agent has sent, or has to report as unknown. *)
LEMMA DeliveredHonest ==
    ASSUME IInv, NEW a \in Agents, agent[a].at = "complete", agent[a].outcome # "failed",
           Mine(a), job.state = "sending", receipt' = Delivered,
           UNCHANGED <<hook, told, doubtful>>
    PROVE  receipt' \in Receipts /\ ReceiptHonest'
<1>1. job \in JobTypes /\ receipt \in Receipts BY DEF IInv, Types, Values
<1>2. receipt' \in Receipts BY <1>1 DEF Receipts, JobTypes, Delivered
<1>3. Accounted' = Accounted /\ Ended \subseteq Accounted BY SameHistory DEF Accounted
<1>4. \A f \in job.findings : <<f, job.episode>> \in Ended
  BY DEF IInv, Inv, Sender, Mine
<1>5. /\ receipt'.episode = job.episode
      /\ \A f \in receipt'.ids :
             f \in job.findings \/ (receipt.episode = job.episode /\ f \in receipt.ids)
  BY DEF Delivered
<1>6. \A f \in receipt.ids : <<f, receipt.episode>> \in Accounted
  BY DEF IInv, Inv, ReceiptHonest, Accounted, Ended
<1>7. \A f \in receipt'.ids : <<f, receipt'.episode>> \in Accounted'
  BY <1>3, <1>4, <1>5, <1>6
<1>8. ReceiptHonest' BY <1>7 DEF ReceiptHonest, Accounted, Ended
<1> QED BY <1>2, <1>8

LEMMA HeldType ==
    ASSUME IInv, NEW a \in Agents
    PROVE  StillHeld(a) \cup NowUncertain(a) \subseteq Findings
BY DEF IInv, Types, Values, StillHeld, NowUncertain, JobTypes

(* What the receipt takes from the job was sent by the agent that reports. *)
LEMMA CompleteStep ==
    ASSUME IInv, NEW a \in Agents, Complete(a)
    PROVE  IInv'
<1>1. UNCHANGED <<told, doubtful, result, moved, hook, results, failures>>
  BY DEF Complete, Unchanged
<1>2. agent' = [agent EXCEPT ![a] = IdleAgent] /\ agent[a].at = "complete"
  BY DEF Complete
<1>3. job \in JobTypes /\ receipt \in Receipts /\ agent[a] \in AgentTypes
      /\ held \subseteq Findings
  BY DEF IInv, Types, Values
<1>4. CASE Mine(a) /\ job.state = "sending"
  <2>1. /\ job' = [job EXCEPT !.state = agent[a].outcome] /\ lease' = 0
        /\ receipt' = IF agent[a].outcome = "failed" THEN receipt
                      ELSE Delivered
        /\ held' = StillHeld(a) \cup NowUncertain(a)
    BY <1>4 DEF Complete
  <2>2. agent[a].outcome \in {"none", "sent", "failed", "unknown"}
    BY <1>3 DEF AgentTypes
  <2>3. /\ job' \in JobTypes /\ agent' \in [Agents -> AgentTypes]
        /\ JobsKnown' /\ OneWaiter' /\ \A b \in Agents : Sender(b)'
    BY <1>2, <2>1, <2>2, JobEnds DEF JobStates
  <2>5. receipt' \in Receipts /\ ReceiptHonest'
    <3>1. CASE agent[a].outcome = "failed"
      BY <1>1, <1>3, <2>1, <3>1, SameHistory, HonestStays DEF IInv, Inv
    <3>2. CASE agent[a].outcome # "failed"
      <4>1. receipt' = Delivered BY <2>1, <3>2
      <4> QED BY <1>1, <1>2, <1>4, <3>2, <4>1, DeliveredHonest
    <3> QED BY <3>1, <3>2
  <2>7. held' \subseteq Findings BY <2>1, HeldType
  <2>8. Counters' BY <1>1, <2>1, ConstantsAssumption DEF IInv, Types, Counters
  <2>9. Types' BY <1>1, <2>3, <2>5, <2>7, <2>8 DEF IInv, Types, Values
  <2> QED BY <2>3, <2>5, <2>9 DEF IInv, Inv
<1>5. CASE ~(Mine(a) /\ job.state = "sending")
  <2>1. UNCHANGED <<job, lease, receipt, held>> BY <1>5 DEF Complete
  <2>2. Inv' /\ agent' \in [Agents -> AgentTypes]
    BY <1>1, <1>2, <2>1, Constant, AgentGoesOn
  <2>3. Types' BY <1>1, <2>1, <2>2 DEF IInv, Types, Counters, Values
  <2> QED BY <2>2, <2>3 DEF IInv
<1> QED BY <1>4, <1>5

LEMMA ResumeStep ==
    ASSUME IInv, Resume
    PROVE  IInv'
<1>1. /\ receipt' = [ids |-> {}, episode |-> 0] /\ lease' = 0 /\ held' = {}
      /\ job' = [job EXCEPT !.state = "expired"] /\ agent' = agent
      /\ UNCHANGED <<told, doubtful, result, moved, hook, results, failures>>
  BY DEF Resume, Unchanged
<1>2. /\ job' \in JobTypes /\ agent' \in [Agents -> AgentTypes]
      /\ JobsKnown' /\ OneWaiter' /\ \A b \in Agents : Sender(b)'
  BY <1>1, JobEnds DEF JobStates
<1>3. receipt' \in Receipts BY <1>1, ConstantsAssumption DEF Receipts, Episodes
<1>4. ReceiptHonest' BY <1>1 DEF ReceiptHonest
<1>5. Counters' BY <1>1, ConstantsAssumption DEF IInv, Types, Counters
<1>6. Types' BY <1>1, <1>2, <1>3, <1>5 DEF IInv, Types, Values
<1> QED BY <1>2, <1>4, <1>6 DEF IInv, Inv

(* The receipt is saved and the job is not. *)
LEMMA CutShortStep ==
    ASSUME IInv, ResumeCutShort \/ \E a \in Agents : CompleteCutShort(a)
    PROVE  IInv'
<1>1. /\ UNCHANGED <<result, moved, job, lease, hook, results, told, doubtful>>
      /\ failures < MaxFailures /\ failures' = failures + 1
  BY DEF ResumeCutShort, CompleteCutShort
<1>2. Counters'
  <2>1. failures \in 0 .. MaxFailures BY DEF IInv, Types, Counters
  <2>2. failures' \in 0 .. MaxFailures BY <1>1, <2>1, ConstantsAssumption
  <2> QED BY <1>1, <2>2 DEF IInv, Types, Counters
<1>3. CASE ResumeCutShort
  <2>1. receipt' = [ids |-> {}, episode |-> 0] /\ held' = {} /\ agent' = agent
    BY <1>3 DEF ResumeCutShort
  <2>2. receipt' \in Receipts BY <2>1, ConstantsAssumption DEF Receipts, Episodes
  <2>3. ReceiptHonest' BY <2>1 DEF ReceiptHonest
  <2>4. JobsKnown' /\ OneWaiter' BY <1>1, <2>1 DEF IInv, Inv, JobsKnown, OneWaiter, Waited
  <2>5. \A a \in Agents : Sender(a)' BY <1>1, <2>1, SameHistory DEF IInv, Inv, Sender
  <2>6. Types' BY <1>1, <1>2, <2>1, <2>2 DEF IInv, Types, Values
  <2> QED BY <2>3, <2>4, <2>5, <2>6 DEF IInv, Inv
<1>4. ASSUME NEW a \in Agents, CompleteCutShort(a) PROVE IInv'
  <2>1. /\ agent[a].at = "complete" /\ agent[a].outcome # "failed"
        /\ Mine(a) /\ job.state = "sending" /\ receipt' = Delivered
        /\ held' = StillHeld(a) \cup NowUncertain(a)
        /\ agent' = [agent EXCEPT ![a] = IdleAgent]
    BY <1>4 DEF CompleteCutShort
  <2>2. receipt' \in Receipts /\ ReceiptHonest' BY <1>1, <2>1, DeliveredHonest
  <2>3. held' \subseteq Findings BY <2>1, HeldType
  <2>4. agent \in [Agents -> AgentTypes] /\ job.id \in Nat
    BY DEF IInv, Types, Values, JobTypes
  <2>5. /\ agent' \in [Agents -> AgentTypes]
        /\ \A b \in Agents : agent'[b] = agent[b] \/ agent'[b] = IdleAgent
    BY <2>1, <2>4, Constant
  <2>6. JobsKnown' BY <1>1, <2>4, <2>5, Idle DEF IInv, Inv, JobsKnown
  <2>7. OneWaiter' BY <1>1, <2>5, Idle DEF IInv, Inv, OneWaiter, Waited
  <2>8. \A b \in Agents : Sender(b)'
    BY <1>1, <2>5, Idle, SameHistory DEF IInv, Inv, Sender
  <2>9. Types' BY <1>1, <1>2, <2>2, <2>3, <2>5 DEF IInv, Types, Values
  <2> QED BY <2>2, <2>6, <2>7, <2>8, <2>9 DEF IInv, Inv
<1> QED BY <1>3, <1>4

-----------------------------------------------------------------------------

LEMMA NextStep ==
    ASSUME IInv, [Next]_vars
    PROVE  IInv'
<1>1. CASE \E state \in {"clear", "attention", "unavailable"}, found \in SUBSET Findings :
               StoreResult(state, found)
  BY <1>1, StoreStep
<1>2. CASE Move \/ Tick \/ UNCHANGED vars BY <1>2, EnvironmentStep
<1>3. CASE Hook \/ HookPollFails \/ HookDie BY <1>3, HookStep, HookOfferStep DEF Hook
<1>4. CASE Reserve BY <1>4, ReserveStep
<1>5. CASE \E a \in Agents : Agent(a) \/ WaitPollFails(a) \/ CompleteCutShort(a) \/ AgentDie(a)
  BY <1>5, DispatchStep, WaitStartStep, QuietAgentStep, WaitClaimStep, WaitQuietStep,
     SendStep, CompleteStep, CutShortStep DEF Agent
<1>6. CASE Resume \/ ResumeCutShort BY <1>6, ResumeStep, CutShortStep
<1> QED BY <1>1, <1>2, <1>3, <1>4, <1>5, <1>6 DEF Next

(* Jobs, their agents and the receipt fit together in every behaviour. *)
THEOREM IInvHolds == Spec => []IInv
<1>1. Init => IInv BY InitIInv
<1>2. IInv /\ [Next]_vars => IInv' BY NextStep
<1> QED BY <1>1, <1>2, PTL DEF Spec

(* Every variable has its type: a lease never lasts longer than Lease. *)
THEOREM DeliveryTypes == Spec => []TypeOK
<1>1. IInv => TypeOK
  BY DEF IInv, Types, Counters, Values, TypeOK, Receipts, JobTypes, HookTypes,
     AgentTypes, AgentPlaces
<1> QED BY <1>1, IInvHolds, PTL

(* One agent at most sends for a job, however often its wait_command was run. *)
THEOREM OneAgentSends == Spec => []OneSender
<1>1. IInv => OneSender
  BY DEF IInv, Inv, OneWaiter, Waited, AgentPlaces, OneSender
<1> QED BY <1>1, IInvHolds, PTL

(* A receipt names only findings that were told in its episode, or that the hook
   is about to print; what it names otherwise is on account of a send of unknown
   outcome or of the death of a hook about to print. *)
THEOREM ReceiptsAreHonest == Spec => []ReceiptHonest
<1>1. IInv => ReceiptHonest BY DEF IInv, Inv
<1> QED BY <1>1, IInvHolds, PTL

-----------------------------------------------------------------------------
(* What is held is on the receipt, and the receipt is of the result's episode. *)
HeldNamed ==
    held # {} => receipt.episode = result.episode /\ held \subseteq receipt.ids

(* Whoever is about to claim the job was offered nothing that is held now. *)
ClaimsApart ==
    \A a \in Agents :
        /\ agent[a].at = "claim" /\ agent[a].job = job.id /\ job.state = "waiting"
        /\ agent[a].got.episode = result.episode
        => agent[a].notice \cap held = {}

HeldInv == HeldNamed /\ ClaimsApart

LEMMA HeldInit == Init => HeldInv
BY DEF Init, HeldInv, HeldNamed, ClaimsApart

(* What a report has left to offer is not held. *)
LEMMA NoticeApart ==
    ASSUME IInv, HeldInv, NEW r \in Reports, NEW n \in Notices(r), r.episode = result.episode
    PROVE  n \cap held = {}
BY DEF HeldInv, HeldNamed, Notices, Fresh, Offered

(* Agents go on or end, but none is about to claim that was not, and nothing
   else changes that is known of what is held. *)
LEMMA NoNewClaim ==
    ASSUME HeldInv, UNCHANGED <<receipt, held, result>>,
           \A a \in Agents :
               agent'[a].at = "claim" =>
                   \/ agent'[a] = agent[a]
                   \/ agent'[a].notice \cap held = {},
           job'.state = "waiting" => job.state = "waiting" /\ job'.id = job.id
    PROVE  HeldInv'
<1>1. HeldNamed' BY DEF HeldInv, HeldNamed
<1>2. ClaimsApart' BY DEF HeldInv, ClaimsApart
<1>3. QED BY <1>1, <1>2 DEF HeldInv

(* A result of another episode lets go of everything. *)
LEMMA StoreHeld ==
    ASSUME IInv, HeldInv, NEW state, NEW found, StoreResult(state, found)
    PROVE  HeldInv'
<1>1. held' = IF result'.episode = result.episode THEN held \cap found ELSE {}
  BY DEF StoreResult
<1>2. UNCHANGED <<receipt, job, agent>> BY DEF StoreResult
<1>3. HeldNamed' BY <1>1, <1>2 DEF HeldInv, HeldNamed
<1>4. ClaimsApart' BY <1>1, <1>2 DEF HeldInv, ClaimsApart
<1>5. QED BY <1>3, <1>4 DEF HeldInv

(* What the hook's offer does. *)
LEMMA OfferCases ==
    ASSUME IInv, HookOffer
    PROVE  /\ UNCHANGED <<result, job, agent>>
           /\ \/ \E n \in Notices(hook.got) :
                    /\ hook'.at = "print" => hook'.out = n
                    /\ held' # {} => /\ receipt' = Consumed(hook.got, n)
                                     /\ held' = held \cap hook.got.findings
                                     /\ hook.got.episode = receipt.episode
              \/ hook'.at # "print" /\ held' = {}
<1>1. UNCHANGED <<result, job, agent>> BY Zenon DEF HookOffer
<1>2. IdleHook.at = "idle" BY DEF IdleHook
<1>3. CASE Speaks(hook.got)
  <2>1. PICK n \in Notices(hook.got) :
            /\ receipt' = Consumed(hook.got, n)
            /\ hook' = IF n = {} THEN IdleHook
                       ELSE [hook EXCEPT !.at = "print", !.out = n]
            /\ held' = IF hook.got.episode = receipt.episode
                         THEN held \cap hook.got.findings ELSE {}
    BY <1>3, Zenon DEF HookOffer
  <2>5. hook \in HookTypes BY DEF IInv, Types, Values
  <2>2. hook'.at = "print" => hook'.out = n BY <1>2, <2>1, <2>5 DEF HookTypes
  <2>3. held' # {} => /\ held' = held \cap hook.got.findings
                      /\ hook.got.episode = receipt.episode
    BY <2>1
  <2>4. QED BY <1>1, <2>1, <2>2, <2>3
<1>4. CASE ~Speaks(hook.got)
  <2>1. hook' = IdleHook /\ held' = {} BY <1>4 DEF HookOffer
  <2>2. QED BY <1>1, <1>2, <2>1
<1>5. QED BY <1>3, <1>4

(* A consumed offer keeps what it holds on the receipt, or lets go of it. *)
LEMMA HookOfferHeld ==
    ASSUME IInv, HeldInv, HookOffer
    PROVE  HeldInv'
<1>1. UNCHANGED <<result, job, agent>> BY OfferCases
<1>2. held' \subseteq held BY OfferCases
<1>3. ClaimsApart' BY <1>1, <1>2 DEF HeldInv, ClaimsApart
<1>4. HeldNamed'
  <2>1. CASE held' = {} BY <2>1 DEF HeldNamed
  <2>2. CASE held' # {}
    <3>1. PICK n \in Notices(hook.got) :
              /\ receipt' = Consumed(hook.got, n)
              /\ held' = held \cap hook.got.findings
              /\ hook.got.episode = receipt.episode
      BY <2>2, OfferCases
    <3>2. /\ receipt'.ids = (Offered(hook.got) \cap hook.got.findings) \cup n
          /\ receipt'.episode = hook.got.episode
      BY <3>1 DEF Consumed
    <3>3. Offered(hook.got) = receipt.ids BY <3>1 DEF Offered
    <3>4. QED BY <1>1, <2>2, <3>1, <3>2, <3>3 DEF HeldInv, HeldNamed
  <2>3. QED BY <2>1, <2>2
<1>5. QED BY <1>3, <1>4 DEF HeldInv

LEMMA AgentHeld ==
    ASSUME IInv, HeldInv, NEW a \in Agents,
           \/ Dispatch(a) \/ WaitPoll(a) \/ WaitPollFails(a) \/ WaitClaim(a)
           \/ WaitQuiet(a) \/ Send(a) \/ AgentDie(a)
    PROVE  HeldInv'
<1>1. agent \in [Agents -> AgentTypes] /\ job \in JobTypes BY DEF IInv, Types, Values
<1>2. UNCHANGED <<receipt, held, result>>
  BY DEF Dispatch, WaitPoll, WaitPollFails, WaitClaim, WaitQuiet, Send, AgentDie,
     Unchanged, history
<1>3. \A b \in Agents \ {a} : agent'[b] = agent[b]
  BY <1>1 DEF Dispatch, WaitPoll, WaitPollFails, WaitClaim, WaitQuiet, Send, AgentDie
<1>4. agent'[a].at # "claim"
  <2>1. CASE Dispatch(a)
    BY <1>1, <2>1, Constant DEF Dispatch, AgentTypes
  <2>2. CASE WaitPoll(a) \/ WaitPollFails(a)
    BY <1>1, <2>2 DEF WaitPoll, WaitPollFails, AgentTypes
  <2>3. CASE WaitClaim(a) BY <1>1, <2>3, Idle DEF WaitClaim, AgentTypes
  <2>4. CASE WaitQuiet(a) \/ AgentDie(a) BY <1>1, <2>4, Idle DEF WaitQuiet, AgentDie
  <2>5. CASE Send(a)
    BY <1>1, <2>5, Constant DEF Send, AgentTypes
  <2>6. QED BY <2>1, <2>2, <2>3, <2>4, <2>5
<1>5. job'.state = "waiting" => job.state = "waiting" /\ job'.id = job.id
  <2>1. CASE WaitClaim(a) BY <1>1, <2>1 DEF WaitClaim, JobTypes
  <2>2. CASE WaitQuiet(a) BY <1>1, <2>2 DEF WaitQuiet, JobTypes
  <2>3. CASE job' = job BY <2>3
  <2>4. QED
    BY <2>1, <2>2, <2>3 DEF Dispatch, WaitPoll, WaitPollFails, Send, AgentDie
<1>6. \A b \in Agents : agent'[b].at = "claim" => agent'[b] = agent[b] BY <1>3, <1>4
<1>7. QED BY <1>2, <1>5, <1>6, NoNewClaim

(* An offer leaves out what the receipt names. *)
LEMMA WaitOfferHeld ==
    ASSUME IInv, HeldInv, NEW a \in Agents, WaitOffer(a)
    PROVE  HeldInv'
<1>1. agent \in [Agents -> AgentTypes] /\ agent[a].got \in Reports
  BY DEF IInv, Types, AgentTypes
<1>2. UNCHANGED <<receipt, held, result, job>> BY DEF WaitOffer, Unchanged, history
<1>3. PICK n \in Notices(agent[a].got) :
          agent' = IF n = {}
                     THEN [agent EXCEPT ![a].at = "quiet", ![a].got = NoReport]
                     ELSE [agent EXCEPT ![a].at = "claim", ![a].notice = n]
  BY DEF WaitOffer
<1>4. \A b \in Agents \ {a} : agent'[b] = agent[b] BY <1>1, <1>3
<1>5. agent'[a].at = "claim" => agent'[a].notice = n /\ agent'[a].got = agent[a].got
  BY <1>1, <1>3 DEF AgentTypes
<1>6. HeldNamed' BY <1>2 DEF HeldInv, HeldNamed
<1>7. agent[a].got.episode = result.episode => n \cap held = {} BY <1>1, NoticeApart
<1>8. ClaimsApart' BY <1>2, <1>4, <1>5, <1>7 DEF HeldInv, ClaimsApart
<1>9. QED BY <1>6, <1>8 DEF HeldInv

(* Nobody else was waiting for a job that was reserved only. *)
LEMMA WaitStartHeld ==
    ASSUME IInv, HeldInv, NEW a \in Agents, WaitStart(a)
    PROVE  HeldInv'
<1>1. agent \in [Agents -> AgentTypes] /\ job \in JobTypes BY DEF IInv, Types, Values
<1>2. UNCHANGED <<receipt, held, result>> BY DEF WaitStart, Unchanged, history
<1>3. \A b \in Agents \ {a} : agent'[b] = agent[b] BY <1>1 DEF WaitStart
<1>4. agent'[a].at # "claim" BY <1>1, Idle DEF WaitStart, AgentTypes
<1>5. CASE Mine(a) /\ job.state = "reserved" /\ lease > 0
  <2>1. job' = [job EXCEPT !.state = "waiting"] BY <1>5 DEF WaitStart
  <2>2. job'.id = job.id BY <1>1, <2>1 DEF JobTypes
  <2>3. \A b \in Agents : Waited(b) => agent[b].job # job.id
    BY <1>5 DEF IInv, Inv, OneWaiter
  <2>4. \A b \in Agents : agent'[b].at = "claim" => agent'[b].job # job'.id
    BY <1>3, <1>4, <2>2, <2>3 DEF Waited, AgentPlaces
  <2>5. HeldNamed' BY <1>2 DEF HeldInv, HeldNamed
  <2>6. ClaimsApart' BY <2>4 DEF ClaimsApart
  <2>7. QED BY <2>5, <2>6 DEF HeldInv
<1>6. CASE ~(Mine(a) /\ job.state = "reserved" /\ lease > 0)
  <2>1. job' = job BY <1>6 DEF WaitStart
  <2>2. QED BY <1>2, <1>3, <1>4, <2>1, NoNewClaim
<1>7. QED BY <1>5, <1>6

(* An unknown outcome puts what was sent on the receipt. *)
LEMMA DeliveredHeld ==
    ASSUME HeldInv, NEW a \in Agents, agent[a].outcome # "failed", receipt' = Delivered,
           held' = StillHeld(a) \cup NowUncertain(a), result' = result
    PROVE  HeldNamed'
<1>1. /\ receipt'.episode = job.episode /\ job.findings \subseteq receipt'.ids
      /\ receipt.episode = job.episode => receipt.ids \subseteq receipt'.ids
  BY DEF Delivered
<1>2. StillHeld(a) # {} => job.episode = receipt.episode /\ StillHeld(a) = held
  BY DEF StillHeld
<1>3. NowUncertain(a) # {} => job.episode = result.episode BY DEF NowUncertain
<1>4. NowUncertain(a) \subseteq job.findings BY DEF NowUncertain
<1>5. QED BY <1>1, <1>2, <1>3, <1>4 DEF HeldInv, HeldNamed

LEMMA CompleteHeld ==
    ASSUME IInv, HeldInv, NEW a \in Agents, Complete(a)
    PROVE  HeldInv'
<1>1. agent \in [Agents -> AgentTypes] /\ job \in JobTypes BY DEF IInv, Types, Values
<1>2. result' = result /\ agent' = [agent EXCEPT ![a] = IdleAgent]
  BY DEF Complete, Unchanged
<1>3. \A b \in Agents : agent'[b].at = "claim" => agent'[b] = agent[b] BY <1>1, <1>2, Idle
<1>4. CASE Mine(a) /\ job.state = "sending"
  <2>1. /\ job' = [job EXCEPT !.state = agent[a].outcome]
        /\ receipt' = IF agent[a].outcome = "failed" THEN receipt
                      ELSE Delivered
        /\ held' = StillHeld(a) \cup NowUncertain(a)
    BY <1>4 DEF Complete
  <2>2. job'.state # "waiting" BY <1>1, <2>1 DEF AgentTypes, JobTypes
  <2>3. ClaimsApart' BY <2>2 DEF ClaimsApart
  <2>4. HeldNamed'
    <3>1. CASE agent[a].outcome = "failed"
      <4>1. receipt' = receipt /\ held' = held
        BY <2>1, <3>1 DEF StillHeld, NowUncertain
      <4>2. QED BY <1>2, <4>1 DEF HeldInv, HeldNamed
    <3>2. CASE agent[a].outcome # "failed"
      <4>1. receipt' = Delivered BY <2>1, <3>2
      <4>2. QED BY <1>2, <2>1, <3>2, <4>1, DeliveredHeld
    <3>3. QED BY <3>1, <3>2
  <2>5. QED BY <2>3, <2>4 DEF HeldInv
<1>5. CASE ~(Mine(a) /\ job.state = "sending")
  <2>1. UNCHANGED <<job, receipt, held>> BY <1>5 DEF Complete
  <2>2. QED BY <1>2, <1>3, <2>1, NoNewClaim
<1>6. QED BY <1>4, <1>5

(* Nobody claims a job that is being sent, or whose outcome is unknown. *)
LEMMA CutShortHeld ==
    ASSUME IInv, HeldInv, ResumeCutShort \/ \E a \in Agents : CompleteCutShort(a)
    PROVE  HeldInv'
<1>1. result' = result /\ job' = job BY DEF ResumeCutShort, CompleteCutShort
<1>2. job.state # "waiting" BY DEF ResumeCutShort, CompleteCutShort
<1>3. ClaimsApart' BY <1>1, <1>2 DEF ClaimsApart
<1>4. CASE ResumeCutShort
  <2>1. held' = {} BY <1>4 DEF ResumeCutShort
  <2>2. QED BY <1>3, <2>1 DEF HeldInv, HeldNamed
<1>5. ASSUME NEW a \in Agents, CompleteCutShort(a) PROVE HeldInv'
  <2>1. /\ agent[a].outcome # "failed" /\ receipt' = Delivered
        /\ held' = StillHeld(a) \cup NowUncertain(a)
    BY <1>5 DEF CompleteCutShort
  <2>2. HeldNamed' BY <1>1, <2>1, DeliveredHeld
  <2>3. QED BY <1>3, <2>2 DEF HeldInv
<1>6. QED BY <1>4, <1>5

LEMMA JobHeld ==
    ASSUME IInv, HeldInv, Reserve \/ Resume
    PROVE  HeldInv'
<1>1. job \in JobTypes BY DEF IInv, Types, Values
<1>2. job'.state # "waiting" BY <1>1 DEF Reserve, Resume, JobTypes
<1>3. ClaimsApart' BY <1>2 DEF ClaimsApart
<1>4. HeldNamed'
  <2>1. CASE Reserve
    <3>1. UNCHANGED <<receipt, held, result>> BY <2>1 DEF Reserve, Unchanged, history
    <3>2. QED BY <3>1 DEF HeldInv, HeldNamed
  <2>2. CASE Resume BY <2>2 DEF Resume, HeldNamed
  <2>3. QED BY <2>1, <2>2
<1>5. QED BY <1>3, <1>4 DEF HeldInv

LEMMA AloneHeld ==
    ASSUME HeldInv,
           \/ Move \/ Tick \/ HookStart \/ HookLook \/ HookPoll \/ HookPollFails
           \/ HookPrint \/ HookDie \/ UNCHANGED vars
    PROVE  HeldInv'
<1>1. UNCHANGED <<receipt, held, result, job, agent>>
  BY DEF Move, Tick, HookStart, HookLook, HookPoll, HookPollFails, HookPrint, HookDie,
     vars, history
<1>2. QED BY <1>1 DEF HeldInv, HeldNamed, ClaimsApart

LEMMA HeldStep ==
    ASSUME IInv, HeldInv, [Next]_vars
    PROVE  HeldInv'
<1>1. CASE \E state \in {"clear", "attention", "unavailable"}, found \in SUBSET Findings :
               StoreResult(state, found)
  BY <1>1, StoreHeld
<1>2. CASE Move \/ Tick \/ HookPollFails \/ HookDie \/ UNCHANGED vars BY <1>2, AloneHeld
<1>3. CASE Hook BY <1>3, AloneHeld, HookOfferHeld DEF Hook
<1>4. CASE Reserve \/ Resume \/ ResumeCutShort BY <1>4, JobHeld, CutShortHeld
<1>5. CASE \E a \in Agents : Agent(a) \/ WaitPollFails(a) \/ CompleteCutShort(a) \/ AgentDie(a)
  BY <1>5, AgentHeld, WaitStartHeld, WaitOfferHeld, CompleteHeld, CutShortHeld DEF Agent
<1>6. QED BY <1>1, <1>2, <1>3, <1>4, <1>5 DEF Next

LEMMA HeldAlways == Spec => []HeldInv
<1>1. Init => HeldInv BY HeldInit
<1>2. IInv /\ HeldInv /\ [Next]_vars => HeldInv' BY HeldStep
<1>3. QED BY <1>1, <1>2, IInvHolds, PTL DEF Spec

(* Only the hook's offer makes it print. *)
LEMMA PrintsOffer ==
    ASSUME [Next]_vars, hook.at = "offer", hook'.at = "print"
    PROVE  HookOffer
<1>1. hook' # hook OBVIOUS
<1>2. ASSUME NEW a \in Agents, Agent(a) \/ WaitPollFails(a) \/ CompleteCutShort(a) \/ AgentDie(a)
      PROVE  FALSE
  BY <1>1, <1>2 DEF Agent, Dispatch, WaitStart, WaitPoll, WaitOffer, WaitClaim, WaitQuiet,
     Send, Complete, WaitPollFails, CompleteCutShort, AgentDie, Unchanged
<1>3. ~(Move \/ Reserve \/ Resume \/ ResumeCutShort \/ Tick \/ UNCHANGED vars)
  BY <1>1 DEF Move, Reserve, Resume, ResumeCutShort, Tick, vars, Unchanged
<1>4. ASSUME NEW state, NEW found, StoreResult(state, found)
      PROVE  FALSE
  BY <1>1, <1>4 DEF StoreResult
<1>5. ~(HookStart \/ HookLook \/ HookPoll \/ HookPollFails \/ HookPrint)
  BY DEF HookStart, HookLook, HookPoll, HookPollFails, HookPrint
<1>6. ~HookDie BY DEF HookDie, IdleHook
<1>7. QED BY <1>2, <1>3, <1>4, <1>5, <1>6 DEF Next, Hook

(* Only its claim makes an agent send. *)
LEMMA SendsClaimed ==
    ASSUME IInv, [Next]_vars, NEW a \in Agents, agent[a].at = "claim", agent'[a].at = "send"
    PROVE  Mine(a) /\ job.state = "waiting"
<1>1. agent \in [Agents -> AgentTypes] BY DEF IInv, Types
<1>2. agent' # agent OBVIOUS
<1>3. ~(\/ Move \/ Reserve \/ Resume \/ ResumeCutShort \/ Tick \/ Hook \/ HookPollFails
       \/ HookDie \/ UNCHANGED vars)
  <2>1. ~HookOffer BY <1>2, OfferCases
  <2>2. QED
    BY <1>2, <2>1 DEF Move, Reserve, Resume, ResumeCutShort, Tick, Hook, HookStart, HookLook, HookPoll,
       HookPrint, HookPollFails, HookDie, vars
<1>4. ASSUME NEW state, NEW found, StoreResult(state, found)
      PROVE  FALSE
  BY <1>2, <1>4 DEF StoreResult
<1>5. PICK b \in Agents : Agent(b) \/ WaitPollFails(b) \/ CompleteCutShort(b) \/ AgentDie(b)
  BY <1>3, <1>4 DEF Next
<1>6. \A c \in Agents \ {b} : agent'[c] = agent[c]
  BY <1>1, <1>5 DEF Agent, Dispatch, WaitStart, WaitPoll, WaitOffer, WaitClaim, WaitQuiet,
     Send, Complete, WaitPollFails, CompleteCutShort, AgentDie
<1>7. b = a BY <1>6
<1>8. ~AgentDie(a) /\ ~CompleteCutShort(a) BY <1>1, Idle DEF AgentDie, CompleteCutShort
<1>9. WaitClaim(a)
  BY <1>5, <1>7, <1>8 DEF Agent, Dispatch, WaitStart, WaitPoll, WaitOffer, WaitQuiet,
     Send, Complete, WaitPollFails
<1>10. QED BY <1>1, <1>9, Idle DEF WaitClaim

(* A finding whose send is uncertain is not told again in the episode of the
   result, by either channel, while it is held. *)
THEOREM UncertainSendsAreHeld == Spec => UncertainHeld
<1>1. ASSUME IInv, HeldInv, [Next]_vars
      PROVE  [\A f \in held : ~Telling(f, result.episode)]_vars
  <2> SUFFICES ASSUME NEW f \in held, Telling(f, result.episode)
               PROVE  FALSE
    OBVIOUS
  <2>1. CASE /\ hook.at = "offer" /\ hook'.at = "print"
             /\ f \in hook'.out /\ result.episode = hook.got.episode
    <3>1. HookOffer BY <1>1, <2>1, PrintsOffer
    <3>2. hook.got \in Reports BY <1>1 DEF IInv, Types, Values, HookTypes
    <3>3. PICK n \in Notices(hook.got) : hook'.out = n BY <1>1, <2>1, <3>1, OfferCases
    <3>4. n \cap held = {} BY <1>1, <2>1, <3>2, NoticeApart
    <3>5. QED BY <2>1, <3>3, <3>4
  <2>2. CASE \E a \in Agents :
                 /\ agent[a].at = "claim" /\ agent'[a].at = "send"
                 /\ f \in agent[a].notice /\ result.episode = agent[a].got.episode
    BY <1>1, <2>2, SendsClaimed DEF HeldInv, ClaimsApart, Mine
  <2>3. QED BY <2>1, <2>2 DEF Telling
<1>2. QED BY <1>1, IInvHolds, HeldAlways, PTL DEF Spec, UncertainHeld
=============================================================================
