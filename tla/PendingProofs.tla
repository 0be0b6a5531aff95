---------------------------- MODULE PendingProofs ----------------------------
(***************************************************************************)
(* What the publisher of pending contributions promises, for every set of  *)
(* contributions, any number of commits, pull requests, waiting            *)
(* publishers, rounds and troubles: two pull requests are never open at a  *)
(* time, no commit of somebody else is overwritten, and what a cycle       *)
(* reports as proposed is in the branch.                                   *)
(*                                                                         *)
(* Neither follows from the receipts alone.  A call whose answer was lost  *)
(* may be carried out at any later time, so the invariant says of each     *)
(* such call what keeps the publisher from another one: the intent of a    *)
(* creation stays on record until its pull request is seen, and until then *)
(* none is open; and no push, made or kept, expects a foreign head.        *)
(***************************************************************************)
EXTENDS PendingPublication, FiniteSetTheorems, TLAPS

Steps ==
    {"free", "begin", "remote", "list", "reconcile", "decide", "propose", "finish",
     "close"} \cup Calling

Jobs ==
    [at : Steps, mem : States, batch : SUBSET Revisions, head : Heads,
     accepted : SUBSET Revisions, rows : [Cycles -> PrStates],
     round : 0 .. MaxRounds, forced : BOOLEAN]

(* Everything but the job and what is saved. *)
Around ==
    /\ ledger \subseteq Revisions
    /\ waiting \in 0 .. MaxWaiting
    /\ head \in Heads
    /\ target \subseteq Revisions
    /\ prs \in [Cycles -> PrStates]
    /\ wire \subseteq Intents
    /\ troubles \in 0 .. MaxTroubles

Types == saved \in States /\ job \in Jobs /\ Around

Outside == {"free", "begin", "close"}

(* What a cycle has in memory is what it has saved. *)
MemorySaved == job.at \notin Outside => job.mem = saved

(* The intent of a call under way is of its kind; the pull request that is to
   be created is new, and no other one is open. *)
IntentSaved ==
    /\ job.at \in {"push", "repush"} => saved.intent.kind = "push"
    /\ job.at = "update" => saved.intent.kind = "update"
    /\ job.at = "create" =>
           /\ saved.intent.kind = "create"
           /\ prs[saved.intent.pr] = "none"
           /\ \A c \in Cycles : prs[c] # "open"
    /\ saved.intent.kind = "create" =>
           saved.intent.pr \in Cycles /\ saved.intent.pr <= saved.cycle

(* A creation that may still be carried out is the one on record; until then
   nothing is open and the publisher does not get past the listing. *)
LateCreation ==
    \A i \in wire :
        i.kind = "create" =>
            /\ i = saved.intent
            /\ prs[i.pr] = "none"
            /\ \A c \in Cycles : prs[c] # "open"
            /\ job.at \in Outside \cup {"remote", "list"}

(* Pull requests have markers that were saved first. *)
MarkersSaved == \A c \in Cycles : prs[c] # "none" => c <= saved.cycle

(* Once the pull requests were listed no other one is opened. *)
RowsCover ==
    job.at \in {"reconcile", "repush", "decide", "push", "propose"} =>
        \A c \in Cycles : prs[c] = "open" => job.rows[c] = "open"

OneOpen == \A c, d \in Cycles : prs[c] = "open" /\ prs[d] = "open" => c = d

(* Nobody expects a foreign head. *)
OwnHeads ==
    /\ saved.head # Foreign
    /\ saved.intent.expected # Foreign
    /\ \A i \in wire : i.expected # Foreign
    /\ job.at \in {"repush", "decide"} => job.head # Foreign

Inv ==
    /\ MemorySaved /\ IntentSaved /\ LateCreation /\ MarkersSaved
    /\ RowsCover /\ OneOpen /\ OwnHeads

IInv == Types /\ Inv

-----------------------------------------------------------------------------
(* Records. *)

(* A commit of the publisher is none of the heads that others leave. *)
LEMMA OwnCommit == \A c \in Commits : c # Foreign /\ c # Nil
BY ConstantsAssumption DEF Commits

LEMMA NoIntentType ==
    /\ NoIntent \in Intents
    /\ NoIntent.kind = "none" /\ NoIntent.expected = Nil
BY DEF NoIntent, Intents, Heads

LEMMA NewStateType ==
    /\ NewState \in States
    /\ NewState.intent = NoIntent /\ NewState.head = Nil /\ NewState.cycle = 0
BY NoIntentType DEF NewState, States, Heads

LEMMA FreeType ==
    /\ Free \in Jobs
    /\ Free.at = "free"
BY NewStateType, ConstantsAssumption DEF Free, Jobs, Steps, PrStates, Heads

LEMMA JobGoes ==
    ASSUME NEW j \in Jobs, NEW step \in Steps
    PROVE  LET new == [j EXCEPT !.at = step]
           IN /\ new \in Jobs
              /\ new.at = step /\ new.mem = j.mem
              /\ new.head = j.head /\ new.rows = j.rows
BY DEF Jobs

LEMMA StateLater ==
    ASSUME NEW m \in States, NEW later \in BOOLEAN
    PROVE  LET new == [m EXCEPT !.later = later]
           IN /\ new \in States
              /\ new.head = m.head /\ new.cycle = m.cycle /\ new.intent = m.intent
BY DEF States

LEMMA StateShown ==
    ASSUME NEW m \in States, NEW shown \in SUBSET Revisions
    PROVE  LET new == [m EXCEPT !.shown = shown]
           IN /\ new \in States
              /\ new.head = m.head /\ new.cycle = m.cycle /\ new.intent = m.intent
BY DEF States

LEMMA StateIntent ==
    ASSUME NEW m \in States, NEW i \in Intents
    PROVE  LET new == [m EXCEPT !.intent = i]
           IN /\ new \in States
              /\ new.head = m.head /\ new.cycle = m.cycle /\ new.intent = i
BY DEF States

LEMMA StateOpened ==
    ASSUME NEW m \in States, NEW c \in {0} \cup Cycles
    PROVE  LET new == [m EXCEPT !.pr = c, !.intent = NoIntent]
           IN /\ new \in States
              /\ new.head = m.head /\ new.cycle = m.cycle /\ new.intent = NoIntent
BY NoIntentType DEF States

(* The fields of what is typed. *)
LEMMA StateFields ==
    ASSUME NEW m \in States
    PROVE  /\ m.head \in Heads /\ m.intent \in Intents
           /\ m.pr \in {0} \cup Cycles /\ m.cycle \in {0} \cup Cycles
           /\ m.proposed \subseteq Revisions /\ m.decided \subseteq Revisions
           /\ m.shown \subseteq Revisions
           /\ m.intent.commit \in Commits \cup {Nil} /\ m.intent.expected \in Heads
           /\ m.intent.revisions \subseteq Revisions
           /\ m.intent.pr \in {0} \cup Cycles
           /\ m.intent.commit \in Heads
BY DEF States, Intents, Heads

LEMMA JobFields ==
    ASSUME NEW j \in Jobs
    PROVE  /\ j.mem \in States /\ j.head \in Heads
           /\ j.batch \subseteq Revisions /\ j.accepted \subseteq Revisions
           /\ j.rows \in [Cycles -> PrStates]
BY DEF Jobs

-----------------------------------------------------------------------------

LEMMA InitIInv == Init => IInv
<1> SUFFICES ASSUME Init PROVE IInv
  OBVIOUS
<1>1. Types
  BY NewStateType, FreeType, ConstantsAssumption DEF Init, Types, Around, PrStates, Heads
<1>2. Inv
  BY NewStateType, NoIntentType, FreeType, ConstantsAssumption
  DEF Init, Inv, MemorySaved, IntentSaved, LateCreation, MarkersSaved, RowsCover,
      OneOpen, OwnHeads, Outside
<1> QED BY <1>1, <1>2 DEF IInv

(* Steps that end outside of a cycle and keep what was saved about calls:
   failures, refusals, deaths before a call, decisions, time. *)
LEMMA EndsOutside ==
    ASSUME Inv, NEW m \in States, saved' = m,
           m.head = saved.head, m.cycle = saved.cycle, m.intent = saved.intent,
           job'.at \in Outside,
           UNCHANGED <<prs, wire>>
    PROVE  Inv'
<1>1. MemorySaved' /\ RowsCover' BY DEF MemorySaved, RowsCover, Outside
<1>2. IntentSaved' BY DEF Inv, IntentSaved, Outside
<1>3. LateCreation' BY DEF Inv, LateCreation, Outside
<1>4. MarkersSaved' /\ OneOpen' BY DEF Inv, MarkersSaved, OneOpen
<1>5. OwnHeads' BY DEF Inv, OwnHeads, Outside
<1> QED BY <1>1, <1>2, <1>3, <1>4, <1>5 DEF Inv

LEMMA LocalKeeps ==
    ASSUME Around, Local
    PROVE  Around' /\ UNCHANGED <<prs, wire, head>>
BY DEF Around, Local, remote

(* Ends and Completes: the cycle is over, m is saved. *)
LEMMA CycleOver ==
    ASSUME IInv, NEW m \in States,
           m.head = saved.head, m.cycle = saved.cycle, m.intent = saved.intent,
           Ends(m) \/ Completes(m), Local
    PROVE  IInv'
<1>1. Around' /\ UNCHANGED <<prs, wire>> BY LocalKeeps DEF IInv, Types
<1>2. CASE Ends(m)
  <2>1. saved' = m /\ job' = Free BY <1>2 DEF Ends
  <2>2. Inv' BY <1>1, <2>1, EndsOutside, FreeType DEF IInv, Outside
  <2>3. Types' BY <1>1, <2>1, FreeType DEF Types
  <2> QED BY <2>2, <2>3 DEF IInv
<1>3. CASE Completes(m)
  <2> DEFINE n == [m EXCEPT !.later = FALSE]
  <2>1. /\ n \in States
        /\ n.head = saved.head /\ n.cycle = saved.cycle /\ n.intent = saved.intent
    BY StateLater
  <2>2. saved' = n BY <1>3 DEF Completes
  <2>3. job' \in Jobs /\ job'.at = "close"
    BY <1>3, FreeType DEF Completes, IInv, Types, Jobs, Steps
  <2> HIDE DEF n
  <2>4. Inv' BY <1>1, <2>1, <2>2, <2>3, EndsOutside DEF IInv, Outside
  <2>5. Types' BY <1>1, <2>1, <2>2, <2>3 DEF Types
  <2> QED BY <2>4, <2>5 DEF IInv
<1> QED BY <1>2, <1>3

(* Unknown: the same with a time for the retry. *)
LEMMA UnknownEnds ==
    ASSUME NEW m \in States, Unknown(m)
    PROVE  \E n \in States :
               n.head = m.head /\ n.cycle = m.cycle /\ n.intent = m.intent /\ Ends(n)
BY StateLater DEF Unknown

LEMMA UnknownOver ==
    ASSUME IInv, NEW m \in States,
           m.head = saved.head, m.cycle = saved.cycle, m.intent = saved.intent,
           Unknown(m), Local
    PROVE  IInv'
BY UnknownEnds, CycleOver

(* What was in memory is what was saved, within a cycle. *)
LEMMA Memory ==
    ASSUME IInv, job.at \notin Outside
    PROVE  job.mem = saved /\ job.mem \in States
BY DEF IInv, Inv, MemorySaved, Types

-----------------------------------------------------------------------------
(* Users, sessions and the lock. *)

LEMMA OutsideStep ==
    ASSUME IInv,
           \/ \E r \in Revisions : Capture(r)
           \/ Session \/ Acquire \/ GiveUp \/ Close
           \/ \E force \in BOOLEAN : Publish(force)
    PROVE  IInv'
<1>1. CASE (\E r \in Revisions : Capture(r)) \/ Session \/ GiveUp
  <2>1. UNCHANGED <<saved, job, remote, troubles>>
    BY <1>1 DEF Capture, Session, GiveUp
  <2>2. ledger' \subseteq Revisions /\ waiting' \in 0 .. MaxWaiting
    BY <1>1, ConstantsAssumption
    DEF Capture, Session, GiveUp, Woken, IInv, Types, Around
  <2>3. Types' BY <2>1, <2>2 DEF IInv, Types, Around, remote
  <2>4. Inv'
    BY <2>1 DEF IInv, Inv, MemorySaved, IntentSaved, LateCreation, MarkersSaved,
       RowsCover, OneOpen, OwnHeads, remote
  <2> QED BY <2>3, <2>4 DEF IInv
<1>2. CASE Acquire \/ Close \/ \E force \in BOOLEAN : Publish(force)
  <2>1. saved' = saved /\ UNCHANGED <<ledger, remote, troubles>>
    BY <1>2 DEF Acquire, Close, Publish, Local
  <2>2. waiting' \in 0 .. MaxWaiting
    <3>1. waiting \in 0 .. MaxWaiting BY DEF IInv, Types, Around
    <3>2. CASE Acquire BY <3>1, <3>2, ConstantsAssumption DEF Acquire
    <3>3. CASE Close BY <3>1, <3>3 DEF Close, Local
    <3>4. CASE \E force \in BOOLEAN : Publish(force) BY <3>1, <3>4 DEF Publish
    <3> QED BY <1>2, <3>2, <3>3, <3>4
  <2>3. job' \in Jobs /\ job'.at \in Outside
    <3>1. Free \in Jobs /\ Free.at \in Outside BY FreeType DEF Outside
    <3>2. 1 \in 0 .. MaxRounds /\ MaxRounds \in 0 .. MaxRounds
      BY ConstantsAssumption
    <3>3. ASSUME NEW n \in 0 .. MaxRounds, NEW f \in BOOLEAN
          PROVE  LET new == [Free EXCEPT !.at = "begin", !.round = n, !.forced = f]
                 IN new \in Jobs /\ new.at \in Outside
      BY <3>1 DEF Jobs, Steps, Outside
    <3>4. ASSUME NEW n \in 0 .. MaxRounds
          PROVE  LET new == [Free EXCEPT !.at = "begin", !.round = n]
                 IN new \in Jobs /\ new.at \in Outside
      BY <3>1 DEF Jobs, Steps, Outside
    <3>5. CASE Acquire BY <3>2, <3>4, <3>5 DEF Acquire
    <3>6. CASE Close
      <4>1. job.round < MaxRounds => job.round + 1 \in 0 .. MaxRounds
        BY ConstantsAssumption DEF IInv, Types, Jobs
      <4> QED BY <3>1, <3>4, <3>6, <4>1 DEF Close
    <3>7. CASE \E force \in BOOLEAN : Publish(force)
      BY <3>2, <3>3, <3>7 DEF Publish
    <3> QED BY <1>2, <3>5, <3>6, <3>7
  <2>4. Types' BY <2>1, <2>2, <2>3 DEF IInv, Types, Around, remote
  <2>5. Inv'
    BY <2>1, <2>3, EndsOutside DEF IInv, Types, remote
  <2> QED BY <2>4, <2>5 DEF IInv
<1> QED BY <1>1, <1>2

LEMMA DecisionStep ==
    ASSUME IInv, NEW r \in Revisions, Withdraw(r) \/ Resume(r)
    PROVE  IInv'
<1>1. PICK m \in States :
          /\ saved' = m
          /\ m.head = saved.head /\ m.cycle = saved.cycle /\ m.intent = saved.intent
  <2>1. saved \in States /\ saved.decided \subseteq Revisions /\ saved.shown \subseteq Revisions
    BY StateFields DEF IInv, Types
  <2> DEFINE added == saved.decided \cup {r}
             removed == saved.decided \ {r}
             shown == saved.shown \ {r}
  <2>2. {added, removed, shown} \subseteq SUBSET Revisions BY <2>1
  <2>3. \/ saved' = [saved EXCEPT !.decided = added, !.shown = shown]
        \/ saved' = [saved EXCEPT !.decided = removed, !.shown = shown]
    BY DEF Withdraw, Resume
  <2> HIDE DEF added, removed, shown
  <2>4. ASSUME NEW decided \in SUBSET Revisions,
               saved' = [saved EXCEPT !.decided = decided, !.shown = shown]
        PROVE  /\ saved' \in States
               /\ saved'.head = saved.head /\ saved'.cycle = saved.cycle
               /\ saved'.intent = saved.intent
    BY <2>1, <2>2, <2>4 DEF States
  <2> QED BY <2>2, <2>3, <2>4
<1>2. job' = job /\ job.at = "free" BY DEF Withdraw, Resume
<1>3. UNCHANGED <<ledger, waiting, remote, troubles>> BY DEF Withdraw, Resume
<1>4. Types' BY <1>1, <1>2, <1>3 DEF IInv, Types, Around, remote
<1>5. Inv' BY <1>1, <1>2, <1>3, EndsOutside DEF IInv, Outside, remote
<1> QED BY <1>4, <1>5 DEF IInv

LEMMA TimeStep ==
    ASSUME IInv, TimePasses
    PROVE  IInv'
<1> DEFINE m == [saved EXCEPT !.later = FALSE]
           n == [job.mem EXCEPT !.later = FALSE]
           j == [job EXCEPT !.mem.later = FALSE]
<1>1. /\ m \in States
      /\ m.head = saved.head /\ m.cycle = saved.cycle /\ m.intent = saved.intent
  BY StateLater DEF IInv, Types
<1>2. n \in States BY StateLater, JobFields DEF IInv, Types
<1>3. /\ j \in Jobs
      /\ j.at = job.at /\ j.mem = n /\ j.head = job.head /\ j.rows = job.rows
  BY <1>2 DEF IInv, Types, Jobs
<1>4. job.at \notin Outside => n = m BY DEF IInv, Inv, MemorySaved
<1>5. saved' = m /\ job' = j BY DEF TimePasses
<1>6. UNCHANGED <<ledger, waiting, remote, troubles>> BY DEF TimePasses
<1> HIDE DEF m, n, j
<1>7. Types' BY <1>1, <1>3, <1>5, <1>6 DEF IInv, Types, Around, remote
<1>8. Inv'
  BY <1>1, <1>3, <1>4, <1>5, <1>6
  DEF IInv, Inv, MemorySaved, IntentSaved, LateCreation, MarkersSaved, RowsCover,
      OneOpen, OwnHeads, remote
<1> QED BY <1>7, <1>8 DEF IInv

-----------------------------------------------------------------------------
(* The cycle: observation and reconciliation. *)

LEMMA BeginStep ==
    ASSUME IInv, Begin
    PROVE  IInv'
<1>1. saved' = saved /\ Around' /\ UNCHANGED <<prs, wire>>
  BY LocalKeeps DEF Begin, IInv, Types
<1>2. CASE saved.later /\ ~job.forced
  <2>1. job' = Free BY <1>2 DEF Begin
  <2>2. Types' BY <1>1, <2>1, FreeType DEF IInv, Types
  <2>3. Inv' BY <1>1, <2>1, FreeType, EndsOutside DEF IInv, Types, Outside
  <2> QED BY <2>2, <2>3 DEF IInv
<1>3. CASE ~(saved.later /\ ~job.forced)
  <2>1. /\ job' \in Jobs
        /\ job'.at = "remote" /\ job'.mem = saved
    BY <1>3 DEF Begin, IInv, Types, Around, Jobs, Steps
  <2>2. Types' BY <1>1, <2>1 DEF IInv, Types
  <2>3. Inv'
    BY <1>1, <2>1
    DEF IInv, Inv, MemorySaved, IntentSaved, LateCreation, MarkersSaved, RowsCover,
        OneOpen, OwnHeads, Outside
  <2> QED BY <2>2, <2>3 DEF IInv
<1> QED BY <1>2, <1>3

LEMMA ObserveStep ==
    ASSUME IInv, Observe
    PROVE  IInv'
<1>1. saved' = saved /\ Around' /\ UNCHANGED <<prs, wire>>
  BY LocalKeeps DEF Observe, IInv, Types
<1>2. job.mem = saved BY Memory DEF Observe, At, Outside
<1>3. job' \in Jobs /\ job'.at = "list" /\ job'.mem = job.mem
  BY DEF Observe, At, IInv, Types, Around, Jobs, Steps
<1>4. Types' BY <1>1, <1>3 DEF IInv, Types
<1>5. Inv'
  BY <1>1, <1>2, <1>3
  DEF IInv, Inv, MemorySaved, IntentSaved, LateCreation, MarkersSaved, RowsCover,
      OneOpen, OwnHeads, Outside
<1> QED BY <1>4, <1>5 DEF IInv

LEMMA ListingStops ==
    ASSUME IInv, Uncertain \/ SettleStops
    PROVE  IInv'
<1>1. job.mem = saved /\ job.mem \in States
  BY Memory DEF Uncertain, SettleStops, At, Outside
<1>2. CASE Uncertain BY <1>1, <1>2, UnknownOver DEF Uncertain
<1>3. CASE SettleStops BY <1>1, <1>3, CycleOver DEF SettleStops, Attention
<1> QED BY <1>2, <1>3

(* What settling does to the receipts: the intent stays only if it is a push
   that was not made, and the saved head is a commit of our own. *)
LEMMA SettledType ==
    ASSUME NEW m \in States
    PROVE  /\ Settled(m) \in States
           /\ Settled(m).cycle = m.cycle
           /\ \/ Settled(m).intent = m.intent /\ m.intent.kind = "push"
              \/ Settled(m).intent = NoIntent
           /\ \/ Settled(m).head = m.head
              \/ Settled(m).head = m.intent.commit
<1> DEFINE i == m.intent
<1>1. /\ i.commit \in Heads /\ i.revisions \in SUBSET Revisions
      /\ i.pr \in {0} \cup Cycles
  BY StateFields
<1>2. CASE i.kind = "create" /\ prs[i.pr] # "none"
  <2> DEFINE n == [m EXCEPT !.pr = i.pr, !.proposed = i.revisions, !.intent = NoIntent]
  <2>1. n \in States /\ n.head = m.head /\ n.cycle = m.cycle /\ n.intent = NoIntent
    BY <1>1, NoIntentType DEF States
  <2>2. Settled(m) = n BY <1>2 DEF Settled
  <2> HIDE DEF n
  <2> QED BY <2>1, <2>2
<1>3. CASE i.kind = "push" /\ job.head = i.commit
  <2> DEFINE n == [m EXCEPT !.head = i.commit, !.proposed = i.revisions,
                            !.intent = NoIntent]
  <2>1. n \in States /\ n.head = i.commit /\ n.cycle = m.cycle /\ n.intent = NoIntent
    BY <1>1, NoIntentType DEF States
  <2>2. Settled(m) = n BY <1>3 DEF Settled
  <2> HIDE DEF n
  <2> QED BY <2>1, <2>2
<1>4. CASE i.kind = "push" /\ job.head # i.commit
  BY <1>4 DEF Settled
<1>5. CASE i.kind # "push" /\ ~(i.kind = "create" /\ prs[i.pr] # "none")
  BY <1>5, StateIntent, NoIntentType DEF Settled
<1> QED BY <1>2, <1>3, <1>4, <1>5

(* Settling forgets a creation only when its pull request is there, so that it
   cannot be carried out again. *)
LEMMA SettledKeeps ==
    ASSUME IInv, At("list"), ~Unconfirmed, NEW m \in States, m = Settled(saved)
    PROVE  /\ \A i \in wire : i.kind # "create"
           /\ m.intent.kind # "create"
           /\ m.intent.expected # Foreign
           /\ m.head # Foreign
           /\ m.cycle = saved.cycle
<1>1. saved \in States /\ job.mem = saved
  BY Memory DEF At, Outside, IInv, Types
<1>2. /\ m.cycle = saved.cycle
      /\ \/ m.intent = saved.intent /\ saved.intent.kind = "push"
         \/ m.intent = NoIntent
      /\ m.head = saved.head \/ m.head = saved.intent.commit
  BY <1>1, SettledType
<1>3. \A i \in wire : i.kind # "create"
  BY <1>1 DEF IInv, Inv, LateCreation, Unconfirmed
<1>4. m.intent.kind # "create" BY <1>2, NoIntentType
<1>5. m.intent.expected # Foreign
  BY <1>2, NoIntentType, ConstantsAssumption DEF IInv, Inv, OwnHeads
<1>6. saved.intent.commit # Foreign
  BY <1>1, StateFields, OwnCommit, ConstantsAssumption
<1>7. m.head # Foreign BY <1>2, <1>6 DEF IInv, Inv, OwnHeads
<1> QED BY <1>2, <1>3, <1>4, <1>5, <1>7

LEMMA SettleEndedStep ==
    ASSUME IInv, SettleEnded
    PROVE  IInv'
<1>1. saved \in States /\ job.mem = saved /\ At("list") /\ ~Unconfirmed
  BY Memory DEF SettleEnded, At, Outside, IInv, Types, Unconfirmed
<1>2. PICK m \in States : m = Settled(saved) BY <1>1, SettledType
<1>3. /\ \A i \in wire : i.kind # "create"
      /\ m.intent.kind # "create" /\ m.intent.expected # Foreign
      /\ m.head # Foreign /\ m.cycle = saved.cycle
  BY <1>1, <1>2, SettledKeeps
<1>4. PICK n \in States :
          n.head = m.head /\ n.cycle = m.cycle /\ n.intent = m.intent /\ Ends(n)
  BY <1>1, <1>2, UnknownEnds DEF SettleEnded
<1>5. Around' /\ UNCHANGED <<prs, wire>> BY LocalKeeps DEF SettleEnded, IInv, Types
<1>6. saved' = n /\ job' = Free BY <1>4 DEF Ends
<1>7. Types' BY <1>5, <1>6, FreeType DEF Types
<1>8. Inv'
  BY <1>3, <1>4, <1>5, <1>6, FreeType
  DEF IInv, Inv, MemorySaved, IntentSaved, LateCreation, MarkersSaved, RowsCover,
      OneOpen, OwnHeads, Outside
<1> QED BY <1>7, <1>8 DEF IInv

LEMMA SettleStep ==
    ASSUME IInv, Settle
    PROVE  IInv'
<1>1. saved \in States /\ job.mem = saved /\ At("list") /\ ~Unconfirmed
  BY Memory DEF Settle, At, Outside, IInv, Types
<1>2. PICK m \in States : m = Settled(saved) BY <1>1, SettledType
<1>3. /\ \A i \in wire : i.kind # "create"
      /\ m.intent.kind # "create" /\ m.intent.expected # Foreign
      /\ m.head # Foreign /\ m.cycle = saved.cycle
  BY <1>1, <1>2, SettledKeeps
<1>4. Around' /\ UNCHANGED <<prs, wire>> BY LocalKeeps DEF Settle, IInv, Types
<1>5. saved' = m BY <1>1, <1>2 DEF Settle
<1>6. job' = [job EXCEPT !.at = "reconcile", !.mem = m, !.rows = prs]
  BY <1>1, <1>2 DEF Settle
<1>7. /\ job' \in Jobs
      /\ job'.at = "reconcile" /\ job'.mem = m /\ job'.rows = prs
  BY <1>6 DEF IInv, Types, Around, Jobs, Steps
<1>8. Types' BY <1>4, <1>5, <1>7 DEF Types
<1>9. Inv'
  BY <1>3, <1>4, <1>5, <1>7
  DEF IInv, Inv, MemorySaved, IntentSaved, LateCreation, MarkersSaved, RowsCover,
      OneOpen, OwnHeads, Outside
<1> QED BY <1>8, <1>9 DEF IInv

(* What Judged and Reconcile make of the receipts: the head becomes one that is
   not foreign. *)
LEMMA JudgedType ==
    ASSUME NEW m \in States, m = job.mem, job \in Jobs
    PROVE  /\ Judged \in States
           /\ Judged.head = m.head /\ Judged.cycle = m.cycle /\ Judged.intent = m.intent
<1>1. m.decided \cup (m.proposed \ job.accepted) \in SUBSET Revisions
  BY StateFields
<1>2. Judged = m \/ Judged = [m EXCEPT !.decided = @ \cup (m.proposed \ job.accepted)]
  BY DEF Judged
<1> QED BY <1>1, <1>2 DEF States

LEMMA ReconcileStep ==
    ASSUME IInv, Reconcile
    PROVE  IInv'
<1>1. /\ saved \in States /\ job \in Jobs /\ job.mem = saved
      /\ job.head \in Heads /\ job.at = "reconcile"
  BY Memory, JobFields DEF Reconcile, At, Outside, IInv, Types
<1> DEFINE m == IF Ended THEN [Judged EXCEPT !.pr = 0, !.head = job.head, !.proposed = {}]
                         ELSE Judged
           shown == IF Open(job.rows) = {} THEN {}
                      ELSE (m.proposed \cap job.batch) \ (job.accepted \cup m.decided)
           n == [m EXCEPT !.shown = shown]
           step == IF m.intent.kind = "push" THEN "repush" ELSE "decide"
<1>2. /\ Judged \in States
      /\ Judged.head = saved.head /\ Judged.cycle = saved.cycle
      /\ Judged.intent = saved.intent
  BY <1>1, JudgedType
<1>3. /\ m \in States
      /\ m.head = job.head \/ m.head = saved.head
      /\ m.cycle = saved.cycle /\ m.intent = saved.intent
  <2>1. CASE Ended BY <1>1, <1>2, <2>1 DEF States
  <2>2. CASE ~Ended BY <1>2, <2>2
  <2> QED BY <2>1, <2>2
<1>4. shown \in SUBSET Revisions
  <2> HIDE DEF m
  <2> QED BY <1>3, StateFields
<1>5. Saves(n, step) BY DEF Reconcile
<1>6. step \in {"repush", "decide"} /\ (step = "repush" <=> saved.intent.kind = "push")
  <2> HIDE DEF m
  <2> QED BY <1>3
<1> HIDE DEF m, shown, step
<1>7. /\ n \in States
      /\ n.head = m.head /\ n.cycle = saved.cycle /\ n.intent = saved.intent
  BY <1>3, <1>4, StateShown
<1>8. job.head # Foreign
  BY <1>1, ConstantsAssumption DEF Reconcile, Moved, IInv, Inv, OwnHeads
<1> HIDE DEF n
<1>9. saved' = n /\ job' = [job EXCEPT !.mem = n, !.at = step] BY <1>5 DEF Saves
<1>10. /\ job' \in Jobs /\ job'.at = step /\ job'.mem = n
       /\ job'.head = job.head /\ job'.rows = job.rows
  BY <1>1, <1>6, <1>7, <1>9 DEF Jobs, Steps, Calling
<1>11. Around' /\ UNCHANGED <<prs, wire>> BY LocalKeeps DEF Reconcile, IInv, Types
<1>12. Types' BY <1>7, <1>9, <1>10, <1>11 DEF Types
<1>13. m.head # Foreign BY <1>3, <1>8 DEF IInv, Inv, OwnHeads
<1>14. MemorySaved' /\ IntentSaved' /\ MarkersSaved' /\ OneOpen'
  BY <1>1, <1>6, <1>7, <1>9, <1>10, <1>11
  DEF IInv, Inv, MemorySaved, IntentSaved, MarkersSaved, OneOpen
<1>15. LateCreation' /\ RowsCover' /\ OwnHeads'
  BY <1>1, <1>6, <1>7, <1>8, <1>9, <1>10, <1>11, <1>13
  DEF IInv, Inv, LateCreation, RowsCover, OwnHeads, Outside
<1> QED BY <1>12, <1>14, <1>15 DEF IInv, Inv

LEMMA CycleEnds ==
    ASSUME IInv, ReconcileStops \/ IdleCycle \/ PushRefused \/ Finish
    PROVE  IInv'
<1>1. job \in Jobs /\ job.mem = saved /\ saved \in States
  BY Memory DEF ReconcileStops, IdleCycle, PushRefused, Finish, At, Outside, IInv, Types
<1>2. CASE ReconcileStops
  <2>1. \E m \in States :
            /\ m.head = saved.head /\ m.cycle = saved.cycle /\ m.intent = saved.intent
            /\ Ends(m)
    BY <1>1, <1>2, JudgedType DEF ReconcileStops, Attention
  <2> QED BY <1>2, <2>1, CycleOver DEF ReconcileStops
<1>3. CASE IdleCycle BY <1>1, <1>3, CycleOver DEF IdleCycle
<1>4. CASE PushRefused BY <1>1, <1>4, UnknownOver DEF PushRefused
<1>5. CASE Finish
  <2> DEFINE m == [job.mem EXCEPT !.shown = @ \cup Pending]
  <2>1. Pending \subseteq Revisions BY <1>1, JobFields DEF Pending
  <2>2. /\ m \in States
        /\ m.head = saved.head /\ m.cycle = saved.cycle /\ m.intent = saved.intent
    BY <1>1, <2>1, StateFields DEF States
  <2>3. Completes(m) /\ Local BY <1>5 DEF Finish
  <2> HIDE DEF m
  <2> QED BY <2>2, <2>3, CycleOver
<1> QED BY <1>2, <1>3, <1>4, <1>5

-----------------------------------------------------------------------------
(* The cycle: intents and calls. *)

(* A step within the cycle saves m and changes no pull request. *)
LEMMA CycleGoesOn ==
    ASSUME IInv, NEW m \in States, NEW step \in Steps,
           job.at \in {"decide", "push", "repush", "propose", "update"},
           Saves(m, step), UNCHANGED <<prs, wire>>,
           m.cycle = saved.cycle, m.head # Foreign, m.intent.expected # Foreign,
           m.intent.kind # "create",
           step \in {"push", "decide", "propose", "update", "finish"},
           step = "push" => m.intent.kind = "push",
           step = "update" => m.intent.kind = "update",
           step \in {"push", "decide", "propose"} => job.at # "update",
           step = "decide" => job.at = "repush"
    PROVE  saved' \in States /\ job' \in Jobs /\ Inv'
<1>1. saved' = m /\ job' = [job EXCEPT !.mem = m, !.at = step] BY DEF Saves
<1>2. /\ job' \in Jobs /\ job'.at = step /\ job'.mem = m
      /\ job'.head = job.head /\ job'.rows = job.rows
  BY <1>1 DEF IInv, Types, Jobs
<1>3. \A i \in wire : i.kind # "create" BY DEF IInv, Inv, LateCreation, Outside
<1>4. MemorySaved' /\ IntentSaved' BY <1>1, <1>2 DEF MemorySaved, IntentSaved
<1>5. LateCreation' BY <1>3 DEF LateCreation
<1>6. MarkersSaved' /\ OneOpen' BY <1>1 DEF IInv, Inv, MarkersSaved, OneOpen
<1>7. RowsCover' BY <1>2 DEF IInv, Inv, RowsCover
<1>8. OwnHeads' BY <1>1, <1>2 DEF IInv, Inv, OwnHeads
<1> QED BY <1>1, <1>2, <1>4, <1>5, <1>6, <1>7, <1>8 DEF Inv

LEMMA PrepareStep ==
    ASSUME IInv, Prepare
    PROVE  IInv'
<1>1. job \in Jobs /\ job.mem = saved /\ saved \in States /\ job.at = "decide"
  BY Memory DEF Prepare, At, Outside, IInv, Types
<1>2. Pending \subseteq Revisions /\ job.head \in Heads BY <1>1, JobFields DEF Pending
<1> DEFINE new == [id |-> CHOOSE id \in FreshIds : TRUE, has |-> Pending]
           i == [NoIntent EXCEPT !.kind = "push", !.commit = new, !.expected = job.head,
                                 !.revisions = Pending]
           m == [job.mem EXCEPT !.intent = i]
<1>3. new \in Commits BY <1>2 DEF Prepare, Commits, FreshIds
<1>4. Saves(m, "push") /\ Local BY DEF Prepare
<1> HIDE DEF new
<1>5. i \in Intents /\ i.kind = "push" /\ i.expected = job.head
  BY <1>2, <1>3, NoIntentType DEF Intents
<1> HIDE DEF i
<1>6. m \in States /\ m.head = saved.head /\ m.cycle = saved.cycle /\ m.intent = i
  BY <1>1, <1>5, StateIntent
<1> HIDE DEF m
<1>7. Around' /\ UNCHANGED <<prs, wire>> BY <1>4, LocalKeeps DEF IInv, Types
<1>8. saved' \in States /\ job' \in Jobs /\ Inv'
  BY <1>1, <1>4, <1>5, <1>6, <1>7, CycleGoesOn DEF IInv, Inv, OwnHeads, Steps, Calling
<1> QED BY <1>7, <1>8 DEF IInv, Types

LEMMA UnchangedStep ==
    ASSUME IInv, Unchanged
    PROVE  IInv'
<1>1. job.at = "decide" /\ job \in Jobs BY DEF Unchanged, At, IInv, Types
<1>2. Around' /\ UNCHANGED <<prs, wire>> BY LocalKeeps DEF Unchanged, IInv, Types
<1>3. /\ saved' = saved
      /\ job' \in Jobs /\ job'.at = "propose" /\ job'.mem = job.mem
      /\ job'.rows = job.rows
  BY <1>1, JobGoes DEF Unchanged, Goes, Steps
<1>4. Types' BY <1>2, <1>3 DEF IInv, Types
<1>5. Inv'
  BY <1>1, <1>2, <1>3
  DEF IInv, Inv, MemorySaved, IntentSaved, LateCreation, MarkersSaved, RowsCover,
      OneOpen, OwnHeads, Outside
<1> QED BY <1>4, <1>5 DEF IInv

LEMMA PushedStep ==
    ASSUME IInv, Pushed
    PROVE  IInv'
<1> DEFINE i == job.mem.intent
           m == [job.mem EXCEPT !.head = i.commit, !.proposed = i.revisions,
                                !.intent = NoIntent]
           step == IF At("repush") THEN "decide" ELSE "propose"
<1>1. job.mem = saved /\ saved \in States /\ job.at \in {"push", "repush"}
  BY Memory DEF Pushed, Outside
<1>2. i.commit \in Commits \cup {Nil} /\ i.commit \in Heads /\ i.revisions \in SUBSET Revisions
  BY <1>1, StateFields
<1>3. m \in States /\ m.head = i.commit /\ m.cycle = saved.cycle /\ m.intent = NoIntent
  BY <1>1, <1>2, NoIntentType DEF States
<1>4. i.commit # Foreign BY <1>2, OwnCommit, ConstantsAssumption
<1>5. head' = i.commit /\ Saves(m, step)
  BY DEF Pushed
<1>6. UNCHANGED <<ledger, waiting, target, prs, wire, troubles>> BY DEF Pushed
<1>7. Around' BY <1>2, <1>5, <1>6 DEF IInv, Types, Around
<1>8. step \in {"decide", "propose"} /\ (step = "decide" => job.at = "repush") BY DEF At
<1> HIDE DEF m, step, i
<1>9. saved' \in States /\ job' \in Jobs /\ Inv'
  BY <1>1, <1>3, <1>4, <1>5, <1>6, <1>8, NoIntentType, ConstantsAssumption, CycleGoesOn
  DEF Steps, Calling
<1> QED BY <1>7, <1>9 DEF IInv, Types

LEMMA ProposeUpdateStep ==
    ASSUME IInv, ProposeUpdate
    PROVE  IInv'
<1> DEFINE i == [NoIntent EXCEPT !.kind = "update", !.pr = job.mem.pr]
           m == [job.mem EXCEPT !.intent = i]
<1>1. job.mem = saved /\ saved \in States /\ job.at = "propose"
  BY Memory DEF ProposeUpdate, At, Outside
<1>2. i \in Intents /\ i.kind = "update" /\ i.expected = Nil
  BY <1>1, NoIntentType, StateFields DEF Intents, NoIntent
<1>3. Saves(m, "update") /\ Local BY DEF ProposeUpdate
<1> HIDE DEF i
<1>4. m \in States /\ m.head = saved.head /\ m.cycle = saved.cycle /\ m.intent = i
  BY <1>1, <1>2, StateIntent
<1> HIDE DEF m
<1>5. Around' /\ UNCHANGED <<prs, wire>> BY <1>3, LocalKeeps DEF IInv, Types
<1>6. saved' \in States /\ job' \in Jobs /\ Inv'
  BY <1>1, <1>2, <1>3, <1>4, <1>5, ConstantsAssumption, CycleGoesOn
  DEF IInv, Inv, OwnHeads, Steps, Calling
<1> QED BY <1>5, <1>6 DEF IInv, Types

LEMMA UpdatedStep ==
    ASSUME IInv, Updated
    PROVE  IInv'
<1>1. job.mem = saved /\ saved \in States /\ job.at = "update"
  BY Memory DEF Updated, At, Outside
<1>2. CASE Unknown(job.mem) BY <1>1, <1>2, UnknownOver DEF Updated
<1>3. CASE ~Unknown(job.mem)
  <2> DEFINE m == [job.mem EXCEPT !.intent = NoIntent]
  <2>1. Saves(m, "finish") /\ Local BY <1>3 DEF Updated
  <2>2. m \in States /\ m.head = saved.head /\ m.cycle = saved.cycle /\ m.intent = NoIntent
    BY <1>1, NoIntentType, StateIntent
  <2> HIDE DEF m
  <2>3. Around' /\ UNCHANGED <<prs, wire>> BY <2>1, LocalKeeps DEF IInv, Types
  <2>4. saved' \in States /\ job' \in Jobs /\ Inv'
    BY <1>1, <2>1, <2>2, <2>3, NoIntentType, ConstantsAssumption, CycleGoesOn
    DEF IInv, Inv, OwnHeads, Steps, Calling
  <2> QED BY <2>3, <2>4 DEF IInv, Types
<1> QED BY <1>2, <1>3

(* A new marker: nothing is open, nothing else may be created later. *)
LEMMA ProposeNewStep ==
    ASSUME IInv, ProposeNew
    PROVE  IInv'
<1> DEFINE c == job.mem.cycle + 1
           i == [NoIntent EXCEPT !.kind = "create", !.pr = c, !.revisions = Pending]
           m == [job.mem EXCEPT !.cycle = c, !.intent = i]
<1>1. job.mem = saved /\ saved \in States /\ job.at = "propose" /\ job \in Jobs
  BY Memory DEF ProposeNew, At, Outside, IInv, Types
<1>2. saved.cycle \in {0} \cup Cycles /\ saved.cycle < MaxCycles
  BY <1>1, StateFields DEF ProposeNew
<1>3. c \in Cycles /\ saved.cycle \in Nat
  BY <1>1, <1>2, ConstantsAssumption DEF Cycles
<1>4. Pending \subseteq Revisions BY <1>1, JobFields DEF Pending
<1>5. i \in Intents /\ i.kind = "create" /\ i.pr = c /\ i.expected = Nil
  BY <1>3, <1>4 DEF Intents, NoIntent, Heads
<1>6. Saves(m, "create") /\ Local BY DEF ProposeNew
<1>7. c = saved.cycle + 1 BY <1>1
<1> HIDE DEF i, c
<1>8. m \in States /\ m.head = saved.head /\ m.cycle = c /\ m.intent = i
  BY <1>1, <1>3, <1>5 DEF States
<1> HIDE DEF m
<1>9. Around' /\ UNCHANGED <<prs, wire>> BY <1>6, LocalKeeps DEF IInv, Types
<1>10. saved' = m /\ job' = [job EXCEPT !.mem = m, !.at = "create"] BY <1>6 DEF Saves
<1>11. /\ job' \in Jobs /\ job'.at = "create" /\ job'.mem = m
  BY <1>1, <1>8, <1>10 DEF Jobs, Steps, Calling
<1>12. Types' BY <1>8, <1>9, <1>10, <1>11 DEF Types
<1>13. prs[c] = "none"
  <2>1. ~(c <= saved.cycle) BY <1>3, <1>7
  <2> QED BY <1>3, <2>1 DEF IInv, Inv, MarkersSaved
<1>14. \A d \in Cycles : prs[d] # "open"
  BY <1>1 DEF IInv, Inv, RowsCover, ProposeNew, Active, Open
<1>15. \A j \in wire : j.kind # "create"
  BY <1>1 DEF IInv, Inv, LateCreation, Outside
<1>16. MarkersSaved'
  <2>1. \A d \in Cycles : d <= saved.cycle => d <= c
    BY <1>3, <1>7 DEF Cycles
  <2> QED BY <1>8, <1>9, <1>10, <2>1 DEF IInv, Inv, MarkersSaved
<1>17. c <= c BY <1>3 DEF Cycles
<1>18. IntentSaved' /\ MemorySaved'
  BY <1>3, <1>5, <1>8, <1>9, <1>10, <1>11, <1>13, <1>14, <1>17 DEF IntentSaved, MemorySaved
<1>19. LateCreation' /\ RowsCover' /\ OneOpen'
  BY <1>9, <1>11, <1>15 DEF IInv, Inv, LateCreation, RowsCover, OneOpen
<1>20. OwnHeads'
  BY <1>5, <1>8, <1>9, <1>10, <1>11, ConstantsAssumption DEF IInv, Inv, OwnHeads
<1> QED BY <1>12, <1>16, <1>18, <1>19, <1>20 DEF IInv, Inv

LEMMA CreatedStep ==
    ASSUME IInv, Created
    PROVE  IInv'
<1> DEFINE c == job.mem.intent.pr
           m == [job.mem EXCEPT !.pr = c, !.intent = NoIntent]
<1>1. job.mem = saved /\ saved \in States /\ job.at = "create" /\ job \in Jobs
  BY Memory DEF Created, At, Outside, IInv, Types
<1>2. /\ c \in Cycles /\ c <= saved.cycle /\ prs[c] = "none"
      /\ \A d \in Cycles : prs[d] # "open"
  BY <1>1 DEF IInv, Inv, IntentSaved
<1>3. Saves(m, "finish") /\ prs' = [prs EXCEPT ![c] = "open"]
  BY DEF Created
<1>4. UNCHANGED <<ledger, waiting, head, target, wire, troubles>> BY DEF Created
<1> HIDE DEF c
<1>5. m \in States /\ m.head = saved.head /\ m.cycle = saved.cycle /\ m.intent = NoIntent
  BY <1>1, <1>2, StateOpened
<1> HIDE DEF m
<1>6. saved' = m /\ job' = [job EXCEPT !.mem = m, !.at = "finish"] BY <1>3 DEF Saves
<1>7. job' \in Jobs /\ job'.at = "finish" /\ job'.mem = m
  BY <1>1, <1>5, <1>6 DEF Steps, Jobs
<1>8. prs \in [Cycles -> PrStates] BY DEF IInv, Types, Around
<1>9. /\ prs' \in [Cycles -> PrStates]
      /\ prs'[c] = "open" /\ \A d \in Cycles \ {c} : prs'[d] = prs[d]
  BY <1>2, <1>3, <1>8 DEF PrStates
<1>10. Types' BY <1>4, <1>5, <1>6, <1>7, <1>9 DEF IInv, Types, Around
<1>11. \A i \in wire : i.kind # "create"
  BY <1>1 DEF IInv, Inv, LateCreation, Outside
<1>12. MemorySaved' /\ IntentSaved' /\ RowsCover'
  BY <1>5, <1>6, <1>7, NoIntentType DEF MemorySaved, IntentSaved, RowsCover
<1>13. LateCreation' BY <1>4, <1>11 DEF LateCreation
<1>14. MarkersSaved' BY <1>2, <1>5, <1>6, <1>9 DEF IInv, Inv, MarkersSaved
<1>15. OneOpen' BY <1>2, <1>9 DEF OneOpen
<1>16. OwnHeads'
  BY <1>4, <1>5, <1>6, <1>7, NoIntentType, ConstantsAssumption DEF IInv, Inv, OwnHeads
<1> QED BY <1>10, <1>12, <1>13, <1>14, <1>15, <1>16 DEF IInv, Inv

-----------------------------------------------------------------------------
(* Calls that are lost, deaths, and the remote. *)

LEMMA ReadFailsStep ==
    ASSUME IInv, ReadFails
    PROVE  IInv'
<1>1. job.mem = saved /\ saved \in States
  BY Memory DEF ReadFails, Outside
<1>2. PICK n \in States :
          n.head = saved.head /\ n.cycle = saved.cycle /\ n.intent = saved.intent /\ Ends(n)
  BY <1>1, UnknownEnds DEF ReadFails
<1>3. saved' = n /\ job' = Free BY <1>2 DEF Ends
<1>4. UNCHANGED <<ledger, waiting, remote>> /\ troubles' \in 0 .. MaxTroubles
  BY ConstantsAssumption DEF ReadFails, IInv, Types, Around
<1>5. Types' BY <1>3, <1>4, FreeType DEF IInv, Types, Around, remote
<1>6. Inv' BY <1>2, <1>3, <1>4, FreeType, EndsOutside DEF IInv, Outside, remote
<1> QED BY <1>5, <1>6 DEF IInv

(* A call is under way: what may be carried out later is its saved intent, and
   nothing else is. *)
LEMMA CallCut ==
    ASSUME IInv, job.at \in Calling, wire' = Late, job' = Free,
           NEW n \in States, saved' = n,
           n.head = saved.head, n.cycle = saved.cycle, n.intent = saved.intent,
           UNCHANGED prs
    PROVE  wire' \subseteq Intents /\ Inv'
<1>1. job.mem = saved /\ saved \in States /\ job.at \notin Outside \cup {"remote", "list"}
  BY Memory DEF Calling, Outside
<1>2. \A i \in wire' : i \in wire \/ i = saved.intent BY <1>1 DEF Late
<1>3. saved.intent \in Intents BY <1>1, StateFields
<1>4. wire' \subseteq Intents BY <1>2, <1>3 DEF IInv, Types, Around
<1>5. \A i \in wire : i.kind # "create" BY <1>1 DEF IInv, Inv, LateCreation
<1>6. job'.at = "free" BY FreeType
<1>7. MemorySaved' /\ RowsCover' /\ MarkersSaved' /\ OneOpen'
  BY <1>6 DEF IInv, Inv, MemorySaved, RowsCover, MarkersSaved, OneOpen, Outside
<1>8. IntentSaved' BY <1>6 DEF IInv, Inv, IntentSaved
<1>9. saved.intent.kind = "create" /\ saved.intent \in wire' =>
          /\ prs[saved.intent.pr] = "none"
          /\ \A c \in Cycles : prs[c] # "open"
  BY <1>1, <1>5 DEF IInv, Inv, IntentSaved, Calling, Late
<1>10. LateCreation' BY <1>2, <1>5, <1>6, <1>9 DEF LateCreation, Outside
<1>11. OwnHeads' BY <1>2, <1>6 DEF IInv, Inv, OwnHeads
<1> QED BY <1>4, <1>7, <1>8, <1>10, <1>11 DEF Inv

LEMMA CallLostStep ==
    ASSUME IInv, CallLost
    PROVE  IInv'
<1>1. job.mem = saved /\ saved \in States BY Memory DEF CallLost, Calling, Outside
<1>2. PICK n \in States :
          n.head = saved.head /\ n.cycle = saved.cycle /\ n.intent = saved.intent /\ Ends(n)
  BY <1>1, UnknownEnds DEF CallLost
<1>3. saved' = n /\ job' = Free BY <1>2 DEF Ends
<1>4. UNCHANGED <<ledger, waiting, head, target, prs>> /\ troubles' \in 0 .. MaxTroubles
  BY ConstantsAssumption DEF CallLost, IInv, Types, Around
<1>5. wire' \subseteq Intents /\ Inv' BY <1>2, <1>3, <1>4, CallCut DEF CallLost
<1>6. Types' BY <1>3, <1>4, <1>5, FreeType DEF IInv, Types, Around
<1> QED BY <1>5, <1>6 DEF IInv

LEMMA DieStep ==
    ASSUME IInv, Die
    PROVE  IInv'
<1>1. saved' = saved /\ saved \in States /\ job' = Free BY DEF Die, IInv, Types
<1>2. UNCHANGED <<ledger, waiting, head, target, prs>> /\ troubles' \in 0 .. MaxTroubles
  BY ConstantsAssumption DEF Die, IInv, Types, Around
<1>3. wire' \subseteq Intents /\ Inv'
  <2>1. CASE wire' = wire
    <3>1. wire' \subseteq Intents BY <2>1 DEF IInv, Types, Around
    <3>2. Inv' BY <1>1, <1>2, <2>1, FreeType, EndsOutside DEF IInv, Outside
    <3> QED BY <3>1, <3>2
  <2>2. CASE job.at \in Calling /\ wire' = Late
    BY <1>1, <1>2, <2>2, CallCut
  <2> QED BY <2>1, <2>2 DEF Die
<1>4. Types' BY <1>1, <1>2, <1>3, FreeType DEF IInv, Types, Around
<1> QED BY <1>3, <1>4 DEF IInv

(* A creation that arrives is the only one, and opens the only pull request. *)
LEMMA ArriveStep ==
    ASSUME IInv, NEW i \in wire, Arrive(i)
    PROVE  IInv'
<1>1. UNCHANGED <<ledger, saved, job, waiting, target, troubles>> /\ wire' = wire \ {i}
  BY DEF Arrive
<1>2. CASE i.kind # "create"
  <2>1. prs' = prs BY <1>2 DEF Arrive
  <2>2. i.commit \in Heads /\ (head' = head \/ head' = i.commit)
    BY <1>2 DEF Arrive, IInv, Types, Around, Intents, Heads
  <2>3. Types' BY <1>1, <2>1, <2>2 DEF IInv, Types, Around
  <2>4. Inv'
    BY <1>1, <2>1 DEF IInv, Inv, MemorySaved, IntentSaved, LateCreation, MarkersSaved,
       RowsCover, OneOpen, OwnHeads
  <2> QED BY <2>3, <2>4 DEF IInv
<1>3. CASE i.kind = "create"
  <2>1. /\ i = saved.intent /\ prs[i.pr] = "none"
        /\ \A c \in Cycles : prs[c] # "open"
        /\ job.at \in Outside \cup {"remote", "list"}
    BY <1>3 DEF IInv, Inv, LateCreation
  <2>2. i.pr \in Cycles /\ i.pr <= saved.cycle
    BY <1>3, <2>1 DEF IInv, Inv, IntentSaved
  <2>3. prs' = [prs EXCEPT ![i.pr] = "open"] /\ head' = head BY <1>3 DEF Arrive
  <2>4. prs \in [Cycles -> PrStates] BY DEF IInv, Types, Around
  <2>5. /\ prs' \in [Cycles -> PrStates]
        /\ prs'[i.pr] = "open" /\ \A d \in Cycles \ {i.pr} : prs'[d] = prs[d]
    BY <2>2, <2>3, <2>4 DEF PrStates
  <2>6. Types' BY <1>1, <2>3, <2>5 DEF IInv, Types, Around
  <2>7. \A j \in wire' : j.kind # "create"
    BY <1>1, <2>1 DEF IInv, Inv, LateCreation
  <2>8. MemorySaved' /\ OwnHeads' BY <1>1 DEF IInv, Inv, MemorySaved, OwnHeads
  <2>9. IntentSaved' /\ RowsCover'
    BY <1>1, <2>1 DEF IInv, Inv, IntentSaved, RowsCover, Outside
  <2>10. LateCreation' BY <2>7 DEF LateCreation
  <2>11. MarkersSaved' BY <1>1, <2>2, <2>5 DEF IInv, Inv, MarkersSaved
  <2>12. OneOpen' BY <2>1, <2>5 DEF OneOpen
  <2> QED BY <2>6, <2>8, <2>9, <2>10, <2>11, <2>12 DEF IInv, Inv
<1> QED BY <1>2, <1>3

(* Others merge, close and write. *)
LEMMA RemoteStep ==
    ASSUME IInv, (\E c \in Cycles : Merge(c) \/ CloseRequest(c)) \/ Intrude
    PROVE  IInv'
<1>1. UNCHANGED <<ledger, saved, job, waiting, wire, troubles>>
  BY DEF Merge, CloseRequest, Intrude
<1>2. /\ prs' \in [Cycles -> PrStates]
      /\ \A c \in Cycles : prs'[c] = "open" => prs[c] = "open"
      /\ \A c \in Cycles : prs'[c] = "none" <=> prs[c] = "none"
  <2>1. prs \in [Cycles -> PrStates] BY DEF IInv, Types, Around
  <2>2. ASSUME NEW c \in Cycles, prs[c] = "open", NEW s \in {"merged", "closed"},
               prs' = [prs EXCEPT ![c] = s]
        PROVE  /\ prs' \in [Cycles -> PrStates]
               /\ \A d \in Cycles : prs'[d] = "open" => prs[d] = "open"
               /\ \A d \in Cycles : prs'[d] = "none" <=> prs[d] = "none"
    BY <2>1, <2>2 DEF PrStates
  <2>3. CASE \E c \in Cycles : Merge(c) \/ CloseRequest(c)
    BY <2>2, <2>3 DEF Merge, CloseRequest
  <2>4. CASE Intrude BY <2>1, <2>4 DEF Intrude
  <2> QED BY <2>3, <2>4
<1>3. head' \in Heads /\ target' \subseteq Revisions
  <2>1. head \in Heads /\ target \subseteq Revisions BY DEF IInv, Types, Around
  <2>2. \A h \in Commits : h.has \subseteq Revisions BY DEF Commits
  <2>3. Foreign \in Heads /\ Nil \in Heads BY DEF Heads
  <2> QED BY <2>1, <2>2, <2>3 DEF Merge, CloseRequest, Intrude
<1>4. Types' BY <1>1, <1>2, <1>3 DEF IInv, Types, Around
<1>5. MemorySaved' /\ OwnHeads' BY <1>1 DEF IInv, Inv, MemorySaved, OwnHeads
<1>6. IntentSaved'
  BY <1>1, <1>2 DEF IInv, Inv, IntentSaved
<1>7. LateCreation'
  <2>1. ASSUME NEW i \in wire, i.kind = "create"
        PROVE  i.pr \in Cycles
    BY <2>1 DEF IInv, Inv, LateCreation, IntentSaved
  <2> QED BY <1>1, <1>2, <2>1 DEF IInv, Inv, LateCreation
<1>8. MarkersSaved' /\ RowsCover' /\ OneOpen'
  BY <1>1, <1>2 DEF IInv, Inv, MarkersSaved, RowsCover, OneOpen
<1> QED BY <1>4, <1>5, <1>6, <1>7, <1>8 DEF IInv, Inv

LEMMA StutterStep ==
    ASSUME IInv, UNCHANGED vars
    PROVE  IInv'
BY DEF IInv, Types, Around, Inv, MemorySaved, IntentSaved, LateCreation, MarkersSaved,
   RowsCover, OneOpen, OwnHeads, vars, remote

-----------------------------------------------------------------------------

LEMMA NextStep ==
    ASSUME IInv, [Next]_vars
    PROVE  IInv'
<1>1. CASE Step
  <2>1. CASE Begin BY <2>1, BeginStep
  <2>2. CASE Observe BY <2>2, ObserveStep
  <2>3. CASE Uncertain \/ SettleStops BY <2>3, ListingStops
  <2>4. CASE SettleEnded BY <2>4, SettleEndedStep
  <2>5. CASE Settle BY <2>5, SettleStep
  <2>6. CASE Reconcile BY <2>6, ReconcileStep
  <2>7. CASE ReconcileStops \/ IdleCycle \/ PushRefused \/ Finish BY <2>7, CycleEnds
  <2>8. CASE Prepare BY <2>8, PrepareStep
  <2>9. CASE Unchanged BY <2>9, UnchangedStep
  <2>10. CASE Pushed BY <2>10, PushedStep
  <2>11. CASE ProposeUpdate BY <2>11, ProposeUpdateStep
  <2>12. CASE Updated BY <2>12, UpdatedStep
  <2>13. CASE ProposeNew BY <2>13, ProposeNewStep
  <2>14. CASE Created BY <2>14, CreatedStep
  <2>15. CASE Close BY <2>15, OutsideStep
  <2> QED
    BY <1>1, <2>1, <2>2, <2>3, <2>4, <2>5, <2>6, <2>7, <2>8, <2>9, <2>10, <2>11,
       <2>12, <2>13, <2>14, <2>15 DEF Step
<1>2. CASE Acquire \/ GiveUp \/ Session BY <1>2, OutsideStep
<1>3. CASE TimePasses BY <1>3, TimeStep
<1>4. CASE Users
  <2>1. CASE (\E r \in Revisions : Capture(r)) \/ \E force \in BOOLEAN : Publish(force)
    BY <2>1, OutsideStep
  <2>2. CASE \E r \in Judgeable : Withdraw(r) \/ Resume(r)
    BY <2>2, DecisionStep, ConstantsAssumption
  <2> QED BY <1>4, <2>1, <2>2 DEF Users
<1>5. CASE Remote BY <1>5, ArriveStep, RemoteStep DEF Remote
<1>6. CASE CallLost BY <1>6, CallLostStep
<1>7. CASE ReadFails BY <1>7, ReadFailsStep
<1>8. CASE Die BY <1>8, DieStep
<1>9. CASE UNCHANGED vars BY <1>9, StutterStep
<1> QED BY <1>1, <1>2, <1>3, <1>4, <1>5, <1>6, <1>7, <1>8, <1>9 DEF Next

(* What the publisher saves, remembers and has sent fits together, in every
   behaviour. *)
THEOREM IInvHolds == Spec => []IInv
<1>1. Init => IInv BY InitIInv
<1>2. IInv /\ [Next]_vars => IInv' BY NextStep
<1> QED BY <1>1, <1>2, PTL DEF Spec

(* Every variable has its type, and a call is never made before its intent is
   saved. *)
THEOREM PublisherTypes == Spec => []TypeOK
<1>1. ASSUME IInv PROVE TypeOK
  <2>1. Types BY <1>1 DEF IInv
  <2>2. job.at \in Calling => saved.intent = job.mem.intent /\ saved.intent.kind # "none"
    BY <1>1 DEF IInv, Inv, MemorySaved, IntentSaved, Calling, Outside
  <2> QED BY <2>1, <2>2 DEF Types, Around, Jobs, Steps, TypeOK
<1> QED BY <1>1, IInvHolds, PTL

(* Two pull requests are never open at a time, whatever was lost or late. *)
THEOREM OnePullRequestOnly == Spec => []OnePullRequest
<1>1. ASSUME IInv PROVE OnePullRequest
  <2>1. CASE Open(prs) = {}
    BY <2>1, FS_EmptySet DEF OnePullRequest
  <2>2. CASE Open(prs) # {}
    <3>1. PICK c \in Cycles : prs[c] = "open" BY <2>2 DEF Open
    <3>2. Open(prs) = {c} BY <1>1, <3>1 DEF IInv, Inv, OneOpen, Open
    <3>3. Cardinality(Open(prs)) = 1 BY <3>2, FS_Singleton
    <3> QED BY <3>3 DEF OnePullRequest
  <2> QED BY <2>1, <2>2
<1> QED BY <1>1, IInvHolds, PTL

(* No step of the publisher, and no call that is carried out late, replaces a
   commit of somebody else. *)
THEOREM ForeignCommitsKept == Spec => ForeignKept
<1>1. ASSUME IInv, [Next]_vars
      PROVE  [head = Foreign /\ head' # head => job' = job /\ wire' = wire]_vars
  <2> SUFFICES ASSUME Next, head = Foreign, head' # head
               PROVE  job' = job /\ wire' = wire
    BY <1>1
  <2>1. ~Pushed
    <3> SUFFICES ASSUME Pushed PROVE FALSE
      OBVIOUS
    <3>1. job.mem = saved /\ saved \in States
      BY <1>1, Memory DEF Pushed, Outside
    <3>2. saved.intent.commit # Foreign
      BY <3>1, StateFields, OwnCommit, ConstantsAssumption
    <3> QED BY <1>1, <3>1, <3>2 DEF Pushed, Accepts, IInv, Inv, OwnHeads
  <2>2. \A i \in wire : ~Arrive(i)
    <3> SUFFICES ASSUME NEW i \in wire, Arrive(i) PROVE FALSE
      OBVIOUS
    <3>1. i.expected # Foreign BY <1>1 DEF IInv, Inv, OwnHeads
    <3>2. i \in Intents BY <1>1 DEF IInv, Types, Around
    <3>3. i.commit # Foreign BY <3>2, OwnCommit, ConstantsAssumption DEF Intents
    <3> QED BY <3>1, <3>3 DEF Arrive, Accepts
  <2>3. CASE \E c \in Cycles : Merge(c) BY <2>3 DEF Merge
  <2>4. ASSUME \A c \in Cycles : ~Merge(c) PROVE FALSE
    <3>1. ~Step
      BY <2>1 DEF Step, Begin, Observe, Uncertain, SettleStops, SettleEnded, Settle,
         Reconcile, ReconcileStops, IdleCycle, Prepare, Unchanged, PushRefused,
         ProposeUpdate, Updated, ProposeNew, Created, Finish, Close, Local, remote
    <3>2. ~Users /\ ~Session /\ ~Acquire /\ ~GiveUp /\ ~TimePasses
      BY DEF Users, Capture, Withdraw, Resume, Publish, Session, Acquire, GiveUp,
         TimePasses, remote
    <3>3. ~Remote BY <2>2, <2>4 DEF Remote, CloseRequest, Intrude
    <3>4. ~CallLost /\ ~ReadFails /\ ~Die BY DEF CallLost, ReadFails, Die, remote
    <3> QED BY <3>1, <3>2, <3>3, <3>4 DEF Next
  <2> QED BY <2>3, <2>4
<1> QED BY <1>1, IInvHolds, PTL DEF Spec, ForeignKept

-----------------------------------------------------------------------------
(* What a completed cycle reports as proposed is in the branch.  Between the
   push and that report others may move the branch, and what was pushed before
   may arrive late; the invariant says from when on the branch is the
   publisher's own, and why nothing that is late moves it then. *)

(* A pull request shows the branch, or is about to. *)
Ours ==
    \/ saved.pr # 0 /\ prs[saved.pr] = "open"
    \/ saved.intent.kind = "create" /\ prs[saved.intent.pr] \in {"none", "open"}
    \/ job.at = "propose" /\ ~Active

(* Then it is what the receipts name, unless somebody else wrote it. *)
OurBranch ==
    Ours =>
        /\ saved.head \in Commits
        /\ saved.proposed \subseteq saved.head.has
        /\ \/ head \in {saved.head, Foreign}
           \/ saved.intent.kind = "push" /\ head = saved.intent.commit

(* No push that is late leads away from there: nothing but the intent on
   record was prepared over the head of the receipts, or over its own commit. *)
LateIsPast ==
    \A i \in wire :
        i.kind = "push" /\ i # saved.intent =>
            /\ saved.head \in Commits => i.expected # saved.head
            /\ saved.intent.kind = "push" => i.expected # saved.intent.commit

(* What is pushed is new and holds what it is said to hold. *)
PushIsNew ==
    saved.intent.kind = "push" =>
        /\ saved.intent.commit \in Commits
        /\ saved.intent.commit.has = saved.intent.revisions
        /\ saved.intent.commit # saved.intent.expected

(* What is to be proposed was pushed before; nothing is open until then. *)
CreateIsPushed ==
    saved.intent.kind = "create" =>
        /\ saved.head \in Commits
        /\ saved.intent.revisions \subseteq saved.head.has
        /\ prs[saved.intent.pr] = "none" => \A c \in Cycles : prs[c] # "open"

(* A push that the listing found carried out is still there. *)
PushIsSeen ==
    /\ job.at = "list" /\ saved.intent.kind = "push" /\ job.head = saved.intent.commit
    /\ saved.pr # 0 /\ prs[saved.pr] = "open"
    => head \in {job.head, Foreign}

(* What the steps of a cycle have established. *)
CycleKnows ==
    /\ job.at = "reconcile" => saved.intent.kind \in {"none", "push"}
    /\ job.at \in {"decide", "propose", "finish", "close"} => saved.intent.kind = "none"
    /\ job.at \in {"repush", "decide", "push", "propose", "update", "create", "finish"} =>
           saved.shown \subseteq Pending
    /\ job.at = "push" => saved.intent.revisions = Pending
    /\ job.at \in {"propose", "update", "create", "finish"} => saved.proposed = Pending
    /\ job.at = "close" => saved.shown \subseteq saved.proposed

BInv ==
    /\ OurBranch /\ LateIsPast /\ PushIsNew /\ CreateIsPushed /\ PushIsSeen /\ CycleKnows

-----------------------------------------------------------------------------
(* What the branch depends on, of the receipts. *)
Alike(m, n) ==
    /\ m.head = n.head /\ m.intent = n.intent
    /\ m.pr = n.pr /\ m.proposed = n.proposed

LEMMA UnknownAlike ==
    ASSUME NEW m \in States, Unknown(m)
    PROVE  job' = Free /\ Alike(saved', m)
BY DEF Unknown, Ends, Alike, States

LEMMA JudgedAlike ==
    ASSUME NEW m \in States, m = job.mem
    PROVE  Alike(Judged, m)
BY DEF Judged, Alike, States

LEMMA BranchInit == Init => BInv
<1> SUFFICES ASSUME Init PROVE BInv
  OBVIOUS
<1>1. /\ saved.intent.kind = "none" /\ saved.pr = 0 /\ job.at = "free" /\ wire = {}
  BY NoIntentType, FreeType DEF Init, NewState
<1> QED
  BY <1>1 DEF BInv, Ours, OurBranch, LateIsPast, PushIsNew, CreateIsPushed, PushIsSeen,
     CycleKnows

(* What happens to the receipts leaves the branch as it was, and what may still
   arrive is what could before or is the intent on record. *)
LEMMA SameBranch ==
    ASSUME BInv, Alike(saved', saved), UNCHANGED <<head, prs>>,
           wire' \subseteq wire \cup {saved.intent},
           job'.at = "propose" /\ ~Active' => job.at = "propose" /\ ~Active
    PROVE  OurBranch' /\ LateIsPast' /\ PushIsNew' /\ CreateIsPushed'
<1>1. /\ saved'.head = saved.head /\ saved'.intent = saved.intent
      /\ saved'.pr = saved.pr /\ saved'.proposed = saved.proposed
  BY DEF Alike
<1>2. Ours' => Ours BY <1>1 DEF Ours
<1>3. OurBranch' BY <1>1, <1>2 DEF BInv, OurBranch
<1>4. LateIsPast' BY <1>1 DEF BInv, LateIsPast
<1>5. PushIsNew' /\ CreateIsPushed' BY <1>1 DEF BInv, PushIsNew, CreateIsPushed
<1>6. QED BY <1>3, <1>4, <1>5

(* The cycle is over: nothing is known any more but what is on record. *)
LEMMA LeavesBranch ==
    ASSUME BInv, Alike(saved', saved), UNCHANGED <<head, prs>>,
           wire' \subseteq wire \cup {saved.intent},
           job'.at \in {"free", "begin", "remote"}
    PROVE  BInv'
<1>1. OurBranch' /\ LateIsPast' /\ PushIsNew' /\ CreateIsPushed' BY SameBranch
<1>2. PushIsSeen' /\ CycleKnows' BY DEF PushIsSeen, CycleKnows
<1>3. QED BY <1>1, <1>2 DEF BInv

(* An intent that is no push is replaced by one that is neither push nor
   creation. *)
LEMMA IntentDropped ==
    ASSUME BInv, saved.intent.kind # "push", saved'.intent.kind \notin {"push", "create"},
           saved'.head = saved.head, saved'.pr = saved.pr, saved'.proposed = saved.proposed,
           UNCHANGED <<head, prs, wire>>,
           job'.at # "propose"
    PROVE  OurBranch' /\ LateIsPast' /\ PushIsNew' /\ CreateIsPushed' /\ PushIsSeen'
<1>1. Ours' => Ours BY DEF Ours
<1>2. OurBranch' BY <1>1 DEF BInv, OurBranch
<1>3. LateIsPast' BY DEF BInv, LateIsPast
<1>4. PushIsNew' /\ CreateIsPushed' /\ PushIsSeen'
  BY DEF PushIsNew, CreateIsPushed, PushIsSeen
<1>5. QED BY <1>2, <1>3, <1>4

(* The intent to push was carried out: the receipts name its commit. *)
LEMMA PushNoted ==
    ASSUME IInv, BInv, saved.intent.kind = "push",
           saved'.head = saved.intent.commit, saved'.proposed = saved.intent.revisions,
           saved'.intent = NoIntent, wire' = wire,
           Ours' => head' \in {saved.intent.commit, Foreign}
    PROVE  /\ OurBranch' /\ LateIsPast' /\ PushIsNew' /\ CreateIsPushed' /\ PushIsSeen'
<1>1. saved'.intent.kind = "none" BY NoIntentType
<1>2. /\ saved.intent.commit \in Commits
      /\ saved.intent.commit.has = saved.intent.revisions
      /\ saved.intent.commit # saved.intent.expected
  BY DEF BInv, PushIsNew
<1>3. OurBranch' BY <1>1, <1>2 DEF OurBranch
<1>4. LateIsPast' BY <1>1, <1>2 DEF BInv, LateIsPast
<1>5. PushIsNew' /\ CreateIsPushed' /\ PushIsSeen'
  BY <1>1 DEF PushIsNew, CreateIsPushed, PushIsSeen
<1>6. QED BY <1>3, <1>4, <1>5

(* Users, sessions, the lock, failures and deaths. *)
LEMMA OutsideBranch ==
    ASSUME IInv, BInv,
           \/ \E r \in Revisions : Capture(r)
           \/ Session \/ GiveUp \/ Acquire \/ Close
           \/ \E force \in BOOLEAN : Publish(force)
    PROVE  BInv'
<1>1. UNCHANGED <<saved, remote>>
  <2>1. CASE (\E r \in Revisions : Capture(r)) \/ Session \/ GiveUp
    BY <2>1 DEF Capture, Session, GiveUp
  <2>2. CASE Acquire \/ Close \/ \E force \in BOOLEAN : Publish(force)
    <3>1. CASE \E force \in BOOLEAN : Publish(force) BY <3>1, Zenon DEF Publish
    <3>2. CASE Acquire \/ Close BY <3>2 DEF Acquire, Close, Local
    <3>3. QED BY <2>2, <3>1, <3>2
  <2>3. QED BY <2>1, <2>2
<1>2. Alike(saved', saved) /\ UNCHANGED <<head, prs, wire>> BY <1>1 DEF Alike, remote
<1>3. CASE (\E r \in Revisions : Capture(r)) \/ Session \/ GiveUp
  <2>1. job' = job BY <1>3 DEF Capture, Session, GiveUp
  <2>2. OurBranch' /\ LateIsPast' /\ PushIsNew' /\ CreateIsPushed'
    BY <1>2, <2>1, SameBranch DEF Active
  <2>3. PushIsSeen' /\ CycleKnows'
    BY <1>1, <1>2, <2>1 DEF BInv, PushIsSeen, CycleKnows, Pending
  <2>4. QED BY <2>2, <2>3 DEF BInv
<1>4. CASE Acquire \/ Close \/ \E force \in BOOLEAN : Publish(force)
  <2>1. Free.at = "free" /\ Free \in Jobs BY FreeType
  <2>2. job'.at \in {"free", "begin"}
    <3>1. CASE Acquire BY <2>1, <3>1 DEF Acquire, Jobs
    <3>2. CASE Close BY <2>1, <3>2 DEF Close, Jobs
    <3>3. CASE \E force \in BOOLEAN : Publish(force)
      <4>1. ASSUME NEW n, NEW f
            PROVE  [Free EXCEPT !.at = "begin", !.round = n, !.forced = f].at = "begin"
        BY <2>1 DEF Jobs
      <4>2. QED BY <3>3, <4>1, Zenon DEF Publish
    <3>4. QED BY <1>4, <3>1, <3>2, <3>3
  <2>3. QED BY <1>2, <2>2, LeavesBranch
<1>5. QED BY <1>3, <1>4

LEMMA DecisionBranch ==
    ASSUME IInv, BInv, NEW r \in Revisions, Withdraw(r) \/ Resume(r)
    PROVE  BInv'
<1>1. saved \in States BY DEF IInv, Types
<1>2. Alike(saved', saved) BY <1>1 DEF Withdraw, Resume, Alike, States
<1>3. UNCHANGED <<job, head, prs, wire>> /\ job.at = "free"
  BY DEF Withdraw, Resume, remote
<1>4. QED BY <1>2, <1>3, LeavesBranch

LEMMA TimeBranch ==
    ASSUME IInv, BInv, TimePasses
    PROVE  BInv'
<1>1. saved \in States /\ job \in Jobs /\ job.mem \in States
  BY JobFields DEF IInv, Types
<1>2. Alike(saved', saved) /\ saved'.shown = saved.shown
  BY <1>1 DEF TimePasses, Alike, States
<1>3. /\ job'.at = job.at /\ job'.rows = job.rows /\ job'.head = job.head
      /\ job'.batch = job.batch /\ job'.accepted = job.accepted
      /\ job'.mem.decided = job.mem.decided
  BY <1>1 DEF TimePasses, Jobs, States
<1>4. UNCHANGED <<head, prs, wire>> BY DEF TimePasses, remote
<1>5. Active' <=> Active BY <1>3 DEF Active
<1>6. Pending' = Pending BY <1>3 DEF Pending
<1>7. OurBranch' /\ LateIsPast' /\ PushIsNew' /\ CreateIsPushed'
  BY <1>2, <1>3, <1>4, <1>5, SameBranch
<1>8. /\ saved'.head = saved.head /\ saved'.intent = saved.intent
      /\ saved'.pr = saved.pr /\ saved'.proposed = saved.proposed
  BY <1>2 DEF Alike
<1>9. PushIsSeen' BY <1>3, <1>4, <1>8 DEF BInv, PushIsSeen
<1>10. CycleKnows' BY <1>2, <1>3, <1>6, <1>8 DEF BInv, CycleKnows
<1>11. QED BY <1>7, <1>9, <1>10 DEF BInv

(* A cycle that stops keeps its receipts, but for what it noted about a pull
   request that has ended. *)
LEMMA StoppedBranch ==
    ASSUME IInv, BInv,
           \/ Uncertain \/ SettleStops \/ ReconcileStops \/ PushRefused \/ ReadFails \/ CallLost
           \/ At("update") /\ Unknown(job.mem) /\ Local
    PROVE  BInv'
<1>1. job.mem = saved /\ job.mem \in States
  BY Memory
  DEF Uncertain, SettleStops, ReconcileStops, PushRefused, ReadFails, CallLost, Calling,
      At, Outside
<1>2. UNCHANGED <<head, prs>> /\ wire' \subseteq wire \cup {saved.intent}
  BY <1>1
  DEF Uncertain, SettleStops, ReconcileStops, PushRefused, ReadFails, CallLost, Late,
      Local, remote
<1>3. job' = Free /\ Alike(saved', saved)
  <2>1. CASE Unknown(job.mem) BY <1>1, <2>1, UnknownAlike
  <2>2. CASE Attention(job.mem) BY <1>1, <2>2 DEF Attention, Ends, Alike
  <2>3. CASE Attention(Judged)
    <3>1. Alike(Judged, saved) BY <1>1, JudgedAlike
    <3>2. QED BY <2>3, <3>1 DEF Attention, Ends
  <2>4. QED
    BY <2>1, <2>2, <2>3
    DEF Uncertain, SettleStops, ReconcileStops, PushRefused, ReadFails, CallLost
<1>4. QED BY <1>2, <1>3, FreeType, LeavesBranch

LEMMA DieBranch ==
    ASSUME IInv, BInv, Die
    PROVE  BInv'
<1>1. job' = Free /\ saved' = saved /\ UNCHANGED <<head, prs>> BY DEF Die
<1>2. wire' \subseteq wire \cup {saved.intent}
  <2>1. job.at \in Calling => job.mem = saved BY Memory DEF Calling, Outside
  <2>2. QED BY <2>1 DEF Die, Late
<1>3. QED BY <1>1, <1>2, FreeType, LeavesBranch DEF Alike

LEMMA BeginBranch ==
    ASSUME IInv, BInv, Begin
    PROVE  BInv'
<1>1. saved' = saved /\ UNCHANGED <<head, prs, wire>> BY DEF Begin, Local, remote
<1>2. job'.at \in {"free", "remote"} BY FreeType DEF Begin, IInv, Types, Jobs
<1>3. QED BY <1>1, <1>2, LeavesBranch DEF Alike

LEMMA ObserveBranch ==
    ASSUME IInv, BInv, Observe
    PROVE  BInv'
<1>1. saved' = saved /\ UNCHANGED <<head, prs, wire>> BY DEF Observe, Local, remote
<1>2. job'.at = "list" /\ job'.head = head BY DEF Observe, IInv, Types, Jobs
<1>3. OurBranch' /\ LateIsPast' /\ PushIsNew' /\ CreateIsPushed'
  BY <1>1, <1>2, SameBranch DEF Alike
<1>4. PushIsSeen' BY <1>1, <1>2 DEF PushIsSeen
<1>5. CycleKnows' BY <1>2 DEF CycleKnows
<1>6. QED BY <1>3, <1>4, <1>5 DEF BInv

(* What settling makes of each intent. *)
LEMMA SettledCases ==
    ASSUME IInv, At("list"), ~Unconfirmed, NEW m \in States, m = Settled(saved)
    PROVE  \/ /\ saved.intent.kind = "create" /\ prs[saved.intent.pr] # "none"
              /\ m.pr = saved.intent.pr /\ m.proposed = saved.intent.revisions
              /\ m.intent = NoIntent /\ m.head = saved.head
           \/ /\ saved.intent.kind = "push" /\ job.head = saved.intent.commit
              /\ m.head = saved.intent.commit /\ m.proposed = saved.intent.revisions
              /\ m.intent = NoIntent /\ m.pr = saved.pr
           \/ /\ saved.intent.kind = "push"
              /\ m = saved
           \/ /\ saved.intent.kind \notin {"push", "create"}
              /\ m.head = saved.head /\ m.proposed = saved.proposed
              /\ m.intent = NoIntent /\ m.pr = saved.pr
<1> DEFINE i == saved.intent
<1>1. saved \in States /\ job.mem = saved
  BY Memory DEF At, Outside, IInv, Types
<1>2. /\ i.commit \in Heads /\ i.revisions \in SUBSET Revisions
      /\ i.pr \in {0} \cup Cycles
  BY <1>1, StateFields
<1>3. CASE i.kind = "create" /\ prs[i.pr] # "none"
  <2>1. m = [saved EXCEPT !.pr = i.pr, !.proposed = i.revisions, !.intent = NoIntent]
    BY <1>3 DEF Settled
  <2>2. m.pr = i.pr /\ m.proposed = i.revisions /\ m.intent = NoIntent /\ m.head = saved.head
    BY <1>1, <2>1 DEF States
  <2>3. QED BY <1>3, <2>2
<1>4. CASE i.kind = "push" /\ job.head = i.commit
  <2>1. m = [saved EXCEPT !.head = i.commit, !.proposed = i.revisions, !.intent = NoIntent]
    BY <1>4 DEF Settled
  <2>2. m.head = i.commit /\ m.proposed = i.revisions /\ m.intent = NoIntent /\ m.pr = saved.pr
    BY <1>1, <2>1 DEF States
  <2>3. QED BY <1>4, <2>2
<1>5. CASE i.kind = "push" /\ job.head # i.commit BY <1>5 DEF Settled
<1>6. CASE i.kind \notin {"push", "create"}
  <2>1. m = [saved EXCEPT !.intent = NoIntent] BY <1>6 DEF Settled
  <2>2. m.head = saved.head /\ m.proposed = saved.proposed /\ m.intent = NoIntent
        /\ m.pr = saved.pr
    BY <1>1, <2>1 DEF States
  <2>3. QED BY <1>6, <2>2
<1>7. QED BY <1>1, <1>3, <1>4, <1>5, <1>6 DEF Unconfirmed

LEMMA SettleEndedBranch ==
    ASSUME IInv, BInv, SettleEnded
    PROVE  BInv'
<1>1. /\ saved \in States /\ job.mem = saved /\ At("list") /\ ~Unconfirmed
      /\ saved.intent.kind = "create"
      /\ prs[saved.intent.pr] \in {"merged", "closed"}
  BY Memory DEF SettleEnded, At, Outside, IInv, Types, Unconfirmed
<1>2. PICK m \in States : m = Settled(saved) BY <1>1, SettledType
<1>3. /\ m.pr = saved.intent.pr /\ m.intent = NoIntent /\ m.head = saved.head
  BY <1>1, <1>2, SettledCases
<1>4. job' = Free /\ Alike(saved', m) BY <1>1, <1>2, UnknownAlike DEF SettleEnded
<1>5. UNCHANGED <<head, prs, wire>> BY DEF SettleEnded, Local, remote
<1>6. job'.at = "free" BY <1>4, FreeType
<1>7. /\ saved'.intent.kind = "none" /\ saved'.pr = saved.intent.pr
      /\ saved'.head = saved.head
  BY <1>3, <1>4, NoIntentType DEF Alike
<1>8. ~Ours' BY <1>1, <1>5, <1>6, <1>7 DEF Ours
<1>9. OurBranch' BY <1>8 DEF OurBranch
<1>10. LateIsPast' BY <1>1, <1>5, <1>7 DEF BInv, LateIsPast
<1>11. PushIsNew' /\ CreateIsPushed' /\ PushIsSeen' /\ CycleKnows'
  BY <1>6, <1>7 DEF PushIsNew, CreateIsPushed, PushIsSeen, CycleKnows
<1>12. QED BY <1>9, <1>10, <1>11 DEF BInv

LEMMA SettleBranch ==
    ASSUME IInv, BInv, Settle
    PROVE  BInv'
<1>1. saved \in States /\ job.mem = saved /\ At("list") /\ ~Unconfirmed
  BY Memory DEF Settle, At, Outside, IInv, Types
<1>2. PICK m \in States : m = Settled(saved) BY <1>1, SettledType
<1>3. saved' = m BY <1>1, <1>2 DEF Settle
<1>4. job'.at = "reconcile" BY DEF Settle, IInv, Types, Jobs
<1>5. UNCHANGED <<head, prs, wire>> BY DEF Settle, Local, remote
<1>6. CycleKnows'
  <2>1. saved'.intent.kind \in {"none", "push"} BY <1>1, <1>2, <1>3, SettledCases, NoIntentType
  <2>2. QED BY <1>4, <2>1 DEF CycleKnows
<1>7. PushIsSeen' BY <1>4 DEF PushIsSeen
<1>8. CASE saved.intent.kind = "create"
  <2>1. /\ prs[saved.intent.pr] # "none"
        /\ m.pr = saved.intent.pr /\ m.proposed = saved.intent.revisions
        /\ m.intent = NoIntent /\ m.head = saved.head
    BY <1>1, <1>2, <1>8, SettledCases
  <2>2. saved'.intent.kind = "none" BY <1>3, <2>1, NoIntentType
  <2>3. Ours' => Ours BY <1>3, <1>4, <1>5, <1>8, <2>1, <2>2 DEF Ours
  <2>4. saved.head \in Commits /\ saved.intent.revisions \subseteq saved.head.has
    BY <1>8 DEF BInv, CreateIsPushed
  <2>5. OurBranch' BY <1>3, <1>5, <1>8, <2>1, <2>3, <2>4 DEF BInv, OurBranch
  <2>6. LateIsPast' BY <1>3, <1>5, <1>8, <2>1, <2>2 DEF BInv, LateIsPast
  <2>7. PushIsNew' /\ CreateIsPushed' BY <2>2 DEF PushIsNew, CreateIsPushed
  <2>8. QED BY <1>6, <1>7, <2>5, <2>6, <2>7 DEF BInv
<1>9. CASE /\ saved.intent.kind = "push" /\ job.head = saved.intent.commit
           /\ m.head = saved.intent.commit /\ m.proposed = saved.intent.revisions
           /\ m.intent = NoIntent /\ m.pr = saved.pr
  <2>1. saved'.intent.kind = "none" BY <1>3, <1>9, NoIntentType
  <2>2. Ours' => saved.pr # 0 /\ prs[saved.pr] = "open"
    BY <1>3, <1>4, <1>5, <1>9, <2>1 DEF Ours
  <2>3. Ours' => head' \in {saved.intent.commit, Foreign}
    BY <1>1, <1>5, <1>9, <2>2 DEF BInv, PushIsSeen, At
  <2>4. QED BY <1>3, <1>5, <1>6, <1>9, <2>3, PushNoted DEF BInv
<1>10. CASE m = saved
  <2>1. OurBranch' /\ LateIsPast' /\ PushIsNew' /\ CreateIsPushed'
    BY <1>3, <1>4, <1>5, <1>10, SameBranch DEF Alike
  <2>2. QED BY <1>6, <1>7, <2>1 DEF BInv
<1>11. CASE /\ saved.intent.kind \notin {"push", "create"}
            /\ m.head = saved.head /\ m.proposed = saved.proposed
            /\ m.intent = NoIntent /\ m.pr = saved.pr
  <2>1. OurBranch' /\ LateIsPast' /\ PushIsNew' /\ CreateIsPushed' /\ PushIsSeen'
    BY <1>3, <1>4, <1>5, <1>11, NoIntentType, IntentDropped
  <2>2. QED BY <1>6, <2>1 DEF BInv
<1>12. QED BY <1>1, <1>2, <1>8, <1>9, <1>10, <1>11, SettledCases

(* The receipts are compared with what was listed: a pull request that has ended
   is forgotten, and nothing is shown that is not pending. *)
LEMMA ReconcileBranch ==
    ASSUME IInv, BInv, Reconcile
    PROVE  BInv'
<1>1. /\ saved \in States /\ job \in Jobs /\ job.mem = saved /\ job.at = "reconcile"
  BY Memory DEF Reconcile, At, Outside, IInv, Types
<1>2. saved.intent.kind \in {"none", "push"} BY <1>1 DEF BInv, CycleKnows
<1> DEFINE m == IF Ended THEN [Judged EXCEPT !.pr = 0, !.head = job.head, !.proposed = {}]
                         ELSE Judged
           shown == IF Open(job.rows) = {} THEN {}
                      ELSE (m.proposed \cap job.batch) \ (job.accepted \cup m.decided)
           n == [m EXCEPT !.shown = shown]
           step == IF m.intent.kind = "push" THEN "repush" ELSE "decide"
<1>3. /\ Judged \in States
      /\ Judged.intent = saved.intent /\ Alike(Judged, saved)
  BY <1>1, JudgedType, JudgedAlike
<1>4. /\ m \in States /\ m.intent = saved.intent
      /\ Ended => m.pr = 0 /\ m.head = job.head
      /\ ~Ended => Alike(m, saved)
  <2>1. job.head \in Heads BY <1>1, JobFields
  <2>2. CASE Ended BY <1>3, <2>1, <2>2 DEF States
  <2>3. CASE ~Ended BY <1>3, <2>3
  <2>4. QED BY <2>2, <2>3
<1>5. Saves(n, step) BY DEF Reconcile
<1>6. step \in {"repush", "decide"} /\ (step = "repush" <=> saved.intent.kind = "push")
  <2> HIDE DEF m
  <2> QED BY <1>4
<1>7. /\ saved'.pr = m.pr /\ saved'.head = m.head /\ saved'.intent = saved.intent
      /\ saved'.proposed = m.proposed /\ saved'.shown = shown
      /\ saved'.decided = m.decided
  <2> HIDE DEF m, shown
  <2>1. saved' = n BY <1>5 DEF Saves
  <2>2. QED BY <1>4, <2>1 DEF States
<1>8. /\ job'.at = step /\ job'.mem = saved'
      /\ job'.batch = job.batch /\ job'.accepted = job.accepted
  <2> HIDE DEF n, step
  <2>1. saved' = n /\ job' = [job EXCEPT !.mem = n, !.at = step] BY <1>5 DEF Saves
  <2>2. QED BY <1>1, <2>1 DEF Jobs
<1>9. shown \subseteq job.batch \ (job.accepted \cup m.decided) OBVIOUS
<1> HIDE DEF m, shown, n, step
<1>10. UNCHANGED <<head, prs, wire>> BY DEF Reconcile, Local, remote
<1>11. Ours' => ~Ended /\ Ours
  <2>1. Ours' => saved'.pr # 0 /\ prs[saved'.pr] = "open"
    BY <1>2, <1>6, <1>7, <1>8, <1>10 DEF Ours
  <2>2. QED BY <1>4, <1>7, <2>1 DEF Ours, Alike
<1>12. OurBranch' BY <1>4, <1>7, <1>10, <1>11 DEF BInv, OurBranch, Alike
<1>13. saved'.head \in {saved.head, Nil}
  <2>1. Ended => job.head \in {saved.head, Nil} BY <1>1 DEF Reconcile, Moved
  <2>2. QED BY <1>4, <1>7, <2>1 DEF Alike
<1>14. LateIsPast' BY <1>7, <1>10, <1>13, OwnCommit DEF BInv, LateIsPast
<1>15. PushIsNew' /\ CreateIsPushed' /\ PushIsSeen'
  BY <1>2, <1>6, <1>7, <1>8 DEF BInv, PushIsNew, CreateIsPushed, PushIsSeen
<1>16. CycleKnows'
  <2>1. saved'.shown \subseteq Pending' BY <1>7, <1>8, <1>9 DEF Pending
  <2>2. QED BY <1>2, <1>6, <1>7, <1>8, <2>1 DEF CycleKnows
<1>17. QED BY <1>12, <1>14, <1>15, <1>16 DEF BInv

(* What is saved is in memory; what was seen stays. *)
LEMMA SavesKeeps ==
    ASSUME job \in Jobs, NEW m, NEW step, Saves(m, step)
    PROVE  /\ saved' = m /\ job'.at = step
           /\ m.decided = job.mem.decided => Pending' = Pending
           /\ Active' <=> Active
<1>1. saved' = m /\ job' = [job EXCEPT !.mem = m, !.at = step] BY DEF Saves
<1>2. /\ job'.at = step /\ job'.mem = m /\ job'.rows = job.rows
      /\ job'.batch = job.batch /\ job'.accepted = job.accepted
  BY <1>1 DEF Jobs
<1>3. m.decided = job.mem.decided => Pending' = Pending BY <1>2 DEF Pending
<1>4. Active' <=> Active BY <1>2 DEF Active
<1>5. QED BY <1>1, <1>2, <1>3, <1>4

(* A completed cycle has shown no more than it proposed. *)
LEMMA CompletesBranch ==
    ASSUME IInv, BInv, NEW m \in States, Completes(m), Local, Alike(m, saved),
           saved.intent.kind = "none", m.shown \subseteq saved.proposed
    PROVE  BInv'
<1>1. Alike(saved', saved) /\ saved'.shown = m.shown
  BY DEF Completes, Alike, States
<1>2. job'.at = "close" BY FreeType DEF Completes, Jobs
<1>3. UNCHANGED <<head, prs, wire>> BY DEF Local, remote
<1>4. OurBranch' /\ LateIsPast' /\ PushIsNew' /\ CreateIsPushed'
  BY <1>1, <1>2, <1>3, SameBranch
<1>5. PushIsSeen' /\ CycleKnows' BY <1>1, <1>2 DEF PushIsSeen, CycleKnows, Alike
<1>6. QED BY <1>4, <1>5 DEF BInv

LEMMA CompletedBranch ==
    ASSUME IInv, BInv, IdleCycle \/ Finish
    PROVE  BInv'
<1>1. job \in Jobs /\ job.mem = saved /\ saved \in States
  BY Memory DEF IdleCycle, Finish, At, Outside, IInv, Types
<1>2. job.at \in {"decide", "finish"} BY DEF IdleCycle, Finish, At
<1>3. saved.intent.kind = "none" /\ saved.shown \subseteq Pending
  BY <1>2 DEF BInv, CycleKnows
<1>4. CASE IdleCycle
  <2>1. saved.shown \subseteq saved.proposed BY <1>3, <1>4 DEF IdleCycle
  <2>2. Completes(saved) /\ Local BY <1>1, <1>4 DEF IdleCycle
  <2>3. QED BY <1>1, <1>3, <2>1, <2>2, CompletesBranch DEF Alike
<1>5. CASE Finish
  <2> DEFINE m == [job.mem EXCEPT !.shown = @ \cup Pending]
  <2>1. saved.proposed = Pending BY <1>5 DEF Finish, At, BInv, CycleKnows
  <2>2. Pending \subseteq Revisions BY <1>1, JobFields DEF Pending
  <2>3. m \in States /\ Alike(m, saved) /\ m.shown = saved.shown \cup Pending
    BY <1>1, <2>2, StateFields DEF States, Alike
  <2>4. Completes(m) /\ Local BY <1>5 DEF Finish
  <2> HIDE DEF m
  <2>5. QED BY <1>3, <2>1, <2>3, <2>4, CompletesBranch
<1>6. QED BY <1>4, <1>5

(* A new commit is none that anybody remembers: no late push was prepared over
   it. *)
LEMMA PrepareBranch ==
    ASSUME IInv, BInv, Prepare
    PROVE  BInv'
<1>1. job \in Jobs /\ job.mem = saved /\ saved \in States /\ job.at = "decide"
  BY Memory DEF Prepare, At, Outside, IInv, Types
<1>2. Pending \subseteq Revisions /\ job.head \in Heads BY <1>1, JobFields DEF Pending
<1> DEFINE new == [id |-> CHOOSE id \in FreshIds : TRUE, has |-> Pending]
           i == [NoIntent EXCEPT !.kind = "push", !.commit = new, !.expected = job.head,
                                 !.revisions = Pending]
           m == [job.mem EXCEPT !.intent = i]
<1>3. new \in Commits /\ new.id \in FreshIds /\ new.has = Pending
  BY <1>2 DEF Prepare, Commits, FreshIds
<1>4. Saves(m, "push") /\ Local BY DEF Prepare
<1> HIDE DEF new
<1>5. new \notin Remembered BY <1>3 DEF FreshIds
<1>6. /\ i \in Intents /\ i.kind = "push" /\ i.commit = new /\ i.expected = job.head
      /\ i.revisions = Pending
  BY <1>2, <1>3, NoIntentType DEF Intents
<1> HIDE DEF i
<1>7. /\ m.intent = i /\ m.head = saved.head /\ m.pr = saved.pr
      /\ m.proposed = saved.proposed /\ m.shown = saved.shown /\ m.decided = saved.decided
  BY <1>1, <1>6 DEF States
<1> HIDE DEF m
<1>8. saved' = m /\ job'.at = "push" /\ Pending' = Pending BY <1>1, <1>4, <1>7, SavesKeeps
<1>9. UNCHANGED <<head, prs, wire>> BY <1>4 DEF Local, remote
<1>10. saved.intent.kind = "none" /\ saved.shown \subseteq Pending
  BY <1>1 DEF BInv, CycleKnows
<1>11. OurBranch'
  <2>1. Ours' => Ours BY <1>6, <1>7, <1>8, <1>9 DEF Ours
  <2>2. QED BY <1>7, <1>8, <1>9, <1>10, <2>1 DEF BInv, OurBranch
<1>12. LateIsPast'
  <2>1. \A j \in wire : j.expected \in Remembered BY DEF Remembered
  <2>2. \A j \in wire : j.expected # new BY <1>5, <2>1
  <2>3. QED BY <1>6, <1>7, <1>8, <1>9, <1>10, <2>2 DEF BInv, LateIsPast
<1>13. PushIsNew'
  <2>1. job.head \in Remembered BY DEF Remembered
  <2>2. QED BY <1>3, <1>5, <1>6, <1>7, <1>8, <2>1 DEF PushIsNew
<1>14. CreateIsPushed' /\ PushIsSeen' BY <1>6, <1>7, <1>8 DEF CreateIsPushed, PushIsSeen
<1>15. CycleKnows' BY <1>6, <1>7, <1>8, <1>10 DEF CycleKnows
<1>16. QED BY <1>11, <1>12, <1>13, <1>14, <1>15 DEF BInv

LEMMA UnchangedBranch ==
    ASSUME IInv, BInv, Unchanged
    PROVE  BInv'
<1>1. job.at = "decide" /\ job \in Jobs /\ job.mem = saved
  BY Memory DEF Unchanged, At, Outside, IInv, Types
<1>2. saved' = saved /\ UNCHANGED <<head, prs, wire>> BY DEF Unchanged, Local, remote
<1>3. job' = [job EXCEPT !.at = "propose"] BY DEF Unchanged, Goes
<1>4. /\ job'.at = "propose" /\ job'.mem = job.mem /\ job'.rows = job.rows
      /\ job'.batch = job.batch /\ job'.accepted = job.accepted
  BY <1>1, <1>3 DEF Jobs
<1>5. Pending' = Pending BY <1>4 DEF Pending
<1>6. Active' BY <1>4 DEF Active, Unchanged, Changed
<1>7. saved.proposed = Pending BY <1>1 DEF Unchanged, Changed
<1>8. OurBranch' /\ LateIsPast' /\ PushIsNew' /\ CreateIsPushed'
  BY <1>2, <1>6, SameBranch DEF Alike
<1>9. PushIsSeen' BY <1>4 DEF PushIsSeen
<1>10. CycleKnows' BY <1>1, <1>2, <1>4, <1>5, <1>7 DEF BInv, CycleKnows
<1>11. QED BY <1>8, <1>9, <1>10 DEF BInv

-----------------------------------------------------------------------------

LEMMA PushedBranch ==
    ASSUME IInv, BInv, Pushed
    PROVE  BInv'
<1> DEFINE i == job.mem.intent
           m == [job.mem EXCEPT !.head = i.commit, !.proposed = i.revisions,
                                !.intent = NoIntent]
           step == IF At("repush") THEN "decide" ELSE "propose"
<1>1. /\ job.mem = saved /\ saved \in States /\ job \in Jobs
      /\ job.at \in {"push", "repush"} /\ saved.intent.kind = "push"
  BY Memory DEF Pushed, Outside, IInv, Types, Inv, IntentSaved
<1>2. head' = saved.intent.commit /\ Saves(m, step) /\ UNCHANGED <<prs, wire>>
  BY <1>1 DEF Pushed
<1>3. /\ m.head = saved.intent.commit /\ m.proposed = saved.intent.revisions
      /\ m.intent = NoIntent /\ m.decided = saved.decided /\ m.shown = saved.shown
  BY <1>1 DEF States
<1>4. /\ step \in {"decide", "propose"}
      /\ step = "propose" => job.at = "push"
  BY <1>1 DEF At
<1> HIDE DEF m, step
<1>5. saved' = m /\ job'.at = step /\ Pending' = Pending BY <1>1, <1>2, <1>3, SavesKeeps
<1>6. OurBranch' /\ LateIsPast' /\ PushIsNew' /\ CreateIsPushed' /\ PushIsSeen'
  BY <1>1, <1>2, <1>3, <1>5, PushNoted
<1>7. CycleKnows'
  <2>1. saved'.intent.kind = "none" BY <1>3, <1>5, NoIntentType
  <2>2. saved.shown \subseteq Pending BY <1>1 DEF BInv, CycleKnows
  <2>3. step = "propose" => saved.intent.revisions = Pending
    BY <1>4 DEF BInv, CycleKnows
  <2>4. QED BY <1>3, <1>4, <1>5, <2>1, <2>2, <2>3 DEF CycleKnows
<1>8. QED BY <1>6, <1>7 DEF BInv

LEMMA UpdateBranch ==
    ASSUME IInv, BInv, ProposeUpdate \/ Updated
    PROVE  BInv'
<1>1. job \in Jobs /\ job.mem = saved /\ saved \in States /\ job.at \in {"propose", "update"}
  BY Memory DEF ProposeUpdate, Updated, At, Outside, IInv, Types
<1>2. saved.proposed = Pending /\ saved.shown \subseteq Pending
  BY <1>1 DEF BInv, CycleKnows
<1>3. UNCHANGED <<head, prs, wire>> BY DEF ProposeUpdate, Updated, Local, remote
<1>4. saved.intent.kind \in {"none", "update"}
  BY <1>1 DEF BInv, CycleKnows, IInv, Inv, IntentSaved
<1>5. ASSUME NEW i, NEW step \in {"update", "finish"}, i.kind \in {"none", "update"},
             step = "finish" => i.kind = "none",
             Saves([job.mem EXCEPT !.intent = i], step)
      PROVE  BInv'
  <2> DEFINE m == [job.mem EXCEPT !.intent = i]
  <2>1. /\ m.intent = i /\ m.head = saved.head /\ m.pr = saved.pr
        /\ m.proposed = saved.proposed /\ m.shown = saved.shown /\ m.decided = saved.decided
    BY <1>1 DEF States
  <2>2. Saves(m, step) BY <1>5
  <2> HIDE DEF m
  <2>3. saved' = m /\ job'.at = step /\ Pending' = Pending BY <1>1, <2>1, <2>2, SavesKeeps
  <2>4. OurBranch' /\ LateIsPast' /\ PushIsNew' /\ CreateIsPushed' /\ PushIsSeen'
    BY <1>3, <1>4, <1>5, <2>1, <2>3, IntentDropped
  <2>5. CycleKnows' BY <1>2, <1>5, <2>1, <2>3 DEF CycleKnows
  <2>6. QED BY <2>4, <2>5 DEF BInv
<1>6. CASE ProposeUpdate
  <2> DEFINE i == [NoIntent EXCEPT !.kind = "update", !.pr = job.mem.pr]
  <2>1. i.kind = "update" BY NoIntentType DEF Intents
  <2>2. Saves([job.mem EXCEPT !.intent = i], "update") BY <1>6 DEF ProposeUpdate
  <2> HIDE DEF i
  <2>3. QED BY <1>5, <2>1, <2>2
<1>7. CASE Updated
  <2>1. CASE Unknown(job.mem) BY <1>7, <2>1, StoppedBranch DEF Updated
  <2>2. CASE Saves([job.mem EXCEPT !.intent = NoIntent], "finish")
    BY <1>5, <2>2, NoIntentType
  <2>3. QED BY <1>7, <2>1, <2>2 DEF Updated
<1>8. QED BY <1>6, <1>7

(* What is to be proposed is in the branch already. *)
LEMMA ProposeNewBranch ==
    ASSUME IInv, BInv, ProposeNew
    PROVE  BInv'
<1> DEFINE c == job.mem.cycle + 1
           i == [NoIntent EXCEPT !.kind = "create", !.pr = c, !.revisions = Pending]
           m == [job.mem EXCEPT !.cycle = c, !.intent = i]
<1>1. /\ job \in Jobs /\ job.mem = saved /\ saved \in States
      /\ job.at = "propose" /\ ~Active
  BY Memory DEF ProposeNew, At, Outside, IInv, Types
<1>2. i.kind = "create" /\ i.pr = c /\ i.revisions = Pending BY DEF NoIntent
<1>3. Saves(m, "create") /\ Local BY DEF ProposeNew
<1> HIDE DEF i, c
<1>4. /\ m.intent = i /\ m.head = saved.head /\ m.pr = saved.pr
      /\ m.proposed = saved.proposed /\ m.shown = saved.shown /\ m.decided = saved.decided
  BY <1>1 DEF States
<1> HIDE DEF m
<1>5. saved' = m /\ job'.at = "create" /\ Pending' = Pending BY <1>1, <1>3, <1>4, SavesKeeps
<1>6. UNCHANGED <<head, prs, wire>> BY <1>3 DEF Local, remote
<1>7. /\ saved.intent.kind = "none" /\ saved.shown \subseteq Pending
      /\ saved.proposed = Pending
  BY <1>1 DEF BInv, CycleKnows
<1>8. Ours BY <1>1 DEF Ours
<1>9. /\ saved.head \in Commits /\ saved.proposed \subseteq saved.head.has
      /\ head \in {saved.head, Foreign}
  BY <1>7, <1>8 DEF BInv, OurBranch
<1>10. \A d \in Cycles : prs[d] # "open"
  BY <1>1 DEF IInv, Inv, RowsCover, Active, Open
<1>11. OurBranch' BY <1>4, <1>5, <1>6, <1>9 DEF OurBranch
<1>12. LateIsPast' BY <1>2, <1>4, <1>5, <1>6, <1>7 DEF BInv, LateIsPast
<1>13. PushIsNew' /\ PushIsSeen' BY <1>2, <1>4, <1>5 DEF PushIsNew, PushIsSeen
<1>14. CreateIsPushed' BY <1>2, <1>4, <1>5, <1>6, <1>7, <1>9, <1>10 DEF CreateIsPushed
<1>15. CycleKnows' BY <1>4, <1>5, <1>7 DEF CycleKnows
<1>16. QED BY <1>11, <1>12, <1>13, <1>14, <1>15 DEF BInv

LEMMA CreatedBranch ==
    ASSUME IInv, BInv, Created
    PROVE  BInv'
<1> DEFINE c == job.mem.intent.pr
           m == [job.mem EXCEPT !.pr = c, !.intent = NoIntent]
<1>1. /\ job \in Jobs /\ job.mem = saved /\ saved \in States /\ job.at = "create"
      /\ saved.intent.kind = "create" /\ prs[saved.intent.pr] = "none"
  BY Memory DEF Created, At, Outside, IInv, Types, Inv, IntentSaved
<1>2. Saves(m, "finish") /\ UNCHANGED <<head, wire>> BY DEF Created
<1>3. /\ m.intent = NoIntent /\ m.head = saved.head
      /\ m.proposed = saved.proposed /\ m.shown = saved.shown /\ m.decided = saved.decided
  BY <1>1 DEF States
<1> HIDE DEF m
<1>4. saved' = m /\ job'.at = "finish" /\ Pending' = Pending BY <1>1, <1>2, <1>3, SavesKeeps
<1>5. saved'.intent.kind = "none" BY <1>3, <1>4, NoIntentType
<1>6. Ours BY <1>1 DEF Ours
<1>7. OurBranch' BY <1>1, <1>2, <1>3, <1>4, <1>6 DEF BInv, OurBranch
<1>8. LateIsPast' BY <1>1, <1>2, <1>3, <1>4, <1>5 DEF BInv, LateIsPast
<1>9. PushIsNew' /\ CreateIsPushed' /\ PushIsSeen'
  BY <1>5 DEF PushIsNew, CreateIsPushed, PushIsSeen
<1>10. CycleKnows'
  <2>1. saved.proposed = Pending /\ saved.shown \subseteq Pending
    BY <1>1 DEF BInv, CycleKnows
  <2>2. QED BY <1>3, <1>4, <1>5, <2>1 DEF CycleKnows
<1>11. QED BY <1>7, <1>8, <1>9, <1>10 DEF BInv

-----------------------------------------------------------------------------
(* A push that is late was prepared over a head that is not there any more, or
   is the one on record. *)
LEMMA PushArrives ==
    ASSUME IInv, BInv, NEW i \in wire, i.kind = "push", Accepts(i), head' = i.commit
    PROVE  /\ Ours => \/ head' = head
                      \/ saved.intent.kind = "push" /\ head' = saved.intent.commit
           /\ head \in {saved.intent.commit, Foreign} /\ saved.intent.kind = "push" =>
                  head' = head \/ head' = saved.intent.commit
<1>1. i.expected # Foreign /\ i.commit # Foreign
  <2>1. i \in Intents BY DEF IInv, Types, Around
  <2>2. QED BY <2>1, OwnCommit, ConstantsAssumption DEF IInv, Inv, OwnHeads, Intents
<1>2. CASE i = saved.intent BY <1>2
<1>3. CASE i # saved.intent
  <2>1. /\ saved.head \in Commits => i.expected # saved.head
        /\ saved.intent.kind = "push" => i.expected # saved.intent.commit
    BY <1>3 DEF BInv, LateIsPast
  <2>2. head' = head \/ head = i.expected BY DEF Accepts
  <2>3. Ours => \/ head' = head
                \/ saved.intent.kind = "push" /\ head' = saved.intent.commit
    BY <1>1, <2>1, <2>2 DEF BInv, OurBranch
  <2>4. QED BY <1>1, <2>1, <2>2, <2>3
<1>4. QED BY <1>2, <1>3

LEMMA ArriveBranch ==
    ASSUME IInv, BInv, NEW i \in wire, Arrive(i)
    PROVE  BInv'
<1>1. saved' = saved /\ job' = job /\ wire' \subseteq wire BY DEF Arrive
<1>2. (Active' <=> Active) /\ Pending' = Pending BY <1>1 DEF Active, Pending
<1>3. LateIsPast' /\ PushIsNew' /\ CycleKnows'
  BY <1>1, <1>2 DEF BInv, LateIsPast, PushIsNew, CycleKnows
<1>4. CASE UNCHANGED <<head, prs>>
  <2>1. OurBranch' /\ CreateIsPushed' BY <1>1, <1>2, <1>4, SameBranch DEF Alike
  <2>2. PushIsSeen' BY <1>1, <1>4 DEF BInv, PushIsSeen
  <2>3. QED BY <1>3, <2>1, <2>2 DEF BInv
<1>5. CASE i.kind = "push" /\ Accepts(i) /\ head' = i.commit /\ UNCHANGED prs
  <2>1. Ours' => Ours BY <1>1, <1>2, <1>5 DEF Ours
  <2>2. Ours => \/ head' = head
                \/ saved.intent.kind = "push" /\ head' = saved.intent.commit
    BY <1>5, PushArrives
  <2>3. OurBranch' BY <1>1, <2>1, <2>2 DEF BInv, OurBranch
  <2>4. CreateIsPushed' BY <1>1, <1>5 DEF BInv, CreateIsPushed
  <2>5. PushIsSeen' BY <1>1, <1>5, PushArrives DEF BInv, PushIsSeen
  <2>6. QED BY <1>3, <2>3, <2>4, <2>5 DEF BInv
<1>6. CASE i.kind = "create" /\ prs' = [prs EXCEPT ![i.pr] = "open"] /\ UNCHANGED head
  <2>1. /\ i = saved.intent /\ prs[i.pr] = "none"
        /\ \A c \in Cycles : prs[c] # "open"
        /\ job.at \in Outside \cup {"remote", "list"}
    BY <1>6 DEF IInv, Inv, LateCreation
  <2>2. i.pr \in Cycles BY <1>6, <2>1 DEF IInv, Inv, IntentSaved
  <2>3. prs'[saved.intent.pr] = "open"
    BY <1>6, <2>1, <2>2 DEF IInv, Types, Around
  <2>4. Ours BY <1>6, <2>1 DEF Ours
  <2>5. OurBranch' BY <1>1, <1>6, <2>4 DEF BInv, OurBranch
  <2>6. CreateIsPushed' BY <1>1, <2>3 DEF BInv, CreateIsPushed
  <2>7. PushIsSeen' BY <1>1, <1>6, <2>1 DEF PushIsSeen
  <2>8. QED BY <1>3, <2>5, <2>6, <2>7 DEF BInv
<1>7. QED BY <1>4, <1>5, <1>6 DEF Arrive

(* When the pull request ends, the branch is not the publisher's any more. *)
LEMMA EndBranch ==
    ASSUME IInv, BInv, NEW c \in Cycles, Merge(c) \/ CloseRequest(c)
    PROVE  BInv'
<1>1. /\ UNCHANGED <<saved, job, wire>> /\ prs[c] = "open"
  BY DEF Merge, CloseRequest
<1>2. /\ prs'[c] \in {"merged", "closed"}
      /\ \A d \in Cycles \ {c} : prs'[d] = prs[d] /\ prs[d] # "open"
  BY <1>1 DEF Merge, CloseRequest, IInv, Types, Around, Inv, OneOpen
<1>3. \A d \in Cycles : prs'[d] # "open" BY <1>2
<1>4. (Active' <=> Active) /\ Pending' = Pending BY <1>1 DEF Active, Pending
<1>5. saved.pr \in {0} \cup Cycles BY StateFields DEF IInv, Types
<1>6. saved.intent.kind = "create" => saved.intent.pr \in Cycles /\ prs[saved.intent.pr] # "none"
  BY <1>1 DEF IInv, Inv, IntentSaved, BInv, CreateIsPushed
<1>7. saved.intent.kind = "create" => prs'[saved.intent.pr] \notin {"none", "open"}
  BY <1>2, <1>3, <1>6
<1>8. job.at = "propose" => Active
  BY <1>1 DEF IInv, Inv, RowsCover, Active, Open
<1>9. ~Ours' BY <1>1, <1>3, <1>4, <1>5, <1>7, <1>8 DEF Ours
<1>10. OurBranch' BY <1>9 DEF OurBranch
<1>11. CreateIsPushed' BY <1>1, <1>7 DEF BInv, CreateIsPushed
<1>12. PushIsSeen' BY <1>1, <1>3, <1>5 DEF PushIsSeen
<1>13. LateIsPast' /\ PushIsNew' /\ CycleKnows'
  BY <1>1, <1>4 DEF BInv, LateIsPast, PushIsNew, CycleKnows
<1>14. QED BY <1>10, <1>11, <1>12, <1>13 DEF BInv

LEMMA IntrudeBranch ==
    ASSUME IInv, BInv, Intrude
    PROVE  BInv'
<1>1. head' = Foreign /\ UNCHANGED <<saved, job, prs, wire>> BY DEF Intrude
<1>2. (Active' <=> Active) /\ Pending' = Pending BY <1>1 DEF Active, Pending
<1>3. Ours' => Ours BY <1>1, <1>2 DEF Ours
<1>4. OurBranch' /\ PushIsSeen' BY <1>1, <1>3 DEF BInv, OurBranch, PushIsSeen
<1>5. LateIsPast' /\ PushIsNew' /\ CreateIsPushed' /\ CycleKnows'
  BY <1>1, <1>2 DEF BInv, LateIsPast, PushIsNew, CreateIsPushed, CycleKnows
<1>6. QED BY <1>4, <1>5 DEF BInv

LEMMA StutterBranch ==
    ASSUME BInv, UNCHANGED vars
    PROVE  BInv'
<1>1. UNCHANGED <<saved, job, head, prs, wire>> BY DEF vars, remote
<1>2. (Active' <=> Active) /\ Pending' = Pending BY <1>1 DEF Active, Pending
<1>3. QED
  BY <1>1, <1>2 DEF BInv, Ours, OurBranch, LateIsPast, PushIsNew, CreateIsPushed,
     PushIsSeen, CycleKnows

LEMMA BranchStep ==
    ASSUME IInv, BInv, [Next]_vars
    PROVE  BInv'
<1>1. CASE Step
  <2>1. CASE Begin BY <2>1, BeginBranch
  <2>2. CASE Observe BY <2>2, ObserveBranch
  <2>3. CASE Uncertain \/ SettleStops \/ ReconcileStops \/ PushRefused
    BY <2>3, StoppedBranch
  <2>4. CASE SettleEnded BY <2>4, SettleEndedBranch
  <2>5. CASE Settle BY <2>5, SettleBranch
  <2>6. CASE Reconcile BY <2>6, ReconcileBranch
  <2>7. CASE IdleCycle \/ Finish BY <2>7, CompletedBranch
  <2>8. CASE Prepare BY <2>8, PrepareBranch
  <2>9. CASE Unchanged BY <2>9, UnchangedBranch
  <2>10. CASE Pushed BY <2>10, PushedBranch
  <2>11. CASE ProposeUpdate \/ Updated BY <2>11, UpdateBranch
  <2>12. CASE ProposeNew BY <2>12, ProposeNewBranch
  <2>13. CASE Created BY <2>13, CreatedBranch
  <2>14. CASE Close BY <2>14, OutsideBranch
  <2>15. QED
    BY <1>1, <2>1, <2>2, <2>3, <2>4, <2>5, <2>6, <2>7, <2>8, <2>9, <2>10, <2>11,
       <2>12, <2>13, <2>14 DEF Step
<1>2. CASE Acquire \/ GiveUp \/ Session BY <1>2, OutsideBranch
<1>3. CASE TimePasses BY <1>3, TimeBranch
<1>4. CASE Users
  <2>1. CASE (\E r \in Revisions : Capture(r)) \/ \E force \in BOOLEAN : Publish(force)
    BY <2>1, OutsideBranch
  <2>2. CASE \E r \in Judgeable : Withdraw(r) \/ Resume(r)
    BY <2>2, DecisionBranch, ConstantsAssumption
  <2>3. QED BY <1>4, <2>1, <2>2 DEF Users
<1>5. CASE Remote BY <1>5, ArriveBranch, EndBranch, IntrudeBranch DEF Remote
<1>6. CASE CallLost \/ ReadFails BY <1>6, StoppedBranch
<1>7. CASE Die BY <1>7, DieBranch
<1>8. CASE UNCHANGED vars BY <1>8, StutterBranch
<1>9. QED BY <1>1, <1>2, <1>3, <1>4, <1>5, <1>6, <1>7, <1>8 DEF Next

(* From the push of a commit to the end of its pull request the branch is what
   the receipts name, unless somebody else writes it, in every behaviour. *)
THEOREM BranchIsOurs == Spec => []BInv
<1>1. Init => BInv BY BranchInit
<1>2. IInv /\ BInv /\ [Next]_vars => BInv' BY BranchStep
<1>3. QED BY <1>1, <1>2, IInvHolds, PTL DEF Spec

(* What a completed cycle reports as proposed is in the commit that the open
   pull request shows, whatever was lost, late or written by others. *)
THEOREM ProposalsAreShown == Spec => []ProposedIsShown
<1>1. ASSUME IInv, BInv PROVE ProposedIsShown
  <2> SUFFICES ASSUME NEW c \in Cycles, job.at = "close", prs[c] = "open", saved.pr = c,
                      head \in Commits
               PROVE  saved.shown \subseteq head.has
    BY DEF ProposedIsShown
  <2>1. /\ saved.intent.kind = "none" /\ saved.shown \subseteq saved.proposed
    BY <1>1 DEF BInv, CycleKnows
  <2>2. Ours BY DEF Ours, Cycles
  <2>3. saved.proposed \subseteq saved.head.has /\ head \in {saved.head, Foreign}
    BY <1>1, <2>1, <2>2 DEF BInv, OurBranch
  <2>4. head = saved.head BY <2>3, OwnCommit
  <2>5. QED BY <2>1, <2>3, <2>4
<1>2. QED BY <1>1, IInvHolds, BranchIsOurs, PTL
=============================================================================
