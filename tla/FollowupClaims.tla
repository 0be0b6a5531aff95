--------------------------- MODULE FollowupClaims ---------------------------
(***************************************************************************)
(* Deferred work and its daily review: Store of                            *)
(* native/src/followup_store.rs with native/src/followup_daily.rs.         *)
(*                                                                         *)
(* A ledger holds followups.  A followup is ready when its inputs differ   *)
(* from those it was last checked against.  A session claims it for a      *)
(* while, works, and reports an outcome.  Sessions die, claims expire,     *)
(* inputs change meanwhile, and the ledger is restored from the copy that  *)
(* each transaction leaves behind.                                         *)
(*                                                                         *)
(* Dates (next_at, triggers by date), the triggers themselves and the      *)
(* maintenance of sources are left out: they say when a followup is ready. *)
(***************************************************************************)
EXTENDS Naturals, FiniteSets

CONSTANTS
    Items,       \* ids of followups
    Manual,      \* those that somebody claims outside a review: a bound
    Versions,    \* what the inputs of a followup may be
    Tokens,      \* tokens that some ledger, or somebody, still knows: a bound
    Nil,
    Budget,      \* claims of one daily review
    MaxRestores  \* bound on restorations

ASSUME ConstantsAssumption ==
    /\ IsFiniteSet(Items)
    /\ Nil \notin Tokens \cup Versions
    /\ Budget \in Nat
    /\ MaxRestores \in Nat

VARIABLES
    ledger,     \* followups.yaml
    previous,   \* followups.previous.yaml; Nil once nobody will restore it
    inputs,     \* inputs[k]: what the record says now
    effects,    \* history: effects[k], runs of k that nobody has accounted for
    restores

vars == <<ledger, previous, inputs, effects, restores>>

NoClaim == [token |-> Nil, live |-> FALSE, base |-> Nil, review |-> Nil]

Claims ==
    [token : Tokens, live : BOOLEAN, base : Versions, review : Tokens \cup {Nil}]

(* closed: done or cancelled.  rank: place in the order in which followups were
   served, 0 for the one that was served longest ago. *)
Followups ==
    [state : {"waiting", "needs_user", "closed"},
     claim : Claims \cup {NoClaim}, base : Versions, rank : Nat]

NoReview == [token |-> Nil, live |-> FALSE, actions |-> 0]

Reviews == [token : Tokens, live : BOOLEAN, actions : 0 .. Budget]

(* reviewed: the day has its complete receipt. *)
Ledgers ==
    [items : [Items -> Followups], review : Reviews \cup {NoReview}, reviewed : BOOLEAN]

(* The shape of the state; a review never reserves more than its budget
   (claim_for_use). *)
TypeOK ==
    /\ ledger \in Ledgers
    /\ previous \in Ledgers \cup {Nil}
    /\ inputs \in [Items -> Versions]
    /\ effects \in [Items -> SUBSET Tokens]
    /\ restores \in 0 .. MaxRestores

(* add *)
Init ==
    /\ inputs \in [Items -> Versions]
    /\ \E rank \in [Items -> 0 .. Cardinality(Items) - 1] :
           /\ \A j, k \in Items : rank[j] = rank[k] => j = k
           /\ ledger = [items |-> [k \in Items |->
                            [state |-> "waiting", claim |-> NoClaim,
                             base |-> inputs[k], rank |-> rank[k]]],
                        review |-> NoReview, reviewed |-> FALSE]
    /\ previous = IF MaxRestores = 0 THEN Nil ELSE ledger
    /\ effects = [k \in Items |-> {}]
    /\ restores = 0

-----------------------------------------------------------------------------
(* transaction: what was there before is kept, while somebody may restore it
   (bound). *)
Keeps(l) == previous' = IF restores' < MaxRestores THEN l ELSE Nil

Writes(new) ==
    /\ ledger' = new
    /\ UNCHANGED <<inputs, restores>>
    /\ Keeps(ledger)

WritesItem(k, item) == Writes([ledger EXCEPT !.items[k] = item])

Item(k) == ledger.items[k]

(* row *)
Ready(k) ==
    /\ Item(k).claim = NoClaim
    /\ Item(k).state = "waiting"
    /\ inputs[k] # Item(k).base

(* Variant: any of those that are ready. *)
AnyReady(k) == Ready(k)

(* fairness_order: of those that are ready, the one served longest ago. *)
Oldest(k) ==
    /\ Ready(k)
    /\ \A j \in Items : Ready(j) => Item(k).rank <= Item(j).rank

Copies == {ledger, previous} \ {Nil}

(* The tokens of an item's claims and of reviews are compared among themselves
   only, so one is new when nobody uses it for the same purpose. *)
FreshClaims(k) ==
    Tokens \ (effects[k] \cup {l.items[k].claim.token : l \in Copies})

FreshReviews ==
    Tokens \ UNION {{l.review.token} \cup {l.items[k].claim.review : k \in Items} :
                       l \in Copies}

(* Which of them is made does not matter. *)
Made(fresh) == CHOOSE t \in fresh : TRUE

(* claim_for_use: k is handed to a session for a review, or for none. *)
Hands(k, new, review) ==
    LET t == Made(FreshClaims(k))
    IN /\ FreshClaims(k) # {}
       /\ Writes([new EXCEPT !.items[k].claim =
                     [token |-> t, live |-> TRUE, base |-> inputs[k], review |-> review]])
       /\ effects' = [effects EXCEPT ![k] = @ \cup {t}]

Claim(k) ==
    /\ k \in Manual
    /\ Ready(k)
    /\ Hands(k, ledger, Nil)

(* Variant: the budget of the review is not looked at. *)
ClaimUnlimited(k) ==
    /\ ledger.review.live
    /\ Oldest(k)
    /\ Hands(k, [ledger EXCEPT !.review.actions = @ + 1], ledger.review.token)

(* A session of the daily review claims. *)
ClaimNext(k) ==
    /\ ledger.review.live
    /\ ledger.review.actions < Budget
    /\ Oldest(k)
    /\ Hands(k, [ledger EXCEPT !.review.actions = @ + 1], ledger.review.token)

(* Variant: whatever was found counts. *)
NeverStale(k) == FALSE

(* The inputs are not those that the claim captured. *)
Stale(k) == inputs[k] # Item(k).claim.base

Outcomes == {"checked", "closed", "needs_user", "released"}

Effective(k, outcome) ==
    IF Stale(k) /\ outcome # "released" THEN "needs_user" ELSE outcome

(* last_admitted: some outcomes count as served. *)
Counts(effective) == effective \in {"checked", "closed", "released"}

(* k goes behind all others. *)
RankAfter(k, j) ==
    IF j = k THEN Cardinality(Items) - 1
    ELSE IF Item(j).rank > Item(k).rank THEN Item(j).rank - 1 ELSE Item(j).rank

Reported(k, effective) ==
    [Item(k) EXCEPT
        !.claim = NoClaim,
        !.state = IF effective \in {"checked", "released"} THEN "waiting" ELSE effective,
        !.base = IF effective = "checked" THEN Item(k).claim.base ELSE @]

(* Variant: any session that ever worked on k. *)
OwnsAnything(t, k) == Item(k).claim.live

(* owned_claim: the token is the claim's and the claim has not expired. *)
Owns(t, k) ==
    /\ Item(k).claim.token = t
    /\ Item(k).claim.live

(* finish, by any session that ever had a claim on k; a report that was made
   before is on record already. *)
Finish(t, k, outcome) ==
    /\ Owns(t, k)
    /\ LET effective == Effective(k, outcome)
       IN Writes([ledger EXCEPT !.items =
              [j \in Items |->
                  [(IF j = k THEN Reported(k, effective) ELSE Item(j)) EXCEPT
                      !.rank = IF Counts(effective) THEN RankAfter(k, j) ELSE @]]])
    /\ effects' = [effects EXCEPT ![k] = @ \ {t}]

(* Somebody accounts for what was done to k so far, and says how. *)
Accounts(k) == effects' = [effects EXCEPT ![k] = {}]

Recover(k) ==
    /\ Item(k).claim # NoClaim
    /\ ~Item(k).claim.live
    /\ WritesItem(k, [Item(k) EXCEPT !.claim = NoClaim, !.state = "waiting"])
    /\ Accounts(k)

(* The specification or the task was read again. *)
Refresh(k) ==
    /\ Item(k).claim = NoClaim
    /\ Item(k).state \in {"waiting", "needs_user"}
    /\ WritesItem(k, [Item(k) EXCEPT !.state = "waiting", !.base = inputs[k]])
    /\ Accounts(k)

Resume(k) ==
    /\ Item(k).claim = NoClaim
    /\ Item(k).state = "needs_user"
    /\ WritesItem(k, [Item(k) EXCEPT !.state = "waiting"])
    /\ Accounts(k)

Resolve(k) ==
    /\ Item(k).claim = NoClaim
    /\ Item(k).state \in {"waiting", "needs_user"}
    /\ WritesItem(k, [Item(k) EXCEPT !.state = "closed"])
    /\ Accounts(k)

-----------------------------------------------------------------------------
(* followup_daily.rs *)

(* start *)
StartReview ==
    /\ ledger.review = NoReview
    /\ ~ledger.reviewed
    /\ FreshReviews # {}
    /\ Writes([ledger EXCEPT !.review =
                  [token |-> Made(FreshReviews), live |-> TRUE, actions |-> 0]])
    /\ UNCHANGED effects

(* Variant: the review ends without a look at its items. *)
ReleasedAnyway == TRUE

ItemsReleased ==
    \A k \in Items :
        Item(k).claim # NoClaim => Item(k).claim.review # ledger.review.token

(* finish *)
FinishReview ==
    /\ ledger.review.live
    /\ ItemsReleased
    /\ Writes([ledger EXCEPT !.review = NoReview, !.reviewed = TRUE])
    /\ UNCHANGED effects

(* recover *)
RecoverReview ==
    /\ ledger.review # NoReview
    /\ ~ledger.review.live
    /\ ItemsReleased
    /\ Writes([ledger EXCEPT !.review = NoReview])
    /\ UNCHANGED effects

-----------------------------------------------------------------------------
(* Variant: work that is open stays open. *)
InterruptedClaims(item) ==
    IF item.claim = NoClaim THEN item ELSE [item EXCEPT !.claim.live = FALSE]

(* restore: claims are interrupted and open work is left to the user. *)
Interrupted(item) ==
    IF item.claim # NoClaim THEN [item EXCEPT !.claim.live = FALSE]
    ELSE [item EXCEPT !.state = IF @ = "closed" THEN @ ELSE "needs_user"]

Restore ==
    /\ restores < MaxRestores
    /\ restores' = restores + 1
    /\ ledger' = [previous EXCEPT
                     !.items = [k \in Items |-> Interrupted(previous.items[k])],
                     !.review = IF @ = NoReview THEN @ ELSE [@ EXCEPT !.live = FALSE]]
    /\ Keeps(previous)
    /\ UNCHANGED <<inputs, effects>>

(* A process dies between the two files of a transaction, whatever it was
   about to write. *)
Cut ==
    /\ UNCHANGED <<ledger, inputs, effects, restores>>
    /\ Keeps(ledger)

-----------------------------------------------------------------------------
(* Time passes: a claim that is renewed in time stays live as long as its
   session likes. *)
Expire(k) ==
    /\ Item(k).claim.live
    /\ ledger' = [ledger EXCEPT !.items[k].claim.live = FALSE]
    /\ UNCHANGED <<previous, inputs, effects, restores>>

ExpireReview ==
    /\ ledger.review.live
    /\ ledger' = [ledger EXCEPT !.review.live = FALSE]
    /\ UNCHANGED <<previous, inputs, effects, restores>>

Dawn(l) == IF l = Nil THEN Nil ELSE [l EXCEPT !.reviewed = FALSE]

NewDay ==
    /\ ledger' = Dawn(ledger)
    /\ previous' = Dawn(previous)
    /\ UNCHANGED <<inputs, effects, restores>>

Change(k) ==
    /\ \E v \in Versions : inputs' = [inputs EXCEPT ![k] = v]
    /\ UNCHANGED <<ledger, previous, effects, restores>>

-----------------------------------------------------------------------------
Next ==
    \/ \E k \in Items :
          \/ Claim(k) \/ ClaimNext(k)
          \/ \E t \in Tokens, outcome \in Outcomes : Finish(t, k, outcome)
          \/ Recover(k) \/ Refresh(k) \/ Resume(k) \/ Resolve(k)
          \/ Expire(k) \/ Change(k)
    \/ StartReview \/ FinishReview \/ RecoverReview
    \/ Restore \/ Cut \/ ExpireReview \/ NewDay

Spec == Init /\ [][Next]_vars

(* A host starts the review every day, its sessions claim what is ready and
   come to an end, somebody recovers what was interrupted, and of the runs of a
   followup some have an outcome that counts: one whose runs all die, or all
   end with the user, stays first in the order for ever. *)
FairSpec ==
    /\ Spec
    /\ WF_vars(StartReview \/ FinishReview \/ ExpireReview \/ RecoverReview \/ NewDay)
    /\ SF_vars(\E k \in Items : ClaimNext(k))
    /\ \A k \in Items :
           /\ SF_vars(\E t \in Tokens, outcome \in Outcomes :
                          Counts(Effective(k, outcome)) /\ Finish(t, k, outcome))
           /\ WF_vars(Expire(k) \/ Recover(k))

-----------------------------------------------------------------------------
(* A followup is handed out only when every earlier run of it is accounted
   for, by its own report or by somebody who says what became of it: expiry,
   death and a restored ledger never authorize a blind repetition (claim,
   recover, restore). *)
RunsAccountedFor ==
    \A k \in Items : \A s, t \in effects[k] : s = t

(* The claim of a review is there as long as claims of its items are: no
   review ends over work that its sessions still hold (daily finish, recover). *)
ReviewOutlivesItsItems ==
    \A k \in Items :
        Item(k).claim.review # Nil => ledger.review.token = Item(k).claim.review

(* A followup counts as checked against what its inputs are at that moment
   only: a run whose inputs changed goes to the user (finish). *)
CheckedIsCurrent ==
    [][restores' = restores =>
          \A k \in Items :
              ledger'.items[k].base # Item(k).base => ledger'.items[k].base = inputs[k]]_vars

(* No followup stays ready for ever while reviews go on, however few claims
   a review has (fairness_order). *)
EveryReadyServed == \A k \in Items : []<>~Ready(k)
=============================================================================
