--------------------------- MODULE FollowupProofs ---------------------------
(***************************************************************************)
(* What FollowupClaims promises about runs, reviews and checks, for every  *)
(* set of followups, inputs and tokens, every budget and any number of     *)
(* restorations.                                                           *)
(***************************************************************************)
EXTENDS FollowupClaims, FiniteSetTheorems, TLAPS

(* A followup that nobody holds and that is open has no run in the dark; a
   claim that has not expired stands for the only one. *)
RunsOf(k) ==
    /\ Item(k).claim = NoClaim /\ Item(k).state = "waiting" => effects[k] = {}
    /\ Item(k).claim.live => effects[k] \subseteq {Item(k).claim.token}
    /\ \A s, t \in effects[k] : s = t

(* Claims made for a review lie in ledgers that know the review. *)
ReviewKnown(l) ==
    \A k \in Items :
        l.items[k].claim.review # Nil => l.review.token = l.items[k].claim.review

(* The copy that may be restored is a ledger. *)
PreviousKnown == restores < MaxRestores => previous \in Ledgers /\ ReviewKnown(previous)

IInv ==
    /\ TypeOK
    /\ \A k \in Items : RunsOf(k)
    /\ ReviewKnown(ledger)
    /\ PreviousKnown

(* The bases move only when a run is finished whose inputs are still those it
   read, or when the task is read again. *)
BasesCurrent ==
    restores' = restores =>
        \A k \in Items :
            ledger'.items[k].base # Item(k).base => ledger'.items[k].base = inputs[k]

-----------------------------------------------------------------------------
(* Records of the ledger, and what their updates are. *)

LEMMA ClaimType ==
    /\ NoClaim.token = Nil /\ ~NoClaim.live /\ NoClaim.review = Nil
    /\ \A c \in Claims : c # NoClaim /\ c.token \in Tokens /\ c.base \in Versions
BY ConstantsAssumption DEF NoClaim, Claims

LEMMA ReviewType ==
    /\ NoReview.token = Nil /\ ~NoReview.live
    /\ \A r \in Reviews : r # NoReview /\ r.token \in Tokens /\ r.actions \in 0 .. Budget
BY ConstantsAssumption DEF NoReview, Reviews

(* What has expired is still what it was. *)
LEMMA ClaimExpired ==
    ASSUME NEW c \in Claims
    PROVE  LET expired == [c EXCEPT !.live = FALSE]
           IN expired \in Claims /\ ~expired.live /\ expired.review = c.review
BY DEF Claims

LEMMA ReviewExpired ==
    ASSUME NEW r \in Reviews
    PROVE  LET expired == [r EXCEPT !.live = FALSE]
           IN expired \in Reviews /\ expired.token = r.token
BY DEF Reviews

(* Writing one followup changes nothing else. *)
LEMMA ItemWritten ==
    ASSUME NEW l \in Ledgers, NEW k \in Items, NEW item \in Followups
    PROVE  LET new == [l EXCEPT !.items[k] = item]
           IN /\ new \in Ledgers
              /\ new.items[k] = item
              /\ \A j \in Items \ {k} : new.items[j] = l.items[j]
              /\ new.review = l.review
              /\ new.reviewed = l.reviewed
BY DEF Ledgers

(* Writing the review changes nothing else. *)
LEMMA ReviewWritten ==
    ASSUME NEW l \in Ledgers, NEW review \in Reviews \cup {NoReview}
    PROVE  LET new == [l EXCEPT !.review = review]
           IN /\ new \in Ledgers
              /\ new.items = l.items
              /\ new.review = review
              /\ new.reviewed = l.reviewed
BY DEF Ledgers

(* A token that is made is new. *)
LEMMA MadeIsNew ==
    ASSUME NEW fresh, fresh # {}
    PROVE  Made(fresh) \in fresh
BY DEF Made
-----------------------------------------------------------------------------
(* A step that writes one followup, into the ledger or into one whose review has
   another action. *)
LEMMA ItemStep ==
    ASSUME IInv,
           NEW k \in Items, NEW item \in Followups, NEW from \in Ledgers,
           from.items = ledger.items, from.review.token = ledger.review.token,
           ledger' = [from EXCEPT !.items[k] = item],
           item.claim.review \in {Nil, ledger.review.token},
           item.base \in {Item(k).base, inputs[k]},
           effects' \in [Items -> SUBSET Tokens],
           \A j \in Items \ {k} : effects'[j] = effects[j],
           RunsOf(k)',
           Keeps(ledger) \/ previous' = previous, inputs' = inputs, restores' = restores
    PROVE  IInv' /\ BasesCurrent
<1>1. /\ ledger' \in Ledgers
      /\ ledger'.items[k] = item
      /\ \A j \in Items \ {k} : ledger'.items[j] = ledger.items[j]
      /\ ledger'.review.token = ledger.review.token
  BY ItemWritten
<1>2. TypeOK'
  BY <1>1 DEF IInv, TypeOK, Keeps
<1>3. \A j \in Items : RunsOf(j)'
  BY <1>1 DEF IInv, RunsOf, Item
<1>4. ReviewKnown(ledger)'
  BY <1>1 DEF IInv, ReviewKnown
<1>5. PreviousKnown'
  BY DEF IInv, TypeOK, PreviousKnown, ReviewKnown, Keeps
<1>6. BasesCurrent
  BY <1>1 DEF BasesCurrent, Item
<1> QED
  BY <1>2, <1>3, <1>4, <1>5, <1>6 DEF IInv

(* A step that writes the review, and the receipt of the day. *)
LEMMA ReviewStep ==
    ASSUME IInv,
           ledger' \in Ledgers, ledger'.items = ledger.items,
           ReviewKnown(ledger)', effects' = effects,
           Keeps(ledger) \/ previous' = previous, inputs' = inputs, restores' = restores
    PROVE  IInv' /\ BasesCurrent
<1>1. TypeOK'
  BY DEF IInv, TypeOK, Keeps
<1>2. \A j \in Items : RunsOf(j)'
  BY DEF IInv, RunsOf, Item
<1>3. PreviousKnown'
  BY DEF IInv, TypeOK, PreviousKnown, ReviewKnown, Keeps
<1> QED
  BY <1>1, <1>2, <1>3 DEF IInv, BasesCurrent, Item

(* Handing a ready followup to a session. *)
LEMMA HandsStep ==
    ASSUME IInv, NEW k \in Items, Ready(k), NEW new \in Ledgers,
           new.items = ledger.items, new.review.token = ledger.review.token,
           NEW review \in {Nil, ledger.review.token} \cap (Tokens \cup {Nil}),
           Hands(k, new, review)
    PROVE  IInv' /\ BasesCurrent
<1> DEFINE t == Made(FreshClaims(k))
           claim == [token |-> t, live |-> TRUE, base |-> inputs[k], review |-> review]
           item == [new.items[k] EXCEPT !.claim = claim]
<1>1. t \in Tokens
  BY MadeIsNew DEF Hands, FreshClaims
<1>2. claim \in Claims
  BY <1>1 DEF Claims, IInv, TypeOK
<1>3. item \in Followups /\ item.claim = claim
      /\ item.state = Item(k).state /\ item.base = Item(k).base
  <2>1. new.items[k] \in Followups /\ new.items[k] = Item(k)
    BY DEF Ledgers, Item
  <2> HIDE DEF claim
  <2> QED
    BY <1>2, <2>1 DEF Followups
<1>4. ledger' = [new EXCEPT !.items[k] = item]
  BY DEF Hands, Writes
<1>5. effects' = [effects EXCEPT ![k] = @ \cup {t}]
  BY DEF Hands
<1>6. effects' \in [Items -> SUBSET Tokens] /\ effects'[k] = {t}
  BY <1>1, <1>5 DEF IInv, TypeOK, RunsOf, Ready
<1>7. ledger'.items[k] = item
  BY <1>3, <1>4, ItemWritten
<1>8. RunsOf(k)'
  BY <1>2, <1>3, <1>6, <1>7, ClaimType DEF RunsOf, Item
<1>9. Keeps(ledger) /\ inputs' = inputs /\ restores' = restores
  BY DEF Hands, Writes
<1>10. \A j \in Items \ {k} : effects'[j] = effects[j]
  BY <1>5 DEF IInv, TypeOK
<1>11. item.claim.review \in {Nil, ledger.review.token}
  BY <1>3
<1> HIDE DEF t, claim, item
<1> QED
  BY <1>3, <1>4, <1>6, <1>8, <1>9, <1>10, <1>11, ItemStep

(* Writing k with nothing left to account for, in a claim of nobody. *)
LEMMA FreedStep ==
    ASSUME IInv, NEW k \in Items, NEW item \in Followups,
           item.claim = NoClaim, item.base \in {Item(k).base, inputs[k]},
           WritesItem(k, item), Accounts(k)
    PROVE  IInv' /\ BasesCurrent
<1>1. ledger' = [ledger EXCEPT !.items[k] = item]
  BY DEF WritesItem, Writes
<1>2. ledger'.items[k] = item
  BY <1>1, ItemWritten DEF IInv, TypeOK
<1>3. /\ effects' \in [Items -> SUBSET Tokens]
      /\ effects'[k] = {}
      /\ \A j \in Items \ {k} : effects'[j] = effects[j]
  BY DEF Accounts, IInv, TypeOK
<1>4. RunsOf(k)'
  BY <1>2, <1>3 DEF RunsOf, Item
<1>5. Keeps(ledger) /\ inputs' = inputs /\ restores' = restores
  BY DEF WritesItem, Writes
<1>6. item.claim.review \in {Nil, ledger.review.token}
  BY ClaimType
<1> QED
  BY <1>1, <1>3, <1>4, <1>5, <1>6, ItemStep DEF IInv, TypeOK

(* Finish: what was claimed is free, and its run is accounted for. *)
LEMMA FinishStep ==
    ASSUME IInv, NEW t \in Tokens, NEW k \in Items, NEW outcome \in Outcomes,
           Finish(t, k, outcome)
    PROVE  IInv' /\ BasesCurrent
<1> DEFINE effective == Effective(k, outcome)
           before(j) == IF j = k THEN Reported(k, effective) ELSE Item(j)
           rank(j) == IF Counts(effective) THEN RankAfter(k, j) ELSE before(j).rank
           after(j) == [before(j) EXCEPT !.rank = rank(j)]
<1>1. \A j \in Items : Item(j) \in Followups
  BY DEF IInv, TypeOK, Ledgers, Item
<1>2. effective \in Outcomes
  BY DEF Effective, Outcomes
<1>3. Item(k).claim \in Claims /\ Item(k).claim.token = t
  BY <1>1, ClaimType DEF Finish, Owns, Followups
<1>4. \A j \in Items : before(j) \in Followups
  <2>1. Reported(k, effective) \in Followups
    BY <1>1, <1>2, <1>3, ClaimType DEF Reported, Followups, Outcomes
  <2> QED
    BY <1>1, <2>1
<1>5. \A j \in Items : rank(j) \in Nat
  <2>1. Cardinality(Items) \in Nat /\ Cardinality(Items) # 0
    BY FS_CardinalityType, FS_EmptySet, ConstantsAssumption
  <2>2. \A j \in Items : RankAfter(k, j) \in Nat
    BY <1>1, <2>1 DEF RankAfter, Followups
  <2>3. \A j \in Items : before(j).rank \in Nat
    BY <1>4 DEF Followups
  <2> QED
    BY <2>2, <2>3
<1>6. \A j \in Items :
          /\ after(j) \in Followups
          /\ after(j).claim = before(j).claim
          /\ after(j).state = before(j).state
          /\ after(j).base = before(j).base
  BY <1>4, <1>5 DEF Followups
<1>7. before(k) = Reported(k, effective)
  OBVIOUS
<1>8. Reported(k, effective).claim = NoClaim
  BY <1>1 DEF Reported, Followups
<1>9. /\ ledger' = [ledger EXCEPT !.items = [j \in Items |-> after(j)]]
      /\ Keeps(ledger) /\ inputs' = inputs /\ restores' = restores
      /\ effects' = [effects EXCEPT ![k] = @ \ {t}]
  BY DEF Finish, Writes
<1>10. /\ ledger' \in Ledgers
       /\ \A j \in Items : ledger'.items[j] = after(j)
       /\ ledger'.review = ledger.review
  <2> HIDE DEF after
  <2> QED
    BY <1>6, <1>9 DEF IInv, TypeOK, Ledgers
<1>11. TypeOK'
  BY <1>9, <1>10 DEF IInv, TypeOK, Keeps
<1>12. \A j \in Items : RunsOf(j)'
  <2>1. RunsOf(k)'
    <3>1. effects'[k] = {}
      BY <1>3, <1>9 DEF IInv, TypeOK, RunsOf, Finish, Owns
    <3> QED
      BY <1>6, <1>7, <1>8, <1>10, <3>1, ClaimType DEF RunsOf, Item
  <2>2. ASSUME NEW j \in Items \ {k} PROVE RunsOf(j)'
    <3>1. effects'[j] = effects[j]
      BY <1>9 DEF IInv, TypeOK
    <3>2. before(j) = Item(j)
      OBVIOUS
    <3> HIDE DEF before, after
    <3> QED
      BY <1>6, <1>10, <3>1, <3>2 DEF IInv, RunsOf, Item
  <2> QED
    BY <2>1, <2>2
<1>13. ReviewKnown(ledger)'
  <2>1. ASSUME NEW j \in Items
        PROVE  before(j).claim.review \in {Nil, Item(j).claim.review}
    BY <1>8, ClaimType
  <2> HIDE DEF before, after
  <2> QED
    BY <1>6, <1>10, <2>1 DEF IInv, ReviewKnown, Item
<1>14. PreviousKnown'
  BY <1>9 DEF IInv, TypeOK, PreviousKnown, ReviewKnown, Keeps
<1>15. Reported(k, effective).base \in {Item(k).base, inputs[k]}
  BY <1>1, <1>2 DEF Reported, Effective, Stale, Followups, Outcomes
<1>16. \A j \in Items \ {k} : before(j) = Item(j)
  OBVIOUS
<1> HIDE DEF before, after
<1>17. BasesCurrent
  BY <1>6, <1>7, <1>10, <1>15, <1>16 DEF BasesCurrent, Item
<1> QED
  BY <1>11, <1>12, <1>13, <1>14, <1>17 DEF IInv

(* Restore: nothing that is claimed is live, nothing that is open is free. *)
LEMMA RestoreStep ==
    ASSUME IInv, Restore
    PROVE  IInv' /\ BasesCurrent
<1>1. previous \in Ledgers /\ ReviewKnown(previous)
  BY DEF IInv, PreviousKnown, Restore
<1>2. ASSUME NEW k \in Items
      PROVE  /\ Interrupted(previous.items[k]) \in Followups
             /\ ~Interrupted(previous.items[k]).claim.live
             /\ Interrupted(previous.items[k]).claim.review = previous.items[k].claim.review
             /\ Interrupted(previous.items[k]).claim = NoClaim
                  => Interrupted(previous.items[k]).state # "waiting"
  <2> DEFINE item == previous.items[k]
  <2>1. item \in Followups
    BY <1>1 DEF Ledgers
  <2>2. CASE item.claim = NoClaim
    <3> DEFINE state == IF item.state = "closed" THEN "closed" ELSE "needs_user"
    <3>1. Interrupted(item) = [item EXCEPT !.state = state]
      BY <2>2 DEF Interrupted
    <3> QED
      BY <2>1, <2>2, <3>1, ClaimType DEF Followups
  <2>3. CASE item.claim # NoClaim
    <3> DEFINE claim == [item.claim EXCEPT !.live = FALSE]
    <3>1. item.claim \in Claims
      BY <2>1, <2>3 DEF Followups
    <3>2. claim \in Claims /\ ~claim.live /\ claim.review = item.claim.review
      BY <3>1, ClaimExpired
    <3>3. Interrupted(item) = [item EXCEPT !.claim = claim]
      BY <2>3 DEF Interrupted
    <3>4. claim # NoClaim
      BY <3>2, ClaimType
    <3> HIDE DEF item, claim
    <3>5. Interrupted(item) \in Followups /\ Interrupted(item).claim = claim
      BY <2>1, <3>2, <3>3 DEF Followups
    <3> QED
      BY <3>2, <3>4, <3>5 DEF item
  <2> QED
    BY <2>2, <2>3
<1> DEFINE items == [k \in Items |-> Interrupted(previous.items[k])]
           old == previous.review
           review == IF old = NoReview THEN old ELSE [old EXCEPT !.live = FALSE]
<1>3. review \in Reviews \cup {NoReview} /\ review.token = previous.review.token
  <2>1. previous.review \in Reviews \cup {NoReview}
    BY <1>1 DEF Ledgers
  <2> QED
    BY <2>1, ReviewExpired
<1>4. /\ ledger' = [previous EXCEPT !.items = items, !.review = review]
      /\ Keeps(previous) /\ inputs' = inputs /\ effects' = effects
      /\ restores' = restores + 1 /\ restores < MaxRestores
  BY DEF Restore
<1>5. items \in [Items -> Followups]
  BY <1>2
<1>6. ledger' \in Ledgers /\ ledger'.items = items /\ ledger'.review = review
  <2> HIDE DEF items, review
  <2> QED
    BY <1>1, <1>3, <1>4, <1>5 DEF Ledgers
<1>7. TypeOK'
  BY <1>4, <1>6, ConstantsAssumption DEF IInv, TypeOK, Keeps
<1>8. \A k \in Items : RunsOf(k)'
  BY <1>2, <1>4, <1>6 DEF IInv, RunsOf, Item
<1>9. ReviewKnown(ledger)'
  BY <1>1, <1>2, <1>3, <1>6 DEF ReviewKnown
<1>10. PreviousKnown'
  BY <1>1, <1>4 DEF PreviousKnown, ReviewKnown, Keeps
<1> QED
  BY <1>4, <1>7, <1>8, <1>9, <1>10, ConstantsAssumption DEF IInv, TypeOK, BasesCurrent

(* A claim that expires. *)
LEMMA ExpireStep ==
    ASSUME IInv, NEW k \in Items, Expire(k)
    PROVE  IInv' /\ BasesCurrent
<1> DEFINE claim == [Item(k).claim EXCEPT !.live = FALSE]
           item == [Item(k) EXCEPT !.claim = claim]
<1>1. Item(k) \in Followups /\ Item(k).claim \in Claims
  BY ClaimType DEF IInv, TypeOK, Ledgers, Followups, Item, Expire
<1>2. claim \in Claims /\ ~claim.live /\ claim.review = Item(k).claim.review
  BY <1>1, ClaimExpired
<1>3. item \in Followups /\ item.claim = claim /\ item.base = Item(k).base
  <2> HIDE DEF claim
  <2> QED
    BY <1>1, <1>2 DEF Followups
<1>4. ledger' = [ledger EXCEPT !.items[k] = item]
  BY DEF Expire, Item
<1>5. previous' = previous /\ inputs' = inputs /\ effects' = effects /\ restores' = restores
  BY DEF Expire
<1>6. ledger'.items[k] = item
  BY <1>3, <1>4, ItemWritten DEF IInv, TypeOK
<1>7. RunsOf(k)'
  <2>1. claim # NoClaim
    BY <1>2, ClaimType
  <2> HIDE DEF claim, item
  <2> QED
    BY <1>2, <1>3, <1>5, <1>6, <2>1 DEF IInv, RunsOf, Item
<1>8. item.claim.review \in {Nil, ledger.review.token}
  BY <1>2, <1>3 DEF IInv, ReviewKnown, Item
<1> HIDE DEF claim, item
<1> QED
  BY <1>3, <1>4, <1>5, <1>7, <1>8, ItemStep DEF IInv, TypeOK

(* Steps of the daily review. *)
LEMMA StartReviewStep ==
    ASSUME IInv, StartReview
    PROVE  IInv' /\ BasesCurrent
<1> DEFINE t == Made(FreshReviews)
           review == [token |-> t, live |-> TRUE, actions |-> 0]
<1>1. t \in Tokens
  BY MadeIsNew DEF StartReview, FreshReviews
<1>2. review \in Reviews
  BY <1>1, ConstantsAssumption DEF Reviews
<1>3. ledger' = [ledger EXCEPT !.review = review]
  BY DEF StartReview, Writes
<1>4. ledger' \in Ledgers /\ ledger'.items = ledger.items
  <2> HIDE DEF review
  <2> QED
    BY <1>2, <1>3, ReviewWritten DEF IInv, TypeOK
<1>5. \A k \in Items : ledger.items[k].claim.review = Nil
  BY ReviewType DEF IInv, ReviewKnown, StartReview
<1>6. ReviewKnown(ledger)'
  BY <1>4, <1>5 DEF ReviewKnown
<1>7. /\ effects' = effects /\ inputs' = inputs /\ restores' = restores
      /\ Keeps(ledger)
  BY DEF StartReview, Writes
<1> QED
  BY <1>4, <1>6, <1>7, ReviewStep

LEMMA EndReviewStep ==
    ASSUME IInv, FinishReview \/ RecoverReview
    PROVE  IInv' /\ BasesCurrent
<1>1. /\ ledger' \in Ledgers /\ ledger'.items = ledger.items
      /\ effects' = effects /\ inputs' = inputs /\ restores' = restores
      /\ Keeps(ledger)
  BY DEF FinishReview, RecoverReview, Writes, IInv, TypeOK, Ledgers
<1>2. ASSUME NEW k \in Items PROVE ledger.items[k].claim.review = Nil
  BY ClaimType DEF IInv, ReviewKnown, FinishReview, RecoverReview, ItemsReleased, Item
<1>3. ReviewKnown(ledger)'
  BY <1>1, <1>2 DEF ReviewKnown
<1> QED
  BY <1>1, <1>3, ReviewStep

LEMMA ExpireReviewStep ==
    ASSUME IInv, ExpireReview
    PROVE  IInv' /\ BasesCurrent
<1> DEFINE review == [ledger.review EXCEPT !.live = FALSE]
<1>1. review \in Reviews \cup {NoReview} /\ review.token = ledger.review.token
  <2>1. ledger.review \in Reviews
    BY ReviewType DEF IInv, TypeOK, Ledgers, ExpireReview
  <2> QED
    BY <2>1, ReviewExpired
<1>2. ledger' = [ledger EXCEPT !.review = review]
  BY DEF ExpireReview
<1>3. ledger' \in Ledgers /\ ledger'.items = ledger.items /\ ledger'.review = review
  <2> HIDE DEF review
  <2> QED
    BY <1>1, <1>2, ReviewWritten DEF IInv, TypeOK
<1>4. ReviewKnown(ledger)'
  BY <1>1, <1>3 DEF IInv, ReviewKnown
<1> QED
  BY <1>3, <1>4, ReviewStep DEF ExpireReview

(* Steps that write no followup and no review. *)
LEMMA NewDayStep ==
    ASSUME IInv, NewDay
    PROVE  IInv' /\ BasesCurrent
<1>1. \A l \in Ledgers :
          /\ Dawn(l) \in Ledgers
          /\ Dawn(l).items = l.items /\ Dawn(l).review = l.review
  BY DEF Dawn, Ledgers
<1>2. Dawn(Nil) = Nil
  BY DEF Dawn
<1>3. /\ ledger' = Dawn(ledger) /\ previous' = Dawn(previous)
      /\ inputs' = inputs /\ effects' = effects /\ restores' = restores
  BY DEF NewDay
<1>4. TypeOK'
  BY <1>1, <1>2, <1>3 DEF IInv, TypeOK
<1>5. \A k \in Items : RunsOf(k)'
  BY <1>1, <1>3 DEF IInv, TypeOK, RunsOf, Item
<1>6. ReviewKnown(ledger)'
  BY <1>1, <1>3 DEF IInv, TypeOK, ReviewKnown
<1>7. PreviousKnown'
  BY <1>1, <1>3 DEF IInv, PreviousKnown, ReviewKnown
<1> QED
  BY <1>1, <1>3, <1>4, <1>5, <1>6, <1>7 DEF IInv, TypeOK, BasesCurrent, Item

-----------------------------------------------------------------------------
LEMMA InitIInv == Init => IInv
<1> SUFFICES ASSUME Init PROVE IInv
  OBVIOUS
<1> PICK rank \in [Items -> 0 .. Cardinality(Items) - 1] :
           ledger = [items |-> [k \in Items |->
                        [state |-> "waiting", claim |-> NoClaim,
                         base |-> inputs[k], rank |-> rank[k]]],
                     review |-> NoReview, reviewed |-> FALSE]
  BY DEF Init
<1>1. Cardinality(Items) \in Nat
  BY FS_CardinalityType, ConstantsAssumption
<1>2. \A k \in Items :
          [state |-> "waiting", claim |-> NoClaim, base |-> inputs[k], rank |-> rank[k]]
              \in Followups
  BY <1>1 DEF Init, Followups
<1>3. ledger \in Ledgers
  BY <1>2 DEF Ledgers
<1>4. \A k \in Items : Item(k).claim = NoClaim /\ effects[k] = {}
  BY DEF Init, Item
<1>5. TypeOK
  BY <1>3, ConstantsAssumption DEF Init, TypeOK
<1>6. \A k \in Items : RunsOf(k)
  BY <1>4, ClaimType DEF RunsOf
<1>7. ReviewKnown(ledger)
  BY <1>4, ClaimType DEF ReviewKnown, Item
<1>8. PreviousKnown
  BY <1>3, <1>7, ConstantsAssumption DEF PreviousKnown, ReviewKnown, Init
<1> QED
  BY <1>5, <1>6, <1>7, <1>8 DEF IInv

LEMMA StepIInv == IInv /\ [Next]_vars => IInv' /\ BasesCurrent
<1> SUFFICES ASSUME IInv, [Next]_vars PROVE IInv' /\ BasesCurrent
  OBVIOUS
<1>1. ledger \in Ledgers /\ \A k \in Items : Item(k) \in Followups
  BY DEF IInv, TypeOK, Ledgers, Item
<1>2. ASSUME NEW k \in Items, Claim(k) PROVE IInv' /\ BasesCurrent
  BY <1>1, <1>2, HandsStep DEF Claim
<1>3. ASSUME NEW k \in Items, ClaimNext(k) PROVE IInv' /\ BasesCurrent
  <2> DEFINE review == [ledger.review EXCEPT !.actions = @ + 1]
             new == [ledger EXCEPT !.review = review]
  <2>1. ledger.review \in Reviews /\ ledger.review.actions < Budget
    BY <1>1, <1>3, ReviewType DEF ClaimNext, Ledgers
  <2>2. review \in Reviews /\ review.token = ledger.review.token
    BY <2>1, ConstantsAssumption DEF Reviews
  <2>3. ledger.review.token \in Tokens
    BY <2>1, ReviewType
  <2>4. Ready(k) /\ Hands(k, new, ledger.review.token)
    BY <1>3 DEF ClaimNext, Oldest
  <2> HIDE DEF review
  <2>5. new \in Ledgers /\ new.items = ledger.items /\ new.review.token = ledger.review.token
    BY <1>1, <2>2, ReviewWritten
  <2> HIDE DEF new
  <2> QED
    BY <2>3, <2>4, <2>5, HandsStep
<1>4. ASSUME NEW k \in Items, NEW t \in Tokens, NEW outcome \in Outcomes,
             Finish(t, k, outcome)
      PROVE  IInv' /\ BasesCurrent
  BY <1>4, FinishStep
<1>5. ASSUME NEW k \in Items, Recover(k) PROVE IInv' /\ BasesCurrent
  <2> DEFINE item == [Item(k) EXCEPT !.claim = NoClaim, !.state = "waiting"]
  <2>1. item \in Followups /\ item.claim = NoClaim /\ item.base = Item(k).base
    BY <1>1 DEF Followups
  <2>2. WritesItem(k, item) /\ Accounts(k)
    BY <1>5 DEF Recover
  <2> HIDE DEF item
  <2> QED
    BY <2>1, <2>2, FreedStep
<1>6. ASSUME NEW k \in Items, Refresh(k) PROVE IInv' /\ BasesCurrent
  <2> DEFINE item == [Item(k) EXCEPT !.state = "waiting", !.base = inputs[k]]
  <2>1. inputs[k] \in Versions /\ Item(k).claim = NoClaim
    BY <1>6 DEF IInv, TypeOK, Refresh
  <2>2. item \in Followups /\ item.claim = NoClaim /\ item.base = inputs[k]
    BY <1>1, <2>1 DEF Followups
  <2>3. WritesItem(k, item) /\ Accounts(k)
    BY <1>6 DEF Refresh
  <2> HIDE DEF item
  <2> QED
    BY <2>2, <2>3, FreedStep
<1>7. ASSUME NEW k \in Items, Resume(k) PROVE IInv' /\ BasesCurrent
  <2> DEFINE item == [Item(k) EXCEPT !.state = "waiting"]
  <2>1. item \in Followups /\ item.claim = NoClaim /\ item.base = Item(k).base
    BY <1>1, <1>7 DEF Followups, Resume
  <2>2. WritesItem(k, item) /\ Accounts(k)
    BY <1>7 DEF Resume
  <2> HIDE DEF item
  <2> QED
    BY <2>1, <2>2, FreedStep
<1>8. ASSUME NEW k \in Items, Resolve(k) PROVE IInv' /\ BasesCurrent
  <2> DEFINE item == [Item(k) EXCEPT !.state = "closed"]
  <2>1. item \in Followups /\ item.claim = NoClaim /\ item.base = Item(k).base
    BY <1>1, <1>8 DEF Followups, Resolve
  <2>2. WritesItem(k, item) /\ Accounts(k)
    BY <1>8 DEF Resolve
  <2> HIDE DEF item
  <2> QED
    BY <2>1, <2>2, FreedStep
<1>9. ASSUME NEW k \in Items, Expire(k) PROVE IInv' /\ BasesCurrent
  BY <1>9, ExpireStep
<1>10. ASSUME NEW k \in Items, Change(k) PROVE IInv' /\ BasesCurrent
  BY <1>10 DEF Change, IInv, TypeOK, RunsOf, ReviewKnown, PreviousKnown, BasesCurrent, Item
<1>11. CASE Cut
  BY <1>11 DEF Cut, Keeps, IInv, TypeOK, RunsOf, ReviewKnown, PreviousKnown,
               BasesCurrent, Item
<1>12. CASE UNCHANGED vars
  BY <1>12 DEF vars, IInv, TypeOK, RunsOf, ReviewKnown, PreviousKnown, BasesCurrent, Item
<1> QED
  BY <1>2, <1>3, <1>4, <1>5, <1>6, <1>7, <1>8, <1>9, <1>10, <1>11, <1>12,
     StartReviewStep, EndReviewStep, ExpireReviewStep, RestoreStep, NewDayStep
     DEF Next

THEOREM IInvHolds == Spec => []IInv
<1>1. Init => IInv
  BY InitIInv
<1>2. IInv /\ [Next]_vars => IInv'
  BY StepIInv
<1> QED
  BY <1>1, <1>2, PTL DEF Spec

(* The state has its shape, and no review reserves more actions than it has. *)
THEOREM FollowupTypes == Spec => []TypeOK
<1>1. IInv => TypeOK
  BY DEF IInv
<1> QED
  BY <1>1, IInvHolds, PTL

(* However claims expire, sessions die or the ledger is restored, no followup is
   handed out before its earlier runs are accounted for. *)
THEOREM RunsAreAccountedFor == Spec => []RunsAccountedFor
<1>1. IInv => RunsAccountedFor
  BY DEF IInv, RunsOf, RunsAccountedFor
<1> QED
  BY <1>1, IInvHolds, PTL

(* No review ends, and none is restored, over claims made in its name. *)
THEOREM ReviewsOutliveItems == Spec => []ReviewOutlivesItsItems
<1>1. IInv => ReviewOutlivesItsItems
  BY DEF IInv, ReviewKnown, ReviewOutlivesItsItems, Item
<1> QED
  BY <1>1, IInvHolds, PTL

(* A followup is marked as checked only against the inputs of that moment. *)
THEOREM ChecksAreCurrent == Spec => CheckedIsCurrent
<1>1. IInv /\ [Next]_vars
        => [restores' = restores =>
              \A k \in Items :
                  ledger'.items[k].base # Item(k).base
                    => ledger'.items[k].base = inputs[k]]_vars
  BY StepIInv DEF BasesCurrent
<1> QED
  BY <1>1, IInvHolds, PTL DEF Spec, CheckedIsCurrent
=====
