-------------------------- MODULE SubscriptionQuota --------------------------
(***************************************************************************)
(* The subscriptions of one owner (a tenant, or a user without one) and    *)
(* the handlers that spend them.  Every write handler of the API that may  *)
(* touch the blockchain asks TransactionOrchestratorService.orchestrate()  *)
(* for a decision, does its work, and calls consumeUsage() at the end; the *)
(* limit is checked at the beginning and counted at the end, with other    *)
(* handlers, purchases and selections running in between.                  *)
(*                                                                         *)
(* An owner has at most one subscription for a plan (a unique constraint), *)
(* so a subscription is named by its plan.  Time is counted in epochs: a   *)
(* usage window started in one epoch is over in the next.                  *)
(***************************************************************************)
EXTENDS Integers, FiniteSets

CONSTANTS
  Requests,         \* slots for handlers running at the same time
  Plans,            \* plan codes
  NoPlan,           \* no subscription was resolved
  MaxTransactions,  \* MaxTransactions[p]: the plan's limit, 0 is none
  MaxEpoch,         \* bound: epochs
  MaxUsage          \* bound: MaxUsage[p] is that of the plan's counter

ASSUME QuotaAssumption ==
  /\ IsFiniteSet(Requests)
  /\ NoPlan \notin Plans
  /\ MaxTransactions \in [Plans -> Nat]
  /\ MaxEpoch \in Nat /\ MaxUsage \in [Plans -> Nat]

VARIABLES
  sub,     \* the subscription rows
  epoch,   \* the clock
  req,     \* the running handlers
  served,  \* history: transactions a row was charged since its window began
  torn,    \* history: windows begun while a handler held an older one
  crossed  \* history: a selection was written beside another one

history == <<served, torn, crossed>>
vars == <<sub, epoch, req, history>>

\* `live` is status ACTIVE and within startsAt .. endsAt.
Unset == -1
Starts == {Unset} \union 0 .. MaxEpoch
Rows == [exists: BOOLEAN, live: BOOLEAN, count: Nat, start: Starts,
         selected: BOOLEAN]
NoRow == [exists |-> FALSE, live |-> FALSE, count |-> 0, start |-> Unset,
          selected |-> FALSE]

PCs == {"idle", "refresh", "policy", "reset", "check", "work", "increment",
        "peers", "upsert", "select"}
Payers == {"USER", "PLATFORM"}

\* `seen` is the usageWindowStart read for every row still to be refreshed
\* (`todo`), `start` the one of the resolved row.  What a handler no longer
\* looks at is set back.
RequestRecords ==
  [pc: PCs, plan: Plans \union {NoPlan}, todo: SUBSET Plans,
   seen: [Plans -> Starts], start: Starts, payer: Payers,
   wallet: BOOLEAN, preferred: BOOLEAN, selected: BOOLEAN]

Idle ==
  [pc |-> "idle", plan |-> NoPlan, todo |-> {}, seen |-> [p \in Plans |-> Unset],
   start |-> Unset, payer |-> "PLATFORM", wallet |-> FALSE,
   preferred |-> FALSE, selected |-> FALSE]

At(r, pc) == req[r].pc = pc
Goto(r, pc) == req' = [req EXCEPT ![r].pc = pc]
Work(r, p) == req' = [req EXCEPT ![r] = [Idle EXCEPT !.pc = "work", !.plan = p]]
Finish(r) == req' = [req EXCEPT ![r] = Idle]

Existing == {p \in Plans : sub[p].exists}
Limited(p) == MaxTransactions[p] > 0
LimitReached(p) == Limited(p) /\ sub[p].count >= MaxTransactions[p]
WindowOverEarly(start) == start # Unset /\ start <= epoch
WindowOver(start) == start # Unset /\ start < epoch

\* The handlers that have read the usage window of p and may still act on it.
Holders(p) ==
  {r \in Requests : req[r].seen[p] # Unset \/ (At(r, "reset") /\ req[r].plan = p)}

\* usageCount 0 and usageWindowStart now; what was charged is forgotten with
\* the window only if the window was really over.
ResetWindow(r, p) ==
  LET over == sub[p].start \in 0 .. epoch - 1
  IN /\ sub' = [sub EXCEPT ![p].count = 0, ![p].start = epoch]
     /\ served' = IF over THEN [served EXCEPT ![p] = 0] ELSE served
     /\ torn' = [torn EXCEPT ![p] = Holders(p) # {r} \/ (@ /\ ~over)]
     /\ UNCHANGED crossed

-----------------------------------------------------------------------------
(* orchestrate().                                                          *)

\* The gas resolver: the app is always platform-paid, the web takes the
\* requested mode, AUTO meaning the user's own, and AUTO there the platform.
GasPayerUnresolved(platform, requested, own) ==
  IF platform = "WEB" THEN requested ELSE "PLATFORM"
GasPayer(platform, requested, own) ==
  LET mode == IF requested # "AUTO" THEN requested ELSE own
  IN IF platform = "WEB" /\ mode = "USER_WALLET" THEN "USER" ELSE "PLATFORM"

\* The decisions taken before anything is read: the app is for borrowers, and
\* has no wallets.
Admitted(platform, borrower, requested) ==
  platform = "APP" => borrower /\ requested # "USER_WALLET"

Modes == {"USER_WALLET", "PLATFORM_WALLET", "AUTO"}

\* Without a subscription only user-paid gas is granted, and needs a wallet.
Unsubscribed(c) == c.payer = "USER" /\ c.wallet

\* What the handler keeps of an admitted caller: a wallet only where it pays,
\* and a preferred one only in the app.
Caller(platform, payer, wallet, preferred) ==
  [payer |-> payer,
   wallet |-> wallet /\ payer = "USER",
   preferred |-> preferred /\ platform = "APP"]

Callers ==
  UNION {{Caller(platform, GasPayer(platform, requested, own), wallet, preferred) :
            requested \in {m \in Modes : Admitted(platform, borrower, m)},
            own \in Modes, wallet \in BOOLEAN, preferred \in BOOLEAN} :
         platform \in {"WEB", "APP"}, borrower \in BOOLEAN}

\* An owner without any subscription row is decided at once.
Orchestrate(r) ==
  /\ At(r, "idle")
  /\ \E c \in Callers :
       IF Existing = {}
       THEN Unsubscribed(c) /\ Work(r, NoPlan)
       ELSE req' = [req EXCEPT ![r] =
              [Idle EXCEPT !.pc = "refresh",
                           !.todo = Existing,
                           !.seen = [p \in Plans |-> sub[p].start],
                           !.payer = c.payer,
                           !.wallet = c.wallet,
                           !.preferred = c.preferred]]
  /\ UNCHANGED <<sub, epoch, history>>

\* ensureWindowFresh, one subscription after the other, from what findMany
\* returned; updating a row that is gone throws.
Refreshed(r, p) ==
  req' = [req EXCEPT ![r].todo = @ \ {p}, ![r].seen[p] = Unset]

Refresh(r) ==
  /\ At(r, "refresh")
  /\ \E p \in req[r].todo :
       IF ~WindowOver(req[r].seen[p])
       THEN Refreshed(r, p) /\ UNCHANGED <<sub, history>>
       ELSE IF sub[p].exists
       THEN ResetWindow(r, p) /\ Refreshed(r, p)
       ELSE Finish(r) /\ UNCHANGED <<sub, history>>
  /\ UNCHANGED epoch

\* The second findMany: a selected usable subscription, else the newest (any)
\* usable one.  Denied: a wallet in the app, platform gas without a
\* subscription, user gas without a wallet.
Usable == {p \in Existing : sub[p].live /\ ~LimitReached(p)}
Preferred == IF \E p \in Usable : sub[p].selected
             THEN {p \in Usable : sub[p].selected} ELSE Usable

Resolve(r) ==
  /\ At(r, "refresh") /\ req[r].todo = {}
  /\ IF Usable = {}
     THEN IF Unsubscribed(req[r])
          THEN Work(r, NoPlan) ELSE Finish(r)
     ELSE IF req[r].preferred THEN Finish(r)
     ELSE \E p \in Preferred :
            req' = [req EXCEPT ![r].pc = "policy", ![r].plan = p]
  /\ UNCHANGED <<sub, epoch, history>>

\* The policy engine looks at the window again, and at the counter again.  A
\* plan without a limit is not looked up, a row that is gone denies nothing.
ReadPolicy(r) ==
  LET p == req[r].plan
  IN /\ At(r, "policy")
     /\ Goto(r, IF Limited(p) /\ WindowOver(sub[p].start) THEN "reset" ELSE "check")
     /\ UNCHANGED <<sub, epoch, history>>

ResetPolicyWindow(r) ==
  LET p == req[r].plan
  IN /\ At(r, "reset")
     /\ IF sub[p].exists
        THEN ResetWindow(r, p) /\ Goto(r, "check")
        ELSE Finish(r) /\ UNCHANGED <<sub, history>>
     /\ UNCHANGED epoch

WithinLimit(p) == Limited(p) => sub[p].count < MaxTransactions[p]

CheckPolicy(r) ==
  /\ At(r, "check")
  /\ IF WithinLimit(req[r].plan) /\ (req[r].payer = "USER" => req[r].wallet)
     THEN Work(r, req[r].plan) ELSE Finish(r)
  /\ UNCHANGED <<sub, epoch, history>>

-----------------------------------------------------------------------------
(* The handler's own work, and consumeUsage().                             *)

\* The handler throws after the decision: nothing is charged.
Abandon(r) ==
  /\ At(r, "work")
  /\ Finish(r)
  /\ UNCHANGED <<sub, epoch, history>>

\* consumeUsage without a subscription returns; else it reads the window.
ReadUsage(r) ==
  /\ At(r, "work")
  /\ IF req[r].plan = NoPlan THEN Finish(r)
     ELSE req' = [req EXCEPT ![r].pc = "increment",
                             ![r].start = sub[req[r].plan].start]
  /\ UNCHANGED <<sub, epoch, history>>

\* The increment is atomic; a window is started if the read saw none.
ChargedTwice(count) == count + 2
Charged(count) == count + 1

IncrementUsage(r) ==
  LET p == req[r].plan
  IN /\ At(r, "increment")
     /\ IF sub[p].exists
        THEN /\ sub[p].count < MaxUsage[p]
             /\ sub' = [sub EXCEPT ![p].count = Charged(@),
                  ![p].start = IF req[r].start = Unset THEN epoch ELSE @]
             /\ served' = [served EXCEPT ![p] = @ + 1]
             /\ torn' = [torn EXCEPT ![p] =
                  @ \/ (req[r].start = Unset /\ Holders(p) # {})]
        ELSE UNCHANGED <<sub, served, torn>>
     /\ Finish(r)
     /\ UNCHANGED <<epoch, crossed>>

-----------------------------------------------------------------------------
(* SubscriptionsService.                                                   *)

\* computeLifecycleStatus: the usage window plays no part in it.
Bought(p) == sub[p].exists /\ sub[p].live /\ ~LimitReached(p)

\* purchase of a plan, its payment checked: not one that is still usable.
BeginPurchase(r) ==
  /\ At(r, "idle")
  /\ \E p \in Plans :
       /\ ~Bought(p)
       /\ req' = [req EXCEPT ![r] = [Idle EXCEPT !.pc = "peers", !.plan = p]]
  /\ UNCHANGED <<sub, epoch, history>>

\* Selected at once if no subscription of the owner is, its own included.
AlwaysSelected == TRUE
NoneSelected == ~ \E p \in Existing : sub[p].selected

\* The handlers about to write a selection.
Choosers == {r \in Requests : At(r, "select") \/ (At(r, "upsert") /\ req[r].selected)}

ReadPeers(r) ==
  /\ At(r, "peers")
  /\ req' = [req EXCEPT ![r].pc = "upsert", ![r].selected = NoneSelected]
  /\ UNCHANGED <<sub, epoch, history>>

UpsertPurchase(r) ==
  LET p == req[r].plan
  IN /\ At(r, "upsert")
     /\ sub' = [sub EXCEPT ![p] =
          [exists |-> TRUE, live |-> TRUE, count |-> 0, start |-> Unset,
           selected |-> req[r].selected]]
     /\ served' = [served EXCEPT ![p] = 0]
     /\ torn' = [torn EXCEPT ![p] = Holders(p) # {}]
     /\ crossed' = (crossed \/ (req[r].selected /\ Choosers # {r}))
     /\ Finish(r)
     /\ UNCHANGED epoch

\* selectSubscription: a usable one; all its peers are rewritten together.
BeginSelect(r) ==
  /\ At(r, "idle")
  /\ \E p \in Plans :
       /\ Bought(p)
       /\ req' = [req EXCEPT ![r] =
            [Idle EXCEPT !.pc = "select", !.plan = p, !.todo = Existing]]
  /\ UNCHANGED <<sub, epoch, history>>

\* The $transaction rolls back when a peer is gone; one that rewrites every
\* row there is leaves one selection, whatever there was before.
CommitSelect(r) ==
  LET todo == req[r].todo
  IN /\ At(r, "select")
     /\ IF todo \subseteq Existing
        THEN /\ sub' = [p \in Plans |->
                  IF p \in todo
                  THEN [sub[p] EXCEPT !.selected = (p = req[r].plan)] ELSE sub[p]]
             /\ crossed' = (Choosers # {r} \/ (crossed /\ todo # Existing))
        ELSE UNCHANGED <<sub, crossed>>
     /\ Finish(r)
     /\ UNCHANGED <<epoch, served, torn>>

\* The administrator's create (an upsert), update and remove; a subscription
\* also ends by itself.  The counter and the selection are left alone.  An
\* update that moves a subscription to another plan or owner is left out.
Administer(p) ==
  /\ \/ /\ \E live \in BOOLEAN :
             sub' = [sub EXCEPT ![p].exists = TRUE, ![p].live = live]
        /\ UNCHANGED <<served, torn>>
     \/ /\ sub[p].exists
        /\ sub' = [sub EXCEPT ![p] = NoRow]
        /\ served' = [served EXCEPT ![p] = 0]
        /\ torn' = [torn EXCEPT ![p] = Holders(p) # {}]
  /\ UNCHANGED <<epoch, req, crossed>>

\* Every usage window started before now is over.
Tick == epoch < MaxEpoch /\ epoch' = epoch + 1 /\ UNCHANGED <<sub, req, history>>

-----------------------------------------------------------------------------
Init ==
  /\ sub = [p \in Plans |-> NoRow]
  /\ epoch = 0
  /\ served = [p \in Plans |-> 0]
  /\ torn = [p \in Plans |-> FALSE]
  /\ crossed = FALSE
  /\ req = [r \in Requests |-> Idle]

Step(r) ==
  \/ Refresh(r) \/ Resolve(r) \/ ReadPolicy(r) \/ ResetPolicyWindow(r)
  \/ CheckPolicy(r) \/ Abandon(r) \/ ReadUsage(r) \/ IncrementUsage(r)
  \/ ReadPeers(r) \/ UpsertPurchase(r) \/ CommitSelect(r)

Next ==
  \/ \E r \in Requests :
       Orchestrate(r) \/ BeginPurchase(r) \/ BeginSelect(r) \/ Step(r)
  \/ \E p \in Plans : Administer(p)
  \/ Tick

Spec == Init /\ [][Next]_vars

-----------------------------------------------------------------------------
TypeOK ==
  /\ sub \in [Plans -> Rows]
  /\ epoch \in 0 .. MaxEpoch
  /\ served \in [Plans -> Nat]
  /\ torn \in [Plans -> BOOLEAN] /\ crossed \in BOOLEAN
  /\ req \in [Requests -> RequestRecords]

\* The handlers that were granted a transaction of p and have not charged it.
Granted(p) ==
  {r \in Requests : req[r].pc \in {"work", "increment"} /\ req[r].plan = p}

\* The limit is checked at the beginning and counted at the end, so it can be
\* overrun, but by no more than the other handlers that were running:
\* what is charged and what is granted stay below the limit plus those
\* (transaction-policy-engine.service.ts:88-96, consumeUsage).
OverrunIsBounded ==
  \A p \in Plans :
    Limited(p) => sub[p].count + Cardinality(Granted(p))
                    < MaxTransactions[p] + Cardinality(Requests)

\* The counter is what was charged in the window, whatever handlers overlap: a
\* charge is wiped only by one that had read the window before this one began,
\* and was still to act on it then; no other of the three resets wipes a window
\* that is not over (subscription-resolver.service.ts:42-79,
\* transaction-policy-engine.service.ts:50-86).
UsageIsCounted == \A p \in Plans : ~torn[p] => sub[p].count = served[p]

\* At most one subscription is selected, whatever is bought, selected, renewed
\* and removed, unless two selections were on their way at once; and then
\* until the next one that rewrites them all (subscriptions.service.ts:410-456).
OneSelected ==
  ~crossed => \A p, q \in Plans : sub[p].selected /\ sub[q].selected => p = q

=============================================================================
