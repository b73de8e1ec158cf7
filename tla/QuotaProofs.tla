----------------------------- MODULE QuotaProofs -----------------------------
(***************************************************************************)
(* For any number of handlers, plans and limits: the rows and handlers of  *)
(* SubscriptionQuota are well typed, the overrun of a plan's limit is      *)
(* bounded by the number of handlers, the counter is what was charged in   *)
(* the window unless a window began under a handler that held an older     *)
(* one, and one subscription at most is selected unless two selections     *)
(* were on their way at once.                                              *)
(***************************************************************************)
EXTENDS SubscriptionQuota, FiniteSetTheorems, TLAPS

-----------------------------------------------------------------------------
(* Types.                                                                  *)

LEMMA BlankTypes ==
  /\ Idle \in RequestRecords
  /\ NoRow \in Rows
<1>1. [p \in Plans |-> Unset] \in [Plans -> Starts]
  BY DEF Starts
<1>2. Idle \in RequestRecords
  BY <1>1 DEF Idle, RequestRecords, PCs, Payers, Starts
<1>3. NoRow \in Rows
  BY DEF NoRow, Rows, Starts
<1> QED BY <1>2, <1>3

\* What a handler in slot r holds.
LEMMA SlotType ==
  ASSUME TypeOK, NEW r \in Requests
  PROVE  /\ req[r] \in RequestRecords
         /\ req[r].pc \in PCs
         /\ req[r].plan \in Plans \union {NoPlan}
         /\ req[r].todo \in SUBSET Plans
         /\ req[r].seen \in [Plans -> Starts]
         /\ req[r].selected \in BOOLEAN
BY DEF TypeOK, RequestRecords

\* A handler holds a plan once one was resolved, and none before.
Resolved(q) ==
  /\ q.pc \in {"policy", "reset", "check", "increment", "peers", "upsert", "select"}
       => q.plan \in Plans
  /\ q.pc = "refresh" => q.plan = NoPlan

SlotOK(q) == q \in RequestRecords /\ Resolved(q)

SlotsOK == req \in [Requests -> RequestRecords] /\ \A x \in Requests : Resolved(req[x])

HistoryOK ==
  served \in [Plans -> Nat] /\ torn \in [Plans -> BOOLEAN] /\ crossed \in BOOLEAN

Typed == TypeOK /\ \A r \in Requests : Resolved(req[r])

LEMMA TypedParts ==
  Typed <=> sub \in [Plans -> Rows] /\ epoch \in 0 .. MaxEpoch /\ HistoryOK /\ SlotsOK
BY DEF Typed, TypeOK, HistoryOK, SlotsOK

LEMMA IdleOK == SlotOK(Idle)
BY BlankTypes DEF SlotOK, Resolved, Idle

\* A step writes a good record into one slot, good rows, and nothing else.
LEMMA SlotStep ==
  ASSUME Typed, NEW r \in Requests, NEW q, SlotOK(q), req' = [req EXCEPT ![r] = q]
  PROVE  SlotsOK'
BY DEF Typed, TypeOK, SlotOK, SlotsOK

LEMMA FinishStep ==
  ASSUME Typed, NEW r \in Requests, Finish(r) PROVE SlotsOK'
BY IdleOK, SlotStep DEF Finish

LEMMA WorkStep ==
  ASSUME Typed, NEW r \in Requests, NEW p \in Plans \union {NoPlan}, Work(r, p)
  PROVE  SlotsOK'
<1>1. SlotOK([Idle EXCEPT !.pc = "work", !.plan = p])
  BY BlankTypes DEF SlotOK, RequestRecords, Resolved, Idle, PCs
<1> QED BY <1>1, SlotStep DEF Work

LEMMA GotoStep ==
  ASSUME Typed, NEW r \in Requests, NEW pc \in PCs \ {"refresh"}, Goto(r, pc),
         req[r].plan \in Plans
  PROVE  SlotsOK'
<1>1. SlotOK([req[r] EXCEPT !.pc = pc])
  BY SlotType DEF SlotOK, RequestRecords, Resolved, Typed
<1> QED BY <1>1, SlotStep DEF Goto, Typed, TypeOK

LEMMA RowsType ==
  ASSUME TypeOK, NEW p \in Plans, NEW row \in Rows
  PROVE  [sub EXCEPT ![p] = row] \in [Plans -> Rows]
BY DEF TypeOK

LEMMA ResetType ==
  ASSUME Typed, NEW r \in Requests, NEW p \in Plans, ResetWindow(r, p)
  PROVE  sub' \in [Plans -> Rows] /\ HistoryOK'
<1> DEFINE over == sub[p].start \in 0 .. epoch - 1
           tear == Holders(p) # {r} \/ (torn[p] /\ ~over)
<1>1. epoch \in Starts
  BY DEF Typed, TypeOK, Starts
<1>2. [sub[p] EXCEPT !.count = 0, !.start = epoch] \in Rows
  BY <1>1 DEF Typed, TypeOK, Rows
<1>3. sub' = [sub EXCEPT ![p] = [sub[p] EXCEPT !.count = 0, !.start = epoch]]
  BY <1>2 DEF Typed, TypeOK, ResetWindow, Rows
<1>4. sub' \in [Plans -> Rows]
  BY <1>2, <1>3, RowsType DEF Typed
<1>5. served' \in [Plans -> Nat] /\ crossed' \in BOOLEAN
  BY DEF Typed, TypeOK, ResetWindow
<1>6. torn' = [torn EXCEPT ![p] = tear] /\ tear \in BOOLEAN
  BY DEF ResetWindow, Typed, TypeOK
<1> HIDE DEF tear
<1>7. torn' \in [Plans -> BOOLEAN]
  BY <1>6 DEF Typed, TypeOK
<1> QED BY <1>4, <1>5, <1>7 DEF HistoryOK

LEMMA InitType == Init => Typed
<1> SUFFICES ASSUME Init PROVE Typed
  OBVIOUS
<1>1. epoch \in 0 .. MaxEpoch
  BY QuotaAssumption DEF Init
<1>2. TypeOK
  BY <1>1, BlankTypes DEF Init, TypeOK
<1> QED BY <1>2, IdleOK DEF Init, Typed, SlotOK

-----------------------------------------------------------------------------
(* One lemma per group of actions.                                         *)

\* What the types say of an admitted caller.
LEMMA CallerType ==
  ASSUME NEW c \in Callers
  PROVE  c.payer \in Payers /\ c.wallet \in BOOLEAN /\ c.preferred \in BOOLEAN
<1>1. PICK platform \in {"WEB", "APP"}, borrower \in BOOLEAN :
        c \in {Caller(platform, GasPayer(platform, requested, own), wallet, preferred) :
                 requested \in {m \in Modes : Admitted(platform, borrower, m)},
                 own \in Modes, wallet \in BOOLEAN, preferred \in BOOLEAN}
  BY DEF Callers
<1>2. PICK requested \in {m \in Modes : Admitted(platform, borrower, m)},
           own \in Modes, wallet \in BOOLEAN, preferred \in BOOLEAN :
        c = Caller(platform, GasPayer(platform, requested, own), wallet, preferred)
  BY <1>1
<1>3. GasPayer(platform, requested, own) \in Payers
  BY DEF GasPayer, Payers
<1> QED BY <1>2, <1>3 DEF Caller

\* The record orchestrate() leaves in its slot.
Asking(c) ==
  [Idle EXCEPT !.pc = "refresh", !.todo = Existing, !.seen = [p \in Plans |-> sub[p].start],
               !.payer = c.payer, !.wallet = c.wallet, !.preferred = c.preferred]

LEMMA OrchestrateCases ==
  ASSUME NEW r \in Requests, Orchestrate(r)
  PROVE  /\ UNCHANGED <<sub, epoch, history>>
         /\ \/ Work(r, NoPlan)
            \/ \E c \in Callers : req' = [req EXCEPT ![r] = Asking(c)]
BY DEF Orchestrate, Asking

LEMMA AskingType ==
  ASSUME Typed, NEW c \in Callers
  PROVE  /\ SlotOK(Asking(c))
         /\ Asking(c).pc = "refresh" /\ Asking(c).plan = NoPlan
         /\ Asking(c).todo = Existing
         /\ Asking(c).seen = [p \in Plans |-> sub[p].start]
<1> DEFINE seen == [p \in Plans |-> sub[p].start]
<1>1. seen \in [Plans -> Starts]
  BY DEF Typed, TypeOK, Rows
<1>2. Existing \in SUBSET Plans /\ "refresh" \in PCs
  BY DEF Existing, PCs
<1> HIDE DEF seen
<1>3. SlotOK([Idle EXCEPT !.pc = "refresh", !.todo = Existing, !.seen = seen,
                !.payer = c.payer, !.wallet = c.wallet, !.preferred = c.preferred])
  BY <1>1, <1>2, CallerType, BlankTypes DEF SlotOK, RequestRecords, Resolved, Idle
<1>4. SlotOK(Asking(c))
  BY <1>3 DEF Asking, seen
<1>5. /\ Asking(c).pc = "refresh" /\ Asking(c).plan = NoPlan
      /\ Asking(c).todo = Existing
      /\ Asking(c).seen = [p \in Plans |-> sub[p].start]
  BY DEF Asking, Idle
<1> QED BY <1>4, <1>5

LEMMA OrchestrateType ==
  ASSUME Typed, NEW r \in Requests, Orchestrate(r) PROVE Typed'
<1>1. UNCHANGED <<sub, epoch, history>>
  BY OrchestrateCases
<1>2. SlotsOK'
  BY OrchestrateCases, AskingType, SlotStep, WorkStep
<1> QED BY <1>1, <1>2 DEF history, SlotsOK, Typed, TypeOK

\* The three ways a refresh ends.
LEMMA RefreshCases ==
  ASSUME Typed, NEW r \in Requests, Refresh(r)
  PROVE  /\ At(r, "refresh") /\ epoch' = epoch
         /\ \E p \in Plans :
              /\ p \in req[r].todo
              /\ \/ Refreshed(r, p) /\ UNCHANGED <<sub, history>>
                 \/ /\ WindowOver(req[r].seen[p]) /\ sub[p].exists
                    /\ ResetWindow(r, p) /\ Refreshed(r, p)
                 \/ Finish(r) /\ UNCHANGED <<sub, history>>
<1>1. req[r].todo \in SUBSET Plans
  BY SlotType DEF Typed
<1> QED BY <1>1 DEF Refresh

\* The record a refreshed row leaves in its slot.
LEMMA RefreshedSlot ==
  ASSUME Typed, NEW r \in Requests, NEW p \in Plans, Refreshed(r, p), At(r, "refresh")
  PROVE  \E q : /\ SlotOK(q) /\ req' = [req EXCEPT ![r] = q]
                /\ q.pc = "refresh" /\ q.plan = NoPlan /\ q.todo = req[r].todo \ {p}
                /\ q.seen = [req[r].seen EXCEPT ![p] = Unset]
<1> DEFINE seen == [req[r].seen EXCEPT ![p] = Unset]
           todo == req[r].todo \ {p}
           q == [req[r] EXCEPT !.todo = todo, !.seen = seen]
<1>1. seen \in [Plans -> Starts] /\ todo \in SUBSET Plans
  BY SlotType DEF Typed, Starts
<1>2. req' = [req EXCEPT ![r] = q]
  BY SlotType DEF Refreshed, Typed, TypeOK, RequestRecords
<1> HIDE DEF seen, todo
<1>3. q \in RequestRecords /\ q.pc = "refresh" /\ q.plan = req[r].plan
      /\ q.todo = todo /\ q.seen = seen
  BY <1>1, SlotType DEF Typed, RequestRecords, At
<1>4. q.plan = NoPlan
  BY <1>3 DEF Typed, Resolved, At
<1>5. SlotOK(q)
  BY <1>3, <1>4 DEF SlotOK, Resolved
<1> QED BY <1>2, <1>3, <1>4, <1>5 DEF seen, todo

LEMMA RefreshType ==
  ASSUME Typed, NEW r \in Requests, Refresh(r) PROVE Typed'
<1>1. PICK p \in Plans :
        \/ Refreshed(r, p) /\ UNCHANGED <<sub, history>>
        \/ ResetWindow(r, p) /\ Refreshed(r, p)
        \/ Finish(r) /\ UNCHANGED <<sub, history>>
  BY RefreshCases
<1>2. SlotsOK'
  BY <1>1, RefreshCases, RefreshedSlot, SlotStep, FinishStep
<1>3. sub' \in [Plans -> Rows] /\ HistoryOK'
  <2>1. CASE UNCHANGED <<sub, history>>
    BY <2>1 DEF history, Typed, TypeOK, HistoryOK
  <2> QED BY <1>1, <2>1, ResetType
<1> QED BY <1>2, <1>3, RefreshCases DEF Typed, TypeOK, SlotsOK, HistoryOK

\* The three ways a resolution ends.
LEMMA ResolveCases ==
  ASSUME Typed, NEW r \in Requests, Resolve(r)
  PROVE  /\ UNCHANGED <<sub, epoch, history>>
         /\ \/ Work(r, NoPlan)
            \/ Finish(r)
            \/ \E p \in Plans : \E q :
                 /\ SlotOK(q) /\ req' = [req EXCEPT ![r] = q]
                 /\ q.pc = "policy" /\ q.plan = p
                 /\ q.todo = {} /\ q.seen = req[r].seen
<1>1. Preferred \subseteq Plans
  BY DEF Preferred, Usable, Existing
<1>2. ASSUME NEW p \in Plans, req' = [req EXCEPT ![r].pc = "policy", ![r].plan = p]
      PROVE  \E q : /\ SlotOK(q) /\ req' = [req EXCEPT ![r] = q]
                    /\ q.pc = "policy" /\ q.plan = p
                    /\ q.todo = {} /\ q.seen = req[r].seen
  <2> DEFINE q == [req[r] EXCEPT !.pc = "policy", !.plan = p]
  <2>1. q \in RequestRecords /\ q.pc = "policy" /\ q.plan = p
        /\ q.todo = {} /\ q.seen = req[r].seen
    BY SlotType DEF Resolve, Typed, RequestRecords, PCs
  <2>2. req' = [req EXCEPT ![r] = q]
    BY <1>2 DEF Typed, TypeOK
  <2> HIDE DEF q
  <2> QED BY <2>1, <2>2 DEF SlotOK, Resolved
<1> QED BY <1>1, <1>2 DEF Resolve

LEMMA ResolveType ==
  ASSUME Typed, NEW r \in Requests, Resolve(r) PROVE Typed'
<1>1. SlotsOK'
  BY ResolveCases, SlotStep, WorkStep, FinishStep
<1> QED BY <1>1, ResolveCases DEF history, SlotsOK, Typed, TypeOK

LEMMA PolicyType ==
  ASSUME Typed, NEW r \in Requests,
         ReadPolicy(r) \/ ResetPolicyWindow(r) \/ CheckPolicy(r)
  PROVE  Typed'
<1>1. req[r].plan \in Plans
  BY DEF Typed, Resolved, ReadPolicy, ResetPolicyWindow, CheckPolicy, At
<1>2. \A c : (IF c THEN "reset" ELSE "check") \in PCs \ {"refresh"}
  BY DEF PCs
<1>3. "check" \in PCs \ {"refresh"}
  BY DEF PCs
<1>4. CASE ReadPolicy(r)
  <2>1. SlotsOK'
    BY <1>1, <1>2, <1>4, GotoStep DEF ReadPolicy
  <2> QED BY <1>4, <2>1 DEF ReadPolicy, history, SlotsOK, Typed, TypeOK
<1>5. CASE ResetPolicyWindow(r)
  <2>1. SlotsOK'
    BY <1>1, <1>3, <1>5, GotoStep, FinishStep DEF ResetPolicyWindow
  <2>2. sub' \in [Plans -> Rows] /\ HistoryOK'
    <3>1. CASE UNCHANGED <<sub, history>>
      BY <3>1 DEF history, Typed, TypeOK, HistoryOK
    <3> QED BY <1>1, <1>5, <3>1, ResetType DEF ResetPolicyWindow
  <2> QED BY <1>5, <2>1, <2>2 DEF ResetPolicyWindow, Typed, TypeOK, SlotsOK, HistoryOK
<1>6. CASE CheckPolicy(r)
  <2>1. SlotsOK'
    BY <1>1, <1>6, WorkStep, FinishStep DEF CheckPolicy
  <2> QED BY <1>6, <2>1 DEF CheckPolicy, history, SlotsOK, Typed, TypeOK
<1> QED BY <1>4, <1>5, <1>6

\* What a charge reads of its window.
LEMMA ReadUsageCases ==
  ASSUME Typed, NEW r \in Requests, ReadUsage(r)
  PROVE  /\ UNCHANGED <<sub, epoch, history>> /\ At(r, "work")
         /\ \/ Finish(r)
            \/ \E q : /\ SlotOK(q) /\ req' = [req EXCEPT ![r] = q]
                      /\ q.pc = "increment" /\ q.plan = req[r].plan
                      /\ q.todo = req[r].todo /\ q.seen = req[r].seen
<1>1. ASSUME req[r].plan # NoPlan,
             req' = [req EXCEPT ![r].pc = "increment",
                                ![r].start = sub[req[r].plan].start]
      PROVE  \E q : /\ SlotOK(q) /\ req' = [req EXCEPT ![r] = q]
                    /\ q.pc = "increment" /\ q.plan = req[r].plan
                    /\ q.todo = req[r].todo /\ q.seen = req[r].seen
  <2> DEFINE start == sub[req[r].plan].start
             q == [req[r] EXCEPT !.pc = "increment", !.start = start]
  <2>1. req[r].plan \in Plans
    BY <1>1, SlotType DEF Typed
  <2>2. start \in Starts
    BY <2>1 DEF Typed, TypeOK, Rows
  <2>3. req' = [req EXCEPT ![r] = q]
    BY <1>1 DEF Typed, TypeOK
  <2> HIDE DEF start
  <2>4. q \in RequestRecords /\ q.pc = "increment" /\ q.plan = req[r].plan
        /\ q.todo = req[r].todo /\ q.seen = req[r].seen
    BY <2>2, SlotType DEF Typed, RequestRecords, PCs
  <2> HIDE DEF q
  <2> QED BY <2>1, <2>3, <2>4 DEF SlotOK, Resolved
<1> QED BY <1>1 DEF ReadUsage

LEMMA UsageType ==
  ASSUME Typed, NEW r \in Requests,
         Abandon(r) \/ ReadUsage(r) \/ IncrementUsage(r)
  PROVE  Typed'
<1>1. CASE Abandon(r)
  <2>1. SlotsOK'
    BY <1>1, FinishStep DEF Abandon
  <2> QED BY <1>1, <2>1 DEF Abandon, history, SlotsOK, Typed, TypeOK
<1>2. CASE ReadUsage(r)
  <2>1. SlotsOK'
    BY <1>2, ReadUsageCases, SlotStep, FinishStep
  <2> QED BY <1>2, <2>1, ReadUsageCases DEF history, SlotsOK, Typed, TypeOK
<1>3. CASE IncrementUsage(r)
  <2> DEFINE p == req[r].plan
             start == IF req[r].start = Unset THEN epoch ELSE sub[p].start
             tear == torn[p] \/ (req[r].start = Unset /\ Holders(p) # {})
  <2>1. p \in Plans
    BY <1>3 DEF IncrementUsage, At, Typed, Resolved
  <2>2. ASSUME sub[p].exists PROVE sub' \in [Plans -> Rows] /\ HistoryOK'
    <3>1. sub[p].count + 1 \in Nat
      BY <2>1 DEF Typed, TypeOK, Rows
    <3>2. start \in Starts
      BY <2>1 DEF Typed, TypeOK, Rows, Starts
    <3>3. [sub[p] EXCEPT !.count = @ + 1, !.start = start] \in Rows
      BY <2>1, <3>1, <3>2 DEF Typed, TypeOK, Rows
    <3>4. sub' = [sub EXCEPT ![p] = [sub[p] EXCEPT !.count = @ + 1, !.start = start]]
      BY <1>3, <2>1, <2>2 DEF IncrementUsage, Charged, Typed, TypeOK, Rows
    <3>5. served' \in [Plans -> Nat] /\ crossed' \in BOOLEAN
      BY <1>3, <2>1, <2>2 DEF IncrementUsage, Typed, TypeOK
    <3>6. torn' = [torn EXCEPT ![p] = tear] /\ tear \in BOOLEAN
      BY <1>3, <2>1, <2>2 DEF IncrementUsage, Typed, TypeOK
    <3> HIDE DEF tear
    <3>7. torn' \in [Plans -> BOOLEAN]
      BY <3>6 DEF Typed, TypeOK
    <3> QED BY <2>1, <3>3, <3>4, <3>5, <3>7, RowsType DEF Typed, HistoryOK
  <2>3. sub' \in [Plans -> Rows] /\ HistoryOK'
    BY <1>3, <2>2 DEF IncrementUsage, Typed, TypeOK, HistoryOK
  <2>4. SlotsOK'
    BY <1>3, FinishStep DEF IncrementUsage
  <2> QED BY <1>3, <2>3, <2>4 DEF IncrementUsage, SlotsOK, HistoryOK, Typed, TypeOK
<1> QED BY <1>1, <1>2, <1>3

\* The record a purchase or a selection begins with.
LEMMA BeginCases ==
  ASSUME Typed, NEW r \in Requests, BeginPurchase(r) \/ BeginSelect(r)
  PROVE  /\ UNCHANGED <<sub, epoch, history>>
         /\ \E p \in Plans : \E q :
              /\ SlotOK(q) /\ req' = [req EXCEPT ![r] = q]
              /\ q.seen = [o \in Plans |-> Unset] /\ q.plan = p
              /\ \/ q.pc = "peers"
                 \/ q.pc = "select" /\ q.todo = Existing
<1>1. Existing \in SUBSET Plans
  BY DEF Existing
<1>2. ASSUME NEW p \in Plans
      PROVE  /\ SlotOK([Idle EXCEPT !.pc = "peers", !.plan = p])
             /\ SlotOK([Idle EXCEPT !.pc = "select", !.plan = p, !.todo = Existing])
  <2>1. SlotOK([Idle EXCEPT !.pc = "peers", !.plan = p])
    BY BlankTypes DEF SlotOK, RequestRecords, Resolved, PCs, Idle
  <2>2. SlotOK([Idle EXCEPT !.pc = "select", !.plan = p, !.todo = Existing])
    BY <1>1, BlankTypes DEF SlotOK, RequestRecords, Resolved, PCs, Idle
  <2> QED BY <2>1, <2>2
<1>3. PICK p \in Plans :
        \E q \in {[Idle EXCEPT !.pc = "peers", !.plan = p],
                  [Idle EXCEPT !.pc = "select", !.plan = p, !.todo = Existing]} :
          req' = [req EXCEPT ![r] = q]
  BY DEF BeginPurchase, BeginSelect
<1> PICK q \in {[Idle EXCEPT !.pc = "peers", !.plan = p],
                [Idle EXCEPT !.pc = "select", !.plan = p, !.todo = Existing]} :
        req' = [req EXCEPT ![r] = q]
  BY <1>3
<1>4. q.seen = [o \in Plans |-> Unset] /\ q.plan = p
  BY <1>3 DEF Idle
<1>5. q.pc = "peers" \/ (q.pc = "select" /\ q.todo = Existing)
  BY <1>3 DEF Idle
<1> QED BY <1>2, <1>3, <1>4, <1>5 DEF BeginPurchase, BeginSelect

LEMMA BeginType ==
  ASSUME Typed, NEW r \in Requests, BeginPurchase(r) \/ BeginSelect(r)
  PROVE  Typed'
<1>1. SlotsOK'
  BY BeginCases, SlotStep
<1> QED BY <1>1, BeginCases DEF history, SlotsOK, Typed, TypeOK

\* The record a purchase goes on with.
LEMMA ReadPeersCases ==
  ASSUME Typed, NEW r \in Requests, ReadPeers(r)
  PROVE  /\ UNCHANGED <<sub, epoch, history>> /\ At(r, "peers")
         /\ \E q : /\ SlotOK(q) /\ req' = [req EXCEPT ![r] = q]
                   /\ q.pc = "upsert" /\ q.selected = NoneSelected
                   /\ q.seen = req[r].seen
<1> DEFINE sel == NoneSelected
           q == [req[r] EXCEPT !.pc = "upsert", !.selected = sel]
<1>1. req[r].plan \in Plans /\ sel \in BOOLEAN
  BY DEF ReadPeers, At, Typed, Resolved, NoneSelected
<1>2. req' = [req EXCEPT ![r] = q]
  BY DEF ReadPeers, Typed, TypeOK
<1> HIDE DEF sel
<1>3. q \in RequestRecords /\ q.pc = "upsert" /\ q.plan = req[r].plan
      /\ q.selected = sel /\ q.seen = req[r].seen
  BY <1>1, SlotType DEF Typed, RequestRecords, PCs
<1> HIDE DEF q
<1>4. SlotOK(q)
  BY <1>1, <1>3 DEF SlotOK, Resolved
<1> QED BY <1>2, <1>3, <1>4 DEF ReadPeers, sel

\* What a selection changes of the rows.
LEMMA CommitCases ==
  ASSUME Typed, NEW r \in Requests, CommitSelect(r)
  PROVE  /\ At(r, "select") /\ Finish(r) /\ UNCHANGED <<epoch, served, torn>>
         /\ \/ UNCHANGED <<sub, crossed>>
            \/ /\ ~crossed' => Choosers = {r} /\ (~crossed \/ req[r].todo = Existing)
               /\ \A p \in Plans :
                    /\ sub'[p].count = sub[p].count /\ sub'[p].start = sub[p].start
                    /\ sub'[p].exists = sub[p].exists
                    /\ sub'[p].selected =>
                         IF p \in req[r].todo THEN p = req[r].plan /\ sub[p].exists
                         ELSE sub[p].selected
<1>1. ASSUME req[r].todo \subseteq Existing, NEW p \in Plans,
             sub' = [o \in Plans |->
               IF o \in req[r].todo
               THEN [sub[o] EXCEPT !.selected = (o = req[r].plan)] ELSE sub[o]]
      PROVE  /\ sub'[p].count = sub[p].count /\ sub'[p].start = sub[p].start
             /\ sub'[p].exists = sub[p].exists
             /\ sub'[p].selected =>
                  IF p \in req[r].todo THEN p = req[r].plan /\ sub[p].exists
                  ELSE sub[p].selected
  <2>1. CASE p \in req[r].todo
    <3>1. sub'[p] = [sub[p] EXCEPT !.selected = (p = req[r].plan)] /\ sub[p].exists
      BY <1>1, <2>1 DEF Existing
    <3> QED BY <2>1, <3>1 DEF Typed, TypeOK, Rows
  <2>2. CASE p \notin req[r].todo
    BY <1>1, <2>2
  <2> QED BY <2>1, <2>2
<1> QED BY <1>1 DEF CommitSelect

LEMMA PurchaseType ==
  ASSUME Typed, NEW r \in Requests,
         ReadPeers(r) \/ UpsertPurchase(r) \/ CommitSelect(r)
  PROVE  Typed'
<1>1. CASE ReadPeers(r)
  <2>1. SlotsOK'
    BY <1>1, ReadPeersCases, SlotStep
  <2> QED BY <1>1, <2>1, ReadPeersCases DEF history, SlotsOK, Typed, TypeOK
<1>2. CASE UpsertPurchase(r)
  <2> DEFINE p == req[r].plan
             tear == Holders(p) # {}
             cross == crossed \/ (req[r].selected /\ Choosers # {r})
  <2>1. p \in Plans
    BY <1>2 DEF UpsertPurchase, At, Typed, Resolved
  <2>2. [exists |-> TRUE, live |-> TRUE, count |-> 0, start |-> Unset,
         selected |-> req[r].selected] \in Rows
    BY SlotType DEF Rows, Starts, Typed
  <2>3. sub' \in [Plans -> Rows]
    BY <1>2, <2>1, <2>2, RowsType DEF UpsertPurchase, Typed
  <2>4. /\ served' = [served EXCEPT ![p] = 0]
        /\ torn' = [torn EXCEPT ![p] = tear] /\ tear \in BOOLEAN
        /\ crossed' = cross /\ cross \in BOOLEAN
    BY <1>2 DEF UpsertPurchase
  <2> HIDE DEF tear, cross
  <2>5. HistoryOK'
    BY <2>1, <2>4 DEF HistoryOK, Typed, TypeOK
  <2>6. SlotsOK'
    BY <1>2, FinishStep DEF UpsertPurchase
  <2> QED BY <1>2, <2>3, <2>5, <2>6 DEF UpsertPurchase, Typed, TypeOK, HistoryOK, SlotsOK
<1>3. CASE CommitSelect(r)
  <2> DEFINE cross == Choosers # {r} \/ (crossed /\ req[r].todo # Existing)
  <2>1. \A p \in Plans : [sub[p] EXCEPT !.selected = (p = req[r].plan)] \in Rows
    BY DEF Typed, TypeOK, Rows
  <2>2. sub' \in [Plans -> Rows]
    BY <1>3, <2>1 DEF CommitSelect, Typed, TypeOK
  <2>3. (crossed' = cross \/ crossed' = crossed) /\ cross \in BOOLEAN
    BY <1>3 DEF CommitSelect
  <2> HIDE DEF cross
  <2>4. HistoryOK'
    BY <1>3, <2>3 DEF CommitSelect, HistoryOK, Typed, TypeOK
  <2>5. SlotsOK'
    BY <1>3, FinishStep DEF CommitSelect
  <2> QED BY <1>3, <2>2, <2>4, <2>5 DEF CommitSelect, Typed, TypeOK, HistoryOK, SlotsOK
<1> QED BY <1>1, <1>2, <1>3

LEMMA AdministerType ==
  ASSUME Typed, NEW p \in Plans, Administer(p) PROVE Typed'
<1>1. \A live \in BOOLEAN : [sub[p] EXCEPT !.exists = TRUE, !.live = live] \in Rows
  BY DEF Typed, TypeOK, Rows
<1>2. \A live \in BOOLEAN :
        [sub EXCEPT ![p].exists = TRUE, ![p].live = live]
          = [sub EXCEPT ![p] = [sub[p] EXCEPT !.exists = TRUE, !.live = live]]
  BY DEF Typed, TypeOK, Rows
<1>3. ASSUME \E live \in BOOLEAN :
               sub' = [sub EXCEPT ![p].exists = TRUE, ![p].live = live]
      PROVE  sub' \in [Plans -> Rows]
  <2>1. PICK live \in BOOLEAN :
          sub' = [sub EXCEPT ![p] = [sub[p] EXCEPT !.exists = TRUE, !.live = live]]
    BY <1>2, <1>3
  <2>2. [sub[p] EXCEPT !.exists = TRUE, !.live = live] \in Rows
    BY <1>1
  <2> QED BY <2>1, <2>2, RowsType DEF Typed
<1>4. ASSUME sub' = [sub EXCEPT ![p] = NoRow] PROVE sub' \in [Plans -> Rows]
  BY <1>4, RowsType, BlankTypes DEF Typed
<1>5. sub' \in [Plans -> Rows]
  BY <1>3, <1>4 DEF Administer
<1> DEFINE tear == Holders(p) # {}
<1>6. /\ served' = [served EXCEPT ![p] = 0] \/ served' = served
      /\ torn' = [torn EXCEPT ![p] = tear] \/ torn' = torn
      /\ tear \in BOOLEAN /\ crossed' = crossed
  BY DEF Administer
<1> HIDE DEF tear
<1>7. HistoryOK'
  BY <1>6 DEF HistoryOK, Typed, TypeOK
<1> QED BY <1>5, <1>7 DEF Administer, Typed, TypeOK, HistoryOK

LEMMA NextType == Typed /\ [Next]_vars => Typed'
<1> SUFFICES ASSUME Typed, [Next]_vars PROVE Typed'
  OBVIOUS
<1>1. CASE UNCHANGED vars
  BY <1>1 DEF vars, history, Typed, TypeOK
<1>2. ASSUME NEW r \in Requests,
             Orchestrate(r) \/ BeginPurchase(r) \/ BeginSelect(r) \/ Step(r)
      PROVE  Typed'
  BY <1>2, OrchestrateType, RefreshType, ResolveType, PolicyType, UsageType,
     BeginType, PurchaseType DEF Step
<1>3. ASSUME NEW p \in Plans, Administer(p) PROVE Typed'
  BY <1>3, AdministerType
<1>4. CASE Tick
  BY <1>4, QuotaAssumption DEF Tick, history, Typed, TypeOK
<1> QED BY <1>1, <1>2, <1>3, <1>4 DEF Next

\* For every set of handlers and plans and every limit, the rows and the
\* handlers of the subscription counter keep their types.
THEOREM QuotaTypeCorrect == Spec => []TypeOK
<1>1. Spec => []Typed
  BY InitType, NextType, PTL DEF Spec
<1>2. Typed => TypeOK
  BY DEF Typed
<1> QED BY <1>1, <1>2, PTL

-----------------------------------------------------------------------------
(* The overrun of a limit.                                                 *)

\* What is charged and granted for a plan stays below its limit plus the
\* number of handlers.
Bounded(p) ==
  Limited(p) => sub[p].count + Cardinality(Granted(p))
                  < MaxTransactions[p] + Cardinality(Requests)

LEMMA GrantedCount ==
  ASSUME NEW S \in SUBSET Requests
  PROVE  /\ IsFiniteSet(S)
         /\ Cardinality(S) \in Nat
         /\ Cardinality(Requests) \in Nat
         /\ Cardinality(S) <= Cardinality(Requests)
BY QuotaAssumption, FS_Subset, FS_CardinalityType

LEMMA CountType ==
  ASSUME Typed, NEW p \in Plans
  PROVE  sub[p].count \in Nat /\ MaxTransactions[p] \in Nat
BY QuotaAssumption DEF Typed, TypeOK, Rows

\* A handler that is not granted p after its step leaves the granted ones.
LEMMA Leaves ==
  ASSUME Typed, NEW r \in Requests, NEW p \in Plans, NEW q,
         req' = [req EXCEPT ![r] = q],
         q.pc \notin {"work", "increment"} \/ q.plan # p
  PROVE  Granted(p)' \subseteq Granted(p) \ {r}
BY DEF Granted, Typed, TypeOK

LEMMA FinishLeaves ==
  ASSUME Typed, NEW r \in Requests, NEW p \in Plans, Finish(r)
  PROVE  Granted(p)' \subseteq Granted(p) \ {r}
BY Leaves DEF Finish, Idle

\* The three ways a step keeps the bound: neither the counter nor the granted
\* handlers grow; ...
LEMMA NothingGranted ==
  ASSUME Typed, Typed', NEW p \in Plans, Bounded(p),
         sub'[p].count <= sub[p].count, Granted(p)' \subseteq Granted(p)
  PROVE  Bounded(p)'
<1> SUFFICES ASSUME Limited(p) PROVE Bounded(p)'
  BY DEF Bounded, Limited
<1>1. Granted(p) \in SUBSET Requests /\ Granted(p)' \in SUBSET Requests
  BY DEF Granted
<1>2. /\ IsFiniteSet(Granted(p))
      /\ Cardinality(Granted(p)) \in Nat /\ Cardinality(Granted(p)') \in Nat
      /\ Cardinality(Requests) \in Nat
  BY <1>1, GrantedCount
<1>3. Cardinality(Granted(p)') <= Cardinality(Granted(p))
  BY <1>2, FS_Subset
<1>4. sub[p].count \in Nat /\ sub'[p].count \in Nat /\ MaxTransactions[p] \in Nat
  BY CountType, QuotaAssumption DEF Typed, TypeOK, Rows
<1> QED BY <1>2, <1>3, <1>4 DEF Bounded, Limited

\* ... the counter is below the limit; ...
LEMMA BelowLimit ==
  ASSUME Typed', NEW p \in Plans, Limited(p) => sub'[p].count < MaxTransactions[p]
  PROVE  Bounded(p)'
<1> SUFFICES ASSUME Limited(p) PROVE Bounded(p)'
  BY DEF Bounded, Limited
<1>1. Granted(p)' \in SUBSET Requests
  BY DEF Granted
<1>2. /\ Cardinality(Granted(p)') \in Nat /\ Cardinality(Requests) \in Nat
      /\ Cardinality(Granted(p)') <= Cardinality(Requests)
  BY <1>1, GrantedCount
<1>3. sub'[p].count \in Nat /\ MaxTransactions[p] \in Nat
  BY QuotaAssumption DEF Typed, TypeOK, Rows
<1> QED BY <1>2, <1>3 DEF Bounded, Limited

\* ... a granted handler charges what it was granted.
LEMMA GrantCharged ==
  ASSUME Typed, Typed', NEW p \in Plans, NEW r \in Granted(p), Bounded(p),
         sub'[p].count = sub[p].count + 1, Granted(p)' \subseteq Granted(p) \ {r}
  PROVE  Bounded(p)'
<1> SUFFICES ASSUME Limited(p) PROVE Bounded(p)'
  BY DEF Bounded, Limited
<1>1. Granted(p) \in SUBSET Requests /\ Granted(p)' \in SUBSET Requests
  BY DEF Granted
<1>2. /\ IsFiniteSet(Granted(p)) /\ IsFiniteSet(Granted(p) \ {r})
      /\ Cardinality(Granted(p)) \in Nat /\ Cardinality(Granted(p)') \in Nat
      /\ Cardinality(Requests) \in Nat
  BY <1>1, GrantedCount
<1>3. Cardinality(Granted(p) \ {r}) = Cardinality(Granted(p)) - 1
  BY <1>2, FS_RemoveElement
<1>4. Cardinality(Granted(p)') <= Cardinality(Granted(p)) - 1
  BY <1>2, <1>3, FS_Subset
<1>5. sub[p].count \in Nat /\ MaxTransactions[p] \in Nat
  BY CountType
<1> QED BY <1>2, <1>4, <1>5 DEF Bounded, Limited

\* The counters stay, and the handler in slot r is granted nothing new.
LEMMA NotGranted ==
  ASSUME Typed, Typed', NEW r \in Requests, NEW p \in Plans, Bounded(p),
         sub'[p].count <= sub[p].count, NEW q, req' = [req EXCEPT ![r] = q],
         q.pc \notin {"work", "increment"} \/ q.plan # p
  PROVE  Bounded(p)'
BY Leaves, NothingGranted

LEMMA NothingLost ==
  ASSUME Typed, NEW p \in Plans, sub' = sub
  PROVE  sub'[p].count <= sub[p].count
BY CountType

LEMMA FinishBound ==
  ASSUME Typed, Typed', NEW r \in Requests, NEW p \in Plans, Bounded(p),
         sub'[p].count <= sub[p].count, Finish(r)
  PROVE  Bounded(p)'
BY FinishLeaves, NothingGranted

LEMMA GotoBound ==
  ASSUME Typed, Typed', NEW r \in Requests, NEW p \in Plans, Bounded(p),
         sub'[p].count <= sub[p].count, NEW pc, Goto(r, pc),
         pc \notin {"work", "increment"} \/ req[r].plan # p
  PROVE  Bounded(p)'
<1> DEFINE q == [req[r] EXCEPT !.pc = pc]
<1>1. req' = [req EXCEPT ![r] = q]
  BY DEF Goto, Typed, TypeOK
<1>2. q.pc = pc /\ q.plan = req[r].plan
  BY SlotType DEF Typed, RequestRecords
<1> HIDE DEF q
<1> QED BY <1>1, <1>2, NotGranted

LEMMA WorkBound ==
  ASSUME Typed, Typed', NEW r \in Requests, NEW p \in Plans, Bounded(p),
         sub'[p].count <= sub[p].count, NEW o, Work(r, o), o # p
  PROVE  Bounded(p)'
<1> DEFINE q == [Idle EXCEPT !.pc = "work", !.plan = o]
<1>1. req' = [req EXCEPT ![r] = q] /\ q.plan = o
  BY DEF Work, Idle
<1> HIDE DEF q
<1> QED BY <1>1, NotGranted

\* A reset brings a counter to zero.
LEMMA ResetFalls ==
  ASSUME Typed, NEW r \in Requests, NEW o \in Plans, NEW p \in Plans,
         ResetWindow(r, o)
  PROVE  sub'[p].count <= sub[p].count
BY CountType DEF ResetWindow, Typed, TypeOK, Rows

LEMMA OrchestrateBound ==
  ASSUME Typed, Typed', NEW r \in Requests, NEW p \in Plans, Bounded(p), Orchestrate(r)
  PROVE  Bounded(p)'
<1>1. sub'[p].count <= sub[p].count /\ NoPlan # p
  BY OrchestrateCases, NothingLost, QuotaAssumption
<1>2. ASSUME NEW c \in Callers, req' = [req EXCEPT ![r] = Asking(c)] PROVE Bounded(p)'
  BY <1>1, <1>2, AskingType, NotGranted
<1> QED BY <1>1, <1>2, OrchestrateCases, WorkBound

LEMMA RefreshBound ==
  ASSUME Typed, Typed', NEW r \in Requests, NEW p \in Plans, Bounded(p), Refresh(r)
  PROVE  Bounded(p)'
<1>1. PICK o \in Plans :
        \/ Refreshed(r, o) /\ (sub' = sub \/ ResetWindow(r, o))
        \/ Finish(r) /\ sub' = sub
  BY RefreshCases
<1>2. sub'[p].count <= sub[p].count
  BY <1>1, ResetFalls, NothingLost
<1>3. CASE Refreshed(r, o)
  <2>1. PICK q : req' = [req EXCEPT ![r] = q] /\ q.pc = "refresh"
    BY <1>3, RefreshedSlot, RefreshCases
  <2> QED BY <1>2, <2>1, NotGranted
<1> QED BY <1>1, <1>2, <1>3, FinishBound

LEMMA ResolveBound ==
  ASSUME Typed, Typed', NEW r \in Requests, NEW p \in Plans, Bounded(p), Resolve(r)
  PROVE  Bounded(p)'
<1>1. sub'[p].count <= sub[p].count /\ NoPlan # p
  BY ResolveCases, NothingLost, QuotaAssumption
<1>2. ASSUME NEW q, req' = [req EXCEPT ![r] = q], q.pc = "policy" PROVE Bounded(p)'
  BY <1>1, <1>2, NotGranted
<1> QED BY <1>1, <1>2, ResolveCases, WorkBound, FinishBound

LEMMA PolicyBound ==
  ASSUME Typed, Typed', NEW r \in Requests, NEW p \in Plans, Bounded(p),
         ReadPolicy(r) \/ ResetPolicyWindow(r) \/ CheckPolicy(r)
  PROVE  Bounded(p)'
<1>1. CASE ReadPolicy(r)
  <2>1. \A c : (IF c THEN "reset" ELSE "check") \notin {"work", "increment"}
    OBVIOUS
  <2> QED BY <1>1, <2>1, GotoBound, NothingLost DEF ReadPolicy
<1>2. CASE ResetPolicyWindow(r)
  <2>1. req[r].plan \in Plans
    BY <1>2 DEF ResetPolicyWindow, At, Typed, Resolved
  <2>2. sub'[p].count <= sub[p].count
    BY <1>2, <2>1, ResetFalls, NothingLost DEF ResetPolicyWindow
  <2> QED BY <1>2, <2>2, GotoBound, FinishBound DEF ResetPolicyWindow
<1>3. CASE CheckPolicy(r)
  <2>1. sub' = sub /\ sub'[p].count <= sub[p].count
    BY <1>3, NothingLost DEF CheckPolicy
  <2>2. CASE Finish(r)
    BY <2>1, <2>2, FinishBound
  <2>3. CASE Work(r, req[r].plan) /\ req[r].plan # p
    BY <2>1, <2>3, WorkBound
  <2>4. CASE WithinLimit(req[r].plan) /\ req[r].plan = p
    BY <2>1, <2>4, BelowLimit DEF WithinLimit
  <2> QED BY <1>3, <2>2, <2>3, <2>4 DEF CheckPolicy
<1> QED BY <1>1, <1>2, <1>3

LEMMA UsageBound ==
  ASSUME Typed, Typed', NEW r \in Requests, NEW p \in Plans, Bounded(p),
         Abandon(r) \/ ReadUsage(r) \/ IncrementUsage(r)
  PROVE  Bounded(p)'
<1>1. CASE Abandon(r)
  BY <1>1, FinishBound, NothingLost DEF Abandon
<1>2. CASE ReadUsage(r)
  <2>1. sub'[p].count <= sub[p].count
    BY <1>2, ReadUsageCases, NothingLost
  <2>2. ASSUME NEW q, req' = [req EXCEPT ![r] = q], q.plan = req[r].plan
        PROVE  Granted(p)' \subseteq Granted(p)
    <3>1. req[r].pc = "work"
      BY <1>2, ReadUsageCases DEF At
    <3>2. \A o \in Requests : req'[o].plan = req[o].plan /\ (o = r \/ req'[o] = req[o])
      BY <2>2 DEF Typed, TypeOK
    <3> QED BY <3>1, <3>2 DEF Granted
  <2>3. Granted(p)' \subseteq Granted(p)
    BY <1>2, <2>2, ReadUsageCases, FinishLeaves
  <2> QED BY <2>1, <2>3, NothingGranted
<1>3. CASE IncrementUsage(r)
  <2>1. Granted(p)' \subseteq Granted(p) \ {r}
    BY <1>3, FinishLeaves DEF IncrementUsage
  <2>2. CASE req[r].plan = p /\ sub[p].exists
    <3>1. sub'[p].count = sub[p].count + 1
      BY <1>3, <2>2, CountType DEF IncrementUsage, Charged, Typed, TypeOK, Rows
    <3>2. r \in Granted(p)
      BY <1>3, <2>2 DEF IncrementUsage, At, Granted
    <3> QED BY <2>1, <3>1, <3>2, GrantCharged
  <2>3. CASE ~(req[r].plan = p /\ sub[p].exists)
    <3>1. sub'[p].count <= sub[p].count
      BY <1>3, <2>3, CountType DEF IncrementUsage, Charged, Typed, TypeOK, Rows
    <3> QED BY <2>1, <3>1, NothingGranted
  <2> QED BY <2>2, <2>3
<1> QED BY <1>1, <1>2, <1>3

LEMMA PurchaseBound ==
  ASSUME Typed, Typed', NEW r \in Requests, NEW p \in Plans, Bounded(p),
         \/ BeginPurchase(r) \/ BeginSelect(r)
         \/ ReadPeers(r) \/ UpsertPurchase(r) \/ CommitSelect(r)
  PROVE  Bounded(p)'
<1>1. CASE BeginPurchase(r) \/ BeginSelect(r)
  <2>1. PICK q : req' = [req EXCEPT ![r] = q] /\ q.pc \in {"peers", "select"}
    BY <1>1, BeginCases
  <2> QED BY <1>1, <2>1, BeginCases, NothingLost, NotGranted
<1>2. CASE ReadPeers(r)
  <2>1. PICK q : req' = [req EXCEPT ![r] = q] /\ q.pc = "upsert"
    BY <1>2, ReadPeersCases
  <2> QED BY <1>2, <2>1, ReadPeersCases, NothingLost, NotGranted
<1>3. CASE UpsertPurchase(r)
  <2>1. sub'[p].count <= sub[p].count
    BY <1>3, CountType DEF UpsertPurchase, Typed, TypeOK, Rows
  <2> QED BY <1>3, <2>1, FinishBound DEF UpsertPurchase
<1>4. CASE CommitSelect(r)
  <2>1. sub'[p].count <= sub[p].count
    BY <1>4, CommitCases, CountType
  <2> QED BY <1>4, <2>1, FinishBound DEF CommitSelect
<1> QED BY <1>1, <1>2, <1>3, <1>4

LEMMA AdministerBound ==
  ASSUME Typed, Typed', NEW o \in Plans, NEW p \in Plans, Bounded(p), Administer(o)
  PROVE  Bounded(p)'
<1>1. sub'[p].count <= sub[p].count
  BY CountType DEF Administer, NoRow, Typed, TypeOK, Rows
<1>2. Granted(p)' = Granted(p)
  BY DEF Administer, Granted
<1> QED BY <1>1, <1>2, NothingGranted

LEMMA InitBound == Init => \A p \in Plans : Bounded(p)
<1> SUFFICES ASSUME Init, NEW p \in Plans, Limited(p) PROVE Bounded(p)
  BY DEF Bounded
<1>1. Granted(p) = {} /\ sub[p].count = 0
  BY DEF Init, Granted, Idle, NoRow
<1>2. Cardinality(Granted(p)) = 0 /\ Cardinality(Requests) \in Nat
  BY <1>1, FS_EmptySet, GrantedCount
<1> QED BY <1>1, <1>2, QuotaAssumption DEF Bounded, Limited

LEMMA NextBound ==
  Typed /\ Typed' /\ (\A p \in Plans : Bounded(p)) /\ [Next]_vars
    => (\A p \in Plans : Bounded(p))'
<1> SUFFICES ASSUME Typed, Typed', NEW p \in Plans, Bounded(p), [Next]_vars
             PROVE  Bounded(p)'
  OBVIOUS
<1>1. CASE UNCHANGED vars
  BY <1>1 DEF vars, Bounded, Limited, Granted
<1>2. ASSUME NEW r \in Requests,
             Orchestrate(r) \/ BeginPurchase(r) \/ BeginSelect(r) \/ Step(r)
      PROVE  Bounded(p)'
  BY <1>2, OrchestrateBound, RefreshBound, ResolveBound, PolicyBound, UsageBound,
     PurchaseBound DEF Step
<1>3. ASSUME NEW o \in Plans, Administer(o) PROVE Bounded(p)'
  BY <1>3, AdministerBound
<1>4. CASE Tick
  BY <1>4 DEF Tick, Bounded, Limited, Granted
<1> QED BY <1>1, <1>2, <1>3, <1>4 DEF Next

\* For every set of handlers and plans and every limit: a plan's limit is
\* overrun by less than the number of handlers, counting those that were
\* granted a transaction and have not charged it yet.
THEOREM QuotaOverrun == Spec => []OverrunIsBounded
<1>1. Spec => []Typed
  BY InitType, NextType, PTL DEF Spec
<1>2. (\A p \in Plans : Bounded(p)) <=> OverrunIsBounded
  BY DEF OverrunIsBounded, Bounded
<1>3. Init => OverrunIsBounded
  BY <1>2, InitBound
<1>4. Typed /\ Typed' /\ OverrunIsBounded /\ [Next]_vars => OverrunIsBounded'
  BY NextBound DEF OverrunIsBounded, Bounded
<1> QED BY <1>1, <1>3, <1>4, PTL DEF Spec
-----------------------------------------------------------------------------
(* What the rows and the handlers look like in every state.                *)

\* A row that is gone has no window and is not selected; a handler holds what
\* it read of a window only while the row is still to be refreshed.
Rooted == \A p \in Plans : sub[p].start # Unset \/ sub[p].selected => sub[p].exists

Looking(q) == \A p \in Plans : q.seen[p] # Unset => q.pc = "refresh" /\ p \in q.todo

Sound == Rooted /\ \A r \in Requests : Looking(req[r])

LEMMA IdleLooks ==
  /\ Looking(Idle)
  /\ \A o : Looking([Idle EXCEPT !.pc = "work", !.plan = o])
BY DEF Looking, Idle

\* A handler that is not refreshing holds no window.
LEMMA Blank ==
  ASSUME Sound, NEW r \in Requests, ~At(r, "refresh"), NEW p \in Plans
  PROVE  req[r].seen[p] = Unset
BY DEF Sound, Looking, At

LEMMA SlotLooks ==
  ASSUME Typed, Sound, NEW r \in Requests, NEW q, Looking(q), req' = [req EXCEPT ![r] = q]
  PROVE  \A s \in Requests : Looking(req'[s])
BY DEF Typed, TypeOK, Sound

LEMMA FinishLooks ==
  ASSUME Typed, Sound, NEW r \in Requests, Finish(r)
  PROVE  \A s \in Requests : Looking(req'[s])
BY IdleLooks, SlotLooks DEF Finish

LEMMA WorkLooks ==
  ASSUME Typed, Sound, NEW r \in Requests, NEW p, Work(r, p)
  PROVE  \A s \in Requests : Looking(req'[s])
BY IdleLooks, SlotLooks DEF Work

\* The slot of a handler that goes on without a window to look at.
LEMMA OnLooks ==
  ASSUME Typed, Sound, NEW r \in Requests, ~At(r, "refresh") \/ req[r].todo = {},
         NEW q, q.seen = req[r].seen, req' = [req EXCEPT ![r] = q]
  PROVE  \A s \in Requests : Looking(req'[s])
BY SlotLooks DEF Sound, Looking, At

LEMMA GotoSlot ==
  ASSUME Typed, NEW r \in Requests, NEW pc, Goto(r, pc)
  PROVE  \E q : /\ req' = [req EXCEPT ![r] = q]
                /\ q.pc = pc /\ q.plan = req[r].plan /\ q.todo = req[r].todo
                /\ q.seen = req[r].seen
<1> DEFINE q == [req[r] EXCEPT !.pc = pc]
<1>1. req' = [req EXCEPT ![r] = q]
  BY DEF Goto, Typed, TypeOK
<1>2. q.pc = pc /\ q.plan = req[r].plan /\ q.todo = req[r].todo /\ q.seen = req[r].seen
  BY SlotType DEF Typed, RequestRecords
<1> QED BY <1>1, <1>2

\* What the writes do to the rows.
LEMMA ResetCases ==
  ASSUME Typed, NEW r \in Requests, NEW p \in Plans, ResetWindow(r, p)
  PROVE  /\ \A o \in Plans \ {p} : /\ sub'[o] = sub[o] /\ served'[o] = served[o]
                                   /\ torn'[o] = torn[o]
         /\ sub'[p].exists = sub[p].exists /\ sub'[p].selected = sub[p].selected
         /\ sub'[p].count = 0 /\ sub'[p].start = epoch /\ crossed' = crossed
         /\ ~torn'[p] => /\ Holders(p) = {r}
                         /\ ~torn[p] \/ sub[p].start \in 0 .. epoch - 1
         /\ sub[p].start \in 0 .. epoch - 1 => served'[p] = 0
BY DEF ResetWindow, Typed, TypeOK, Rows

LEMMA IncrementCases ==
  ASSUME Typed, NEW r \in Requests, IncrementUsage(r)
  PROVE  /\ At(r, "increment") /\ Finish(r) /\ UNCHANGED <<epoch, crossed>>
         /\ \/ UNCHANGED <<sub, served, torn>>
            \/ LET p == req[r].plan
               IN  /\ p \in Plans /\ sub[p].exists
                   /\ \A o \in Plans \ {p} : /\ sub'[o] = sub[o] /\ served'[o] = served[o]
                                             /\ torn'[o] = torn[o]
                   /\ sub'[p].exists /\ sub'[p].selected = sub[p].selected
                   /\ sub'[p].count = sub[p].count + 1 /\ served'[p] = served[p] + 1
                   /\ ~torn'[p] => ~torn[p] /\ (sub'[p].start = sub[p].start \/ Holders(p) = {})
<1> DEFINE p == req[r].plan
<1>1. At(r, "increment") /\ Finish(r) /\ UNCHANGED <<epoch, crossed>>
  BY DEF IncrementUsage
<1>2. p \in Plans
  BY <1>1 DEF At, Typed, Resolved
<1>3. ASSUME sub[p].exists
      PROVE  /\ \A o \in Plans \ {p} : /\ sub'[o] = sub[o] /\ served'[o] = served[o]
                                       /\ torn'[o] = torn[o]
             /\ sub'[p].exists /\ sub'[p].selected = sub[p].selected
             /\ sub'[p].count = sub[p].count + 1 /\ served'[p] = served[p] + 1
             /\ ~torn'[p] => ~torn[p] /\ (sub'[p].start = sub[p].start \/ Holders(p) = {})
  <2>1. sub'[p] = [sub[p] EXCEPT !.count = @ + 1,
                     !.start = IF req[r].start = Unset THEN epoch ELSE @]
    BY <1>2, <1>3 DEF IncrementUsage, Charged, Typed, TypeOK, Rows
  <2>2. /\ sub'[p].exists /\ sub'[p].selected = sub[p].selected
        /\ sub'[p].count = sub[p].count + 1
        /\ sub'[p].start = sub[p].start \/ req[r].start = Unset
    BY <1>2, <1>3, <2>1 DEF Typed, TypeOK, Rows
  <2>3. /\ served'[p] = served[p] + 1
        /\ torn'[p] = (torn[p] \/ (req[r].start = Unset /\ Holders(p) # {}))
    BY <1>2, <1>3 DEF IncrementUsage, Typed, TypeOK
  <2>4. \A o \in Plans \ {p} : /\ sub'[o] = sub[o] /\ served'[o] = served[o]
                               /\ torn'[o] = torn[o]
    BY <1>2, <1>3 DEF IncrementUsage, Typed, TypeOK
  <2> QED BY <2>2, <2>3, <2>4
<1>4. ~sub[p].exists => UNCHANGED <<sub, served, torn>>
  BY DEF IncrementUsage
<1> QED BY <1>1, <1>2, <1>3, <1>4

LEMMA UpsertCases ==
  ASSUME Typed, NEW r \in Requests, UpsertPurchase(r)
  PROVE  LET p == req[r].plan
         IN  /\ p \in Plans /\ At(r, "upsert") /\ Finish(r) /\ UNCHANGED epoch
             /\ \A o \in Plans \ {p} : /\ sub'[o] = sub[o] /\ served'[o] = served[o]
                                       /\ torn'[o] = torn[o]
             /\ sub'[p].exists /\ sub'[p].selected = req[r].selected
             /\ sub'[p].count = 0 /\ served'[p] = 0
             /\ ~torn'[p] => Holders(p) = {}
             /\ ~crossed' => ~crossed /\ (req[r].selected => Choosers = {r})
<1> DEFINE p == req[r].plan
<1>1. p \in Plans /\ At(r, "upsert")
  BY DEF UpsertPurchase, At, Typed, Resolved
<1>2. sub'[p] = [exists |-> TRUE, live |-> TRUE, count |-> 0, start |-> Unset,
                 selected |-> req[r].selected]
  BY <1>1 DEF UpsertPurchase, Typed, TypeOK
<1>3. /\ served'[p] = 0 /\ torn'[p] = (Holders(p) # {})
      /\ crossed' = (crossed \/ (req[r].selected /\ Choosers # {r}))
  BY <1>1 DEF UpsertPurchase, Typed, TypeOK
<1>4. \A o \in Plans \ {p} : /\ sub'[o] = sub[o] /\ served'[o] = served[o]
                             /\ torn'[o] = torn[o]
  BY <1>1 DEF UpsertPurchase, Typed, TypeOK
<1>5. /\ sub'[p].exists /\ sub'[p].selected = req[r].selected /\ sub'[p].count = 0
  BY <1>2
<1>6. Finish(r) /\ UNCHANGED epoch
  BY DEF UpsertPurchase
<1> QED BY <1>1, <1>3, <1>4, <1>5, <1>6

LEMMA AdministerCases ==
  ASSUME Typed, NEW p \in Plans, Administer(p)
  PROVE  /\ UNCHANGED <<epoch, req, crossed>>
         /\ \A o \in Plans \ {p} : /\ sub'[o] = sub[o] /\ served'[o] = served[o]
                                   /\ torn'[o] = torn[o]
         /\ \/ /\ sub'[p].exists /\ sub'[p].selected = sub[p].selected
               /\ sub'[p].count = sub[p].count /\ sub'[p].start = sub[p].start
               /\ served'[p] = served[p] /\ torn'[p] = torn[p]
            \/ sub'[p] = NoRow /\ served'[p] = 0 /\ (~torn'[p] => Holders(p) = {})
<1>1. UNCHANGED <<epoch, req, crossed>>
  BY DEF Administer
<1>2. \A o \in Plans \ {p} : /\ sub'[o] = sub[o] /\ served'[o] = served[o]
                             /\ torn'[o] = torn[o]
  BY DEF Administer, Typed, TypeOK
<1>3. CASE /\ \E live \in BOOLEAN : sub' = [sub EXCEPT ![p].exists = TRUE, ![p].live = live]
           /\ UNCHANGED <<served, torn>>
  <2>1. /\ sub'[p].exists /\ sub'[p].selected = sub[p].selected
        /\ sub'[p].count = sub[p].count /\ sub'[p].start = sub[p].start
    BY <1>3 DEF Typed, TypeOK, Rows
  <2> QED BY <1>1, <1>2, <1>3, <2>1
<1>4. CASE /\ sub' = [sub EXCEPT ![p] = NoRow] /\ served' = [served EXCEPT ![p] = 0]
           /\ torn' = [torn EXCEPT ![p] = Holders(p) # {}]
  <2>1. sub'[p] = NoRow /\ served'[p] = 0 /\ torn'[p] = (Holders(p) # {})
    BY <1>4 DEF Typed, TypeOK
  <2> QED BY <1>1, <1>2, <2>1
<1> QED BY <1>3, <1>4 DEF Administer

LEMMA NextSound == Typed /\ Sound /\ [Next]_vars => Sound'
<1> SUFFICES ASSUME Typed, Sound, [Next]_vars PROVE Sound'
  OBVIOUS
<1>1. CASE UNCHANGED vars
  BY <1>1 DEF vars, Sound, Rooted, Looking
<1>2. CASE Tick
  BY <1>2 DEF Tick, Sound, Rooted, Looking
<1>3. ASSUME NEW p \in Plans, Administer(p) PROVE Sound'
  <2>1. Rooted'
    BY <1>3, AdministerCases DEF Sound, Rooted, NoRow
  <2>2. \A s \in Requests : Looking(req'[s])
    BY <1>3, AdministerCases DEF Sound
  <2> QED BY <2>1, <2>2 DEF Sound
<1>4. ASSUME NEW r \in Requests, Orchestrate(r) PROVE Sound'
  <2>1. Rooted'
    BY <1>4, OrchestrateCases DEF Sound, Rooted
  <2>2. ASSUME NEW c \in Callers PROVE Looking(Asking(c))
    BY AskingType DEF Looking, Sound, Rooted, Existing
  <2> QED BY <1>4, <2>1, <2>2, OrchestrateCases, SlotLooks, WorkLooks DEF Sound
<1>5. ASSUME NEW r \in Requests, Refresh(r) PROVE Sound'
  <2>1. PICK p \in Plans :
          \/ Refreshed(r, p) /\ UNCHANGED sub
          \/ sub[p].exists /\ ResetWindow(r, p) /\ Refreshed(r, p)
          \/ Finish(r) /\ UNCHANGED sub
    BY <1>5, RefreshCases
  <2>2. Rooted'
    BY <2>1, ResetCases DEF Sound, Rooted
  <2>3. ASSUME Refreshed(r, p) PROVE \A s \in Requests : Looking(req'[s])
    <3>1. PICK q : /\ req' = [req EXCEPT ![r] = q]
                   /\ q.pc = "refresh" /\ q.todo = req[r].todo \ {p}
                   /\ q.seen = [req[r].seen EXCEPT ![p] = Unset]
      BY <1>5, <2>3, RefreshedSlot, RefreshCases
    <3>2. req[r].seen \in [Plans -> Starts] /\ Looking(req[r])
      BY SlotType DEF Typed, Sound
    <3>3. Looking(q)
      BY <3>1, <3>2 DEF Looking
    <3> QED BY <3>1, <3>3, SlotLooks
  <2> QED BY <2>1, <2>2, <2>3, FinishLooks DEF Sound
<1>6. ASSUME NEW r \in Requests, Resolve(r) PROVE Sound'
  <2>1. Rooted'
    BY <1>6, ResolveCases DEF Sound, Rooted
  <2>2. req[r].todo = {}
    BY <1>6 DEF Resolve
  <2> QED BY <1>6, <2>1, <2>2, ResolveCases, OnLooks, WorkLooks, FinishLooks DEF Sound
<1>7. ASSUME NEW r \in Requests, ReadPolicy(r) \/ ResetPolicyWindow(r) \/ CheckPolicy(r)
      PROVE  Sound'
  <2>1. ~At(r, "refresh") /\ req[r].plan \in Plans
    BY <1>7 DEF ReadPolicy, ResetPolicyWindow, CheckPolicy, At, Typed, Resolved
  <2>2. UNCHANGED sub \/ (sub[req[r].plan].exists /\ ResetWindow(r, req[r].plan))
    BY <1>7 DEF ReadPolicy, ResetPolicyWindow, CheckPolicy
  <2>3. Rooted'
    BY <2>1, <2>2, ResetCases DEF Sound, Rooted
  <2>4. Finish(r) \/ Work(r, req[r].plan) \/ \E pc : Goto(r, pc)
    BY <1>7 DEF ReadPolicy, ResetPolicyWindow, CheckPolicy
  <2> QED BY <2>1, <2>3, <2>4, GotoSlot, OnLooks, WorkLooks, FinishLooks DEF Sound
<1>8. ASSUME NEW r \in Requests, Abandon(r) \/ ReadUsage(r) PROVE Sound'
  <2>1. Rooted'
    BY <1>8, ReadUsageCases DEF Abandon, Sound, Rooted
  <2>2. CASE Abandon(r)
    BY <2>1, <2>2, FinishLooks DEF Abandon, Sound
  <2>3. CASE ReadUsage(r)
    <3>1. ~At(r, "refresh")
      BY <2>3, ReadUsageCases DEF At
    <3> QED BY <2>1, <2>3, <3>1, ReadUsageCases, OnLooks, FinishLooks DEF Sound
  <2> QED BY <1>8, <2>2, <2>3
<1>9. ASSUME NEW r \in Requests, IncrementUsage(r) PROVE Sound'
  <2>1. Rooted'
    BY <1>9, IncrementCases DEF Sound, Rooted
  <2> QED BY <1>9, <2>1, IncrementCases, FinishLooks DEF Sound
<1>10. ASSUME NEW r \in Requests, BeginPurchase(r) \/ BeginSelect(r) PROVE Sound'
  <2>1. Rooted'
    BY <1>10, BeginCases DEF Sound, Rooted
  <2>2. PICK q : req' = [req EXCEPT ![r] = q] /\ q.seen = [o \in Plans |-> Unset]
    BY <1>10, BeginCases
  <2>3. Looking(q)
    BY <2>2 DEF Looking
  <2> QED BY <2>1, <2>2, <2>3, SlotLooks DEF Sound
<1>11. ASSUME NEW r \in Requests, ReadPeers(r) PROVE Sound'
  <2>1. Rooted' /\ ~At(r, "refresh")
    BY <1>11, ReadPeersCases DEF Sound, Rooted, At
  <2> QED BY <1>11, <2>1, ReadPeersCases, OnLooks DEF Sound
<1>12. ASSUME NEW r \in Requests, UpsertPurchase(r) \/ CommitSelect(r) PROVE Sound'
  <2>1. CASE UpsertPurchase(r)
    <3>1. Rooted'
      BY <2>1, UpsertCases DEF Sound, Rooted
    <3> QED BY <2>1, <3>1, UpsertCases, FinishLooks DEF Sound
  <2>2. CASE CommitSelect(r)
    <3>1. Rooted'
      BY <2>2, CommitCases DEF Sound, Rooted
    <3> QED BY <2>2, <3>1, CommitCases, FinishLooks DEF Sound
  <2> QED BY <1>12, <2>1, <2>2
<1> QED BY <1>1, <1>2, <1>3, <1>4, <1>5, <1>6, <1>7, <1>8, <1>9, <1>10, <1>11, <1>12
        DEF Next, Step

LEMMA InitSound == Init => Sound
<1> SUFFICES ASSUME Init PROVE Sound
  OBVIOUS
<1>1. Rooted
  BY DEF Init, Rooted, NoRow
<1>2. \A r \in Requests : Looking(req[r])
  BY IdleLooks DEF Init
<1> QED BY <1>1, <1>2 DEF Sound

-----------------------------------------------------------------------------
(* The counter is what was charged in the window.                          *)

\* While the window of p is not torn, whoever read it read the one there is,
\* and whoever is about to reset it resets one that is over.
Tallied(p) ==
  ~torn[p] => /\ sub[p].count = served[p]
              /\ \A s \in Requests :
                   /\ req[s].seen[p] # Unset => req[s].seen[p] = sub[p].start
                   /\ req[s].pc = "reset" /\ req[s].plan = p => WindowOver(sub[p].start)

\* A step of r that leaves the row and what was charged alone.
LEMMA StillTallied ==
  ASSUME Typed, NEW p \in Plans, Tallied(p), NEW r \in Requests, NEW q,
         req' = [req EXCEPT ![r] = q], epoch' = epoch,
         q.seen[p] \in {req[r].seen[p], Unset, sub[p].start},
         q.pc = "reset" /\ q.plan = p => WindowOver(sub[p].start),
         sub'[p].count = sub[p].count, sub'[p].start = sub[p].start,
         served'[p] = served[p], torn'[p] = torn[p]
  PROVE  Tallied(p)'
<1>1. WindowOver(sub[p].start)' <=> WindowOver(sub[p].start)
  BY DEF WindowOver
<1>2. req'[r] = q /\ \A s \in Requests \ {r} : req'[s] = req[s]
  BY DEF Typed, TypeOK
<1> QED BY <1>1, <1>2 DEF Tallied

\* The way a handler leaves its slot without a window.
LEMMA Bare ==
  /\ Idle.pc = "idle" /\ \A p \in Plans : Idle.seen[p] = Unset
  /\ \A o : LET q == [Idle EXCEPT !.pc = "work", !.plan = o]
            IN  q.pc = "work" /\ \A p \in Plans : q.seen[p] = Unset
BY DEF Idle

LEMMA FinishTallied ==
  ASSUME Typed, NEW p \in Plans, Tallied(p), NEW r \in Requests, Finish(r),
         epoch' = epoch, sub'[p].count = sub[p].count, sub'[p].start = sub[p].start,
         served'[p] = served[p], torn'[p] = torn[p]
  PROVE  Tallied(p)'
BY Bare, StillTallied DEF Finish

LEMMA WorkTallied ==
  ASSUME Typed, NEW p \in Plans, Tallied(p), NEW r \in Requests, NEW o, Work(r, o),
         UNCHANGED <<sub, epoch, history>>
  PROVE  Tallied(p)'
<1> DEFINE q == [Idle EXCEPT !.pc = "work", !.plan = o]
<1>1. q.pc = "work" /\ q.seen[p] = Unset /\ req' = [req EXCEPT ![r] = q]
  BY Bare DEF Work
<1> HIDE DEF q
<1> QED BY <1>1, StillTallied DEF history

\* A reset of p by r: a window that is not torn by it was held by r alone.
LEMMA ResetTallied ==
  ASSUME Typed, Sound, NEW p \in Plans, Tallied(p), NEW r \in Requests, NEW q,
         req' = [req EXCEPT ![r] = q], epoch' = epoch, q.seen[p] = Unset,
         q.pc # "reset", ResetWindow(r, p),
         \/ WindowOver(req[r].seen[p])
         \/ At(r, "reset") /\ req[r].plan = p
  PROVE  Tallied(p)'
<1> SUFFICES ASSUME ~torn'[p] PROVE Tallied(p)'
  BY DEF Tallied
<1>1. Holders(p) = {r} /\ (~torn[p] \/ sub[p].start \in 0 .. epoch - 1)
  BY ResetCases
<1>2. ~torn[p] => WindowOver(sub[p].start)
  BY DEF Tallied, WindowOver, At
<1>3. sub[p].start \in Starts /\ epoch \in 0 .. MaxEpoch
  BY DEF Typed, TypeOK, Rows
<1>4. sub[p].start \in 0 .. epoch - 1
  BY <1>1, <1>2, <1>3, QuotaAssumption DEF WindowOver, Starts, Unset
<1>5. sub'[p].count = served'[p]
  BY <1>4, ResetCases
<1>6. ASSUME NEW s \in Requests
      PROVE  req'[s].seen[p] = Unset /\ ~(req'[s].pc = "reset" /\ req'[s].plan = p)
  <2>1. CASE s = r
    BY <2>1 DEF Typed, TypeOK
  <2>2. CASE s # r
    <3>1. s \notin Holders(p) /\ req'[s] = req[s]
      BY <1>1, <2>2 DEF Typed, TypeOK
    <3> QED BY <3>1 DEF Holders, At
  <2> QED BY <2>1, <2>2
<1> QED BY <1>5, <1>6 DEF Tallied

\* A row that was begun anew while nobody held its window.
LEMMA FreshTallied ==
  ASSUME Typed, NEW p \in Plans, Holders(p) = {}, sub'[p].count = served'[p],
         req' = req \/ \E r \in Requests : Finish(r)
  PROVE  Tallied(p)'
<1>1. ASSUME NEW s \in Requests
      PROVE  req'[s].seen[p] = Unset /\ ~(req'[s].pc = "reset" /\ req'[s].plan = p)
  <2>1. req'[s] = req[s] \/ req'[s] = Idle
    BY DEF Finish, Typed, TypeOK
  <2> QED BY <2>1, Bare DEF Holders, At
<1> QED BY <1>1 DEF Tallied

LEMMA OrchestrateTallied ==
  ASSUME Typed, NEW p \in Plans, Tallied(p), NEW r \in Requests, Orchestrate(r)
  PROVE  Tallied(p)'
<1>1. UNCHANGED <<sub, epoch, history>>
  BY OrchestrateCases
<1>2. ASSUME NEW c \in Callers, req' = [req EXCEPT ![r] = Asking(c)] PROVE Tallied(p)'
  <2>1. Asking(c).seen[p] = sub[p].start /\ Asking(c).pc = "refresh"
    BY AskingType
  <2> QED BY <1>1, <1>2, <2>1, StillTallied DEF history
<1> QED BY <1>1, <1>2, OrchestrateCases, WorkTallied

LEMMA RefreshTallied ==
  ASSUME Typed, Sound, NEW p \in Plans, Tallied(p), NEW r \in Requests, Refresh(r)
  PROVE  Tallied(p)'
<1>1. epoch' = epoch /\ At(r, "refresh")
  BY RefreshCases
<1>2. PICK o \in Plans :
        \/ Refreshed(r, o) /\ UNCHANGED <<sub, history>>
        \/ WindowOver(req[r].seen[o]) /\ ResetWindow(r, o) /\ Refreshed(r, o)
        \/ Finish(r) /\ UNCHANGED <<sub, history>>
  BY RefreshCases
<1>3. CASE Finish(r) /\ UNCHANGED <<sub, history>>
  BY <1>1, <1>3, FinishTallied DEF history
<1>4. CASE Refreshed(r, o)
  <2>1. PICK q : /\ req' = [req EXCEPT ![r] = q] /\ q.pc = "refresh"
                 /\ q.seen = [req[r].seen EXCEPT ![o] = Unset]
    BY <1>1, <1>4, RefreshedSlot
  <2>2. /\ o = p => q.seen[p] = Unset
        /\ o # p => q.seen[p] = req[r].seen[p]
    BY <2>1, SlotType DEF Typed
  <2>3. CASE UNCHANGED <<sub, history>>
    BY <1>1, <2>1, <2>2, <2>3, StillTallied DEF history
  <2>4. CASE WindowOver(req[r].seen[o]) /\ ResetWindow(r, o) /\ o = p
    BY <1>1, <2>1, <2>2, <2>4, ResetTallied
  <2>5. CASE ResetWindow(r, o) /\ o # p
    BY <1>1, <2>1, <2>2, <2>5, ResetCases, StillTallied
  <2> QED BY <1>2, <1>3, <2>3, <2>4, <2>5
<1> QED BY <1>2, <1>3, <1>4

LEMMA ResolveTallied ==
  ASSUME Typed, NEW p \in Plans, Tallied(p), NEW r \in Requests, Resolve(r)
  PROVE  Tallied(p)'
<1>1. UNCHANGED <<sub, epoch, history>>
  BY ResolveCases
<1>2. ASSUME NEW q, req' = [req EXCEPT ![r] = q], q.pc = "policy", q.seen = req[r].seen
      PROVE  Tallied(p)'
  BY <1>1, <1>2, StillTallied DEF history
<1> QED BY <1>1, <1>2, ResolveCases, WorkTallied, FinishTallied DEF history

LEMMA PolicyTallied ==
  ASSUME Typed, Sound, NEW p \in Plans, Tallied(p), NEW r \in Requests,
         ReadPolicy(r) \/ ResetPolicyWindow(r) \/ CheckPolicy(r)
  PROVE  Tallied(p)'
<1> DEFINE o == req[r].plan
<1>1. o \in Plans
  BY DEF ReadPolicy, ResetPolicyWindow, CheckPolicy, At, Typed, Resolved
<1>2. CASE ReadPolicy(r)
  <2>1. PICK pc : Goto(r, pc) /\ (pc = "reset" => WindowOver(sub[o].start))
    BY <1>2 DEF ReadPolicy
  <2>2. UNCHANGED <<sub, epoch, history>>
    BY <1>2 DEF ReadPolicy
  <2> QED BY <2>1, <2>2, GotoSlot, StillTallied DEF history
<1>3. CASE ResetPolicyWindow(r)
  <2>1. At(r, "reset") /\ epoch' = epoch
    BY <1>3 DEF ResetPolicyWindow
  <2>2. CASE Finish(r) /\ UNCHANGED <<sub, history>>
    BY <2>1, <2>2, FinishTallied DEF history
  <2>3. CASE ResetWindow(r, o) /\ Goto(r, "check")
    <3>1. PICK q : req' = [req EXCEPT ![r] = q] /\ q.pc = "check" /\ q.seen = req[r].seen
      BY <2>3, GotoSlot
    <3>2. q.seen[p] = Unset
      BY <2>1, <3>1, Blank DEF At
    <3>3. CASE o = p
      BY <2>1, <2>3, <3>1, <3>2, <3>3, ResetTallied
    <3>4. CASE o # p
      BY <1>1, <2>1, <2>3, <3>1, <3>2, <3>4, ResetCases, StillTallied
    <3> QED BY <3>3, <3>4
  <2> QED BY <1>3, <2>2, <2>3 DEF ResetPolicyWindow
<1>4. CASE CheckPolicy(r)
  <2>1. UNCHANGED <<sub, epoch, history>> /\ (Finish(r) \/ Work(r, o))
    BY <1>4 DEF CheckPolicy
  <2> QED BY <2>1, WorkTallied, FinishTallied DEF history
<1> QED BY <1>2, <1>3, <1>4

LEMMA UsageTallied ==
  ASSUME Typed, NEW p \in Plans, Tallied(p), NEW r \in Requests,
         Abandon(r) \/ ReadUsage(r) \/ IncrementUsage(r)
  PROVE  Tallied(p)'
<1>1. CASE Abandon(r)
  BY <1>1, FinishTallied DEF Abandon, history
<1>2. CASE ReadUsage(r)
  <2>1. UNCHANGED <<sub, epoch, history>>
    BY <1>2, ReadUsageCases
  <2>2. ASSUME NEW q, req' = [req EXCEPT ![r] = q], q.pc = "increment", q.seen = req[r].seen
        PROVE  Tallied(p)'
    BY <2>1, <2>2, StillTallied DEF history
  <2> QED BY <1>2, <2>1, <2>2, ReadUsageCases, FinishTallied DEF history
<1>3. CASE IncrementUsage(r)
  <2>1. Finish(r) /\ epoch' = epoch
    BY <1>3, IncrementCases
  <2>2. CASE UNCHANGED <<sub, served, torn>> \/ req[r].plan # p
    BY <1>3, <2>1, <2>2, IncrementCases, FinishTallied
  <2>3. CASE req[r].plan = p /\ ~UNCHANGED <<sub, served, torn>>
    <3>1. /\ sub'[p].count = sub[p].count + 1 /\ served'[p] = served[p] + 1
          /\ ~torn'[p] => ~torn[p] /\ (sub'[p].start = sub[p].start \/ Holders(p) = {})
      BY <1>3, <2>3, IncrementCases
    <3>2. CASE ~torn'[p] /\ Holders(p) = {}
      <4>1. sub'[p].count = served'[p]
        BY <3>1, <3>2 DEF Tallied
      <4> QED BY <2>1, <3>2, <4>1, FreshTallied
    <3>3. CASE ~torn'[p] /\ sub'[p].start = sub[p].start
      <4>1. sub'[p].count = served'[p] /\ ~torn[p]
        BY <3>1, <3>3 DEF Tallied
      <4>2. ASSUME NEW s \in Requests
            PROVE  /\ req'[s].seen[p] # Unset => req'[s].seen[p] = sub'[p].start
                   /\ req'[s].pc = "reset" /\ req'[s].plan = p => WindowOver(sub[p].start)'
        <5>1. req'[s] = req[s] \/ req'[s] = Idle
          BY <2>1 DEF Finish, Typed, TypeOK
        <5>2. CASE req'[s] = Idle
          BY <5>2, Bare
        <5>3. CASE req'[s] = req[s]
          BY <2>1, <3>3, <4>1, <5>3 DEF Tallied, WindowOver
        <5> QED BY <5>1, <5>2, <5>3
      <4> QED BY <4>1, <4>2 DEF Tallied
    <3> QED BY <3>1, <3>2, <3>3 DEF Tallied
  <2> QED BY <2>2, <2>3
<1> QED BY <1>1, <1>2, <1>3

LEMMA PurchaseTallied ==
  ASSUME Typed, NEW p \in Plans, Tallied(p), NEW r \in Requests,
         \/ BeginPurchase(r) \/ BeginSelect(r)
         \/ ReadPeers(r) \/ UpsertPurchase(r) \/ CommitSelect(r)
  PROVE  Tallied(p)'
<1>1. CASE BeginPurchase(r) \/ BeginSelect(r)
  <2>1. PICK q : /\ req' = [req EXCEPT ![r] = q] /\ q.seen = [o \in Plans |-> Unset]
                 /\ q.pc \in {"peers", "select"}
    BY <1>1, BeginCases
  <2>2. q.seen[p] = Unset
    BY <2>1
  <2> QED BY <1>1, <2>1, <2>2, BeginCases, StillTallied DEF history
<1>2. CASE ReadPeers(r)
  <2>1. PICK q : req' = [req EXCEPT ![r] = q] /\ q.seen = req[r].seen /\ q.pc = "upsert"
    BY <1>2, ReadPeersCases
  <2> QED BY <1>2, <2>1, ReadPeersCases, StillTallied DEF history
<1>3. CASE UpsertPurchase(r)
  <2>1. CASE req[r].plan = p
    <3>1. sub'[p].count = served'[p] /\ (~torn'[p] => Holders(p) = {}) /\ Finish(r)
      BY <1>3, <2>1, UpsertCases
    <3>2. CASE torn'[p]
      BY <3>2 DEF Tallied
    <3> QED BY <3>1, <3>2, FreshTallied
  <2>2. CASE req[r].plan # p
    BY <1>3, <2>2, UpsertCases, FinishTallied
  <2> QED BY <2>1, <2>2
<1>4. CASE CommitSelect(r)
  BY <1>4, CommitCases, FinishTallied
<1> QED BY <1>1, <1>2, <1>3, <1>4

LEMMA AdministerTallied ==
  ASSUME Typed, NEW p \in Plans, Tallied(p), NEW o \in Plans, Administer(o)
  PROVE  Tallied(p)'
<1>1. req' = req /\ epoch' = epoch
  BY AdministerCases
<1>2. CASE /\ sub'[p].count = sub[p].count /\ sub'[p].start = sub[p].start
           /\ served'[p] = served[p] /\ torn'[p] = torn[p]
  BY <1>1, <1>2 DEF Tallied, WindowOver
<1>3. CASE sub'[p] = NoRow /\ served'[p] = 0 /\ (~torn'[p] => Holders(p) = {})
  <2>1. sub'[p].count = served'[p]
    BY <1>3 DEF NoRow
  <2>2. CASE torn'[p]
    BY <2>2 DEF Tallied
  <2> QED BY <1>1, <1>3, <2>1, <2>2, FreshTallied
<1> QED BY <1>2, <1>3, AdministerCases

LEMMA TickTallied ==
  ASSUME Typed, NEW p \in Plans, Tallied(p), Tick PROVE Tallied(p)'
<1>1. sub[p].start \in Starts /\ sub' = sub /\ epoch' = epoch + 1
  BY DEF Tick, Typed, TypeOK, Rows
<1>2. WindowOver(sub[p].start) => WindowOver(sub[p].start)'
  BY <1>1, QuotaAssumption DEF WindowOver, Starts, Unset, Typed, TypeOK
<1> QED BY <1>1, <1>2 DEF Tick, history, Tallied

LEMMA NextTallied ==
  ASSUME Typed, Sound, NEW p \in Plans, Tallied(p), [Next]_vars PROVE Tallied(p)'
<1>1. CASE UNCHANGED vars
  BY <1>1 DEF vars, history, Tallied, WindowOver
<1>2. ASSUME NEW r \in Requests,
             Orchestrate(r) \/ BeginPurchase(r) \/ BeginSelect(r) \/ Step(r)
      PROVE  Tallied(p)'
  BY <1>2, OrchestrateTallied, RefreshTallied, ResolveTallied, PolicyTallied,
     UsageTallied, PurchaseTallied DEF Step
<1> QED BY <1>1, <1>2, AdministerTallied, TickTallied DEF Next

\* For every set of handlers, plans and limits, and however they overlap: the
\* counter of a subscription is what was charged in its window, unless the
\* window began while a handler still held an older one; so no reset, of the
\* three there are, wipes a window that is not over but by such a handler.
THEOREM UsageIsCountedHolds == Spec => []UsageIsCounted
<1> DEFINE Inv == Typed /\ Sound /\ \A p \in Plans : Tallied(p)
<1>1. Init => Inv
  <2>1. ASSUME Init, NEW p \in Plans PROVE Tallied(p)
    BY <2>1, Bare DEF Init, Tallied, NoRow
  <2> QED BY <2>1, InitType, InitSound
<1>2. Inv /\ [Next]_vars => Inv'
  BY NextType, NextSound, NextTallied
<1>3. Inv => UsageIsCounted
  BY DEF Tallied, UsageIsCounted
<1> QED BY <1>1, <1>2, <1>3, PTL DEF Spec

-----------------------------------------------------------------------------
(* One subscription is selected.                                           *)

\* Unless two selections cross: one row is selected at most, a purchase about
\* to select one saw none, and a selection rewrites every selected one.
Single ==
  ~crossed =>
    /\ \A p, q \in Plans : sub[p].selected /\ sub[q].selected => p = q
    /\ \A s \in Requests :
         /\ At(s, "upsert") /\ req[s].selected => \A p \in Plans : ~sub[p].selected
         /\ At(s, "select") => \A p \in Plans \ req[s].todo : ~sub[p].selected

\* A step that selects nothing, and takes no handler to its selection.
LEMMA StillSingle ==
  ASSUME Single, crossed' = crossed,
         \A p \in Plans : sub'[p].selected => sub[p].selected,
         \A s \in Requests : req'[s] = req[s] \/ req'[s].pc \notin {"upsert", "select"}
  PROVE  Single'
BY DEF Single, At

LEMMA SlotSingle ==
  ASSUME Typed, Single, NEW r \in Requests, NEW q, req' = [req EXCEPT ![r] = q],
         q.pc \notin {"upsert", "select"}, crossed' = crossed,
         \A p \in Plans : sub'[p].selected => sub[p].selected
  PROVE  Single'
<1>1. \A s \in Requests : req'[s] = req[s] \/ req'[s].pc \notin {"upsert", "select"}
  BY DEF Typed, TypeOK
<1> QED BY <1>1, StillSingle

LEMMA FinishSingle ==
  ASSUME Typed, Single, NEW r \in Requests, Finish(r), crossed' = crossed,
         \A p \in Plans : sub'[p].selected => sub[p].selected
  PROVE  Single'
BY Bare, SlotSingle DEF Finish

LEMMA WorkSingle ==
  ASSUME Typed, Single, NEW r \in Requests, NEW o, Work(r, o),
         UNCHANGED <<sub, epoch, history>>
  PROVE  Single'
<1> DEFINE q == [Idle EXCEPT !.pc = "work", !.plan = o]
<1>1. q.pc = "work" /\ req' = [req EXCEPT ![r] = q]
  BY Bare DEF Work
<1> HIDE DEF q
<1> QED BY <1>1, SlotSingle DEF history

LEMMA ResetSingle ==
  ASSUME Typed, NEW r \in Requests, NEW p \in Plans, ResetWindow(r, p)
  PROVE  crossed' = crossed /\ \A o \in Plans : sub'[o].selected => sub[o].selected
BY ResetCases

LEMMA GrantingSingle ==
  ASSUME Typed, Single, NEW r \in Requests,
         \/ Orchestrate(r) \/ Refresh(r) \/ Resolve(r) \/ ReadPolicy(r)
         \/ ResetPolicyWindow(r) \/ CheckPolicy(r)
  PROVE  Single'
<1>1. CASE Orchestrate(r)
  <2>1. UNCHANGED <<sub, epoch, history>>
    BY <1>1, OrchestrateCases
  <2>2. ASSUME NEW c \in Callers, req' = [req EXCEPT ![r] = Asking(c)] PROVE Single'
    <3>1. Asking(c).pc = "refresh"
      BY AskingType
    <3> QED BY <2>1, <2>2, <3>1, SlotSingle DEF history
  <2> QED BY <1>1, <2>1, <2>2, OrchestrateCases, WorkSingle
<1>2. CASE Refresh(r)
  <2>1. PICK p \in Plans :
          \/ Refreshed(r, p) /\ UNCHANGED <<sub, history>>
          \/ ResetWindow(r, p) /\ Refreshed(r, p)
          \/ Finish(r) /\ UNCHANGED <<sub, history>>
    BY <1>2, RefreshCases
  <2>2. crossed' = crossed /\ \A o \in Plans : sub'[o].selected => sub[o].selected
    BY <2>1, ResetSingle DEF history
  <2>3. CASE Refreshed(r, p)
    <3>1. PICK q : req' = [req EXCEPT ![r] = q] /\ q.pc = "refresh"
      BY <1>2, <2>3, RefreshedSlot, RefreshCases
    <3> QED BY <2>2, <3>1, SlotSingle
  <2> QED BY <2>1, <2>2, <2>3, FinishSingle
<1>3. CASE Resolve(r)
  <2>1. UNCHANGED <<sub, epoch, history>>
    BY <1>3, ResolveCases
  <2>2. ASSUME NEW q, req' = [req EXCEPT ![r] = q], q.pc = "policy" PROVE Single'
    BY <2>1, <2>2, SlotSingle DEF history
  <2> QED BY <1>3, <2>1, <2>2, ResolveCases, WorkSingle, FinishSingle DEF history
<1>4. CASE ReadPolicy(r) \/ CheckPolicy(r)
  <2>1. UNCHANGED <<sub, epoch, history>>
    BY <1>4 DEF ReadPolicy, CheckPolicy
  <2>2. \/ \E pc \in {"reset", "check"} : Goto(r, pc)
        \/ Work(r, req[r].plan) \/ Finish(r)
    BY <1>4 DEF ReadPolicy, CheckPolicy
  <2>3. ASSUME NEW pc \in {"reset", "check"}, Goto(r, pc) PROVE Single'
    BY <2>1, <2>3, GotoSlot, SlotSingle DEF history
  <2> QED BY <2>1, <2>2, <2>3, WorkSingle, FinishSingle DEF history
<1>5. CASE ResetPolicyWindow(r)
  <2>1. req[r].plan \in Plans
    BY <1>5 DEF ResetPolicyWindow, At, Typed, Resolved
  <2>2. crossed' = crossed /\ \A o \in Plans : sub'[o].selected => sub[o].selected
    BY <1>5, <2>1, ResetSingle DEF ResetPolicyWindow, history
  <2>3. Finish(r) \/ Goto(r, "check")
    BY <1>5 DEF ResetPolicyWindow
  <2>4. ASSUME Goto(r, "check") PROVE Single'
    BY <2>2, <2>4, GotoSlot, SlotSingle
  <2> QED BY <2>2, <2>3, <2>4, FinishSingle
<1> QED BY <1>1, <1>2, <1>3, <1>4, <1>5

LEMMA ChargingSingle ==
  ASSUME Typed, Single, NEW r \in Requests,
         Abandon(r) \/ ReadUsage(r) \/ IncrementUsage(r)
  PROVE  Single'
<1>1. CASE Abandon(r)
  BY <1>1, FinishSingle DEF Abandon, history
<1>2. CASE ReadUsage(r)
  <2>1. ASSUME NEW q, req' = [req EXCEPT ![r] = q], q.pc = "increment" PROVE Single'
    BY <1>2, <2>1, ReadUsageCases, SlotSingle DEF history
  <2> QED BY <1>2, <2>1, ReadUsageCases, FinishSingle DEF history
<1>3. CASE IncrementUsage(r)
  BY <1>3, IncrementCases, FinishSingle
<1> QED BY <1>1, <1>2, <1>3

\* A purchase that selects its row saw none, and no other selection is about to
\* be written.
LEMMA PurchaseSingle ==
  ASSUME Typed, Sound, Single, NEW r \in Requests, ReadPeers(r) \/ UpsertPurchase(r)
  PROVE  Single'
<1>1. CASE ReadPeers(r)
  <2>1. PICK q : /\ req' = [req EXCEPT ![r] = q] /\ q.pc = "upsert"
                 /\ q.selected = NoneSelected
    BY <1>1, ReadPeersCases
  <2>2. NoneSelected => \A p \in Plans : ~sub[p].selected
    BY DEF NoneSelected, Existing, Sound, Rooted
  <2>3. req'[r] = q /\ \A s \in Requests \ {r} : req'[s] = req[s]
    BY <2>1 DEF Typed, TypeOK
  <2>4. sub' = sub /\ crossed' = crossed
    BY <1>1, ReadPeersCases DEF history
  <2> QED BY <2>1, <2>2, <2>3, <2>4 DEF Single, At
<1>2. CASE UpsertPurchase(r)
  <2> DEFINE p == req[r].plan
  <2>1. /\ p \in Plans /\ At(r, "upsert") /\ Finish(r)
        /\ \A o \in Plans \ {p} : sub'[o] = sub[o]
        /\ sub'[p].selected = req[r].selected
        /\ ~crossed' => ~crossed /\ (req[r].selected => Choosers = {r})
    BY <1>2, UpsertCases
  <2>2. \A s \in Requests : req'[s].pc = "idle" \/ (req'[s] = req[s] /\ s # r)
    BY <2>1, Bare DEF Finish, Typed, TypeOK
  <2>3. CASE req[r].selected
    BY <2>1, <2>2, <2>3 DEF Single, At, Choosers
  <2>4. CASE ~req[r].selected
    <3> HIDE DEF p
    <3>1. \A o \in Plans : sub'[o].selected => sub[o].selected
      BY <2>1, <2>4
    <3> QED BY <2>1, <2>2, <3>1 DEF Single, At
  <2> QED BY <2>3, <2>4
<1> QED BY <1>1, <1>2

\* A selection rewrites every row there was when it began, hence every one
\* that is selected, and no other is about to be written.
LEMMA SelectionSingle ==
  ASSUME Typed, Sound, Single, NEW r \in Requests,
         BeginPurchase(r) \/ BeginSelect(r) \/ CommitSelect(r)
  PROVE  Single'
<1>1. CASE BeginPurchase(r) \/ BeginSelect(r)
  <2>1. PICK q : /\ req' = [req EXCEPT ![r] = q]
                 /\ q.pc = "peers" \/ (q.pc = "select" /\ q.todo = Existing)
    BY <1>1, BeginCases
  <2>2. \A p \in Plans \ Existing : ~sub[p].selected
    BY DEF Existing, Sound, Rooted
  <2>3. req'[r] = q /\ \A s \in Requests \ {r} : req'[s] = req[s]
    BY <2>1 DEF Typed, TypeOK
  <2>4. sub' = sub /\ crossed' = crossed
    BY <1>1, BeginCases DEF history
  <2> QED BY <2>1, <2>2, <2>3, <2>4 DEF Single, At
<1>2. CASE CommitSelect(r)
  <2>1. At(r, "select") /\ Finish(r)
    BY <1>2, CommitCases
  <2>2. CASE UNCHANGED <<sub, crossed>>
    BY <2>1, <2>2, FinishSingle
  <2>3. CASE ~UNCHANGED <<sub, crossed>>
    <3> SUFFICES ASSUME ~crossed' PROVE Single'
      BY DEF Single
    <3>1. /\ Choosers = {r} /\ (~crossed \/ req[r].todo = Existing)
          /\ \A p \in Plans : sub'[p].selected =>
               IF p \in req[r].todo THEN p = req[r].plan ELSE sub[p].selected
      BY <1>2, <2>3, CommitCases
    <3>2. \A p \in Plans \ req[r].todo : ~sub[p].selected
      BY <2>1, <3>1 DEF Single, Existing, Sound, Rooted
    <3>3. \A p \in Plans : sub'[p].selected => p = req[r].plan
      BY <3>1, <3>2
    <3>4. \A s \in Requests : req'[s].pc = "idle" \/ (req'[s] = req[s] /\ s # r)
      BY <2>1, Bare DEF Finish, Typed, TypeOK
    <3>5. \A s \in Requests : /\ ~(req'[s].pc = "upsert" /\ req'[s].selected)
                              /\ req'[s].pc # "select"
      BY <3>1, <3>4 DEF Choosers, At
    <3> QED BY <3>3, <3>5 DEF Single, At
  <2> QED BY <2>2, <2>3
<1> QED BY <1>1, <1>2

LEMMA AdministerSingle ==
  ASSUME Typed, Single, NEW p \in Plans, Administer(p) PROVE Single'
<1>1. req' = req /\ crossed' = crossed
  BY AdministerCases
<1>2. \A o \in Plans : sub'[o].selected => sub[o].selected
  BY AdministerCases DEF NoRow
<1> QED BY <1>1, <1>2, StillSingle

LEMMA NextSingle == Typed /\ Sound /\ Single /\ [Next]_vars => Single'
<1> SUFFICES ASSUME Typed, Sound, Single, [Next]_vars PROVE Single'
  OBVIOUS
<1>1. CASE UNCHANGED vars
  BY <1>1 DEF vars, history, Single, At
<1>2. ASSUME NEW r \in Requests,
             Orchestrate(r) \/ BeginPurchase(r) \/ BeginSelect(r) \/ Step(r)
      PROVE  Single'
  BY <1>2, GrantingSingle, ChargingSingle, PurchaseSingle, SelectionSingle DEF Step
<1>3. CASE Tick
  BY <1>3 DEF Tick, history, Single, At
<1> QED BY <1>1, <1>2, <1>3, AdministerSingle DEF Next

\* For every set of handlers and plans, and however they overlap: at most one
\* subscription is selected, whatever is bought, selected, renewed and removed,
\* unless two selections were on their way at once, and again after the next
\* one that rewrites them all.
THEOREM OneSelectedHolds == Spec => []OneSelected
<1> DEFINE Inv == Typed /\ Sound /\ Single
<1>1. Init => Inv
  <2>1. Init => Single
    BY Bare DEF Init, Single, At, NoRow
  <2> QED BY <2>1, InitType, InitSound
<1>2. Inv /\ [Next]_vars => Inv'
  BY NextType, NextSound, NextSingle
<1>3. Inv => OneSelected
  BY DEF Single, OneSelected
<1> QED BY <1>1, <1>2, <1>3, PTL DEF Spec
=============================================================================
