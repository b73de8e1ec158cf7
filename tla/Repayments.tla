----------------------------- MODULE Repayments -----------------------------
(***************************************************************************)
(* Repaying an ACTIVE contract through a gateway: PaymentsService writes   *)
(* one transaction row, the balance of the contract and the schedule row   *)
(* of the installment in three separate database calls, while the client   *)
(* retries, the gateway calls the webhook and an administrator sets        *)
(* statuses.                                                               *)
(*                                                                         *)
(* A gateway payment is a member of Uuids: the transactionUuid the client  *)
(* stores at initiation and sends, with the same amount and installments,  *)
(* at every verification; a client that recovers a payment sends neither   *)
(* contract nor installments.  Abstracted: gateway configuration, the hash *)
(* recordPayment returns (a null is tolerated), who sent and who receives, *)
(* and the subscription counter (see SubscriptionQuota).                   *)
(***************************************************************************)
EXTENDS Integers, FiniteSetsExt

CONSTANTS
  Requests,    \* slots for verifyPayment handlers running at the same time
  Uuids,       \* payments initiated at a gateway
  NoUuid,      \* gatewayDetails carries no transactionUuid
  Schedules,   \* the payment schedule rows of the contract
  Due,         \* Due[s]: totalAmount of schedule s
  Amount,      \* Amount[u]: totalAmount the client sends for u
  Selection,   \* Selection[u]: the ids joined by ',' in paymentScheduleId
  SetStatuses, \* bound: the statuses that updateStatus is asked to set
  MaxRows,     \* bound: transaction rows (randomUUID) in use at a time
  Crashes      \* may the process die between two awaits

RowStatuses == {"PENDING", "COMPLETED", "FAILED", "CANCELLED"}

\* The enum of the database; the service also writes 'PARTIALLY_PAID'.
InstallmentStatuses == {"PENDING", "PAID", "OVERDUE", "PARTIAL"}

ASSUME RepaymentAssumption ==
  /\ NoUuid \notin Uuids
  /\ IsFiniteSet(Requests) /\ IsFiniteSet(Uuids) /\ IsFiniteSet(Schedules)
  /\ Due \in [Schedules -> Nat \ {0}]
  /\ Amount \in [Uuids -> Nat \ {0}]
  /\ Selection \in [Uuids -> SUBSET Schedules]
  /\ SetStatuses \subseteq RowStatuses
  /\ MaxRows \in Nat
  /\ Crashes \in BOOLEAN

VARIABLES
  gateway,  \* the payments the gateway reports as complete
  balance,  \* the contract row: is it there, totalAmountPaid, outstandingBalance
  sched,    \* the schedule rows: amountPaid and status
  rows,     \* the transaction rows
  req,      \* the running verifyPayment handlers
  lost,     \* history: money of rows whose handler died before the balance
  told      \* history: the payments a client was told are COMPLETED

vars == <<gateway, balance, sched, rows, req, lost, told>>

RowIds   == 1 .. MaxRows
NoRow    == [uuid |-> NoUuid, linked |-> FALSE, status |-> "NONE"]
TotalDue == MapThenSumSet(LAMBDA s : Due[s], Schedules)
PCs == {"idle", "lookUp", "create", "balance", "schedule", "write", "answer"}

\* `linked` says whether the request names the contract, `seen` is the amountPaid
\* read from the schedule before it is written back.
Idle == [uuid |-> NoUuid, linked |-> FALSE, pc |-> "idle", seen |-> 0]

At(r, pc) == req[r].pc = pc
Goto(r, pc) == req' = [req EXCEPT ![r].pc = pc]
Finish(r) == req' = [req EXCEPT ![r] = Idle]

\* The rows findFirst may return for a transactionUuid, whatever their status.
FoundCompleted(u) == {i \in RowIds : rows[i].uuid = u /\ rows[i].status = "COMPLETED"}
Found(u) == {i \in RowIds : rows[i].uuid = u /\ rows[i].status # "NONE"}

FreeRows == {i \in RowIds : rows[i].status = "NONE"}

-----------------------------------------------------------------------------
\* The borrower pays at the gateway.
PayAtGateway(u) ==
  /\ u \notin gateway
  /\ gateway' = gateway \union {u}
  /\ UNCHANGED <<balance, sched, rows, req, lost, told>>

\* verifyPayment: asks the gateway; one that does not know the payment as
\* complete ends the handler with success false.
Verify(r, u, linked) ==
  /\ At(r, "idle") /\ u \in gateway
  /\ req' = [req EXCEPT ![r] =
               [uuid |-> u, linked |-> linked, pc |-> "lookUp", seen |-> 0]]
  /\ UNCHANGED <<gateway, balance, sched, rows, lost, told>>

\* A transaction found under the transactionUuid ends the handler with its id.
ResumeAtBalance(u) == IF Found(u) # {} THEN "balance" ELSE "create"
AfterLookUp(u) == IF Found(u) # {} THEN "answer" ELSE "create"

LookUp(r) ==
  /\ At(r, "lookUp")
  /\ Goto(r, AfterLookUp(req[r].uuid))
  /\ UNCHANGED <<gateway, balance, sched, rows, lost, told>>

\* orchestrate() is not eligible: the handler throws, the money stays paid.
Deny(r) ==
  /\ At(r, "create")
  /\ Finish(r)
  /\ UNCHANGED <<gateway, balance, sched, rows, lost, told>>

\* The foreign keys of the row, if it has them: contract_id, and
\* payment_schedule_id, which holds the whole joined string.
ForeignKeysHold(r) ==
  req[r].linked => balance.open /\ Cardinality(Selection[req[r].uuid]) <= 1

\* Where the handler of a payment of a contract goes once the row is there.
ScheduleFirst(u) == IF Selection[u] # {} THEN "schedule" ELSE "balance"
AnswerFirst(u) == "answer"
AfterRecord(u) == "balance"

\* transaction.create with status COMPLETED.  No constraint makes the
\* transactionUuid unique.  Without a contract there is nothing else to write.
RecordPayment(r) ==
  /\ At(r, "create") /\ ForeignKeysHold(r) /\ FreeRows # {}
  /\ rows' = [rows EXCEPT ![Min(FreeRows)] =
                [uuid |-> req[r].uuid, linked |-> req[r].linked, status |-> "COMPLETED"]]
  /\ Goto(r, IF req[r].linked THEN AfterRecord(req[r].uuid) ELSE "answer")
  /\ UNCHANGED <<gateway, balance, sched, lost, told>>

\* transaction.create throws.
RecordFails(r) ==
  /\ At(r, "create") /\ ~ForeignKeysHold(r)
  /\ Finish(r)
  /\ UNCHANGED <<gateway, balance, sched, rows, lost, told>>

\* contract.update with increment and decrement, atomic in the database;
\* it throws when the contract is gone.
ApplyToBalance(r) ==
  LET u == req[r].uuid
  IN /\ At(r, "balance")
     /\ IF balance.open
        THEN /\ balance' = [balance EXCEPT !.paid = @ + Amount[u],
                                           !.outstanding = @ - Amount[u]]
             /\ Goto(r, IF Selection[u] # {} THEN "schedule" ELSE "answer")
        ELSE Finish(r) /\ UNCHANGED balance
     /\ UNCHANGED <<gateway, sched, rows, lost, told>>

\* paymentSchedule.findMany: one row, since a row with several ids was never
\* created; none when the loan was removed meanwhile.
ReadSchedule(r) ==
  /\ At(r, "schedule")
  /\ IF balance.open
     THEN \E s \in Selection[req[r].uuid] :
            req' = [req EXCEPT ![r].pc = "write", ![r].seen = sched[s].paid]
     ELSE Goto(r, "answer")
  /\ UNCHANGED <<gateway, balance, sched, rows, lost, told>>

\* The row the handler writes back, from the amount it read.
NewInstallmentPartial(r, s) ==
  LET paid == req[r].seen + Amount[req[r].uuid]
  IN [paid |-> paid, status |-> IF paid >= Due[s] THEN "PAID" ELSE "PARTIAL"]
NewInstallment(r, s) ==
  LET paid == req[r].seen + Amount[req[r].uuid]
  IN [paid |-> paid, status |-> IF paid >= Due[s] THEN "PAID" ELSE "PARTIALLY_PAID"]

\* Prisma throws on a value that is not in the enum, and on a row that is gone.
AnyStatus(status) == TRUE
Storable(status) == status \in InstallmentStatuses

WriteSchedule(r) ==
  /\ At(r, "write")
  /\ \E s \in Selection[req[r].uuid] :
       IF balance.open /\ Storable(NewInstallment(r, s).status)
       THEN /\ sched' = [sched EXCEPT ![s] = NewInstallment(r, s)]
            /\ Goto(r, "answer")
       ELSE Finish(r) /\ UNCHANGED sched
  /\ UNCHANGED <<gateway, balance, rows, lost, told>>

\* The handler answers success true, status COMPLETED.
Answer(r) ==
  /\ At(r, "answer")
  /\ told' = told \union {req[r].uuid}
  /\ Finish(r)
  /\ UNCHANGED <<gateway, balance, sched, rows, lost>>

\* processWebhook: late, repeated, or for a payment nobody verified; the
\* first row found becomes COMPLETED, and keeps its transactionUuid.
Webhook(u) ==
  /\ u \in gateway
  /\ \E i \in Found(u) : rows' = [rows EXCEPT ![i].status = "COMPLETED"]
  /\ UNCHANGED <<gateway, balance, sched, req, lost, told>>

\* TransactionsService.updateStatus: any status over any other.
UpdateStatus(i, status) ==
  /\ rows[i].status # "NONE"
  /\ rows' = [rows EXCEPT ![i].status = status]
  /\ UNCHANGED <<gateway, balance, sched, req, lost, told>>

\* LoansService.remove: schedules, transactions and contract in one
\* $transaction, whatever is running; a row without contract stays.
RemoveLoan ==
  /\ balance.open
  /\ balance' = [open |-> FALSE, paid |-> 0, outstanding |-> 0]
  /\ sched' = [s \in Schedules |-> [paid |-> 0, status |-> "PENDING"]]
  /\ rows' = [i \in RowIds |-> IF rows[i].linked THEN NoRow ELSE rows[i]]
  /\ UNCHANGED <<gateway, req, lost, told>>

\* The money of rows whose handler has still to add it to the balance.
Pending == MapThenSumSet(LAMBDA r : Amount[req[r].uuid],
                         {r \in Requests : At(r, "balance")})

Crash ==
  /\ Crashes
  /\ \E r \in Requests : ~At(r, "idle")
  /\ lost' = lost + Pending
  /\ req' = [r \in Requests |-> Idle]
  /\ UNCHANGED <<gateway, balance, sched, rows, told>>

-----------------------------------------------------------------------------
\* The contract after ensureContractActivatedState.
Init ==
  /\ gateway = {}
  /\ balance = [open |-> TRUE, paid |-> 0, outstanding |-> TotalDue]
  /\ sched = [s \in Schedules |-> [paid |-> 0, status |-> "PENDING"]]
  /\ rows = [i \in RowIds |-> NoRow]
  /\ req = [r \in Requests |-> Idle]
  /\ lost = 0
  /\ told = {}

Step(r) ==
  \/ LookUp(r) \/ Deny(r) \/ RecordPayment(r) \/ RecordFails(r)
  \/ ApplyToBalance(r) \/ ReadSchedule(r) \/ WriteSchedule(r) \/ Answer(r)

Next ==
  \/ \E u \in Uuids : PayAtGateway(u) \/ Webhook(u)
  \/ \E r \in Requests, u \in Uuids, linked \in BOOLEAN : Verify(r, u, linked)
  \/ \E r \in Requests : Step(r)
  \/ \E i \in RowIds, status \in SetStatuses : UpdateStatus(i, status)
  \/ RemoveLoan
  \/ Crash

Spec == Init /\ [][Next]_vars

-----------------------------------------------------------------------------
TypeOK ==
  /\ gateway \subseteq Uuids
  /\ balance \in [open: BOOLEAN, paid: Nat, outstanding: Int]
  /\ sched \in [Schedules -> [paid: Nat, status: InstallmentStatuses]]
  /\ rows \in [RowIds -> [uuid: Uuids \union {NoUuid}, linked: BOOLEAN,
                          status: RowStatuses \union {"NONE"}]]
  /\ req \in [Requests -> [uuid: Uuids \union {NoUuid}, linked: BOOLEAN,
                           pc: PCs, seen: Nat]]
  /\ lost \in Nat
  /\ told \subseteq Uuids

Recorded == {i \in RowIds : rows[i].linked}
SumOfRows(ids) == MapThenSumSet(LAMBDA i : Amount[rows[i].uuid], ids)

\* Every transaction row of the contract is in the balance once, on its way
\* there in one running handler, or was lost by a crash between the two writes,
\* whatever is retried or overlaps; and what is left to pay goes down by what
\* is counted
\* (payments.service.ts:179-195, 281-357).
MoneyIsAccounted ==
  balance.open =>
    /\ balance.paid + Pending + lost = SumOfRows(Recorded)
    /\ balance.paid + balance.outstanding = TotalDue

\* A payment whose client was answered success is in the balance, on its way
\* there in another handler, or was lost by a crash, unless a client recovered
\* it without the contract: the answer to a retry says that the transaction is
\* recorded, not that the balance was updated
\* (payments.service.ts:179-195, app/payment/callback.tsx).
AnsweredIsCounted ==
  LET recovered == {u \in Uuids : \E i \in Found(u) : ~rows[i].linked}
  IN balance.open =>
       MapThenSumSet(LAMBDA u : Amount[u], told \ recovered)
         <= balance.paid + Pending + lost

\* The installments never show more money than the contract row does: a
\* schedule is written after the balance, from an amount read after it
\* (payments.service.ts:351-392).
ScheduleWithinBalance ==
  MapThenSumSet(LAMBDA s : sched[s].paid, Schedules) <= balance.paid

\* An installment that was PAID stays so, although verifications of two
\* payments for it write back amounts they read earlier
\* (payments.service.ts:375-392).
PaidStaysPaid ==
  [][\A s \in Schedules :
       sched[s].status = "PAID" => sched'[s].status = "PAID" \/ ~balance'.open]_vars

\* A payment has at most one transaction if one handler runs at a time, and no
\* more than handlers running at once otherwise, however often the client
\* retries, the process dies or a status is changed: only verifications that
\* overlapped can each have found none (payments.service.ts:179-195).
RecordedOnce ==
  \A u \in Uuids :
    Cardinality({i \in RowIds : rows[i].uuid = u}) <= Cardinality(Requests)

=============================================================================
