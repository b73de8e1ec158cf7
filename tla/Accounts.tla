------------------------------- MODULE Accounts -------------------------------
(***************************************************************************)
(* The books of one contract and the reports drawn from them.  The payout  *)
(* writes the payment schedule (Installments), repayments add transactions *)
(* and mark installments, and three readers report on it: the wallet       *)
(* summary of TransactionsService, the dashboard of AnalyticsService, and  *)
(* the balance of the contract row.                                        *)
(*                                                                         *)
(* Time is counted in slots of two hours.  A repayment is one step here,   *)
(* that may end early: its interleavings are the subject of Repayments.    *)
(* Statuses are not changed by hand, and the reports are those of one      *)
(* lender.                                                                 *)
(***************************************************************************)
EXTENDS Installments

CONSTANTS
  Offers,      \* terms contracts are signed with
  Followed,    \* bound: those whose repayment is followed
  Instants,    \* the slots at which something happens
  MaxRows      \* bound: transaction rows

Day == 12
Horizon == DaysBefore[LastMonth + 1] * Day

ASSUME AccountsAssumption ==
  /\ \A c \in Offers :
       /\ c.amount \in Nat /\ c.rate \in Nat /\ c.term \in Nat \ {0}
       /\ c.frequency \in Frequencies
       /\ c.start.month \in Nat /\ c.start.day \in 1 .. MonthLength(c.start.month)
       /\ c.start.month + c.term + 2 <= LastMonth
  /\ Followed \subseteq Offers
  /\ Instants \subseteq 0 .. Horizon - 1 /\ Instants # {}
  /\ MaxRows \in Nat

VARIABLES
  terms,    \* the contract row: what was agreed
  balance,  \* the contract row: totalAmountPaid and outstandingBalance
  sched,    \* the payment schedule rows, none before the payout
  txs,      \* the transaction rows
  now,      \* the clock
  report    \* a dashboard request: its range and what it has read

vars == <<terms, balance, sched, txs, now, report>>

Types == {"DISBURSEMENT", "INSTALLMENT_PAYMENT", "PENALTY_PAYMENT"}
Repaying == {"INSTALLMENT_PAYMENT", "PENALTY_PAYMENT"}

\* Whom a row names: the lender's tenant, the borrower's user and the
\* borrower row, and what the tokens of the two users match.
Lender == {"lender", "tenant"}
BorrowerUser == {"borrowerUser"}

Sender(type) == IF type = "DISBURSEMENT" THEN "tenant" ELSE "borrowerUser"
Receiver(type) == IF type = "DISBURSEMENT" THEN "borrowerRow" ELSE "tenant"

\* History: a row of a payment that reached the balance too, of one that died
\* before it, or one posted to TransactionsService.create.
Origins == {"payment", "lost", "posted"}

Row(type, amount, status, origin) ==
  [id |-> Cardinality(txs) + 1, type |-> type, amount |-> amount, status |-> status, at |-> now,
   sentBy |-> Sender(type), receivedBy |-> Receiver(type), origin |-> origin]

Unread == -1
NoReport == [pc |-> "idle", from |-> 0, to |-> 0,
             total |-> Unread, previous |-> Unread, series |-> Unread,
             stale |-> FALSE]

-----------------------------------------------------------------------------
(* Ranges and buckets                                                      *)

MonthOf(t) == CHOOSE m \in 0 .. LastMonth :
                DaysBefore[m] * Day <= t /\ t < DaysBefore[m + 1] * Day
FirstOf(m) == DaysBefore[m] * Day

\* while (cursor <= end), in steps of 4 hours or of a day
SteppedBefore(from, to, step) ==
  [k \in 1 .. ((to - from + step - 1) \div step) |->
     [start |-> from + (k - 1) * step, end |-> from + k * step]]
Stepped(from, to, step) ==
  [k \in 1 .. ((to - from) \div step + 1) |->
     [start |-> from + (k - 1) * step, end |-> from + k * step]]

\* Whole calendar months, from the month of the start to that of the end.
Monthly(from, to) ==
  [k \in 1 .. (MonthOf(to) - MonthOf(from) + 1) |->
     [start |-> FirstOf(MonthOf(from) + k - 1), end |-> FirstOf(MonthOf(from) + k)]]

\* buildWalletBuckets and groupByDynamicRange cut a range in the same way.
Buckets(from, to) ==
  CASE to < from                        -> <<>>
    [] to - from \in 0 .. Day           -> Stepped(from, to, 2)
    [] to - from \in Day + 1 .. 31 * Day -> Stepped(from, to, Day)
    [] OTHER                            -> Monthly(from, to)

Within(rows, from, to) == {r \in rows : from <= r.at /\ r.at <= to}
InBucket(rows, b) == {r \in rows : b.start <= r.at /\ r.at < b.end}
Amounts(rows) == Sum([r \in rows |-> r.amount])
Completed(rows) == {r \in rows : r.status = "COMPLETED"}

-----------------------------------------------------------------------------
(* getWalletSummary                                                        *)

\* resolveWalletRange swaps the two ends of a range that is back to front.
WalletRange(a, b) == IF b < a THEN [from |-> b, to |-> a] ELSE [from |-> a, to |-> b]

WalletRows(mine, r) ==
  {t \in Within(txs, r.from, r.to) : t.sentBy \in mine \/ t.receivedBy \in mine}

\* toReceive before it is cut at zero: what `mine` paid out and has not got back.
Receivable(mine, rows) ==
  Amounts({t \in Completed(rows) : t.sentBy \in mine /\ t.type = "DISBURSEMENT"})
  - Amounts({t \in Completed(rows) : t.receivedBy \in mine /\ t.type \in Repaying})

ToReceive(mine, r) == AtLeastZero(Receivable(mine, WalletRows(mine, r)))

\* Every bucket of the series is cut at zero on its own.
ToReceiveSeries(mine, r) ==
  LET buckets == Buckets(r.from, r.to)
      rows    == WalletRows(mine, r)
  IN [k \in DOMAIN buckets |-> AtLeastZero(Receivable(mine, InBucket(rows, buckets[k])))]

TransactionsSeries(mine, r) ==
  LET buckets == Buckets(r.from, r.to)
  IN [k \in DOMAIN buckets |->
        Cardinality(InBucket(WalletRows(mine, r), buckets[k]))]

\* percentageFromSeries, in hundredths of a percent.
Percentage(series) ==
  LET first == IF series = <<>> THEN 0 ELSE series[1]
      last  == IF series = <<>> THEN 0 ELSE series[Len(series)]
  IN IF first = 0 THEN (IF last > 0 THEN 10000 ELSE 0)
     ELSE ((last - first) * 10000) \div first

-----------------------------------------------------------------------------
(* getTenantAnalytics                                                      *)

\* buildCreatedAtFilter takes the whole last day.
EndOfDay(t) == (t \div Day) * Day + Day - 1

\* The range as long as the one asked for that ends just before it.
PreviousUpToStart(r) == [from |-> r.from - (r.to - r.from), to |-> r.from]
Previous(r) == [from |-> r.from - 1 - (r.to - r.from), to |-> r.from - 1]

\* The rows of the repayments collected in a range, and the schedule rows that
\* fall due in it and are still PENDING.
Collected(r) ==
  {t \in Completed(Within(txs, r.from, r.to)) : t.type \in Repaying}
PendingRows(r) ==
  {i \in DOMAIN sched : /\ sched[i].status = "PENDING"
                        /\ r.from <= sched[i].due * Day /\ sched[i].due * Day <= r.to}
PendingPayments(r) == Sum([i \in PendingRows(r) |-> sched[i].total])

CollectedSeries(r) ==
  LET buckets == Buckets(r.from, r.to)
  IN [k \in DOMAIN buckets |-> Amounts(InBucket(Collected(r), buckets[k]))]

-----------------------------------------------------------------------------
(* Actions                                                                 *)

\* What a write does to a dashboard request that is being answered.
Disturbed == [report EXCEPT !.stale = @ \/ report.pc = "reading"]

\* verifyPayment of the disbursement, and ensureContractActivatedState.
PayOut ==
  /\ sched = <<>>
  /\ sched' = Schedules(terms)
  /\ txs' = txs \union {Row("DISBURSEMENT", terms.amount, "COMPLETED", "payment")}
  /\ report' = Disturbed
  /\ UNCHANGED <<terms, balance, now>>

\* The bounds on what follows the payout.
MayRecord == terms \in Followed /\ Cardinality(txs) < MaxRows

\* The installment as verifyPayment writes it back; a status the database
\* does not know makes the handler throw, and the row stays as it was.
PaidByAnything(row, amount) == [row EXCEPT !.paid = @ + amount, !.status = "PAID"]
Credited(row, amount) ==
  IF row.paid + amount >= row.total
  THEN [row EXCEPT !.paid = @ + amount, !.status = "PAID"]
  ELSE row

\* How far verifyPayment gets before its process, or the database, dies.
Reaches == {"row", "balance", "end"}

\* The row, and after it the contract's balance.
Record(type, amount, reached) ==
  IF reached = "row"
  THEN txs' = txs \union {Row(type, amount, "COMPLETED", "lost")} /\ UNCHANGED balance
  ELSE /\ txs' = txs \union {Row(type, amount, "COMPLETED", "payment")}
       /\ balance' = [paid |-> balance.paid + amount,
                      outstanding |-> balance.outstanding - amount]

\* verifyPayment of an installment, wholly or in part, also one already paid.
PayInstallment(i, amount, reached) ==
  /\ MayRecord
  /\ Record("INSTALLMENT_PAYMENT", amount, reached)
  /\ sched' = IF reached = "end" THEN [sched EXCEPT ![i] = Credited(@, amount)] ELSE sched
  /\ report' = Disturbed
  /\ UNCHANGED <<terms, now>>

\* A penalty belongs to the contract and to no installment.
PayPenalty(amount, reached) ==
  /\ sched # <<>> /\ MayRecord
  /\ Record("PENALTY_PAYMENT", amount, reached)
  /\ report' = Disturbed
  /\ UNCHANGED <<terms, sched, now>>

\* TransactionsService.create inserts the row as PENDING ...
CreateTransaction(type) ==
  /\ sched # <<>> /\ MayRecord
  /\ txs' = txs \union {Row(type, terms.amount, "PENDING", "posted")}
  /\ report' = Disturbed
  /\ UNCHANGED <<terms, balance, sched, now>>

\* ... and completes it once it has a hash, or at once without the chain; when
\* the chain fails or the process dies it never does.  The contract's balance is
\* not touched.
CompleteTransaction(t) ==
  /\ t.status = "PENDING"
  /\ txs' = (txs \ {t}) \union {[t EXCEPT !.status = "COMPLETED"]}
  /\ report' = Disturbed
  /\ UNCHANGED <<terms, balance, sched, now>>

Advance ==
  /\ sched # <<>> /\ terms \in Followed
  /\ \E t \in Instants : t > now /\ now' = t
  /\ UNCHANGED <<terms, balance, sched, txs, report>>

\* The queries of a dashboard request run at the same time, outside any
\* transaction: their answers come in any order, between other writes.
Ask(a, b) ==
  /\ report.pc = "idle" /\ sched # <<>> /\ terms \in Followed
  /\ report' = [NoReport EXCEPT !.pc = "reading", !.from = a, !.to = EndOfDay(b)]
  /\ UNCHANGED <<terms, balance, sched, txs, now>>

ReadTotal ==
  /\ report.pc = "reading" /\ report.total = Unread
  /\ report' = [report EXCEPT !.total = Amounts(Collected(report))]
  /\ UNCHANGED <<terms, balance, sched, txs, now>>

ReadPrevious ==
  /\ report.pc = "reading" /\ report.previous = Unread
  /\ report' = [report EXCEPT !.previous = Amounts(Collected(Previous(report)))]
  /\ UNCHANGED <<terms, balance, sched, txs, now>>

ReadSeries ==
  /\ report.pc = "reading" /\ report.series = Unread
  /\ report' = [report EXCEPT !.series = Sum(CollectedSeries(report))]
  /\ UNCHANGED <<terms, balance, sched, txs, now>>

Answered == report.total # Unread /\ report.previous # Unread /\ report.series # Unread

Reply ==
  /\ report.pc = "reading" /\ Answered
  /\ report' = NoReport
  /\ UNCHANGED <<terms, balance, sched, txs, now>>

-----------------------------------------------------------------------------
Init ==
  /\ terms \in Offers
  /\ balance = [paid |-> 0, outstanding |-> TotalAmountDue(terms)]
  /\ sched = <<>>
  /\ txs = {}
  /\ now = Min(Instants)
  /\ report = NoReport

Next ==
  \/ PayOut
  \/ \E i \in DOMAIN sched, less \in 0 .. 1, reached \in Reaches :
       sched[i].total > less /\ PayInstallment(i, sched[i].total - less, reached)
  \/ \E reached \in Reaches : PayPenalty(1, reached)
  \/ \E type \in {"DISBURSEMENT", "INSTALLMENT_PAYMENT"} : CreateTransaction(type)
  \/ \E t \in txs : CompleteTransaction(t)
  \/ Advance
  \/ \E a, b \in Instants : Ask(a, b)
  \/ ReadTotal \/ ReadPrevious \/ ReadSeries
  \/ Reply

Spec == Init /\ [][Next]_vars

-----------------------------------------------------------------------------
TypeOK ==
  /\ terms \in Offers
  /\ balance \in [paid: Nat, outstanding: Int]
  /\ \A i \in DOMAIN sched :
       sched[i] \in [due: Nat, principal: Nat, interest: Nat, total: Nat,
                     paid: Nat, status: {"PENDING", "PAID"}]
  /\ \A t \in txs : t.type \in Types /\ t.amount \in Nat /\ t.at \in Instants
                      /\ t.origin \in Origins
  /\ now \in Instants
  /\ report.pc \in {"idle", "reading"} /\ report.stale \in BOOLEAN

\* The schedule of every contract adds up, whatever was rounded: its totals
\* make the amount due, and principal and interest make the totals
\* (contracts.service.ts:69-178).
ScheduleAddsUp ==
  sched # <<>> => CoversDue(terms, sched) /\ PartsAddUp(terms, sched)

\* Installments fall due one after the other, also from the 31st of a month,
\* and only the last one may be due after the contract has ended
\* (contracts.service.ts:63-67, 85-95, 147-154).
OnlyLastIsLate ==
  \A i \in 1 .. Len(sched) - 1 :
    sched[i].due < sched[i + 1].due /\ sched[i].due <= EndDate(terms)

\* What was paid and what is still pending cover the amount due: no installment
\* leaves the pending payments for less than it cost, although the one figure is
\* kept in the contract row and the other drawn from the schedules, and a part
\* payment fails halfway.  And what the dashboard shows as collected beyond the
\* balance was posted by hand, or died between row and balance
\* (analytics.service.ts:201-217, payments.service.ts:351-392,
\* transactions.service.ts:326-366).
NothingForgiven ==
  LET ever   == [from |-> 0, to |-> Horizon]
      beyond == {t \in Collected(ever) : t.origin # "payment"}
  IN sched # <<>> =>
       /\ balance.paid + PendingPayments(ever) >= TotalAmountDue(terms)
       /\ Amounts(Collected(ever)) = balance.paid + Amounts(beyond)

\* For any range, back to front or not, the wallet counts every transaction
\* in one bucket, its series never stays below the amount shown above it, and
\* no trend falls by more than all (transactions.service.ts:34-125, 432-576).
\* A dashboard request writes nothing, so the rows met without one are all.
WalletSeriesCover ==
  report.pc = "idle" =>
    \A r \in {WalletRange(a, b) : a, b \in Instants}, mine \in {Lender, BorrowerUser} :
      LET series == ToReceiveSeries(mine, r)
      IN /\ Sum(TransactionsSeries(mine, r)) = Cardinality(WalletRows(mine, r))
         /\ Sum(series) >= ToReceive(mine, r)
         /\ Percentage(series) >= -10000

\* A dashboard answered without a write in between shows the same collections
\* in its total and its series, and counts none of them again in the period
\* before (analytics.service.ts:100-109, 201-209, 319-327, 381-389, 494-499).
DashboardAgrees ==
  report.pc = "reading" /\ Answered /\ ~report.stale =>
    LET both == [from |-> Previous(report).from, to |-> report.to]
    IN /\ report.series = report.total
       /\ report.from <= report.to =>
            report.total + report.previous = Amounts(Collected(both))
=============================================================================
