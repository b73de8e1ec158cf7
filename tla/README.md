# Verification of the coloanex lending backend

coloanex is a lending platform: a NestJS API (`coloanex-api`) over PostgreSQL
(Prisma), Redis and a set of Solidity registries, with a web client for lenders
(`coloanex-web`) and a mobile client for borrowers (`coloanex-app`). The API is
where the state is. Its handlers are `async` functions that read rows, check
them, await other services (an orchestrator, the chain, a gateway) and only then
write, mostly without looking again at what they read. This directory holds
TLA+ models of the parts where that matters, TLC configurations that check them
on small instances, and TLAPS proofs of the results that hold for every size.

Paths below are relative to `coloanex-api/src` unless they begin with `src/`.

## 1. Inventory

| component | state it keeps | operations | talks to | what makes it correct |
|---|---|---|---|---|
| Contracts (`contracts/contracts.service.ts`) | contract row: status, list of signatures, disbursementInfo, blockchainTxHash and blockchainData; payment schedules | create, generateFromLoanApproval, generateContractPdf, signContract, signAndDisburse, disburse, update, remove, reportContract | loan row, transactions, orchestrator, ContractRegistry | the lender never signs before the borrower; an ACTIVE contract is signed by both, scheduled and really paid out; only drafts are deleted; the loan follows |
| Loans (`loans/loans.service.ts`) | loan row and its status | create, review, update, remove, makePayment | contracts (approval drafts one), orchestrator, LoanRegistry | an approval leads to a contract |
| Transactions (`transactions/transactions.service.ts`) | transaction rows | create, updateStatus, summaries | orchestrator, PaymentRegistry | a payment that counts was COMPLETED |
| Payments and gateways (`payments/`) | none of its own; writes transactions, the contract's balance and the schedules | initiatePayment, verifyPayment, lookupPayment, processWebhook | eSewa, Khalti, Fonepay | a payment is recorded once and counted once, also when retried |
| Orchestrator (`transaction-orchestrator/`) | usage counters of subscriptions | orchestrate, consumeUsage | subscriptions, wallets | the plan's limit is kept; usage is not lost |
| Subscriptions (`subscriptions/`) | subscription rows, the selected one | purchase, selectSubscription, create, update, remove, plans | transactions (FEE) | one selected subscription; no renewal of a usable one |
| Blockchain service (`blockchain/`), registries (`src/coloanex-api/blockchain/contracts/*.sol`) | what is on chain | one method per registry function, null on every failure | RPC node | a stored hash stands for an event that happened |
| KYC (`kyc/`) | KYC row, borrower's kycStatus | create, update, verify, remove | orchestrator, KYCRegistry | row and borrower agree; VERIFIED means that a reviewer decided it |
| Auth and sessions (`auth/`) | Redis sessions with an index per user; the clients store the tokens | login, refresh, logout, logoutAll | Redis, the clients' interceptors | a revoked session stays revoked, a signed-out device stays out |
| Installments (`contracts/contracts.service.ts:63-178`) | payment schedule rows | calculateInstallments, createPaymentSchedules | the payout | the rows make up the amount due |
| Analytics and wallet summary (`analytics/`, `transactions/`) | none | getTenantAnalytics, getWalletSummary | transactions, schedules | figures drawn from different rows agree |
| Rules, wallets, payment configurations, users, roles, permissions, tenants, borrowers | one row at a time | administration | orchestrator (rules) | a primary wallet per user |
| Activity logs, mail, uploads | logs | append, send | external services | none of interest to a model |
| Web and mobile clients | stored tokens, stored pending payment, what the page last saw | verify, look up and recover a payment; refresh tokens; decide who may apply | API, gateway, wallet | success is shown for what happened; no call or page goes on for ever |

The hard behaviours, each at its line in the `hazards` of `PROJECT.json`:

* **stale read, late write**: two handlers on one contract read, wait for the
  orchestrator and the chain, and write back lists and statuses they read;
* **several writes, no transaction**: row and loan in `generateContractPdf`,
  row, balance and installment in `verifyPayment`, with a process that may die
  in between;
* **retry and repetition**: the mobile client verifies again, gateways call the
  webhook late or twice, and nothing in the database makes a payment unique;
* **check early, count late**: the plan's limit is read at the beginning of a
  handler and counted at its end;
* **null for every chain failure**, also for a transaction that was mined and
  whose receipt was lost;
* **checks that only a page makes**: that a KYC is verified and no loan is open
  is known to the clients alone, from what they read some time ago;
* **lost answers**: a client that hears nothing polls, verifies again or recovers
  while the handler it gave up goes on;
* **figures from separate queries** over ranges whose ends fall inside buckets,
  and amounts that are rounded row by row.

## 2. The models

### The lending core: `LendingState`, `ContractHandlers`, `LoanHandlers`, `Lending`

One loan, the contract written for it (`loanId` is unique, so there is at most
one), the DISBURSEMENT transactions that may pay it out, and what the
ContractRegistry holds. Contracts can be deleted and drafted again under a new
id, so ids matter: a handler that read the old row must not write the new one.

`req[r]` is a handler in flight. Its `pc` is the await it is suspended at, its
`snap` the row it read. A handler is cut only at awaits after which it relies on
something it read before:

| handler | actions |
|---|---|
| create | BeginCreate, RecordNewContract, InsertContract |
| generateFromLoanApproval | Review (in LoanHandlers), BeginGenerate, RecordNewContract, InsertContract |
| signContract | BeginSign, RecordSignature, CommitSignature |
| signAndDisburse, disburse | BeginSignAndDisburse or BeginDisburse, CheckDisbursementPayment, CommitSignAndDisburse or CommitDisburse |
| generateContractPdf | BeginGeneratePdf, RecordGenerated, CommitPdf, MarkLoanGenerated |
| update | BeginUpdate, WriteUpdate, RecordUpdate or BlockchainUpdateFails, CommitUpdateHash |
| remove | BeginRemove, RecordRemoval, DeleteContract |
| reportContract | Report |
| loan and transaction handlers | CreateLoan, RemoveLoan, RecordTransaction, UpdateStatus |

`Begin...` carries the guards, evaluated on what was read; the middle action is
`orchestrate()` and the chain; the last one is the database write. A
`$transaction` is one action. `contract.hash` remembers from *which* call a hash
came, which is all the properties need of it. `settled` is a history variable:
which transaction was seen COMPLETED for which contract.

Amounts, dates, PDF contents, mail and logs are abstracted. The caller is whoever
the handler accepts. `orchestrate()` is its verdict here; what it does to the
subscription is the model `SubscriptionQuota`. A client may bring blockchain data
with a hash or without one (`ClientHashes`); without, the chain is not called
and no hash is stored.

`Agreement` is the abstract specification: a contract is drafted, generated,
signed by the borrower and then by the lender, and paid out; it can be withdrawn
only as a draft, reported or cancelled at any time, and goes away with its loan.
It has three variables and no handlers. `ImplementsAgreement` maps the rows to it.

### Repayments: `Repayments`

`verifyPayment` for installment payments on an ACTIVE contract: Verify (ask the
gateway), LookUp (`findFirst` by transactionUuid), RecordPayment (the
transaction row), ApplyToBalance, ReadSchedule, WriteSchedule, Answer, with the
webhook, the administrator's updateStatus, the removal of the loan and crashes
beside it. A payment is a `transactionUuid` with a fixed amount and selection of
installments, as the client stores it at initiation; a request that recovers a
payment names no contract (`linked` is FALSE), and then the row is all it
writes. A foreign key that fails and an enum value the database does not have
make the handler throw where it throws in the code (`ForeignKeysHold`,
`RecordFails`, `Storable`). The rows are those `verifyPayment` creates; what
`POST /transactions` posts beside them is in `Accounts`.

### The pages of a payment: `PaymentFlow`

Extends `Repayments` with what the borrower looks at: the web page
`PaymentSuccess.tsx` with the hooks of the two gateways ("web"), the app in a
browser (`callback.tsx`, "callback") and the app (`make-repayment.tsx`,
"native"). A page lands with or without a callback that says complete, sends
verifications to free handlers (Send), is refused, looks up (Lookup, with the
three answers complete, pending and failed, or an error), counts its attempts
and goes where the code goes when they are spent (`Spent`): the web page into its
recovery, the native page into a second loop and then nowhere ("stuck": its
processing screen stays). `Hear` is the answer: a handler that ends answers the
page that waits for it. LoseAnswer breaks the connection and leaves the handler
running.

### KYC and what it is for: `Kyc`, `Onboarding`

`Kyc` has the KYC rows of a tenant, `Borrower.kycStatus`, the KYCRegistry and
the handlers of KycService cut at their awaits: create (Join, InsertKyc, Decide,
RecordOnChain, Stamp, Flag), update (BeginUpdate, Join, WriteUpdate, Decide,
RecordOnChain, Stamp), verify (BeginVerify, Decide, RecordOnChain, WriteVerify,
Flag), remove (BeginRemove, Decide, RecordOnChain, Delete). `Onboarding` adds
the clients: the lender's console, which in wallet mode lets the browser write
the registry before it asks the API, and the borrower's pages, which offer a loan
application when the latest KYC is VERIFIED and the latest loan is not open.
`LoansService.create` checks neither, so the gate is what the page saw. The page
asks for one loan, the newest, and the list a borrower gets ignores the lender
asked for (loans.service.ts:404-408): a loan that is closed hides every older
one, open or not. So `loan[u]` counts the loans newer than the latest
closed one (`MayApply`); `CloseLoan` is any of them closed, by this lender or
another, and `LoanReturns` the removal or reopening of the latest closed one, after
which older ones count again. The look-up also fails open: in the app an error
says that there is no loan, on the web page a query still under way blocks nobody.
Whoever applies in spite of an open loan, and whose closed loan comes back, is
`blind` from then on (`Unfollow`), and the count says nothing more of that user.
`asked` is a history of reviewers' decisions, `relied` of the KYCs applications
relied on.

### Sessions: `Sessions`

Redis key by key: `session:<id>` (`live`) and `user:<id>:sessions` (`index`), with
createSession, updateLastActivity, revokeSession and revokeAllUserSessions as
single commands, login, refresh, logout and logoutAll as their callers, a ban,
keys and tokens that expire, and devices whose interceptors (`baseApi.ts`,
`client.ts`) refresh once after a 401 and retry. A call and its 401 are one step
(Request), and so is the storing of the tokens of an answer (Store). `ended`, `raced`, `quit` and
`late` are histories: what was revoked, what a refresh was about to write back at
that moment, who signed out, and with a refresh under way; so is `unlisted`, the
sessions that the index never got or lost.

### The books: `Installments`, `Accounts`

`Installments` is the arithmetic of ContractsService as operators: exact cents
where the code has floating point, rounded where it calls `Math.round`, and a
calendar of two years in which a 31st rolls over as `setMonth` makes it.
`Accounts` pays a contract out (the schedule), takes repayments (whole, one cent
short, penalties), each of which may stop after its row or after the balance
(`Reaches`: the process dies, or the part payment fails on the enum), takes
rows posted by `POST /transactions`, which are PENDING until they are COMPLETED
and never reach the balance (`CreateTransaction`, `CompleteTransaction`; the client
names the parties of such a row, here the lender and the borrower of the contract),
and lets a dashboard request read total,
comparison and series one query at a time; the wallet summary is a function of
the rows. Time is in slots of two hours, two to a bucket of the shortest kind.

### Quota: `SubscriptionQuota`

The subscriptions of one owner, one row per plan, and the handlers that spend
them: Orchestrate (admission and gas payer), Refresh (ensureWindowFresh on every
row, from what `findMany` returned), Resolve, ReadPolicy, ResetPolicyWindow,
CheckPolicy, then the handler's own work, ReadUsage and IncrementUsage
(`consumeUsage`). Beside them purchase, selectSubscription and the
administrator. Time is an epoch: a window of one epoch is over in the next. Which
wallet is found is a nondeterministic answer. `served`, `torn` and `crossed` are
histories: what a window was charged, whether a handler held an older window when
it began, and whether two selections were on their way at once.

The models meet where they are abstracted: the verdict of `orchestrate()` is
`Deny` or `Decide` in the others and computed in `SubscriptionQuota`; the payout
of a contract (`scheduled`, ACTIVE) is the initial state of `Repayments` and the
PayOut of `Accounts`; a repayment, one step in `Accounts`, is the handler of
`Repayments`, and `NothingForgiven` states of its outcome what the reports need;
`PaymentFlow` runs on `Repayments` itself; an application of `Onboarding` is
CreateLoan of the lending core.

## 3. The runs

The `MC...` modules give the constants their values. Request slots are symmetric
where a run has two and checks safety only.

| run | instance | what it shows |
|---|---|---|
| lending_concurrent | 2 handlers, 1 payment, 2 contract ids, crashes, no chain; 350 000 states | BorrowerSignsFirst, SignedByBoth, ActiveIsScheduled, DisbursementWasPaid survive every interleaving of stale reads and late writes |
| lending_serial | 1 handler, everything: chain with lost receipts and reverts, client hashes, reviews, cancellations, crashes; 1.3 million states | the handlers implement `Agreement`; ActiveIsSigned, HashesAreBacked, PaymentIsNotLost |
| lending_approval | 2 handlers, fairness, no crash, no denial; 17 000 states | ApprovalDrafts: an approval leads to a contract or the loan is gone |
| repay_concurrent | 2 verifications, 3 payments, 3 rows, 2 installments, crashes; 3.8 million states | MoneyIsAccounted, AnsweredIsCounted, ScheduleWithinBalance, RecordedOnce, PaidStaysPaid |
| payment_flow | 1 page of any kind, 2 handlers, 1 payment, loops of 3 attempts, crashes, fairness; 180 000 states | SuccessIsRecorded, and PagesEnd: every page stops asking |
| quota | 2 handlers, a plan with a limit and one without, 2 epochs; 1.1 million states | OverrunIsBounded, UsageIsCounted, OneSelected |
| onboarding | 2 requests, 2 users, 2 KYCs, 3 calls of KycService, 2 loans a user; 0.2 million states | VerifiedWasReviewed, GateIsReviewed, StatusAgrees, ChainShowsDecisions, ApplicationsAreBounded |
| sessions | 2 calls in flight, 2 devices, 2 sessions; 4 million states | RevokedStaysRevoked, LiveIsIndexed, SignedOutStaysOut, CallsEnd |
| accounts | 3060 terms; one of them followed over 4 instants and 3 transactions; 860 000 states | ScheduleAddsUp, OnlyLastIsLate, NothingForgiven, WalletSeriesCover, DashboardAgrees |
| lending_race_disburse, lending_race_remove, payment_page | as above, smallest instance | statements of the repository the code does not keep (section 4) |

Why the bounds are enough. Two handlers are what a stale read needs: one that
read, one that writes in between; the handlers interact only through one row, so
a third adds length, not a new kind of step (the proofs below remove the bound
where it matters most). Two contract ids allow a contract to be deleted and
drafted again while a handler still holds the first. One payment suffices for
a check that compares its owner and status; that it may change owner (deleted
contract, NULL owner) and status is in the model. Two installments of 2 with
payments of 2, 1 and 4 give full, partial and several payments, and three rows
let one payment be recorded once more than there are handlers. A limit of 1
and a counter up to limit + handlers reach the limit, pass it, and reset it; the
plan without a limit is there for the selection, and its charges are not followed.
Two KYCs let an older one be verified after a newer one was created, or move to
another user; three calls let a creation be followed by a verification and by a
move, a removal, a second verification or a newer KYC, before or beside it (four
calls, 4 million states, were run by hand and show no violation; the proofs bound
none), and applications do not count among them. Two sessions are one that is revoked
and one that is created meanwhile. Amounts of 0 to 12 cents over 1 to 52
installments are where rounding leaves nothing for the last row; the larger ones
are where it does not. The instants of `accounts` lie two hours, then eleven
days, then five weeks apart, so that all three kinds of buckets occur. Three
attempts stand for the 6, 10 and 12 of the polling loops: a first, a middle and a
last one.

Deadlock is checked except in `onboarding` (the bound on calls), `sessions` (the
bound on sessions) and `accounts` (a contract that is not followed
ends with its payout).

Fairness. `lending_approval` needs weak fairness of `Step(r)` for each slot, which
is what the Node event loop gives: an await that settles is resumed. Nothing is
assumed of clients, who need never call. The instance has no crash, since a
crash between APPROVED and the draft leaves the loan without a contract until
somebody calls create, and the blockchain is disabled, so that `orchestrate()`
(whose denial throws and has the same effect) is not reached. `payment_flow`
assumes the same of the handlers, and of an open page that it does what it does
next (`Ask`): its timers fire. That the gateway ever reports the payment, that
an answer arrives, or that the borrower comes back is not assumed. It has one
page: two pages over two slots could keep each other waiting for a free slot,
which no server does. CallsEnd of `sessions` needs no fairness: it is stated as a
measure that every step of a call lowers and no other step raises.

## 4. Where code and text disagree

Checked, with a run that finds the counterexample:

* **lending_race_disburse**: `disburse` wants a SIGNED contract, yet a second
  signature by the borrower, begun before the lender signed, writes its stale list
  back at line 766 while `disburse` is on its way. The contract is ACTIVE without
  the lender's signature. With one request at a time ActiveIsSigned holds.
* **lending_race_remove**: `remove` refuses a contract that is not DRAFT with 'Only
  draft contracts can be deleted' (contracts.service.ts:1071), on the row it read,
  and deletes by id after its awaits (1107). What another request has made of the
  contract meanwhile, up to paying it out, is deleted with it.
* **payment_page**: when the callback and the polling fail, the web page looks
  the payment up once more and, when the gateway says complete, verifies it
  without contract and installment (PaymentSuccess.tsx:104). The transaction is
  recorded for nobody's contract, neither balance nor installment is written, a
  later verification finds the row and does nothing, and the page says "Your
  gateway payment has been verified and the selected installments were
  updated." (287-288). AnsweredIsCounted has to leave these payments out.

Seen while modelling, in the models as the code has them, without a run.

Contracts and payments:

* `signContract` takes the hash of the creation for the hash of the signing
  (contracts.service.ts:677-688), so `ContractRegistry.signContract` is not called
  for a contract created with the chain, while the web README (87) says that the
  fields confirm the signing was recorded. HashesAreBacked says what is true.
* Part of an installment is paid: `PARTIALLY_PAID` (payments.service.ts:381) is not
  a value of the database enum (`PARTIAL` is, schema.prisma:594), so the last write
  throws after the transaction and the balance were written, and the installment
  never shows the money. It is not lost for the reports: NothingForgiven.
* `POST /transactions` completes a repayment without touching the contract
  (transactions.service.ts:326-366): the dashboard collects it, the balance does not.
  NothingForgiven says that the collections exceed the balance by these rows, and
  by those of a handler that died before the balance, and by nothing else.
* A process that dies between the transaction row and the balance leaves a row
  that makes every retry answer success; the balance never gets the money, while
  the app says "your loan repayment has been updated" (callback.tsx:201). `lost`
  in MoneyIsAccounted and AnsweredIsCounted is exactly this amount.
* `update` answers 'Cannot update contract status.' (584) after it has written the
  status (521): `BlockchainUpdateFails` comes after `WriteUpdate`.
* Two or more selected installments are joined with `,` into a foreign key
  column (payments.service.ts:287): `RecordFails` is then the only way on.
* 'limit enforcement' (Features.tsx:57) allows an overrun by the other handlers
  in flight: OverrunIsBounded is the exact bound.
* A payment of the whole balance names no installment: the schedule rows stay
  PENDING and go on to be reported as pending payments.
* The native page's catch block starts the polling loop that has just failed; when
  it throws again nobody catches it (make-repayment.tsx:176-180), and the
  processing screen stays ("stuck").
* When the web page finds a stored payment and the callback of another, it
  verifies the callback's transactionUuid with the stored amount, contract and
  installments (useEsewaPayment.ts:217-246). Not modelled: the stored payment is the page's.
* The unit test 'rejects borrower actions on web platform' expects a denial that
  `orchestrate` does not make: `Admitted` restricts the app only.
* PaidStaysPaid holds in part because a partial write never succeeds: with the
  enum value the service should have written, a stale partial amount would
  overwrite PAID. That is its mutant (`NewInstallmentPartial`); whoever repairs
  the enum must make the update of the installment atomic too.

KYC:

* create flags the borrower PENDING and stamps the row at its end (208, 230): a
  verification that came in between is overwritten in the flag and stays in the
  row. `update` keeps VERIFIED although the data changed. Verifying an older KYC
  sets the borrower's flag, while the pages look at the latest KYC.
* A KYC moved to another user while it is VERIFIED opens that user's gate without
  a review: GateIsReviewed says of whom the review was only while no KYC changed
  hands.
* The registry may stay behind the row: an update that sends an older status
  overtakes a verification (598), or a receipt is lost. ChainShowsDecisions says
  that a VERIFIED it shows was decided once, not that it is the latest word.
* A verification that dies between row and flag (765) leaves a VERIFIED row whose
  borrower is not flagged; StatusAgrees is stated of calm histories, without it.
* The open applications of a user have no bound: the page sees the latest loan
  only, and once that is rejected an older open one no longer blocks.
  ApplicationsAreBounded is what is left. The form may also send the
  application to another lender than the one the page looked at
  (ApplyLoan.tsx:158-173), and `getStatus` counts the KYCs of a borrower at any
  lender (kyc.service.ts:268-272); the models have one lender, so GateIsReviewed
  says nothing of an application that was opened at one and sent to another.
* KYCRegistry has no function that deletes, so `remove` ends in an error whenever
  the platform pays for the chain.

Sessions:

* A refresh that has read a session writes it back after a logout (`raced`), for
  seven days and without the index; a session created between `sMembers` and
  `del` of the index survives a logoutAll unlisted, and so does one whose login
  died between its two commands (`unlisted`). RevokedStaysRevoked and
  LiveIsIndexed say that nothing else brings a session back or hides one.
* The answer of a refresh that was under way when the user signed out stores its
  tokens afterwards (`late`). SignedOutStaysOut says that nothing else does.
* Nothing removes an expired session from the index.
* A refresh that fails late signs out a user who has logged in again meanwhile.

Reports:

* The wallet's range ends at the instant given, the dashboard's at the end of that
  day. A disbursement names the borrower row, and the borrower's wallet looks for
  the user: `toGive` never counts it (payments.service.ts:272,
  transactions.service.ts:440).
* The last weekly or quarterly installment can fall due after the contract has
  ended (OnlyLastIsLate says that no other can), and contracts over a few cents can
  ask for up to (n - 1) / 2 cents more than is due (ScheduleAddsUp).
* `getBorrowerAnalytics` filters by `user.id` (analytics.service.ts:680), which the
  payload of the token does not have, so the filter is empty. Not modelled.

## 5. The proofs

All from the constants' assumptions (`LendingAssumption`, `QuotaAssumption`,
`SessionAssumption`, `KycAssumption`, `RepaymentAssumption`, `PaymentFlowAssumption`,
`AccountsAssumption`), for any number of handlers, rows and amounts and for any
workload. Where a theorem needs more, it says so as a hypothesis: `Serial` is one
request at a time, and `PatchStatuses` and `ReviewStatuses` are what `update` and
`review` are asked to write. Every safety invariant and action property of a
passing run is the property of a theorem. Almost every inductive invariant below was
found where the property alone was not inductive: the rows say too little about
what the handlers in flight still carry.

`LendingProofs`, any interleaving:

* `TypeCorrect`: `Spec => []TypeOK`. TypeOK is inductive as it stands; the one
  fact that is not immediate is that the id drawn for a new contract is an id
  (`FreshIdIsFresh`), which holds because every creating action requires
  FreshIds to be nonempty.
* `SignatureOrder`: `Spec => []BorrowerSignsFirst`. The inductive invariant `OrderInv`
  says of every running handler that the list in its snapshot is ordered
  too, and that a handler which is going to add the lender's signature holds a
  list that already has the borrower's. The first is what CommitSignature needs
  when a borrower's stale list is written, the second when the lender's is. Both
  are established by the guards of the `Begin...` actions at the moment of
  reading and never change afterwards: a snapshot is immutable.
* `StepSums` sums every action up as a step of one slot (`SlotStep`) and of the row
  (`RowStep`: inserted, signed, paid out, restated, updated, taken away, kept), so
  that the proofs after it go by what happens to the row and not by forty actions.
  `HeldInv` is what any snapshot satisfies; its core is `DraftHeld`: the id drawn for
  a draft belongs to nobody else.
* `SignedHolds`: `[]SignedByBoth` by `SignedInv` (a handler that holds a signed row, or is
  going to make one, has both signatures). Hypothesis: no PATCH asks for SIGNED. A
  PATCH that does sets the status and no signature, as the code has it.
* `ActiveIsScheduledHolds`: `[]ActiveIsScheduled` by `ScheduledInv`, unless a PATCH asks
  for ACTIVE.
* `DisbursementWasPaidHolds`: `[]DisbursementWasPaid` by `PaidInv`: a COMPLETED transaction
  is in `settled` for its owner, and a handler past its check holds such a one.
* `HashesAreBackedHolds`: `[]HashesAreBacked` by `HashInv`, on the fact that the chain only
  grows (`ChainGrows`).

`LendingProofs`, one request at a time. `SerialInv` says that the row a handler read
is the row that is there (`Believes`), that its guards still hold (`Guarded`), and
that a deleted contract leaves nothing (`NothingLeft`):

* `PaymentIsNotLostHolds` (an action property) and `ActiveIsSignedHolds`. Of
  concurrent requests ActiveIsSigned is refuted by lending_race_disburse.
* `Refinement`: `Spec => ImplementsAgreement`, when `review` sets UNDER_REVIEW,
  APPROVED or REJECTED and `update` at most CANCELLED: a PATCH to any other status
  passes Agreement by. Each action is a step of `Agreement` or leaves its three
  variables alone (`StepAgrees`, `NextAgrees`).

`QuotaProofs`:

* `QuotaTypeCorrect`: `Spec => []TypeOK`, strengthened by `Resolved`: a handler
  that is past the resolver has a plan.
* `QuotaOverrun`: `Spec => []OverrunIsBounded`. The inductive invariant is
  `Typed` with `Bounded(p)` for each plan: the counter plus the handlers that
  were granted a transaction and have not charged it is less than limit plus
  handlers. A step keeps it in one of three ways, each a lemma: neither side
  grows (`NothingGranted`); a handler is granted, while the counter is below the
  limit and the handler itself was not among the granted ones (`BelowLimit`);
  a granted handler charges and leaves the set (`GrantCharged`).
* `UsageIsCountedHolds`, for any number of handlers: `Tallied` says that while the
  window of a plan is not torn, whoever has read it read the one there is, and
  whoever is about to reset it resets one that is over; so no reset wipes what was
  charged. `Sound` adds that only a row that is there has a window or a selection,
  and that a handler looks only at what it has still to refresh.
* `OneSelectedHolds`, for any number of handlers: `Single` adds to the property that
  no row is selected while a purchase is about to select its own, and that a
  selection under way rewrites every row that is selected.

`SessionsProofs`:

* `SessionsTypeCorrect`: `Spec => []TypeOK`, strengthened by `Known` (every session
  anyone holds has been created, and a handler about to write or delete one holds
  one) and `Room` (a login under way has the number of its session in reserve, so
  that SetEx never runs past MaxSessions).
* `RevocationHolds`: `Spec => []RevokedStaysRevoked`. The keys say too little: a
  refresh standing at its write brings back what it read. `RevokedInv` adds that
  any such refresh of a revoked session is noted (`RenewNoted`): Touch, which puts a
  refresh there, finds the session live, and Revoke notes those that stand there.
* `SignedOutHolds`: `Spec => []SignedOutStaysOut`. `OutInv` adds that every refresh
  under way of a device that signed out is noted (`LateNoted`); only a refresh
  stores tokens later, and a new one needs tokens to begin with.
* `IndexHolds`: `Spec => []LiveIsIndexed`, for any interleaving. `IndexInv` adds what
  the handlers rely on (`Relies`): a refresh at its write has a session that is
  listed, or noted; the entry that revokeSession is about to take from the index, and
  all those revokeAllUserSessions has read, were revoked. It needs `RevokedInv`:
  what is taken from the index (`ListedKept`) is gone, or raced.
* `CallsComeToAnEnd`: `Spec => CallsEnd`, from the value of Left at each step of a
  call and the fact that a step writes one slot only.


`OnboardingProofs`:

* `OnboardingTypeCorrect`: `Spec => []TypeOK`, strengthened by `SlotOK` (a handler
  knows its user and its KYC, unless it has yet to read or to create them) and
  `Room` (KYCs are numbered without gaps and a creation under way has its number in
  reserve). That the page's latest KYC exists (`LatestIsMine`) rests on the
  well-foundedness of the naturals.
* `FlaggedWasReviewed`, `RegistryShowsDecisions`: `Spec => []VerifiedWasReviewed` and
  `Spec => []ChainShowsDecisions`. The flags and the registry are written from what
  a handler carries, so `Reviewed` says of the rows, and of each handler, that a
  VERIFIED it holds was decided of its KYC, and of a verification past its reading
  that it was decided of the user it is going to flag (`SlotReviewed`). An update
  sends the status of the row on, which is why the rows are part of it.
* `LoansRelyOnReviews`: `Spec => []GateIsReviewed`, from `Reviewed` and `Settled`: in
  a calm history a KYC keeps its owner, so the owner a decision, an application or
  an update under way has noted is the one the row still has.
* `ApplicationsAreBoundedHolds`: inductive with the types. A window opens when no
  counted loan is open, so the applications under way are all there is to count; an
  application that arrives moves from the one term to the other.
* `StatusAgreesHolds`: `Agreeing` says that in a calm history one handler runs, no KYC
  is gone, and a user flagged VERIFIED has a VERIFIED KYC, or a verification is
  about to write the flag anew (`Flagging`).

`Sums` is the library the next three rest on: sums over a finite set
(MapThenSumSet of the community modules) when an element enters or leaves
(`SumAdds`, `SumTakes`), when one value changes (`SumChanges`), of a part (`SumWithin`),
of two parts (`SumSplits`), of two functions (`SumOfBoth`), by comparison (`SumIsLess`)
and of disjoint parts (`SumOfParts`). The induction theorems of the library take an
operator as a parameter, so the induction is by the smallest counterexample: the
sizes of the sets that have one are a set of naturals, and its least element is
contradicted (`LeastNumber`, `SmallestSet`).

`RepaymentsProofs`:

* `RepaymentTypeCorrect`: `Spec => []TypeOK`, strengthened by what a handler holds at
  each await (`Running`) and which rows are in use (`InUse`).
* `MoneyIsAccountedHolds`: inductive with the types; what has to be shown is how
  the two sums move when a handler records, applies, dies or answers.
* `ScheduleWithinBalanceHolds`: an installment is written from a stale reading, so its
  amount is no sum of what happened to it. `Covering` says that there is a bookkeeping
  `done`, the money that handlers brought to each installment, under which no
  installment shows, and no handler has read, more than was brought, and that `done`
  and what is on its way fit into the balance.
* `RecordedOnceHolds`: `OnceOrCreating` counts with the rows of a payment the handlers
  about to create another one.
* `PaidStaysPaidHolds` (action property): from a row that is there, the only status
  the database accepts is PAID.
* `AnsweredIsCountedHolds`: from MoneyIsAccounted and `RowsKept`: whoever was told of a
  payment, or is going to be, has a row for it as long as the loan is there.

`PaymentFlowProofs`:

* `FlowKeepsServer`: `FlowSpec => Spec` of Repayments: pages add nothing to what the
  server does, so every theorem of `RepaymentsProofs` holds with them. It rests on
  `Waits`: a page waits for a handler of its own payment.
* `SuccessIsRecordedHolds`: `FlowSpec => []SuccessIsRecorded`, from Waits and RowsKept.

`AccountsProofs`, for any terms the assumption allows (a start on a day its month
has, and a calendar long enough):

* `ScheduleAddsUpHolds`: rounding to a cent moves a row by half a cent at most
  (`RoundFacts`), the last row takes the rest (`LastTakesTheRest`), and repayments keep
  the planned amounts of the rows (`Planned`).
* `OnlyLastIsLateHolds`: `Calendar` computes the days before each month of the two
  years, one after the other by `NextMonth`; months apart are days apart (`MonthsApart`), also when a 31st rolls
  over.
* `NothingForgivenHolds`: `Books` (what payments collected is the balance, the
  installments show no more than it, one is PAID only when it is covered, and only
  posted rows wait to be completed) and `PendingCovers`.
* `WalletSeriesCoverHolds`: the buckets cut a range without gap or overlap (`BucketsCut`),
  so a sum per bucket adds up to the sum of the range (`BucketsAddUp`, by SumOfParts).
* `DashboardAgreesHolds`: `Kept`: what an undisturbed request has read is still so.

What stays with TLC, and why:

* liveness: `ApprovalDrafts` and `PagesEnd` rest on fairness, that is on ENABLED,
  which the provers cannot handle. (That the steps of a call of `sessions` come to an
  end is proved, being stated as a measure.)
* the three violation runs: a counterexample is nothing to prove.
* how far a theorem's assumptions reach: TLC evaluates each named assumption on
  the instances, and the calendar stays the two years of `Installments`, whose
  months the proof names one by one (`MonthLengths`).

Two CASEs had guards that overlap (`Threw` and `LookupThrew` of PaymentFlow, `Buckets`
of Accounts): TLC takes the first that holds, TLA+ any. They are disjoint now.

## 6. Not modelled, and the plan

Not modelled:

* payment configurations, rules, wallets, tenants, roles and permissions, and the
  administration of users and borrowers: handlers that write one row from one
  request, whose only interleaving is the last writer winning, which no text of the
  repository speaks about. `setPrimary` of wallets (two writes, wallets.service.ts:143)
  and `LoansService.update` (it writes before it asks, 604) are of the same kind.
* registration, one-time codes and password resets, which expire and are used once.
* activity logs, mail and uploads: pure output.
* the screens, forms and tables of the clients, which are most of the
  repository's lines and keep no state beyond what the API answers, and the public
  pages.
* the payment behind a subscription purchase: one completed FEE transaction can
  pay for any number of purchases (subscriptions.service.ts:327), since nothing
  marks it as used.

Left to do: the properties of the lending core that hold of one request at a time,
for as many requests as keep out of each other's way, that is under the exact
race each of them has to exclude, as the quota and the sessions have it, and the administration of users and
tenants, should its writes ever come to depend on each other.
