------------------------------ MODULE Onboarding ------------------------------
(***************************************************************************)
(* The clients around KycService: the lender's console, which in wallet    *)
(* mode writes the registry itself, and the borrower's web and mobile      *)
(* clients, which let a user apply for a loan once the latest KYC is       *)
(* VERIFIED.  LoansService.create asks only for a borrower row, so the     *)
(* gate is the clients' alone, and what it read may be old when the        *)
(* application arrives.  What becomes of a loan afterwards is kept only as *)
(* far as the web page can tell: it looks at the user's latest loan.       *)
(***************************************************************************)
EXTENDS Kyc

-----------------------------------------------------------------------------
(* The console.                                                            *)

\* "Verify" with a wallet: the browser signs updateKYCStatus, then asks the API.
\* A missing or refusing wallet stops it, any other error does not.
BeginConsoleVerify(r) ==
  /\ \E k \in Kycs :
       /\ There(k)
       /\ Ask(k, "VERIFIED")
       /\ Enter(r, [Idle EXCEPT !.op = "verify", !.pc = "sign", !.k = k,
                                !.status = "VERIFIED", !.payer = "USER"], TRUE)
  /\ UNCHANGED <<enabled, rows, loan, relied, blind>>

SignVerify(r) ==
  /\ At(r, "sign") /\ req[r].op = "verify"
  /\ \/ Finish(r) /\ UNCHANGED registry
     \/ Goto(r, "read") /\ UNCHANGED registry
     \/ /\ registry[req[r].k] # None
        /\ registry' = [registry EXCEPT ![req[r].k] = "VERIFIED"]
        /\ Goto(r, "read")
  /\ UNCHANGED <<enabled, kyc, borrower, loan, history, calm, calls>>

ReadVerify(r) ==
  LET k == req[r].k
  IN /\ At(r, "read")
     /\ IF There(k)
        THEN /\ Ask(k, "VERIFIED")
             /\ req' = [req EXCEPT ![r] = ReadForVerify(k, "VERIFIED", "USER")]
        ELSE Finish(r) /\ UNCHANGED asked
     /\ UNCHANGED <<enabled, rows, loan, relied, blind, calm, calls>>

\* After a creation with a wallet the browser records the KYC once more, as
\* PENDING; whatever happens there is only shown.
SignCreate(r) ==
  /\ At(r, "sign") /\ req[r].op = "create"
  /\ registry' \in {registry, [registry EXCEPT ![req[r].k] = "PENDING"]}
  /\ Finish(r)
  /\ UNCHANGED <<enabled, kyc, borrower, loan, history, calm, calls>>

-----------------------------------------------------------------------------
(* The borrower's clients.                                                 *)

Mine(u) == {k \in Kycs : There(k) /\ kyc[k].owner = u}

\* getStatus: the status of the KYC created last.
Latest(u) == CHOOSE k \in Mine(u) : \A j \in Mine(u) : j <= k

NotRejected(u) == Mine(u) # {} /\ kyc[Latest(u)].status # "REJECTED"
GateOpens(u) == Mine(u) # {} /\ kyc[Latest(u)].status = "VERIFIED"

\* The web page asks for the latest loan only: one that is closed hides those
\* before it, open or not.
IgnoresOne(u) == loan[u] <= 1
MayApply(u) == loan[u] = 0

Unfollow(u) ==
  /\ blind' = blind \union {u}
  /\ loan' = [loan EXCEPT ![u] = 0]

\* The page offers the form; the user fills it in while the world moves on.  A
\* look at the loans that fails, or has not answered yet, stops nobody.
BeginApply(r) ==
  /\ \E u \in Users :
       /\ GateOpens(u)
       /\ IF MayApply(u) THEN UNCHANGED <<loan, blind>> ELSE Unfollow(u)
       /\ Open(r, [Idle EXCEPT !.op = "apply", !.pc = "apply", !.user = u,
                               !.k = Latest(u)], TRUE)
  /\ UNCHANGED <<enabled, rows, relied, asked, calls>>

\* LoansService.create up to orchestrate().
SubmitLoan(r) ==
  /\ At(r, "apply")
  /\ IF borrower[req[r].user] = None THEN Finish(r) ELSE Goto(r, "decide")
  /\ UNCHANGED <<enabled, rows, loan, history, calm, calls>>

InsertLoan(r) ==
  LET u == req[r].user
  IN /\ At(r, "loan")
     /\ \/ u \in blind /\ UNCHANGED loan
        \/ /\ u \notin blind /\ loan[u] < MaxLoans
           /\ loan' = [loan EXCEPT ![u] = @ + 1]
     /\ relied' = relied \union {<<u, req[r].k>>}
     /\ Finish(r)
     /\ UNCHANGED <<enabled, rows, asked, blind, calm, calls>>

-----------------------------------------------------------------------------
(* What becomes of the loans.  No handler of LoansService minds their      *)
(* status.                                                                 *)

\* A loan is rejected, provided or removed, by this lender or another: of those
\* counted, the ones newer than it remain.
CloseLoan(u) ==
  /\ \E n \in 0 .. loan[u] - 1 : loan' = [loan EXCEPT ![u] = n]
  /\ UNCHANGED <<enabled, rows, history, calm, calls, req>>

\* A review reopens the latest closed loan, or it is removed: those before it
\* count again.
LoanReturns(u) ==
  /\ u \notin blind /\ \E a \in relied : a[1] = u
  /\ Unfollow(u)
  /\ UNCHANGED <<enabled, rows, relied, asked, calm, calls, req>>

-----------------------------------------------------------------------------
\* The process running the handler dies, or its database does.
Crash(r) ==
  /\ ~At(r, "idle")
  /\ Finish(r)
  /\ calm' = FALSE
  /\ UNCHANGED <<enabled, rows, loan, history, calls>>

Init ==
  /\ enabled \in BOOLEAN
  /\ kyc = [k \in Kycs |-> FreeRow]
  /\ borrower = [u \in Users |-> None]
  /\ registry = [k \in Kycs |-> None]
  /\ loan = [u \in Users |-> 0]
  /\ relied = {} /\ asked = {} /\ blind = {}
  /\ calm = TRUE /\ calls = 0
  /\ req = [r \in Requests |-> Idle]

Step(r) ==
  \/ KycBegin(r) \/ KycStep(r)
  \/ BeginConsoleVerify(r) \/ SignVerify(r) \/ ReadVerify(r) \/ SignCreate(r)
  \/ BeginApply(r) \/ SubmitLoan(r) \/ InsertLoan(r)
  \/ Crash(r)

Next ==
  \/ \E r \in Requests : Step(r)
  \/ \E u \in Users : CloseLoan(u) \/ LoanReturns(u)

Spec == Init /\ [][Next]_vars

-----------------------------------------------------------------------------
TypeOK ==
  /\ enabled \in BOOLEAN /\ calm \in BOOLEAN
  /\ kyc \in [Kycs -> Rows]
  /\ borrower \in [Users -> Statuses \union {None}]
  /\ registry \in [Kycs -> Statuses \union {None}]
  /\ loan \in [Users -> 0 .. MaxLoans]
  /\ blind \subseteq Users
  /\ relied \subseteq Users \X Kycs
  /\ asked \subseteq Kycs \X Users
  /\ calls \in 0 .. MaxCalls
  /\ req \in [Requests -> RequestRecords]

\* Whoever is flagged VERIFIED was so because a reviewer decided it of a KYC
\* that was this user's when it was decided, however a verification, a change of
\* the KYC's owner and its removal interleave (kyc.service.ts verify, update).
VerifiedWasReviewed ==
  \A u \in Users : borrower[u] = "VERIFIED" =>
    \E k \in Kycs : <<k, u>> \in asked

\* No loan without a reviewed KYC: the KYC an application relied on had been
\* decided VERIFIED, although the server never looks; and it had been decided
\* of the applicant as long as no KYC changed hands.
GateIsReviewed ==
  \A a \in relied : \E v \in Users :
    /\ <<a[2], v>> \in asked
    /\ calm => v = a[1]

\* The borrower's flag and the KYC rows agree when handlers run one at a time:
\* between them, a borrower flagged VERIFIED has a VERIFIED KYC.
StatusAgrees ==
  (calm /\ \A r \in Requests : ~At(r, "flag")) =>
    \A u \in Users : borrower[u] = "VERIFIED" =>
      \E k \in Mine(u) : kyc[k].status = "VERIFIED"

\* The registry shows no KYC as VERIFIED that no reviewer decided so, although
\* it may have been written by a verification that ended in an error, and an
\* update sends the row's status once more.
ChainShowsDecisions ==
  \A k \in Kycs : registry[k] = "VERIFIED" =>
    \E u \in Users : <<k, u>> \in asked

\* The clients look for an open loan, the server does not: several windows can
\* each get an application through.  But of the loans newer than the latest
\* closed one a user never has more than there were windows, unless a window
\* could not look, or a loan that had been closed came back (ApplyLoan.tsx,
\* isLoanBlocked; lender-details.tsx, checkExistingLoan).
ApplicationsAreBounded ==
  \A u \in Users \ blind :
    loan[u] + Cardinality({r \in Requests : req[r].op = "apply" /\ req[r].user = u})
      <= Cardinality(Requests)
=============================================================================
