--------------------------------- MODULE Kyc ---------------------------------
(***************************************************************************)
(* The KYC rows of one tenant, the kycStatus of its borrowers, the         *)
(* KYCRegistry on the chain, and the handlers of KycService.  A handler is *)
(* cut at its awaits: it keeps what it read while other handlers run.      *)
(*                                                                         *)
(* KYCs are numbered in the order of their creation.  Personal data, files *)
(* and mail are left out.  No client of the repository sends a hash of its *)
(* own with a KYC, so the branch of the DTOs that takes one is left out.   *)
(***************************************************************************)
EXTENDS Integers, FiniteSets

CONSTANTS
  Requests,  \* slots for handlers running at the same time
  Users,     \* people who are, or may become, borrowers of the tenant
  NoUser,    \* nobody: the owner of a row not created yet
  MaxKyc,    \* bound: KYC rows ever created
  MaxLoans,  \* bound: loans of one user newer than the latest closed one
  MaxCalls   \* bound: handlers of KycService ever begun

ASSUME KycAssumption ==
  /\ IsFiniteSet(Requests)
  /\ NoUser \notin Users
  /\ MaxKyc \in Nat /\ MaxLoans \in Nat /\ MaxCalls \in Nat

VARIABLES
  enabled,   \* BlockchainService.isEnabled()
  kyc,       \* the KYC rows
  borrower,  \* Borrower.kycStatus, by user
  registry,  \* KYCRegistry.kycRecords: the status recorded for a KYC
  loan,      \* how many loans of a user are newer than the latest closed one
  relied,    \* history: which KYC an application relied on
  asked,     \* history: what reviewers decided to be VERIFIED: a KYC, its owner
  blind,     \* history: users one of whose windows applied without a look at
             \* the loans, or whose closed loan was reopened or removed; their
             \* loans are followed no further
  calm,      \* history: no handlers overlapped, none died, no KYC was moved or
             \* removed
  calls,     \* how many of them have begun
  req        \* the running handlers

rows == <<kyc, borrower, registry>>
history == <<relied, asked, blind>>
vars ==
  <<enabled, kyc, borrower, registry, loan, relied, asked, blind, calm, calls, req>>

Kycs == 1 .. MaxKyc
Decisions == {"VERIFIED", "REJECTED"}
Statuses == {"PENDING"} \union Decisions
None == "NONE"

Rows == [row: {"FREE", "THERE", "GONE"}, owner: Users \union {NoUser},
         status: Statuses, hash: BOOLEAN]
FreeRow == [row |-> "FREE", owner |-> NoUser, status |-> "PENDING", hash |-> FALSE]

Ops == {"create", "update", "verify", "remove", "apply"}
PCs == {"idle", "join", "insert", "decide", "record", "stamp", "flag", "write",
        "delete", "sign", "read", "apply", "loan"}
Payers == {"USER", "PLATFORM"}

\* `k` is 0 before there is a row; `hash` is whether the handler holds one.
RequestRecords ==
  [op: Ops, pc: PCs, k: 0 .. MaxKyc, user: Users \union {NoUser},
   status: Statuses, hash: BOOLEAN, payer: Payers]

Idle == [op |-> "create", pc |-> "idle", k |-> 0, user |-> NoUser,
         status |-> "PENDING", hash |-> FALSE, payer |-> "PLATFORM"]

At(r, pc) == req[r].pc = pc
Goto(r, pc) == req' = [req EXCEPT ![r].pc = pc]
Finish(r) == req' = [req EXCEPT ![r] = Idle]
There(k) == k \in Kycs /\ kyc[k].row = "THERE"
Created == {k \in Kycs : kyc[k].row # "FREE"}


\* The creations that have not inserted their row, for the bound.
Creating == {q \in Requests : req[q].pc \in {"join", "insert"} /\ req[q].op = "create"}

\* A handler begins; `quiet` tells whether it leaves the history calm.
Open(r, record, quiet) ==
  /\ At(r, "idle")
  /\ req' = [req EXCEPT ![r] = record]
  /\ calm' = (calm /\ quiet /\ \A q \in Requests : At(q, "idle"))

Enter(r, record, quiet) ==
  /\ calls < MaxCalls /\ calls' = calls + 1
  /\ Open(r, record, quiet)

-----------------------------------------------------------------------------
(* create.                                                                 *)

\* `payer` is whether the caller, at the console, also signs with a wallet.
BeginCreate(r) ==
  /\ Cardinality(Created) + Cardinality(Creating) < MaxKyc
  /\ \E u \in Users, payer \in Payers :
       Enter(r, [Idle EXCEPT !.pc = IF borrower[u] = None THEN "join" ELSE "insert",
                             !.user = u, !.payer = payer], TRUE)
  /\ UNCHANGED <<enabled, rows, loan, history>>

\* borrower.create, also for the borrower a KYC is moved to: the pair of
\* tenant and user is unique, so the second of two such handlers throws.
Join(r) ==
  /\ At(r, "join")
  /\ IF borrower[req[r].user] = None
     THEN /\ borrower' = [borrower EXCEPT ![req[r].user] = "PENDING"]
          /\ Goto(r, IF req[r].op = "create" THEN "insert" ELSE "write")
     ELSE Finish(r) /\ UNCHANGED borrower
  /\ UNCHANGED <<enabled, kyc, registry, loan, history, calm, calls>>

NewRowUnset(u) == [row |-> "THERE", owner |-> u, status |-> None, hash |-> FALSE]
NewRow(u) == [row |-> "THERE", owner |-> u, status |-> "PENDING", hash |-> FALSE]

InsertKyc(r) ==
  LET k == Cardinality(Created) + 1
  IN /\ At(r, "insert")
     /\ kyc' = [kyc EXCEPT ![k] = NewRow(req[r].user)]
     /\ req' = [req EXCEPT ![r].pc = "decide", ![r].k = k]
     /\ UNCHANGED <<enabled, borrower, registry, loan, history, calm, calls>>

-----------------------------------------------------------------------------
(* The decision of orchestrate(), and the chain.                           *)

\* create goes to the chain whoever pays, update and verify only for the
\* platform.  remove asks the registry for a function it does not have, so
\* unless the user pays it ends here.
Granted(r) ==
  CASE req[r].op = "create" -> IF enabled THEN "record" ELSE "stamp"
    [] req[r].op = "update" ->
         IF req[r].payer = "PLATFORM" THEN "record"
         ELSE IF req[r].hash THEN "stamp" ELSE "idle"
    [] req[r].op = "verify" -> IF req[r].payer = "PLATFORM" THEN "record" ELSE "write"
    [] req[r].op = "remove" -> IF req[r].payer = "USER" THEN "delete" ELSE "idle"
    [] req[r].op = "apply"  -> "loan"

Decide(r) ==
  /\ At(r, "decide")
  /\ \/ Finish(r)
     \/ IF Granted(r) = "idle" THEN Finish(r) ELSE Goto(r, Granted(r))
  /\ UNCHANGED <<enabled, rows, loan, history, calm, calls>>

\* create sends PENDING, whatever the borrower's status is by now.
SentBorrowersStatus(r) ==
  IF req[r].op = "create" THEN borrower[req[r].user] ELSE req[r].status
SentStatus(r) == req[r].status

\* create and verify write a new record (verifyKYC), update changes one there
\* must be (updateKYCStatus).
Reverts(r) == req[r].op = "update" /\ registry[req[r].k] = None
Without(r) == IF req[r].op = "create" THEN "stamp" ELSE "idle"
With(r) == IF req[r].op = "verify" THEN "write" ELSE "stamp"

\* null is also the answer of a transaction that was mined.  update and verify
\* throw on null only if the row had no hash.
RecordOnChain(r) ==
  /\ At(r, "record")
  /\ \E landed, told \in BOOLEAN :
       /\ told => landed
       /\ landed => ~Reverts(r)
       /\ registry' = IF landed
                      THEN [registry EXCEPT ![req[r].k] = SentStatus(r)]
                      ELSE registry
       /\ LET hash == told \/ req[r].hash
              next == IF hash THEN With(r) ELSE Without(r)
          IN IF next = "idle" THEN Finish(r)
             ELSE req' = [req EXCEPT ![r].pc = next, ![r].hash = hash]
  /\ UNCHANGED <<enabled, kyc, borrower, loan, history, calm, calls>>

\* kyc.update of the hash; it throws when the row is gone.
Stamp(r) ==
  LET k == req[r].k
  IN /\ At(r, "stamp")
     /\ IF There(k)
        THEN /\ kyc' = [kyc EXCEPT ![k].hash = req[r].hash]
             /\ IF req[r].op = "create" THEN Goto(r, "flag") ELSE Finish(r)
        ELSE Finish(r) /\ UNCHANGED kyc
     /\ UNCHANGED <<enabled, borrower, registry, loan, history, calm, calls>>

\* The borrower's own copy of the status, written last.
OnlyUpgrades(r) ==
  IF req[r].status = "REJECTED" THEN borrower[req[r].user] ELSE req[r].status
NewFlag(r) == req[r].status

Flag(r) ==
  /\ At(r, "flag")
  /\ borrower' = [borrower EXCEPT ![req[r].user] = NewFlag(r)]
  /\ IF req[r].op = "create" /\ req[r].payer = "USER" THEN Goto(r, "sign") ELSE Finish(r)
  /\ UNCHANGED <<enabled, kyc, registry, loan, history, calm, calls>>

-----------------------------------------------------------------------------
(* update: new data, perhaps of another user; the status stays.            *)

BeginUpdate(r) ==
  /\ \E k \in Kycs, u \in Users, payer \in Payers :
       /\ There(k)
       /\ Enter(r, [Idle EXCEPT
                      !.op = "update", !.k = k, !.user = u, !.payer = payer,
                      !.hash = kyc[k].hash,
                      !.pc = IF u # kyc[k].owner /\ borrower[u] = None
                             THEN "join" ELSE "write"],
                u = kyc[k].owner)
  /\ UNCHANGED <<enabled, rows, loan, history>>

\* The status sent to the chain afterwards is the one this write returns.
UpdatedStatus(k) == kyc[k].status

WriteUpdate(r) ==
  LET k == req[r].k
  IN /\ At(r, "write") /\ req[r].op = "update"
     /\ IF There(k)
        THEN /\ kyc' = [kyc EXCEPT ![k].owner = req[r].user]
             /\ IF enabled
                THEN req' = [req EXCEPT ![r].pc = "decide",
                                        ![r].status = UpdatedStatus(k)]
                ELSE Finish(r)
        ELSE Finish(r) /\ UNCHANGED kyc
     /\ UNCHANGED <<enabled, borrower, registry, loan, history, calm, calls>>

-----------------------------------------------------------------------------
(* verify: a reviewer's decision.                                          *)

ReadForVerify(k, s, payer) ==
  [Idle EXCEPT !.op = "verify", !.k = k, !.user = kyc[k].owner, !.status = s,
               !.hash = kyc[k].hash, !.payer = payer,
               !.pc = IF enabled /\ s \in Decisions THEN "decide" ELSE "write"]

Ask(k, s) ==
  asked' = IF s = "VERIFIED" THEN asked \union {<<k, kyc[k].owner>>} ELSE asked

BeginVerify(r) ==
  /\ \E k \in Kycs, s \in Statuses, payer \in Payers :
       /\ There(k)
       /\ Ask(k, s)
       /\ Enter(r, ReadForVerify(k, s, payer), TRUE)
  /\ UNCHANGED <<enabled, rows, loan, relied, blind>>

\* The borrower flagged afterwards is the one read at the beginning, not the
\* one the row has now.
CurrentOwner(r) == kyc[req[r].k].owner
FlaggedUser(r) == req[r].user

WriteVerify(r) ==
  LET k == req[r].k
  IN /\ At(r, "write") /\ req[r].op = "verify"
     /\ IF There(k)
        THEN /\ kyc' = [kyc EXCEPT ![k].status = req[r].status,
                                   ![k].hash = req[r].hash]
             /\ req' = [req EXCEPT ![r].pc = "flag", ![r].user = FlaggedUser(r)]
        ELSE Finish(r) /\ UNCHANGED kyc
     /\ UNCHANGED <<enabled, borrower, registry, loan, history, calm, calls>>

-----------------------------------------------------------------------------
(* remove: the borrower's status stays, and so does the registry's.        *)

BeginRemove(r) ==
  /\ \E k \in Kycs, payer \in Payers :
       /\ There(k)
       /\ Enter(r, [Idle EXCEPT !.op = "remove", !.k = k, !.payer = payer,
                                !.pc = IF enabled THEN "decide" ELSE "delete"],
                FALSE)
  /\ UNCHANGED <<enabled, rows, loan, history>>

Delete(r) ==
  /\ At(r, "delete")
  /\ kyc' = IF There(req[r].k) THEN [kyc EXCEPT ![req[r].k].row = "GONE"] ELSE kyc
  /\ Finish(r)
  /\ UNCHANGED <<enabled, borrower, registry, loan, history, calm, calls>>

KycBegin(r) == BeginCreate(r) \/ BeginUpdate(r) \/ BeginVerify(r) \/ BeginRemove(r)
KycStep(r) ==
  \/ Join(r) \/ InsertKyc(r) \/ Decide(r) \/ RecordOnChain(r) \/ Stamp(r)
  \/ Flag(r) \/ WriteUpdate(r) \/ WriteVerify(r) \/ Delete(r)
=============================================================================
