--------------------------- MODULE OnboardingProofs ---------------------------
(***************************************************************************)
(* For any number of handlers, users, KYCs and loans: who is flagged       *)
(* VERIFIED was decided to be so by a reviewer, and so was every KYC that  *)
(* the registry shows as VERIFIED or that a loan relied on; a user whose   *)
(* windows saw her loans has no more open ones, since the latest closed    *)
(* one, than there were windows; and when handlers run one at a time, who  *)
(* is flagged VERIFIED has a VERIFIED KYC.                                 *)
(***************************************************************************)
EXTENDS Onboarding, FiniteSetTheorems, WellFoundedInduction, TLAPS

-----------------------------------------------------------------------------
(* The latest of the KYCs of a user exists if there is one at all.         *)

Below == {p \in Nat \X Nat : p[1] < p[2]}

LEMMA BelowIsWellFounded == IsWellFoundedOn(Below, Nat)
<1>1. Below = OpToRel(<, Nat)
  BY DEF Below, OpToRel
<1> QED BY <1>1, NatLessThanWellFounded

LEMMA HasLeast ==
  ASSUME NEW T, T \subseteq Nat, T # {}
  PROVE  \E x \in T : \A y \in T : x <= y
<1>1. PICK x \in T : \A y \in T : ~ (<<y, x>> \in Below)
  BY BelowIsWellFounded, WFMin
<1>2. ASSUME NEW y \in T PROVE x <= y
  <2>1. x \in Nat /\ y \in Nat /\ <<y, x>> \notin Below
    BY <1>1
  <2>2. ~(y < x)
    BY <2>1 DEF Below
  <2> QED BY <2>1, <2>2
<1> QED BY <1>2

LEMMA HasGreatest ==
  ASSUME NEW n \in Nat, NEW S, S \subseteq 1 .. n, S # {}
  PROVE  \E x \in S : \A y \in S : y <= x
<1> DEFINE T == {n - x : x \in S}
<1>1. T \subseteq Nat
  OBVIOUS
<1>2. T # {}
  OBVIOUS
<1>3. \A y \in S : n - y \in T
  OBVIOUS
<1>4. \A m \in T : \E x \in S : m = n - x
  OBVIOUS
<1> HIDE DEF T
<1>5. PICK m \in T : \A y \in T : m <= y
  BY <1>1, <1>2, HasLeast
<1>6. PICK x \in S : m = n - x
  BY <1>4
<1>7. ASSUME NEW y \in S PROVE y <= x
  <2>1. n - x <= n - y
    BY <1>3, <1>5, <1>6
  <2>2. x \in Nat /\ y \in Nat
    OBVIOUS
  <2> QED BY <2>1, <2>2
<1> QED BY <1>7

LEMMA LatestIsMine ==
  ASSUME NEW u, Mine(u) # {}
  PROVE  Latest(u) \in Mine(u)
<1>1. Mine(u) \subseteq 1 .. MaxKyc
  BY DEF Mine, Kycs
<1>2. \E k \in Mine(u) : \A j \in Mine(u) : j <= k
  BY <1>1, HasGreatest, KycAssumption
<1> QED BY <1>2 DEF Latest

-----------------------------------------------------------------------------
(* Types, and what the slots of handlers hold.                             *)

\* A handler knows the user it is for, unless it needs none or has yet to read
\* the KYC, and the KYC, unless it has yet to be created.
SlotOK(q) ==
  /\ q \in RequestRecords
  /\ q.pc # "idle" =>
       /\ q.user \in Users \/ q.op = "remove" \/ (q.op = "verify" /\ q.pc \in {"sign", "read"})
       /\ q.k \in Kycs \/ (q.op = "create" /\ q.pc \in {"join", "insert"})
  /\ q.pc = "insert" => q.op = "create"
  /\ q.pc = "flag" => q.op \in {"create", "verify"}
  /\ q.pc = "loan" => q.op = "apply"
  /\ q.op \notin {"update", "verify"} => q.status = "PENDING"

Stored ==
  /\ enabled \in BOOLEAN /\ calm \in BOOLEAN
  /\ kyc \in [Kycs -> Rows]
  /\ \A k \in Kycs : kyc[k].row = "THERE" => kyc[k].owner \in Users
  /\ borrower \in [Users -> Statuses \union {None}]
  /\ registry \in [Kycs -> Statuses \union {None}]
  /\ loan \in [Users -> 0 .. MaxLoans]
  /\ blind \subseteq Users
  /\ relied \subseteq Users \X Kycs
  /\ asked \subseteq Kycs \X Users
  /\ calls \in 0 .. MaxCalls

Slots == req \in [Requests -> RequestRecords] /\ \A r \in Requests : SlotOK(req[r])

\* KYCs are numbered without gaps, and every creation under way has the number
\* of its row in reserve.
Room ==
  /\ Created = 1 .. Cardinality(Created)
  /\ IsFiniteSet(Created)
  /\ Cardinality(Created) + Cardinality(Creating) <= MaxKyc

Typed == Stored /\ Slots /\ Room

LEMMA SlotType ==
  ASSUME Typed, NEW r \in Requests
  PROVE  /\ SlotOK(req[r]) /\ req[r] \in RequestRecords
         /\ req[r].op \in Ops /\ req[r].pc \in PCs /\ req[r].status \in Statuses
         /\ req[r].hash \in BOOLEAN /\ req[r].k \in 0 .. MaxKyc
         /\ req[r].user \in Users \union {NoUser} /\ req[r].payer \in Payers
BY DEF Typed, Slots, SlotOK, RequestRecords

LEMMA IdleOK == SlotOK(Idle)
BY KycAssumption DEF SlotOK, Idle, RequestRecords, Ops, PCs, Statuses, Payers

LEMMA OneSlot ==
  ASSUME Typed, NEW r \in Requests, NEW q, req' = [req EXCEPT ![r] = q]
  PROVE  req'[r] = q /\ \A b \in Requests \ {r} : req'[b] = req[b]
BY DEF Typed, Slots

LEMMA SlotStep ==
  ASSUME Typed, NEW r \in Requests, NEW q, req' = [req EXCEPT ![r] = q], SlotOK(q)
  PROVE  Slots'
<1>1. req' \in [Requests -> RequestRecords]
  BY DEF Typed, Slots, SlotOK
<1> QED BY <1>1, OneSlot DEF Typed, Slots

LEMMA CreatingFinite ==
  /\ IsFiniteSet(Creating)
  /\ Cardinality(Creating) \in Nat
<1>1. Creating \in SUBSET Requests
  BY DEF Creating
<1> QED BY <1>1, KycAssumption, FS_Subset, FS_CardinalityType

\* A step that creates no row and starts no creation.
LEMMA RoomKept ==
  ASSUME Typed, Created' = Created, Creating' \subseteq Creating
  PROVE  Room'
<1>1. Cardinality(Creating') <= Cardinality(Creating) /\ Cardinality(Creating') \in Nat
  BY CreatingFinite, FS_Subset, FS_CardinalityType
<1>2. Cardinality(Created) \in Nat
  BY FS_CardinalityType DEF Typed, Room
<1> QED BY <1>1, <1>2, CreatingFinite, KycAssumption DEF Typed, Room

LEMMA TypedStep ==
  ASSUME Typed, NEW r \in Requests, NEW q, req' = [req EXCEPT ![r] = q], SlotOK(q),
         q.op # "create" \/ q.pc \notin {"join", "insert"} \/ r \in Creating,
         Created' = Created, Stored'
  PROVE  Typed'
<1>1. Creating' \subseteq Creating
  BY OneSlot DEF Creating
<1>2. Room'
  BY <1>1, RoomKept
<1> QED BY <1>2, SlotStep DEF Typed

LEMMA FinishType ==
  ASSUME Typed, NEW r \in Requests, Finish(r), Created' = Created, Stored'
  PROVE  Typed'
<1>1. Idle.pc = "idle"
  BY DEF Idle
<1> QED BY <1>1, IdleOK, TypedStep DEF Finish

\* A slot that goes on with nothing else in it changed.
LEMMA GotoType ==
  ASSUME Typed, NEW r \in Requests, NEW pc \in PCs, Goto(r, pc), ~At(r, "idle"),
         req[r].user \in Users \/ req[r].op = "remove"
           \/ (req[r].op = "verify" /\ pc \in {"sign", "read"}),
         req[r].k \in Kycs \/ (req[r].op = "create" /\ pc \in {"join", "insert"}),
         pc = "insert" => req[r].op = "create",
         pc = "flag" => req[r].op \in {"create", "verify"},
         pc = "loan" => req[r].op = "apply",
         req[r].op # "create" \/ pc \notin {"join", "insert"} \/ r \in Creating,
         Created' = Created, Stored'
  PROVE  Typed'
<1> DEFINE q == [req[r] EXCEPT !.pc = pc]
<1>1. /\ q \in RequestRecords /\ q.pc = pc /\ q.op = req[r].op /\ q.user = req[r].user
      /\ q.k = req[r].k /\ q.status = req[r].status
  BY SlotType DEF RequestRecords
<1>2. req' = [req EXCEPT ![r] = q]
  BY DEF Goto, Typed, Slots
<1> HIDE DEF q
<1>3. SlotOK(q)
  BY <1>1, SlotType DEF SlotOK
<1> QED BY <1>1, <1>2, <1>3, TypedStep

\* What a handler past its reading holds.
LEMMA Held ==
  ASSUME Typed, NEW r \in Requests, ~At(r, "idle")
  PROVE  /\ req[r].user \in Users \/ req[r].op = "remove"
              \/ (req[r].op = "verify" /\ (At(r, "sign") \/ At(r, "read")))
         /\ req[r].k \in Kycs \/ (req[r].op = "create" /\ (At(r, "join") \/ At(r, "insert")))
         /\ At(r, "insert") => req[r].op = "create"
         /\ At(r, "flag") => req[r].op \in {"create", "verify"}
         /\ At(r, "loan") => req[r].op = "apply"
         /\ req[r].op \notin {"update", "verify"} => req[r].status = "PENDING"
BY SlotType DEF SlotOK, At

LEMMA SameCreated == ASSUME kyc' = kyc PROVE Created' = Created
BY DEF Created

LEMMA EnterType ==
  ASSUME Typed, NEW r \in Requests, NEW q, SlotOK(q), NEW quiet \in BOOLEAN,
         Open(r, q, quiet), calls' \in 0 .. MaxCalls,
         q.op # "create" \/ q.pc \notin {"join", "insert"},
         UNCHANGED <<enabled, rows, loan, relied, blind>>, asked' \subseteq Kycs \X Users
  PROVE  Typed'
<1>1. Stored' /\ Created' = Created
  BY SameCreated DEF Typed, Stored, rows, Open
<1> QED BY <1>1, TypedStep DEF Open

LEMMA EnterCalls ==
  ASSUME Typed, NEW r, NEW q, NEW quiet, Enter(r, q, quiet)
  PROVE  Open(r, q, quiet) /\ calls' \in 0 .. MaxCalls
BY KycAssumption DEF Enter, Typed, Stored

LEMMA ReadForVerifyOK ==
  ASSUME Typed, NEW k \in Kycs, There(k), NEW s \in Statuses, NEW payer \in Payers
  PROVE  /\ SlotOK(ReadForVerify(k, s, payer))
         /\ ReadForVerify(k, s, payer).op = "verify"
         /\ ReadForVerify(k, s, payer).pc \in {"decide", "write"}
         /\ ReadForVerify(k, s, payer).k = k
         /\ ReadForVerify(k, s, payer).status = s
         /\ ReadForVerify(k, s, payer).user = kyc[k].owner
<1> DEFINE pc == IF enabled /\ s \in Decisions THEN "decide" ELSE "write"
           q == ReadForVerify(k, s, payer)
<1>1. kyc[k].owner \in Users /\ kyc[k].hash \in BOOLEAN
  BY DEF Typed, Stored, There, Rows
<1>2. pc \in {"decide", "write"} /\ pc \in PCs
  BY DEF PCs
<1>3. Idle \in RequestRecords
  BY IdleOK DEF SlotOK
<1> HIDE DEF pc
<1>4. /\ q \in RequestRecords /\ q.op = "verify" /\ q.pc = pc /\ q.k = k /\ q.status = s
      /\ q.user = kyc[k].owner
  <2>1. q = [Idle EXCEPT !.op = "verify", !.k = k, !.user = kyc[k].owner, !.status = s,
                         !.hash = kyc[k].hash, !.payer = payer, !.pc = pc]
    BY DEF ReadForVerify, pc
  <2> HIDE DEF q
  <2>2. k \in 0 .. MaxKyc
    BY DEF Kycs
  <2> QED BY <1>1, <1>2, <1>3, <2>1, <2>2 DEF RequestRecords, Ops, Idle
<1> HIDE DEF q
<1>5. SlotOK(q)
  BY <1>1, <1>2, <1>4 DEF SlotOK
<1> QED BY <1>2, <1>4, <1>5 DEF q

LEMMA AskType ==
  ASSUME Typed, NEW k \in Kycs, There(k), NEW s, Ask(k, s)
  PROVE  asked' \subseteq Kycs \X Users /\ asked \subseteq asked'
<1>1. kyc[k].owner \in Users
  BY DEF Typed, Stored, There
<1> QED BY <1>1 DEF Ask, Typed, Stored

-----------------------------------------------------------------------------
(* The types are kept: the handlers that begin.                            *)

LEMMA BeginCreateType ==
  ASSUME Typed, NEW r \in Requests, BeginCreate(r) PROVE Typed'
<1>1. PICK u \in Users, payer \in Payers :
        Enter(r, [Idle EXCEPT !.pc = IF borrower[u] = None THEN "join" ELSE "insert",
                              !.user = u, !.payer = payer], TRUE)
  BY DEF BeginCreate
<1> DEFINE pc == IF borrower[u] = None THEN "join" ELSE "insert"
           q == [Idle EXCEPT !.pc = pc, !.user = u, !.payer = payer]
<1>2. Cardinality(Created) + Cardinality(Creating) < MaxKyc
      /\ UNCHANGED <<enabled, rows, loan, history>>
  BY DEF BeginCreate
<1>3. SlotOK(q)
  <2>1. pc \in {"join", "insert"} /\ pc \in PCs
    BY DEF PCs
  <2> HIDE DEF pc
  <2>2. Idle \in RequestRecords /\ Idle.op = "create" /\ Idle.status = "PENDING"
    BY IdleOK DEF SlotOK, Idle
  <2>3. q \in RequestRecords /\ q.pc = pc /\ q.user = u /\ q.op = "create" /\ q.status = "PENDING"
    BY <2>1, <2>2 DEF RequestRecords
  <2> HIDE DEF q
  <2> QED BY <2>1, <2>3 DEF SlotOK
<1>4. req' = [req EXCEPT ![r] = q] /\ calls' \in 0 .. MaxCalls /\ calm' \in BOOLEAN
  BY <1>1, EnterCalls DEF Open, Typed, Stored
<1> HIDE DEF q
<1>5. Slots'
  BY <1>3, <1>4, SlotStep
<1>6. Stored' /\ Created' = Created
  BY <1>2, <1>4, SameCreated DEF Typed, Stored, rows, history
<1>7. Room'
  <2>1. Creating' \in SUBSET (Creating \union {r})
    BY <1>4, OneSlot DEF Creating
  <2>2. /\ IsFiniteSet(Creating \union {r})
        /\ Cardinality(Creating \union {r}) =
             IF r \in Creating THEN Cardinality(Creating) ELSE Cardinality(Creating) + 1
    BY CreatingFinite, FS_AddElement
  <2>3. Cardinality(Creating') <= Cardinality(Creating \union {r})
        /\ Cardinality(Creating') \in Nat
    BY <2>1, <2>2, FS_Subset, FS_CardinalityType
  <2>4. Cardinality(Creating') <= Cardinality(Creating) + 1
    BY <2>2, <2>3, CreatingFinite
  <2>5. Cardinality(Created) \in Nat
    BY FS_CardinalityType DEF Typed, Room
  <2> QED BY <1>2, <1>6, <2>3, <2>4, <2>5, CreatingFinite, KycAssumption DEF Typed, Room
<1> QED BY <1>5, <1>6, <1>7 DEF Typed

LEMMA BeginUpdateType ==
  ASSUME Typed, NEW r \in Requests, BeginUpdate(r) PROVE Typed'
<1>1. PICK k \in Kycs, u \in Users, payer \in Payers :
        /\ There(k)
        /\ Enter(r, [Idle EXCEPT
                       !.op = "update", !.k = k, !.user = u, !.payer = payer,
                       !.hash = kyc[k].hash,
                       !.pc = IF u # kyc[k].owner /\ borrower[u] = None
                              THEN "join" ELSE "write"],
                 u = kyc[k].owner)
  BY DEF BeginUpdate
<1> DEFINE pc == IF u # kyc[k].owner /\ borrower[u] = None THEN "join" ELSE "write"
           q == [Idle EXCEPT !.op = "update", !.k = k, !.user = u, !.payer = payer,
                             !.hash = kyc[k].hash, !.pc = pc]
           same == u = kyc[k].owner
<1>2. SlotOK(q) /\ q.op = "update"
  <2>1. pc \in {"join", "write"} /\ pc \in PCs
    BY DEF PCs
  <2> HIDE DEF pc
  <2>2. Idle \in RequestRecords /\ kyc[k].hash \in BOOLEAN /\ k \in 0 .. MaxKyc
    BY IdleOK DEF SlotOK, Typed, Stored, Rows, Kycs
  <2>3. q \in RequestRecords /\ q.pc = pc /\ q.user = u /\ q.op = "update" /\ q.k = k
    BY <2>1, <2>2 DEF RequestRecords, Ops
  <2> HIDE DEF q
  <2> QED BY <2>1, <2>3 DEF SlotOK
<1>3. Open(r, q, same) /\ calls' \in 0 .. MaxCalls /\ same \in BOOLEAN
  BY <1>1, EnterCalls
<1>4. UNCHANGED <<enabled, rows, loan, relied, blind>> /\ asked' \subseteq Kycs \X Users
  BY DEF BeginUpdate, history, Typed, Stored
<1> HIDE DEF q, same
<1> QED BY <1>2, <1>3, <1>4, EnterType

LEMMA BeginVerifyType ==
  ASSUME Typed, NEW r \in Requests, BeginVerify(r) PROVE Typed'
<1>1. PICK k \in Kycs, s \in Statuses, payer \in Payers :
        There(k) /\ Ask(k, s) /\ Enter(r, ReadForVerify(k, s, payer), TRUE)
  BY DEF BeginVerify
<1>2. SlotOK(ReadForVerify(k, s, payer)) /\ ReadForVerify(k, s, payer).op = "verify"
  BY <1>1, ReadForVerifyOK
<1>3. Open(r, ReadForVerify(k, s, payer), TRUE) /\ calls' \in 0 .. MaxCalls
  BY <1>1, EnterCalls
<1>4. UNCHANGED <<enabled, rows, loan, relied, blind>> /\ asked' \subseteq Kycs \X Users
  BY <1>1, AskType DEF BeginVerify
<1> QED BY <1>2, <1>3, <1>4, EnterType

LEMMA BeginRemoveType ==
  ASSUME Typed, NEW r \in Requests, BeginRemove(r) PROVE Typed'
<1>1. PICK k \in Kycs, payer \in Payers :
        Enter(r, [Idle EXCEPT !.op = "remove", !.k = k, !.payer = payer,
                              !.pc = IF enabled THEN "decide" ELSE "delete"], FALSE)
  BY DEF BeginRemove
<1> DEFINE pc == IF enabled THEN "decide" ELSE "delete"
           q == [Idle EXCEPT !.op = "remove", !.k = k, !.payer = payer, !.pc = pc]
<1>2. SlotOK(q) /\ q.op = "remove"
  <2>1. pc \in {"decide", "delete"} /\ pc \in PCs
    BY DEF PCs
  <2> HIDE DEF pc
  <2>2. Idle \in RequestRecords /\ Idle.status = "PENDING" /\ k \in 0 .. MaxKyc
    BY IdleOK DEF SlotOK, Idle, Kycs
  <2>3. /\ q \in RequestRecords /\ q.pc = pc /\ q.op = "remove" /\ q.k = k
        /\ q.status = "PENDING"
    BY <2>1, <2>2 DEF RequestRecords, Ops
  <2> HIDE DEF q
  <2> QED BY <2>1, <2>3 DEF SlotOK
<1>3. Open(r, q, FALSE) /\ calls' \in 0 .. MaxCalls
  BY <1>1, EnterCalls
<1>4. UNCHANGED <<enabled, rows, loan, relied, blind>> /\ asked' \subseteq Kycs \X Users
  BY DEF BeginRemove, history, Typed, Stored
<1> HIDE DEF q
<1> QED BY <1>2, <1>3, <1>4, EnterType

LEMMA BeginConsoleVerifyType ==
  ASSUME Typed, NEW r \in Requests, BeginConsoleVerify(r) PROVE Typed'
<1>1. PICK k \in Kycs :
        /\ There(k) /\ Ask(k, "VERIFIED")
        /\ Enter(r, [Idle EXCEPT !.op = "verify", !.pc = "sign", !.k = k,
                                 !.status = "VERIFIED", !.payer = "USER"], TRUE)
  BY DEF BeginConsoleVerify
<1> DEFINE q == [Idle EXCEPT !.op = "verify", !.pc = "sign", !.k = k,
                             !.status = "VERIFIED", !.payer = "USER"]
<1>2. SlotOK(q) /\ q.op = "verify"
  <2>1. Idle \in RequestRecords /\ k \in 0 .. MaxKyc
    BY IdleOK DEF SlotOK, Kycs
  <2>2. q \in RequestRecords /\ q.pc = "sign" /\ q.op = "verify" /\ q.k = k
    BY <2>1 DEF RequestRecords, Ops, PCs, Statuses, Decisions, Payers
  <2> HIDE DEF q
  <2> QED BY <2>2 DEF SlotOK
<1>3. Open(r, q, TRUE) /\ calls' \in 0 .. MaxCalls
  BY <1>1, EnterCalls
<1>4. UNCHANGED <<enabled, rows, loan, relied, blind>> /\ asked' \subseteq Kycs \X Users
  BY <1>1, AskType DEF BeginConsoleVerify
<1> HIDE DEF q
<1> QED BY <1>2, <1>3, <1>4, EnterType

LEMMA UnfollowType ==
  ASSUME Typed, NEW u \in Users, Unfollow(u)
  PROVE  loan' \in [Users -> 0 .. MaxLoans] /\ blind' \subseteq Users
BY KycAssumption DEF Unfollow, Typed, Stored

LEMMA BeginApplyType ==
  ASSUME Typed, NEW r \in Requests, BeginApply(r) PROVE Typed'
<1>1. PICK u \in Users :
        /\ GateOpens(u)
        /\ IF MayApply(u) THEN UNCHANGED <<loan, blind>> ELSE Unfollow(u)
        /\ Open(r, [Idle EXCEPT !.op = "apply", !.pc = "apply", !.user = u,
                                !.k = Latest(u)], TRUE)
  BY DEF BeginApply
<1> DEFINE k == Latest(u)
           q == [Idle EXCEPT !.op = "apply", !.pc = "apply", !.user = u, !.k = k]
<1>2. k \in Kycs
  BY <1>1, LatestIsMine DEF GateOpens, Mine
<1> HIDE DEF k
<1>3. SlotOK(q) /\ q.op = "apply"
  <2>1. Idle \in RequestRecords /\ Idle.status = "PENDING" /\ k \in 0 .. MaxKyc
    BY <1>2, IdleOK DEF SlotOK, Idle, Kycs
  <2>2. /\ q \in RequestRecords /\ q.pc = "apply" /\ q.op = "apply" /\ q.k = k /\ q.user = u
        /\ q.status = "PENDING"
    BY <2>1 DEF RequestRecords, Ops, PCs
  <2> HIDE DEF q
  <2> QED BY <1>2, <2>2 DEF SlotOK
<1>4. Open(r, q, TRUE)
  BY <1>1 DEF k
<1>5. Stored' /\ Created' = Created
  <2>1. loan' \in [Users -> 0 .. MaxLoans] /\ blind' \subseteq Users
    BY <1>1, UnfollowType DEF Typed, Stored
  <2> QED BY <1>4, <2>1, SameCreated DEF BeginApply, Open, Typed, Stored, rows
<1> HIDE DEF q
<1> QED BY <1>3, <1>4, <1>5, TypedStep DEF Open

-----------------------------------------------------------------------------
(* The types are kept: the steps of the handlers.                          *)

LEMMA JoinType ==
  ASSUME Typed, NEW r \in Requests, Join(r) PROVE Typed'
<1>1. At(r, "join") /\ ~At(r, "idle") /\ req[r].user \in Users \union {NoUser}
  BY SlotType DEF Join, At
<1>2. borrower' \in [Users -> Statuses \union {None}]
  BY DEF Join, Typed, Stored, Statuses
<1>3. Stored' /\ Created' = Created
  BY <1>2, SameCreated DEF Join, Typed, Stored, history
<1>4. CASE Finish(r)
  BY <1>3, <1>4, FinishType
<1>5. CASE req[r].op = "create" /\ Goto(r, "insert")
  <2>1. r \in Creating
    BY <1>1, <1>5 DEF Creating, At
  <2> QED BY <1>1, <1>3, <1>5, <2>1, Held, GotoType DEF At, PCs
<1>6. CASE req[r].op # "create" /\ Goto(r, "write")
  BY <1>1, <1>3, <1>6, Held, GotoType DEF At, PCs
<1> QED BY <1>4, <1>5, <1>6 DEF Join

LEMMA InsertKycType ==
  ASSUME Typed, NEW r \in Requests, InsertKyc(r) PROVE Typed'
<1> DEFINE k == Cardinality(Created) + 1
           q == [req[r] EXCEPT !.pc = "decide", !.k = k]
           row == NewRow(req[r].user)
<1>1. At(r, "insert") /\ req[r].op = "create" /\ req[r].user \in Users /\ r \in Creating
  BY Held DEF InsertKyc, At, Creating
<1>2. /\ IsFiniteSet(Created) /\ Cardinality(Created) \in Nat
      /\ Cardinality(Creating) \in Nat \ {0}
  BY <1>1, CreatingFinite, FS_EmptySet, FS_CardinalityType DEF Typed, Room
<1>3. k \in Kycs /\ k \notin Created
  BY <1>2, KycAssumption DEF Typed, Room, Kycs
<1>4. row \in Rows /\ row.row = "THERE" /\ row.owner = req[r].user
  BY <1>1 DEF NewRow, Rows, Statuses
<1>5. /\ kyc' = [kyc EXCEPT ![k] = row] /\ req' = [req EXCEPT ![r] = q]
      /\ UNCHANGED <<enabled, borrower, registry, loan, history, calm, calls>>
  BY DEF InsertKyc, Typed, Slots
<1>6. SlotOK(q) /\ q.pc = "decide"
  <2>1. k \in 0 .. MaxKyc
    BY <1>3 DEF Kycs
  <2>2. /\ q \in RequestRecords /\ q.pc = "decide" /\ q.op = "create" /\ q.user = req[r].user
        /\ q.k = k /\ q.status = req[r].status
    BY <1>1, <2>1, SlotType DEF RequestRecords, PCs
  <2>3. req[r].status = "PENDING"
    BY <1>1, Held DEF At
  <2> HIDE DEF q
  <2> QED BY <1>1, <1>3, <2>2, <2>3 DEF SlotOK
<1> HIDE DEF k, q, row
<1>7. Stored'
  BY <1>1, <1>3, <1>4, <1>5 DEF Typed, Stored, history
<1>8. Slots'
  BY <1>5, <1>6, SlotStep
<1>9. Created' = Created \union {k}
  BY <1>3, <1>4, <1>5 DEF Created, Typed, Stored
<1>10. Room'
  <2>1. IsFiniteSet(Created') /\ Cardinality(Created') = Cardinality(Created) + 1
    BY <1>2, <1>3, <1>9, FS_AddElement
  <2>2. Created' = 1 .. Cardinality(Created')
    <3>1. Created = 1 .. Cardinality(Created) /\ k = Cardinality(Created) + 1
      BY DEF Typed, Room, k
    <3> HIDE DEF k
    <3> QED BY <1>2, <1>9, <2>1, <3>1
  <2>3. Creating' \in SUBSET (Creating \ {r})
    BY <1>5, <1>6, OneSlot DEF Creating
  <2>4. IsFiniteSet(Creating \ {r}) /\ Cardinality(Creating \ {r}) = Cardinality(Creating) - 1
    BY <1>1, CreatingFinite, FS_RemoveElement
  <2>5. Cardinality(Creating') <= Cardinality(Creating \ {r}) /\ Cardinality(Creating') \in Nat
    BY <2>3, <2>4, FS_Subset, FS_CardinalityType
  <2> QED BY <1>2, <2>1, <2>2, <2>4, <2>5, KycAssumption DEF Typed, Room
<1> QED BY <1>7, <1>8, <1>10 DEF Typed

LEMMA DecideType ==
  ASSUME Typed, NEW r \in Requests, Decide(r) PROVE Typed'
<1>1. At(r, "decide") /\ ~At(r, "idle")
  BY DEF Decide, At
<1>2. Stored' /\ Created' = Created
  BY SameCreated DEF Decide, Typed, Stored, rows, history
<1>3. CASE Finish(r)
  BY <1>2, <1>3, FinishType
<1>4. CASE Goto(r, Granted(r)) /\ Granted(r) # "idle"
  <2>1. Granted(r) \in {"record", "stamp", "write", "delete", "loan", "idle"}
    <3>1. req[r].op \in Ops
      BY SlotType
    <3> QED BY <3>1 DEF Granted, Ops
  <2>2. Granted(r) \in {"record", "stamp", "write", "delete", "loan"} /\ Granted(r) \in PCs
    BY <1>4, <2>1 DEF PCs
  <2>3. Granted(r) = "loan" => req[r].op = "apply"
    <3>1. req[r].op \in Ops
      BY SlotType
    <3> QED BY <3>1 DEF Granted, Ops
  <2> QED BY <1>1, <1>2, <1>4, <2>2, <2>3, Held, GotoType DEF At
<1> QED BY <1>3, <1>4 DEF Decide

LEMMA RecordType ==
  ASSUME Typed, NEW r \in Requests, RecordOnChain(r) PROVE Typed'
<1>1. At(r, "record") /\ ~At(r, "idle")
  BY DEF RecordOnChain, At
<1>2. PICK told \in BOOLEAN :
        LET hash == told \/ req[r].hash
            next == IF hash THEN With(r) ELSE Without(r)
        IN IF next = "idle" THEN Finish(r)
           ELSE req' = [req EXCEPT ![r].pc = next, ![r].hash = hash]
  BY DEF RecordOnChain
<1> DEFINE hash == told \/ req[r].hash
           next == IF hash THEN With(r) ELSE Without(r)
<1>3. registry' \in [Kycs -> Statuses \union {None}]
  <2>1. SentStatus(r) \in Statuses
    BY SlotType DEF SentStatus
  <2> QED BY <2>1 DEF RecordOnChain, Typed, Stored
<1>4. Stored' /\ Created' = Created
  BY <1>3, SameCreated DEF RecordOnChain, Typed, Stored, history
<1>5. CASE Finish(r)
  BY <1>4, <1>5, FinishType
<1>6. CASE next # "idle" /\ req' = [req EXCEPT ![r].pc = next, ![r].hash = hash]
  <2> DEFINE q == [req[r] EXCEPT !.pc = next, !.hash = hash]
  <2>1. next \in {"stamp", "write"} /\ next \in PCs
    BY <1>6 DEF With, Without, PCs
  <2>2. hash \in BOOLEAN
    OBVIOUS
  <2>3. req' = [req EXCEPT ![r] = q]
    BY <1>6 DEF Typed, Slots
  <2> HIDE DEF next, hash
  <2>4. /\ q \in RequestRecords /\ q.pc = next /\ q.op = req[r].op /\ q.user = req[r].user
        /\ q.k = req[r].k /\ q.status = req[r].status
    BY <2>1, <2>2, SlotType DEF RequestRecords
  <2> HIDE DEF q
  <2>5. SlotOK(q)
    BY <1>1, <2>1, <2>4, Held DEF SlotOK, At
  <2> QED BY <1>4, <2>1, <2>3, <2>4, <2>5, TypedStep
<1> QED BY <1>2, <1>5, <1>6

LEMMA RowKept ==
  ASSUME Typed, NEW k \in Kycs, NEW row \in Rows, kyc' = [kyc EXCEPT ![k] = row],
         There(k), row.row # "FREE", row.row = "THERE" => row.owner \in Users
  PROVE  /\ kyc' \in [Kycs -> Rows] /\ Created' = Created
         /\ \A j \in Kycs : kyc'[j].row = "THERE" => kyc'[j].owner \in Users
BY DEF Typed, Stored, Created, There

LEMMA StampType ==
  ASSUME Typed, NEW r \in Requests, Stamp(r) PROVE Typed'
<1> DEFINE k == req[r].k
           row == [kyc[k] EXCEPT !.hash = req[r].hash]
<1>1. At(r, "stamp") /\ ~At(r, "idle") /\ k \in Kycs
  BY Held DEF Stamp, At
<1>2. Stored' /\ Created' = Created
  <2>1. CASE kyc' = kyc
    BY <2>1, SameCreated DEF Stamp, Typed, Stored, history
  <2>2. CASE There(k) /\ kyc' = [kyc EXCEPT ![k].hash = req[r].hash]
    <3>1. kyc[k] \in Rows /\ kyc[k].row = "THERE" /\ kyc[k].owner \in Users
      BY <1>1, <2>2 DEF Typed, Stored, There
    <3>2. row \in Rows /\ row.row = "THERE" /\ row.owner \in Users
      BY <3>1, SlotType DEF Rows
    <3>3. kyc' = [kyc EXCEPT ![k] = row]
      BY <1>1, <2>2 DEF Typed, Stored
    <3> HIDE DEF row, k
    <3> QED BY <1>1, <2>2, <3>2, <3>3, RowKept DEF Stamp, Typed, Stored, history
  <2> QED BY <2>1, <2>2 DEF Stamp
<1>3. CASE Finish(r)
  BY <1>2, <1>3, FinishType
<1>4. CASE req[r].op = "create" /\ Goto(r, "flag")
  BY <1>1, <1>2, <1>4, Held, GotoType DEF At, PCs
<1> QED BY <1>3, <1>4 DEF Stamp

LEMMA FlagType ==
  ASSUME Typed, NEW r \in Requests, Flag(r) PROVE Typed'
<1>1. At(r, "flag") /\ ~At(r, "idle")
  BY DEF Flag, At
<1>2. borrower' \in [Users -> Statuses \union {None}]
  BY SlotType DEF Flag, NewFlag, Typed, Stored
<1>3. Stored' /\ Created' = Created
  BY <1>2, SameCreated DEF Flag, Typed, Stored, history
<1>4. CASE Finish(r)
  BY <1>3, <1>4, FinishType
<1>5. CASE Goto(r, "sign")
  BY <1>1, <1>3, <1>5, Held, GotoType DEF At, PCs
<1> QED BY <1>4, <1>5 DEF Flag

LEMMA WriteUpdateType ==
  ASSUME Typed, NEW r \in Requests, WriteUpdate(r) PROVE Typed'
<1> DEFINE k == req[r].k
           row == [kyc[k] EXCEPT !.owner = req[r].user]
           q == [req[r] EXCEPT !.pc = "decide", !.status = kyc[k].status]
<1>1. /\ At(r, "write") /\ ~At(r, "idle") /\ req[r].op = "update"
      /\ k \in Kycs /\ req[r].user \in Users
  BY Held DEF WriteUpdate, At
<1>2. Stored' /\ Created' = Created
  <2>1. CASE kyc' = kyc
    BY <2>1, SameCreated DEF WriteUpdate, Typed, Stored, history
  <2>2. CASE There(k) /\ kyc' = [kyc EXCEPT ![k].owner = req[r].user]
    <3>1. kyc[k] \in Rows /\ kyc[k].row = "THERE"
      BY <1>1, <2>2 DEF Typed, Stored, There
    <3>2. row \in Rows /\ row.row = "THERE" /\ row.owner \in Users
      BY <1>1, <3>1 DEF Rows
    <3>3. kyc' = [kyc EXCEPT ![k] = row]
      BY <1>1, <2>2 DEF Typed, Stored
    <3> HIDE DEF row, k
    <3> QED BY <1>1, <2>2, <3>2, <3>3, RowKept DEF WriteUpdate, Typed, Stored, history
  <2> QED BY <2>1, <2>2 DEF WriteUpdate
<1>3. CASE Finish(r)
  BY <1>2, <1>3, FinishType
<1>4. CASE req' = [req EXCEPT ![r].pc = "decide", ![r].status = UpdatedStatus(k)]
  <2>1. req' = [req EXCEPT ![r] = q]
    BY <1>4 DEF UpdatedStatus, Typed, Slots
  <2>2. kyc[k].status \in Statuses
    BY <1>1 DEF Typed, Stored, Rows
  <2>3. /\ q \in RequestRecords /\ q.pc = "decide" /\ q.op = "update" /\ q.user = req[r].user
        /\ q.k = req[r].k
    BY <1>1, <2>2, SlotType DEF RequestRecords, PCs
  <2> HIDE DEF q
  <2>4. SlotOK(q)
    BY <1>1, <2>3 DEF SlotOK
  <2> QED BY <1>2, <2>1, <2>3, <2>4, TypedStep
<1> QED BY <1>3, <1>4 DEF WriteUpdate

LEMMA WriteVerifyType ==
  ASSUME Typed, NEW r \in Requests, WriteVerify(r) PROVE Typed'
<1> DEFINE k == req[r].k
           row == [kyc[k] EXCEPT !.status = req[r].status, !.hash = req[r].hash]
           q == [req[r] EXCEPT !.pc = "flag", !.user = req[r].user]
<1>1. /\ At(r, "write") /\ ~At(r, "idle") /\ req[r].op = "verify"
      /\ k \in Kycs /\ req[r].user \in Users
  BY Held DEF WriteVerify, At
<1>2. Stored' /\ Created' = Created
  <2>1. CASE kyc' = kyc
    BY <2>1, SameCreated DEF WriteVerify, Typed, Stored, history
  <2>2. CASE There(k) /\ kyc' = [kyc EXCEPT ![k].status = req[r].status, ![k].hash = req[r].hash]
    <3>1. kyc[k] \in Rows /\ kyc[k].row = "THERE" /\ kyc[k].owner \in Users
      BY <1>1, <2>2 DEF Typed, Stored, There
    <3>2. row \in Rows /\ row.row = "THERE" /\ row.owner \in Users
      BY <3>1, SlotType DEF Rows
    <3>3. kyc' = [kyc EXCEPT ![k] = row]
      BY <1>1, <2>2 DEF Typed, Stored
    <3> HIDE DEF row, k
    <3> QED BY <1>1, <2>2, <3>2, <3>3, RowKept DEF WriteVerify, Typed, Stored, history
  <2> QED BY <2>1, <2>2 DEF WriteVerify
<1>3. CASE Finish(r)
  BY <1>2, <1>3, FinishType
<1>4. CASE req' = [req EXCEPT ![r].pc = "flag", ![r].user = FlaggedUser(r)]
  <2>1. req' = [req EXCEPT ![r] = q]
    BY <1>4 DEF FlaggedUser, Typed, Slots
  <2>2. /\ q \in RequestRecords /\ q.pc = "flag" /\ q.op = "verify" /\ q.user = req[r].user
        /\ q.k = req[r].k
    BY <1>1, SlotType DEF RequestRecords, PCs
  <2> HIDE DEF q
  <2>3. SlotOK(q)
    BY <1>1, <2>2 DEF SlotOK
  <2> QED BY <1>2, <2>1, <2>2, <2>3, TypedStep
<1> QED BY <1>3, <1>4 DEF WriteVerify

LEMMA DeleteType ==
  ASSUME Typed, NEW r \in Requests, Delete(r) PROVE Typed'
<1> DEFINE k == req[r].k
           row == [kyc[k] EXCEPT !.row = "GONE"]
<1>1. At(r, "delete") /\ ~At(r, "idle") /\ k \in Kycs
  BY Held DEF Delete, At
<1>2. Stored' /\ Created' = Created
  <2>1. CASE kyc' = kyc
    BY <2>1, SameCreated DEF Delete, Typed, Stored, history
  <2>2. CASE There(k) /\ kyc' = [kyc EXCEPT ![k].row = "GONE"]
    <3>1. row \in Rows /\ row.row = "GONE"
      BY <1>1 DEF Typed, Stored, Rows
    <3>2. kyc' = [kyc EXCEPT ![k] = row]
      BY <1>1, <2>2 DEF Typed, Stored
    <3> HIDE DEF row, k
    <3> QED BY <1>1, <2>2, <3>1, <3>2, RowKept DEF Delete, Typed, Stored, history
  <2> QED BY <2>1, <2>2 DEF Delete
<1> QED BY <1>2, FinishType DEF Delete

LEMMA ConsoleType ==
  ASSUME Typed, NEW r \in Requests, SignVerify(r) \/ ReadVerify(r) \/ SignCreate(r)
  PROVE  Typed'
<1>1. CASE SignVerify(r)
  <2>1. At(r, "sign") /\ ~At(r, "idle") /\ req[r].op = "verify"
    BY <1>1 DEF SignVerify, At
  <2>2. registry' \in [Kycs -> Statuses \union {None}]
    BY <1>1 DEF SignVerify, Typed, Stored, Statuses, Decisions
  <2>3. Stored' /\ Created' = Created
    BY <1>1, <2>2, SameCreated DEF SignVerify, Typed, Stored, history
  <2>4. CASE Finish(r)
    BY <2>3, <2>4, FinishType
  <2>5. CASE Goto(r, "read")
    BY <2>1, <2>3, <2>5, Held, GotoType DEF At, PCs
  <2> QED BY <1>1, <2>4, <2>5 DEF SignVerify
<1>2. CASE ReadVerify(r)
  <2> DEFINE k == req[r].k
             q == ReadForVerify(k, "VERIFIED", "USER")
  <2>1. /\ asked' \subseteq Kycs \X Users /\ Created' = Created
        /\ UNCHANGED <<enabled, rows, loan, relied, blind, calm, calls>>
    BY <1>2, AskType, SameCreated DEF ReadVerify, There, Typed, Stored, rows
  <2>2. Stored'
    BY <2>1 DEF Typed, Stored, rows
  <2>3. CASE Finish(r)
    BY <2>1, <2>2, <2>3, FinishType
  <2>4. CASE There(k) /\ req' = [req EXCEPT ![r] = q]
    <3>1. k \in Kycs /\ "VERIFIED" \in Statuses /\ "USER" \in Payers
      BY <2>4 DEF There, Statuses, Decisions, Payers
    <3>2. SlotOK(q) /\ q.op = "verify"
      BY <2>4, <3>1, ReadForVerifyOK
    <3> HIDE DEF q
    <3> QED BY <2>1, <2>2, <2>4, <3>2, TypedStep
  <2> QED BY <1>2, <2>3, <2>4 DEF ReadVerify
<1>3. CASE SignCreate(r)
  <2>1. registry' \in [Kycs -> Statuses \union {None}]
    BY <1>3 DEF SignCreate, Typed, Stored, Statuses
  <2>2. Stored' /\ Created' = Created
    BY <1>3, <2>1, SameCreated DEF SignCreate, Typed, Stored, history
  <2> QED BY <1>3, <2>2, FinishType DEF SignCreate
<1> QED BY <1>1, <1>2, <1>3

LEMMA LoanType ==
  ASSUME Typed, NEW r \in Requests, SubmitLoan(r) \/ InsertLoan(r) \/ Crash(r)
  PROVE  Typed'
<1>1. CASE SubmitLoan(r)
  <2>1. At(r, "apply") /\ ~At(r, "idle")
    BY <1>1 DEF SubmitLoan, At
  <2>2. Stored' /\ Created' = Created
    BY <1>1, SameCreated DEF SubmitLoan, Typed, Stored, rows, history
  <2>3. CASE Finish(r)
    BY <2>2, <2>3, FinishType
  <2>4. CASE Goto(r, "decide")
    BY <2>1, <2>2, <2>4, Held, GotoType DEF At, PCs
  <2> QED BY <1>1, <2>3, <2>4 DEF SubmitLoan
<1>2. CASE InsertLoan(r)
  <2> DEFINE u == req[r].user
  <2>1. At(r, "loan") /\ req[r].k \in Kycs /\ u \in Users
    BY <1>2, Held DEF InsertLoan, At
  <2>2. loan' = loan \/ (loan[u] < MaxLoans /\ loan' = [loan EXCEPT ![u] = loan[u] + 1])
    BY <1>2 DEF InsertLoan
  <2>3. loan' \in [Users -> 0 .. MaxLoans]
    <3>1. loan \in [Users -> 0 .. MaxLoans]
      BY DEF Typed, Stored
    <3>2. loan[u] < MaxLoans => loan[u] + 1 \in 0 .. MaxLoans
      BY <2>1, <3>1, KycAssumption
    <3> QED BY <2>2, <3>1, <3>2
  <2>4. Created' = Created
    BY <1>2, SameCreated DEF InsertLoan, rows
  <2>5. relied' = relied \union {<<u, req[r].k>>}
    BY <1>2 DEF InsertLoan
  <2>6. Stored'
    BY <1>2, <2>1, <2>3, <2>5 DEF InsertLoan, Typed, Stored, rows
  <2> QED BY <1>2, <2>4, <2>6, FinishType DEF InsertLoan
<1>3. CASE Crash(r)
  <2>1. Stored' /\ Created' = Created
    BY <1>3, SameCreated DEF Crash, Typed, Stored, rows, history
  <2> QED BY <1>3, <2>1, FinishType DEF Crash
<1> QED BY <1>1, <1>2, <1>3

\* What becomes of the loans concerns neither the rows nor a handler.
Elsewhere == UNCHANGED <<enabled, rows, relied, asked, calm, calls, req>>

LEMMA LoanSteps ==
  ASSUME Typed, NEW u \in Users, CloseLoan(u) \/ LoanReturns(u)
  PROVE  Typed' /\ Elsewhere
<1>1. Elsewhere
  BY DEF CloseLoan, LoanReturns, Elsewhere, history
<1>2. loan' \in [Users -> 0 .. MaxLoans] /\ blind' \subseteq Users
  <2>1. CASE CloseLoan(u)
    <3>1. PICK n \in 0 .. loan[u] - 1 : loan' = [loan EXCEPT ![u] = n]
      BY <2>1 DEF CloseLoan
    <3>2. loan \in [Users -> 0 .. MaxLoans] /\ blind \subseteq Users /\ blind' = blind
      BY <2>1 DEF CloseLoan, history, Typed, Stored
    <3>3. n \in 0 .. MaxLoans
      BY <3>1, <3>2, KycAssumption
    <3> QED BY <3>1, <3>2, <3>3
  <2>2. CASE LoanReturns(u)
    BY <2>2, UnfollowType DEF LoanReturns
  <2> QED BY <2>1, <2>2
<1>3. Stored'
  BY <1>1, <1>2 DEF Elsewhere, rows, Typed, Stored
<1>4. Slots' /\ Room'
  BY <1>1 DEF Elsewhere, rows, Typed, Slots, Room, Created, Creating
<1> QED BY <1>1, <1>3, <1>4 DEF Typed

LEMMA InitTyped == Init => Typed
<1> SUFFICES ASSUME Init PROVE Typed
  OBVIOUS
<1>1. FreeRow \in Rows /\ FreeRow.row = "FREE"
  BY DEF FreeRow, Rows, Statuses
<1>2. Created = {} /\ Creating = {}
  BY <1>1 DEF Init, Created, Creating, Idle
<1>3. Stored
  BY <1>1, KycAssumption DEF Init, Stored
<1>4. Slots
  BY IdleOK DEF Init, Slots, SlotOK
<1>5. Room
  BY <1>2, FS_EmptySet, KycAssumption DEF Room
<1> QED BY <1>3, <1>4, <1>5 DEF Typed

LEMMA NextTyped == Typed /\ [Next]_vars => Typed'
<1> SUFFICES ASSUME Typed, [Next]_vars PROVE Typed'
  OBVIOUS
<1>1. CASE UNCHANGED vars
  BY <1>1 DEF vars, rows, history, Typed, Stored, Slots, Room, Created, Creating
<1>2. ASSUME NEW r \in Requests, KycBegin(r) \/ BeginConsoleVerify(r) \/ BeginApply(r)
      PROVE  Typed'
  BY <1>2, BeginCreateType, BeginUpdateType, BeginVerifyType, BeginRemoveType,
     BeginConsoleVerifyType, BeginApplyType DEF KycBegin
<1>3. ASSUME NEW r \in Requests, KycStep(r) PROVE Typed'
  BY <1>3, JoinType, InsertKycType, DecideType, RecordType, StampType, FlagType,
     WriteUpdateType, WriteVerifyType, DeleteType DEF KycStep
<1> QED BY <1>1, <1>2, <1>3, ConsoleType, LoanType, LoanSteps DEF Next, Step

\* The rows, the registry, the loans and the handlers keep their types, and no
\* KYC is inserted without a number reserved for it.
THEOREM OnboardingTypeCorrect == Spec => []TypeOK
<1>1. Typed => TypeOK
  BY DEF Typed, Stored, Slots, TypeOK
<1> QED BY <1>1, InitTyped, NextTyped, PTL DEF Spec

LEMMA AlwaysTyped == Spec => []Typed
BY InitTyped, NextTyped, PTL DEF Spec

-----------------------------------------------------------------------------
(* What is VERIFIED was decided: rows, registry, flags, loans, and what    *)
(* the handlers under way are going to write.                              *)

DecidedIn(k, decisions) == \E u \in Users : <<k, u>> \in decisions

RowsReviewed ==
  /\ \A k \in Kycs : kyc[k].status = "VERIFIED" => DecidedIn(k, asked)
  /\ \A k \in Kycs : registry[k] = "VERIFIED" => DecidedIn(k, asked)
  /\ VerifiedWasReviewed
  /\ \A a \in relied : DecidedIn(a[2], asked)

\* A verification past its reading is of the user it was asked for.
SlotReviewed(q, decisions) ==
  /\ q.status = "VERIFIED" => DecidedIn(q.k, decisions)
  /\ q.op = "apply" /\ q.pc # "idle" => DecidedIn(q.k, decisions)
  /\ q.op = "verify" /\ q.pc \in {"sign", "read"} => DecidedIn(q.k, decisions)
  /\ q.op = "verify" /\ q.pc \notin {"idle", "sign", "read"} /\ q.status = "VERIFIED"
       => <<q.k, q.user>> \in decisions

Reviewed == RowsReviewed /\ \A r \in Requests : SlotReviewed(req[r], asked)

LEMMA RowsStay ==
  ASSUME RowsReviewed, UNCHANGED <<kyc, registry, borrower, relied>>, asked \subseteq asked'
  PROVE  RowsReviewed'
BY DEF RowsReviewed, VerifiedWasReviewed, DecidedIn

LEMMA ReviewedStep ==
  ASSUME Typed, Reviewed, NEW r \in Requests, NEW q, req' = [req EXCEPT ![r] = q],
         asked \subseteq asked', SlotReviewed(q, asked'), RowsReviewed'
  PROVE  Reviewed'
<1>1. \A b \in Requests : SlotReviewed(req[b], asked')
  BY DEF Reviewed, SlotReviewed, DecidedIn
<1> QED BY <1>1, OneSlot DEF Reviewed

LEMMA FinishReviewed ==
  ASSUME Typed, Reviewed, NEW r \in Requests, Finish(r), asked \subseteq asked', RowsReviewed'
  PROVE  Reviewed'
<1>1. SlotReviewed(Idle, asked')
  BY DEF SlotReviewed, Idle
<1> QED BY <1>1, ReviewedStep DEF Finish

LEMMA GotoReviewed ==
  ASSUME Typed, Reviewed, NEW r \in Requests, NEW pc, Goto(r, pc), ~At(r, "idle"),
         pc \in {"sign", "read"} => req[r].op # "verify" \/ At(r, "sign"),
         pc \in {"sign", "read"} \/ ~(At(r, "sign") \/ At(r, "read")),
         asked' = asked, RowsReviewed'
  PROVE  Reviewed'
<1> DEFINE q == [req[r] EXCEPT !.pc = pc]
<1>1. /\ q.pc = pc /\ q.op = req[r].op /\ q.user = req[r].user
      /\ q.k = req[r].k /\ q.status = req[r].status
  BY SlotType DEF RequestRecords
<1>2. req' = [req EXCEPT ![r] = q]
  BY DEF Goto, Typed, Slots
<1> HIDE DEF q
<1>3. SlotReviewed(req[r], asked)
  BY DEF Reviewed
<1>4. SlotReviewed(q, asked')
  BY <1>1, <1>3 DEF SlotReviewed, At
<1> QED BY <1>2, <1>4, ReviewedStep

\* A slot that is taken for something else than a review or an application.
LEMMA BeginReviewed ==
  ASSUME Typed, Reviewed, NEW r \in Requests,
         BeginCreate(r) \/ BeginUpdate(r) \/ BeginRemove(r)
  PROVE  Reviewed'
<1>1. RowsReviewed' /\ asked' = asked
  BY RowsStay DEF Reviewed, BeginCreate, BeginUpdate, BeginRemove, rows, history
<1>2. ASSUME NEW q, NEW quiet, Enter(r, q, quiet), q.op \in {"create", "update", "remove"},
             q.status = "PENDING"
      PROVE  Reviewed'
  <2>1. SlotReviewed(q, asked') /\ req' = [req EXCEPT ![r] = q]
    BY <1>2 DEF SlotReviewed, Enter, Open
  <2> QED BY <1>1, <2>1, ReviewedStep
<1>3. CASE BeginCreate(r)
  <2>1. PICK u \in Users, payer \in Payers :
          Enter(r, [Idle EXCEPT !.pc = IF borrower[u] = None THEN "join" ELSE "insert",
                                !.user = u, !.payer = payer], TRUE)
    BY <1>3 DEF BeginCreate
  <2> DEFINE q == [Idle EXCEPT !.pc = IF borrower[u] = None THEN "join" ELSE "insert",
                               !.user = u, !.payer = payer]
  <2>2. q.op = "create" /\ q.status = "PENDING"
    BY DEF Idle
  <2> HIDE DEF q
  <2> QED BY <1>2, <2>1, <2>2 DEF q
<1>4. CASE BeginUpdate(r)
  <2>1. PICK k \in Kycs, u \in Users, payer \in Payers :
          Enter(r, [Idle EXCEPT
                      !.op = "update", !.k = k, !.user = u, !.payer = payer,
                      !.hash = kyc[k].hash,
                      !.pc = IF u # kyc[k].owner /\ borrower[u] = None
                             THEN "join" ELSE "write"],
                u = kyc[k].owner)
    BY <1>4 DEF BeginUpdate
  <2> DEFINE q == [Idle EXCEPT
                      !.op = "update", !.k = k, !.user = u, !.payer = payer,
                      !.hash = kyc[k].hash,
                      !.pc = IF u # kyc[k].owner /\ borrower[u] = None
                             THEN "join" ELSE "write"]
             same == u = kyc[k].owner
  <2>2. q.op = "update" /\ q.status = "PENDING"
    BY DEF Idle
  <2>3. Enter(r, q, same)
    BY <2>1
  <2> HIDE DEF q, same
  <2> QED BY <1>2, <2>2, <2>3
<1>5. CASE BeginRemove(r)
  <2>1. PICK k \in Kycs, payer \in Payers :
          Enter(r, [Idle EXCEPT !.op = "remove", !.k = k, !.payer = payer,
                                !.pc = IF enabled THEN "decide" ELSE "delete"], FALSE)
    BY <1>5 DEF BeginRemove
  <2> DEFINE q == [Idle EXCEPT !.op = "remove", !.k = k, !.payer = payer,
                               !.pc = IF enabled THEN "decide" ELSE "delete"]
  <2>2. q.op = "remove" /\ q.status = "PENDING"
    BY DEF Idle
  <2> HIDE DEF q
  <2> QED BY <1>2, <2>1, <2>2 DEF q
<1> QED BY <1>3, <1>4, <1>5

\* A reviewer's decision, and the application of someone whose page shows one.
LEMMA AskReviewed ==
  ASSUME Typed, NEW k \in Kycs, There(k), Ask(k, "VERIFIED")
  PROVE  <<k, kyc[k].owner>> \in asked' /\ DecidedIn(k, asked')
<1>1. kyc[k].owner \in Users
  BY DEF Typed, Stored, There
<1> QED BY <1>1 DEF Ask, DecidedIn

LEMMA BeginReviewReviewed ==
  ASSUME Typed, Reviewed, NEW r \in Requests,
         BeginVerify(r) \/ BeginConsoleVerify(r) \/ BeginApply(r)
  PROVE  Reviewed'
<1>1. CASE BeginVerify(r)
  <2>1. PICK k \in Kycs, s \in Statuses, payer \in Payers :
          There(k) /\ Ask(k, s) /\ Enter(r, ReadForVerify(k, s, payer), TRUE)
    BY <1>1 DEF BeginVerify
  <2> DEFINE q == ReadForVerify(k, s, payer)
  <2>2. /\ q.op = "verify" /\ q.pc \in {"decide", "write"} /\ q.k = k /\ q.status = s
        /\ q.user = kyc[k].owner
    BY <2>1, ReadForVerifyOK
  <2>3. req' = [req EXCEPT ![r] = q] /\ asked \subseteq asked'
    BY <2>1, AskType DEF Enter, Open
  <2> HIDE DEF q
  <2>4. SlotReviewed(q, asked')
    BY <2>1, <2>2, AskReviewed DEF SlotReviewed
  <2>5. RowsReviewed'
    BY <1>1, <2>3, RowsStay DEF Reviewed, BeginVerify, rows
  <2> QED BY <2>3, <2>4, <2>5, ReviewedStep
<1>2. CASE BeginConsoleVerify(r)
  <2>1. PICK k \in Kycs :
          /\ There(k) /\ Ask(k, "VERIFIED")
          /\ Enter(r, [Idle EXCEPT !.op = "verify", !.pc = "sign", !.k = k,
                                   !.status = "VERIFIED", !.payer = "USER"], TRUE)
    BY <1>2 DEF BeginConsoleVerify
  <2> DEFINE q == [Idle EXCEPT !.op = "verify", !.pc = "sign", !.k = k,
                               !.status = "VERIFIED", !.payer = "USER"]
  <2>2. q.op = "verify" /\ q.pc = "sign" /\ q.k = k
    BY DEF Idle
  <2>3. req' = [req EXCEPT ![r] = q] /\ asked \subseteq asked'
    BY <2>1, AskType DEF Enter, Open
  <2> HIDE DEF q
  <2>4. SlotReviewed(q, asked')
    BY <2>1, <2>2, AskReviewed DEF SlotReviewed
  <2>5. RowsReviewed'
    BY <1>2, <2>3, RowsStay DEF Reviewed, BeginConsoleVerify, rows
  <2> QED BY <2>3, <2>4, <2>5, ReviewedStep
<1>3. CASE BeginApply(r)
  <2>1. PICK u \in Users :
          /\ GateOpens(u)
          /\ Open(r, [Idle EXCEPT !.op = "apply", !.pc = "apply", !.user = u,
                                  !.k = Latest(u)], TRUE)
    BY <1>3 DEF BeginApply
  <2> DEFINE k == Latest(u)
             q == [Idle EXCEPT !.op = "apply", !.pc = "apply", !.user = u, !.k = k]
  <2>2. DecidedIn(k, asked)
    <3>1. k \in Kycs /\ kyc[k].status = "VERIFIED"
      BY <2>1, LatestIsMine DEF GateOpens, Mine
    <3> QED BY <3>1 DEF Reviewed, RowsReviewed
  <2> HIDE DEF k
  <2>3. q.op = "apply" /\ q.k = k /\ q.status = "PENDING"
    BY DEF Idle
  <2>4. req' = [req EXCEPT ![r] = q] /\ asked' = asked
    BY <1>3, <2>1 DEF Open, k, BeginApply, history
  <2> HIDE DEF q
  <2>5. SlotReviewed(q, asked')
    BY <2>2, <2>3, <2>4 DEF SlotReviewed
  <2>6. RowsReviewed'
    BY <1>3, <2>4, RowsStay DEF Reviewed, BeginApply, rows, history
  <2> QED BY <2>4, <2>5, <2>6, ReviewedStep
<1> QED BY <1>1, <1>2, <1>3

\* Steps of handlers that write no status and no decision.
LEMMA QuietReviewed ==
  ASSUME Typed, Reviewed, NEW r \in Requests,
         \/ Decide(r) \/ SubmitLoan(r) \/ Crash(r) \/ Stamp(r) \/ Delete(r)
  PROVE  Reviewed'
<1>1. asked' = asked
  BY DEF Decide, SubmitLoan, Crash, Stamp, Delete, history
<1>2. RowsReviewed'
  <2>1. UNCHANGED <<registry, borrower, relied>>
    BY DEF Decide, SubmitLoan, Crash, Stamp, Delete, rows, history
  <2>2. \A k \in Kycs : kyc'[k].status = kyc[k].status
    BY DEF Decide, SubmitLoan, Crash, Stamp, Delete, rows, Typed, Stored, Rows
  <2> QED BY <1>1, <2>1, <2>2 DEF Reviewed, RowsReviewed, VerifiedWasReviewed
<1>3. \/ Finish(r)
      \/ \E pc : /\ Goto(r, pc) /\ pc \notin {"sign", "read"}
                 /\ At(r, "decide") \/ At(r, "apply") \/ At(r, "stamp")
  <2>1. Granted(r) \notin {"sign", "read"}
    <3>1. req[r].op \in Ops
      BY SlotType
    <3> QED BY <3>1 DEF Granted, Ops
  <2> QED BY <2>1 DEF Decide, SubmitLoan, Crash, Stamp, Delete
<1>4. CASE Finish(r)
  BY <1>1, <1>2, <1>4, FinishReviewed
<1>5. CASE ~Finish(r)
  <2>1. PICK pc : /\ Goto(r, pc) /\ pc \notin {"sign", "read"}
                  /\ At(r, "decide") \/ At(r, "apply") \/ At(r, "stamp")
    BY <1>3, <1>5 DEF Goto
  <2>2. ~At(r, "idle") /\ ~At(r, "sign") /\ ~At(r, "read")
    BY <2>1 DEF At
  <2> QED BY <1>1, <1>2, <2>1, <2>2, GotoReviewed
<1> QED BY <1>4, <1>5

LEMMA CreateReviewed ==
  ASSUME Typed, Reviewed, NEW r \in Requests, Join(r) \/ InsertKyc(r)
  PROVE  Reviewed'
<1>1. CASE Join(r)
  <2>1. asked' = asked /\ At(r, "join")
    BY <1>1 DEF Join, history
  <2>2. RowsReviewed'
    <3>1. UNCHANGED <<kyc, registry, relied>>
      BY <1>1 DEF Join, history
    <3>2. \A u \in Users : borrower'[u] = "VERIFIED" => borrower[u] = "VERIFIED"
      BY <1>1 DEF Join, Typed, Stored
    <3> QED BY <2>1, <3>1, <3>2 DEF Reviewed, RowsReviewed, VerifiedWasReviewed
  <2>3. Finish(r) \/ (\E pc \in {"insert", "write"} : Goto(r, pc))
    BY <1>1 DEF Join
  <2> QED BY <2>1, <2>2, <2>3, FinishReviewed, GotoReviewed DEF At
<1>2. CASE InsertKyc(r)
  <2> DEFINE k == Cardinality(Created) + 1
             q == [req[r] EXCEPT !.pc = "decide", !.k = k]
             row == NewRow(req[r].user)
  <2>1. At(r, "insert") /\ req[r].op = "create" /\ req[r].status = "PENDING"
    BY <1>2, Held DEF InsertKyc, At
  <2>2. asked' = asked /\ req' = [req EXCEPT ![r] = q] /\ kyc' = [kyc EXCEPT ![k] = row]
    BY <1>2 DEF InsertKyc, history, Typed, Slots
  <2>3. q.op = "create" /\ q.status = "PENDING" /\ row.status = "PENDING"
    BY <2>1, SlotType DEF RequestRecords, NewRow
  <2> HIDE DEF k, q, row
  <2>4. SlotReviewed(q, asked')
    BY <2>3 DEF SlotReviewed
  <2>5. RowsReviewed'
    <3>1. UNCHANGED <<registry, borrower, relied>>
      BY <1>2 DEF InsertKyc, history
    <3>2. \A j \in Kycs : kyc'[j].status = "VERIFIED" => kyc[j].status = "VERIFIED"
      BY <2>2, <2>3 DEF Typed, Stored
    <3> QED BY <2>2, <3>1, <3>2 DEF Reviewed, RowsReviewed, VerifiedWasReviewed
  <2> QED BY <2>2, <2>4, <2>5, ReviewedStep
<1> QED BY <1>1, <1>2

\* What the chain and the borrower's row are given, and what `verify' and
\* `update' store.
LEMMA RecordReviewed ==
  ASSUME Typed, Reviewed, NEW r \in Requests, RecordOnChain(r)
  PROVE  Reviewed'
<1>1. /\ At(r, "record") /\ ~At(r, "idle") /\ asked' = asked
      /\ UNCHANGED <<kyc, borrower, relied>>
  BY DEF RecordOnChain, At, history
<1>2. SlotReviewed(req[r], asked)
  BY DEF Reviewed
<1>3. RowsReviewed'
  <2>1. req[r].status = "VERIFIED" => DecidedIn(req[r].k, asked)
    BY <1>2 DEF SlotReviewed
  <2>2. registry' = [registry EXCEPT ![req[r].k] = req[r].status] \/ registry' = registry
    BY DEF RecordOnChain, SentStatus
  <2>3. \A k \in Kycs : registry'[k] = "VERIFIED" =>
          registry[k] = "VERIFIED" \/ (k = req[r].k /\ req[r].status = "VERIFIED")
    BY <2>2 DEF Typed, Stored
  <2> QED BY <1>1, <2>1, <2>3 DEF Reviewed, RowsReviewed, VerifiedWasReviewed
<1>4. CASE Finish(r)
  BY <1>1, <1>3, <1>4, FinishReviewed
<1>5. CASE ~Finish(r)
  <2>1. PICK told \in BOOLEAN :
          LET hash == told \/ req[r].hash
              next == IF hash THEN With(r) ELSE Without(r)
          IN IF next = "idle" THEN Finish(r)
             ELSE req' = [req EXCEPT ![r].pc = next, ![r].hash = hash]
    BY DEF RecordOnChain
  <2> DEFINE hash == told \/ req[r].hash
             next == IF hash THEN With(r) ELSE Without(r)
             q == [req[r] EXCEPT !.pc = next, !.hash = hash]
  <2>2. req' = [req EXCEPT ![r] = q]
    BY <1>5, <2>1 DEF Typed, Slots
  <2>3. next \notin {"sign", "read"}
    BY DEF With, Without
  <2> HIDE DEF next, hash
  <2>4. /\ q.pc = next /\ q.op = req[r].op /\ q.user = req[r].user
        /\ q.k = req[r].k /\ q.status = req[r].status
    BY SlotType DEF RequestRecords
  <2> HIDE DEF q
  <2>5. SlotReviewed(q, asked')
    BY <1>1, <1>2, <2>3, <2>4 DEF SlotReviewed, At
  <2> QED BY <1>1, <1>3, <2>2, <2>5, ReviewedStep
<1> QED BY <1>4, <1>5

LEMMA FlagReviewed ==
  ASSUME Typed, Reviewed, NEW r \in Requests, Flag(r)
  PROVE  Reviewed'
<1>1. /\ At(r, "flag") /\ asked' = asked /\ UNCHANGED <<kyc, registry, relied>>
      /\ ~At(r, "idle") /\ ~At(r, "sign") /\ ~At(r, "read")
  BY DEF Flag, history, At
<1>2. /\ req[r].op \in {"create", "verify"} /\ req[r].k \in Kycs
      /\ req[r].op # "verify" => req[r].status = "PENDING"
  BY <1>1, Held DEF At
<1>3. req[r].status = "VERIFIED" => <<req[r].k, req[r].user>> \in asked
  BY <1>1, <1>2 DEF Reviewed, SlotReviewed, At
<1>4. \A u \in Users : borrower'[u] = "VERIFIED" =>
        borrower[u] = "VERIFIED" \/ (u = req[r].user /\ req[r].status = "VERIFIED")
  BY DEF Flag, NewFlag, Typed, Stored
<1>5. RowsReviewed'
  BY <1>1, <1>2, <1>3, <1>4 DEF Reviewed, RowsReviewed, VerifiedWasReviewed
<1>6. CASE Finish(r)
  BY <1>1, <1>5, <1>6, FinishReviewed
<1>7. CASE req[r].op = "create" /\ Goto(r, "sign")
  BY <1>1, <1>5, <1>7, GotoReviewed
<1> QED BY <1>6, <1>7 DEF Flag

LEMMA WriteUpdateReviewed ==
  ASSUME Typed, Reviewed, NEW r \in Requests, WriteUpdate(r)
  PROVE  Reviewed'
<1> DEFINE k == req[r].k
           q == [req[r] EXCEPT !.pc = "decide", !.status = kyc[k].status]
<1>1. /\ req[r].op = "update" /\ asked' = asked
      /\ UNCHANGED <<registry, borrower, relied>>
  BY DEF WriteUpdate, history
<1>2. k \in Kycs
  BY <1>1, Held DEF WriteUpdate, At
<1>3. RowsReviewed'
  <2>1. \A j \in Kycs : kyc'[j].status = kyc[j].status
    BY DEF WriteUpdate, Typed, Stored, Rows
  <2> QED BY <1>1, <2>1 DEF Reviewed, RowsReviewed, VerifiedWasReviewed
<1>4. CASE Finish(r)
  BY <1>1, <1>3, <1>4, FinishReviewed
<1>5. CASE req' = [req EXCEPT ![r].pc = "decide", ![r].status = UpdatedStatus(k)]
  <2>1. req' = [req EXCEPT ![r] = q]
    BY <1>5 DEF UpdatedStatus, Typed, Slots
  <2>2. q.op = "update" /\ q.k = k /\ q.status = kyc[k].status
    BY <1>1, SlotType DEF RequestRecords
  <2>3. kyc[k].status = "VERIFIED" => DecidedIn(k, asked)
    BY <1>2 DEF Reviewed, RowsReviewed
  <2> HIDE DEF q, k
  <2>4. SlotReviewed(q, asked')
    BY <1>1, <2>2, <2>3 DEF SlotReviewed
  <2> QED BY <1>1, <1>3, <2>1, <2>4, ReviewedStep
<1> QED BY <1>4, <1>5 DEF WriteUpdate

LEMMA WriteVerifyReviewed ==
  ASSUME Typed, Reviewed, NEW r \in Requests, WriteVerify(r)
  PROVE  Reviewed'
<1> DEFINE k == req[r].k
           q == [req[r] EXCEPT !.pc = "flag", !.user = req[r].user]
<1>1. /\ At(r, "write") /\ req[r].op = "verify" /\ asked' = asked
      /\ UNCHANGED <<registry, borrower, relied>>
  BY DEF WriteVerify, history
<1>2. SlotReviewed(req[r], asked)
  BY DEF Reviewed
<1>3. RowsReviewed'
  <2>1. \A j \in Kycs : kyc'[j].status = "VERIFIED" =>
          kyc[j].status = "VERIFIED" \/ (j = k /\ req[r].status = "VERIFIED")
    BY DEF WriteVerify, Typed, Stored, Rows
  <2>2. req[r].status = "VERIFIED" => DecidedIn(k, asked)
    BY <1>2 DEF SlotReviewed
  <2> QED BY <1>1, <2>1, <2>2 DEF Reviewed, RowsReviewed, VerifiedWasReviewed
<1>4. CASE Finish(r)
  BY <1>1, <1>3, <1>4, FinishReviewed
<1>5. CASE req' = [req EXCEPT ![r].pc = "flag", ![r].user = FlaggedUser(r)]
  <2>1. req' = [req EXCEPT ![r] = q]
    BY <1>5 DEF FlaggedUser, Typed, Slots
  <2>2. /\ q.op = "verify" /\ q.pc = "flag" /\ q.k = k /\ q.status = req[r].status
        /\ q.user = req[r].user
    BY <1>1, SlotType DEF RequestRecords
  <2> HIDE DEF q
  <2>3. SlotReviewed(q, asked')
    BY <1>1, <1>2, <2>2 DEF SlotReviewed, At
  <2> QED BY <1>1, <1>3, <2>1, <2>3, ReviewedStep
<1> QED BY <1>4, <1>5 DEF WriteVerify

\* The console, and the application that goes in.
LEMMA SignVerifyReviewed ==
  ASSUME Typed, Reviewed, NEW r \in Requests, SignVerify(r)
  PROVE  Reviewed'
<1>1. /\ At(r, "sign") /\ ~At(r, "idle") /\ req[r].op = "verify" /\ asked' = asked
      /\ UNCHANGED <<kyc, borrower, relied>>
  BY DEF SignVerify, history, At
<1>2. DecidedIn(req[r].k, asked)
  BY <1>1 DEF Reviewed, SlotReviewed, At
<1>3. RowsReviewed'
  <2>1. \A k \in Kycs : registry'[k] = "VERIFIED" => registry[k] = "VERIFIED" \/ k = req[r].k
    BY DEF SignVerify, Typed, Stored
  <2> QED BY <1>1, <1>2, <2>1 DEF Reviewed, RowsReviewed, VerifiedWasReviewed
<1>4. CASE Finish(r)
  BY <1>1, <1>3, <1>4, FinishReviewed
<1>5. CASE Goto(r, "read")
  BY <1>1, <1>3, <1>5, GotoReviewed
<1> QED BY <1>4, <1>5 DEF SignVerify

LEMMA ReadVerifyReviewed ==
  ASSUME Typed, Reviewed, NEW r \in Requests, ReadVerify(r)
  PROVE  Reviewed'
<1> DEFINE k == req[r].k
           q == ReadForVerify(k, "VERIFIED", "USER")
<1>1. UNCHANGED <<kyc, registry, borrower, relied>>
  BY DEF ReadVerify, rows
<1>2. CASE Finish(r) /\ asked' = asked
  <2>1. RowsReviewed'
    BY <1>1, <1>2, RowsStay DEF Reviewed
  <2> QED BY <1>2, <2>1, FinishReviewed
<1>3. CASE There(k) /\ Ask(k, "VERIFIED") /\ req' = [req EXCEPT ![r] = q]
  <2>1. k \in Kycs /\ "VERIFIED" \in Statuses /\ "USER" \in Payers
    BY <1>3 DEF There, Statuses, Decisions, Payers
  <2>2. /\ q.op = "verify" /\ q.pc \in {"decide", "write"} /\ q.k = k
        /\ q.user = kyc[k].owner
    BY <1>3, <2>1, ReadForVerifyOK
  <2>3. <<k, kyc[k].owner>> \in asked' /\ DecidedIn(k, asked') /\ asked \subseteq asked'
    BY <1>3, <2>1, AskReviewed, AskType
  <2>4. RowsReviewed'
    BY <1>1, <2>3, RowsStay DEF Reviewed
  <2> HIDE DEF q, k
  <2>5. SlotReviewed(q, asked')
    BY <2>2, <2>3 DEF SlotReviewed
  <2> QED BY <1>3, <2>3, <2>4, <2>5, ReviewedStep
<1> QED BY <1>2, <1>3 DEF ReadVerify

LEMMA SignCreateReviewed ==
  ASSUME Typed, Reviewed, NEW r \in Requests, SignCreate(r)
  PROVE  Reviewed'
<1>1. Finish(r) /\ asked' = asked /\ UNCHANGED <<kyc, borrower, relied>>
  BY DEF SignCreate, history
<1>2. \A k \in Kycs : registry'[k] = "VERIFIED" => registry[k] = "VERIFIED"
  BY DEF SignCreate, Typed, Stored
<1>3. RowsReviewed'
  BY <1>1, <1>2 DEF Reviewed, RowsReviewed, VerifiedWasReviewed
<1> QED BY <1>1, <1>3, FinishReviewed

LEMMA InsertLoanReviewed ==
  ASSUME Typed, Reviewed, NEW r \in Requests, InsertLoan(r)
  PROVE  Reviewed'
<1>1. /\ At(r, "loan") /\ ~At(r, "idle") /\ Finish(r) /\ asked' = asked
      /\ relied' = relied \union {<<req[r].user, req[r].k>>}
      /\ UNCHANGED <<kyc, registry, borrower>>
  BY DEF InsertLoan, rows, At
<1>2. DecidedIn(req[r].k, asked)
  BY <1>1, Held DEF Reviewed, SlotReviewed, At
<1>3. RowsReviewed'
  BY <1>1, <1>2 DEF Reviewed, RowsReviewed, VerifiedWasReviewed
<1> QED BY <1>1, <1>3, FinishReviewed

LEMMA InitReviewed == Init => Reviewed
BY DEF Init, Reviewed, RowsReviewed, SlotReviewed, VerifiedWasReviewed, FreeRow, Idle,
       None, Kycs

LEMMA NextReviewed == Typed /\ Reviewed /\ [Next]_vars => Reviewed'
<1> SUFFICES ASSUME Typed, Reviewed, [Next]_vars PROVE Reviewed'
  OBVIOUS
<1>1. CASE UNCHANGED vars
  BY <1>1 DEF vars, Reviewed, RowsReviewed, SlotReviewed, VerifiedWasReviewed, DecidedIn
<1>2. ASSUME NEW r \in Requests, KycBegin(r) \/ BeginConsoleVerify(r) \/ BeginApply(r)
      PROVE  Reviewed'
  BY <1>2, BeginReviewed, BeginReviewReviewed DEF KycBegin
<1>3. ASSUME NEW r \in Requests, KycStep(r) PROVE Reviewed'
  BY <1>3, QuietReviewed, CreateReviewed, RecordReviewed, FlagReviewed,
     WriteUpdateReviewed, WriteVerifyReviewed DEF KycStep
<1>4. ASSUME NEW r \in Requests,
             \/ SignVerify(r) \/ ReadVerify(r) \/ SignCreate(r)
             \/ SubmitLoan(r) \/ InsertLoan(r) \/ Crash(r)
      PROVE  Reviewed'
  BY <1>4, SignVerifyReviewed, ReadVerifyReviewed, SignCreateReviewed, QuietReviewed,
     InsertLoanReviewed
<1>5. ASSUME Elsewhere PROVE Reviewed'
  BY <1>5 DEF Elsewhere, rows, Reviewed, RowsReviewed, SlotReviewed, VerifiedWasReviewed,
              DecidedIn
<1> QED BY <1>1, <1>2, <1>3, <1>4, <1>5, LoanSteps DEF Next, Step

LEMMA AlwaysReviewed == Spec => []Reviewed
BY AlwaysTyped, InitReviewed, NextReviewed, PTL DEF Spec

\* Whoever is flagged VERIFIED was decided to be so by a reviewer, of a KYC that
\* was this user's then: verify flags the borrower it read at its beginning.
THEOREM FlaggedWasReviewed == Spec => []VerifiedWasReviewed
<1>1. Reviewed => VerifiedWasReviewed
  BY DEF Reviewed, RowsReviewed
<1> QED BY <1>1, AlwaysReviewed, PTL

\* The registry shows no KYC as VERIFIED that no reviewer decided so: an update
\* sends on the status of a row, and the rows keep to the decisions too.
THEOREM RegistryShowsDecisions == Spec => []ChainShowsDecisions
<1>1. Reviewed => ChainShowsDecisions
  BY DEF Reviewed, RowsReviewed, ChainShowsDecisions, DecidedIn
<1> QED BY <1>1, AlwaysReviewed, PTL

-----------------------------------------------------------------------------
(* As long as handlers run alone and no KYC is moved, a KYC keeps its owner: *)
(* what was decided of it, or relied on, concerns the user it has now.       *)

OwnedIn(table, k, u) == table[k].row # "FREE" /\ table[k].owner = u

SlotSettled(q, table) ==
  q.pc # "idle" /\ q.op \in {"apply", "update"} => OwnedIn(table, q.k, q.user)

Settled ==
  calm =>
    /\ \A p \in asked : OwnedIn(kyc, p[1], p[2])
    /\ \A a \in relied : OwnedIn(kyc, a[2], a[1])
    /\ \A r \in Requests : SlotSettled(req[r], kyc)

OwnersKept ==
  \A k \in Kycs : kyc[k].row # "FREE" => kyc'[k].row # "FREE" /\ kyc'[k].owner = kyc[k].owner

LEMMA SettledStep ==
  ASSUME Typed, Settled, NEW r \in Requests, NEW q, req' = [req EXCEPT ![r] = q],
         calm' => calm, calm' => OwnersKept, calm' => SlotSettled(q, kyc'),
         \A p \in asked' : p \in asked \/ OwnedIn(kyc', p[1], p[2]),
         \A a \in relied' : a \in relied \/ (calm' => OwnedIn(kyc', a[2], a[1]))
  PROVE  Settled'
<1> SUFFICES ASSUME calm'
             PROVE  /\ \A p \in asked' : OwnedIn(kyc', p[1], p[2])
                    /\ \A a \in relied' : OwnedIn(kyc', a[2], a[1])
                    /\ \A b \in Requests : SlotSettled(req'[b], kyc')
  BY DEF Settled
<1>1. \A k \in Kycs : \A u : OwnedIn(kyc, k, u) => OwnedIn(kyc', k, u)
  BY DEF OwnersKept, OwnedIn
<1>2. \A p \in asked' : OwnedIn(kyc', p[1], p[2])
  BY <1>1 DEF Settled, Typed, Stored
<1>3. \A a \in relied' : OwnedIn(kyc', a[2], a[1])
  BY <1>1 DEF Settled, Typed, Stored
<1>4. ASSUME NEW b \in Requests PROVE SlotSettled(req'[b], kyc')
  <2>1. CASE b = r
    BY <2>1, OneSlot
  <2>2. CASE b # r
    <3>1. req'[b] = req[b] /\ SlotSettled(req[b], kyc)
      BY <2>2, OneSlot DEF Settled
    <3>2. req[b].pc # "idle" /\ req[b].op \in {"apply", "update"} => req[b].k \in Kycs
      BY Held DEF At
    <3> QED BY <1>1, <3>1, <3>2 DEF SlotSettled
  <2> QED BY <2>1, <2>2
<1> QED BY <1>2, <1>3, <1>4

LEMMA FinishSettled ==
  ASSUME Typed, Settled, NEW r \in Requests, Finish(r), calm' => calm, OwnersKept,
         asked' = asked, relied' = relied
  PROVE  Settled'
<1>1. SlotSettled(Idle, kyc')
  BY DEF SlotSettled, Idle
<1> QED BY <1>1, SettledStep DEF Finish

\* A handler goes on with the KYC and the user it has.
LEMMA SameSettled ==
  ASSUME Typed, Settled, NEW r \in Requests, NEW q, req' = [req EXCEPT ![r] = q],
         q.op = req[r].op, q.k = req[r].k \/ q.op = "create", q.user = req[r].user,
         ~At(r, "idle"), calm' => calm, OwnersKept, asked' = asked, relied' = relied
  PROVE  Settled'
<1>1. ASSUME calm' PROVE SlotSettled(q, kyc')
  <2>1. SlotSettled(req[r], kyc)
    BY <1>1 DEF Settled
  <2>2. req[r].op \in {"apply", "update"} => req[r].k \in Kycs
    BY Held
  <2> QED BY <2>1, <2>2 DEF SlotSettled, OwnersKept, OwnedIn, At
<1> QED BY <1>1, SettledStep

LEMMA GotoSettled ==
  ASSUME Typed, Settled, NEW r \in Requests, NEW pc, Goto(r, pc), ~At(r, "idle"),
         calm' => calm, OwnersKept, asked' = asked, relied' = relied
  PROVE  Settled'
<1> DEFINE q == [req[r] EXCEPT !.pc = pc]
<1>1. q.op = req[r].op /\ q.user = req[r].user /\ q.k = req[r].k
  BY SlotType DEF RequestRecords
<1>2. req' = [req EXCEPT ![r] = q]
  BY DEF Goto, Typed, Slots
<1> HIDE DEF q
<1> QED BY <1>1, <1>2, SameSettled

LEMMA RowsSettled ==
  ASSUME kyc' = kyc PROVE OwnersKept
BY DEF OwnersKept

LEMMA BeginSettled ==
  ASSUME Typed, Settled, NEW r \in Requests, BeginCreate(r) \/ BeginUpdate(r) \/ BeginRemove(r)
  PROVE  Settled'
<1>1. kyc' = kyc /\ asked' = asked /\ relied' = relied
  BY DEF BeginCreate, BeginUpdate, BeginRemove, rows, history
<1>2. ASSUME NEW q, NEW quiet, Enter(r, q, quiet), calm' => SlotSettled(q, kyc')
      PROVE  Settled'
  <2>1. req' = [req EXCEPT ![r] = q] /\ (calm' => calm)
    BY <1>2 DEF Enter, Open, Typed, Stored
  <2> QED BY <1>1, <1>2, <2>1, RowsSettled, SettledStep
<1>3. CASE BeginCreate(r)
  <2>1. PICK u \in Users, payer \in Payers :
          Enter(r, [Idle EXCEPT !.pc = IF borrower[u] = None THEN "join" ELSE "insert",
                                !.user = u, !.payer = payer], TRUE)
    BY <1>3 DEF BeginCreate
  <2> DEFINE q == [Idle EXCEPT !.pc = IF borrower[u] = None THEN "join" ELSE "insert",
                               !.user = u, !.payer = payer]
  <2>2. q.op = "create"
    BY DEF Idle
  <2> HIDE DEF q
  <2>3. SlotSettled(q, kyc')
    BY <2>2 DEF SlotSettled
  <2> QED BY <1>2, <2>1, <2>3 DEF q
<1>4. CASE BeginUpdate(r)
  <2>1. PICK k \in Kycs, u \in Users, payer \in Payers :
          /\ There(k)
          /\ Enter(r, [Idle EXCEPT
                      !.op = "update", !.k = k, !.user = u, !.payer = payer,
                      !.hash = kyc[k].hash,
                      !.pc = IF u # kyc[k].owner /\ borrower[u] = None
                             THEN "join" ELSE "write"],
                u = kyc[k].owner)
    BY <1>4 DEF BeginUpdate
  <2> DEFINE q == [Idle EXCEPT
                      !.op = "update", !.k = k, !.user = u, !.payer = payer,
                      !.hash = kyc[k].hash,
                      !.pc = IF u # kyc[k].owner /\ borrower[u] = None
                             THEN "join" ELSE "write"]
             same == u = kyc[k].owner
  <2>2. q.k = k /\ q.user = u
    BY DEF Idle
  <2>3. Enter(r, q, same)
    BY <2>1
  <2>4. calm' => u = kyc[k].owner
    BY <2>1 DEF Enter, Open, Typed, Stored
  <2> HIDE DEF q, same
  <2>5. calm' => SlotSettled(q, kyc')
    BY <1>1, <2>1, <2>2, <2>4 DEF SlotSettled, OwnedIn, There
  <2> QED BY <1>2, <2>3, <2>5
<1>5. CASE BeginRemove(r)
  <2>1. PICK k \in Kycs, payer \in Payers :
          Enter(r, [Idle EXCEPT !.op = "remove", !.k = k, !.payer = payer,
                                !.pc = IF enabled THEN "decide" ELSE "delete"], FALSE)
    BY <1>5 DEF BeginRemove
  <2> DEFINE q == [Idle EXCEPT !.op = "remove", !.k = k, !.payer = payer,
                               !.pc = IF enabled THEN "decide" ELSE "delete"]
  <2>2. q.op = "remove"
    BY DEF Idle
  <2> HIDE DEF q
  <2>3. SlotSettled(q, kyc')
    BY <2>2 DEF SlotSettled
  <2> QED BY <1>2, <2>1, <2>3 DEF q
<1> QED BY <1>3, <1>4, <1>5

\* A decision is about the owner the KYC has as it is taken.
LEMMA AskSettled ==
  ASSUME Typed, NEW k \in Kycs, There(k), NEW s, Ask(k, s), kyc' = kyc
  PROVE  \A p \in asked' : p \in asked \/ OwnedIn(kyc', p[1], p[2])
BY DEF Ask, There, OwnedIn

LEMMA BeginReviewSettled ==
  ASSUME Typed, Settled, NEW r \in Requests,
         BeginVerify(r) \/ BeginConsoleVerify(r) \/ BeginApply(r)
  PROVE  Settled'
<1>1. kyc' = kyc /\ relied' = relied
  BY DEF BeginVerify, BeginConsoleVerify, BeginApply, rows, history
<1>2. CASE BeginVerify(r)
  <2>1. PICK k \in Kycs, s \in Statuses, payer \in Payers :
          There(k) /\ Ask(k, s) /\ Enter(r, ReadForVerify(k, s, payer), TRUE)
    BY <1>2 DEF BeginVerify
  <2> DEFINE q == ReadForVerify(k, s, payer)
  <2>2. q.op = "verify"
    BY <2>1, ReadForVerifyOK
  <2>3. req' = [req EXCEPT ![r] = q] /\ (calm' => calm)
    BY <2>1 DEF Enter, Open, Typed, Stored
  <2> HIDE DEF q
  <2>4. SlotSettled(q, kyc')
    BY <2>2 DEF SlotSettled
  <2> QED BY <1>1, <2>1, <2>3, <2>4, AskSettled, RowsSettled, SettledStep
<1>3. CASE BeginConsoleVerify(r)
  <2>1. PICK k \in Kycs :
          /\ There(k) /\ Ask(k, "VERIFIED")
          /\ Enter(r, [Idle EXCEPT !.op = "verify", !.pc = "sign", !.k = k,
                                   !.status = "VERIFIED", !.payer = "USER"], TRUE)
    BY <1>3 DEF BeginConsoleVerify
  <2> DEFINE q == [Idle EXCEPT !.op = "verify", !.pc = "sign", !.k = k,
                               !.status = "VERIFIED", !.payer = "USER"]
  <2>2. q.op = "verify"
    BY DEF Idle
  <2>3. req' = [req EXCEPT ![r] = q] /\ (calm' => calm)
    BY <2>1 DEF Enter, Open, Typed, Stored
  <2> HIDE DEF q
  <2>4. SlotSettled(q, kyc')
    BY <2>2 DEF SlotSettled
  <2> QED BY <1>1, <2>1, <2>3, <2>4, AskSettled, RowsSettled, SettledStep
<1>4. CASE BeginApply(r)
  <2>1. PICK u \in Users :
          /\ GateOpens(u)
          /\ Open(r, [Idle EXCEPT !.op = "apply", !.pc = "apply", !.user = u,
                                  !.k = Latest(u)], TRUE)
    BY <1>4 DEF BeginApply
  <2> DEFINE k == Latest(u)
             q == [Idle EXCEPT !.op = "apply", !.pc = "apply", !.user = u, !.k = k]
  <2>2. OwnedIn(kyc, k, u)
    BY <2>1, LatestIsMine DEF GateOpens, Mine, There, OwnedIn
  <2> HIDE DEF k
  <2>3. q.k = k /\ q.user = u
    BY DEF Idle
  <2>4. req' = [req EXCEPT ![r] = q] /\ asked' = asked /\ (calm' => calm)
    BY <1>4, <2>1 DEF Open, k, BeginApply, history, Typed, Stored
  <2> HIDE DEF q
  <2>5. SlotSettled(q, kyc')
    BY <1>1, <2>2, <2>3 DEF SlotSettled
  <2> QED BY <1>1, <2>4, <2>5, RowsSettled, SettledStep
<1> QED BY <1>2, <1>3, <1>4

\* Steps after which a handler ends or goes on with the same KYC and user.
LEMMA QuietSettled ==
  ASSUME Typed, Settled, NEW r \in Requests,
         \/ Join(r) \/ Decide(r) \/ SubmitLoan(r) \/ Crash(r) \/ Stamp(r) \/ Delete(r)
         \/ Flag(r) \/ SignVerify(r) \/ SignCreate(r)
  PROVE  Settled'
<1>1. asked' = asked /\ relied' = relied /\ (calm' => calm) /\ ~At(r, "idle")
  BY DEF Join, Decide, SubmitLoan, Crash, Stamp, Delete, Flag, SignVerify, SignCreate,
         history, At
<1>2. OwnersKept
  <2>1. CASE kyc' = kyc
    BY <2>1, RowsSettled
  <2>2. CASE Stamp(r) \/ Delete(r)
    BY <2>2 DEF Stamp, Delete, Typed, Stored, Rows, OwnersKept
  <2> QED BY <2>1, <2>2 DEF Join, Decide, SubmitLoan, Crash, Flag, SignVerify, SignCreate, rows
<1>3. CASE Finish(r)
  BY <1>1, <1>2, <1>3, FinishSettled
<1>4. CASE ~Finish(r)
  <2>1. \E pc : Goto(r, pc)
    BY <1>4 DEF Join, Decide, SubmitLoan, Crash, Stamp, Delete, Flag, SignVerify, SignCreate
  <2> QED BY <1>1, <1>2, <2>1, GotoSettled
<1> QED BY <1>3, <1>4

LEMMA RecordSettled ==
  ASSUME Typed, Settled, NEW r \in Requests, RecordOnChain(r)
  PROVE  Settled'
<1>1. /\ kyc' = kyc /\ asked' = asked /\ relied' = relied /\ (calm' => calm)
      /\ ~At(r, "idle")
  BY DEF RecordOnChain, history, At
<1>2. CASE Finish(r)
  BY <1>1, <1>2, RowsSettled, FinishSettled
<1>3. CASE ~Finish(r)
  <2>1. PICK told \in BOOLEAN :
          LET hash == told \/ req[r].hash
              next == IF hash THEN With(r) ELSE Without(r)
          IN IF next = "idle" THEN Finish(r)
             ELSE req' = [req EXCEPT ![r].pc = next, ![r].hash = hash]
    BY DEF RecordOnChain
  <2> DEFINE hash == told \/ req[r].hash
             next == IF hash THEN With(r) ELSE Without(r)
             q == [req[r] EXCEPT !.pc = next, !.hash = hash]
  <2>2. req' = [req EXCEPT ![r] = q]
    BY <1>3, <2>1 DEF Typed, Slots
  <2> HIDE DEF next, hash
  <2>3. q.op = req[r].op /\ q.user = req[r].user /\ q.k = req[r].k
    BY SlotType DEF RequestRecords
  <2> HIDE DEF q
  <2> QED BY <1>1, <2>2, <2>3, RowsSettled, SameSettled
<1> QED BY <1>2, <1>3

\* The row of a new KYC was free, so nothing is said of it yet.
LEMMA InsertKycSettled ==
  ASSUME Typed, Settled, NEW r \in Requests, InsertKyc(r)
  PROVE  Settled'
<1> DEFINE k == Cardinality(Created) + 1
           q == [req[r] EXCEPT !.pc = "decide", !.k = k]
           row == NewRow(req[r].user)
<1>1. /\ asked' = asked /\ relied' = relied /\ calm' = calm /\ ~At(r, "idle")
      /\ req' = [req EXCEPT ![r] = q] /\ kyc' = [kyc EXCEPT ![k] = row]
  BY DEF InsertKyc, history, Typed, Slots, At
<1>2. q.op = req[r].op /\ q.user = req[r].user /\ q.op = "create"
  <2>1. req[r].op = "create"
    BY Held DEF InsertKyc, At
  <2> QED BY <2>1, SlotType DEF RequestRecords
<1>3. k \notin Created
  <2>1. Cardinality(Created) \in Nat /\ Created = 1 .. Cardinality(Created)
    BY FS_CardinalityType DEF Typed, Room
  <2> QED BY <2>1
<1> HIDE DEF k, q, row
<1>4. OwnersKept
  BY <1>1, <1>3 DEF OwnersKept, Created, Typed, Stored
<1> QED BY <1>1, <1>2, <1>4, SameSettled

\* In a calm history an update writes the owner that is there.
LEMMA WriteUpdateSettled ==
  ASSUME Typed, Settled, NEW r \in Requests, WriteUpdate(r)
  PROVE  Settled'
<1> DEFINE k == req[r].k
           q == [req[r] EXCEPT !.pc = "decide", !.status = kyc[k].status]
<1>1. /\ ~At(r, "idle") /\ req[r].op = "update" /\ asked' = asked /\ relied' = relied
      /\ calm' = calm
  BY DEF WriteUpdate, history, At
<1>2. ASSUME calm PROVE OwnersKept
  <2>1. k \in Kycs /\ OwnedIn(kyc, k, req[r].user)
    BY <1>1, <1>2, Held DEF Settled, SlotSettled, At
  <2>2. kyc' = kyc \/ kyc' = [kyc EXCEPT ![k].owner = req[r].user]
    BY DEF WriteUpdate
  <2> QED BY <2>1, <2>2 DEF OwnersKept, OwnedIn, Typed, Stored, Rows
<1>3. CASE ~calm
  BY <1>1, <1>3 DEF Settled
<1>4. CASE calm /\ Finish(r)
  BY <1>1, <1>2, <1>4, FinishSettled
<1>5. CASE calm /\ req' = [req EXCEPT ![r].pc = "decide", ![r].status = UpdatedStatus(k)]
  <2>1. req' = [req EXCEPT ![r] = q]
    BY <1>5 DEF UpdatedStatus, Typed, Slots
  <2>2. q.op = req[r].op /\ q.user = req[r].user /\ q.k = req[r].k
    BY SlotType DEF RequestRecords
  <2> HIDE DEF q
  <2> QED BY <1>1, <1>2, <1>5, <2>1, <2>2, SameSettled
<1> QED BY <1>3, <1>4, <1>5 DEF WriteUpdate

LEMMA VerifySettled ==
  ASSUME Typed, Settled, NEW r \in Requests, WriteVerify(r) \/ ReadVerify(r)
  PROVE  Settled'
<1>1. CASE WriteVerify(r)
  <2> DEFINE q == [req[r] EXCEPT !.pc = "flag", !.user = req[r].user]
  <2>1. /\ asked' = asked /\ relied' = relied /\ calm' = calm /\ ~At(r, "idle")
    BY <1>1 DEF WriteVerify, history, At
  <2>2. OwnersKept
    BY <1>1 DEF WriteVerify, OwnersKept, Typed, Stored, Rows
  <2>3. CASE Finish(r)
    BY <2>1, <2>2, <2>3, FinishSettled
  <2>4. CASE ~Finish(r)
    <3>1. req' = [req EXCEPT ![r] = q]
      BY <1>1, <2>4 DEF WriteVerify, FlaggedUser, Typed, Slots
    <3>2. q.op = req[r].op /\ q.user = req[r].user /\ q.k = req[r].k
      BY SlotType DEF RequestRecords
    <3> HIDE DEF q
    <3> QED BY <2>1, <2>2, <3>1, <3>2, SameSettled
  <2> QED BY <2>3, <2>4
<1>2. CASE ReadVerify(r)
  <2> DEFINE k == req[r].k
             q == ReadForVerify(k, "VERIFIED", "USER")
  <2>1. kyc' = kyc /\ relied' = relied /\ calm' = calm
    BY <1>2 DEF ReadVerify, rows
  <2>2. CASE Finish(r) /\ asked' = asked
    BY <2>1, <2>2, RowsSettled, FinishSettled
  <2>3. CASE There(k) /\ Ask(k, "VERIFIED") /\ req' = [req EXCEPT ![r] = q]
    <3>1. k \in Kycs /\ "VERIFIED" \in Statuses /\ "USER" \in Payers
      BY <2>3 DEF There, Statuses, Decisions, Payers
    <3>2. q.op = "verify"
      BY <2>3, <3>1, ReadForVerifyOK
    <3>3. \A p \in asked' : p \in asked \/ OwnedIn(kyc', p[1], p[2])
      BY <2>1, <2>3, <3>1, AskSettled
    <3> HIDE DEF q, k
    <3>4. SlotSettled(q, kyc')
      BY <3>2 DEF SlotSettled
    <3> QED BY <2>1, <2>3, <3>3, <3>4, RowsSettled, SettledStep
  <2> QED BY <1>2, <2>2, <2>3 DEF ReadVerify
<1> QED BY <1>1, <1>2

LEMMA InsertLoanSettled ==
  ASSUME Typed, Settled, NEW r \in Requests, InsertLoan(r)
  PROVE  Settled'
<1>1. /\ At(r, "loan") /\ ~At(r, "idle") /\ Finish(r) /\ asked' = asked /\ kyc' = kyc
      /\ relied' = relied \union {<<req[r].user, req[r].k>>} /\ calm' = calm
  BY DEF InsertLoan, rows, At
<1>2. calm => OwnedIn(kyc, req[r].k, req[r].user)
  BY <1>1, Held DEF Settled, SlotSettled, At
<1>3. SlotSettled(Idle, kyc')
  BY DEF SlotSettled, Idle
<1>4. req' = [req EXCEPT ![r] = Idle] /\ OwnersKept
  BY <1>1, RowsSettled DEF Finish
<1>5. \A a \in relied' : a \in relied \/ (calm' => OwnedIn(kyc', a[2], a[1]))
  BY <1>1, <1>2
<1> QED BY <1>1, <1>3, <1>4, <1>5, SettledStep

LEMMA InitSettled == Init => Settled
BY DEF Init, Settled, SlotSettled, Idle

LEMMA NextSettled == Typed /\ Settled /\ [Next]_vars => Settled'
<1> SUFFICES ASSUME Typed, Settled, [Next]_vars PROVE Settled'
  OBVIOUS
<1>1. CASE UNCHANGED vars
  BY <1>1 DEF vars, Settled, SlotSettled, OwnedIn
<1>2. ASSUME NEW r \in Requests, KycBegin(r) \/ BeginConsoleVerify(r) \/ BeginApply(r)
      PROVE  Settled'
  BY <1>2, BeginSettled, BeginReviewSettled DEF KycBegin
<1>3. ASSUME NEW r \in Requests, KycStep(r) PROVE Settled'
  BY <1>3, QuietSettled, InsertKycSettled, RecordSettled, WriteUpdateSettled,
     VerifySettled DEF KycStep
<1>4. ASSUME NEW r \in Requests,
             \/ SignVerify(r) \/ ReadVerify(r) \/ SignCreate(r)
             \/ SubmitLoan(r) \/ InsertLoan(r) \/ Crash(r)
      PROVE  Settled'
  BY <1>4, QuietSettled, VerifySettled, InsertLoanSettled
<1>5. ASSUME Elsewhere PROVE Settled'
  BY <1>5 DEF Elsewhere, rows, Settled, SlotSettled, OwnedIn
<1> QED BY <1>1, <1>2, <1>3, <1>4, <1>5, LoanSteps DEF Next, Step

LEMMA AlwaysSettled == Spec => []Settled
BY AlwaysTyped, InitSettled, NextSettled, PTL DEF Spec

\* No loan without a reviewed KYC, although LoansService.create never looks; and
\* as long as no KYC changed hands the review was of the applicant.
THEOREM LoansRelyOnReviews == Spec => []GateIsReviewed
<1>1. ASSUME Typed, Reviewed, Settled PROVE GateIsReviewed
  <2> SUFFICES ASSUME NEW a \in relied
               PROVE  \E v \in Users : <<a[2], v>> \in asked /\ (calm => v = a[1])
    BY DEF GateIsReviewed
  <2>1. PICK v \in Users : <<a[2], v>> \in asked
    BY <1>1 DEF Reviewed, RowsReviewed, DecidedIn
  <2>2. calm => v = a[1]
    BY <1>1, <2>1 DEF Settled, OwnedIn
  <2> QED BY <2>1, <2>2
<1> QED BY <1>1, AlwaysTyped, AlwaysReviewed, AlwaysSettled, PTL
-----------------------------------------------------------------------------
(* Applications: a window that is open holds a place for the loan it may   *)
(* become, and a window that can look opens one only for a user none of    *)
(* whose loans is newer than the latest closed one.                        *)

Applying(u) == {r \in Requests : req[r].op = "apply" /\ req[r].user = u}

\* What a step does to its slot, as far as applications go.
KeepsApplication(r) ==
  /\ \A b \in Requests \ {r} : req'[b] = req[b]
  /\ req'[r].op = "apply" => req[r].op = "apply" /\ req'[r].user = req[r].user

LEMMA KeepsGoing ==
  ASSUME Typed, NEW r \in Requests, NEW q, req' = [req EXCEPT ![r] = q],
         q.op # "apply" \/ (q.op = req[r].op /\ q.user = req[r].user)
  PROVE  KeepsApplication(r)
BY OneSlot DEF KeepsApplication

LEMMA KeepsGoto ==
  ASSUME Typed, NEW r \in Requests, NEW pc, Goto(r, pc)
  PROVE  KeepsApplication(r)
<1> DEFINE q == [req[r] EXCEPT !.pc = pc]
<1>1. q.op = req[r].op /\ q.user = req[r].user
  BY SlotType DEF RequestRecords
<1>2. req' = [req EXCEPT ![r] = q]
  BY DEF Goto, Typed, Slots
<1> HIDE DEF q
<1> QED BY <1>1, <1>2, KeepsGoing

LEMMA KeepsFinish ==
  ASSUME Typed, NEW r \in Requests, Finish(r)
  PROVE  KeepsApplication(r)
<1>1. Idle.op = "create"
  BY DEF Idle
<1> QED BY <1>1, KeepsGoing DEF Finish

LEMMA KeepsBegin ==
  ASSUME Typed, NEW r \in Requests, KycBegin(r) \/ BeginConsoleVerify(r)
  PROVE  KeepsApplication(r)
<1>1. ASSUME NEW q, NEW quiet, Enter(r, q, quiet), q.op # "apply"
      PROVE  KeepsApplication(r)
  BY <1>1, KeepsGoing DEF Enter, Open
<1>2. ASSUME NEW u \in Users, NEW payer, NEW pc,
             Enter(r, [Idle EXCEPT !.pc = pc, !.user = u, !.payer = payer], TRUE)
      PROVE  KeepsApplication(r)
  <2> DEFINE q == [Idle EXCEPT !.pc = pc, !.user = u, !.payer = payer]
  <2>1. q.op = "create"
    BY DEF Idle
  <2> HIDE DEF q
  <2> QED BY <1>1, <1>2, <2>1 DEF q
<1>3. CASE BeginUpdate(r)
  <2>1. PICK k \in Kycs, u \in Users, payer \in Payers :
          Enter(r, [Idle EXCEPT
                      !.op = "update", !.k = k, !.user = u, !.payer = payer,
                      !.hash = kyc[k].hash,
                      !.pc = IF u # kyc[k].owner /\ borrower[u] = None
                             THEN "join" ELSE "write"],
                u = kyc[k].owner)
    BY <1>3 DEF BeginUpdate
  <2> DEFINE q == [Idle EXCEPT
                      !.op = "update", !.k = k, !.user = u, !.payer = payer,
                      !.hash = kyc[k].hash,
                      !.pc = IF u # kyc[k].owner /\ borrower[u] = None
                             THEN "join" ELSE "write"]
             same == u = kyc[k].owner
  <2>2. q.op = "update" /\ Enter(r, q, same)
    BY <2>1 DEF Idle
  <2> HIDE DEF q, same
  <2> QED BY <1>1, <2>2
<1>4. CASE BeginVerify(r)
  <2>1. PICK k \in Kycs, s \in Statuses, payer \in Payers :
          There(k) /\ Enter(r, ReadForVerify(k, s, payer), TRUE)
    BY <1>4 DEF BeginVerify
  <2> QED BY <1>1, <2>1, ReadForVerifyOK
<1>5. ASSUME NEW k, NEW payer, NEW pc,
             Enter(r, [Idle EXCEPT !.op = "remove", !.k = k, !.payer = payer, !.pc = pc], FALSE)
      PROVE  KeepsApplication(r)
  <2> DEFINE q == [Idle EXCEPT !.op = "remove", !.k = k, !.payer = payer, !.pc = pc]
  <2>1. q.op = "remove"
    BY DEF Idle
  <2> HIDE DEF q
  <2> QED BY <1>1, <1>5, <2>1 DEF q
<1>6. ASSUME NEW k,
             Enter(r, [Idle EXCEPT !.op = "verify", !.pc = "sign", !.k = k,
                                   !.status = "VERIFIED", !.payer = "USER"], TRUE)
      PROVE  KeepsApplication(r)
  <2> DEFINE q == [Idle EXCEPT !.op = "verify", !.pc = "sign", !.k = k,
                               !.status = "VERIFIED", !.payer = "USER"]
  <2>1. q.op = "verify"
    BY DEF Idle
  <2> HIDE DEF q
  <2> QED BY <1>1, <1>6, <2>1 DEF q
<1> QED
  BY <1>2, <1>3, <1>4, <1>5, <1>6 DEF KycBegin, BeginCreate, BeginRemove, BeginConsoleVerify

LEMMA KeepsStep ==
  ASSUME Typed, NEW r \in Requests,
         \/ KycStep(r) \/ SignVerify(r) \/ ReadVerify(r) \/ SignCreate(r)
         \/ SubmitLoan(r) \/ Crash(r)
  PROVE  KeepsApplication(r) /\ UNCHANGED <<loan, blind>>
<1>0. UNCHANGED <<loan, blind>>
  BY DEF KycStep, Join, InsertKyc, Decide, RecordOnChain, Stamp, Flag, WriteUpdate,
         WriteVerify, Delete, SignVerify, ReadVerify, SignCreate, SubmitLoan, Crash, history
<1>1. CASE Finish(r)
  BY <1>0, <1>1, KeepsFinish
<1>2. ASSUME NEW pc, Goto(r, pc) PROVE KeepsApplication(r)
  BY <1>2, KeepsGoto
<1>3. CASE InsertKyc(r)
  <2> DEFINE k == Cardinality(Created) + 1
             q == [req[r] EXCEPT !.pc = "decide", !.k = k]
  <2>1. q.op = req[r].op /\ q.user = req[r].user
    BY SlotType DEF RequestRecords
  <2>2. req' = [req EXCEPT ![r] = q]
    BY <1>3 DEF InsertKyc, Typed, Slots
  <2> HIDE DEF q
  <2> QED BY <1>0, <2>1, <2>2, KeepsGoing
<1>4. CASE RecordOnChain(r) /\ ~Finish(r)
  <2>1. PICK told \in BOOLEAN :
          LET hash == told \/ req[r].hash
              next == IF hash THEN With(r) ELSE Without(r)
          IN IF next = "idle" THEN Finish(r)
             ELSE req' = [req EXCEPT ![r].pc = next, ![r].hash = hash]
    BY <1>4 DEF RecordOnChain
  <2> DEFINE hash == told \/ req[r].hash
             next == IF hash THEN With(r) ELSE Without(r)
             q == [req[r] EXCEPT !.pc = next, !.hash = hash]
  <2>2. req' = [req EXCEPT ![r] = q]
    BY <1>4, <2>1 DEF Typed, Slots
  <2> HIDE DEF next, hash
  <2>3. q.op = req[r].op /\ q.user = req[r].user
    BY SlotType DEF RequestRecords
  <2> HIDE DEF q
  <2> QED BY <1>0, <2>2, <2>3, KeepsGoing
<1>5. CASE WriteUpdate(r) /\ ~Finish(r)
  <2> DEFINE s == UpdatedStatus(req[r].k)
             q == [req[r] EXCEPT !.pc = "decide", !.status = s]
  <2>1. q.op = req[r].op /\ q.user = req[r].user
    BY SlotType DEF RequestRecords
  <2>2. req' = [req EXCEPT ![r] = q]
    BY <1>5 DEF WriteUpdate, Typed, Slots
  <2> HIDE DEF q
  <2> QED BY <1>0, <2>1, <2>2, KeepsGoing
<1>6. CASE WriteVerify(r) /\ ~Finish(r)
  <2> DEFINE q == [req[r] EXCEPT !.pc = "flag", !.user = req[r].user]
  <2>1. q.op = req[r].op /\ q.user = req[r].user
    BY SlotType DEF RequestRecords
  <2>2. req' = [req EXCEPT ![r] = q]
    BY <1>6 DEF WriteVerify, FlaggedUser, Typed, Slots
  <2> HIDE DEF q
  <2> QED BY <1>0, <2>1, <2>2, KeepsGoing
<1>7. CASE ReadVerify(r) /\ ~Finish(r)
  <2>1. There(req[r].k) /\ req' = [req EXCEPT ![r] = ReadForVerify(req[r].k, "VERIFIED", "USER")]
    BY <1>7 DEF ReadVerify
  <2>2. req[r].k \in Kycs /\ "VERIFIED" \in Statuses /\ "USER" \in Payers
    BY <2>1 DEF There, Statuses, Decisions, Payers
  <2> QED BY <1>0, <2>1, <2>2, ReadForVerifyOK, KeepsGoing
<1> QED
  BY <1>0, <1>1, <1>2, <1>3, <1>4, <1>5, <1>6, <1>7
  DEF KycStep, Join, Decide, Stamp, Flag, Delete, SignVerify, SignCreate, SubmitLoan, Crash

LEMMA ApplyingFinite ==
  ASSUME NEW u
  PROVE  /\ IsFiniteSet(Applying(u))
         /\ Cardinality(Applying(u)) \in Nat
         /\ Cardinality(Applying(u)) <= Cardinality(Requests)
         /\ Cardinality(Requests) \in Nat
<1>1. Applying(u) \in SUBSET Requests
  BY DEF Applying
<1> QED BY <1>1, KycAssumption, FS_Subset, FS_CardinalityType

LEMMA BoundedKept ==
  ASSUME Typed, ApplicationsAreBounded, NEW r \in Requests, KeepsApplication(r),
         UNCHANGED <<loan, blind>>
  PROVE  ApplicationsAreBounded'
<1> SUFFICES ASSUME NEW u \in Users \ blind
             PROVE  loan[u] + Cardinality(Applying(u)') <= Cardinality(Requests)
  BY DEF ApplicationsAreBounded, Applying
<1>1. Applying(u)' \in SUBSET Applying(u)
  BY DEF Applying, KeepsApplication
<1>2. Cardinality(Applying(u)') <= Cardinality(Applying(u)) /\ Cardinality(Applying(u)') \in Nat
  BY <1>1, ApplyingFinite, FS_Subset, FS_CardinalityType
<1>3. loan[u] + Cardinality(Applying(u)) <= Cardinality(Requests) /\ loan[u] \in Nat
  BY DEF ApplicationsAreBounded, Applying, Typed, Stored
<1> QED BY <1>2, <1>3, ApplyingFinite

LEMMA BoundedBegin ==
  ASSUME Typed, ApplicationsAreBounded, NEW r \in Requests, BeginApply(r)
  PROVE  ApplicationsAreBounded'
<1>1. PICK w \in Users :
        /\ IF MayApply(w) THEN UNCHANGED <<loan, blind>> ELSE Unfollow(w)
        /\ Open(r, [Idle EXCEPT !.op = "apply", !.pc = "apply", !.user = w,
                                !.k = Latest(w)], TRUE)
  BY DEF BeginApply
<1> DEFINE q == [Idle EXCEPT !.op = "apply", !.pc = "apply", !.user = w, !.k = Latest(w)]
<1>2. q.user = w
  BY DEF Idle
<1>3. req' = [req EXCEPT ![r] = q]
  BY <1>1 DEF Open
<1> HIDE DEF q
<1> SUFFICES ASSUME NEW u \in Users \ blind'
             PROVE  loan'[u] + Cardinality(Applying(u)') <= Cardinality(Requests)
  BY DEF ApplicationsAreBounded, Applying
<1>4. Applying(u)' \in SUBSET Requests
  BY DEF Applying
<1>5. Cardinality(Applying(u)') <= Cardinality(Requests) /\ Cardinality(Applying(u)') \in Nat
  BY <1>4, KycAssumption, FS_Subset, FS_CardinalityType
<1>6. CASE u = w
  <2>1. loan'[u] = 0
    BY <1>1, <1>6 DEF MayApply, Unfollow
  <2> QED BY <1>5, <2>1, ApplyingFinite
<1>7. CASE u # w
  <2>1. Applying(u)' \in SUBSET Applying(u)
    BY <1>2, <1>3, <1>7, OneSlot DEF Applying
  <2>2. Cardinality(Applying(u)') <= Cardinality(Applying(u))
    BY <2>1, ApplyingFinite, FS_Subset
  <2>3. u \in Users \ blind /\ loan'[u] = loan[u]
    BY <1>1, <1>7 DEF Unfollow, Typed, Stored
  <2>4. loan[u] + Cardinality(Applying(u)) <= Cardinality(Requests) /\ loan[u] \in Nat
    BY <2>3 DEF ApplicationsAreBounded, Applying, Typed, Stored
  <2> QED BY <1>5, <2>2, <2>3, <2>4, ApplyingFinite
<1> QED BY <1>6, <1>7

\* A loan that closes leaves fewer, and one that returns is followed no further.
LEMMA BoundedLoans ==
  ASSUME Typed, ApplicationsAreBounded, NEW w \in Users, CloseLoan(w) \/ LoanReturns(w)
  PROVE  ApplicationsAreBounded'
<1> SUFFICES ASSUME NEW u \in Users \ blind'
             PROVE  loan'[u] + Cardinality(Applying(u)) <= Cardinality(Requests)
  <2>1. req' = req
    BY LoanSteps DEF Elsewhere
  <2> QED BY <2>1 DEF ApplicationsAreBounded, Applying
<1>1. u \in Users \ blind /\ loan'[u] \in Nat /\ loan'[u] <= loan[u]
  <2>1. CASE CloseLoan(w)
    <3>1. PICK n \in 0 .. loan[w] - 1 : loan' = [loan EXCEPT ![w] = n]
      BY <2>1 DEF CloseLoan
    <3>2. loan[u] \in Nat /\ loan[w] \in Nat /\ blind' = blind
      BY <2>1 DEF CloseLoan, history, Typed, Stored
    <3>3. CASE u = w
      BY <3>1, <3>2, <3>3 DEF Typed, Stored
    <3>4. CASE u # w
      BY <3>1, <3>2, <3>4 DEF Typed, Stored
    <3> QED BY <3>2, <3>3, <3>4
  <2>2. CASE LoanReturns(w)
    BY <2>2 DEF LoanReturns, Unfollow, Typed, Stored
  <2> QED BY <2>1, <2>2
<1>2. loan[u] + Cardinality(Applying(u)) <= Cardinality(Requests) /\ loan[u] \in Nat
  BY <1>1 DEF ApplicationsAreBounded, Applying, Typed, Stored
<1> QED BY <1>1, <1>2, ApplyingFinite

\* The application becomes a loan and gives its place up.
LEMMA BoundedInsert ==
  ASSUME Typed, ApplicationsAreBounded, NEW r \in Requests, InsertLoan(r)
  PROVE  ApplicationsAreBounded'
<1>1. At(r, "loan") /\ ~At(r, "idle") /\ Finish(r)
      /\ blind' = blind
      /\ \/ req[r].user \in blind /\ loan' = loan
         \/ loan' = [loan EXCEPT ![req[r].user] = loan[req[r].user] + 1]
  BY DEF InsertLoan, At
<1>2. req[r].op = "apply" /\ req[r].user \in Users
  BY <1>1, Held DEF At
<1>3. Idle.op = "create"
  BY DEF Idle
<1>4. req'[r] = Idle /\ \A b \in Requests \ {r} : req'[b] = req[b]
  BY <1>1, OneSlot DEF Finish
<1> SUFFICES ASSUME NEW u \in Users \ blind
             PROVE  loan'[u] + Cardinality(Applying(u)') <= Cardinality(Requests)
  BY <1>1 DEF ApplicationsAreBounded, Applying
<1>5. loan[u] + Cardinality(Applying(u)) <= Cardinality(Requests) /\ loan[u] \in Nat
  BY DEF ApplicationsAreBounded, Applying, Typed, Stored
<1>6. CASE u = req[r].user
  <2>1. Applying(u)' = Applying(u) \ {r} /\ r \in Applying(u)
    BY <1>2, <1>3, <1>4, <1>6 DEF Applying
  <2>2. Cardinality(Applying(u) \ {r}) = Cardinality(Applying(u)) - 1
    BY <2>1, ApplyingFinite, FS_RemoveElement
  <2>3. loan'[u] = loan[u] + 1
    BY <1>1, <1>6 DEF Typed, Stored
  <2> QED BY <1>5, <2>1, <2>2, <2>3, ApplyingFinite
<1>7. CASE u # req[r].user
  <2>1. Applying(u)' = Applying(u)
    BY <1>3, <1>4, <1>7 DEF Applying
  <2>2. loan'[u] = loan[u]
    BY <1>1, <1>7 DEF Typed, Stored
  <2> QED BY <1>5, <2>1, <2>2
<1> QED BY <1>6, <1>7

\* Of the loans newer than the latest closed one, which hides those before it
\* from the page (ApplyLoan.tsx isLoanBlocked), a user has never more than there
\* were windows, unless a window could not look or a closed loan came back: for
\* any number of windows, users and loans.  LoansService.create does not look.
THEOREM ApplicationsAreBoundedHolds == Spec => []ApplicationsAreBounded
<1>1. Init => ApplicationsAreBounded
  <2> SUFFICES ASSUME Init, NEW u \in Users
               PROVE  loan[u] + Cardinality(Applying(u)) <= Cardinality(Requests)
    BY DEF ApplicationsAreBounded, Applying
  <2>1. loan[u] = 0
    BY DEF Init
  <2> QED BY <2>1, ApplyingFinite
<1>2. Typed /\ ApplicationsAreBounded /\ [Next]_vars => ApplicationsAreBounded'
  <2> SUFFICES ASSUME Typed, ApplicationsAreBounded, [Next]_vars
               PROVE  ApplicationsAreBounded'
    OBVIOUS
  <2>1. CASE UNCHANGED vars
    BY <2>1 DEF vars, ApplicationsAreBounded
  <2>2. ASSUME NEW r \in Requests, KycBegin(r) \/ BeginConsoleVerify(r)
        PROVE  ApplicationsAreBounded'
    <3>1. UNCHANGED <<loan, blind>>
      BY <2>2 DEF KycBegin, BeginCreate, BeginUpdate, BeginVerify, BeginRemove,
                  BeginConsoleVerify, history
    <3> QED BY <2>2, <3>1, KeepsBegin, BoundedKept
  <2>3. ASSUME NEW r \in Requests,
               \/ KycStep(r) \/ SignVerify(r) \/ ReadVerify(r) \/ SignCreate(r)
               \/ SubmitLoan(r) \/ Crash(r)
        PROVE  ApplicationsAreBounded'
    BY <2>3, KeepsStep, BoundedKept
  <2> QED BY <2>1, <2>2, <2>3, BoundedBegin, BoundedInsert, BoundedLoans DEF Next, Step
<1> QED BY <1>1, <1>2, AlwaysTyped, PTL DEF Spec

-----------------------------------------------------------------------------
(* The borrower's copy of the status.  In a calm history one handler runs   *)
(* at a time, so the only moment at which the copy and the row may differ   *)
(* is between the two writes of a verification.                             *)

VerifiedIn(table, u) ==
  \E k \in Kycs : /\ table[k].row = "THERE" /\ table[k].owner = u
                  /\ table[k].status = "VERIFIED"

Flagging(q, u) == q.op = "verify" /\ q.pc = "flag" /\ q.user = u

SlotCalm(q, table) ==
  /\ q.op # "remove" /\ q.pc # "delete"
  /\ q.op = "verify" /\ q.pc \notin {"idle", "sign", "read"} => OwnedIn(table, q.k, q.user)
  /\ q.op = "verify" /\ q.pc = "flag" => table[q.k].status = q.status

Agreeing ==
  calm =>
    /\ \A a, b \in Requests : At(a, "idle") \/ At(b, "idle") \/ a = b
    /\ \A k \in Kycs : kyc[k].row # "GONE"
    /\ \A r \in Requests : SlotCalm(req[r], kyc)
    /\ \A u \in Users : borrower[u] = "VERIFIED" =>
         VerifiedIn(kyc, u) \/ \E r \in Requests : Flagging(req[r], u)

LEMMA CalmStep ==
  ASSUME Typed, Agreeing, NEW r \in Requests, NEW q, req' = [req EXCEPT ![r] = q],
         calm' => calm, calm' => ~At(r, "idle") \/ \A b \in Requests : At(b, "idle"),
         calm' => SlotCalm(q, kyc'), calm' => \A k \in Kycs : kyc'[k].row # "GONE",
         calm' => \A u \in Users : borrower'[u] = "VERIFIED" =>
                    VerifiedIn(kyc', u) \/ Flagging(q, u)
  PROVE  Agreeing'
<1> SUFFICES ASSUME calm'
             PROVE  /\ \A a, b \in Requests : At(a, "idle")' \/ At(b, "idle")' \/ a = b
                    /\ \A k \in Kycs : kyc'[k].row # "GONE"
                    /\ \A b \in Requests : SlotCalm(req'[b], kyc')
                    /\ \A u \in Users : borrower'[u] = "VERIFIED" =>
                         VerifiedIn(kyc', u) \/ \E b \in Requests : Flagging(req'[b], u)
  BY DEF Agreeing
<1>1. req'[r] = q /\ \A b \in Requests \ {r} : req'[b] = req[b]
  BY OneSlot
<1>2. \A b \in Requests \ {r} : req[b].pc = "idle"
  BY DEF Agreeing, At
<1>3. ASSUME NEW b \in Requests PROVE SlotCalm(req'[b], kyc')
  BY <1>1, <1>2 DEF Agreeing, SlotCalm
<1>4. \A a, b \in Requests : At(a, "idle")' \/ At(b, "idle")' \/ a = b
  BY <1>1, <1>2 DEF At
<1> QED BY <1>1, <1>3, <1>4

\* Owner, existence and status of every KYC stay.
RowsAgree ==
  \A k \in Kycs : /\ kyc'[k].row = kyc[k].row /\ kyc'[k].owner = kyc[k].owner
                  /\ kyc'[k].status = kyc[k].status

NoNewFlag == \A u \in Users : borrower'[u] = "VERIFIED" => borrower[u] = "VERIFIED"

LEMMA SameRows == kyc' = kyc => RowsAgree
BY DEF RowsAgree

LEMMA SameFlags == borrower' = borrower => NoNewFlag
BY DEF NoNewFlag

\* Steps that leave rows and flags as they are, in a handler that is not
\* between the two writes of a verification.
LEMMA KeptCalm ==
  ASSUME Typed, Agreeing, NEW r \in Requests, NEW q, req' = [req EXCEPT ![r] = q],
         calm' => calm, calm' => ~At(r, "idle") \/ \A b \in Requests : At(b, "idle"),
         req[r].op # "verify" \/ req[r].pc # "flag",
         RowsAgree, NoNewFlag, calm' => SlotCalm(q, kyc')
  PROVE  Agreeing'
<1>1. ASSUME calm', NEW u \in Users, borrower'[u] = "VERIFIED" PROVE VerifiedIn(kyc', u)
  <2>1. ASSUME NEW b \in Requests PROVE ~Flagging(req[b], u)
    BY <1>1 DEF Agreeing, Flagging, At
  <2>2. VerifiedIn(kyc, u)
    BY <1>1, <2>1 DEF Agreeing, NoNewFlag
  <2> QED BY <2>2 DEF VerifiedIn, RowsAgree
<1>2. calm' => \A k \in Kycs : kyc'[k].row # "GONE"
  BY DEF Agreeing, RowsAgree
<1> QED BY <1>1, <1>2, CalmStep

LEMMA FinishCalm ==
  ASSUME Typed, Agreeing, NEW r \in Requests, Finish(r), ~At(r, "idle"), calm' => calm,
         req[r].op # "verify" \/ req[r].pc # "flag", RowsAgree, NoNewFlag
  PROVE  Agreeing'
<1>1. SlotCalm(Idle, kyc')
  BY DEF SlotCalm, Idle
<1> QED BY <1>1, KeptCalm DEF Finish

\* The slot goes on with the KYC, the user and the status it has.
LEMMA SameCalm ==
  ASSUME Typed, Agreeing, NEW r \in Requests, NEW q, req' = [req EXCEPT ![r] = q],
         q.op = req[r].op, q.k = req[r].k \/ q.op # "verify", q.user = req[r].user,
         ~At(r, "idle"), calm' => calm,
         req[r].op = "verify" =>
           /\ ~At(r, "flag") /\ q.pc # "flag"
           /\ At(r, "sign") \/ At(r, "read") => q.pc \in {"sign", "read"},
         q.pc = "delete" => q.op = "remove", RowsAgree, NoNewFlag
  PROVE  Agreeing'
<1>1. ASSUME calm' PROVE SlotCalm(q, kyc')
  <2>1. SlotCalm(req[r], kyc)
    BY <1>1 DEF Agreeing
  <2>2. req[r].op = "verify" => req[r].k \in Kycs
    BY Held
  <2> QED BY <2>1, <2>2 DEF SlotCalm, RowsAgree, OwnedIn, At
<1> QED BY <1>1, KeptCalm DEF At

LEMMA GotoCalm ==
  ASSUME Typed, Agreeing, NEW r \in Requests, NEW pc, Goto(r, pc), ~At(r, "idle"),
         calm' => calm,
         req[r].op = "verify" =>
           /\ ~At(r, "flag") /\ pc # "flag"
           /\ At(r, "sign") \/ At(r, "read") => pc \in {"sign", "read"},
         pc = "delete" => req[r].op = "remove", RowsAgree, NoNewFlag
  PROVE  Agreeing'
<1> DEFINE q == [req[r] EXCEPT !.pc = pc]
<1>1. q.op = req[r].op /\ q.user = req[r].user /\ q.k = req[r].k /\ q.pc = pc
  BY SlotType DEF RequestRecords
<1>2. req' = [req EXCEPT ![r] = q]
  BY DEF Goto, Typed, Slots
<1> HIDE DEF q
<1> QED BY <1>1, <1>2, SameCalm

\* Handlers that begin do so alone, or the history is not calm.
LEMMA BeginCalm ==
  ASSUME Typed, Agreeing, NEW r \in Requests, NEW q, NEW quiet \in BOOLEAN, Open(r, q, quiet),
         kyc' = kyc, borrower' = borrower, (calm' /\ quiet) => SlotCalm(q, kyc)
  PROVE  Agreeing'
<1>1. /\ req' = [req EXCEPT ![r] = q]
      /\ calm' => calm
      /\ calm' => ~At(r, "idle") \/ \A b \in Requests : At(b, "idle")
  BY DEF Open, Typed, Stored
<1>2. req[r].op # "verify" \/ req[r].pc # "flag"
  BY DEF Open, At
<1>3. calm' => SlotCalm(q, kyc')
  BY DEF Open, Typed, Stored
<1>4. RowsAgree /\ NoNewFlag
  BY SameRows, SameFlags
<1> QED BY <1>1, <1>2, <1>3, <1>4, KeptCalm

LEMMA CallsCalm ==
  ASSUME Typed, Agreeing, NEW r \in Requests,
         KycBegin(r) \/ BeginConsoleVerify(r) \/ BeginApply(r)
  PROVE  Agreeing'
<1>0. kyc' = kyc /\ borrower' = borrower
  BY DEF KycBegin, BeginCreate, BeginUpdate, BeginVerify, BeginRemove, BeginConsoleVerify,
         BeginApply, rows
<1>1. CASE BeginCreate(r)
  <2>1. PICK u \in Users, payer \in Payers :
          Enter(r, [Idle EXCEPT !.pc = IF borrower[u] = None THEN "join" ELSE "insert",
                                !.user = u, !.payer = payer], TRUE)
    BY <1>1 DEF BeginCreate
  <2> DEFINE pc == IF borrower[u] = None THEN "join" ELSE "insert"
             q == [Idle EXCEPT !.pc = pc, !.user = u, !.payer = payer]
  <2>2. q.op = "create" /\ q.pc # "delete" /\ Open(r, q, TRUE)
    BY <2>1 DEF Idle, Enter
  <2> HIDE DEF q
  <2> QED BY <1>0, <2>2, BeginCalm DEF SlotCalm
<1>2. CASE BeginUpdate(r)
  <2>1. PICK k \in Kycs, u \in Users, payer \in Payers :
          Enter(r, [Idle EXCEPT
                      !.op = "update", !.k = k, !.user = u, !.payer = payer,
                      !.hash = kyc[k].hash,
                      !.pc = IF u # kyc[k].owner /\ borrower[u] = None
                             THEN "join" ELSE "write"],
                u = kyc[k].owner)
    BY <1>2 DEF BeginUpdate
  <2> DEFINE pc == IF u # kyc[k].owner /\ borrower[u] = None THEN "join" ELSE "write"
             q == [Idle EXCEPT
                      !.op = "update", !.k = k, !.user = u, !.payer = payer,
                      !.hash = kyc[k].hash, !.pc = pc]
             same == u = kyc[k].owner
  <2>2. q.op = "update" /\ q.pc # "delete" /\ Open(r, q, same) /\ same \in BOOLEAN
    BY <2>1 DEF Idle, Enter
  <2> HIDE DEF q, same
  <2> QED BY <1>0, <2>2, BeginCalm DEF SlotCalm
<1>3. CASE BeginVerify(r)
  <2>1. PICK k \in Kycs, s \in Statuses, payer \in Payers :
          There(k) /\ Enter(r, ReadForVerify(k, s, payer), TRUE)
    BY <1>3 DEF BeginVerify
  <2> DEFINE q == ReadForVerify(k, s, payer)
  <2>2. q.op = "verify" /\ q.pc \in {"decide", "write"} /\ q.k = k /\ q.user = kyc[k].owner
    BY <2>1, ReadForVerifyOK
  <2>3. Open(r, q, TRUE)
    BY <2>1 DEF Enter
  <2> HIDE DEF q
  <2> QED BY <1>0, <2>1, <2>2, <2>3, BeginCalm DEF SlotCalm, OwnedIn, There
<1>4. CASE BeginRemove(r)
  <2>1. PICK q : Enter(r, q, FALSE)
    BY <1>4 DEF BeginRemove
  <2> QED BY <1>0, <2>1, BeginCalm DEF Enter
<1>5. CASE BeginConsoleVerify(r)
  <2>1. PICK k \in Kycs :
          Enter(r, [Idle EXCEPT !.op = "verify", !.pc = "sign", !.k = k,
                                !.status = "VERIFIED", !.payer = "USER"], TRUE)
    BY <1>5 DEF BeginConsoleVerify
  <2> DEFINE q == [Idle EXCEPT !.op = "verify", !.pc = "sign", !.k = k,
                               !.status = "VERIFIED", !.payer = "USER"]
  <2>2. q.op = "verify" /\ q.pc = "sign" /\ Open(r, q, TRUE)
    BY <2>1 DEF Idle, Enter
  <2> HIDE DEF q
  <2> QED BY <1>0, <2>2, BeginCalm DEF SlotCalm
<1>6. CASE BeginApply(r)
  <2>1. PICK u \in Users :
          Open(r, [Idle EXCEPT !.op = "apply", !.pc = "apply", !.user = u,
                               !.k = Latest(u)], TRUE)
    BY <1>6 DEF BeginApply
  <2> DEFINE q == [Idle EXCEPT !.op = "apply", !.pc = "apply", !.user = u, !.k = Latest(u)]
  <2>2. q.op = "apply" /\ q.pc = "apply" /\ Open(r, q, TRUE)
    BY <2>1 DEF Idle
  <2> HIDE DEF q
  <2> QED BY <1>0, <2>2, BeginCalm DEF SlotCalm
<1> QED BY <1>1, <1>2, <1>3, <1>4, <1>5, <1>6 DEF KycBegin

\* Steps that write neither the status nor the owner of a KYC, nor VERIFIED
\* into a flag.
LEMMA QuietCalm ==
  ASSUME Typed, Agreeing, NEW r \in Requests,
         \/ Join(r) \/ Decide(r) \/ Stamp(r) \/ (Flag(r) /\ req[r].op # "verify")
         \/ SignVerify(r) \/ SignCreate(r) \/ SubmitLoan(r) \/ InsertLoan(r)
  PROVE  Agreeing'
<1>1. (calm' => calm) /\ ~At(r, "idle")
  BY DEF Join, Decide, Stamp, Flag, SignVerify, SignCreate, SubmitLoan, InsertLoan, At
<1>2. RowsAgree
  <2>1. CASE Stamp(r)
    BY <2>1 DEF Stamp, RowsAgree, Typed, Stored, Rows
  <2> QED BY <2>1, SameRows
          DEF Join, Decide, Flag, SignVerify, SignCreate, SubmitLoan, InsertLoan, rows
<1>3. NoNewFlag
  <2>1. CASE Join(r)
    BY <2>1 DEF Join, NoNewFlag, Typed, Stored
  <2>2. CASE Flag(r) /\ req[r].op # "verify"
    <3>1. NewFlag(r) = "PENDING"
      BY <1>1, <2>2, Held DEF Flag, NewFlag, At
    <3> QED BY <2>2, <3>1 DEF Flag, NoNewFlag, Typed, Stored
  <2> QED BY <2>1, <2>2, SameFlags
          DEF Decide, Stamp, SignVerify, SignCreate, SubmitLoan, InsertLoan, rows
<1>4. req[r].op = "verify" => ~At(r, "flag")
  BY DEF Join, Decide, Stamp, Flag, SignVerify, SignCreate, SubmitLoan, InsertLoan, At
<1>5. CASE Finish(r)
  BY <1>1, <1>2, <1>3, <1>4, <1>5, FinishCalm DEF At
<1>6. CASE ~Finish(r)
  <2>1. PICK pc : /\ Goto(r, pc)
                  /\ req[r].op = "verify" =>
                       /\ pc # "flag"
                       /\ At(r, "sign") \/ At(r, "read") => pc \in {"sign", "read"}
                  /\ pc = "delete" => req[r].op = "remove"
    <3>1. CASE Join(r)
      BY <1>6, <3>1 DEF Join, At
    <3>2. CASE Decide(r)
      <4>1. Goto(r, Granted(r)) /\ At(r, "decide")
        BY <1>6, <3>2 DEF Decide
      <4>2. /\ req[r].op = "verify" => Granted(r) # "flag"
            /\ Granted(r) = "delete" => req[r].op = "remove"
        BY SlotType DEF Granted, Ops
      <4> QED BY <4>1, <4>2 DEF At
    <3>3. CASE Stamp(r)
      BY <1>6, <3>3 DEF Stamp, At
    <3>4. CASE Flag(r) /\ req[r].op # "verify"
      BY <1>6, <3>4 DEF Flag, At
    <3>5. CASE SignVerify(r)
      BY <1>6, <3>5 DEF SignVerify, At
    <3>6. CASE SubmitLoan(r)
      BY <1>6, <3>6 DEF SubmitLoan, At
    <3> QED BY <1>6, <3>1, <3>2, <3>3, <3>4, <3>5, <3>6 DEF SignCreate, InsertLoan
  <2> QED BY <1>1, <1>2, <1>3, <1>4, <2>1, GotoCalm
<1> QED BY <1>5, <1>6

\* The second write of a verification: the borrower gets the status its KYC has.
LEMMA FlagCalm ==
  ASSUME Typed, Agreeing, NEW r \in Requests, Flag(r), req[r].op = "verify"
  PROVE  Agreeing'
<1>1. /\ calm' = calm /\ kyc' = kyc /\ ~At(r, "idle") /\ req[r].pc = "flag"
      /\ borrower' = [borrower EXCEPT ![req[r].user] = req[r].status]
      /\ req' = [req EXCEPT ![r] = Idle]
  BY DEF Flag, NewFlag, Finish, At
<1>2. SlotCalm(Idle, kyc')
  BY DEF SlotCalm, Idle
<1>3. calm => \A k \in Kycs : kyc'[k].row # "GONE"
  BY <1>1 DEF Agreeing
<1>4. ASSUME calm, NEW u \in Users, borrower'[u] = "VERIFIED" PROVE VerifiedIn(kyc', u)
  <2>1. CASE u = req[r].user
    <3>1. req[r].status = "VERIFIED"
      BY <1>1, <1>4, <2>1 DEF Typed, Stored
    <3>2. /\ req[r].k \in Kycs /\ OwnedIn(kyc, req[r].k, u)
          /\ kyc[req[r].k].status = "VERIFIED" /\ kyc[req[r].k].row # "GONE"
      BY <1>1, <1>4, <2>1, <3>1, Held DEF Agreeing, SlotCalm, At
    <3> QED BY <1>1, <3>2 DEF VerifiedIn, OwnedIn, Typed, Stored, Rows
  <2>2. CASE u # req[r].user
    <3>1. borrower[u] = "VERIFIED"
      BY <1>1, <1>4, <2>2 DEF Typed, Stored
    <3>2. ASSUME NEW b \in Requests PROVE ~Flagging(req[b], u)
      BY <1>1, <1>4, <2>2 DEF Agreeing, Flagging, At
    <3> QED BY <1>1, <1>4, <3>1, <3>2 DEF Agreeing
  <2> QED BY <2>1, <2>2
<1> QED BY <1>1, <1>2, <1>3, <1>4, CalmStep

LEMMA RecordCalm ==
  ASSUME Typed, Agreeing, NEW r \in Requests, RecordOnChain(r)
  PROVE  Agreeing'
<1>1. /\ kyc' = kyc /\ borrower' = borrower /\ (calm' => calm) /\ ~At(r, "idle")
      /\ req[r].pc = "record"
  BY DEF RecordOnChain, At
<1>2. CASE Finish(r)
  BY <1>1, <1>2, SameRows, SameFlags, FinishCalm
<1>3. CASE ~Finish(r)
  <2>1. PICK told \in BOOLEAN :
          LET hash == told \/ req[r].hash
              next == IF hash THEN With(r) ELSE Without(r)
          IN IF next = "idle" THEN Finish(r)
             ELSE req' = [req EXCEPT ![r].pc = next, ![r].hash = hash]
    BY DEF RecordOnChain
  <2> DEFINE hash == told \/ req[r].hash
             next == IF hash THEN With(r) ELSE Without(r)
             q == [req[r] EXCEPT !.pc = next, !.hash = hash]
  <2>2. req' = [req EXCEPT ![r] = q]
    BY <1>3, <2>1 DEF Typed, Slots
  <2>3. next \in {"stamp", "write", "idle"}
    BY DEF With, Without
  <2> HIDE DEF next, hash
  <2>4. q.op = req[r].op /\ q.user = req[r].user /\ q.k = req[r].k /\ q.pc = next
    BY SlotType DEF RequestRecords
  <2> HIDE DEF q
  <2> QED BY <1>1, <2>2, <2>3, <2>4, SameRows, SameFlags, SameCalm DEF At
<1> QED BY <1>2, <1>3

\* The row of a new KYC was free, so no borrower was VERIFIED because of it.
LEMMA InsertKycCalm ==
  ASSUME Typed, Agreeing, NEW r \in Requests, InsertKyc(r)
  PROVE  Agreeing'
<1> DEFINE k == Cardinality(Created) + 1
           q == [req[r] EXCEPT !.pc = "decide", !.k = k]
           row == NewRow(req[r].user)
<1>1. /\ calm' = calm /\ ~At(r, "idle") /\ borrower' = borrower
      /\ req' = [req EXCEPT ![r] = q] /\ kyc' = [kyc EXCEPT ![k] = row]
  BY DEF InsertKyc, Typed, Slots, At
<1>2. q.op = "create" /\ q.pc = "decide" /\ req[r].op = "create"
  <2>1. req[r].op = "create"
    BY Held DEF InsertKyc, At
  <2> QED BY <2>1, SlotType DEF RequestRecords
<1>3. k \notin Created
  <2>1. Cardinality(Created) \in Nat /\ Created = 1 .. Cardinality(Created)
    BY FS_CardinalityType DEF Typed, Room
  <2> QED BY <2>1
<1>r. row.row = "THERE"
  BY DEF NewRow
<1> HIDE DEF k, q, row
<1>4. SlotCalm(q, kyc')
  BY <1>2 DEF SlotCalm
<1>5. calm => \A j \in Kycs : kyc'[j].row # "GONE"
  BY <1>1, <1>r DEF Agreeing, Typed, Stored
<1>6. ASSUME calm, NEW u \in Users, borrower'[u] = "VERIFIED" PROVE VerifiedIn(kyc', u)
  <2>1. ASSUME NEW b \in Requests PROVE ~Flagging(req[b], u)
    BY <1>1, <1>2, <1>6 DEF Agreeing, Flagging, At
  <2>2. PICK j \in Kycs : kyc[j].row = "THERE" /\ kyc[j].owner = u /\ kyc[j].status = "VERIFIED"
    BY <1>1, <1>6, <2>1 DEF Agreeing, VerifiedIn
  <2>3. j # k /\ kyc'[j] = kyc[j]
    BY <1>1, <1>3, <2>2 DEF Created, Typed, Stored
  <2> QED BY <2>2, <2>3 DEF VerifiedIn
<1> QED BY <1>1, <1>4, <1>5, <1>6, CalmStep

\* In a calm history an update writes the owner that is there.
LEMMA WriteUpdateCalm ==
  ASSUME Typed, Agreeing, Settled, NEW r \in Requests, WriteUpdate(r)
  PROVE  Agreeing'
<1> DEFINE k == req[r].k
           s == UpdatedStatus(k)
           q == [req[r] EXCEPT !.pc = "decide", !.status = s]
<1>1. ~At(r, "idle") /\ req[r].op = "update" /\ calm' = calm /\ borrower' = borrower
  BY DEF WriteUpdate, At
<1>2. ASSUME calm PROVE RowsAgree
  <2>1. k \in Kycs /\ OwnedIn(kyc, k, req[r].user)
    BY <1>1, <1>2, Held DEF Settled, SlotSettled, At
  <2>2. kyc' = kyc \/ kyc' = [kyc EXCEPT ![k].owner = req[r].user]
    BY DEF WriteUpdate
  <2> QED BY <2>1, <2>2 DEF RowsAgree, OwnedIn, Typed, Stored, Rows
<1>3. CASE ~calm
  BY <1>1, <1>3 DEF Agreeing
<1>4. CASE calm /\ Finish(r)
  BY <1>1, <1>2, <1>4, SameFlags, FinishCalm
<1>5. CASE calm /\ req' = [req EXCEPT ![r].pc = "decide", ![r].status = UpdatedStatus(k)]
  <2>1. req' = [req EXCEPT ![r] = q]
    BY <1>5 DEF Typed, Slots
  <2>2. q.op = req[r].op /\ q.user = req[r].user /\ q.k = req[r].k /\ q.pc = "decide"
    BY SlotType DEF RequestRecords
  <2> HIDE DEF q
  <2> QED BY <1>1, <1>2, <1>5, <2>1, <2>2, SameFlags, SameCalm
<1> QED BY <1>3, <1>4, <1>5 DEF WriteUpdate

\* The first write of a verification: only its own borrower may disagree now.
LEMMA WriteVerifyCalm ==
  ASSUME Typed, Agreeing, NEW r \in Requests, WriteVerify(r)
  PROVE  Agreeing'
<1> DEFINE k == req[r].k
           q == [req[r] EXCEPT !.pc = "flag", !.user = req[r].user]
<1>1. /\ ~At(r, "idle") /\ req[r].op = "verify" /\ req[r].pc = "write" /\ calm' = calm
      /\ borrower' = borrower
  BY DEF WriteVerify, At
<1>2. CASE ~There(k)
  BY <1>1, <1>2, SameRows, SameFlags, FinishCalm DEF WriteVerify
<1>3. CASE There(k)
  <2>1. /\ req' = [req EXCEPT ![r] = q]
        /\ kyc' = [kyc EXCEPT ![k].status = req[r].status, ![k].hash = req[r].hash]
    BY <1>3 DEF WriteVerify, FlaggedUser, Typed, Slots
  <2>2. /\ q.op = "verify" /\ q.user = req[r].user /\ q.k = k /\ q.pc = "flag"
        /\ q.status = req[r].status
    BY <1>1, SlotType DEF RequestRecords
  <2>3. /\ k \in Kycs
        /\ \A j \in Kycs : kyc'[j].row = kyc[j].row /\ kyc'[j].owner = kyc[j].owner
        /\ kyc'[k].status = req[r].status
        /\ \A j \in Kycs \ {k} : kyc'[j].status = kyc[j].status
    BY <1>3, <2>1 DEF There, Typed, Stored, Rows
  <2>4. calm => OwnedIn(kyc, k, req[r].user)
    BY <1>1 DEF Agreeing, SlotCalm
  <2> HIDE DEF q, k
  <2>5. calm => SlotCalm(q, kyc')
    BY <2>2, <2>3, <2>4 DEF SlotCalm, OwnedIn
  <2>6. calm => \A j \in Kycs : kyc'[j].row # "GONE"
    BY <2>3 DEF Agreeing
  <2>7. ASSUME calm, NEW u \in Users, borrower'[u] = "VERIFIED"
        PROVE  VerifiedIn(kyc', u) \/ Flagging(q, u)
    <3>1. ASSUME NEW b \in Requests PROVE ~Flagging(req[b], u)
      BY <1>1, <2>7 DEF Agreeing, Flagging, At
    <3>2. PICK j \in Kycs :
            kyc[j].row = "THERE" /\ kyc[j].owner = u /\ kyc[j].status = "VERIFIED"
      BY <1>1, <2>7, <3>1 DEF Agreeing, VerifiedIn
    <3>3. CASE j # k
      BY <2>3, <3>2, <3>3 DEF VerifiedIn
    <3>4. CASE j = k
      BY <2>2, <2>4, <2>7, <3>2, <3>4 DEF Flagging, OwnedIn
    <3> QED BY <3>3, <3>4
  <2> QED BY <1>1, <2>1, <2>5, <2>6, <2>7, CalmStep
<1> QED BY <1>2, <1>3

LEMMA ReadVerifyCalm ==
  ASSUME Typed, Agreeing, NEW r \in Requests, ReadVerify(r)
  PROVE  Agreeing'
<1> DEFINE k == req[r].k
           q == ReadForVerify(k, "VERIFIED", "USER")
<1>1. /\ kyc' = kyc /\ borrower' = borrower /\ calm' = calm /\ ~At(r, "idle")
      /\ req[r].pc = "read"
  BY DEF ReadVerify, rows, At
<1>2. CASE Finish(r)
  BY <1>1, <1>2, SameRows, SameFlags, FinishCalm
<1>3. CASE There(k) /\ req' = [req EXCEPT ![r] = q]
  <2>1. k \in Kycs /\ "VERIFIED" \in Statuses /\ "USER" \in Payers
    BY <1>3 DEF There, Statuses, Decisions, Payers
  <2>2. q.op = "verify" /\ q.pc \in {"decide", "write"} /\ q.k = k /\ q.user = kyc[k].owner
    BY <1>3, <2>1, ReadForVerifyOK
  <2> HIDE DEF q
  <2>3. SlotCalm(q, kyc')
    BY <1>1, <1>3, <2>2 DEF SlotCalm, OwnedIn, There
  <2> QED BY <1>1, <1>3, <2>3, SameRows, SameFlags, KeptCalm
<1> QED BY <1>2, <1>3 DEF ReadVerify

LEMMA InitCalm == Init => Agreeing
BY DEF Init, Agreeing, SlotCalm, Idle, At, FreeRow, None

LEMMA NextCalm == Typed /\ Settled /\ Agreeing /\ [Next]_vars => Agreeing'
<1> SUFFICES ASSUME Typed, Settled, Agreeing, [Next]_vars PROVE Agreeing'
  OBVIOUS
<1>1. CASE UNCHANGED vars
  BY <1>1 DEF vars, rows, Agreeing, SlotCalm, OwnedIn, VerifiedIn, Flagging, At
<1>2. ASSUME NEW r \in Requests, KycBegin(r) \/ BeginConsoleVerify(r) \/ BeginApply(r)
      PROVE  Agreeing'
  BY <1>2, CallsCalm
<1>3. ASSUME NEW r \in Requests, Crash(r) PROVE Agreeing'
  BY <1>3 DEF Crash, Agreeing
<1>4. ASSUME NEW r \in Requests, Delete(r) PROVE Agreeing'
  BY <1>4 DEF Delete, Agreeing, SlotCalm, At
<1>5. ASSUME NEW r \in Requests, KycStep(r) PROVE Agreeing'
  BY <1>4, <1>5, QuietCalm, FlagCalm, RecordCalm, InsertKycCalm, WriteUpdateCalm,
     WriteVerifyCalm DEF KycStep
<1>6. ASSUME NEW r \in Requests,
             SignVerify(r) \/ ReadVerify(r) \/ SignCreate(r) \/ SubmitLoan(r) \/ InsertLoan(r)
      PROVE  Agreeing'
  BY <1>6, QuietCalm, ReadVerifyCalm
<1>7. ASSUME Elsewhere PROVE Agreeing'
  BY <1>7 DEF Elsewhere, rows, Agreeing, SlotCalm, OwnedIn, VerifiedIn, Flagging, At
<1> QED BY <1>1, <1>2, <1>3, <1>5, <1>6, <1>7, LoanSteps DEF Next, Step

\* As long as handlers run one at a time, none dies and no KYC is moved or
\* removed, a borrower flagged VERIFIED has a VERIFIED KYC, except between the
\* two writes of a verification (kyc.service.ts verify): for any number of
\* users, KYCs and handlers.
THEOREM StatusAgreesHolds == Spec => []StatusAgrees
<1>1. Agreeing => StatusAgrees
  <2> SUFFICES ASSUME Agreeing, calm, \A r \in Requests : ~At(r, "flag"),
                      NEW u \in Users, borrower[u] = "VERIFIED"
               PROVE  \E k \in Mine(u) : kyc[k].status = "VERIFIED"
    BY DEF StatusAgrees
  <2>1. VerifiedIn(kyc, u)
    BY DEF Agreeing, Flagging, At
  <2> QED BY <2>1 DEF VerifiedIn, Mine, There
<1> QED BY <1>1, AlwaysTyped, AlwaysSettled, InitCalm, NextCalm, PTL DEF Spec
=============================================================================
