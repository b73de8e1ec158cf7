--------------------------- MODULE RepaymentsProofs ---------------------------
(***************************************************************************)
(* For any number of handlers, payments, installments and amounts, with    *)
(* crashes and without: every transaction of the contract is in its        *)
(* balance once, the installments never show more than the balance does, a *)
(* payment is recorded no more often than handlers overlap, and who was    *)
(* told that a payment is complete finds it accounted for.                 *)
(***************************************************************************)
EXTENDS Repayments, Sums

-----------------------------------------------------------------------------
(* Types.                                                                  *)

RequestRecords ==
  [uuid: Uuids \union {NoUuid}, linked: BOOLEAN, pc: PCs, seen: Nat]
RowRecords ==
  [uuid: Uuids \union {NoUuid}, linked: BOOLEAN, status: RowStatuses \union {"NONE"}]
InstallmentRecords == [paid: Nat, status: InstallmentStatuses]

\* A handler that runs has a payment; one on its way to the balance or to the
\* schedule has a contract, and a payment of one installment at most.
OfOneInstallment(u) == \A s, t \in Selection[u] : s = t
Running(q) ==
  /\ q.pc # "idle" => q.uuid \in Uuids
  /\ q.pc \in {"balance", "schedule", "write"} => q.linked /\ OfOneInstallment(q.uuid)

\* A row in use has a payment, and one of a contract is in use.
InUse(w) ==
  /\ w.status # "NONE" <=> w.uuid \in Uuids
  /\ w.linked => w.status # "NONE"

SlotOK(q) == q \in RequestRecords /\ Running(q)
RowOK(w) == w \in RowRecords /\ InUse(w)

Slots == req \in [Requests -> RequestRecords] /\ \A r \in Requests : Running(req[r])
Rows  == rows \in [RowIds -> RowRecords] /\ \A i \in RowIds : InUse(rows[i])
Money ==
  /\ balance \in [open: BOOLEAN, paid: Nat, outstanding: Int]
  /\ sched \in [Schedules -> InstallmentRecords]
Past == gateway \subseteq Uuids /\ lost \in Nat /\ told \subseteq Uuids

Typed == Slots /\ Rows /\ Money /\ Past

LEMMA TypedIsTypeOK == Typed => TypeOK
BY DEF Typed, Slots, Rows, Money, Past, TypeOK, RequestRecords, RowRecords,
   InstallmentRecords

LEMMA SlotType ==
  ASSUME Slots, NEW r \in Requests
  PROVE  /\ req[r] \in RequestRecords /\ Running(req[r])
         /\ req[r].uuid \in Uuids \union {NoUuid} /\ req[r].linked \in BOOLEAN
         /\ req[r].pc \in PCs /\ req[r].seen \in Nat
BY DEF Slots, RequestRecords

LEMMA RowType ==
  ASSUME Rows, NEW i \in RowIds
  PROVE  /\ rows[i] \in RowRecords /\ InUse(rows[i])
         /\ rows[i].uuid \in Uuids \union {NoUuid} /\ rows[i].linked \in BOOLEAN
         /\ rows[i].status \in RowStatuses \union {"NONE"}
BY DEF Rows, RowRecords

LEMMA IdleOK == SlotOK(Idle)
BY DEF SlotOK, Idle, RequestRecords, Running, PCs

LEMMA NoRowOK == RowOK(NoRow)
BY RepaymentAssumption DEF RowOK, NoRow, RowRecords, InUse

LEMMA AmountType ==
  ASSUME NEW u \in Uuids
  PROVE  /\ Amount[u] \in Nat \ {0} /\ Selection[u] \in SUBSET Schedules
         /\ IsFiniteSet(Selection[u])
BY RepaymentAssumption, FS_Subset

\* A step writes a good record into one slot, or into one row.
LEMMA SlotStep ==
  ASSUME Slots, NEW r \in Requests, NEW q, SlotOK(q), req' = [req EXCEPT ![r] = q]
  PROVE  Slots'
BY DEF Slots, SlotOK

LEMMA FinishStep ==
  ASSUME Slots, NEW r \in Requests, Finish(r) PROVE Slots'
BY IdleOK, SlotStep DEF Finish

\* Where a handler may go without a further look at its payment.
LEMMA GotoStep ==
  ASSUME Slots, NEW r \in Requests, NEW pc \in PCs, Goto(r, pc), ~At(r, "idle"),
         \/ pc \in {"create", "answer"}
         \/ req[r].pc \in {"balance", "schedule", "write"}
         \/ req[r].linked /\ OfOneInstallment(req[r].uuid)
  PROVE  Slots'
<1> DEFINE q == [req[r] EXCEPT !.pc = pc]
<1>1. /\ q \in RequestRecords /\ q.pc = pc
      /\ q.uuid = req[r].uuid /\ q.linked = req[r].linked
  BY SlotType DEF RequestRecords
<1>2. req' = [req EXCEPT ![r] = q]
  BY DEF Goto, Slots
<1> HIDE DEF q
<1>3. SlotOK(q)
  BY <1>1, SlotType DEF SlotOK, Running, At
<1> QED BY <1>2, <1>3, SlotStep

LEMMA RowStep ==
  ASSUME Rows, NEW i \in RowIds, NEW w, RowOK(w), rows' = [rows EXCEPT ![i] = w]
  PROVE  Rows'
BY DEF Rows, RowOK

LEMMA StatusStep ==
  ASSUME Rows, NEW i \in RowIds, NEW status \in RowStatuses, rows[i].status # "NONE",
         rows' = [rows EXCEPT ![i].status = status]
  PROVE  Rows'
<1> DEFINE w == [rows[i] EXCEPT !.status = status]
<1>1. w \in RowRecords /\ w.status = status /\ w.uuid = rows[i].uuid
  BY RowType DEF RowRecords
<1>2. rows' = [rows EXCEPT ![i] = w]
  BY DEF Rows
<1>3. status # "NONE"
  BY DEF RowStatuses
<1> HIDE DEF w
<1>4. RowOK(w)
  BY <1>1, <1>3, RowType DEF RowOK, InUse
<1> QED BY <1>2, <1>4, RowStep

LEMMA FreeRow ==
  ASSUME FreeRows # {} PROVE Min(FreeRows) \in FreeRows
<1>1. FreeRows \subseteq Nat
  BY RepaymentAssumption DEF FreeRows, RowIds
<1> QED BY <1>1, LeastNumber DEF Min

LEMMA AtMostOne ==
  ASSUME NEW S, IsFiniteSet(S), Cardinality(S) <= 1, NEW s \in S, NEW t \in S
  PROVE  s = t
<1> SUFFICES ASSUME s # t PROVE FALSE
  OBVIOUS
<1>1. /\ Cardinality(S \ {s}) = Cardinality(S) - 1
      /\ Cardinality(S \ {s}) \in Nat /\ IsFiniteSet(S \ {s})
  BY TakenIsSmaller
<1>2. Cardinality(S \ {s}) = 0
  BY <1>1, FS_CardinalityType
<1>3. S \ {s} = {}
  BY <1>1, <1>2, FS_EmptySet
<1> QED BY <1>3

-----------------------------------------------------------------------------
(* The sums of the contract: the amounts of the payments that the handlers *)
(* or the rows of a set hold.                                              *)

AmountsOver(q, S) == MapThenSumSet(LAMBDA x : Amount[q[x].uuid], S)

Valued(q, S) == IsFiniteSet(S) /\ \A x \in S : q[x].uuid \in Uuids

\* The sum is over a function, so that what is known of SumOver applies.
LEMMA AmountsAreSum ==
  ASSUME NEW q, NEW S
  PROVE  AmountsOver(q, S) = SumOver([x \in S |-> Amount[q[x].uuid]], S)
<1> DEFINE f == [x \in S |-> Amount[q[x].uuid]]
           A(g) == g = [s \in SUBSET S |-> IF s = {} THEN 0
                          ELSE Amount[q[Pick(s)].uuid] + g[s \ {Pick(s)}]]
           B(g) == g = [s \in SUBSET S |-> IF s = {} THEN 0
                          ELSE f[Pick(s)] + g[s \ {Pick(s)}]]
<1>1. \A s \in SUBSET S : s # {} => f[Pick(s)] = Amount[q[Pick(s)].uuid]
  BY PickIsElement
<1> HIDE DEF f
<1>2. ASSUME NEW g PROVE A(g) <=> B(g)
  <2>1. \A s \in SUBSET S :
          (IF s = {} THEN 0 ELSE Amount[q[Pick(s)].uuid] + g[s \ {Pick(s)}])
            = (IF s = {} THEN 0 ELSE f[Pick(s)] + g[s \ {Pick(s)}])
    BY <1>1
  <2> QED BY <2>1
<1> HIDE DEF A, B
<1>3. (CHOOSE g : A(g))[S] = (CHOOSE g : B(g))[S]
  <2>1. (CHOOSE g : A(g)) = (CHOOSE g : B(g))
    BY <1>2
  <2> QED BY <2>1
<1> QED BY <1>3 DEF A, B, f, AmountsOver, SumOver, MapThenSumSet, MapThenFoldSet, Pick

LEMMA ValuedAmounts ==
  ASSUME NEW q, NEW S, Valued(q, S)
  PROVE  /\ Nats([x \in S |-> Amount[q[x].uuid]], S)
         /\ Ints([x \in S |-> Amount[q[x].uuid]], S)
BY AmountType DEF Valued, Nats, Ints

LEMMA AmountsAreNat ==
  ASSUME NEW q, NEW S, Valued(q, S) PROVE AmountsOver(q, S) \in Nat
BY AmountsAreSum, ValuedAmounts, SumIsNat DEF Valued

LEMMA AmountsOfSame ==
  ASSUME NEW q, NEW S, Valued(q, S), NEW k, \A x \in S : k[x].uuid = q[x].uuid
  PROVE  AmountsOver(k, S) = AmountsOver(q, S)
<1> DEFINE f == [x \in S |-> Amount[q[x].uuid]]
           g == [x \in S |-> Amount[k[x].uuid]]
<1>1. \A x \in S : f[x] = g[x]
  OBVIOUS
<1>2. AmountsOver(q, S) = SumOver(f, S) /\ AmountsOver(k, S) = SumOver(g, S)
  BY AmountsAreSum
<1> HIDE DEF f, g
<1> QED BY <1>1, <1>2, SumOfSame DEF Valued

LEMMA AmountsAdd ==
  ASSUME NEW q, NEW S, NEW x, x \notin S, Valued(q, S \union {x})
  PROVE  AmountsOver(q, S \union {x}) = AmountsOver(q, S) + Amount[q[x].uuid]
<1> DEFINE T == S \union {x}
           f == [y \in T |-> Amount[q[y].uuid]]
           g == [y \in S |-> Amount[q[y].uuid]]
<1>1. AmountsOver(q, T) = SumOver(f, T) /\ AmountsOver(q, S) = SumOver(g, S)
  BY AmountsAreSum
<1>2. \A y \in S : f[y] = g[y]
  OBVIOUS
<1>3. f[x] = Amount[q[x].uuid] /\ Amount[q[x].uuid] \in Nat
  BY AmountType DEF Valued
<1>4. IsFiniteSet(S) /\ Ints(f, T)
  BY FS_Subset, ValuedAmounts DEF Valued
<1> HIDE DEF f, g
<1>5. SumOver(f, S) = SumOver(g, S)
  BY <1>2, <1>4, SumOfSame
<1>6. SumOver(f, T) = f[x] + SumOver(f, S)
  BY <1>4, SumAdds
<1>7. SumOver(f, S) \in Int
  BY <1>4, SumIsInt DEF Ints
<1> QED BY <1>1, <1>3, <1>5, <1>6, <1>7

-----------------------------------------------------------------------------
(* The handlers on their way to the balance, and the rows of the contract. *)

Waiting == {r \in Requests : At(r, "balance")}

LEMMA PendingIsSum ==
  /\ Pending = AmountsOver(req, Waiting)
  /\ Pending' = AmountsOver(req', Waiting')
<1>1. Pending = AmountsOver(req, Waiting)
  BY DEF Pending, AmountsOver, Waiting, At
<1>2. Pending' = AmountsOver(req', Waiting')
  BY DEF Pending, AmountsOver, Waiting, At, MapThenSumSet, MapThenFoldSet
<1> QED BY <1>1, <1>2

LEMMA WaitingType ==
  ASSUME Slots PROVE Valued(req, Waiting) /\ Pending \in Nat
<1>1. Valued(req, Waiting)
  BY RepaymentAssumption, FS_Subset, SlotType DEF Valued, Waiting, Running, At
<1> QED BY <1>1, PendingIsSum, AmountsAreNat

LEMMA WaitingNext ==
  ASSUME Slots' PROVE Valued(req', Waiting') /\ Pending' \in Nat
<1>1. \A x \in Waiting' : req'[x].uuid \in Uuids
  BY DEF Slots, Waiting, Running, At
<1>2. IsFiniteSet(Waiting')
  BY RepaymentAssumption, FS_Subset DEF Waiting
<1> QED BY <1>1, <1>2, PendingIsSum, AmountsAreNat DEF Valued

\* The amount due does not change with the state.
LEMMA TotalStays == TotalDue' = TotalDue
BY DEF TotalDue, MapThenSumSet, MapThenFoldSet

\* What one handler does to the money on its way.
LEMMA PendingMoves ==
  ASSUME Slots, NEW r \in Requests, NEW q, SlotOK(q), req' = [req EXCEPT ![r] = q]
  PROVE  /\ (req[r].pc = "balance" <=> q.pc = "balance") /\ q.uuid = req[r].uuid
              => Pending' = Pending
         /\ req[r].pc # "balance" /\ q.pc # "balance" => Pending' = Pending
         /\ req[r].pc # "balance" /\ q.pc = "balance" => Pending' = Pending + Amount[q.uuid]
         /\ req[r].pc = "balance" /\ q.pc # "balance"
              => Pending = Pending' + Amount[req[r].uuid]
<1>1. \A x \in Requests : req'[x] = IF x = r THEN q ELSE req[x]
  BY DEF Slots
<1>2. Valued(req, Waiting) /\ Valued(req', Waiting')
  <2>1. Valued(req, Waiting)
    BY WaitingType
  <2>2. \A x \in Waiting' : req'[x].uuid \in Uuids
    BY <1>1, SlotType DEF Waiting, At, SlotOK, Running
  <2>3. IsFiniteSet(Waiting')
    BY RepaymentAssumption, FS_Subset DEF Waiting
  <2> QED BY <2>1, <2>2, <2>3 DEF Valued
<1>3. ASSUME (req[r].pc = "balance" <=> q.pc = "balance"),
             q.uuid = req[r].uuid \/ q.pc # "balance"
      PROVE  Pending' = Pending
  <2>1. Waiting' = Waiting
    BY <1>1, <1>3 DEF Waiting, At
  <2>2. \A x \in Waiting : req'[x].uuid = req[x].uuid
    BY <1>1, <1>3 DEF Waiting, At
  <2> QED BY <1>2, <2>1, <2>2, PendingIsSum, AmountsOfSame
<1>4. ASSUME req[r].pc # "balance", q.pc = "balance"
      PROVE  Pending' = Pending + Amount[q.uuid]
  <2>1. Waiting' = Waiting \union {r} /\ r \notin Waiting
    BY <1>1, <1>4 DEF Waiting, At
  <2>2. \A x \in Waiting : req'[x].uuid = req[x].uuid
    BY <1>1, <2>1 DEF Waiting
  <2>3. AmountsOver(req', Waiting') = AmountsOver(req', Waiting) + Amount[req'[r].uuid]
    BY <1>2, <2>1, AmountsAdd
  <2>4. AmountsOver(req', Waiting) = AmountsOver(req, Waiting)
    BY <1>2, <2>2, AmountsOfSame
  <2> QED BY <1>1, <2>3, <2>4, PendingIsSum
<1>5. ASSUME req[r].pc = "balance", q.pc # "balance"
      PROVE  Pending = Pending' + Amount[req[r].uuid]
  <2>1. Waiting = Waiting' \union {r} /\ r \notin Waiting'
    BY <1>1, <1>5 DEF Waiting, At
  <2>2. \A x \in Waiting' : req[x].uuid = req'[x].uuid
    BY <1>1, <2>1 DEF Waiting
  <2>3. AmountsOver(req, Waiting) = AmountsOver(req, Waiting') + Amount[req[r].uuid]
    BY <1>2, <2>1, AmountsAdd
  <2>4. AmountsOver(req, Waiting') = AmountsOver(req', Waiting')
    BY <1>2, <2>2, AmountsOfSame
  <2> QED BY <2>3, <2>4, PendingIsSum
<1> QED BY <1>3, <1>4, <1>5

LEMMA RecordedIsSum ==
  /\ SumOfRows(Recorded) = AmountsOver(rows, Recorded)
  /\ SumOfRows(Recorded)' = AmountsOver(rows', Recorded')
<1>1. SumOfRows(Recorded) = AmountsOver(rows, Recorded)
  BY DEF SumOfRows, AmountsOver
<1>2. SumOfRows(Recorded)' = AmountsOver(rows', Recorded')
  BY DEF SumOfRows, AmountsOver, MapThenSumSet, MapThenFoldSet
<1> QED BY <1>1, <1>2

LEMMA RecordedType ==
  ASSUME Rows PROVE Valued(rows, Recorded) /\ SumOfRows(Recorded) \in Nat
<1>1. IsFiniteSet(Recorded)
  BY RepaymentAssumption, FS_Interval, FS_Subset DEF Recorded, RowIds
<1>2. Valued(rows, Recorded)
  BY <1>1, RowType DEF Valued, Recorded, InUse
<1> QED BY <1>2, RecordedIsSum, AmountsAreNat

\* Rows whose payments stay, and a row that is taken into use.
LEMMA RecordedStays ==
  ASSUME Rows, \A i \in RowIds : /\ rows'[i].uuid = rows[i].uuid
                                 /\ rows'[i].linked = rows[i].linked
  PROVE  SumOfRows(Recorded)' = SumOfRows(Recorded)
<1>1. Recorded' = Recorded
  BY DEF Recorded
<1>2. \A i \in Recorded : rows'[i].uuid = rows[i].uuid
  BY DEF Recorded
<1> QED BY <1>1, <1>2, RecordedIsSum, RecordedType, AmountsOfSame

LEMMA RecordedGrows ==
  ASSUME Rows, NEW i \in RowIds, rows[i].status = "NONE", NEW w, RowOK(w),
         rows' = [rows EXCEPT ![i] = w]
  PROVE  SumOfRows(Recorded)' = IF w.linked THEN SumOfRows(Recorded) + Amount[w.uuid]
                                ELSE SumOfRows(Recorded)
<1>1. \A x \in RowIds : rows'[x] = IF x = i THEN w ELSE rows[x]
  BY DEF Rows
<1>2. i \notin Recorded
  BY RowType DEF Recorded, InUse
<1>3. \A x \in Recorded : rows'[x].uuid = rows[x].uuid
  BY <1>1, <1>2 DEF Recorded
<1>4. AmountsOver(rows', Recorded) = AmountsOver(rows, Recorded)
  BY <1>3, RecordedType, AmountsOfSame
<1>5. CASE ~w.linked
  <2>1. Recorded' = Recorded
    BY <1>1, <1>2, <1>5 DEF Recorded
  <2> QED BY <1>4, <1>5, <2>1, RecordedIsSum
<1>6. CASE w.linked
  <2>1. Recorded' = Recorded \union {i}
    BY <1>1, <1>2, <1>6 DEF Recorded
  <2>2. Valued(rows', Recorded \union {i})
    <3>1. IsFiniteSet(Recorded \union {i})
      BY RecordedType, FS_AddElement DEF Valued
    <3>2. \A x \in Recorded \union {i} : rows'[x].uuid \in Uuids
      BY <1>1, <1>3, <1>6, RecordedType DEF Valued, RowOK, InUse
    <3> QED BY <3>1, <3>2 DEF Valued
  <2>3. AmountsOver(rows', Recorded \union {i})
          = AmountsOver(rows', Recorded) + Amount[rows'[i].uuid]
    BY <1>2, <2>2, AmountsAdd
  <2> QED BY <1>1, <1>4, <1>6, <2>1, <2>3, RecordedIsSum
<1> QED BY <1>5, <1>6

-----------------------------------------------------------------------------
(* Every step keeps the types.                                             *)

LEMMA InitTyped == Init => Typed
<1> SUFFICES ASSUME Init PROVE Typed
  OBVIOUS
<1>1. TotalDue = SumOver(Due, Schedules)
  BY DEF TotalDue, SumOver
<1>2. TotalDue \in Nat
  BY <1>1, SumIsNat, RepaymentAssumption DEF Nats
<1>3. Slots
  BY IdleOK DEF Init, Slots, SlotOK
<1>4. Rows
  BY NoRowOK DEF Init, Rows, RowOK
<1>5. Money
  BY <1>2 DEF Init, Money, InstallmentRecords, InstallmentStatuses
<1> QED BY <1>3, <1>4, <1>5 DEF Init, Typed, Past

LEMMA VerifyTyped ==
  ASSUME Typed, NEW r \in Requests, NEW u \in Uuids, NEW linked \in BOOLEAN,
         Verify(r, u, linked)
  PROVE  Typed'
<1>1. SlotOK([uuid |-> u, linked |-> linked, pc |-> "lookUp", seen |-> 0])
  BY DEF SlotOK, RequestRecords, Running, PCs
<1>2. Slots'
  BY <1>1, SlotStep DEF Verify, Typed
<1> QED BY <1>2 DEF Verify, Typed, Rows, Money, Past

LEMMA RecordTyped ==
  ASSUME Typed, NEW r \in Requests,
         LookUp(r) \/ Deny(r) \/ RecordPayment(r) \/ RecordFails(r)
  PROVE  Typed'
<1>1. CASE LookUp(r)
  <2>1. Slots'
    BY <1>1, GotoStep DEF LookUp, AfterLookUp, At, PCs, Typed
  <2> QED BY <1>1, <2>1 DEF LookUp, Typed, Rows, Money, Past
<1>2. CASE Deny(r) \/ RecordFails(r)
  <2>1. Slots'
    BY <1>2, FinishStep DEF Deny, RecordFails, Typed
  <2> QED BY <1>2, <2>1 DEF Deny, RecordFails, Typed, Rows, Money, Past
<1>3. CASE RecordPayment(r)
  <2> DEFINE w == [uuid |-> req[r].uuid, linked |-> req[r].linked, status |-> "COMPLETED"]
  <2>1. req[r].uuid \in Uuids /\ At(r, "create")
    BY <1>3, SlotType DEF RecordPayment, At, Running, Typed
  <2>2. RowOK(w)
    BY <2>1, SlotType DEF RowOK, RowRecords, InUse, RowStatuses, Typed
  <2>3. Min(FreeRows) \in RowIds
    BY <1>3, FreeRow DEF RecordPayment, FreeRows
  <2>4. Rows'
    <3>1. rows' = [rows EXCEPT ![Min(FreeRows)] = w]
      BY <1>3 DEF RecordPayment
    <3> HIDE DEF w
    <3> QED BY <2>2, <2>3, <3>1, RowStep DEF Typed
  <2>5. req[r].linked => OfOneInstallment(req[r].uuid)
    <3>1. ASSUME req[r].linked, NEW s \in Selection[req[r].uuid],
                 NEW t \in Selection[req[r].uuid]
          PROVE  s = t
      BY <1>3, <2>1, <3>1, AmountType, AtMostOne DEF RecordPayment, ForeignKeysHold
    <3> QED BY <3>1 DEF OfOneInstallment
  <2>6. Slots'
    <3>1. CASE req[r].linked
      <4>1. Goto(r, "balance")
        BY <1>3, <3>1 DEF RecordPayment, AfterRecord
      <4> QED BY <2>1, <2>5, <3>1, <4>1, GotoStep DEF At, PCs, Typed
    <3>2. CASE ~req[r].linked
      <4>1. Goto(r, "answer")
        BY <1>3, <3>2 DEF RecordPayment
      <4> QED BY <2>1, <4>1, GotoStep DEF At, PCs, Typed
    <3> QED BY <3>1, <3>2
  <2> QED BY <1>3, <2>4, <2>6 DEF RecordPayment, Typed, Money, Past
<1> QED BY <1>1, <1>2, <1>3

LEMMA BalanceTyped ==
  ASSUME Typed, NEW r \in Requests, ApplyToBalance(r)
  PROVE  Typed'
<1>1. req[r].uuid \in Uuids /\ req[r].pc = "balance"
  BY SlotType DEF ApplyToBalance, At, Running, Typed
<1>2. Slots'
  BY <1>1, GotoStep, FinishStep DEF ApplyToBalance, At, PCs, Typed
<1>3. Money'
  <2>1. PICK amount \in Nat :
          \/ balance' = [balance EXCEPT !.paid = @ + amount, !.outstanding = @ - amount]
          \/ balance' = balance
    BY <1>1, AmountType DEF ApplyToBalance
  <2> DEFINE p == balance.paid + amount
             o == balance.outstanding - amount
  <2>2. p \in Nat /\ o \in Int
    BY DEF Typed, Money
  <2>3. balance' = balance \/ balance' = [balance EXCEPT !.paid = p, !.outstanding = o]
    BY <2>1
  <2> HIDE DEF p, o
  <2>4. balance' \in [open: BOOLEAN, paid: Nat, outstanding: Int]
    BY <2>2, <2>3 DEF Typed, Money
  <2> QED BY <2>4 DEF ApplyToBalance, Typed, Money
<1> QED BY <1>2, <1>3 DEF ApplyToBalance, Typed, Rows, Past

LEMMA ScheduleTyped ==
  ASSUME Typed, NEW r \in Requests, ReadSchedule(r) \/ WriteSchedule(r)
  PROVE  Typed'
<1>1. req[r].uuid \in Uuids /\ req[r].pc \in {"schedule", "write"}
  BY SlotType DEF ReadSchedule, WriteSchedule, At, Running, Typed
<1>2. Selection[req[r].uuid] \subseteq Schedules /\ Amount[req[r].uuid] \in Nat
  BY <1>1, AmountType
<1>3. CASE ReadSchedule(r)
  <2>1. ASSUME NEW s \in Schedules,
               req' = [req EXCEPT ![r].pc = "write", ![r].seen = sched[s].paid]
        PROVE  Slots'
    <3> DEFINE q == [req[r] EXCEPT !.pc = "write", !.seen = sched[s].paid]
    <3>1. sched[s].paid \in Nat
      BY DEF Typed, Money, InstallmentRecords
    <3>2. SlotOK(q)
      BY <1>1, <3>1, SlotType DEF SlotOK, RequestRecords, Running, PCs, Typed
    <3> QED BY <2>1, <3>2, SlotStep DEF Typed, Slots
  <2>2. Slots'
    BY <1>1, <1>2, <1>3, <2>1, GotoStep DEF ReadSchedule, At, PCs, Typed
  <2> QED BY <1>3, <2>2 DEF ReadSchedule, Typed, Rows, Money, Past
<1>4. CASE WriteSchedule(r)
  <2>1. Slots'
    BY <1>1, <1>4, GotoStep, FinishStep DEF WriteSchedule, At, PCs, Typed
  <2>2. PICK s \in Selection[req[r].uuid] :
          \/ UNCHANGED sched
          \/ /\ Storable(NewInstallment(r, s).status)
             /\ sched' = [sched EXCEPT ![s] = NewInstallment(r, s)]
    BY <1>4 DEF WriteSchedule
  <2>3. Storable(NewInstallment(r, s).status) => NewInstallment(r, s) \in InstallmentRecords
    BY <1>2, SlotType DEF NewInstallment, Storable, InstallmentRecords, Typed
  <2>4. sched' \in [Schedules -> InstallmentRecords]
    BY <1>2, <2>2, <2>3 DEF Typed, Money
  <2> QED BY <1>4, <2>1, <2>4 DEF WriteSchedule, Typed, Rows, Money, Past
<1> QED BY <1>3, <1>4

LEMMA AnswerTyped ==
  ASSUME Typed, NEW r \in Requests, Answer(r)
  PROVE  Typed'
<1>1. req[r].uuid \in Uuids
  BY SlotType DEF Answer, At, Running, Typed
<1>2. Slots'
  BY FinishStep DEF Answer, Typed
<1> QED BY <1>1, <1>2 DEF Answer, Typed, Rows, Money, Past

LEMMA StatusTyped ==
  ASSUME Typed,
         \/ \E u \in Uuids : Webhook(u)
         \/ \E i \in RowIds, status \in SetStatuses : UpdateStatus(i, status)
  PROVE  Typed'
<1>1. PICK i \in RowIds, status \in RowStatuses :
        /\ rows[i].status # "NONE"
        /\ rows' = [rows EXCEPT ![i].status = status]
  BY RepaymentAssumption DEF Webhook, UpdateStatus, Found, RowStatuses
<1>2. Rows'
  BY <1>1, StatusStep DEF Typed
<1> QED BY <1>2 DEF Webhook, UpdateStatus, Typed, Slots, Money, Past

LEMMA RemoveTyped ==
  ASSUME Typed, RemoveLoan PROVE Typed'
<1>1. Rows'
  BY NoRowOK DEF RemoveLoan, Typed, Rows, RowOK
<1>2. Money'
  BY DEF RemoveLoan, Money, InstallmentRecords, InstallmentStatuses
<1> QED BY <1>1, <1>2 DEF RemoveLoan, Typed, Slots, Past

LEMMA CrashTyped ==
  ASSUME Typed, Crash PROVE Typed'
<1>1. Slots'
  BY IdleOK DEF Crash, Slots, SlotOK
<1>2. Past'
  BY WaitingType DEF Crash, Past, Typed
<1> QED BY <1>1, <1>2 DEF Crash, Typed, Rows, Money

LEMMA NextTyped == Typed /\ [Next]_vars => Typed'
<1> SUFFICES ASSUME Typed, [Next]_vars PROVE Typed'
  OBVIOUS
<1>1. CASE UNCHANGED vars
  BY <1>1 DEF vars, Typed, Slots, Rows, Money, Past
<1>2. ASSUME NEW r \in Requests, Step(r) PROVE Typed'
  BY <1>2, RecordTyped, BalanceTyped, ScheduleTyped, AnswerTyped DEF Step
<1>3. ASSUME NEW u \in Uuids, PayAtGateway(u) PROVE Typed'
  BY <1>3 DEF PayAtGateway, Typed, Slots, Rows, Money, Past
<1> QED
  BY <1>1, <1>2, <1>3, VerifyTyped, StatusTyped, RemoveTyped, CrashTyped DEF Next

LEMMA AlwaysTyped == Spec => []Typed
BY InitTyped, NextTyped, PTL DEF Spec

\* For every set of handlers, payments, installments and rows, the contract,
\* its schedule, its transactions and the handlers keep their types: no amount
\* that is paid or lost becomes negative, and the database is never asked to
\* keep a status that its enum does not have.
THEOREM RepaymentTypeCorrect == Spec => []TypeOK
BY AlwaysTyped, TypedIsTypeOK, PTL
-----------------------------------------------------------------------------
(* Where a step leaves its handler.                                        *)

LEMMA SlotPC ==
  ASSUME Slots, NEW r \in Requests
  PROVE  /\ Finish(r) => req'[r].pc = "idle"
         /\ \A pc : Goto(r, pc) => /\ req'[r].pc = pc /\ req'[r].uuid = req[r].uuid
                                   /\ req'[r].linked = req[r].linked
<1>1. Finish(r) => req'[r].pc = "idle"
  BY DEF Finish, Idle, Slots
<1>2. ASSUME NEW pc, Goto(r, pc)
      PROVE  /\ req'[r].pc = pc /\ req'[r].uuid = req[r].uuid
             /\ req'[r].linked = req[r].linked
  BY <1>2, SlotType DEF Goto, Slots, RequestRecords
<1> QED BY <1>1, <1>2

LEMMA OthersStay ==
  ASSUME Slots, NEW r \in Requests,
         \/ Step(r)
         \/ \E u \in Uuids, linked \in BOOLEAN : Verify(r, u, linked)
  PROVE  \A x \in Requests \ {r} : req'[x] = req[x]
<1>1. \/ Finish(r) \/ \E pc : Goto(r, pc)
      \/ \E s : req' = [req EXCEPT ![r].pc = "write", ![r].seen = sched[s].paid]
      \/ \E u, linked : req' = [req EXCEPT ![r] =
                          [uuid |-> u, linked |-> linked, pc |-> "lookUp", seen |-> 0]]
  BY DEF Step, Verify, LookUp, Deny, RecordPayment, RecordFails, ApplyToBalance,
     ReadSchedule, WriteSchedule, Answer
<1> QED BY <1>1 DEF Finish, Goto, Slots

LEMMA PendingCalm ==
  ASSUME Slots, Slots', NEW r \in Requests, \A x \in Requests \ {r} : req'[x] = req[x],
         req[r].pc # "balance", req'[r].pc # "balance"
  PROVE  Pending' = Pending
<1> DEFINE q == req'[r]
<1>1. SlotOK(q)
  BY DEF Slots, SlotOK
<1>2. req' = [req EXCEPT ![r] = q]
  BY DEF Slots
<1> HIDE DEF q
<1>3. q.pc # "balance"
  BY DEF q
<1> QED BY <1>1, <1>2, <1>3, PendingMoves

-----------------------------------------------------------------------------
(* The balance: what is paid, on its way and lost is what was recorded.    *)

LEMMA StillAccounted ==
  ASSUME MoneyIsAccounted, balance' = balance, lost' = lost, Pending' = Pending,
         SumOfRows(Recorded)' = SumOfRows(Recorded)
  PROVE  MoneyIsAccounted'
BY TotalStays DEF MoneyIsAccounted

LEMMA SameRows ==
  ASSUME Rows, rows' = rows PROVE SumOfRows(Recorded)' = SumOfRows(Recorded)
BY RecordedStays

LEMMA QuietAccounted ==
  ASSUME Typed, Typed', MoneyIsAccounted, NEW r \in Requests,
         \/ LookUp(r) \/ Deny(r) \/ RecordFails(r) \/ ReadSchedule(r)
         \/ WriteSchedule(r) \/ Answer(r)
         \/ \E u \in Uuids, linked \in BOOLEAN : Verify(r, u, linked)
  PROVE  MoneyIsAccounted'
<1>1. balance' = balance /\ lost' = lost /\ rows' = rows
  BY DEF LookUp, Deny, RecordFails, ReadSchedule, WriteSchedule, Answer, Verify
<1>2. req[r].pc # "balance"
  BY DEF LookUp, Deny, RecordFails, ReadSchedule, WriteSchedule, Answer, Verify, At
<1>3. req'[r].pc # "balance"
  <2>1. CASE LookUp(r) \/ Deny(r) \/ RecordFails(r) \/ WriteSchedule(r) \/ Answer(r)
    <3>1. req'[r].pc \in {"idle", "answer", "create"}
      BY <2>1, SlotPC DEF LookUp, AfterLookUp, Deny, RecordFails, WriteSchedule, Answer, Typed
    <3> QED BY <3>1
  <2>2. CASE ReadSchedule(r)
    <3>1. req'[r].pc \in {"write", "answer"}
      BY <2>2, SlotPC, SlotType DEF ReadSchedule, Typed, Slots, RequestRecords
    <3> QED BY <3>1
  <2>3. CASE \E u \in Uuids, linked \in BOOLEAN : Verify(r, u, linked)
    BY <2>3 DEF Verify, Typed, Slots
  <2> QED BY <2>1, <2>2, <2>3
<1>4. \A x \in Requests \ {r} : req'[x] = req[x]
  BY OthersStay DEF Step, Typed
<1>5. Pending' = Pending
  BY <1>2, <1>3, <1>4, PendingCalm DEF Typed
<1> QED BY <1>1, <1>5, SameRows, StillAccounted DEF Typed

LEMMA RecordAccounted ==
  ASSUME Typed, Typed', MoneyIsAccounted, NEW r \in Requests, RecordPayment(r)
  PROVE  MoneyIsAccounted'
<1> DEFINE w == [uuid |-> req[r].uuid, linked |-> req[r].linked, status |-> "COMPLETED"]
           i == Min(FreeRows)
           q == req'[r]
<1>1. req[r].uuid \in Uuids /\ req[r].pc = "create"
  BY SlotType DEF RecordPayment, At, Running, Typed
<1>2. i \in RowIds /\ rows[i].status = "NONE"
  BY FreeRow DEF RecordPayment, FreeRows
<1>3. rows' = [rows EXCEPT ![i] = w] /\ w.uuid = req[r].uuid /\ w.linked = req[r].linked
  BY DEF RecordPayment
<1>4. RowOK(w)
  BY <1>1, SlotType DEF RowOK, RowRecords, InUse, RowStatuses, Typed
<1>5. /\ SlotOK(q) /\ req' = [req EXCEPT ![r] = q]
      /\ q.pc = (IF req[r].linked THEN "balance" ELSE "answer") /\ q.uuid = req[r].uuid
  <2>1. SlotOK(q)
    BY DEF Typed, Slots, SlotOK
  <2>2. req' = [req EXCEPT ![r] = q]
    BY OthersStay DEF Step, Typed, Slots
  <2>3. Goto(r, IF req[r].linked THEN "balance" ELSE "answer")
    BY DEF RecordPayment, AfterRecord
  <2> QED BY <2>1, <2>2, <2>3, SlotPC DEF Typed
<1> HIDE DEF w, i, q
<1>6. SumOfRows(Recorded)' = IF req[r].linked THEN SumOfRows(Recorded) + Amount[req[r].uuid]
                             ELSE SumOfRows(Recorded)
  BY <1>2, <1>3, <1>4, RecordedGrows DEF Typed
<1>7. Pending' = IF req[r].linked THEN Pending + Amount[req[r].uuid] ELSE Pending
  BY <1>1, <1>5, PendingMoves DEF Typed
<1>8. /\ Pending \in Nat /\ SumOfRows(Recorded) \in Nat /\ Amount[req[r].uuid] \in Nat
      /\ balance.paid \in Nat /\ lost \in Nat
  BY <1>1, WaitingType, RecordedType, AmountType DEF Typed, Money, Past
<1>9. balance' = balance /\ lost' = lost
  BY DEF RecordPayment
<1> QED BY <1>6, <1>7, <1>8, <1>9, TotalStays DEF MoneyIsAccounted

LEMMA BalanceAccounted ==
  ASSUME Typed, Typed', MoneyIsAccounted, NEW r \in Requests, ApplyToBalance(r)
  PROVE  MoneyIsAccounted'
<1> DEFINE q == req'[r]
           amount == Amount[req[r].uuid]
<1>1. CASE ~balance.open
  BY <1>1 DEF ApplyToBalance, MoneyIsAccounted
<1>2. CASE balance.open
  <2>1. req[r].uuid \in Uuids /\ req[r].pc = "balance"
    BY SlotType DEF ApplyToBalance, At, Running, Typed
  <2>2. SlotOK(q) /\ req' = [req EXCEPT ![r] = q]
    BY OthersStay DEF Step, Typed, Slots, SlotOK
  <2>3. q.pc # "balance"
    BY <1>2, SlotPC DEF ApplyToBalance, Typed
  <2>4. Pending = Pending' + amount
    <3> HIDE DEF q
    <3> QED BY <2>1, <2>2, <2>3, PendingMoves DEF Typed
  <2>5. SumOfRows(Recorded)' = SumOfRows(Recorded) /\ lost' = lost
    BY SameRows DEF ApplyToBalance, Typed
  <2>6. balance'.paid = balance.paid + amount /\ balance'.outstanding = balance.outstanding - amount
    BY <1>2 DEF ApplyToBalance, Typed, Money
  <2>7. /\ Pending \in Nat /\ Pending' \in Nat /\ amount \in Nat
        /\ balance.paid \in Nat /\ balance.outstanding \in Int /\ lost \in Nat
    <3>1. Pending' \in Nat
      BY WaitingNext DEF Typed
    <3> QED BY <2>1, <3>1, WaitingType, AmountType DEF Typed, Money, Past
  <2> HIDE DEF q, amount
  <2> QED BY <1>2, <2>4, <2>5, <2>6, <2>7, TotalStays DEF MoneyIsAccounted
<1> QED BY <1>1, <1>2

LEMMA StatusAccounted ==
  ASSUME Typed, MoneyIsAccounted,
         \/ \E u \in Uuids : Webhook(u)
         \/ \E i \in RowIds, status \in SetStatuses : UpdateStatus(i, status)
  PROVE  MoneyIsAccounted'
<1>1. PICK i \in RowIds, status \in RowStatuses :
        rows' = [rows EXCEPT ![i].status = status]
  BY RepaymentAssumption DEF Webhook, UpdateStatus, Found, RowStatuses
<1>2. \A x \in RowIds : rows'[x].uuid = rows[x].uuid /\ rows'[x].linked = rows[x].linked
  BY <1>1, RowType DEF Typed, Rows, RowRecords
<1>3. SumOfRows(Recorded)' = SumOfRows(Recorded)
  BY <1>2, RecordedStays DEF Typed
<1>4. Pending' = Pending
  BY PendingIsSum DEF Webhook, UpdateStatus, Waiting, At
<1> QED BY <1>3, <1>4, StillAccounted DEF Webhook, UpdateStatus

LEMMA CrashAccounted ==
  ASSUME Typed, MoneyIsAccounted, Crash PROVE MoneyIsAccounted'
<1>1. Waiting' = {}
  BY DEF Crash, Waiting, At, Idle
<1>2. Pending' = 0
  BY <1>1, PendingIsSum, AmountsAreSum, SumOfNothing
<1>3. SumOfRows(Recorded)' = SumOfRows(Recorded)
  BY SameRows DEF Crash, Typed
<1>4. Pending \in Nat /\ lost \in Nat /\ balance.paid \in Nat
  BY WaitingType DEF Typed, Money, Past
<1> QED BY <1>2, <1>3, <1>4, TotalStays DEF Crash, MoneyIsAccounted

LEMMA InitAccounted == Init => MoneyIsAccounted
<1> SUFFICES ASSUME Init PROVE MoneyIsAccounted
  OBVIOUS
<1>1. Waiting = {} /\ Recorded = {}
  BY DEF Init, Waiting, Recorded, At, Idle, NoRow
<1>2. Pending = 0 /\ SumOfRows(Recorded) = 0
  BY <1>1, PendingIsSum, RecordedIsSum, AmountsAreSum, SumOfNothing
<1>3. TotalDue \in Int
  BY InitTyped DEF Init, Typed, Money
<1> QED BY <1>2, <1>3 DEF Init, MoneyIsAccounted

LEMMA NextAccounted ==
  Typed /\ Typed' /\ MoneyIsAccounted /\ [Next]_vars => MoneyIsAccounted'
<1> SUFFICES ASSUME Typed, Typed', MoneyIsAccounted, [Next]_vars PROVE MoneyIsAccounted'
  OBVIOUS
<1>1. CASE UNCHANGED vars \/ \E u \in Uuids : PayAtGateway(u)
  <2>1. Pending' = Pending
    BY <1>1, PendingIsSum DEF vars, PayAtGateway, Waiting, At
  <2>2. SumOfRows(Recorded)' = SumOfRows(Recorded)
    BY <1>1, SameRows DEF vars, PayAtGateway, Typed
  <2> QED BY <1>1, <2>1, <2>2, StillAccounted DEF vars, PayAtGateway
<1>2. ASSUME NEW r \in Requests, Step(r) PROVE MoneyIsAccounted'
  BY <1>2, QuietAccounted, RecordAccounted, BalanceAccounted DEF Step
<1>3. CASE RemoveLoan
  BY <1>3 DEF RemoveLoan, MoneyIsAccounted
<1> QED
  BY <1>1, <1>2, <1>3, QuietAccounted, StatusAccounted, CrashAccounted DEF Next

\* For every set of handlers and payments, whatever is retried, overlaps, dies
\* or is set by hand: as long as the loan is there, each transaction row of it
\* is in its balance once, on its way there in one handler, or was lost by a
\* crash, and what is left to pay goes down by what is counted.
THEOREM MoneyIsAccountedHolds == Spec => []MoneyIsAccounted
<1>1. Init => MoneyIsAccounted
  BY InitAccounted
<1>2. Typed /\ Typed' /\ MoneyIsAccounted /\ [Next]_vars => MoneyIsAccounted'
  BY NextAccounted
<1> QED BY <1>1, <1>2, AlwaysTyped, PTL DEF Spec
-----------------------------------------------------------------------------
(* The schedule: handlers that overlap write back amounts they read        *)
(* earlier, so that what an installment shows may fall, and what a handler *)
(* read may be more than what is there.  What is bounded is the money of   *)
(* the handlers that have finished with it.                                *)

Scheduling == {r \in Requests : req[r].pc \in {"schedule", "write"}}

\* The money that is in the balance and on its way to an installment.
Owed == IF balance.open THEN AmountsOver(req, Scheduling) ELSE 0

\* done[s] is what the handlers that wrote an installment have brought: no
\* installment shows more, and no handler has read more.
Covered(done) ==
  /\ \A s \in Schedules : sched[s].paid <= done[s]
  /\ balance.open =>
       \A r \in Requests : At(r, "write") =>
         \A s \in Selection[req[r].uuid] : req[r].seen <= done[s]
  /\ SumOver(done, Schedules) + Owed <= balance.paid

Covering == \E done \in [Schedules -> Nat] : Covered(done)

LEMMA SchedulingType ==
  ASSUME Slots
  PROVE  /\ Valued(req, Scheduling) /\ AmountsOver(req, Scheduling) \in Nat
         /\ Owed \in Nat
<1>1. \A r \in Scheduling : req[r].uuid \in Uuids
  BY SlotType DEF Scheduling, Running
<1>2. IsFiniteSet(Scheduling)
  BY RepaymentAssumption, FS_Subset DEF Scheduling
<1> QED BY <1>1, <1>2, AmountsAreNat DEF Valued, Owed

LEMMA SchedulingNext ==
  ASSUME Slots'
  PROVE  Valued(req', Scheduling') /\ AmountsOver(req', Scheduling') \in Nat
<1>1. \A r \in Scheduling' : req'[r].uuid \in Uuids
  BY DEF Slots, Scheduling, Running
<1>2. IsFiniteSet(Scheduling')
  BY RepaymentAssumption, FS_Subset DEF Scheduling
<1> QED BY <1>1, <1>2, AmountsAreNat DEF Valued

LEMMA OwedNext == Owed' = IF balance'.open THEN AmountsOver(req', Scheduling') ELSE 0
BY DEF Owed

LEMMA DoneType ==
  ASSUME NEW done \in [Schedules -> Nat]
  PROVE  SumOver(done, Schedules) \in Nat
BY RepaymentAssumption, SumIsNat DEF Nats

\* One handler stays outside, comes in, stays inside, or goes.
LEMMA SchedulingMoves ==
  ASSUME Slots, Slots', NEW r \in Requests, \A x \in Requests \ {r} : req'[x] = req[x]
  PROVE  LET before == AmountsOver(req, Scheduling)
             after  == AmountsOver(req', Scheduling')
         IN /\ r \notin Scheduling /\ r \notin Scheduling' => after = before
            /\ r \notin Scheduling /\ r \in Scheduling' => after = before + Amount[req'[r].uuid]
            /\ r \in Scheduling /\ r \in Scheduling' /\ req'[r].uuid = req[r].uuid
                 => after = before
            /\ r \in Scheduling /\ r \notin Scheduling' => before = after + Amount[req[r].uuid]
<1> DEFINE before == AmountsOver(req, Scheduling)
           after  == AmountsOver(req', Scheduling')
<1>1. Valued(req, Scheduling) /\ Valued(req', Scheduling')
  BY SchedulingType, SchedulingNext
<1>2. \A x \in Requests \ {r} : x \in Scheduling' <=> x \in Scheduling
  BY DEF Scheduling
<1>3. Scheduling \subseteq Requests /\ Scheduling' \subseteq Requests
  BY DEF Scheduling
<1>4. ASSUME r \in Scheduling <=> r \in Scheduling',
             r \in Scheduling => req'[r].uuid = req[r].uuid
      PROVE  after = before
  <2>1. Scheduling' = Scheduling
    BY <1>2, <1>3, <1>4
  <2>2. \A x \in Scheduling : req'[x].uuid = req[x].uuid
    BY <1>3, <1>4
  <2> QED BY <1>1, <2>1, <2>2, AmountsOfSame
<1>5. ASSUME r \notin Scheduling, r \in Scheduling'
      PROVE  after = before + Amount[req'[r].uuid]
  <2>1. Scheduling' = Scheduling \union {r}
    BY <1>2, <1>3, <1>5
  <2>2. \A x \in Scheduling : req'[x].uuid = req[x].uuid
    BY <1>3, <1>5
  <2>3. AmountsOver(req', Scheduling') = AmountsOver(req', Scheduling) + Amount[req'[r].uuid]
    BY <1>1, <1>5, <2>1, AmountsAdd
  <2>4. AmountsOver(req', Scheduling) = AmountsOver(req, Scheduling)
    BY <1>1, <2>2, AmountsOfSame
  <2> QED BY <2>3, <2>4
<1>6. ASSUME r \in Scheduling, r \notin Scheduling'
      PROVE  before = after + Amount[req[r].uuid]
  <2>1. Scheduling = Scheduling' \union {r}
    BY <1>2, <1>3, <1>6
  <2>2. \A x \in Scheduling' : req[x].uuid = req'[x].uuid
    BY <1>3, <1>6
  <2>3. AmountsOver(req, Scheduling) = AmountsOver(req, Scheduling') + Amount[req[r].uuid]
    BY <1>1, <1>6, <2>1, AmountsAdd
  <2>4. AmountsOver(req, Scheduling') = AmountsOver(req', Scheduling')
    BY <1>1, <2>2, AmountsOfSame
  <2> QED BY <2>3, <2>4
<1> QED BY <1>4, <1>5, <1>6

\* A handler that has nothing to do with the schedule.
LEMMA StillCovered ==
  ASSUME Typed, Typed', NEW r \in Requests, \A x \in Requests \ {r} : req'[x] = req[x],
         r \notin Scheduling, r \notin Scheduling', sched' = sched,
         balance'.open = balance.open, balance.paid <= balance'.paid, Covering
  PROVE  Covering'
<1>1. PICK done \in [Schedules -> Nat] : Covered(done)
  BY DEF Covering
<1>2. Owed' = Owed
  BY SchedulingMoves, OwedNext DEF Typed, Owed
<1>3. SumOver(done, Schedules) \in Nat /\ Owed \in Nat
  BY DoneType, SchedulingType DEF Typed
<1>4. balance.paid \in Nat /\ balance'.paid \in Nat
  BY DEF Typed, Money
<1>5. \A x \in Requests : At(x, "write")' => At(x, "write") /\ req'[x] = req[x]
  BY DEF Scheduling, At
<1>6. Covered(done)'
  BY <1>1, <1>2, <1>3, <1>4, <1>5 DEF Covered
<1> QED BY <1>6 DEF Covering

LEMMA ApplyCovered ==
  ASSUME Typed, Typed', NEW r \in Requests, ApplyToBalance(r), Covering
  PROVE  Covering'
<1>1. \A x \in Requests \ {r} : req'[x] = req[x]
  BY OthersStay DEF Step, Typed
<1>2. /\ req[r].uuid \in Uuids /\ r \notin Scheduling
      /\ Amount[req[r].uuid] \in Nat /\ sched' = sched
  BY SlotType, AmountType DEF ApplyToBalance, At, Running, Scheduling, Typed
<1>3. balance.paid \in Nat /\ balance'.paid \in Nat
  BY DEF Typed, Money
<1>4. CASE ~balance.open
  <2>1. balance' = balance /\ r \notin Scheduling'
    BY <1>4, SlotPC DEF ApplyToBalance, Scheduling, Typed
  <2> QED BY <1>1, <1>2, <1>3, <2>1, StillCovered
<1>5. CASE balance.open /\ Selection[req[r].uuid] = {}
  <2>1. r \notin Scheduling'
    BY <1>5, SlotPC DEF ApplyToBalance, Scheduling, Typed
  <2>2. balance'.open = balance.open /\ balance'.paid = balance.paid + Amount[req[r].uuid]
    BY <1>5 DEF ApplyToBalance, Typed, Money
  <2> QED BY <1>1, <1>2, <1>3, <2>1, <2>2, StillCovered
<1>6. CASE balance.open /\ Selection[req[r].uuid] # {}
  <2>1. PICK done \in [Schedules -> Nat] : Covered(done)
    BY DEF Covering
  <2>2. req'[r].pc = "schedule" /\ req'[r].uuid = req[r].uuid
    BY <1>6, SlotPC DEF ApplyToBalance, Typed
  <2>3. balance'.open = balance.open /\ balance'.paid = balance.paid + Amount[req[r].uuid]
    BY <1>6 DEF ApplyToBalance, Typed, Money
  <2>4. r \in Scheduling'
    BY <2>2 DEF Scheduling
  <2>5. Owed' = Owed + Amount[req[r].uuid]
    BY <1>1, <1>2, <1>6, <2>2, <2>3, <2>4, SchedulingMoves, OwedNext DEF Typed, Owed
  <2>6. SumOver(done, Schedules) \in Nat /\ Owed \in Nat
    BY DoneType, SchedulingType DEF Typed
  <2>7. \A x \in Requests : At(x, "write")' => At(x, "write") /\ req'[x] = req[x]
    BY <1>1, <2>2 DEF At
  <2>8. Covered(done)'
    BY <1>2, <1>3, <2>1, <2>3, <2>5, <2>6, <2>7 DEF Covered
  <2> QED BY <2>8 DEF Covering
<1> QED BY <1>4, <1>5, <1>6

LEMMA ReadCovered ==
  ASSUME Typed, Typed', NEW r \in Requests, ReadSchedule(r), Covering
  PROVE  Covering'
<1>1. \A x \in Requests \ {r} : req'[x] = req[x]
  BY OthersStay DEF Step, Typed
<1>2. /\ req[r].uuid \in Uuids /\ OfOneInstallment(req[r].uuid) /\ r \in Scheduling
      /\ Selection[req[r].uuid] \subseteq Schedules
      /\ Amount[req[r].uuid] \in Nat
      /\ sched' = sched /\ balance' = balance
  BY SlotType, AmountType DEF ReadSchedule, At, Running, Scheduling, Typed
<1>3. PICK done \in [Schedules -> Nat] : Covered(done)
  BY DEF Covering
<1>4. SumOver(done, Schedules) \in Nat /\ Owed \in Nat /\ balance.paid \in Nat
  BY DoneType, SchedulingType DEF Typed, Money
<1>5. CASE ~balance.open
  <2>1. Owed' = Owed
    BY <1>2, <1>5, OwedNext DEF Owed
  <2> QED BY <1>2, <1>3, <1>5, <2>1 DEF Covering, Covered
<1>6. CASE balance.open
  <2>1. PICK s \in Selection[req[r].uuid] :
          req' = [req EXCEPT ![r].pc = "write", ![r].seen = sched[s].paid]
    BY <1>6 DEF ReadSchedule
  <2>2. req'[r].pc = "write" /\ req'[r].uuid = req[r].uuid /\ req'[r].seen = sched[s].paid
    BY <2>1, SlotType DEF Typed, Slots, RequestRecords
  <2>3. r \in Scheduling'
    BY <2>2 DEF Scheduling
  <2>4. Owed' = Owed
    BY <1>1, <1>2, <2>2, <2>3, SchedulingMoves, OwedNext DEF Typed, Owed
  <2>5. \A t \in Selection[req[r].uuid] : sched[s].paid <= done[t]
    BY <1>2, <1>3, <2>1 DEF OfOneInstallment, Covered
  <2>6. ASSUME NEW x \in Requests, At(x, "write")', NEW t \in Selection[req'[x].uuid]
        PROVE  req'[x].seen <= done[t]
    <3>1. CASE x = r
      BY <2>2, <2>5, <2>6, <3>1
    <3>2. CASE x # r
      BY <1>1, <1>3, <1>6, <2>6, <3>2 DEF Covered, At
    <3> QED BY <3>1, <3>2
  <2>7. Covered(done)'
    BY <1>2, <1>3, <2>4, <2>6 DEF Covered
  <2> QED BY <2>7 DEF Covering
<1> QED BY <1>5, <1>6

LEMMA WriteCovered ==
  ASSUME Typed, Typed', NEW r \in Requests, WriteSchedule(r), Covering
  PROVE  Covering'
<1> DEFINE amount == Amount[req[r].uuid]
<1>1. \A x \in Requests \ {r} : req'[x] = req[x]
  BY OthersStay DEF Step, Typed
<1>2. /\ req[r].uuid \in Uuids /\ r \in Scheduling /\ At(r, "write")
      /\ Selection[req[r].uuid] \subseteq Schedules
      /\ amount \in Nat /\ balance' = balance /\ req[r].seen \in Nat
  BY SlotType, AmountType DEF WriteSchedule, At, Running, Scheduling, Typed
<1>3. PICK done \in [Schedules -> Nat] : Covered(done)
  BY DEF Covering
<1>4. SumOver(done, Schedules) \in Nat /\ Owed \in Nat /\ balance.paid \in Nat
  BY DoneType, SchedulingType DEF Typed, Money
<1>5. req'[r].pc \in {"answer", "idle"}
  BY SlotPC DEF WriteSchedule, Typed
<1>6. r \notin Scheduling'
  BY <1>5 DEF Scheduling
<1>7. balance.open => Owed = Owed' + amount
  BY <1>1, <1>2, <1>6, SchedulingMoves, OwedNext DEF Typed, Owed
<1>8. ~balance.open => Owed' = Owed
  BY <1>2, OwedNext DEF Owed
<1>9. Owed' \in Nat
  BY <1>2, SchedulingNext, OwedNext DEF Typed
<1>10. \A x \in Requests : At(x, "write")' => At(x, "write") /\ req'[x] = req[x]
  BY <1>1, <1>5 DEF At
<1> HIDE DEF amount
<1>11. CASE sched' = sched
  <2>1. Covered(done)'
    BY <1>2, <1>3, <1>4, <1>7, <1>8, <1>9, <1>10, <1>11 DEF Covered
  <2> QED BY <2>1 DEF Covering
<1>12. CASE \E s \in Selection[req[r].uuid] :
              balance.open /\ sched' = [sched EXCEPT ![s] = NewInstallment(r, s)]
  <2>1. PICK s \in Selection[req[r].uuid] :
              balance.open /\ sched' = [sched EXCEPT ![s] = NewInstallment(r, s)]
    BY <1>12
  <2>2. s \in Schedules
    BY <1>2
  <2>13. [done EXCEPT ![s] = @ + amount] \in [Schedules -> Nat]
    BY <1>2, <1>3, <2>2
  <2>14. PICK next \in [Schedules -> Nat] : next = [done EXCEPT ![s] = @ + amount]
    BY <2>13
  <2>3. next \in [Schedules -> Nat] /\ next[s] = done[s] + amount
    BY <1>3, <2>2, <2>14
  <2>4. \A t \in Schedules \ {s} : done[t] = next[t]
    BY <2>14
  <2>5. \A t \in Schedules : done[t] <= next[t]
    BY <1>2, <2>3, <2>4
  <2>6. NewInstallment(r, s).paid = req[r].seen + amount
    BY DEF NewInstallment, amount
  <2>7. req[r].seen <= done[s]
    BY <1>2, <1>3, <2>1 DEF Covered
  <2>8. \A t \in Schedules : sched'[t].paid <= next[t]
    <3>1. sched'[s].paid = req[r].seen + amount
      BY <2>1, <2>2, <2>6 DEF Typed, Money
    <3>2. \A t \in Schedules \ {s} : sched'[t] = sched[t]
      BY <2>1 DEF Typed, Money
    <3>3. sched'[s].paid <= next[s]
      BY <1>2, <2>2, <2>3, <2>7, <3>1
    <3>4. \A t \in Schedules \ {s} : sched'[t].paid <= next[t]
      BY <1>3, <2>4, <3>2 DEF Covered
    <3> QED BY <3>3, <3>4
  <2>9. SumOver(next, Schedules) = SumOver(done, Schedules) + amount
    <3>1. Ints(done, Schedules) /\ Ints(next, Schedules)
      BY <2>3 DEF Ints
    <3>2. SumOver(next, Schedules) = SumOver(done, Schedules) + next[s] - done[s]
      BY <2>2, <2>4, <3>1, RepaymentAssumption, SumChanges
    <3> QED BY <1>2, <1>4, <2>2, <2>3, <3>2
  <2>10. ASSUME NEW x \in Requests, At(x, "write")', NEW t \in Selection[req'[x].uuid]
         PROVE  req'[x].seen <= next[t]
    <3>1. /\ At(x, "write") /\ req'[x] = req[x]
          /\ t \in Schedules /\ req[x].seen \in Nat
      <4>1. At(x, "write") /\ req'[x] = req[x]
        BY <1>10, <2>10
      <4>2. req[x].uuid \in Uuids /\ req[x].seen \in Nat
        BY <4>1, SlotType DEF At, Running, Typed
      <4> QED BY <2>10, <4>1, <4>2, AmountType
    <3>2. req[x].seen <= done[t]
      BY <1>3, <2>1, <2>10, <3>1 DEF Covered
    <3>3. done[t] \in Nat /\ next[t] \in Nat /\ done[t] <= next[t]
      BY <2>3, <2>5, <3>1
    <3> QED BY <3>1, <3>2, <3>3
  <2>11. SumOver(next, Schedules) + Owed' <= balance'.paid
    BY <1>2, <1>3, <1>4, <1>7, <1>9, <2>1, <2>9 DEF Covered
  <2>12. Covered(next)'
    BY <2>8, <2>10, <2>11 DEF Covered
  <2> QED BY <2>3, <2>12 DEF Covering
<1> QED BY <1>11, <1>12 DEF WriteSchedule

LEMMA OutsideCovered ==
  ASSUME Typed, Typed', NEW r \in Requests, Covering,
         \/ LookUp(r) \/ Deny(r) \/ RecordPayment(r) \/ RecordFails(r) \/ Answer(r)
         \/ \E u \in Uuids, linked \in BOOLEAN : Verify(r, u, linked)
  PROVE  Covering'
<1>1. sched' = sched /\ balance' = balance
  BY DEF LookUp, Deny, RecordPayment, RecordFails, Answer, Verify
<1>2. req[r].pc \in {"lookUp", "create", "answer", "idle"}
  BY DEF LookUp, Deny, RecordPayment, RecordFails, Answer, Verify, At
<1>3. req'[r].pc \in {"lookUp", "create", "answer", "idle", "balance"}
  <2>1. CASE LookUp(r) \/ Deny(r) \/ RecordPayment(r) \/ RecordFails(r) \/ Answer(r)
    BY <2>1, SlotPC DEF LookUp, AfterLookUp, Deny, RecordPayment, AfterRecord, RecordFails,
       Answer, Typed
  <2>2. CASE \E u \in Uuids, linked \in BOOLEAN : Verify(r, u, linked)
    BY <2>2 DEF Verify, Typed, Slots
  <2> QED BY <2>1, <2>2
<1>4. \A x \in Requests \ {r} : req'[x] = req[x]
  BY OthersStay DEF Step, Typed
<1>5. r \notin Scheduling /\ r \notin Scheduling'
  BY <1>2, <1>3 DEF Scheduling
<1>6. balance.paid <= balance'.paid
  BY <1>1 DEF Typed, Money
<1> QED BY <1>1, <1>4, <1>5, <1>6, StillCovered

\* The loan is removed: nothing is shown, nothing is paid.
LEMMA RemoveCovered ==
  ASSUME RemoveLoan PROVE Covering'
<1> DEFINE zero == [s \in Schedules |-> 0]
<1>1. SumOver(zero, Schedules) = 0
  BY SumOfZeros, RepaymentAssumption
<1>2. Owed' = 0 /\ ~balance'.open /\ balance'.paid = 0
  BY OwedNext DEF RemoveLoan
<1>3. \A s \in Schedules : sched'[s].paid <= zero[s]
  BY DEF RemoveLoan
<1>4. zero \in [Schedules -> Nat]
  OBVIOUS
<1> HIDE DEF zero
<1>5. Covered(zero)'
  BY <1>1, <1>2, <1>3 DEF Covered
<1> QED BY <1>4, <1>5 DEF Covering

LEMMA CrashCovered ==
  ASSUME Typed, Crash, Covering PROVE Covering'
<1>1. PICK done \in [Schedules -> Nat] : Covered(done)
  BY DEF Covering
<1>2. Scheduling' = {}
  BY DEF Crash, Scheduling, Idle
<1>3. Owed' = 0
  BY <1>2, OwedNext, AmountsAreSum, SumOfNothing
<1>4. SumOver(done, Schedules) \in Nat /\ Owed \in Nat /\ balance.paid \in Nat
  BY DoneType, SchedulingType DEF Typed, Money
<1>5. balance' = balance /\ sched' = sched /\ \A x \in Requests : ~At(x, "write")'
  BY DEF Crash, At, Idle
<1>6. Covered(done)'
  BY <1>1, <1>3, <1>4, <1>5 DEF Covered
<1> QED BY <1>6 DEF Covering

LEMMA InitCovered == Init => Covering
<1> SUFFICES ASSUME Init PROVE Covering
  OBVIOUS
<1> DEFINE zero == [s \in Schedules |-> 0]
<1>1. SumOver(zero, Schedules) = 0
  BY SumOfZeros, RepaymentAssumption
<1>2. Scheduling = {}
  BY DEF Init, Scheduling, Idle
<1>3. Owed = 0
  BY <1>2, AmountsAreSum, SumOfNothing DEF Owed
<1>4. zero \in [Schedules -> Nat] /\ \A s \in Schedules : sched[s].paid <= zero[s]
  BY DEF Init
<1> HIDE DEF zero
<1>5. Covered(zero)
  BY <1>1, <1>3, <1>4 DEF Covered, Init, At, Idle
<1> QED BY <1>4, <1>5 DEF Covering

LEMMA NextCovered == Typed /\ Typed' /\ Covering /\ [Next]_vars => Covering'
<1> SUFFICES ASSUME Typed, Typed', Covering, [Next]_vars PROVE Covering'
  OBVIOUS
<1>1. CASE UNCHANGED <<balance, sched, req>>
  <2>1. Owed' = Owed
    BY <1>1, OwedNext DEF Owed, Scheduling
  <2>2. PICK done \in [Schedules -> Nat] : Covered(done)
    BY DEF Covering
  <2>3. Covered(done)'
    BY <1>1, <2>1, <2>2 DEF Covered, At
  <2> QED BY <2>3 DEF Covering
<1>2. ASSUME NEW r \in Requests, Step(r) PROVE Covering'
  BY <1>2, OutsideCovered, ApplyCovered, ReadCovered, WriteCovered DEF Step
<1>3. ASSUME NEW u \in Uuids, PayAtGateway(u) \/ Webhook(u) PROVE Covering'
  BY <1>1, <1>3 DEF PayAtGateway, Webhook
<1>4. ASSUME NEW i \in RowIds, NEW status \in SetStatuses, UpdateStatus(i, status)
      PROVE  Covering'
  BY <1>1, <1>4 DEF UpdateStatus
<1>5. CASE UNCHANGED vars
  BY <1>1, <1>5 DEF vars
<1> QED
  BY <1>2, <1>3, <1>4, <1>5, OutsideCovered, RemoveCovered, CrashCovered DEF Next

\* What the installments show, as a sum over a function.
LEMMA ShownIsSum ==
  MapThenSumSet(LAMBDA s : sched[s].paid, Schedules)
    = SumOver([s \in Schedules |-> sched[s].paid], Schedules)
<1> DEFINE f == [s \in Schedules |-> sched[s].paid]
           A(g) == g = [t \in SUBSET Schedules |-> IF t = {} THEN 0
                          ELSE sched[Pick(t)].paid + g[t \ {Pick(t)}]]
           B(g) == g = [t \in SUBSET Schedules |-> IF t = {} THEN 0
                          ELSE f[Pick(t)] + g[t \ {Pick(t)}]]
<1>1. \A t \in SUBSET Schedules : t # {} => f[Pick(t)] = sched[Pick(t)].paid
  BY PickIsElement
<1> HIDE DEF f
<1>2. ASSUME NEW g PROVE A(g) <=> B(g)
  <2>1. \A t \in SUBSET Schedules :
          (IF t = {} THEN 0 ELSE sched[Pick(t)].paid + g[t \ {Pick(t)}])
            = (IF t = {} THEN 0 ELSE f[Pick(t)] + g[t \ {Pick(t)}])
    BY <1>1
  <2> QED BY <2>1
<1> HIDE DEF A, B
<1>3. (CHOOSE g : A(g))[Schedules] = (CHOOSE g : B(g))[Schedules]
  <2>1. (CHOOSE g : A(g)) = (CHOOSE g : B(g))
    BY <1>2
  <2> QED BY <2>1
<1> QED BY <1>3 DEF A, B, f, SumOver, MapThenSumSet, MapThenFoldSet, Pick

LEMMA CoveringSuffices == Typed /\ Covering => ScheduleWithinBalance
<1> SUFFICES ASSUME Typed, Covering PROVE ScheduleWithinBalance
  OBVIOUS
<1> DEFINE shown == [s \in Schedules |-> sched[s].paid]
           same  == [s \in Schedules |-> s]
<1>1. PICK done \in [Schedules -> Nat] : Covered(done)
  BY DEF Covering
<1>2. Nats(shown, Schedules) /\ Nats(done, Schedules)
  BY DEF Nats, Typed, Money, InstallmentRecords
<1>3. /\ \A s \in Schedules : same[s] \in Schedules /\ shown[s] <= done[same[s]]
      /\ \A s, t \in Schedules : same[s] = same[t] => s = t
  BY <1>1 DEF Covered
<1> HIDE DEF shown, same
<1>4. SumOver(shown, Schedules) <= SumOver(done, Schedules)
  BY <1>2, <1>3, RepaymentAssumption, SumWithin
<1>5. SumOver(done, Schedules) \in Nat /\ Owed \in Nat /\ balance.paid \in Nat
  BY DoneType, SchedulingType DEF Typed, Money
<1>6. SumOver(shown, Schedules) \in Nat
  BY <1>2, RepaymentAssumption, SumIsNat
<1>7. SumOver(shown, Schedules) <= balance.paid
  BY <1>1, <1>4, <1>5, <1>6 DEF Covered
<1>8. MapThenSumSet(LAMBDA s : sched[s].paid, Schedules) = SumOver(shown, Schedules)
  BY ShownIsSum DEF shown
<1> QED BY <1>7, <1>8 DEF ScheduleWithinBalance

\* For every set of handlers, payments and installments: however the handlers
\* that write back an amount they read earlier overlap, whatever throws and
\* whenever the process dies, the installments together never show more money
\* than the contract row does.
THEOREM ScheduleWithinBalanceHolds == Spec => []ScheduleWithinBalance
<1>1. Init => Covering
  BY InitCovered
<1>2. Typed /\ Typed' /\ Covering /\ [Next]_vars => Covering'
  BY NextCovered
<1>3. Typed /\ Covering => ScheduleWithinBalance
  BY CoveringSuffices
<1> QED BY <1>1, <1>2, <1>3, AlwaysTyped, PTL DEF Spec

-----------------------------------------------------------------------------
(* An installment that was PAID.                                           *)

\* What the handler writes is PAID, since the other status it computes is
\* none of the enum.
LEMMA StorableIsPaid ==
  ASSUME NEW r, NEW s, Storable(NewInstallment(r, s).status)
  PROVE  NewInstallment(r, s).status = "PAID"
BY DEF Storable, NewInstallment, InstallmentStatuses

StaysPaid ==
  \A s \in Schedules :
    sched[s].status = "PAID" => sched'[s].status = "PAID" \/ ~balance'.open

LEMMA NextStaysPaid == Typed /\ [Next]_vars => StaysPaid
<1> SUFFICES ASSUME Typed, [Next]_vars PROVE StaysPaid
  OBVIOUS
<1>1. CASE sched' = sched
  BY <1>1 DEF StaysPaid
<1>2. ASSUME NEW r \in Requests, WriteSchedule(r) PROVE StaysPaid
  <2>1. CASE sched' = sched
    BY <1>1, <2>1
  <2>2. CASE \E s \in Selection[req[r].uuid] :
               /\ Storable(NewInstallment(r, s).status)
               /\ sched' = [sched EXCEPT ![s] = NewInstallment(r, s)]
    <3>1. PICK s \in Selection[req[r].uuid] :
               /\ Storable(NewInstallment(r, s).status)
               /\ sched' = [sched EXCEPT ![s] = NewInstallment(r, s)]
      BY <2>2
    <3>2. NewInstallment(r, s).status = "PAID"
      BY <3>1, StorableIsPaid
    <3> QED BY <3>1, <3>2 DEF StaysPaid, Typed, Money
  <2> QED BY <1>2, <2>1, <2>2 DEF WriteSchedule
<1>3. CASE RemoveLoan
  BY <1>3 DEF RemoveLoan, StaysPaid
<1>4. ASSUME NEW r \in Requests, Step(r) PROVE StaysPaid
  BY <1>1, <1>2, <1>4 DEF Step, LookUp, Deny, RecordPayment, RecordFails, ApplyToBalance,
     ReadSchedule, Answer
<1>5. CASE Crash \/ UNCHANGED vars \/ \E u \in Uuids : PayAtGateway(u) \/ Webhook(u)
  BY <1>1, <1>5 DEF Crash, vars, PayAtGateway, Webhook
<1>6. ASSUME NEW r \in Requests, NEW u \in Uuids, NEW linked \in BOOLEAN,
             Verify(r, u, linked)
      PROVE  StaysPaid
  BY <1>1, <1>6 DEF Verify
<1>7. ASSUME NEW i \in RowIds, NEW status \in SetStatuses, UpdateStatus(i, status)
      PROVE  StaysPaid
  BY <1>1, <1>7 DEF UpdateStatus
<1> QED BY <1>3, <1>4, <1>5, <1>6, <1>7 DEF Next

\* For every set of handlers, payments and installments: no write of an amount
\* that was read earlier takes an installment back from PAID, because the only
\* other status the handler computes is refused by the database.
THEOREM PaidStaysPaidHolds == Spec => PaidStaysPaid
<1>1. Typed /\ [Next]_vars => StaysPaid
  BY NextStaysPaid
<1>2. Typed /\ [Next]_vars => [StaysPaid]_vars
  BY <1>1
<1>3. Spec => [][StaysPaid]_vars
  BY <1>2, AlwaysTyped, PTL DEF Spec
<1> QED BY <1>3 DEF StaysPaid, PaidStaysPaid

-----------------------------------------------------------------------------
(* A payment is recorded no more often than handlers overlap: a handler    *)
(* that found no row and has still to write one counts as a row already.   *)

OnRows(u) == {i \in RowIds : rows[i].uuid = u}
Creating(u) == {r \in Requests : At(r, "create") /\ req[r].uuid = u}

OnceOrCreating ==
  \A u \in Uuids :
    Cardinality(OnRows(u)) + Cardinality(Creating(u)) <= Cardinality(Requests)

\* Fewer elements in a part.
LEMMA PartIsSmaller ==
  ASSUME NEW S, IsFiniteSet(S), NEW T, T \subseteq S
  PROVE  /\ IsFiniteSet(T) /\ Cardinality(T) <= Cardinality(S)
         /\ Cardinality(T) \in Nat /\ Cardinality(S) \in Nat
BY FS_Subset, FS_CardinalityType

LEMMA CountsAreFinite ==
  ASSUME NEW u
  PROVE  /\ IsFiniteSet(OnRows(u)) /\ Cardinality(OnRows(u)) \in Nat
         /\ IsFiniteSet(Creating(u)) /\ Cardinality(Creating(u)) \in Nat
         /\ Cardinality(Creating(u)) <= Cardinality(Requests)
         /\ Cardinality(Requests) \in Nat
<1>1. IsFiniteSet(RowIds)
  BY RepaymentAssumption, FS_Interval DEF RowIds
<1> QED BY <1>1, RepaymentAssumption, PartIsSmaller DEF OnRows, Creating

\* Nothing is counted twice when both sets shrink.
LEMMA FewerStillOnce ==
  ASSUME OnceOrCreating,
         \A u \in Uuids : OnRows(u)' \subseteq OnRows(u) /\ Creating(u)' \subseteq Creating(u)
  PROVE  OnceOrCreating'
<1> SUFFICES ASSUME NEW u \in Uuids
             PROVE  Cardinality(OnRows(u)') + Cardinality(Creating(u)')
                      <= Cardinality(Requests)
  BY DEF OnceOrCreating
<1>1. /\ Cardinality(OnRows(u)') <= Cardinality(OnRows(u))
      /\ Cardinality(OnRows(u)') \in Nat
  BY CountsAreFinite, PartIsSmaller
<1>2. /\ Cardinality(Creating(u)') <= Cardinality(Creating(u))
      /\ Cardinality(Creating(u)') \in Nat
  BY CountsAreFinite, PartIsSmaller
<1>3. Cardinality(OnRows(u)) + Cardinality(Creating(u)) <= Cardinality(Requests)
  BY DEF OnceOrCreating
<1> QED BY <1>1, <1>2, <1>3, CountsAreFinite

LEMMA NothingFoundIsNoRow ==
  ASSUME Rows, NEW u \in Uuids, Found(u) = {} PROVE OnRows(u) = {}
BY RowType DEF Found, OnRows, InUse

\* A handler that found nothing may create: no row is counted, and there are
\* no more handlers than handlers.
LEMMA LookUpOnce ==
  ASSUME Typed, OnceOrCreating, NEW r \in Requests, LookUp(r) PROVE OnceOrCreating'
<1> SUFFICES ASSUME NEW u \in Uuids
             PROVE  Cardinality(OnRows(u)') + Cardinality(Creating(u)')
                      <= Cardinality(Requests)
  BY DEF OnceOrCreating
<1>1. OnRows(u)' = OnRows(u)
  BY DEF LookUp, OnRows
<1>2. CASE Creating(u)' \subseteq Creating(u)
  <2>1. Cardinality(Creating(u)') <= Cardinality(Creating(u))
        /\ Cardinality(Creating(u)') \in Nat
    BY <1>2, CountsAreFinite, PartIsSmaller
  <2>2. Cardinality(OnRows(u)) + Cardinality(Creating(u)) <= Cardinality(Requests)
    BY DEF OnceOrCreating
  <2> QED BY <1>1, <2>1, <2>2, CountsAreFinite
<1>3. CASE ~(Creating(u)' \subseteq Creating(u))
  <2>1. \A x \in Requests \ {r} : req'[x] = req[x]
    BY OthersStay DEF Step, Typed
  <2>2. req'[r].pc = "create" /\ req'[r].uuid = u
    BY <1>3, <2>1 DEF Creating, At
  <2>3. req'[r].uuid = req[r].uuid /\ req'[r].pc = AfterLookUp(req[r].uuid)
    BY DEF LookUp, Goto, Typed, Slots, RequestRecords
  <2>4. Found(u) = {}
    BY <2>2, <2>3 DEF AfterLookUp
  <2>5. OnRows(u) = {}
    BY <2>4, NothingFoundIsNoRow DEF Typed
  <2>6. Cardinality(OnRows(u)) = 0
    BY <2>5, FS_EmptySet
  <2>7. /\ Creating(u)' \subseteq Requests
        /\ Cardinality(Creating(u)') <= Cardinality(Requests)
        /\ Cardinality(Creating(u)') \in Nat
    BY RepaymentAssumption, PartIsSmaller DEF Creating
  <2> QED BY <1>1, <2>6, <2>7, CountsAreFinite
<1> QED BY <1>2, <1>3

\* The handler becomes the row.
LEMMA RecordOnce ==
  ASSUME Typed, OnceOrCreating, NEW r \in Requests, RecordPayment(r)
  PROVE  OnceOrCreating'
<1> DEFINE i == Min(FreeRows)
           w == [uuid |-> req[r].uuid, linked |-> req[r].linked, status |-> "COMPLETED"]
<1>1. i \in RowIds
  BY FreeRow DEF RecordPayment, FreeRows
<1>2. rows' = [rows EXCEPT ![i] = w] /\ w.uuid = req[r].uuid
  BY DEF RecordPayment
<1>3. \A x \in Requests \ {r} : req'[x] = req[x]
  BY OthersStay DEF Step, Typed
<1>4. At(r, "create") /\ req'[r].pc # "create"
  BY DEF RecordPayment, AfterRecord, Goto, At, Typed, Slots, RequestRecords
<1> HIDE DEF i, w
<1> SUFFICES ASSUME NEW u \in Uuids
             PROVE  Cardinality(OnRows(u)') + Cardinality(Creating(u)')
                      <= Cardinality(Requests)
  BY DEF OnceOrCreating
<1>5. Cardinality(OnRows(u)) + Cardinality(Creating(u)) <= Cardinality(Requests)
  BY DEF OnceOrCreating
<1>6. Creating(u)' = Creating(u) \ {r}
  BY <1>3, <1>4 DEF Creating, At
<1>7. OnRows(u)' \subseteq IF req[r].uuid = u THEN OnRows(u) \union {i} ELSE OnRows(u)
  BY <1>1, <1>2 DEF OnRows, Typed, Rows
<1>8. CASE req[r].uuid = u
  <2>1. r \in Creating(u)
    BY <1>4, <1>8 DEF Creating
  <2>2. Cardinality(Creating(u)') = Cardinality(Creating(u)) - 1
    BY <1>6, <2>1, CountsAreFinite, TakenIsSmaller
  <2>3. /\ IsFiniteSet(OnRows(u) \union {i})
        /\ Cardinality(OnRows(u) \union {i}) <= Cardinality(OnRows(u)) + 1
    <3>1. IsFiniteSet(OnRows(u)) /\ Cardinality(OnRows(u)) \in Nat
      BY CountsAreFinite
    <3>2. /\ IsFiniteSet(OnRows(u) \union {i})
          /\ Cardinality(OnRows(u) \union {i}) \in
               {Cardinality(OnRows(u)), Cardinality(OnRows(u)) + 1}
      BY <3>1, FS_AddElement, Zenon
    <3> QED BY <3>1, <3>2
  <2>4. /\ Cardinality(OnRows(u)') <= Cardinality(OnRows(u) \union {i})
        /\ Cardinality(OnRows(u)') \in Nat
        /\ Cardinality(OnRows(u) \union {i}) \in Nat
    BY <1>7, <1>8, <2>3, PartIsSmaller
  <2> QED BY <1>5, <2>2, <2>3, <2>4, CountsAreFinite
<1>9. CASE req[r].uuid # u
  <2>1. /\ Cardinality(OnRows(u)') <= Cardinality(OnRows(u))
        /\ Cardinality(OnRows(u)') \in Nat
    BY <1>7, <1>9, CountsAreFinite, PartIsSmaller
  <2>2. /\ Cardinality(Creating(u)') <= Cardinality(Creating(u))
        /\ Cardinality(Creating(u)') \in Nat
    BY <1>6, CountsAreFinite, PartIsSmaller
  <2> QED BY <1>5, <2>1, <2>2, CountsAreFinite
<1> QED BY <1>8, <1>9

LEMMA NextOnce == Typed /\ OnceOrCreating /\ [Next]_vars => OnceOrCreating'
<1> SUFFICES ASSUME Typed, OnceOrCreating, [Next]_vars PROVE OnceOrCreating'
  OBVIOUS
<1>1. ASSUME NEW r \in Requests,
             \/ Deny(r) \/ RecordFails(r) \/ ApplyToBalance(r) \/ ReadSchedule(r)
             \/ WriteSchedule(r) \/ Answer(r)
             \/ \E u \in Uuids, linked \in BOOLEAN : Verify(r, u, linked)
      PROVE  OnceOrCreating'
  <2>1. rows' = rows
    BY <1>1 DEF Deny, RecordFails, ApplyToBalance, ReadSchedule, WriteSchedule, Answer, Verify
  <2>2. \A x \in Requests \ {r} : req'[x] = req[x]
    BY <1>1, OthersStay DEF Step, Typed
  <2>3. req'[r].pc # "create"
    <3>1. CASE Deny(r) \/ RecordFails(r) \/ ApplyToBalance(r) \/ Answer(r)
      BY <3>1 DEF Deny, RecordFails, ApplyToBalance, Answer, Finish, Goto, Idle, Typed, Slots,
         RequestRecords
    <3>2. CASE ReadSchedule(r) \/ WriteSchedule(r)
      BY <3>2 DEF ReadSchedule, WriteSchedule, Finish, Goto, Idle, Typed, Slots, RequestRecords
    <3>3. CASE \E u \in Uuids, linked \in BOOLEAN : Verify(r, u, linked)
      BY <3>3 DEF Verify, Typed, Slots
    <3> QED BY <1>1, <3>1, <3>2, <3>3
  <2>4. \A u \in Uuids : OnRows(u)' \subseteq OnRows(u) /\ Creating(u)' \subseteq Creating(u)
    BY <2>1, <2>2, <2>3 DEF OnRows, Creating, At
  <2> QED BY <2>4, FewerStillOnce
<1>2. CASE UNCHANGED vars \/ Crash \/ \E u \in Uuids : PayAtGateway(u)
  <2>1. \A u \in Uuids : OnRows(u)' \subseteq OnRows(u) /\ Creating(u)' \subseteq Creating(u)
    BY <1>2 DEF vars, Crash, PayAtGateway, OnRows, Creating, At, Idle
  <2> QED BY <2>1, FewerStillOnce
<1>3. ASSUME NEW i \in RowIds, NEW status, rows' = [rows EXCEPT ![i].status = status],
             req' = req
      PROVE  OnceOrCreating'
  <2>1. \A x \in RowIds : rows'[x].uuid = rows[x].uuid
    BY <1>3 DEF Typed, Rows, RowRecords
  <2>2. \A u \in Uuids : OnRows(u)' \subseteq OnRows(u) /\ Creating(u)' \subseteq Creating(u)
    BY <1>3, <2>1 DEF OnRows, Creating, At
  <2> QED BY <2>2, FewerStillOnce
<1>4. ASSUME NEW u \in Uuids, Webhook(u) PROVE OnceOrCreating'
  BY <1>3, <1>4 DEF Webhook, Found
<1>5. ASSUME NEW i \in RowIds, NEW status \in SetStatuses, UpdateStatus(i, status)
      PROVE  OnceOrCreating'
  BY <1>3, <1>5 DEF UpdateStatus
<1>6. CASE RemoveLoan
  <2>1. \A u \in Uuids : OnRows(u)' \subseteq OnRows(u) /\ Creating(u)' \subseteq Creating(u)
    BY <1>6, RepaymentAssumption DEF RemoveLoan, OnRows, Creating, At, NoRow
  <2> QED BY <2>1, FewerStillOnce
<1>7. ASSUME NEW r \in Requests, Step(r) PROVE OnceOrCreating'
  BY <1>1, <1>7, LookUpOnce, RecordOnce DEF Step
<1> QED BY <1>1, <1>2, <1>4, <1>5, <1>6, <1>7 DEF Next

LEMMA InitOnce == Init => OnceOrCreating
<1> SUFFICES ASSUME Init, NEW u \in Uuids
             PROVE  Cardinality(OnRows(u)) + Cardinality(Creating(u)) <= Cardinality(Requests)
  BY DEF OnceOrCreating
<1>1. OnRows(u) = {} /\ Creating(u) = {}
  BY RepaymentAssumption DEF Init, OnRows, Creating, At, Idle, NoRow
<1> QED BY <1>1, FS_EmptySet, CountsAreFinite

\* For every number of handlers and rows: a payment has never more transactions
\* than there are handlers that may overlap, so at most one when verifications
\* run one at a time, however often the client retries, the process dies, the
\* gateway calls back or a status is changed.
THEOREM RecordedOnceHolds == Spec => []RecordedOnce
<1>1. Init => OnceOrCreating
  BY InitOnce
<1>2. Typed /\ OnceOrCreating /\ [Next]_vars => OnceOrCreating'
  BY NextOnce
<1>3. OnceOrCreating => RecordedOnce
  <2> SUFFICES ASSUME OnceOrCreating, NEW u \in Uuids
               PROVE  Cardinality(OnRows(u)) <= Cardinality(Requests)
    BY DEF RecordedOnce, OnRows
  <2> QED BY CountsAreFinite DEF OnceOrCreating
<1> QED BY <1>1, <1>2, <1>3, AlwaysTyped, PTL DEF Spec

-----------------------------------------------------------------------------
(* Who was answered finds a row: a handler past its own row and a client   *)
(* that was told so have one as long as the loan is there, since only its  *)
(* removal takes rows away.                                                *)

HasRecorded == {"balance", "schedule", "write", "answer"}

Answered(u) ==
  \/ u \in told
  \/ \E r \in Requests : req[r].pc \in HasRecorded /\ req[r].uuid = u

RowsKept == balance.open => \A u \in Uuids : Answered(u) => Found(u) # {}

\* Rows keep their payment while the loan is there, and stay in use.
LEMMA FoundStays ==
  ASSUME Typed, [Next]_vars, balance'.open, NEW u \in Uuids PROVE Found(u) \subseteq Found(u)'
<1>1. CASE rows' = rows
  BY <1>1 DEF Found
<1>2. ASSUME NEW i \in RowIds, NEW status \in RowStatuses,
             rows' = [rows EXCEPT ![i].status = status]
      PROVE  Found(u) \subseteq Found(u)'
  <2>1. status # "NONE"
    BY DEF RowStatuses
  <2> QED BY <1>2, <2>1 DEF Found, Typed, Rows, RowRecords
<1>3. ASSUME NEW v \in Uuids, Webhook(v) PROVE Found(u) \subseteq Found(u)'
  BY <1>2, <1>3 DEF Webhook, Found, RowStatuses
<1>4. ASSUME NEW i \in RowIds, NEW status \in SetStatuses, UpdateStatus(i, status)
      PROVE  Found(u) \subseteq Found(u)'
  BY <1>2, <1>4, RepaymentAssumption DEF UpdateStatus
<1>5. ASSUME NEW r \in Requests, RecordPayment(r) PROVE Found(u) \subseteq Found(u)'
  <2>1. Min(FreeRows) \in FreeRows
    BY <1>5, FreeRow DEF RecordPayment
  <2>2. \A x \in RowIds : rows[x].status # "NONE" => rows'[x] = rows[x]
    BY <1>5, <2>1 DEF RecordPayment, FreeRows, Typed, Rows
  <2> QED BY <2>2 DEF Found
<1>6. ~RemoveLoan
  BY DEF RemoveLoan
<1>7. ASSUME NEW r \in Requests, Step(r) PROVE Found(u) \subseteq Found(u)'
  BY <1>1, <1>5, <1>7 DEF Step, LookUp, Deny, RecordFails, ApplyToBalance, ReadSchedule,
     WriteSchedule, Answer
<1>8. CASE Crash \/ UNCHANGED vars \/ \E v \in Uuids : PayAtGateway(v)
  BY <1>1, <1>8 DEF Crash, vars, PayAtGateway
<1>9. ASSUME NEW r \in Requests, NEW v \in Uuids, NEW linked \in BOOLEAN,
             Verify(r, v, linked)
      PROVE  Found(u) \subseteq Found(u)'
  BY <1>1, <1>9 DEF Verify
<1> QED BY <1>3, <1>4, <1>6, <1>5, <1>7, <1>8, <1>9 DEF Next

LEMMA OnceRemoved == Typed /\ [Next]_vars /\ balance'.open => balance.open
<1> SUFFICES ASSUME Typed, [Next]_vars, balance'.open PROVE balance.open
  OBVIOUS
<1>1. ASSUME NEW r \in Requests, Step(r) PROVE balance.open
  BY <1>1 DEF Step, LookUp, Deny, RecordPayment, RecordFails, ApplyToBalance, ReadSchedule,
     WriteSchedule, Answer
<1> QED BY <1>1 DEF Next, PayAtGateway, Webhook, Verify, UpdateStatus, RemoveLoan, Crash, vars

\* A handler that comes past its own row has one.
LEMMA StepKept ==
  ASSUME Typed, RowsKept, balance.open, NEW r \in Requests, Step(r), balance'.open,
         NEW u \in Uuids, req'[r].uuid = u, req'[r].pc \in HasRecorded
  PROVE  Found(u)' # {}
<1>1. req[r].uuid = u
  <2>1. req'[r] # Idle
    BY DEF HasRecorded, Idle
  <2>2. CASE ReadSchedule(r)
    BY <2>2 DEF ReadSchedule, Goto, Typed, Slots, RequestRecords
  <2>3. CASE LookUp(r) \/ RecordPayment(r)
    BY <2>3 DEF LookUp, RecordPayment, Goto, Typed, Slots, RequestRecords
  <2>4. CASE ApplyToBalance(r) \/ WriteSchedule(r)
    BY <2>1, <2>4 DEF ApplyToBalance, WriteSchedule, Goto, Finish, Typed, Slots, RequestRecords
  <2>5. CASE Deny(r) \/ RecordFails(r) \/ Answer(r)
    BY <2>1, <2>5 DEF Deny, RecordFails, Answer, Finish, Typed, Slots
  <2> QED BY <2>2, <2>3, <2>4, <2>5 DEF Step
<1>2. [Next]_vars
  BY DEF Next
<1>3. CASE req[r].pc \in HasRecorded
  BY <1>1, <1>2, <1>3, FoundStays DEF RowsKept, Answered
<1>4. CASE LookUp(r)
  <2>1. req'[r].pc = AfterLookUp(req[r].uuid)
    BY <1>4 DEF LookUp, Goto, Typed, Slots, RequestRecords
  <2>2. Found(u) # {}
    BY <1>1, <2>1 DEF AfterLookUp, HasRecorded
  <2> QED BY <1>2, <2>2, FoundStays
<1>5. CASE RecordPayment(r)
  <2>1. PICK i \in RowIds :
          rows' = [rows EXCEPT ![i] =
                     [uuid |-> req[r].uuid, linked |-> req[r].linked, status |-> "COMPLETED"]]
    BY <1>5, FreeRow DEF RecordPayment, FreeRows
  <2>2. rows'[i].uuid = u /\ rows'[i].status # "NONE"
    BY <1>1, <2>1 DEF Typed, Rows
  <2> QED BY <2>1, <2>2 DEF Found
<1>6. CASE Deny(r) \/ RecordFails(r)
  BY <1>6 DEF Deny, RecordFails, Finish, Idle, HasRecorded, Typed, Slots
<1> QED
  BY <1>3, <1>4, <1>5, <1>6 DEF Step, ApplyToBalance, ReadSchedule, WriteSchedule, Answer, At,
     HasRecorded

LEMMA NextKept == Typed /\ RowsKept /\ [Next]_vars => RowsKept'
<1> SUFFICES ASSUME Typed, RowsKept, [Next]_vars, balance'.open,
                    NEW u \in Uuids, Answered(u)'
             PROVE  Found(u)' # {}
  BY DEF RowsKept
<1>1. balance.open
  BY OnceRemoved
<1>2. CASE Answered(u)
  BY <1>1, <1>2, FoundStays DEF RowsKept
<1>3. ASSUME NEW r \in Requests, Step(r) PROVE Found(u)' # {}
  <2>1. \A x \in Requests \ {r} : req'[x] = req[x]
    BY <1>3, OthersStay DEF Typed
  <2>2. CASE u \in told' \ told
    <3>1. Answer(r) /\ u = req[r].uuid
      BY <1>3, <2>2 DEF Step, LookUp, Deny, RecordPayment, RecordFails, ApplyToBalance,
         ReadSchedule, WriteSchedule, Answer
    <3> QED BY <1>2, <3>1 DEF Answer, At, Answered, HasRecorded
  <2>3. CASE req'[r].pc \in HasRecorded /\ req'[r].uuid = u
    BY <1>1, <1>3, <2>3, StepKept
  <2> QED BY <1>2, <2>1, <2>2, <2>3 DEF Answered
<1>4. ASSUME NEW r \in Requests, NEW v \in Uuids, NEW linked \in BOOLEAN,
             Verify(r, v, linked)
      PROVE  Found(u)' # {}
  <2>1. req'[r].pc \notin HasRecorded /\ told' = told
    BY <1>4 DEF Verify, HasRecorded, Typed, Slots
  <2>2. \A x \in Requests \ {r} : req'[x] = req[x]
    BY <1>4, OthersStay DEF Typed
  <2> QED BY <1>2, <2>1, <2>2 DEF Answered
<1>5. CASE Crash
  BY <1>2, <1>5 DEF Crash, Idle, HasRecorded, Answered
<1>6. CASE req' = req /\ told' = told
  BY <1>2, <1>6 DEF Answered
<1> QED
  BY <1>3, <1>4, <1>5, <1>6 DEF Next, PayAtGateway, Webhook, UpdateStatus, RemoveLoan, vars

LEMMA AlwaysKept == Spec => []RowsKept
<1>1. Init => RowsKept
  BY DEF Init, RowsKept, Answered, Idle, HasRecorded
<1>2. Typed /\ RowsKept /\ [Next]_vars => RowsKept'
  BY NextKept
<1> QED BY <1>1, <1>2, AlwaysTyped, PTL DEF Spec

\* Each payment that was answered has a row of its own among those that the
\* balance accounts for.
LEMMA KeptSuffices == Typed /\ MoneyIsAccounted /\ RowsKept => AnsweredIsCounted
<1> SUFFICES ASSUME Typed, MoneyIsAccounted, RowsKept, balance.open
             PROVE  AnsweredIsCounted
  BY DEF AnsweredIsCounted
<1> DEFINE recovered == {u \in Uuids : \E i \in Found(u) : ~rows[i].linked}
           counted == told \ recovered
           worth == [i \in Recorded |-> Amount[rows[i].uuid]]
           row == [u \in counted |-> CHOOSE i \in Found(u) : TRUE]
<1>1. counted \subseteq Uuids /\ IsFiniteSet(counted)
  BY RepaymentAssumption, FS_Subset DEF Typed, Past
<1>2. \A u \in counted : row[u] \in Found(u)
  BY <1>1 DEF RowsKept, Answered
<1>3. \A u \in counted : \A i \in Found(u) : i \in Recorded /\ rows[i].uuid = u
  BY <1>1 DEF Found, Recorded
<1>4. \A u \in counted : worth[row[u]] = Amount[u]
  BY <1>2, <1>3
<1>5. Valued(rows, Recorded)
  BY RecordedType DEF Typed
<1>6. Nats(worth, Recorded) /\ Nats(Amount, counted)
  BY <1>1, <1>5, ValuedAmounts, AmountType DEF Nats
<1>7. \A u \in counted : row[u] \in Recorded /\ Amount[u] <= worth[row[u]]
  BY <1>1, <1>2, <1>3, <1>4, AmountType
<1>8. \A u, v \in counted : row[u] = row[v] => u = v
  BY <1>2, <1>3
<1>9. SumOfRows(Recorded) = SumOver(worth, Recorded)
  BY RecordedIsSum, AmountsAreSum
<1>10. MapThenSumSet(LAMBDA u : Amount[u], counted) = SumOver(Amount, counted)
  BY DEF SumOver
<1> HIDE DEF counted, worth, row
<1>11. SumOver(Amount, counted) <= SumOver(worth, Recorded)
  BY <1>1, <1>5, <1>6, <1>7, <1>8, SumWithin DEF Valued
<1>12. balance.paid + Pending + lost = SumOfRows(Recorded)
  BY DEF MoneyIsAccounted
<1>13. MapThenSumSet(LAMBDA u : Amount[u], counted) <= balance.paid + Pending + lost
  BY <1>9, <1>10, <1>11, <1>12
<1> QED BY <1>13 DEF AnsweredIsCounted, counted

\* For every set of handlers and payments: the money of the payments whose
\* clients were answered success is in the balance, on its way there in another
\* handler or lost by a crash, unless a client recovered the payment without
\* the contract, although the answer to a retry looks at the row alone.
THEOREM AnsweredIsCountedHolds == Spec => []AnsweredIsCounted
<1>1. Typed /\ MoneyIsAccounted /\ RowsKept => AnsweredIsCounted
  BY KeptSuffices
<1> QED BY <1>1, AlwaysTyped, AlwaysKept, MoneyIsAccountedHolds, PTL
===============================================================================
