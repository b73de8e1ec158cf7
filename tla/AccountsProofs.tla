---------------------------- MODULE AccountsProofs ----------------------------
(***************************************************************************)
(* For all terms a contract can be signed with, however its repayment      *)
(* goes: the schedule adds up and its dates rise, balance and pending      *)
(* payments cover the amount due, collections exceed the balance by what   *)
(* was posted or interrupted, the wallet counts every row once, and a      *)
(* dashboard that no write disturbed agrees with itself.                   *)
(***************************************************************************)
EXTENDS Accounts, Sums, SequenceTheorems

-----------------------------------------------------------------------------
(* Rounding.                                                               *)

LEMMA DivFacts ==
  ASSUME NEW n \in Int, NEW d \in Nat \ {0}
  PROVE  /\ n \div d \in Int
         /\ d * (n \div d) <= n /\ n < d * (n \div d) + d
OBVIOUS

LEMMA RoundFacts ==
  ASSUME NEW n \in Int, NEW d \in Nat \ {0}
  PROVE  /\ Round(n, d) \in Int
         /\ 2 * d * Round(n, d) <= 2 * n + d
         /\ 2 * n + d < 2 * d * Round(n, d) + 2 * d
<1>1. 2 * n + d \in Int /\ 2 * d \in Nat \ {0}
  OBVIOUS
<1> QED BY <1>1, DivFacts DEF Round

LEMMA CeilFacts ==
  ASSUME NEW n \in Int, NEW d \in Nat \ {0}
  PROVE  /\ Ceil(n, d) \in Int
         /\ n <= d * Ceil(n, d) /\ d * Ceil(n, d) <= n + d - 1
<1>1. n + d - 1 \in Int
  OBVIOUS
<1> QED BY <1>1, DivFacts DEF Ceil

-----------------------------------------------------------------------------
(* The numbers of a contract.                                              *)

LEMMA TermsType ==
  ASSUME NEW c \in Offers
  PROVE  /\ c.amount \in Nat /\ c.rate \in Nat /\ c.term \in Nat \ {0}
         /\ c.frequency \in Frequencies /\ c.start.month \in Nat
         /\ c.start.day \in 1 .. MonthLength(c.start.month)
         /\ c.start.month + c.term + 2 <= LastMonth
BY AccountsAssumption

LEMMA SumIsSumOver == ASSUME NEW f PROVE Sum(f) = SumOver(f, DOMAIN f)
BY DEF Sum, SumOver

\* All the installments but the last are the same.
LEMMA AllButLast ==
  ASSUME NEW n \in Nat \ {0}, NEW f, DOMAIN f = 1 .. n, NEW c \in Int, f[n] \in Int,
         \A i \in 1 .. n - 1 : f[i] = c
  PROVE  Sum(f) = (n - 1) * c + f[n]
<1>1. IsFiniteSet(1 .. n - 1) /\ Cardinality(1 .. n - 1) = n - 1
  BY FS_Interval
<1>2. SumOver(f, 1 .. n - 1) = (n - 1) * c
  BY <1>1, SumOfConstant
<1>3. n \notin 1 .. n - 1 /\ 1 .. n = (1 .. n - 1) \union {n}
  OBVIOUS
<1>4. Ints(f, (1 .. n - 1) \union {n})
  BY DEF Ints
<1>5. SumOver(f, (1 .. n - 1) \union {n}) = f[n] + SumOver(f, 1 .. n - 1)
  BY <1>1, <1>3, <1>4, SumAdds
<1>6. (n - 1) * c \in Int
  OBVIOUS
<1>7. Sum(f) = SumOver(f, (1 .. n - 1) \union {n})
  BY <1>3, SumIsSumOver
<1> HIDE DEF SumOver
<1>8. Sum(f) = f[n] + (n - 1) * c
  BY <1>2, <1>5, <1>7
<1> QED BY <1>6, <1>8

\* How many installments there are.
LEMMA CountType ==
  ASSUME NEW c \in Offers
  PROVE  /\ TotalInstallments(c) \in Nat \ {0}
         /\ c.frequency = "WEEKLY" => 7 * (TotalInstallments(c) - 1) < 30 * c.term
         /\ c.frequency = "QUARTERLY" => 3 * (TotalInstallments(c) - 1) < c.term
         /\ c.frequency = "MONTHLY" => TotalInstallments(c) = c.term
<1>1. c.term \in Nat \ {0} /\ c.term * 30 \in Nat
  BY TermsType
<1>2. /\ Ceil(c.term * 30, 7) \in Int /\ c.term * 30 <= 7 * Ceil(c.term * 30, 7)
      /\ 7 * Ceil(c.term * 30, 7) <= c.term * 30 + 6
  BY <1>1 DEF Ceil
<1>3. /\ Ceil(c.term, 3) \in Int /\ c.term <= 3 * Ceil(c.term, 3)
      /\ 3 * Ceil(c.term, 3) <= c.term + 2
  BY <1>1 DEF Ceil
<1>4. CASE c.frequency = "WEEKLY"
  <2>1. TotalInstallments(c) = Ceil(c.term * 30, 7)
    BY <1>4 DEF TotalInstallments
  <2> QED BY <1>1, <1>2, <1>4, <2>1
<1>5. CASE c.frequency = "QUARTERLY"
  <2>1. TotalInstallments(c) = Ceil(c.term, 3)
    BY <1>5 DEF TotalInstallments
  <2> QED BY <1>1, <1>3, <1>5, <2>1
<1>6. CASE c.frequency = "MONTHLY"
  BY <1>1, <1>6 DEF TotalInstallments
<1> QED BY <1>4, <1>5, <1>6, TermsType DEF Frequencies

\* What is computed from the terms are numbers.
LEMMA InterestType ==
  ASSUME NEW c \in Offers PROVE Interest(c) \in Nat
<1>1. c.amount \in Nat /\ c.rate \in Nat /\ c.term \in Nat
  BY TermsType
<1>2. c.amount * c.rate \in Nat
  BY <1>1
<1> QED BY <1>1, <1>2 DEF Interest

LEMMA RoundOfNat ==
  ASSUME NEW n \in Nat, NEW d \in Nat \ {0} PROVE Round(n, d) \in Nat
<1>1. Round(n, d) \in Int /\ 2 * n + d < 2 * d * Round(n, d) + 2 * d
  BY RoundFacts
<1> DEFINE r == Round(n, d)
<1>2. CASE r < 0
  <2>1. d * r <= -d
    BY <1>1, <1>2
  <2> QED BY <1>1, <2>1
<1> QED BY <1>1, <1>2

LEMMA CutAtZero ==
  ASSUME NEW x \in Int
  PROVE  AtLeastZero(x) \in Nat /\ x <= AtLeastZero(x) /\ AtLeastZero(x) \in {x, 0}
BY DEF AtLeastZero

LEMMA RoundShifts ==
  ASSUME NEW x \in Int, NEW k \in Int PROVE Round(x + 1200 * k, 1200) = Round(x, 1200) + k
BY DEF Round

-----------------------------------------------------------------------------
(* What rounding leaves for the last row.                                  *)

\* Rounding every installment leaves the last one less than half a cent short
\* for each of the others.
LEMMA LastTakesTheRest ==
  ASSUME NEW n \in Nat \ {0}, NEW a \in Nat,
         NEW each, each = Round(a, 1200 * n), NEW due, due = Round(a, 1200),
         NEW last, last = AtLeastZero(due - (n - 1) * each)
  PROVE  /\ (n - 1) * each \in Nat /\ each \in Nat /\ due \in Nat /\ last \in Nat
         /\ 0 <= (n - 1) * each + last - due
         /\ 2 * ((n - 1) * each + last - due) <= n - 1
         /\ (n - 1) * each + last - due > 0 => last = 0
<1>1. 1200 * n \in Nat \ {0}
  OBVIOUS
<1>2. each \in Nat /\ due \in Nat
  BY <1>1, RoundOfNat
<1> DEFINE all == n * each
           most == (n - 1) * each
<1>3. all \in Nat /\ most \in Nat /\ most = all - each
  BY <1>2
<1>4. 2 * (1200 * n) * each <= 2 * a + 1200 * n
  BY <1>1, RoundFacts
<1>5. 2 * (1200 * n) * each = 2400 * all
  BY <1>2
<1>6. 2 * a + 1200 < 2400 * due + 2400
  BY RoundFacts
<1>7. each = 0 => all = 0
  BY <1>2
<1> HIDE DEF all, most
<1>8. 2400 * all <= 2 * a + 1200 * n
  BY <1>4, <1>5
<1>9. 2 * (all - due) <= n
  BY <1>2, <1>3, <1>6, <1>8
<1>10. last \in Nat /\ due - most <= last /\ last \in {due - most, 0}
  BY <1>2, <1>3, CutAtZero DEF most
<1>11. /\ 0 <= most + last - due
       /\ 2 * (most + last - due) <= n - 1
       /\ most + last - due > 0 => last = 0
  <2>1. CASE last = due - most
    BY <1>2, <1>3, <2>1
  <2>2. CASE last = 0 /\ each = 0
    <3>1. most = 0
      BY <1>3, <1>7, <2>2
    <3>2. due = 0
      BY <1>2, <1>10, <2>2, <3>1
    <3> QED BY <2>2, <3>1, <3>2
  <2>3. CASE last = 0 /\ each # 0
    BY <1>2, <1>3, <1>9, <1>10, <2>3
  <2> QED BY <1>10, <2>1, <2>2, <2>3
<1> QED BY <1>2, <1>3, <1>10, <1>11 DEF most

\* Three roundings are a cent apart at most.
LEMMA RowGap ==
  ASSUME NEW n \in Nat \ {0}, NEW a \in Nat, NEW b \in Nat
  PROVE  Round(a, n) + Round(b, 1200 * n) - Round(a * 1200 + b, 1200 * n) \in -1 .. 1
<1> DEFINE p == Round(a, n)
           q == Round(b, 1200 * n)
           t == Round(a * 1200 + b, 1200 * n)
<1>1. 1200 * n \in Nat \ {0} /\ a * 1200 + b \in Nat
  OBVIOUS
<1>2. p \in Nat /\ q \in Nat /\ t \in Nat
  BY <1>1, RoundOfNat
<1>3. /\ 2 * n * p <= 2 * a + n /\ 2 * a + n < 2 * n * p + 2 * n
      /\ 2 * (1200 * n) * q <= 2 * b + 1200 * n
      /\ 2 * b + 1200 * n < 2 * (1200 * n) * q + 2 * (1200 * n)
      /\ 2 * (1200 * n) * t <= 2 * (a * 1200 + b) + 1200 * n
      /\ 2 * (a * 1200 + b) + 1200 * n < 2 * (1200 * n) * t + 2 * (1200 * n)
  BY <1>1, RoundFacts
<1> HIDE DEF p, q, t
<1>4. PICK x \in Nat, y \in Nat, z \in Nat : x = n * p /\ y = n * q /\ z = n * t
  <2>1. n * p \in Nat /\ n * q \in Nat /\ n * t \in Nat
    BY <1>2
  <2> QED BY <2>1
<1>5. /\ 2 * n * p = 2 * x /\ 2 * (1200 * n) * q = 2400 * y /\ 2 * (1200 * n) * t = 2400 * z
  BY <1>2, <1>4
<1>6. /\ 2 * x <= 2 * a + n /\ 2 * a + n < 2 * x + 2 * n
      /\ 2400 * y <= 2 * b + 1200 * n
      /\ 2 * b + 1200 * n < 2400 * y + 2400 * n
      /\ 2400 * z <= 2400 * a + 2 * b + 1200 * n
      /\ 2400 * a + 2 * b + 1200 * n < 2400 * z + 2400 * n
  BY <1>3, <1>5
<1>7. x + y - z < 2 * n /\ -2 * n < x + y - z
  BY <1>4, <1>6
<1>8. n * (p + q - t) = x + y - z
  BY <1>2, <1>4
<1>9. PICK g \in Int : g = p + q - t
  BY <1>2
<1>10. n * g < 2 * n /\ -2 * n < n * g
  BY <1>7, <1>8, <1>9
<1>11. g < 2 /\ -2 < g
  <2>1. g >= 2 => n * g >= 2 * n
    BY <1>9
  <2>2. g <= -2 => n * g <= -2 * n
    BY <1>9
  <2> QED BY <1>9, <1>10, <2>1, <2>2
<1> QED BY <1>9, <1>11 DEF p, q, t

-----------------------------------------------------------------------------
(* The rows of the schedule.                                               *)

InstallmentRows ==
  [due: Nat, principal: Nat, interest: Nat, total: Nat, paid: Nat, status: {"PENDING", "PAID"}]

\* What is left for the last row.
LeftPrincipal(c) == c.amount - (TotalInstallments(c) - 1) * Principal(c)
LeftInterest(c)  == Interest(c) - 1200 * (TotalInstallments(c) - 1) * InterestPart(c)
LeftTotal(c)     == TotalAmountDue(c) - (TotalInstallments(c) - 1) * InstallmentAmount(c)

\* What the rows of a schedule are made of.
LEMMA RegularRow ==
  ASSUME NEW c \in Offers, NEW i \in 1 .. TotalInstallments(c) - 1
  PROVE  /\ i \in 1 .. TotalInstallments(c)
         /\ Schedules(c)[i].due = DueDate(c, i)
         /\ Schedules(c)[i].principal = Principal(c)
         /\ Schedules(c)[i].interest = InterestPart(c)
         /\ Schedules(c)[i].total = InstallmentAmount(c)
         /\ Schedules(c)[i].paid = 0 /\ Schedules(c)[i].status = "PENDING"
<1>1. i \in 1 .. TotalInstallments(c) /\ i < TotalInstallments(c)
  BY CountType
<1>2. Schedules(c)[i] = Regular(c, i)
  BY <1>1 DEF Schedules
<1> QED BY <1>1, <1>2 DEF Regular, Parts

LEMMA FinalRow ==
  ASSUME NEW c \in Offers
  PROVE  /\ TotalInstallments(c) \in 1 .. TotalInstallments(c)
         /\ LET row == Schedules(c)[TotalInstallments(c)]
            IN /\ row.due = DueDate(c, TotalInstallments(c))
               /\ row.principal = AtLeastZero(LeftPrincipal(c))
               /\ row.interest = Round(AtLeastZero(LeftInterest(c)), 1200)
               /\ row.total = AtLeastZero(LeftTotal(c))
               /\ row.paid = 0 /\ row.status = "PENDING"
<1>1. TotalInstallments(c) \in 1 .. TotalInstallments(c)
  BY CountType
<1>2. Schedules(c)[TotalInstallments(c)] = LastRow(c)
  BY <1>1 DEF Schedules
<1> QED BY <1>1, <1>2 DEF LastRow, Parts, LeftPrincipal, LeftInterest, LeftTotal

LEMMA LastOrNot ==
  ASSUME NEW c \in Offers, NEW i \in 1 .. TotalInstallments(c)
  PROVE  i = TotalInstallments(c) \/ i \in 1 .. TotalInstallments(c) - 1
BY CountType

\* Rows with the amounts of the schedule, whatever was paid on them.
PlannedAmounts(c, rows) ==
  /\ Len(rows) = TotalInstallments(c)
  /\ \A i \in 1 .. TotalInstallments(c) :
       /\ rows[i].due = Schedules(c)[i].due
       /\ rows[i].principal = Schedules(c)[i].principal
       /\ rows[i].interest = Schedules(c)[i].interest
       /\ rows[i].total = Schedules(c)[i].total

LEMMA PlanTypes ==
  ASSUME NEW c \in Offers
  PROVE  /\ Principal(c) \in Nat /\ InterestPart(c) \in Nat /\ InstallmentAmount(c) \in Nat
         /\ TotalAmountDue(c) \in Nat
         /\ LeftPrincipal(c) \in Int /\ LeftInterest(c) \in Int /\ LeftTotal(c) \in Int
<1> DEFINE n == TotalInstallments(c)
<1>1. n \in Nat \ {0} /\ 1200 * n \in Nat \ {0} /\ n - 1 \in Nat
  BY CountType
<1>2. c.amount \in Nat /\ Interest(c) \in Nat /\ c.amount * 1200 + Interest(c) \in Nat
  BY TermsType, InterestType
<1>3. Principal(c) \in Nat
  BY <1>1, <1>2, RoundOfNat DEF Principal
<1>4. InterestPart(c) \in Nat
  BY <1>1, <1>2, RoundOfNat DEF InterestPart
<1>5. InstallmentAmount(c) \in Nat
  BY <1>1, <1>2, RoundOfNat DEF InstallmentAmount
<1>6. TotalAmountDue(c) \in Nat
  BY <1>2, RoundOfNat DEF TotalAmountDue
<1> HIDE DEF n
<1>7. /\ c.amount - (n - 1) * Principal(c) \in Int
      /\ TotalAmountDue(c) - (n - 1) * InstallmentAmount(c) \in Int
  BY <1>1, <1>2, <1>3, <1>5, <1>6
<1>8. Interest(c) - 1200 * (n - 1) * InterestPart(c) \in Int
  <2>1. 1200 * (n - 1) \in Nat
    BY <1>1
  <2>2. 1200 * (n - 1) * InterestPart(c) \in Nat
    BY <1>4, <2>1
  <2> QED BY <1>2, <2>2
<1> QED
  BY <1>3, <1>4, <1>5, <1>6, <1>7, <1>8 DEF LeftPrincipal, LeftInterest, LeftTotal, n

LEMMA RowTypes ==
  ASSUME NEW c \in Offers, NEW i \in 1 .. TotalInstallments(c)
  PROVE  /\ Schedules(c)[i].principal \in Nat /\ Schedules(c)[i].interest \in Nat
         /\ Schedules(c)[i].total \in Nat /\ Schedules(c)[i].due = DueDate(c, i)
         /\ Schedules(c)[i].paid = 0 /\ Schedules(c)[i].status = "PENDING"
<1>1. CASE i \in 1 .. TotalInstallments(c) - 1
  <2>1. /\ Schedules(c)[i].due = DueDate(c, i)
        /\ Schedules(c)[i].principal = Principal(c)
        /\ Schedules(c)[i].interest = InterestPart(c)
        /\ Schedules(c)[i].total = InstallmentAmount(c)
        /\ Schedules(c)[i].paid = 0 /\ Schedules(c)[i].status = "PENDING"
    BY <1>1, RegularRow
  <2> QED BY <2>1, PlanTypes
<1>2. CASE i = TotalInstallments(c)
  <2>1. /\ AtLeastZero(LeftPrincipal(c)) \in Nat /\ AtLeastZero(LeftInterest(c)) \in Nat
        /\ AtLeastZero(LeftTotal(c)) \in Nat
    BY PlanTypes, CutAtZero
  <2>2. Round(AtLeastZero(LeftInterest(c)), 1200) \in Nat
    BY <2>1, RoundOfNat
  <2> QED BY <1>2, <2>1, <2>2, FinalRow
<1> QED BY <1>1, <1>2, LastOrNot

\* The amounts of rows like those of the schedule add up as if by hand.
LEMMA PlanCovers ==
  ASSUME NEW c \in Offers, NEW rows, PlannedAmounts(c, rows) PROVE CoversDue(c, rows)
<1>20. \A i \in 1 .. TotalInstallments(c) - 1 :
         i \in 1 .. TotalInstallments(c) /\ Schedules(c)[i].total = InstallmentAmount(c)
  BY RegularRow
<1>21. /\ TotalInstallments(c) \in 1 .. TotalInstallments(c)
       /\ Schedules(c)[TotalInstallments(c)].total = AtLeastZero(LeftTotal(c))
  BY FinalRow
<1> DEFINE n == TotalInstallments(c)
           a == c.amount * 1200 + Interest(c)
           f == [i \in 1 .. n |-> rows[i].total]
           each == InstallmentAmount(c)
           due == TotalAmountDue(c)
           last == rows[n].total
<1>1. n \in Nat \ {0} /\ c.amount \in Nat /\ Interest(c) \in Nat
  BY CountType, TermsType, InterestType
<1>2. a \in Nat /\ each = Round(a, 1200 * n) /\ due = Round(a, 1200)
  BY <1>1 DEF InstallmentAmount, TotalAmountDue
<1>3. last = AtLeastZero(due - (n - 1) * each)
  <2>1. /\ TotalInstallments(c) \in 1 .. TotalInstallments(c)
        /\ Schedules(c)[TotalInstallments(c)].total = AtLeastZero(LeftTotal(c))
    BY <1>21
  <2> QED BY <2>1 DEF PlannedAmounts, LeftTotal
<1>4. \A i \in 1 .. TotalInstallments(c) - 1 : rows[i].total = InstallmentAmount(c)
  <2> SUFFICES ASSUME NEW i \in 1 .. TotalInstallments(c) - 1
               PROVE  rows[i].total = InstallmentAmount(c)
    OBVIOUS
  <2>1. i \in 1 .. TotalInstallments(c) /\ Schedules(c)[i].total = InstallmentAmount(c)
    BY <1>20
  <2> QED BY <2>1 DEF PlannedAmounts
<1>5. DOMAIN f = 1 .. n /\ f[n] = last /\ \A i \in 1 .. n - 1 : f[i] = each
  BY <1>1, <1>4
<1>6. CoversDue(c, rows) <=>
        /\ 0 <= Sum(f) - due /\ 2 * (Sum(f) - due) <= n - 1
        /\ Sum(f) - due > 0 => last = 0
  BY DEF CoversDue, PlannedAmounts
<1> HIDE DEF a, f, n, each, due, last
<1>7. /\ (n - 1) * each \in Nat /\ each \in Nat /\ due \in Nat /\ last \in Nat
      /\ 0 <= (n - 1) * each + last - due
      /\ 2 * ((n - 1) * each + last - due) <= n - 1
      /\ (n - 1) * each + last - due > 0 => last = 0
  BY <1>1, <1>2, <1>3, LastTakesTheRest
<1>8. Sum(f) = (n - 1) * each + last
  <2>1. each \in Int /\ f[n] \in Int
    BY <1>5, <1>7
  <2> QED BY <1>1, <1>5, <2>1, AllButLast
<1> QED BY <1>6, <1>7, <1>8

LEMMA PlanPartsAddUp ==
  ASSUME NEW c \in Offers, NEW rows, PlannedAmounts(c, rows) PROVE PartsAddUp(c, rows)
<1>20. \A i \in 1 .. TotalInstallments(c) - 1 :
         /\ i \in 1 .. TotalInstallments(c)
         /\ Schedules(c)[i].principal = Principal(c)
         /\ Schedules(c)[i].interest = InterestPart(c)
         /\ Schedules(c)[i].total = InstallmentAmount(c)
  BY RegularRow
<1>21. /\ TotalInstallments(c) \in 1 .. TotalInstallments(c)
       /\ Schedules(c)[TotalInstallments(c)].principal = AtLeastZero(LeftPrincipal(c))
       /\ Schedules(c)[TotalInstallments(c)].interest
            = Round(AtLeastZero(LeftInterest(c)), 1200)
       /\ Schedules(c)[TotalInstallments(c)].total = AtLeastZero(LeftTotal(c))
  BY FinalRow
<1>22. TotalAmountDue(c) = Round(Interest(c), 1200) + c.amount
  <2>1. PICK x \in Int, k \in Int : x = Interest(c) /\ k = c.amount
    BY TermsType, InterestType
  <2>4. Round(x + 1200 * k, 1200) = Round(x, 1200) + k
    BY RoundShifts
  <2>2. Round(Interest(c) + 1200 * c.amount, 1200) = Round(Interest(c), 1200) + c.amount
    BY <2>1, <2>4
  <2>3. c.amount * 1200 + Interest(c) = Interest(c) + 1200 * c.amount
    BY <2>1
  <2> QED BY <2>2, <2>3 DEF TotalAmountDue
<1> DEFINE n == TotalInstallments(c)
           gap(i) == rows[i].principal + rows[i].interest - rows[i].total
           f == [i \in 1 .. n |-> gap(i)]
           p == Principal(c)
           j == InterestPart(c)
           t == InstallmentAmount(c)
<1>1. n \in Nat \ {0} /\ c.amount \in Nat /\ Interest(c) \in Nat
  BY CountType, TermsType, InterestType
<1>2. p \in Nat /\ j \in Nat /\ t \in Nat /\ p + j - t \in -1 .. 1
  BY <1>1, RowGap, PlanTypes DEF Principal, InterestPart, InstallmentAmount
<1>3. \A i \in 1 .. TotalInstallments(c) - 1 :
        i \in 1 .. TotalInstallments(c) /\ gap(i) = p + j - t
  <2> SUFFICES ASSUME NEW i \in 1 .. TotalInstallments(c) - 1
               PROVE  i \in 1 .. TotalInstallments(c) /\ gap(i) = p + j - t
    OBVIOUS
  <2>1. /\ i \in 1 .. TotalInstallments(c)
        /\ Schedules(c)[i].total = t /\ Schedules(c)[i].interest = j
        /\ Schedules(c)[i].principal = p
    BY <1>20
  <2> QED BY <2>1 DEF PlannedAmounts
<1>4. /\ n \in 1 .. n
      /\ rows[n].principal = AtLeastZero(LeftPrincipal(c))
      /\ rows[n].interest = Round(AtLeastZero(LeftInterest(c)), 1200)
      /\ rows[n].total = AtLeastZero(LeftTotal(c))
  <2>1. /\ TotalInstallments(c) \in 1 .. TotalInstallments(c)
        /\ Schedules(c)[TotalInstallments(c)].principal = AtLeastZero(LeftPrincipal(c))
        /\ Schedules(c)[TotalInstallments(c)].interest
             = Round(AtLeastZero(LeftInterest(c)), 1200)
        /\ Schedules(c)[TotalInstallments(c)].total = AtLeastZero(LeftTotal(c))
    BY <1>21
  <2> QED BY <2>1 DEF PlannedAmounts
<1>5. ASSUME rows[n].principal > 0, rows[n].interest > 0, rows[n].total > 0
      PROVE  Sum(f) = 0
  <2>1. rows[n].principal = LeftPrincipal(c) /\ rows[n].total = LeftTotal(c)
    BY <1>4, <1>5, PlanTypes, CutAtZero
  <2>2. rows[n].interest = Round(LeftInterest(c), 1200)
    <3>1. Round(0, 1200) = 0
      BY DEF Round
    <3> QED BY <1>4, <1>5, <3>1, PlanTypes, CutAtZero
  <2> DEFINE ps == (n - 1) * p
             js == (n - 1) * j
             ts == (n - 1) * t
  <2>3. ps \in Int /\ js \in Int /\ ts \in Int
    BY <1>1, <1>2
  <2>4. /\ LeftPrincipal(c) = c.amount - ps
        /\ LeftTotal(c) = TotalAmountDue(c) - ts
    BY DEF LeftPrincipal, LeftTotal
  <2>5. LeftInterest(c) = Interest(c) + 1200 * (-js)
    BY <1>1, <1>2 DEF LeftInterest
  <2>6. Round(LeftInterest(c), 1200) = Round(Interest(c), 1200) - js
    <3> HIDE DEF js
    <3>1. -js \in Int /\ Interest(c) \in Int
      BY <1>1, <2>3
    <3>2. Round(Interest(c) + 1200 * (-js), 1200) = Round(Interest(c), 1200) + (-js)
      BY <3>1, RoundShifts
    <3>3. Round(Interest(c), 1200) \in Nat
      BY <1>1, RoundOfNat
    <3> QED BY <2>3, <2>5, <3>2, <3>3
  <2>7. TotalAmountDue(c) = Round(Interest(c), 1200) + c.amount
    BY <1>22
  <2>8. Round(Interest(c), 1200) \in Nat
    BY <1>1, RoundOfNat
  <2>9. (n - 1) * (p + j - t) = ps + js - ts
    BY <1>1, <1>2
  <2>10. f[n] = rows[n].principal + rows[n].interest - rows[n].total
    BY <1>4
  <2>11. DOMAIN f = 1 .. n /\ \A i \in 1 .. n - 1 : f[i] = p + j - t
    BY <1>3
  <2> HIDE DEF n, p, j, t, f, ps, js, ts
  <2>12. f[n] = ts - ps - js /\ f[n] \in Int
    BY <1>1, <2>1, <2>2, <2>3, <2>4, <2>6, <2>7, <2>8, <2>10
  <2>13. p + j - t \in Int
    BY <1>2
  <2>14. Sum(f) = (n - 1) * (p + j - t) + f[n]
    BY <1>1, <2>11, <2>12, <2>13, AllButLast
  <2> QED BY <2>3, <2>9, <2>12, <2>14
<1>6. Len(rows) = n
  BY DEF PlannedAmounts
<1>7. \A i \in 1 .. n - 1 : gap(i) \in -1 .. 1
  BY <1>2, <1>3
<1> QED BY <1>5, <1>6, <1>7 DEF PartsAddUp

-----------------------------------------------------------------------------
(* The calendar: the days before each month.                               *)

LEMMA MonthLengths ==
  /\ MonthLength(0) = 31 /\ MonthLength(1) = 28 /\ MonthLength(2) = 31 /\ MonthLength(3) = 30
  /\ MonthLength(4) = 31 /\ MonthLength(5) = 30 /\ MonthLength(6) = 31 /\ MonthLength(7) = 31
  /\ MonthLength(8) = 30 /\ MonthLength(9) = 31 /\ MonthLength(10) = 30 /\ MonthLength(11) = 31
  /\ MonthLength(12) = 31 /\ MonthLength(13) = 29 /\ MonthLength(14) = 31 /\ MonthLength(15) = 30
  /\ MonthLength(16) = 31 /\ MonthLength(17) = 30 /\ MonthLength(18) = 31 /\ MonthLength(19) = 31
  /\ MonthLength(20) = 30 /\ MonthLength(21) = 31 /\ MonthLength(22) = 30 /\ MonthLength(23) = 31
BY DEF MonthLength

LEMMA LengthType ==
  ASSUME NEW m \in Nat PROVE MonthLength(m) \in 28 .. 31
BY DEF MonthLength

LEMMA NextMonth ==
  ASSUME NEW m \in 0 .. LastMonth
  PROVE  DaysBefore[m + 1] = DaysBefore[m] + MonthLength(m)
<1> DEFINE f == [k \in 0 .. (m + 1) - 1 |-> MonthLength(k)]
           g == [k \in 0 .. m - 1 |-> MonthLength(k)]
<1>1. LastMonth = 23 /\ m \in Nat /\ m <= 23
  BY DEF LastMonth
<1>2. m \in 0 .. LastMonth + 1 /\ m + 1 \in 0 .. LastMonth + 1
  BY <1>1
<1>3. DaysBefore[m + 1] = Sum(f) /\ DaysBefore[m] = Sum(g)
  BY <1>2 DEF DaysBefore
<1>4. IsFiniteSet(0 .. m - 1) /\ m \notin 0 .. m - 1
  BY <1>1, FS_Interval
<1>5. DOMAIN f = (0 .. m - 1) \union {m} /\ DOMAIN g = 0 .. m - 1
  BY <1>1
<1>6. \A k \in (0 .. m - 1) \union {m} : f[k] = MonthLength(k) /\ MonthLength(k) \in Int
  <2> SUFFICES ASSUME NEW k \in (0 .. m - 1) \union {m}
               PROVE  f[k] = MonthLength(k) /\ MonthLength(k) \in Int
    OBVIOUS
  <2>1. k \in 0 .. (m + 1) - 1 /\ k \in Nat
    BY <1>1
  <2> QED BY <2>1, LengthType
<1>7. \A k \in 0 .. m - 1 : g[k] = MonthLength(k)
  OBVIOUS
<1>8. Sum(f) = SumOver(f, (0 .. m - 1) \union {m}) /\ Sum(g) = SumOver(g, 0 .. m - 1)
  <2>1. Sum(f) = SumOver(f, DOMAIN f) /\ Sum(g) = SumOver(g, DOMAIN g)
    BY SumIsSumOver
  <2> QED BY <1>5, <2>1
<1> HIDE DEF f, g
<1>9. Ints(f, (0 .. m - 1) \union {m})
  BY <1>6 DEF Ints
<1>10. SumOver(f, (0 .. m - 1) \union {m}) = f[m] + SumOver(f, 0 .. m - 1)
  BY <1>4, <1>9, SumAdds
<1>11. \A k \in 0 .. m - 1 : f[k] = g[k]
  BY <1>6, <1>7
<1>12. SumOver(f, 0 .. m - 1) = SumOver(g, 0 .. m - 1)
  BY <1>4, <1>11, SumOfSame
<1>13. Ints(g, 0 .. m - 1)
  BY <1>6, <1>7 DEF Ints
<1>14. SumOver(g, 0 .. m - 1) \in Int
  BY <1>4, <1>13, SumIsInt
<1>15. f[m] = MonthLength(m) /\ MonthLength(m) \in Int
  BY <1>6
<1> QED BY <1>3, <1>8, <1>10, <1>12, <1>14, <1>15

LEMMA Calendar ==
  /\ DaysBefore[0] = 0 /\ DaysBefore[1] = 31 /\ DaysBefore[2] = 59 /\ DaysBefore[3] = 90
  /\ DaysBefore[4] = 120 /\ DaysBefore[5] = 151 /\ DaysBefore[6] = 181 /\ DaysBefore[7] = 212
  /\ DaysBefore[8] = 243 /\ DaysBefore[9] = 273 /\ DaysBefore[10] = 304 /\ DaysBefore[11] = 334
  /\ DaysBefore[12] = 365 /\ DaysBefore[13] = 396 /\ DaysBefore[14] = 425 /\ DaysBefore[15] = 456
  /\ DaysBefore[16] = 486 /\ DaysBefore[17] = 517 /\ DaysBefore[18] = 547 /\ DaysBefore[19] = 578
  /\ DaysBefore[20] = 609 /\ DaysBefore[21] = 639 /\ DaysBefore[22] = 670 /\ DaysBefore[23] = 700
  /\ DaysBefore[24] = 731
<1>1. \A m \in 0 .. 23 : DaysBefore[m + 1] = DaysBefore[m] + MonthLength(m)
  BY NextMonth DEF LastMonth
<1>2. DaysBefore[0] = 0
  <2> DEFINE g == [k \in 0 .. 0 - 1 |-> MonthLength(k)]
  <2>1. 0 \in 0 .. LastMonth + 1
    BY DEF LastMonth
  <2>2. DaysBefore[0] = Sum(g)
    BY <2>1 DEF DaysBefore
  <2>3. DOMAIN g = {}
    OBVIOUS
  <2> HIDE DEF g
  <2> QED BY <2>2, <2>3, SumIsSumOver, SumOfNothing
<1>3. DaysBefore[1] = 31
  <2>1. DaysBefore[0 + 1] = DaysBefore[0] + MonthLength(0)
    BY <1>1
  <2> QED BY <1>2, <2>1, MonthLengths
<1>4. DaysBefore[2] = 59
  <2>1. DaysBefore[1 + 1] = DaysBefore[1] + MonthLength(1)
    BY <1>1
  <2> QED BY <1>3, <2>1, MonthLengths
<1>5. DaysBefore[3] = 90
  <2>1. DaysBefore[2 + 1] = DaysBefore[2] + MonthLength(2)
    BY <1>1
  <2> QED BY <1>4, <2>1, MonthLengths
<1>6. DaysBefore[4] = 120
  <2>1. DaysBefore[3 + 1] = DaysBefore[3] + MonthLength(3)
    BY <1>1
  <2> QED BY <1>5, <2>1, MonthLengths
<1>7. DaysBefore[5] = 151
  <2>1. DaysBefore[4 + 1] = DaysBefore[4] + MonthLength(4)
    BY <1>1
  <2> QED BY <1>6, <2>1, MonthLengths
<1>8. DaysBefore[6] = 181
  <2>1. DaysBefore[5 + 1] = DaysBefore[5] + MonthLength(5)
    BY <1>1
  <2> QED BY <1>7, <2>1, MonthLengths
<1>9. DaysBefore[7] = 212
  <2>1. DaysBefore[6 + 1] = DaysBefore[6] + MonthLength(6)
    BY <1>1
  <2> QED BY <1>8, <2>1, MonthLengths
<1>10. DaysBefore[8] = 243
  <2>1. DaysBefore[7 + 1] = DaysBefore[7] + MonthLength(7)
    BY <1>1
  <2> QED BY <1>9, <2>1, MonthLengths
<1>11. DaysBefore[9] = 273
  <2>1. DaysBefore[8 + 1] = DaysBefore[8] + MonthLength(8)
    BY <1>1
  <2> QED BY <1>10, <2>1, MonthLengths
<1>12. DaysBefore[10] = 304
  <2>1. DaysBefore[9 + 1] = DaysBefore[9] + MonthLength(9)
    BY <1>1
  <2> QED BY <1>11, <2>1, MonthLengths
<1>13. DaysBefore[11] = 334
  <2>1. DaysBefore[10 + 1] = DaysBefore[10] + MonthLength(10)
    BY <1>1
  <2> QED BY <1>12, <2>1, MonthLengths
<1>14. DaysBefore[12] = 365
  <2>1. DaysBefore[11 + 1] = DaysBefore[11] + MonthLength(11)
    BY <1>1
  <2> QED BY <1>13, <2>1, MonthLengths
<1>15. DaysBefore[13] = 396
  <2>1. DaysBefore[12 + 1] = DaysBefore[12] + MonthLength(12)
    BY <1>1
  <2> QED BY <1>14, <2>1, MonthLengths
<1>16. DaysBefore[14] = 425
  <2>1. DaysBefore[13 + 1] = DaysBefore[13] + MonthLength(13)
    BY <1>1
  <2> QED BY <1>15, <2>1, MonthLengths
<1>17. DaysBefore[15] = 456
  <2>1. DaysBefore[14 + 1] = DaysBefore[14] + MonthLength(14)
    BY <1>1
  <2> QED BY <1>16, <2>1, MonthLengths
<1>18. DaysBefore[16] = 486
  <2>1. DaysBefore[15 + 1] = DaysBefore[15] + MonthLength(15)
    BY <1>1
  <2> QED BY <1>17, <2>1, MonthLengths
<1>19. DaysBefore[17] = 517
  <2>1. DaysBefore[16 + 1] = DaysBefore[16] + MonthLength(16)
    BY <1>1
  <2> QED BY <1>18, <2>1, MonthLengths
<1>20. DaysBefore[18] = 547
  <2>1. DaysBefore[17 + 1] = DaysBefore[17] + MonthLength(17)
    BY <1>1
  <2> QED BY <1>19, <2>1, MonthLengths
<1>21. DaysBefore[19] = 578
  <2>1. DaysBefore[18 + 1] = DaysBefore[18] + MonthLength(18)
    BY <1>1
  <2> QED BY <1>20, <2>1, MonthLengths
<1>22. DaysBefore[20] = 609
  <2>1. DaysBefore[19 + 1] = DaysBefore[19] + MonthLength(19)
    BY <1>1
  <2> QED BY <1>21, <2>1, MonthLengths
<1>23. DaysBefore[21] = 639
  <2>1. DaysBefore[20 + 1] = DaysBefore[20] + MonthLength(20)
    BY <1>1
  <2> QED BY <1>22, <2>1, MonthLengths
<1>24. DaysBefore[22] = 670
  <2>1. DaysBefore[21 + 1] = DaysBefore[21] + MonthLength(21)
    BY <1>1
  <2> QED BY <1>23, <2>1, MonthLengths
<1>25. DaysBefore[23] = 700
  <2>1. DaysBefore[22 + 1] = DaysBefore[22] + MonthLength(22)
    BY <1>1
  <2> QED BY <1>24, <2>1, MonthLengths
<1>26. DaysBefore[24] = 731
  <2>1. DaysBefore[23 + 1] = DaysBefore[23] + MonthLength(23)
    BY <1>1
  <2> QED BY <1>25, <2>1, MonthLengths
<1> QED
  BY <1>2, <1>3, <1>4, <1>5, <1>6, <1>7, <1>8, <1>9, <1>10, <1>11, <1>12, <1>13,
     <1>14, <1>15, <1>16, <1>17, <1>18, <1>19, <1>20, <1>21, <1>22, <1>23, <1>24, <1>25, <1>26

\* A month has 28 days or more; two months and more have thirty days each,
\* but for one day.
LEMMA MonthsApart ==
  ASSUME NEW m \in 0 .. LastMonth + 1, NEW k \in 0 .. LastMonth + 1, m < k
  PROVE  /\ DaysBefore[m] \in Nat /\ DaysBefore[k] \in Nat
         /\ DaysBefore[m] + 28 <= DaysBefore[k]
         /\ k > m + 1 => 30 * (k - m) - 1 <= DaysBefore[k] - DaysBefore[m]
<1>1. /\ m \in Nat /\ k \in Nat /\ m <= 24 /\ k <= 24
  BY DEF LastMonth
<1> QED BY <1>1, Calendar

-----------------------------------------------------------------------------
(* The due dates.                                                          *)

\* The due dates rise, the last one alone may pass the end of the contract,
\* and all of them are within the calendar.
LEMMA DueDates ==
  ASSUME NEW c \in Offers, NEW i \in 1 .. TotalInstallments(c)
  PROVE  /\ DueDate(c, i) \in Nat /\ DueDate(c, i) < DaysBefore[LastMonth + 1]
         /\ i < TotalInstallments(c) =>
              DueDate(c, i) < DueDate(c, i + 1) /\ DueDate(c, i) <= EndDate(c)
<1>1. PICK m \in Nat, t \in Nat, d \in Nat, n \in Nat :
        m = c.start.month /\ t = c.term /\ d = c.start.day /\ n = TotalInstallments(c)
  <2>1. c.start.day \in Nat
    BY TermsType, LengthType
  <2> QED BY <2>1, TermsType, CountType
<1>2. /\ 1 <= t /\ m + t <= 21 /\ 1 <= d /\ d <= 31 /\ 1 <= n /\ i \in 1 .. n
  BY <1>1, TermsType, CountType, LengthType DEF LastMonth
<1>3. LastMonth + 1 = 24 /\ EndDate(c) = DaysBefore[m + t] + d - 1
  BY <1>1 DEF LastMonth, EndDate, DateOf
<1>4. \A a, b \in 0 .. 24 : a < b =>
        /\ DaysBefore[a] \in Nat /\ DaysBefore[b] \in Nat
        /\ DaysBefore[a] + 28 <= DaysBefore[b]
        /\ b > a + 1 => 30 * (b - a) - 1 <= DaysBefore[b] - DaysBefore[a]
  BY <1>3, MonthsApart
<1>5. DaysBefore[23] = 700 /\ DaysBefore[24] = 731 /\ DaysBefore[22] = 670
  BY Calendar
<1>6. CASE c.frequency = "WEEKLY"
  <2>1. 7 * (n - 1) < 30 * t
    BY <1>1, <1>6, CountType
  <2>2. /\ DueDate(c, i) = DaysBefore[m] + d - 1 + 7 * i
        /\ DueDate(c, i + 1) = DaysBefore[m] + d - 1 + 7 * (i + 1)
    BY <1>1, <1>6 DEF DueDate, DateOf
  <2>3. PICK a \in Nat, b \in Nat : a = DaysBefore[m] /\ b = DaysBefore[m + t]
    <3>1. m \in 0 .. 24 /\ m + t \in 0 .. 24 /\ m < m + t
      BY <1>2
    <3> QED BY <1>4, <3>1
  <2>4. a + 28 <= b /\ (t > 1 => 30 * t - 1 <= b - a) /\ b + 28 <= 670
    <3>1. m \in 0 .. 24 /\ m + t \in 0 .. 24 /\ m < m + t /\ 22 \in 0 .. 24 /\ m + t < 22
      BY <1>2
    <3>2. a + 28 <= b /\ (m + t > m + 1 => 30 * ((m + t) - m) - 1 <= b - a)
      BY <1>4, <2>3, <3>1
    <3>3. b + 28 <= DaysBefore[22]
      BY <1>4, <2>3, <3>1
    <3> QED BY <1>2, <1>5, <3>2, <3>3
  <2>5. i < n => 7 * i <= b - a
    BY <1>2, <2>1, <2>4
  <2>6. 7 * i <= b - a + 7
    BY <1>2, <2>1, <2>4
  <2> QED BY <1>1, <1>2, <1>3, <1>5, <2>2, <2>3, <2>4, <2>5, <2>6
<1>7. CASE c.frequency = "QUARTERLY"
  <2>1. 3 * (n - 1) < t
    BY <1>1, <1>7, CountType
  <2>2. /\ DueDate(c, i) = DaysBefore[m + 3 * i] + d - 1
        /\ DueDate(c, i + 1) = DaysBefore[m + 3 * (i + 1)] + d - 1
    BY <1>1, <1>7 DEF DueDate, DateOf
  <2>3. /\ m + 3 * i \in 0 .. 24 /\ m + 3 * i <= 23 /\ m + t \in 0 .. 24 /\ 24 \in 0 .. 24
        /\ i < n => m + 3 * (i + 1) \in 0 .. 24 /\ m + 3 * i < m + t
        /\ m + 3 * i < m + 3 * (i + 1)
    BY <1>2, <2>1
  <2>4. DaysBefore[m + 3 * i] \in Nat /\ DaysBefore[m + 3 * i] <= 700
    <3>1. CASE m + 3 * i = 23
      BY <1>5, <3>1
    <3>2. CASE m + 3 * i < 23
      <4>1. 23 \in 0 .. 24
        OBVIOUS
      <4>2. DaysBefore[m + 3 * i] \in Nat /\ DaysBefore[m + 3 * i] + 28 <= DaysBefore[23]
        BY <1>4, <2>3, <3>2, <4>1
      <4> QED BY <1>5, <4>2
    <3> QED BY <1>2, <2>3, <3>1, <3>2
  <2>5. i < n => /\ DaysBefore[m + 3 * (i + 1)] \in Nat /\ DaysBefore[m + t] \in Nat
                 /\ DaysBefore[m + 3 * i] + 28 <= DaysBefore[m + 3 * (i + 1)]
                 /\ DaysBefore[m + 3 * i] + 28 <= DaysBefore[m + t]
    BY <1>4, <2>3
  <2> QED BY <1>1, <1>2, <1>3, <1>5, <2>2, <2>4, <2>5
<1>8. CASE c.frequency = "MONTHLY"
  <2>1. n = t
    BY <1>1, <1>8, CountType
  <2>2. /\ DueDate(c, i) = DaysBefore[m + i] + d - 1
        /\ DueDate(c, i + 1) = DaysBefore[m + (i + 1)] + d - 1
    BY <1>1, <1>8 DEF DueDate, DateOf
  <2>3. /\ m + i \in 0 .. 24 /\ m + i < 23 /\ 23 \in 0 .. 24 /\ m + t \in 0 .. 24
        /\ i < n => m + (i + 1) \in 0 .. 24 /\ m + i < m + t /\ m + i < m + (i + 1)
    BY <1>2, <2>1
  <2>4. DaysBefore[m + i] \in Nat /\ DaysBefore[m + i] + 28 <= DaysBefore[23]
    BY <1>4, <2>3
  <2>5. i < n => /\ DaysBefore[m + (i + 1)] \in Nat /\ DaysBefore[m + t] \in Nat
                 /\ DaysBefore[m + i] + 28 <= DaysBefore[m + (i + 1)]
                 /\ DaysBefore[m + i] + 28 <= DaysBefore[m + t]
    BY <1>4, <2>3
  <2> QED BY <1>1, <1>2, <1>3, <1>5, <2>2, <2>4, <2>5
<1> QED BY <1>6, <1>7, <1>8, TermsType DEF Frequencies

-----------------------------------------------------------------------------
(* A range is cut into buckets that follow each other.                     *)

LEMMA HorizonIs == Horizon = 8772 /\ Day = 12 /\ LastMonth = 23
<1>1. DaysBefore[23 + 1] = 731
  BY Calendar
<1> QED BY <1>1 DEF Horizon, Day, LastMonth

\* The month of an instant.
LEMMA MonthIsFound ==
  ASSUME NEW t \in 0 .. Horizon - 1
  PROVE  /\ MonthOf(t) \in 0 .. 23
         /\ DaysBefore[MonthOf(t)] \in Nat /\ DaysBefore[MonthOf(t) + 1] \in Nat
         /\ DaysBefore[MonthOf(t)] * 12 <= t /\ t < DaysBefore[MonthOf(t) + 1] * 12
<1>1. Day = 12 /\ LastMonth = 23 /\ t \in Nat /\ t < 8772
  BY HorizonIs
<1>2. \A m \in 0 .. 24 : DaysBefore[m] \in Nat
  <2> SUFFICES ASSUME NEW m \in 0 .. 24 PROVE DaysBefore[m] \in Nat
    OBVIOUS
  <2>1. m \in 0 .. LastMonth + 1 /\ 0 \in 0 .. LastMonth + 1 /\ 24 \in 0 .. LastMonth + 1
    BY <1>1
  <2> QED BY <2>1, MonthsApart
<1> DEFINE after == {m \in 0 .. 24 : t < DaysBefore[m] * 12}
<1>3. after \subseteq Nat /\ 24 \in after
  <2>1. DaysBefore[24] = 731
    BY Calendar
  <2> QED BY <1>1, <2>1
<1>4. PICK n \in after : \A m \in after : n <= m
  <2> HIDE DEF after
  <2> QED BY <1>3, LeastNumber
<1>5. n \in 0 .. 24 /\ t < DaysBefore[n] * 12
  OBVIOUS
<1>6. n # 0
  <2>1. DaysBefore[0] = 0
    BY Calendar
  <2> QED BY <1>1, <1>5, <2>1
<1>7. n - 1 \in 0 .. 23 /\ n - 1 \notin after
  BY <1>4, <1>5, <1>6
<1>8. DaysBefore[n - 1] * 12 <= t
  BY <1>1, <1>2, <1>7
<1> DEFINE is(m) == DaysBefore[m] * 12 <= t /\ t < DaysBefore[m + 1] * 12
<1>9. \E m \in 0 .. 23 : is(m)
  <2>1. (n - 1) + 1 = n
    BY <1>5
  <2> QED BY <1>5, <1>7, <1>8, <2>1
<1>10. MonthOf(t) = CHOOSE m \in 0 .. 23 : is(m)
  BY <1>1 DEF MonthOf
<1> HIDE DEF is
<1>11. MonthOf(t) \in 0 .. 23 /\ is(MonthOf(t))
  BY <1>9, <1>10
<1> QED BY <1>2, <1>11 DEF is

In(b, t) == b.start <= t /\ t < b.end

\* Every instant of the range is in one of the buckets, and in no other.
Cuts(b, n, from, to) ==
  /\ n \in Nat \ {0} /\ DOMAIN b = 1 .. n
  /\ \A t \in from .. to :
       \E k \in 1 .. n : In(b[k], t) /\ \A j \in 1 .. n : In(b[j], t) => j = k

LEMMA SteppedCuts ==
  ASSUME NEW from \in Int, NEW to \in Int, from <= to, NEW step \in {2, 12}
  PROVE  \E n : Cuts(Stepped(from, to, step), n, from, to)
<1> DEFINE n == (to - from) \div step + 1
           b == Stepped(from, to, step)
<1>1. n \in Nat \ {0}
  BY DivFacts
<1>2. b = [k \in 1 .. n |-> [start |-> from + (k - 1) * step, end |-> from + k * step]]
  BY DEF Stepped
<1>3. ASSUME NEW t \in from .. to
      PROVE  \E k \in 1 .. n : In(b[k], t) /\ \A j \in 1 .. n : In(b[j], t) => j = k
  <2> DEFINE k == (t - from) \div step + 1
  <2>1. k \in 1 .. n
    <3>1. CASE step = 2
      BY <3>1
    <3>2. CASE step = 12
      BY <3>2
    <3> QED BY <3>1, <3>2
  <2>2. \A j \in 1 .. n : In(b[j], t) <=> from + (j - 1) * step <= t /\ t < from + j * step
    BY <1>2 DEF In
  <2>3. from + (k - 1) * step <= t /\ t < from + k * step
    <3>1. CASE step = 2
      BY <3>1
    <3>2. CASE step = 12
      BY <3>2
    <3> QED BY <3>1, <3>2
  <2>4. ASSUME NEW j \in 1 .. n, from + (j - 1) * step <= t, t < from + j * step PROVE j = k
    <3>0. j \in Int /\ n \in Int
      BY <1>1
    <3> HIDE DEF n
    <3>1. CASE step = 2
      BY <2>4, <3>0, <3>1
    <3>2. CASE step = 12
      BY <2>4, <3>0, <3>2
    <3> QED BY <3>1, <3>2
  <2> HIDE DEF k, n, b
  <2> QED BY <2>1, <2>2, <2>3, <2>4
<1>4. DOMAIN b = 1 .. n
  BY <1>2
<1> HIDE DEF n, b
<1> QED BY <1>1, <1>3, <1>4 DEF Cuts, b

LEMMA MonthlyCuts ==
  ASSUME NEW from \in 0 .. Horizon - 1, NEW to \in 0 .. Horizon - 1, from <= to
  PROVE  \E n : Cuts(Monthly(from, to), n, from, to)
<1>1. PICK first \in 0 .. 23, last \in 0 .. 23 : first = MonthOf(from) /\ last = MonthOf(to)
  BY MonthIsFound
<1>2. \A a, c \in 0 .. 24 : a < c =>
        DaysBefore[a] \in Nat /\ DaysBefore[c] \in Nat /\ DaysBefore[a] + 28 <= DaysBefore[c]
  <2>1. LastMonth + 1 = 24
    BY HorizonIs
  <2> QED BY <2>1, MonthsApart
<1>3. \A a, c \in 0 .. 24 : a <= c =>
        DaysBefore[a] \in Nat /\ DaysBefore[c] \in Nat /\ DaysBefore[a] <= DaysBefore[c]
  <2> SUFFICES ASSUME NEW a \in 0 .. 24, NEW c \in 0 .. 24, a <= c
      PROVE DaysBefore[a] \in Nat /\ DaysBefore[c] \in Nat /\ DaysBefore[a] <= DaysBefore[c]
    OBVIOUS
  <2>1. CASE a < c
    BY <1>2, <2>1
  <2>2. CASE a = c /\ a < 24
    <3>1. DaysBefore[a] \in Nat
      BY <1>2, <2>2
    <3> QED BY <2>2, <3>1
  <2>3. CASE a = c /\ a = 24
    <3>1. DaysBefore[24] \in Nat
      BY <1>2
    <3> QED BY <2>3, <3>1
  <2> QED BY <2>1, <2>2, <2>3
<1>4. ASSUME NEW t \in from .. to PROVE MonthOf(t) \in first .. last
  <2>0. Horizon - 1 \in Int
    BY HorizonIs
  <2>1. /\ t \in 0 .. Horizon - 1 /\ t \in Int /\ from \in Int /\ to \in Int
        /\ from <= t /\ t <= to
    BY <2>0
  <2>2. PICK m \in 0 .. 23 : m = MonthOf(t)
    BY <2>1, MonthIsFound
  <2>3. /\ DaysBefore[m] * 12 <= t /\ t < DaysBefore[m + 1] * 12
        /\ DaysBefore[first] * 12 <= from /\ from < DaysBefore[first + 1] * 12
        /\ DaysBefore[last] * 12 <= to /\ to < DaysBefore[last + 1] * 12
    BY <1>1, <2>1, <2>2, MonthIsFound
  <2>4. first <= m
    <3> SUFFICES ASSUME m < first PROVE FALSE
      OBVIOUS
    <3>1. /\ DaysBefore[m + 1] <= DaysBefore[first]
          /\ DaysBefore[m + 1] \in Nat /\ DaysBefore[first] \in Nat
      BY <1>3
    <3> QED BY <2>1, <2>3, <3>1
  <2>5. m <= last
    <3> SUFFICES ASSUME last < m PROVE FALSE
      OBVIOUS
    <3>1. /\ DaysBefore[last + 1] <= DaysBefore[m]
          /\ DaysBefore[last + 1] \in Nat /\ DaysBefore[m] \in Nat
      BY <1>3
    <3> QED BY <2>1, <2>3, <3>1
  <2> QED BY <2>2, <2>4, <2>5
<1>5. first <= last
  <2>1. from \in from .. to
    BY HorizonIs
  <2> QED BY <1>1, <1>4, <2>1
<1> DEFINE n == last - first + 1
           b == Monthly(from, to)
<1>6. b = [k \in 1 .. n |-> [start |-> FirstOf(first + k - 1), end |-> FirstOf(first + k)]]
  BY <1>1 DEF Monthly
<1>7. n \in Nat \ {0}
  BY <1>5
<1>8. \A j \in 1 .. n : b[j].start = DaysBefore[first + j - 1] * 12
                        /\ b[j].end = DaysBefore[first + j] * 12
  BY <1>6, HorizonIs DEF FirstOf
<1>9. ASSUME NEW t \in from .. to
      PROVE  \E k \in 1 .. n : In(b[k], t) /\ \A j \in 1 .. n : In(b[j], t) => j = k
  <2>0. Horizon - 1 \in Int
    BY HorizonIs
  <2>1. t \in 0 .. Horizon - 1 /\ t \in Int
    BY <2>0
  <2>2. PICK m \in first .. last : m = MonthOf(t)
    BY <1>4
  <2>3. DaysBefore[m] * 12 <= t /\ t < DaysBefore[m + 1] * 12
    BY <2>1, <2>2, MonthIsFound
  <2>4. PICK k \in 1 .. n : k = m - first + 1
    BY <2>2
  <2>5. first + k - 1 = m /\ first + k = m + 1
    BY <2>2, <2>4
  <2>6. In(b[k], t)
    BY <1>8, <2>3, <2>5 DEF In
  <2>7. ASSUME NEW j \in 1 .. n, In(b[j], t) PROVE j = k
    <3>1. PICK l \in 0 .. 23 : l = first + j - 1 /\ l + 1 = first + j
      BY <1>1, <1>5
    <3>2. DaysBefore[l] * 12 <= t /\ t < DaysBefore[l + 1] * 12
      BY <1>8, <2>7, <3>1 DEF In
    <3>3. m \in 0 .. 23
      BY <1>5, <2>2
    <3>4. ~(l < m)
      <4> SUFFICES ASSUME l < m PROVE FALSE
        OBVIOUS
      <4>1. l + 1 \in 0 .. 24 /\ m \in 0 .. 24 /\ l + 1 <= m
        BY <3>1, <3>3
      <4>2. DaysBefore[l + 1] <= DaysBefore[m] /\ DaysBefore[l + 1] \in Nat /\ DaysBefore[m] \in Nat
        BY <1>3, <4>1
      <4> QED BY <2>1, <2>3, <3>2, <4>2
    <3>5. ~(m < l)
      <4> SUFFICES ASSUME m < l PROVE FALSE
        OBVIOUS
      <4>1. m + 1 \in 0 .. 24 /\ l \in 0 .. 24 /\ m + 1 <= l
        BY <3>1, <3>3
      <4>2. DaysBefore[m + 1] <= DaysBefore[l] /\ DaysBefore[m + 1] \in Nat /\ DaysBefore[l] \in Nat
        BY <1>3, <4>1
      <4> QED BY <2>1, <2>3, <3>2, <4>2
    <3> QED BY <2>5, <3>1, <3>3, <3>4, <3>5
  <2> QED BY <2>6, <2>7
<1>10. DOMAIN b = 1 .. n
  BY <1>6
<1> HIDE DEF n, b
<1> QED BY <1>7, <1>9, <1>10 DEF Cuts, b

LEMMA BucketsCut ==
  ASSUME NEW from \in 0 .. Horizon - 1, NEW to \in 0 .. Horizon - 1, from <= to
  PROVE  \E n : Cuts(Buckets(from, to), n, from, to)
<1>1. from \in Int /\ to \in Int /\ Day = 12
  BY HorizonIs
<1>2. CASE to - from <= 12
  <2>0. /\ ~(to < from) /\ to - from \in 0 .. Day
        /\ ~(to - from \in Day + 1 .. 31 * Day)
    BY <1>1, <1>2
  <2>1. Buckets(from, to) = Stepped(from, to, 2)
    BY <2>0 DEF Buckets
  <2> QED BY <1>1, <2>1, SteppedCuts
<1>3. CASE 12 < to - from /\ to - from <= 372
  <2>0. /\ ~(to < from) /\ ~(to - from \in 0 .. Day)
        /\ to - from \in Day + 1 .. 31 * Day
    BY <1>1, <1>3
  <2>1. Buckets(from, to) = Stepped(from, to, 12)
    <3>1. Buckets(from, to) = Stepped(from, to, Day)
      BY <2>0 DEF Buckets
    <3> QED BY <1>1, <3>1
  <2> QED BY <1>1, <2>1, SteppedCuts
<1>4. CASE 372 < to - from
  <2>0. /\ ~(to < from) /\ ~(to - from \in 0 .. Day)
        /\ ~(to - from \in Day + 1 .. 31 * Day)
    BY <1>1, <1>4
  <2>1. Buckets(from, to) = Monthly(from, to)
    BY <2>0 DEF Buckets
  <2> QED BY <2>1, MonthlyCuts
<1> QED BY <1>1, <1>2, <1>3, <1>4

\* What is added up bucket by bucket is the sum over the range.
LEMMA BucketsAddUp ==
  ASSUME NEW from \in 0 .. Horizon - 1, NEW to \in 0 .. Horizon - 1, from <= to,
         NEW S, IsFiniteSet(S), \A x \in S : x.at \in from .. to,
         NEW f, Ints(f, S),
         NEW h, DOMAIN h = DOMAIN Buckets(from, to),
         \A k \in DOMAIN h : h[k] = SumOver(f, InBucket(S, Buckets(from, to)[k]))
  PROVE  Sum(h) = SumOver(f, S) /\ IsFiniteSet(DOMAIN h)
<1> DEFINE b == Buckets(from, to)
<1>1. PICK n : Cuts(b, n, from, to)
  BY BucketsCut
<1> HIDE DEF b
<1>2. DOMAIN b = 1 .. n /\ IsFiniteSet(1 .. n)
  <2>1. DOMAIN b = 1 .. n /\ n \in Nat
    BY <1>1 DEF Cuts
  <2> QED BY <2>1, FS_Interval
<1> DEFINE c == [x \in S |-> CHOOSE k \in 1 .. n : In(b[k], x.at)]
<1>3. \A x \in S : /\ c[x] \in 1 .. n /\ In(b[c[x]], x.at)
                   /\ \A j \in 1 .. n : In(b[j], x.at) => j = c[x]
  <2> SUFFICES ASSUME NEW x \in S
               PROVE  /\ c[x] \in 1 .. n /\ In(b[c[x]], x.at)
                      /\ \A j \in 1 .. n : In(b[j], x.at) => j = c[x]
    OBVIOUS
  <2>1. x.at \in from .. to
    OBVIOUS
  <2>2. PICK k \in 1 .. n : In(b[k], x.at) /\ \A j \in 1 .. n : In(b[j], x.at) => j = k
    BY <1>1, <2>1 DEF Cuts
  <2>3. c[x] = CHOOSE j \in 1 .. n : In(b[j], x.at)
    OBVIOUS
  <2> HIDE DEF c
  <2> QED BY <2>2, <2>3
<1> HIDE DEF c
<1>4. PICK K : K = 1 .. n
  OBVIOUS
<1>5. IsFiniteSet(K) /\ DOMAIN h = K /\ \A x \in S : c[x] \in K
  BY <1>2, <1>3, <1>4 DEF b
<1>6. \A k \in K : InBucket(S, b[k]) = PartOf(S, c, k)
  BY <1>3, <1>4 DEF InBucket, PartOf, In
<1> DEFINE parts == PartSums(f, S, c, K)
<1>7. \A k \in K : h[k] = parts[k]
  BY <1>5, <1>6 DEF PartSums, b
<1>8. SumOver(parts, K) = SumOver(f, S)
  BY <1>5, SumOfParts
<1> HIDE DEF parts
<1>9. SumOver(h, K) = SumOver(parts, K)
  BY <1>5, <1>7, SumOfSame
<1> QED BY <1>5, <1>8, <1>9, SumIsSumOver

-----------------------------------------------------------------------------
(* Amounts of transaction rows.                                            *)

LEMMA AmountsIs ==
  ASSUME NEW rows, IsFiniteSet(rows), NEW f, \A r \in rows : f[r] = r.amount
  PROVE  Amounts(rows) = SumOver(f, rows)
<1> DEFINE g == [r \in rows |-> r.amount]
<1>1. Amounts(rows) = Sum(g) /\ DOMAIN g = rows /\ \A r \in rows : g[r] = f[r]
  BY DEF Amounts
<1> HIDE DEF g
<1>2. SumOver(g, rows) = SumOver(f, rows)
  BY <1>1, SumOfSame
<1> QED BY <1>1, <1>2, SumIsSumOver

Priced(rows) == IsFiniteSet(rows) /\ \A r \in rows : r.amount \in Nat
Cost(rows) == [r \in rows |-> r.amount]

LEMMA CostIs ==
  ASSUME NEW S, Priced(S), NEW rows, rows \subseteq S
  PROVE  /\ Amounts(rows) = SumOver(Cost(S), rows) /\ Priced(rows)
         /\ Nats(Cost(S), rows) /\ Ints(Cost(S), rows)
         /\ \A r \in S : Cost(S)[r] = r.amount
<1>1. IsFiniteSet(rows) /\ \A r \in rows : Cost(S)[r] = r.amount
  BY FS_Subset DEF Priced, Cost
<1>2. Amounts(rows) = SumOver(Cost(S), rows)
  BY <1>1, AmountsIs
<1>3. Nats(Cost(S), rows) /\ Ints(Cost(S), rows) /\ \A r \in S : Cost(S)[r] = r.amount
  BY DEF Nats, Ints, Priced, Cost
<1> QED BY <1>1, <1>2, <1>3 DEF Priced

LEMMA AmountsType ==
  ASSUME NEW rows, Priced(rows) PROVE Amounts(rows) \in Nat
<1>1. Amounts(rows) = SumOver(Cost(rows), rows) /\ Nats(Cost(rows), rows)
  BY CostIs
<1>2. IsFiniteSet(rows)
  BY DEF Priced
<1> QED BY <1>1, <1>2, SumIsNat

LEMMA AmountsAdd ==
  ASSUME NEW rows, Priced(rows), NEW r, r \notin rows, r.amount \in Nat
  PROVE  Amounts(rows \union {r}) = Amounts(rows) + r.amount
<1> DEFINE S == rows \union {r}
<1>1. Priced(S)
  BY FS_AddElement DEF Priced
<1>2. /\ Amounts(S) = SumOver(Cost(S), S) /\ Amounts(rows) = SumOver(Cost(S), rows)
      /\ Ints(Cost(S), S) /\ Cost(S)[r] = r.amount
  BY <1>1, CostIs
<1>3. IsFiniteSet(rows)
  BY DEF Priced
<1>4. SumOver(Cost(S), rows \union {r}) = Cost(S)[r] + SumOver(Cost(S), rows)
  BY <1>2, <1>3, SumAdds
<1> HIDE DEF S
<1>5. Amounts(rows) \in Nat
  BY AmountsType
<1> QED BY <1>2, <1>4, <1>5 DEF S

LEMMA AmountsSplit ==
  ASSUME NEW A, Priced(A), NEW B, Priced(B), A \cap B = {}
  PROVE  Amounts(A \union B) = Amounts(A) + Amounts(B)
<1> DEFINE S == A \union B
<1>1. Priced(S)
  BY FS_Union DEF Priced
<1>2. A \subseteq S /\ B \subseteq S /\ S \ A = B
  OBVIOUS
<1> HIDE DEF S
<1>3. /\ Amounts(S) = SumOver(Cost(S), S) /\ Ints(Cost(S), S)
      /\ Amounts(A) = SumOver(Cost(S), A) /\ Amounts(B) = SumOver(Cost(S), B)
  BY <1>1, <1>2, CostIs
<1>4. SumOver(Cost(S), S) = SumOver(Cost(S), A) + SumOver(Cost(S), S \ A)
  BY <1>1, <1>2, <1>3, SumSplits DEF Priced
<1> QED BY <1>2, <1>3, <1>4 DEF S

-----------------------------------------------------------------------------
(* The types of the variables.                                             *)

TransactionRows ==
  [id: Nat, type: Types, amount: Nat, status: {"COMPLETED", "PENDING"}, at: Instants,
   sentBy: {"tenant", "borrowerUser"}, receivedBy: {"tenant", "borrowerRow"},
   origin: Origins]

Slot == 0 .. Horizon - 1

Reports == [pc: {"idle", "reading"}, from: Slot, to: Slot,
            total: Int, previous: Int, series: Int, stale: BOOLEAN]

\* The rows of the transactions are told apart by their ids.
Numbered ==
  /\ \A t \in txs : t.id \in 1 .. Cardinality(txs)
  /\ \A s, t \in txs : s.id = t.id => s = t

Typed ==
  /\ terms \in Offers
  /\ balance \in [paid: Nat, outstanding: Int]
  /\ sched \in Seq(InstallmentRows)
  /\ txs \subseteq TransactionRows /\ IsFiniteSet(txs) /\ Numbered
  /\ now \in Instants
  /\ report \in Reports

\* The rows of the schedule keep the amounts they were written with.
Planned == sched # <<>> => PlannedAmounts(terms, sched)

LEMMA InstantType == Instants \subseteq Slot /\ Slot \subseteq Nat
BY AccountsAssumption, HorizonIs DEF Slot

LEMMA FirstInstant == Min(Instants) \in Instants
<1>1. Instants \subseteq Nat /\ Instants # {}
  BY InstantType, AccountsAssumption
<1>2. \E n \in Instants : \A m \in Instants : n <= m
  BY <1>1, LeastNumber
<1> QED BY <1>2 DEF Min

LEMMA ScheduleType ==
  ASSUME NEW c \in Offers
  PROVE  /\ Schedules(c) \in Seq(InstallmentRows) /\ Schedules(c) # <<>>
         /\ Len(Schedules(c)) = TotalInstallments(c)
         /\ PlannedAmounts(c, Schedules(c))
<1> DEFINE n == TotalInstallments(c)
<1>1. n \in Nat \ {0}
  BY CountType
<1>2. ASSUME NEW i \in 1 .. TotalInstallments(c) PROVE Schedules(c)[i] \in InstallmentRows
  <2>1. /\ Schedules(c)[i].principal \in Nat /\ Schedules(c)[i].interest \in Nat
        /\ Schedules(c)[i].total \in Nat /\ Schedules(c)[i].due = DueDate(c, i)
        /\ Schedules(c)[i].paid = 0 /\ Schedules(c)[i].status = "PENDING"
    BY RowTypes
  <2>2. DueDate(c, i) \in Nat
    BY DueDates
  <2>3. Schedules(c)[i] = Regular(c, i) \/ Schedules(c)[i] = LastRow(c)
    BY DEF Schedules
  <2>4. \E p, j, t : \E k : Schedules(c)[i] = Parts(c, k, p, j, t)
    BY <2>3 DEF Regular, LastRow
  <2>5. PICK p, j, t, k : Schedules(c)[i] = Parts(c, k, p, j, t)
    BY <2>4
  <2>6. Schedules(c)[i] = [due |-> DueDate(c, k), principal |-> p, interest |-> j,
                           total |-> t, paid |-> 0, status |-> "PENDING"]
    BY <2>5 DEF Parts
  <2>7. /\ p = Schedules(c)[i].principal /\ j = Schedules(c)[i].interest
        /\ t = Schedules(c)[i].total /\ DueDate(c, k) = Schedules(c)[i].due
    BY <2>6
  <2> QED BY <2>1, <2>2, <2>6, <2>7 DEF InstallmentRows
<1>3. Schedules(c) = [i \in 1 .. n |-> Schedules(c)[i]]
  BY DEF Schedules
<1> HIDE DEF n
<1>4. Schedules(c) \in Seq(InstallmentRows) /\ Len(Schedules(c)) = n
  <2> DEFINE s == Schedules(c)
  <2>1. \A i \in 1 .. n : s[i] \in InstallmentRows
    BY <1>2 DEF n
  <2>2. s = [i \in 1 .. n |-> s[i]]
    BY <1>3
  <2> HIDE DEF s
  <2>3. s \in [1 .. n -> InstallmentRows]
    BY <2>1, <2>2
  <2> QED BY <1>1, <2>3, SeqDef, LenProperties DEF s
<1>5. Schedules(c) # <<>>
  BY <1>1, <1>4
<1> QED BY <1>4, <1>5 DEF PlannedAmounts, n

\* A row is new: its id is that of no other.
LEMMA RowIs ==
  ASSUME Typed, NEW type \in Types, NEW amount \in Nat,
         NEW status \in {"COMPLETED", "PENDING"}, NEW origin \in Origins,
         NEW r, r = Row(type, amount, status, origin)
  PROVE  /\ r \in TransactionRows /\ r.id = Cardinality(txs) + 1
         /\ r.type = type /\ r.amount = amount
         /\ r.status = status /\ r.origin = origin
         /\ r \notin txs
<1>1. IsFiniteSet(txs) /\ Cardinality(txs) \in Nat /\ txs \subseteq TransactionRows
  BY FS_CardinalityType DEF Typed
<1>2. /\ r \in TransactionRows /\ r.id = Cardinality(txs) + 1
      /\ r.type = type /\ r.amount = amount /\ r.status = status /\ r.origin = origin
  BY <1>1 DEF Row, TransactionRows, Sender, Receiver, Typed
<1>3. r \notin txs
  <2>1. ASSUME r \in txs PROVE FALSE
    BY <1>1, <1>2, <2>1 DEF Typed, Numbered
  <2> QED BY <2>1
<1> QED BY <1>2, <1>3

LEMMA RowIsNew ==
  ASSUME Typed, NEW type \in Types, NEW amount \in Nat,
         NEW status \in {"COMPLETED", "PENDING"}, NEW origin \in Origins,
         txs' = txs \union {Row(type, amount, status, origin)}
  PROVE  IsFiniteSet(txs') /\ txs' \subseteq TransactionRows /\ Numbered'
<1> DEFINE r == Row(type, amount, status, origin)
<1>1. IsFiniteSet(txs) /\ Cardinality(txs) \in Nat /\ txs \subseteq TransactionRows
  BY FS_CardinalityType DEF Typed
<1>2. r \in TransactionRows /\ r.id = Cardinality(txs) + 1 /\ r \notin txs
  BY RowIs
<1>3. txs' = txs \union {r}
  OBVIOUS
<1> HIDE DEF r
<1>4. IsFiniteSet(txs') /\ Cardinality(txs') = Cardinality(txs) + 1
  BY <1>1, <1>2, <1>3, FS_AddElement
<1>5. \A t \in txs : t.id \in 1 .. Cardinality(txs)
  BY DEF Typed, Numbered
<1>6. \A t \in txs' : t.id \in 1 .. Cardinality(txs')
  BY <1>1, <1>2, <1>3, <1>4, <1>5
<1>7. \A t \in txs : t.id # r.id
  BY <1>1, <1>2, <1>5
<1>8. \A s, t \in txs' : s.id = t.id => s = t
  BY <1>3, <1>7 DEF Typed, Numbered
<1> QED BY <1>1, <1>2, <1>3, <1>4, <1>6, <1>8 DEF Numbered

\* Completing a row leaves its number, and all others, as they are.
LEMMA RowIsCompleted ==
  ASSUME Typed, NEW t \in txs, CompleteTransaction(t),
         NEW u, u = [t EXCEPT !.status = "COMPLETED"]
  PROVE  /\ IsFiniteSet(txs') /\ txs' \subseteq TransactionRows /\ Numbered'
         /\ txs' = (txs \ {t}) \union {u} /\ u.origin = t.origin /\ t.status = "PENDING"
<1>1. t \in TransactionRows /\ IsFiniteSet(txs) /\ Cardinality(txs) \in Nat /\ Numbered
  BY FS_CardinalityType DEF Typed
<1>2. u \in TransactionRows /\ u.id = t.id /\ u.origin = t.origin
  BY <1>1 DEF TransactionRows
<1>3. txs' = (txs \ {t}) \union {u} /\ t.status = "PENDING"
  BY DEF CompleteTransaction
<1>4. u \notin txs \ {t}
  BY <1>1, <1>2 DEF Numbered
<1>5. IsFiniteSet(txs \ {t}) /\ Cardinality(txs \ {t}) = Cardinality(txs) - 1
  BY <1>1, FS_RemoveElement
<1>6. IsFiniteSet(txs') /\ Cardinality(txs') = Cardinality(txs)
  <2>1. PICK rest : rest = txs \ {t}
    OBVIOUS
  <2>2. IsFiniteSet(rest) /\ u \notin rest /\ Cardinality(rest) = Cardinality(txs) - 1
    BY <1>4, <1>5, <2>1
  <2>3. IsFiniteSet(rest \union {u}) /\ Cardinality(rest \union {u}) = Cardinality(rest) + 1
    BY <2>2, FS_AddElement
  <2> QED BY <1>1, <1>3, <2>1, <2>2, <2>3
<1>7. Numbered'
  <2>1. \A s \in txs' : s.id \in 1 .. Cardinality(txs')
    BY <1>1, <1>2, <1>3, <1>6 DEF Numbered
  <2>2. \A s \in txs \ {t} : s.id # u.id
    BY <1>1, <1>2 DEF Numbered
  <2>3. \A s, v \in txs' : s.id = v.id => s = v
    BY <1>1, <1>3, <2>2 DEF Numbered
  <2> QED BY <2>1, <2>3 DEF Numbered
<1>8. txs' \subseteq TransactionRows
  BY <1>2, <1>3 DEF Typed
<1> QED BY <1>2, <1>3, <1>6, <1>7, <1>8

\* What is collected is part of the transactions.
LEMMA CollectedType ==
  ASSUME Typed, NEW r
  PROVE  Collected(r) \subseteq txs /\ Priced(Collected(r)) /\ Priced(txs)
<1>1. Priced(txs)
  BY DEF Typed, Priced, TransactionRows
<1>2. Collected(r) \subseteq txs
  BY DEF Collected, Completed, Within
<1> QED BY <1>1, <1>2, CostIs

\* The series of a dashboard adds up to its total.
LEMMA SeriesIsTotal ==
  ASSUME Typed, NEW r, r.from \in Slot, r.to \in Slot
  PROVE  Sum(CollectedSeries(r)) = Amounts(Collected(r))
<1> DEFINE S == Collected(r)
           h == CollectedSeries(r)
           b == Buckets(r.from, r.to)
<1>1. S \subseteq txs /\ Priced(S) /\ \A x \in S : x.at \in Instants
  BY CollectedType DEF Typed, TransactionRows
<1>2. \A x \in S : x.at \in Int /\ r.from <= x.at /\ x.at <= r.to
  <2>1. Instants \subseteq Int
    BY InstantType
  <2>2. \A x \in S : r.from <= x.at /\ x.at <= r.to
    BY DEF Collected, Completed, Within
  <2> HIDE DEF S
  <2> QED BY <1>1, <2>1, <2>2
<1>3. DOMAIN h = DOMAIN b /\ \A k \in DOMAIN h : h[k] = Amounts(InBucket(S, b[k]))
  BY DEF CollectedSeries
<1>4. r.from \in Int /\ r.to \in Int
  <2>1. \A t \in Slot : t \in Int
    BY HorizonIs DEF Slot
  <2> QED BY <2>1
<1>5. CASE r.to < r.from
  <2>1. S = {}
    BY <1>2, <1>4, <1>5
  <2>2. b = <<>>
    <3>1. /\ ~(r.to - r.from \in 0 .. Day) /\ ~(r.to - r.from \in Day + 1 .. 31 * Day)
      BY <1>4, <1>5, HorizonIs
    <3> QED BY <1>5, <3>1 DEF Buckets
  <2>3. DOMAIN h = {}
    BY <1>3, <2>2
  <2>4. Sum(h) = 0
    <3> HIDE DEF h
    <3> QED BY <2>3, SumIsSumOver, SumOfNothing
  <2>5. Amounts({}) = 0
    <3>1. Amounts({}) = SumOver(Cost({}), {})
      BY FS_EmptySet, CostIs DEF Priced
    <3> QED BY <3>1, SumOfNothing
  <2> QED BY <2>1, <2>4, <2>5
<1>6. CASE r.from <= r.to
  <2>1. \A k \in DOMAIN h : h[k] = SumOver(Cost(S), InBucket(S, b[k]))
    <3> SUFFICES ASSUME NEW k \in DOMAIN h
                 PROVE  h[k] = SumOver(Cost(S), InBucket(S, b[k]))
      OBVIOUS
    <3>1. InBucket(S, b[k]) \subseteq S
      BY DEF InBucket
    <3> HIDE DEF S
    <3>2. Amounts(InBucket(S, b[k])) = SumOver(Cost(S), InBucket(S, b[k]))
      BY <1>1, <3>1, CostIs
    <3> QED BY <1>3, <3>2
  <2>2. IsFiniteSet(S) /\ \A x \in S : x.at \in r.from .. r.to
    BY <1>1, <1>2, <1>4 DEF Priced
  <2>3. Ints(Cost(S), S) /\ Amounts(S) = SumOver(Cost(S), S)
    BY <1>1, CostIs
  <2> HIDE DEF S, h, b
  <2>4. DOMAIN h = DOMAIN Buckets(r.from, r.to)
    BY <1>3 DEF b
  <2>5. Sum(h) = SumOver(Cost(S), S)
    BY <1>6, <2>1, <2>2, <2>3, <2>4, BucketsAddUp DEF b, Slot
  <2> QED BY <2>3, <2>5 DEF S, h
<1> QED BY <1>4, <1>5, <1>6

LEMMA DisturbedType ==
  ASSUME report \in Reports
  PROVE  /\ Disturbed \in Reports /\ Disturbed.pc = report.pc
         /\ Disturbed.pc = "reading" => Disturbed.stale
BY DEF Disturbed, Reports

LEMMA CreditedType ==
  ASSUME NEW row \in InstallmentRows, NEW amount \in Nat
  PROVE  /\ Credited(row, amount) \in InstallmentRows
         /\ Credited(row, amount).due = row.due /\ Credited(row, amount).total = row.total
         /\ Credited(row, amount).principal = row.principal
         /\ Credited(row, amount).interest = row.interest
         /\ Credited(row, amount).paid \in Nat
         /\ row.paid <= Credited(row, amount).paid
         /\ Credited(row, amount).paid <= row.paid + amount
         /\ Credited(row, amount).status = "PAID" /\ (row.status = "PAID" => row.total <= row.paid)
              => row.total <= Credited(row, amount).paid
         /\ row.status = "PAID" => Credited(row, amount).status = "PAID"
<1>1. CASE row.paid + amount >= row.total
  <2>1. Credited(row, amount) = [row EXCEPT !.paid = row.paid + amount, !.status = "PAID"]
    BY <1>1 DEF Credited
  <2>2. Credited(row, amount) = [due |-> row.due, principal |-> row.principal,
                                 interest |-> row.interest, total |-> row.total,
                                 paid |-> row.paid + amount, status |-> "PAID"]
    BY <2>1 DEF InstallmentRows
  <2> QED BY <1>1, <2>2 DEF InstallmentRows
<1>2. CASE ~(row.paid + amount >= row.total)
  <2>1. Credited(row, amount) = row
    BY <1>2 DEF Credited
  <2> QED BY <2>1 DEF InstallmentRows
<1> QED BY <1>1, <1>2

LEMMA RowOfSchedule ==
  ASSUME Typed, NEW i \in DOMAIN sched
  PROVE  /\ i \in 1 .. Len(sched) /\ sched[i] \in InstallmentRows
         /\ sched[i].due \in Nat /\ sched[i].total \in Nat /\ sched[i].paid \in Nat
         /\ sched[i].status \in {"PENDING", "PAID"}
<1>1. i \in 1 .. Len(sched) /\ sched[i] \in InstallmentRows
  BY ElementOfSeq, LenProperties DEF Typed
<1> QED BY <1>1 DEF InstallmentRows

\* A repayment credits one installment, or none, and changes no amount of it.
LEMMA PayInstallmentSchedule ==
  ASSUME Typed, NEW i \in DOMAIN sched, NEW amount \in Nat, NEW reached \in Reaches,
         PayInstallment(i, amount, reached)
  PROVE  /\ i \in 1 .. Len(sched)
         /\ sched' \in Seq(InstallmentRows) /\ Len(sched') = Len(sched)
         /\ sched'[i] \in {sched[i], Credited(sched[i], amount)}
         /\ reached # "end" => sched' = sched
         /\ \A j \in 1 .. Len(sched) : j # i => sched'[j] = sched[j]
<1>1. i \in 1 .. Len(sched) /\ Credited(sched[i], amount) \in InstallmentRows
  BY RowOfSchedule, CreditedType
<1>2. sched \in Seq(InstallmentRows)
  BY DEF Typed
<1>3. CASE reached = "end"
  <2>1. sched' = [sched EXCEPT ![i] = Credited(sched[i], amount)]
    BY <1>3 DEF PayInstallment
  <2> QED BY <1>1, <1>2, <1>3, <2>1, ExceptSeq
<1>4. CASE reached # "end"
  <2>1. sched' = sched
    BY <1>4 DEF PayInstallment
  <2> QED BY <1>1, <1>2, <1>4, <2>1
<1> QED BY <1>3, <1>4

\* What recording a repayment writes, however far it gets.
LEMMA RecordType ==
  ASSUME Typed, NEW type \in Repaying, NEW amount \in Nat, NEW reached \in Reaches,
         Record(type, amount, reached)
  PROVE  /\ IsFiniteSet(txs') /\ txs' \subseteq TransactionRows /\ Numbered'
         /\ balance' \in [paid: Nat, outstanding: Int]
<1>1. type \in Types /\ "lost" \in Origins /\ "payment" \in Origins
  BY DEF Types, Repaying, Origins
<1>2. /\ reached = "row" => txs' = txs \union {Row(type, amount, "COMPLETED", "lost")}
      /\ reached # "row" => txs' = txs \union {Row(type, amount, "COMPLETED", "payment")}
  BY DEF Record
<1>3. IsFiniteSet(txs') /\ txs' \subseteq TransactionRows /\ Numbered'
  BY <1>1, <1>2, RowIsNew
<1>4. balance' \in [paid: Nat, outstanding: Int]
  BY DEF Record, Typed
<1> QED BY <1>3, <1>4

\* The amounts of the steps of Next.
LEMMA Payable ==
  ASSUME Typed, NEW i \in DOMAIN sched, NEW less \in 0 .. 1, sched[i].total > less
  PROVE  sched[i].total - less \in Nat
BY RowOfSchedule

\* What a collected sum, or a series, can be.
LEMMA FiguresType ==
  ASSUME Typed
  PROVE  /\ Amounts(Collected(report)) \in Int
         /\ Amounts(Collected(Previous(report))) \in Int
         /\ Sum(CollectedSeries(report)) = Amounts(Collected(report))
<1>1. \A r : Amounts(Collected(r)) \in Int
  <2> SUFFICES ASSUME NEW r PROVE Amounts(Collected(r)) \in Int
    OBVIOUS
  <2>1. Priced(Collected(r))
    BY CollectedType
  <2> QED BY <2>1, AmountsType
<1>2. report.from \in Slot /\ report.to \in Slot
  BY DEF Typed, Reports
<1> QED BY <1>1, <1>2, SeriesIsTotal

LEMMA EndOfDayType ==
  ASSUME NEW t \in Instants PROVE EndOfDay(t) \in Slot
<1>1. t \in Nat /\ t < 8772 /\ Day = 12 /\ Horizon = 8772
  BY InstantType, HorizonIs DEF Slot
<1>2. t \div 12 \in Int /\ 12 * (t \div 12) <= t /\ t < 12 * (t \div 12) + 12
  BY <1>1
<1>3. EndOfDay(t) = (t \div 12) * 12 + 12 - 1
  BY <1>1 DEF EndOfDay
<1> QED BY <1>1, <1>2, <1>3 DEF Slot

LEMMA InitTyped == Init => Typed /\ Planned
<1> SUFFICES ASSUME Init PROVE Typed /\ Planned
  OBVIOUS
<1>1. balance \in [paid: Nat, outstanding: Int]
  BY PlanTypes DEF Init
<1>2. sched \in Seq(InstallmentRows) /\ IsFiniteSet(txs)
  BY FS_EmptySet DEF Init
<1>3. now \in Instants
  BY FirstInstant DEF Init
<1>4. report \in Reports
  <2>1. 0 \in Slot
    BY HorizonIs DEF Slot
  <2> QED BY <2>1 DEF Init, NoReport, Reports, Unread
<1> QED BY <1>1, <1>2, <1>3, <1>4 DEF Typed, Numbered, Planned, Init

LEMMA NextTyped == Typed /\ [Next]_vars => Typed'
<1> SUFFICES ASSUME Typed, [Next]_vars PROVE Typed'
  OBVIOUS
<1>1. CASE PayOut
  <2>1. /\ terms.amount \in Nat /\ terms \in Offers
        /\ "DISBURSEMENT" \in Types /\ "payment" \in Origins
    BY TermsType DEF Typed, Types, Origins
  <2>2. sched' \in Seq(InstallmentRows)
    BY <1>1, <2>1, ScheduleType DEF PayOut
  <2>3. txs' = txs \union {Row("DISBURSEMENT", terms.amount, "COMPLETED", "payment")}
    BY <1>1 DEF PayOut
  <2>4. txs' \subseteq TransactionRows /\ IsFiniteSet(txs') /\ Numbered'
    BY <2>1, <2>3, RowIsNew
  <2>5. report' \in Reports
    BY <1>1, DisturbedType DEF PayOut, Typed
  <2> QED BY <1>1, <2>2, <2>4, <2>5 DEF PayOut, Typed
<1>2. ASSUME NEW i \in DOMAIN sched, NEW less \in 0 .. 1, NEW reached \in Reaches,
             sched[i].total > less, PayInstallment(i, sched[i].total - less, reached)
      PROVE  Typed'
  <2>1. PICK amount \in Nat : amount = sched[i].total - less
    BY <1>2, Payable
  <2>2. PayInstallment(i, amount, reached)
    BY <1>2, <2>1
  <2>3. sched' \in Seq(InstallmentRows)
    BY <2>2, PayInstallmentSchedule
  <2>4. "INSTALLMENT_PAYMENT" \in Repaying /\ Record("INSTALLMENT_PAYMENT", amount, reached)
    BY <2>2 DEF Repaying, PayInstallment
  <2>5. /\ txs' \subseteq TransactionRows /\ IsFiniteSet(txs') /\ Numbered'
        /\ balance' \in [paid: Nat, outstanding: Int]
    BY <2>4, RecordType
  <2>6. report' \in Reports
    BY <2>2, DisturbedType DEF PayInstallment, Typed
  <2> QED BY <2>2, <2>3, <2>5, <2>6 DEF PayInstallment, Typed
<1>3. ASSUME NEW reached \in Reaches, PayPenalty(1, reached)
      PROVE  Typed'
  <2>1. "PENALTY_PAYMENT" \in Repaying /\ Record("PENALTY_PAYMENT", 1, reached)
    BY <1>3 DEF Repaying, PayPenalty
  <2>2. /\ txs' \subseteq TransactionRows /\ IsFiniteSet(txs') /\ Numbered'
        /\ balance' \in [paid: Nat, outstanding: Int]
    BY <2>1, RecordType
  <2>3. report' \in Reports
    BY <1>3, DisturbedType DEF PayPenalty, Typed
  <2> QED BY <1>3, <2>2, <2>3 DEF PayPenalty, Typed
<1>4. ASSUME NEW type \in {"DISBURSEMENT", "INSTALLMENT_PAYMENT"}, CreateTransaction(type)
      PROVE  Typed'
  <2>1. terms.amount \in Nat /\ type \in Types /\ "posted" \in Origins
    BY TermsType DEF Typed, Types, Origins
  <2>2. txs' = txs \union {Row(type, terms.amount, "PENDING", "posted")}
    BY <1>4 DEF CreateTransaction
  <2>3. txs' \subseteq TransactionRows /\ IsFiniteSet(txs') /\ Numbered'
    BY <2>1, <2>2, RowIsNew
  <2>4. report' \in Reports
    BY <1>4, DisturbedType DEF CreateTransaction, Typed
  <2> QED BY <1>4, <2>3, <2>4 DEF CreateTransaction, Typed
<1>12. ASSUME NEW t \in txs, CompleteTransaction(t)
       PROVE  Typed'
  <2>1. txs' \subseteq TransactionRows /\ IsFiniteSet(txs') /\ Numbered'
    BY <1>12, RowIsCompleted
  <2>2. report' \in Reports
    BY <1>12, DisturbedType DEF CompleteTransaction, Typed
  <2> QED BY <1>12, <2>1, <2>2 DEF CompleteTransaction, Typed
<1>5. CASE Advance
  BY <1>5 DEF Advance, Typed, Numbered
<1>6. ASSUME NEW a \in Instants, NEW b \in Instants, Ask(a, b) PROVE Typed'
  <2>1. a \in Slot /\ EndOfDay(b) \in Slot
    BY InstantType, EndOfDayType
  <2>2. report' \in Reports
    <3>1. report' = [pc |-> "reading", from |-> a, to |-> EndOfDay(b), total |-> -1,
                     previous |-> -1, series |-> -1, stale |-> FALSE]
      BY <1>6 DEF Ask, NoReport, Unread
    <3> QED BY <2>1, <3>1 DEF Reports
  <2> QED BY <1>6, <2>2 DEF Ask, Typed, Numbered
<1>7. CASE ReadTotal
  <2>1. report' \in Reports
    BY <1>7, FiguresType DEF ReadTotal, Typed, Reports
  <2> QED BY <1>7, <2>1 DEF ReadTotal, Typed, Numbered
<1>8. CASE ReadPrevious
  <2>1. report' \in Reports
    BY <1>8, FiguresType DEF ReadPrevious, Typed, Reports
  <2> QED BY <1>8, <2>1 DEF ReadPrevious, Typed, Numbered
<1>9. CASE ReadSeries
  <2>1. Sum(CollectedSeries(report)) \in Int
    BY FiguresType
  <2>2. report' \in Reports
    BY <1>9, <2>1 DEF ReadSeries, Typed, Reports
  <2> QED BY <1>9, <2>2 DEF ReadSeries, Typed, Numbered
<1>10. CASE Reply
  <2>1. 0 \in Slot
    BY HorizonIs DEF Slot
  <2>2. report' \in Reports
    BY <1>10, <2>1 DEF Reply, NoReport, Reports, Unread
  <2> QED BY <1>10, <2>2 DEF Reply, Typed, Numbered
<1>11. CASE UNCHANGED vars
  BY <1>11 DEF vars, Typed, Numbered
<1> QED
  BY <1>1, <1>2, <1>3, <1>4, <1>5, <1>6, <1>7, <1>8, <1>9, <1>10, <1>11, <1>12 DEF Next

\* The schedule is written once, and repayments change no amount of it.
LEMMA NextPlanned == Typed /\ Planned /\ [Next]_vars => Planned'
<1> SUFFICES ASSUME Typed, Planned, [Next]_vars PROVE Planned'
  OBVIOUS
<1>1. CASE PayOut
  <2>1. terms \in Offers /\ terms' = terms /\ sched' = Schedules(terms)
    BY <1>1 DEF PayOut, Typed
  <2>2. PlannedAmounts(terms, Schedules(terms))
    BY <2>1, ScheduleType
  <2> QED BY <2>1, <2>2 DEF Planned
<1>2. ASSUME NEW i \in DOMAIN sched, NEW less \in 0 .. 1, NEW reached \in Reaches,
             sched[i].total > less, PayInstallment(i, sched[i].total - less, reached)
      PROVE  Planned'
  <2>1. PICK amount \in Nat : amount = sched[i].total - less
    BY <1>2, Payable
  <2>2. PayInstallment(i, amount, reached) /\ terms' = terms
    BY <1>2, <2>1 DEF PayInstallment
  <2>3. /\ i \in 1 .. Len(sched) /\ Len(sched') = Len(sched)
        /\ sched'[i] \in {sched[i], Credited(sched[i], amount)}
        /\ \A j \in 1 .. Len(sched) : j # i => sched'[j] = sched[j]
    BY <2>2, PayInstallmentSchedule
  <2>4. sched # <<>>
    BY <2>3
  <2>5. PlannedAmounts(terms, sched)
    BY <2>4 DEF Planned
  <2>6. /\ sched'[i].due = sched[i].due /\ sched'[i].principal = sched[i].principal
        /\ sched'[i].interest = sched[i].interest /\ sched'[i].total = sched[i].total
    <3>1. PICK row \in InstallmentRows : row = sched[i]
      BY RowOfSchedule
    <3>2. /\ Credited(row, amount).due = row.due /\ Credited(row, amount).total = row.total
          /\ Credited(row, amount).principal = row.principal
          /\ Credited(row, amount).interest = row.interest
      BY CreditedType
    <3> QED BY <2>3, <3>1, <3>2
  <2>7. PlannedAmounts(terms, sched')
    BY <2>3, <2>5, <2>6 DEF PlannedAmounts
  <2> QED BY <2>2, <2>7 DEF Planned
<1>3. CASE UNCHANGED <<terms, sched>>
  BY <1>3 DEF Planned
<1> QED
  BY <1>1, <1>2, <1>3 DEF Next, PayPenalty, CreateTransaction, CompleteTransaction, Advance,
     Ask, ReadTotal, ReadPrevious, ReadSeries, Reply, vars

LEMMA AlwaysTyped == Spec => []Typed
BY InitTyped, NextTyped, PTL DEF Spec

LEMMA AlwaysPlanned == Spec => []Planned
BY InitTyped, NextPlanned, AlwaysTyped, PTL DEF Spec

LEMMA TypedIsTypeOK == Typed => TypeOK
<1> SUFFICES ASSUME Typed PROVE TypeOK
  OBVIOUS
<1>1. \A i \in DOMAIN sched :
        sched[i] \in [due: Nat, principal: Nat, interest: Nat, total: Nat,
                      paid: Nat, status: {"PENDING", "PAID"}]
  BY RowOfSchedule DEF InstallmentRows
<1>2. \A t \in txs : t.type \in Types /\ t.amount \in Nat /\ t.at \in Instants
                      /\ t.origin \in Origins
  BY DEF Typed, TransactionRows
<1>3. report.pc \in {"idle", "reading"} /\ report.stale \in BOOLEAN
  BY DEF Typed, Reports
<1> QED BY <1>1, <1>2, <1>3 DEF Typed, TypeOK

\* The books keep their types: the schedule of every contract that can be
\* signed has rows of whole cents and of days of the calendar, and none below 0.
THEOREM AccountsTypeCorrect == Spec => []TypeOK
BY AlwaysTyped, TypedIsTypeOK, PTL

\* Of any terms, the schedule adds up, and still does after every repayment.
THEOREM ScheduleAddsUpHolds == Spec => []ScheduleAddsUp
<1>1. Typed /\ Planned => ScheduleAddsUp
  <2> SUFFICES ASSUME Typed, Planned, sched # <<>>
               PROVE  CoversDue(terms, sched) /\ PartsAddUp(terms, sched)
    BY DEF ScheduleAddsUp
  <2>1. terms \in Offers /\ PlannedAmounts(terms, sched)
    BY DEF Typed, Planned
  <2> QED BY <2>1, PlanCovers, PlanPartsAddUp
<1> QED BY <1>1, AlwaysTyped, AlwaysPlanned, PTL

\* The due dates rise, and only the last may pass the end of the contract.
THEOREM OnlyLastIsLateHolds == Spec => []OnlyLastIsLate
<1>1. Typed /\ Planned => OnlyLastIsLate
  <2> SUFFICES ASSUME Typed, Planned, NEW i \in 1 .. Len(sched) - 1
               PROVE  sched[i].due < sched[i + 1].due /\ sched[i].due <= EndDate(terms)
    BY DEF OnlyLastIsLate
  <2>1. Len(sched) \in Nat /\ i \in 1 .. Len(sched) /\ i + 1 \in 1 .. Len(sched)
    BY LenProperties DEF Typed
  <2>2. sched # <<>>
    BY <2>1
  <2>3. terms \in Offers /\ PlannedAmounts(terms, sched)
    BY <2>2 DEF Typed, Planned
  <2>4. /\ i \in 1 .. TotalInstallments(terms) /\ i + 1 \in 1 .. TotalInstallments(terms)
        /\ i < TotalInstallments(terms)
    BY <2>1, <2>3, CountType DEF PlannedAmounts
  <2>5. /\ sched[i].due = Schedules(terms)[i].due
        /\ sched[i + 1].due = Schedules(terms)[i + 1].due
    BY <2>3, <2>4 DEF PlannedAmounts
  <2>6. /\ Schedules(terms)[i].due = DueDate(terms, i)
        /\ Schedules(terms)[i + 1].due = DueDate(terms, i + 1)
    BY <2>3, <2>4, RowTypes
  <2>7. DueDate(terms, i) < DueDate(terms, i + 1) /\ DueDate(terms, i) <= EndDate(terms)
    BY <2>3, <2>4, DueDates
  <2> QED BY <2>5, <2>6, <2>7
<1> QED BY <1>1, AlwaysTyped, AlwaysPlanned, PTL

-----------------------------------------------------------------------------
(* The books: what payments collected to the end is in the balance, the    *)
(* installments show no more than that, one is PAID only once it shows its *)
(* price, and only posted rows wait to be completed.                       *)

Repaid == {t \in txs : t.status = "COMPLETED" /\ t.type \in Repaying}
Counted == {t \in Repaid : t.origin = "payment"}
PaidOn(rows) == [i \in 1 .. Len(rows) |-> rows[i].paid]

Books ==
  /\ Amounts(Counted) = balance.paid
  /\ \A t \in txs : t.status = "PENDING" => t.origin = "posted"
  /\ Sum(PaidOn(sched)) <= balance.paid
  /\ \A i \in 1 .. Len(sched) : sched[i].status = "PAID" => sched[i].total <= sched[i].paid

LEMMA RepaidType ==
  ASSUME Typed
  PROVE  Priced(Repaid) /\ Priced(Counted) /\ Priced(Repaid \ Counted) /\ Counted \subseteq txs
<1>1. Priced(txs)
  BY DEF Typed, Priced, TransactionRows
<1>2. Repaid \subseteq txs /\ Counted \subseteq txs /\ Repaid \ Counted \subseteq txs
  BY DEF Repaid, Counted
<1> QED BY <1>1, <1>2, CostIs

\* A row changes what is counted only if it is a repayment recorded to the end.
LEMMA CountedSame ==
  ASSUME Typed, NEW type \in Types, NEW amount \in Nat,
         NEW status \in {"COMPLETED", "PENDING"}, NEW origin \in Origins,
         type \notin Repaying \/ origin # "payment",
         status = "PENDING" => origin = "posted",
         txs' = txs \union {Row(type, amount, status, origin)}
  PROVE  Amounts(Counted)' = Amounts(Counted)
<1> DEFINE r == Row(type, amount, status, origin)
<1>1. r.type = type /\ r.origin = origin /\ txs' = txs \union {r}
  BY RowIs
<1> HIDE DEF r
<1>2. Counted' = Counted
  BY <1>1 DEF Counted, Repaid
<1> QED BY <1>2 DEF Amounts

\* Recording a repayment counts it and adds it to the balance, or does neither.
LEMMA RecordCounts ==
  ASSUME Typed, Books, NEW type \in Repaying, NEW amount \in Nat, NEW reached \in Reaches,
         Record(type, amount, reached)
  PROVE  /\ Amounts(Counted)' = balance'.paid
         /\ \A t \in txs' : t.status = "PENDING" => t.origin = "posted"
         /\ balance'.paid = IF reached = "row" THEN balance.paid ELSE balance.paid + amount
<1>1. type \in Types /\ "lost" \in Origins /\ "payment" \in Origins
  BY DEF Types, Repaying, Origins
<1>2. CASE reached = "row"
  <2>1. txs' = txs \union {Row(type, amount, "COMPLETED", "lost")} /\ balance' = balance
    BY <1>2 DEF Record
  <2>2. Amounts(Counted)' = Amounts(Counted)
    BY <1>1, <2>1, CountedSame
  <2>3. Row(type, amount, "COMPLETED", "lost").status = "COMPLETED"
    BY <1>1, RowIs
  <2> QED BY <1>2, <2>1, <2>2, <2>3 DEF Books
<1>3. CASE reached # "row"
  <2> DEFINE r == Row(type, amount, "COMPLETED", "payment")
  <2>1. txs' = txs \union {r} /\ balance'.paid = balance.paid + amount
    BY <1>3 DEF Record
  <2>2. /\ r \notin txs /\ r.type = type /\ r.amount = amount
        /\ r.status = "COMPLETED" /\ r.origin = "payment"
    BY <1>1, RowIs
  <2> HIDE DEF r
  <2>3. Counted' = Counted \union {r} /\ r \notin Counted
    BY <2>1, <2>2 DEF Counted, Repaid
  <2>4. Amounts(Counted \union {r}) = Amounts(Counted) + amount
    BY <2>2, <2>3, RepaidType, AmountsAdd
  <2>5. Amounts(Counted)' = Amounts(Counted')
    BY DEF Amounts
  <2> QED BY <1>3, <2>1, <2>2, <2>3, <2>4, <2>5 DEF Books
<1> QED BY <1>2, <1>3

LEMMA PaidOnType ==
  ASSUME NEW rows \in Seq(InstallmentRows)
  PROVE  /\ IsFiniteSet(1 .. Len(rows)) /\ DOMAIN PaidOn(rows) = 1 .. Len(rows)
         /\ \A i \in 1 .. Len(rows) :
              PaidOn(rows)[i] = rows[i].paid /\ rows[i].paid \in Nat /\ rows[i].total \in Nat
         /\ Sum(PaidOn(rows)) = SumOver(PaidOn(rows), 1 .. Len(rows))
         /\ Nats(PaidOn(rows), 1 .. Len(rows)) /\ Sum(PaidOn(rows)) \in Nat
<1>1. Len(rows) \in Nat
  BY LenProperties
<1>2. IsFiniteSet(1 .. Len(rows))
  BY <1>1, FS_Interval
<1>3. \A i \in 1 .. Len(rows) :
        PaidOn(rows)[i] = rows[i].paid /\ rows[i].paid \in Nat /\ rows[i].total \in Nat
  <2> SUFFICES ASSUME NEW i \in 1 .. Len(rows)
      PROVE PaidOn(rows)[i] = rows[i].paid /\ rows[i].paid \in Nat /\ rows[i].total \in Nat
    OBVIOUS
  <2>1. rows[i] \in InstallmentRows
    BY ElementOfSeq
  <2> QED BY <2>1 DEF PaidOn, InstallmentRows
<1>4. DOMAIN PaidOn(rows) = 1 .. Len(rows)
  BY DEF PaidOn
<1>5. Nats(PaidOn(rows), 1 .. Len(rows))
  BY <1>3 DEF Nats
<1>6. Sum(PaidOn(rows)) = SumOver(PaidOn(rows), 1 .. Len(rows))
  BY <1>4, SumIsSumOver
<1>7. SumOver(PaidOn(rows), 1 .. Len(rows)) \in Nat
  BY <1>2, <1>5, SumIsNat
<1> QED BY <1>2, <1>3, <1>4, <1>5, <1>6, <1>7

LEMMA InitBooks == Init => Books
<1> SUFFICES ASSUME Init PROVE Books
  OBVIOUS
<1>1. Counted = {} /\ txs = {} /\ sched = <<>> /\ balance.paid = 0
  BY DEF Init, Repaid, Counted
<1>2. Amounts({}) = 0
  <2>1. Amounts({}) = SumOver(Cost({}), {})
    BY FS_EmptySet, CostIs DEF Priced
  <2> QED BY <2>1, SumOfNothing
<1>3. DOMAIN PaidOn(<<>>) = {}
  BY DEF PaidOn
<1>4. Sum(PaidOn(<<>>)) = 0
  BY <1>3, SumIsSumOver, SumOfNothing
<1> QED BY <1>1, <1>2, <1>4 DEF Books

LEMMA NextBooks == Typed /\ Typed' /\ Books /\ [Next]_vars => Books'
<1> SUFFICES ASSUME Typed, Typed', Books, [Next]_vars PROVE Books'
  OBVIOUS
<1>0. balance.paid \in Nat /\ sched \in Seq(InstallmentRows) /\ sched' \in Seq(InstallmentRows)
  BY DEF Typed
<1>1. CASE PayOut
  <2>1. /\ terms.amount \in Nat /\ terms \in Offers
        /\ "DISBURSEMENT" \in Types \ Repaying /\ "payment" \in Origins
    BY TermsType DEF Typed, Types, Repaying, Origins
  <2>2. txs' = txs \union {Row("DISBURSEMENT", terms.amount, "COMPLETED", "payment")}
    BY <1>1 DEF PayOut
  <2>3. Amounts(Counted)' = balance'.paid
    <3>1. Amounts(Counted)' = Amounts(Counted)
      BY <2>1, <2>2, CountedSame
    <3> QED BY <1>1, <3>1 DEF PayOut, Books
  <2>8. \A t \in txs' : t.status = "PENDING" => t.origin = "posted"
    <3>1. Row("DISBURSEMENT", terms.amount, "COMPLETED", "payment").status = "COMPLETED"
      BY <2>1, RowIs
    <3> QED BY <2>2, <3>1 DEF Books
  <2>4. PICK rows : rows = Schedules(terms)
    OBVIOUS
  <2>5. /\ rows \in Seq(InstallmentRows) /\ sched' = rows
        /\ \A i \in 1 .. Len(rows) : rows[i].paid = 0 /\ rows[i].status = "PENDING"
    BY <1>1, <2>1, <2>4, ScheduleType, RowTypes DEF PayOut
  <2>6. Sum(PaidOn(rows)) = 0
    <3>1. \A i \in 1 .. Len(rows) : PaidOn(rows)[i] = 0
      BY <2>5, PaidOnType
    <3>2. /\ IsFiniteSet(1 .. Len(rows))
          /\ Sum(PaidOn(rows)) = SumOver(PaidOn(rows), 1 .. Len(rows))
      BY <2>5, PaidOnType
    <3> QED BY <3>1, <3>2, SumOfZeros
  <2>7. balance' = balance
    BY <1>1 DEF PayOut
  <2> QED BY <1>0, <2>3, <2>5, <2>6, <2>7, <2>8 DEF Books
<1>2. ASSUME NEW i \in DOMAIN sched, NEW less \in 0 .. 1, NEW reached \in Reaches,
             sched[i].total > less, PayInstallment(i, sched[i].total - less, reached)
      PROVE  Books'
  <2>1. PICK amount \in Nat : amount = sched[i].total - less
    BY <1>2, Payable
  <2>2. /\ PayInstallment(i, amount, reached) /\ "INSTALLMENT_PAYMENT" \in Repaying
        /\ Record("INSTALLMENT_PAYMENT", amount, reached)
    BY <1>2, <2>1 DEF PayInstallment, Repaying
  <2>3. /\ Amounts(Counted)' = balance'.paid
        /\ \A t \in txs' : t.status = "PENDING" => t.origin = "posted"
        /\ balance'.paid = IF reached = "row" THEN balance.paid ELSE balance.paid + amount
    BY <2>2, RecordCounts
  <2>4. /\ i \in 1 .. Len(sched) /\ Len(sched') = Len(sched)
        /\ sched'[i] \in {sched[i], Credited(sched[i], amount)}
        /\ reached # "end" => sched' = sched
        /\ \A j \in 1 .. Len(sched) : j # i => sched'[j] = sched[j]
    BY <2>2, PayInstallmentSchedule
  <2>5. /\ sched[i] \in InstallmentRows /\ sched[i].paid \in Nat
        /\ sched'[i].paid \in Nat /\ sched'[i].paid <= sched[i].paid + amount
        /\ sched'[i].total = sched[i].total
        /\ sched'[i].status = "PAID" => sched'[i].total <= sched'[i].paid
    <3>1. sched[i] \in InstallmentRows /\ sched[i].paid \in Nat
      BY RowOfSchedule
    <3>2. sched[i].status = "PAID" => sched[i].total <= sched[i].paid
      BY <2>4 DEF Books
    <3>3. PICK row \in InstallmentRows : row = sched[i]
      BY <3>1
    <3>4. /\ Credited(row, amount).paid \in Nat /\ Credited(row, amount).total = row.total
          /\ Credited(row, amount).paid <= row.paid + amount
      BY CreditedType
    <3>5. Credited(row, amount).status = "PAID" => row.total <= Credited(row, amount).paid
      BY <3>2, <3>3, CreditedType
    <3> QED BY <2>4, <3>1, <3>2, <3>3, <3>4, <3>5
  <2>6. Sum(PaidOn(sched)) \in Nat /\ Sum(PaidOn(sched')) \in Nat
    BY <1>0, PaidOnType
  <2>7. Sum(PaidOn(sched')) = Sum(PaidOn(sched)) + sched'[i].paid - sched[i].paid
    <3> DEFINE f == PaidOn(sched)
               g == PaidOn(sched')
    <3>1. PICK S : S = 1 .. Len(sched)
      OBVIOUS
    <3>2. /\ IsFiniteSet(S) /\ Nats(f, S) /\ Nats(g, S)
          /\ Sum(f) = SumOver(f, S) /\ Sum(g) = SumOver(g, S)
          /\ \A j \in S : f[j] = sched[j].paid /\ g[j] = sched'[j].paid
      BY <1>0, <2>4, <3>1, PaidOnType
    <3> HIDE DEF f, g
    <3>3. i \in S /\ \A j \in S \ {i} : f[j] = g[j]
      BY <2>4, <3>1, <3>2
    <3>4. Ints(f, S) /\ Ints(g, S)
      BY <3>2 DEF Ints, Nats
    <3>5. SumOver(g, S) = SumOver(f, S) + g[i] - f[i]
      BY <3>2, <3>3, <3>4, SumChanges
    <3> QED BY <3>2, <3>3, <3>5 DEF f, g
  <2>8. Sum(PaidOn(sched')) <= balance'.paid
    <3>1. CASE reached = "end"
      BY <1>0, <2>3, <2>5, <2>6, <2>7, <3>1 DEF Books
    <3>2. CASE reached # "end"
      BY <1>0, <2>3, <2>4, <2>6, <3>2 DEF Books
    <3> QED BY <3>1, <3>2
  <2>9. \A j \in 1 .. Len(sched') :
          sched'[j].status = "PAID" => sched'[j].total <= sched'[j].paid
    BY <2>4, <2>5 DEF Books
  <2>10. Sum(PaidOn(sched))' = Sum(PaidOn(sched'))
    OBVIOUS
  <2> QED BY <2>3, <2>8, <2>9, <2>10 DEF Books
<1>3. ASSUME NEW reached \in Reaches, PayPenalty(1, reached)
      PROVE  Books'
  <2>1. /\ sched' = sched /\ "PENALTY_PAYMENT" \in Repaying
        /\ Record("PENALTY_PAYMENT", 1, reached)
    BY <1>3 DEF PayPenalty, Repaying
  <2>2. /\ Amounts(Counted)' = balance'.paid
        /\ \A t \in txs' : t.status = "PENDING" => t.origin = "posted"
        /\ balance'.paid = IF reached = "row" THEN balance.paid ELSE balance.paid + 1
    BY <2>1, RecordCounts
  <2>3. Sum(PaidOn(sched)) \in Nat
    BY <1>0, PaidOnType
  <2> QED BY <1>0, <2>1, <2>2, <2>3 DEF Books
<1>4. ASSUME NEW type \in {"DISBURSEMENT", "INSTALLMENT_PAYMENT"}, CreateTransaction(type)
      PROVE  Books'
  <2>1. terms.amount \in Nat /\ type \in Types /\ "posted" \in Origins
    BY TermsType DEF Typed, Types, Origins
  <2>2. txs' = txs \union {Row(type, terms.amount, "PENDING", "posted")}
    BY <1>4 DEF CreateTransaction
  <2>3. Amounts(Counted)' = Amounts(Counted)
    BY <2>1, <2>2, CountedSame
  <2>4. \A t \in txs' : t.status = "PENDING" => t.origin = "posted"
    <3>1. Row(type, terms.amount, "PENDING", "posted").origin = "posted"
      BY <2>1, RowIs
    <3> QED BY <2>2, <3>1 DEF Books
  <2> QED BY <1>4, <2>3, <2>4 DEF CreateTransaction, Books
<1>6. ASSUME NEW t \in txs, CompleteTransaction(t)
      PROVE  Books'
  <2>1. PICK u : u = [t EXCEPT !.status = "COMPLETED"]
    OBVIOUS
  <2>2. txs' = (txs \ {t}) \union {u} /\ u.origin = "posted" /\ t.origin = "posted"
    BY <1>6, <2>1, RowIsCompleted DEF Books
  <2>3. Counted' = Counted
    BY <2>2 DEF Counted, Repaid
  <2>4. Amounts(Counted)' = Amounts(Counted)
    BY <2>3 DEF Amounts
  <2>5. \A s \in txs' : s.status = "PENDING" => s.origin = "posted"
    BY <2>2 DEF Books
  <2> QED BY <1>6, <2>4, <2>5 DEF CompleteTransaction, Books
<1>5. CASE UNCHANGED <<balance, sched, txs>>
  BY <1>5 DEF Books, Repaid, Counted
<1> QED
  BY <1>1, <1>2, <1>3, <1>4, <1>5, <1>6 DEF Next, Advance, Ask, ReadTotal, ReadPrevious,
     ReadSeries, Reply, vars

LEMMA AlwaysBooks == Spec => []Books
BY InitBooks, NextBooks, AlwaysTyped, PTL DEF Spec

\* Over the whole calendar the dashboard counts all repayments, and every
\* installment that is not PAID.
LEMMA EverCounts ==
  ASSUME Typed, Planned, sched # <<>>
  PROVE  LET ever == [from |-> 0, to |-> Horizon]
         IN /\ Collected(ever) = Repaid
            /\ PendingRows(ever) = {i \in 1 .. Len(sched) : sched[i].status = "PENDING"}
<1> DEFINE ever == [from |-> 0, to |-> Horizon]
<1>1. \A t \in txs : 0 <= t.at /\ t.at <= Horizon
  <2> SUFFICES ASSUME NEW t \in txs PROVE 0 <= t.at /\ t.at <= Horizon
    OBVIOUS
  <2>1. t.at \in 0 .. Horizon - 1
    BY InstantType DEF Typed, TransactionRows, Slot
  <2>2. \A x \in 0 .. Horizon - 1 : 0 <= x /\ x <= Horizon
    BY HorizonIs
  <2> QED BY <2>1, <2>2
<1>2. Collected(ever) = Repaid
  BY <1>1 DEF Collected, Completed, Within, Repaid
<1>3. terms \in Offers /\ PlannedAmounts(terms, sched) /\ DOMAIN sched = 1 .. Len(sched)
  BY LenProperties DEF Typed, Planned
<1>4. \A i \in 1 .. Len(sched) : 0 <= sched[i].due * Day /\ sched[i].due * Day <= Horizon
  <2> SUFFICES ASSUME NEW i \in 1 .. Len(sched)
               PROVE  0 <= sched[i].due * Day /\ sched[i].due * Day <= Horizon
    OBVIOUS
  <2>1. i \in 1 .. TotalInstallments(terms) /\ sched[i].due = Schedules(terms)[i].due
    BY <1>3 DEF PlannedAmounts
  <2>2. sched[i].due = DueDate(terms, i)
    BY <1>3, <2>1, RowTypes
  <2>3. DueDate(terms, i) \in Nat /\ DueDate(terms, i) < DaysBefore[LastMonth + 1]
    BY <1>3, <2>1, DueDates
  <2>4. DaysBefore[23 + 1] = 731
    BY Calendar
  <2> QED BY <2>2, <2>3, <2>4, HorizonIs
<1>5. PendingRows(ever) = {i \in 1 .. Len(sched) : sched[i].status = "PENDING"}
  BY <1>3, <1>4 DEF PendingRows
<1> QED BY <1>2, <1>5

\* What is pending and what was paid are the price of all installments.
LEMMA PendingCovers ==
  ASSUME Typed, Planned, Books, sched # <<>>,
         NEW P, P = {i \in 1 .. Len(sched) : sched[i].status = "PENDING"}
  PROVE  /\ TotalAmountDue(terms) \in Nat
         /\ Sum([i \in P |-> sched[i].total]) \in Nat
         /\ TotalAmountDue(terms) <= Sum([i \in P |-> sched[i].total]) + Sum(PaidOn(sched))
<1>1. PICK S : S = 1 .. Len(sched)
  OBVIOUS
<1>2. /\ terms \in Offers /\ PlannedAmounts(terms, sched) /\ sched \in Seq(InstallmentRows)
  BY DEF Typed, Planned
<1> DEFINE t == [i \in S |-> sched[i].total]
           p == PaidOn(sched)
           q == [i \in S |-> IF i \in P THEN sched[i].total ELSE 0]
           r == [i \in P |-> sched[i].total]
           both == [i \in S |-> q[i] + p[i]]
<1>3. /\ IsFiniteSet(S) /\ P \subseteq S /\ Nats(p, S) /\ Sum(p) = SumOver(p, S)
      /\ \A i \in S : p[i] = sched[i].paid /\ sched[i].paid \in Nat /\ sched[i].total \in Nat
  BY <1>1, <1>2, PaidOnType
<1>4. \A i \in S \ P : sched[i].total <= sched[i].paid
  <2> SUFFICES ASSUME NEW i \in S \ P PROVE sched[i].total <= sched[i].paid
    OBVIOUS
  <2>1. i \in 1 .. Len(sched)
    BY <1>1
  <2>2. sched[i] \in InstallmentRows
    BY <1>2, <2>1, ElementOfSeq
  <2>3. sched[i].status = "PAID"
    BY <1>1, <2>2 DEF InstallmentRows
  <2> QED BY <2>1, <2>3 DEF Books
<1>5. Nats(t, S) /\ Nats(q, S) /\ \A i \in S : t[i] <= both[i]
  BY <1>3, <1>4 DEF Nats
<1>6. Ints(t, S) /\ Ints(q, S) /\ Ints(p, S) /\ Ints(both, S)
  BY <1>3, <1>5 DEF Nats, Ints
<1>7. /\ \A i \in S \ P : q[i] = 0
      /\ \A i \in P : q[i] = r[i] /\ r[i] \in Nat
      /\ \A i \in S : both[i] = q[i] + p[i]
  BY <1>3
<1>8. DOMAIN t = S /\ DOMAIN r = P
  OBVIOUS
<1>9. TotalAmountDue(terms) \in Nat /\ TotalAmountDue(terms) <= Sum(t)
  <2>1. TotalAmountDue(terms) \in Nat
    BY <1>2, PlanTypes
  <2>2. CoversDue(terms, sched)
    BY <1>2, PlanCovers
  <2>3. 0 <= Sum(t) - TotalAmountDue(terms)
    BY <1>1, <2>2 DEF CoversDue
  <2> HIDE DEF t
  <2>4. Sum(t) \in Nat
    BY <1>3, <1>5, <1>8, SumIsSumOver, SumIsNat
  <2> QED BY <2>1, <2>3, <2>4
<1> HIDE DEF t, p, q, r, both
<1>10. SumOver(t, S) <= SumOver(both, S)
  BY <1>3, <1>5, <1>6, SumIsLess
<1>11. SumOver(both, S) = SumOver(q, S) + SumOver(p, S)
  BY <1>3, <1>6, <1>7, SumOfBoth
<1>12. SumOver(q, S) = SumOver(q, P)
  BY <1>3, <1>6, <1>7, SumOfOthers
<1>13. IsFiniteSet(P)
  BY <1>3, FS_Subset
<1>14. SumOver(q, P) = SumOver(r, P)
  BY <1>7, <1>13, SumOfSame
<1>15. Sum(t) = SumOver(t, S) /\ Sum(r) = SumOver(r, P)
  BY <1>8, SumIsSumOver
<1>16. SumOver(r, P) \in Nat /\ SumOver(p, S) \in Nat /\ SumOver(t, S) \in Nat
  BY <1>3, <1>5, <1>7, <1>13, SumIsNat DEF Nats
<1>17. TotalAmountDue(terms) <= Sum(r) + Sum(p)
  BY <1>3, <1>9, <1>10, <1>11, <1>12, <1>14, <1>15, <1>16
<1> QED BY <1>9, <1>15, <1>16, <1>17 DEF r, p

\* The balance and the pending payments cover the amount due, for every contract
\* and after any repayments, in part, in full, twice or interrupted; and the
\* collections exceed the balance by what was posted, or died on its way, exactly.
THEOREM NothingForgivenHolds == Spec => []NothingForgiven
<1>1. Typed /\ Planned /\ Books => NothingForgiven
  <2> SUFFICES ASSUME Typed, Planned, Books, sched # <<>>
      PROVE  LET ever   == [from |-> 0, to |-> Horizon]
                 beyond == {t \in Collected(ever) : t.origin # "payment"}
             IN /\ balance.paid + PendingPayments(ever) >= TotalAmountDue(terms)
                /\ Amounts(Collected(ever)) = balance.paid + Amounts(beyond)
    BY DEF NothingForgiven
  <2> DEFINE ever == [from |-> 0, to |-> Horizon]
             beyond == {t \in Collected(ever) : t.origin # "payment"}
  <2>1. PICK P : P = {i \in 1 .. Len(sched) : sched[i].status = "PENDING"}
    OBVIOUS
  <2>2. Collected(ever) = Repaid /\ PendingRows(ever) = P
    BY <2>1, EverCounts
  <2>3. beyond = Repaid \ Counted /\ Repaid = Counted \union beyond /\ Counted \cap beyond = {}
    BY <2>2 DEF Counted
  <2> HIDE DEF ever, beyond
  <2>4. Amounts(Collected(ever)) = balance.paid + Amounts(beyond)
    <3>1. Priced(Counted) /\ Priced(beyond)
      BY <2>3, RepaidType
    <3>2. Amounts(Counted \union beyond) = Amounts(Counted) + Amounts(beyond)
      BY <2>3, <3>1, AmountsSplit
    <3> QED BY <2>2, <2>3, <3>2 DEF Books
  <2> DEFINE pending == Sum([i \in P |-> sched[i].total])
  <2>5. /\ TotalAmountDue(terms) \in Nat /\ pending \in Nat
        /\ TotalAmountDue(terms) <= pending + Sum(PaidOn(sched))
    BY <2>1, PendingCovers
  <2>6. Sum(PaidOn(sched)) \in Nat /\ balance.paid \in Nat /\ Sum(PaidOn(sched)) <= balance.paid
    BY PaidOnType DEF Typed, Books
  <2>7. PendingPayments(ever) = pending
    BY <2>2 DEF PendingPayments
  <2> HIDE DEF pending
  <2>8. balance.paid + pending >= TotalAmountDue(terms)
    BY <2>5, <2>6
  <2> QED BY <2>4, <2>7, <2>8 DEF ever, beyond
<1> QED BY <1>1, AlwaysTyped, AlwaysPlanned, AlwaysBooks, PTL

-----------------------------------------------------------------------------
(* The dashboard: what was read is what there still is, unless something   *)
(* was written in between.                                                 *)

Kept ==
  report.pc = "reading" /\ ~report.stale =>
    /\ report.total # Unread => report.total = Amounts(Collected(report))
    /\ report.previous # Unread => report.previous = Amounts(Collected(Previous(report)))
    /\ report.series # Unread => report.series = Amounts(Collected(report))

LEMMA SameRange ==
  ASSUME NEW r, NEW q, r.from = q.from, r.to = q.to
  PROVE  Collected(r) = Collected(q) /\ Collected(Previous(r)) = Collected(Previous(q))
BY DEF Collected, Previous

LEMMA NextKept == Typed /\ Kept /\ [Next]_vars => Kept'
<1> SUFFICES ASSUME Typed, Kept, [Next]_vars PROVE Kept'
  OBVIOUS
<1>1. CASE report' = Disturbed
  <2>1. report \in Reports
    BY DEF Typed
  <2>2. Disturbed.pc = "reading" => Disturbed.stale
    BY <2>1, DisturbedType
  <2> QED BY <1>1, <2>2 DEF Kept
<1>2. CASE UNCHANGED <<txs, report>>
  BY <1>2 DEF Kept, Collected, Completed, Within
<1>3. ASSUME NEW a \in Instants, NEW b \in Instants, Ask(a, b) PROVE Kept'
  BY <1>3 DEF Ask, NoReport, Unread, Kept
<1>4. ASSUME txs' = txs, report'.pc = report.pc, report'.stale = report.stale,
             report'.from = report.from, report'.to = report.to,
             report'.total \in {report.total, Amounts(Collected(report))},
             report'.previous \in {report.previous, Amounts(Collected(Previous(report)))},
             report'.series \in {report.series, Amounts(Collected(report))}
      PROVE  Kept'
  <2>1. PICK q : q = report'
    OBVIOUS
  <2>2. Collected(q) = Collected(report) /\ Collected(Previous(q)) = Collected(Previous(report))
    BY <1>4, <2>1, SameRange
  <2>3. Collected(report)' = Collected(q) /\ Collected(Previous(report))' = Collected(Previous(q))
    BY <1>4, <2>1 DEF Collected, Completed, Within, Previous
  <2>4. /\ Amounts(Collected(report))' = Amounts(Collected(report))
        /\ Amounts(Collected(Previous(report)))' = Amounts(Collected(Previous(report)))
    BY <2>2, <2>3 DEF Amounts
  <2> QED BY <1>4, <2>4 DEF Kept, Unread
<1>5. CASE ReadTotal
  <2>1. txs' = txs /\ report' = [report EXCEPT !.total = Amounts(Collected(report))]
    BY <1>5 DEF ReadTotal
  <2>2. /\ report'.pc = report.pc /\ report'.stale = report.stale
        /\ report'.from = report.from /\ report'.to = report.to
        /\ report'.total = Amounts(Collected(report))
        /\ report'.previous = report.previous /\ report'.series = report.series
    BY <2>1 DEF Typed, Reports
  <2> QED BY <1>4, <2>1, <2>2
<1>6. CASE ReadPrevious
  <2>1. txs' = txs /\ report' = [report EXCEPT !.previous = Amounts(Collected(Previous(report)))]
    BY <1>6 DEF ReadPrevious
  <2>2. /\ report'.pc = report.pc /\ report'.stale = report.stale
        /\ report'.from = report.from /\ report'.to = report.to
        /\ report'.previous = Amounts(Collected(Previous(report)))
        /\ report'.total = report.total /\ report'.series = report.series
    BY <2>1 DEF Typed, Reports
  <2> QED BY <1>4, <2>1, <2>2
<1>7. CASE ReadSeries
  <2>0. Sum(CollectedSeries(report)) = Amounts(Collected(report))
    BY FiguresType
  <2>1. txs' = txs /\ report' = [report EXCEPT !.series = Amounts(Collected(report))]
    BY <1>7, <2>0 DEF ReadSeries
  <2>2. /\ report'.pc = report.pc /\ report'.stale = report.stale
        /\ report'.from = report.from /\ report'.to = report.to
        /\ report'.series = Amounts(Collected(report))
        /\ report'.total = report.total /\ report'.previous = report.previous
    BY <2>1 DEF Typed, Reports
  <2> QED BY <1>4, <2>1, <2>2
<1>8. CASE Reply
  BY <1>8 DEF Reply, NoReport, Kept
<1> QED
  BY <1>1, <1>2, <1>3, <1>5, <1>6, <1>7, <1>8
     DEF Next, PayOut, PayInstallment, PayPenalty, CreateTransaction, CompleteTransaction,
         Advance, vars

LEMMA AlwaysKept == Spec => []Kept
<1>1. Init => Kept
  BY DEF Init, NoReport, Kept
<1> QED BY <1>1, NextKept, AlwaysTyped, PTL DEF Spec

\* The range and the one before it make up the range of both.
LEMMA PeriodsAdjoin ==
  ASSUME Typed, report.from <= report.to
  PROVE  LET both == [from |-> Previous(report).from, to |-> report.to]
         IN Amounts(Collected(both))
              = Amounts(Collected(report)) + Amounts(Collected(Previous(report)))
<1> DEFINE both == [from |-> Previous(report).from, to |-> report.to]
           A == Collected(report)
           B == Collected(Previous(report))
<1>1. PICK from \in Int, to \in Int : from = report.from /\ to = report.to
  <2>1. \A t \in Slot : t \in Int
    BY HorizonIs DEF Slot
  <2> QED BY <2>1 DEF Typed, Reports
<1>2. /\ Previous(report).from = from - 1 - (to - from) /\ Previous(report).to = from - 1
      /\ both.from = from - 1 - (to - from) /\ both.to = to
  BY <1>1 DEF Previous
<1>3. \A t \in txs : t.at \in Int
  <2>1. Instants \subseteq Int
    BY InstantType
  <2> QED BY <2>1 DEF Typed, TransactionRows
<1>4. A \cap B = {} /\ Collected(both) = A \union B
  <2>1. \A t \in txs : /\ ~(from <= t.at /\ t.at <= to /\ t.at <= from - 1)
                       /\ from - 1 - (to - from) <= t.at /\ t.at <= to
                            <=> \/ from <= t.at /\ t.at <= to
                                \/ from - 1 - (to - from) <= t.at /\ t.at <= from - 1
    BY <1>1, <1>3
  <2>2. \A t : t \in A <=> /\ t \in txs /\ from <= t.at /\ t.at <= to
                           /\ t.status = "COMPLETED" /\ t.type \in Repaying
    BY <1>1 DEF Collected, Completed, Within
  <2>3. \A t : t \in B <=> /\ t \in txs /\ from - 1 - (to - from) <= t.at /\ t.at <= from - 1
                           /\ t.status = "COMPLETED" /\ t.type \in Repaying
    BY <1>2 DEF Collected, Completed, Within
  <2>4. \A t : t \in Collected(both) <=>
                 /\ t \in txs /\ from - 1 - (to - from) <= t.at /\ t.at <= to
                 /\ t.status = "COMPLETED" /\ t.type \in Repaying
    BY <1>2 DEF Collected, Completed, Within
  <2> HIDE DEF A, B, both
  <2>5. A \cap B = {}
    BY <2>1, <2>2, <2>3
  <2>6. Collected(both) = A \union B
    BY <2>1, <2>2, <2>3, <2>4
  <2> QED BY <2>5, <2>6
<1>5. Priced(A) /\ Priced(B)
  BY CollectedType
<1> HIDE DEF A, B, both
<1>6. Amounts(A \union B) = Amounts(A) + Amounts(B)
  BY <1>4, <1>5, AmountsSplit
<1> QED BY <1>4, <1>6 DEF A, B, both

\* A dashboard that no write disturbed agrees with itself, whatever its range
\* and in whatever order its queries are answered.
THEOREM DashboardAgreesHolds == Spec => []DashboardAgrees
<1>1. Typed /\ Kept => DashboardAgrees
  <2> SUFFICES ASSUME Typed, Kept, report.pc = "reading", Answered, ~report.stale
      PROVE  LET both == [from |-> Previous(report).from, to |-> report.to]
             IN /\ report.series = report.total
                /\ report.from <= report.to =>
                     report.total + report.previous = Amounts(Collected(both))
    BY DEF DashboardAgrees
  <2>1. /\ report.total = Amounts(Collected(report))
        /\ report.previous = Amounts(Collected(Previous(report)))
        /\ report.series = Amounts(Collected(report))
    BY DEF Kept, Answered
  <2> QED BY <2>1, PeriodsAdjoin
<1> QED BY <1>1, AlwaysTyped, AlwaysKept, PTL

-----------------------------------------------------------------------------
(* The wallet.                                                             *)

\* What a row adds to the amount to receive.
PaidOut(mine, t) == t.status = "COMPLETED" /\ t.sentBy \in mine /\ t.type = "DISBURSEMENT"
GotBack(mine, t) == t.status = "COMPLETED" /\ t.receivedBy \in mine /\ t.type \in Repaying
Out(mine, rows)  == [t \in rows |-> IF PaidOut(mine, t) THEN t.amount ELSE 0]
Back(mine, rows) == [t \in rows |-> IF GotBack(mine, t) THEN -t.amount ELSE 0]
Flow(mine, rows) == [t \in rows |-> Out(mine, rows)[t] + Back(mine, rows)[t]]

LEMMA ReceivableIs ==
  ASSUME NEW mine, NEW S, Priced(S), NEW rows, rows \subseteq S
  PROVE  Ints(Flow(mine, S), S) /\ Receivable(mine, rows) = SumOver(Flow(mine, S), rows)
<1> DEFINE f == Flow(mine, S)
           o == Out(mine, S)
           g == Back(mine, S)
           A == {t \in Completed(rows) : t.sentBy \in mine /\ t.type = "DISBURSEMENT"}
           B == {t \in Completed(rows) : t.receivedBy \in mine /\ t.type \in Repaying}
           zero == [t \in B |-> 0]
<1>1. IsFiniteSet(rows) /\ \A t \in S : t.amount \in Nat
  BY FS_Subset DEF Priced
<1>2. /\ \A t \in S : o[t] = IF PaidOut(mine, t) THEN t.amount ELSE 0
      /\ \A t \in S : g[t] = IF GotBack(mine, t) THEN -t.amount ELSE 0
      /\ \A t \in S : f[t] = o[t] + g[t]
  BY DEF Out, Back, Flow
<1>3. /\ A \subseteq rows /\ \A t \in rows : t \in A <=> PaidOut(mine, t)
      /\ B \subseteq rows /\ \A t \in rows : t \in B <=> GotBack(mine, t)
  BY DEF Completed, PaidOut, GotBack
<1>4. Receivable(mine, rows) = Amounts(A) - Amounts(B)
  BY DEF Receivable
<1>5. \A t \in B : zero[t] = 0
  OBVIOUS
<1> HIDE DEF f, o, g, A, B, zero
<1>6. \A t \in S : o[t] \in Int /\ g[t] \in Int /\ f[t] \in Int
  BY <1>1, <1>2
<1>7. Ints(o, rows) /\ Ints(g, rows) /\ Ints(f, S)
  BY <1>6 DEF Ints
<1>8. SumOver(f, rows) = SumOver(o, rows) + SumOver(g, rows)
  BY <1>1, <1>2, <1>7, SumOfBoth
<1>9. IsFiniteSet(A) /\ IsFiniteSet(B)
  BY <1>1, <1>3, FS_Subset
<1>10. SumOver(o, rows) = Amounts(A)
  <2>1. \A t \in rows \ A : o[t] = 0
    BY <1>2, <1>3
  <2>2. SumOver(o, rows) = SumOver(o, A)
    BY <1>1, <1>3, <1>7, <2>1, SumOfOthers
  <2>3. \A t \in A : o[t] = t.amount
    BY <1>2, <1>3
  <2> QED BY <1>9, <2>2, <2>3, AmountsIs
<1>11. SumOver(g, rows) = SumOver(g, B)
  <2>1. \A t \in rows \ B : g[t] = 0
    BY <1>2, <1>3
  <2> QED BY <1>1, <1>3, <1>7, <2>1, SumOfOthers
<1>12. SumOver(g, B) + Amounts(B) = 0
  <2>1. B \subseteq S
    BY <1>3
  <2>2. /\ Amounts(B) = SumOver(Cost(S), B) /\ Ints(Cost(S), B)
        /\ \A t \in S : Cost(S)[t] = t.amount
    BY <2>1, CostIs
  <2>3. \A t \in B : zero[t] = g[t] + Cost(S)[t]
    BY <1>1, <1>2, <1>3, <1>5, <2>1, <2>2
  <2>4. Ints(g, B)
    BY <1>6, <2>1 DEF Ints
  <2>5. SumOver(zero, B) = SumOver(g, B) + SumOver(Cost(S), B)
    BY <1>9, <2>2, <2>3, <2>4, SumOfBoth
  <2>6. SumOver(zero, B) = 0
    BY <1>5, <1>9, SumOfZeros
  <2> QED BY <2>2, <2>5, <2>6
<1>13. SumOver(g, B) \in Int /\ Amounts(A) \in Int /\ Amounts(B) \in Int
  <2>1. A \subseteq S /\ B \subseteq S
    BY <1>3
  <2>2. Priced(A) /\ Priced(B)
    BY <2>1, CostIs
  <2>3. Ints(g, B)
    BY <1>6, <2>1 DEF Ints
  <2> QED BY <1>9, <2>2, <2>3, AmountsType, SumIsInt
<1>14. SumOver(f, rows) = Amounts(A) - Amounts(B)
  BY <1>8, <1>10, <1>11, <1>12, <1>13
<1> QED BY <1>4, <1>7, <1>14 DEF f

\* No trend of amounts falls by more than all.
LEMMA PercentageIsBounded ==
  ASSUME NEW series \in Seq(Nat) PROVE Percentage(series) >= -10000
<1> DEFINE first == IF series = <<>> THEN 0 ELSE series[1]
           last == IF series = <<>> THEN 0 ELSE series[Len(series)]
<1>1. first \in Nat /\ last \in Nat
  <2>1. CASE series = <<>>
    BY <2>1
  <2>2. CASE series # <<>>
    <3>1. 1 \in 1 .. Len(series) /\ Len(series) \in 1 .. Len(series)
      BY <2>2, EmptySeq, LenProperties
    <3> QED BY <2>2, <3>1, ElementOfSeq
  <2> QED BY <2>1, <2>2
<1>2. Percentage(series) = IF first = 0 THEN (IF last > 0 THEN 10000 ELSE 0)
                           ELSE ((last - first) * 10000) \div first
  BY DEF Percentage
<1> HIDE DEF first, last
<1>3. CASE first = 0
  BY <1>2, <1>3
<1>4. CASE first # 0
  <2>1. PICK x \in Int : x = (last - first) * 10000
    BY <1>1
  <2>2. first \in Nat \ {0}
    BY <1>1, <1>4
  <2>3. PICK q \in Int : q = x \div first
    BY <2>2, DivFacts
  <2>4. x < first * q + first
    BY <2>2, <2>3, DivFacts
  <2>5. ASSUME q <= -10001 PROVE FALSE
    <3>1. first * q <= first * (-10001)
      BY <2>2, <2>5
    <3>2. PICK y \in Int : y = first * q
      BY <2>2
    <3> QED BY <1>1, <2>1, <2>2, <2>4, <3>1, <3>2
  <2> QED BY <1>2, <1>4, <2>1, <2>3, <2>5
<1> QED BY <1>3, <1>4

LEMMA WalletRangeType ==
  ASSUME NEW a \in Instants, NEW b \in Instants, NEW r, r = WalletRange(a, b)
  PROVE  r.from \in Slot /\ r.to \in Slot /\ r.from <= r.to
<1>1. a \in Slot /\ b \in Slot
  BY InstantType
<1>2. a \in Int /\ b \in Int
  BY <1>1, HorizonIs DEF Slot
<1> QED BY <1>1, <1>2 DEF WalletRange

LEMMA WalletRowsType ==
  ASSUME Typed, NEW mine, NEW r, r.from \in Slot, r.to \in Slot
  PROVE  /\ Priced(WalletRows(mine, r))
         /\ \A t \in WalletRows(mine, r) : t.at \in r.from .. r.to
<1>1. Priced(txs) /\ \A t \in txs : t.at \in Instants
  BY DEF Typed, Priced, TransactionRows
<1>2. WalletRows(mine, r) \subseteq txs
  BY DEF WalletRows, Within
<1>3. \A t \in WalletRows(mine, r) : r.from <= t.at /\ t.at <= r.to
  BY DEF WalletRows, Within
<1>4. r.from \in Int /\ r.to \in Int /\ Instants \subseteq Int
  <2>1. \A t \in Slot : t \in Int
    BY HorizonIs DEF Slot
  <2> QED BY <2>1, InstantType
<1>5. Priced(WalletRows(mine, r))
  BY <1>1, <1>2, CostIs
<1>6. ASSUME NEW t \in WalletRows(mine, r) PROVE t.at \in r.from .. r.to
  <2>1. t.at \in Int /\ r.from <= t.at /\ t.at <= r.to
    BY <1>1, <1>2, <1>3, <1>4
  <2> QED BY <1>4, <2>1
<1> QED BY <1>5, <1>6

\* One range, and one side of the wallet.
LEMMA WalletCovers ==
  ASSUME Typed, NEW mine, NEW r, r.from \in Slot, r.to \in Slot, r.from <= r.to
  PROVE  LET series == ToReceiveSeries(mine, r)
         IN /\ Sum(TransactionsSeries(mine, r)) = Cardinality(WalletRows(mine, r))
            /\ Sum(series) >= ToReceive(mine, r)
            /\ Percentage(series) >= -10000
<1> DEFINE b == Buckets(r.from, r.to)
           S == WalletRows(mine, r)
           h == TransactionsSeries(mine, r)
           one == [t \in S |-> 1]
           d == [k \in DOMAIN b |-> Receivable(mine, InBucket(S, b[k]))]
           series == ToReceiveSeries(mine, r)
           f == Flow(mine, S)
<1>1. IsFiniteSet(S) /\ Priced(S) /\ \A t \in S : t.at \in r.from .. r.to
  BY WalletRowsType DEF Priced
<1>2. \A k \in DOMAIN b : InBucket(S, b[k]) \subseteq S
  BY DEF InBucket
<1>3. /\ DOMAIN h = DOMAIN b /\ \A k \in DOMAIN b : h[k] = Cardinality(InBucket(S, b[k]))
      /\ DOMAIN d = DOMAIN b /\ \A k \in DOMAIN b : d[k] = Receivable(mine, InBucket(S, b[k]))
      /\ DOMAIN series = DOMAIN b /\ \A k \in DOMAIN b : series[k] = AtLeastZero(d[k])
      /\ \A t \in S : one[t] = 1
  BY DEF TransactionsSeries, ToReceiveSeries
<1>4. series = [k \in DOMAIN b |-> series[k]]
  BY DEF ToReceiveSeries
<1>5. PICK n : Cuts(b, n, r.from, r.to)
  BY BucketsCut DEF Slot
<1>6. n \in Nat \ {0} /\ DOMAIN b = 1 .. n
  BY <1>5 DEF Cuts
<1>7. ToReceive(mine, r) = AtLeastZero(Receivable(mine, S))
  BY DEF ToReceive
<1> HIDE DEF S, h, one, d, series, f, b
<1>8. Sum(h) = Cardinality(S)
  <2>1. \A k \in DOMAIN h : h[k] = SumOver(one, InBucket(S, b[k]))
    <3> SUFFICES ASSUME NEW k \in DOMAIN h PROVE h[k] = SumOver(one, InBucket(S, b[k]))
      OBVIOUS
    <3>1. PICK part : part = InBucket(S, b[k])
      OBVIOUS
    <3>2. part \subseteq S /\ IsFiniteSet(part) /\ h[k] = Cardinality(part)
      BY <1>1, <1>2, <1>3, <3>1, FS_Subset
    <3>3. \A t \in part : one[t] = 1
      BY <1>3, <3>2
    <3>4. SumOver(one, part) = Cardinality(part) * 1
      BY <3>2, <3>3, SumOfConstant
    <3>5. Cardinality(part) \in Nat
      BY <3>2, FS_CardinalityType
    <3> QED BY <3>1, <3>2, <3>4, <3>5
  <2>2. Ints(one, S)
    BY <1>3 DEF Ints
  <2>3. DOMAIN h = DOMAIN Buckets(r.from, r.to)
    BY <1>3 DEF b
  <2>4. Sum(h) = SumOver(one, S)
    BY <1>1, <2>1, <2>2, <2>3, BucketsAddUp DEF b, Slot
  <2>5. SumOver(one, S) = Cardinality(S) * 1
    BY <1>1, <1>3, SumOfConstant
  <2>6. Cardinality(S) \in Nat
    BY <1>1, FS_CardinalityType
  <2> QED BY <2>4, <2>5, <2>6
<1>9. Ints(f, S) /\ Receivable(mine, S) = SumOver(f, S)
  BY <1>1, ReceivableIs DEF f
<1>10. \A k \in DOMAIN d : d[k] = SumOver(f, InBucket(S, b[k]))
  <2> SUFFICES ASSUME NEW k \in DOMAIN d PROVE d[k] = SumOver(f, InBucket(S, b[k]))
    OBVIOUS
  <2>1. InBucket(S, b[k]) \subseteq S /\ d[k] = Receivable(mine, InBucket(S, b[k]))
    BY <1>2, <1>3
  <2> QED BY <1>1, <2>1, ReceivableIs DEF f
<1>11. Sum(d) = SumOver(f, S)
  <2>1. DOMAIN d = DOMAIN Buckets(r.from, r.to)
    BY <1>3 DEF b
  <2> QED BY <1>1, <1>9, <1>10, <2>1, BucketsAddUp DEF b, Slot
<1>12. \A k \in DOMAIN b : d[k] \in Int /\ series[k] \in Nat /\ d[k] <= series[k]
  <2> SUFFICES ASSUME NEW k \in DOMAIN b
               PROVE  d[k] \in Int /\ series[k] \in Nat /\ d[k] <= series[k]
    OBVIOUS
  <2>1. InBucket(S, b[k]) \subseteq S
    BY <1>2
  <2>2. IsFiniteSet(InBucket(S, b[k])) /\ Ints(f, InBucket(S, b[k]))
    BY <1>1, <1>9, <2>1, FS_Subset DEF Ints
  <2>3. d[k] \in Int
    BY <1>3, <1>10, <2>2, SumIsInt
  <2> QED BY <1>3, <2>3, CutAtZero
<1>13. Sum(series) >= ToReceive(mine, r)
  <2>1. PICK K : K = DOMAIN b
    OBVIOUS
  <2>2. IsFiniteSet(K)
    BY <1>6, <2>1, FS_Interval
  <2>3. Ints(d, K) /\ Ints(series, K) /\ Nats(series, K) /\ \A k \in K : d[k] <= series[k]
    BY <1>12, <2>1 DEF Ints, Nats
  <2>4. SumOver(d, K) <= SumOver(series, K)
    BY <2>2, <2>3, SumIsLess
  <2>5. SumOver(series, K) \in Nat /\ SumOver(d, K) \in Int
    BY <2>2, <2>3, SumIsNat, SumIsInt
  <2>6. Sum(d) = SumOver(d, K) /\ Sum(series) = SumOver(series, K)
    BY <1>3, <2>1, SumIsSumOver
  <2>7. ToReceive(mine, r) \in {Sum(d), 0}
    <3>1. Receivable(mine, S) = Sum(d) /\ Sum(d) \in Int
      BY <1>9, <1>11, <2>5, <2>6
    <3> QED BY <1>7, <3>1, CutAtZero
  <2> QED BY <2>4, <2>5, <2>6, <2>7
<1>14. Percentage(series) >= -10000
  <2>1. series \in [1 .. n -> Nat]
    BY <1>4, <1>6, <1>12
  <2>2. series \in Seq(Nat)
    BY <1>6, <2>1, SeqDef
  <2> QED BY <2>2, PercentageIsBounded
<1> QED BY <1>8, <1>13, <1>14 DEF h, S, series

\* Whatever the transactions and the range, the buckets of the wallet hold
\* every row once and show no less than its total, and no trend is below -100%.
THEOREM WalletSeriesCoverHolds == Spec => []WalletSeriesCover
<1>1. Typed => WalletSeriesCover
  <2> SUFFICES ASSUME Typed,
                      NEW r \in {WalletRange(a, b) : a, b \in Instants},
                      NEW mine \in {Lender, BorrowerUser}
      PROVE  LET series == ToReceiveSeries(mine, r)
             IN /\ Sum(TransactionsSeries(mine, r)) = Cardinality(WalletRows(mine, r))
                /\ Sum(series) >= ToReceive(mine, r)
                /\ Percentage(series) >= -10000
    BY DEF WalletSeriesCover
  <2>1. PICK a \in Instants, b \in Instants : r = WalletRange(a, b)
    OBVIOUS
  <2>2. r.from \in Slot /\ r.to \in Slot /\ r.from <= r.to
    BY <2>1, WalletRangeType
  <2> QED BY <2>2, WalletCovers
<1> QED BY <1>1, AlwaysTyped, PTL
===============================================================================
