----------------------------- MODULE Installments -----------------------------
(***************************************************************************)
(* What ContractsService computes from the terms of a contract: the total  *)
(* amount due, the number of installments, and the payment schedule with   *)
(* its rounded amounts and due dates.                                      *)
(*                                                                         *)
(* Terms are [amount, rate, term, frequency, start]: cents, percent a      *)
(* year, months, and a [month, day].  Amounts are exact numbers of cents   *)
(* where the code has floating point, rounded where it calls Math.round.   *)
(* A date is a number of days; a month counts from the January of a year   *)
(* that is not a leap year, and the year after it is one.                  *)
(***************************************************************************)
EXTENDS Integers, Sequences, FiniteSetsExt

Frequencies == {"WEEKLY", "MONTHLY", "QUARTERLY"}

LastMonth == 23   \* bound: the calendar has two years

\* What the values of a function, or of a sequence, add up to.
Sum(f) == MapThenSumSet(LAMBDA x : f[x], DOMAIN f)

-----------------------------------------------------------------------------
(* The calendar                                                            *)

MonthLength(m) ==
  CASE m % 12 = 1             -> IF m = 13 THEN 29 ELSE 28
    [] m % 12 \in {3, 5, 8, 10} -> 30
    [] OTHER                  -> 31

DaysBefore ==
  [m \in 0 .. LastMonth + 1 |-> Sum([k \in 0 .. m - 1 |-> MonthLength(k)])]

\* new Date(year, month, day): a day past the end of the month rolls over
\* into the next one, which is also what setMonth does.
DateOf(month, day) == DaysBefore[month] + day - 1

\* calculateEndDate
EndDate(c) == DateOf(c.start.month + c.term, c.start.day)

-----------------------------------------------------------------------------
(* Rounding                                                                *)

\* Math.round(num / den), halves upwards.
Round(num, den) == (2 * num + den) \div (2 * den)
Ceil(num, den) == (num + den - 1) \div den
AtLeastZero(x) == IF x < 0 THEN 0 ELSE x

-----------------------------------------------------------------------------
(* calculateInstallments                                                   *)

\* totalInterest is this many 1200ths of a cent.
Interest(c) == c.amount * c.rate * c.term

TotalAmountDue(c) == Round(c.amount * 1200 + Interest(c), 1200)

QuartersAsMonths(c) ==
  IF c.frequency = "WEEKLY" THEN Ceil(c.term * 30, 7) ELSE c.term
TotalInstallments(c) ==
  CASE c.frequency = "WEEKLY"    -> Ceil(c.term * 30, 7)
    [] c.frequency = "QUARTERLY" -> Ceil(c.term, 3)
    [] OTHER                     -> c.term

InstallmentAmount(c) ==
  Round(c.amount * 1200 + Interest(c), 1200 * TotalInstallments(c))

-----------------------------------------------------------------------------
(* createPaymentSchedules                                                  *)

Principal(c) == Round(c.amount, TotalInstallments(c))
InterestPart(c) == Round(Interest(c), 1200 * TotalInstallments(c))

DueDate(c, i) ==
  CASE c.frequency = "WEEKLY"    -> DateOf(c.start.month, c.start.day) + 7 * i
    [] c.frequency = "QUARTERLY" -> DateOf(c.start.month + 3 * i, c.start.day)
    [] OTHER                     -> DateOf(c.start.month + i, c.start.day)

Parts(c, i, principal, interest, total) ==
  [due |-> DueDate(c, i), principal |-> principal, interest |-> interest,
   total |-> total, paid |-> 0, status |-> "PENDING"]

Regular(c, i) == Parts(c, i, Principal(c), InterestPart(c), InstallmentAmount(c))

\* The last installment takes what the others leave, if they leave anything.
LastRowAsRegular(c) == Regular(c, TotalInstallments(c))
LastRowUncut(c) ==
  LET n == TotalInstallments(c)
  IN Parts(c, n, c.amount - (n - 1) * Principal(c),
           Round(Interest(c) - 1200 * (n - 1) * InterestPart(c), 1200),
           TotalAmountDue(c) - (n - 1) * InstallmentAmount(c))
LastRow(c) ==
  LET n == TotalInstallments(c)
  IN Parts(c, n,
           AtLeastZero(c.amount - (n - 1) * Principal(c)),
           Round(AtLeastZero(Interest(c) - 1200 * (n - 1) * InterestPart(c)), 1200),
           AtLeastZero(TotalAmountDue(c) - (n - 1) * InstallmentAmount(c)))

Schedules(c) ==
  [i \in 1 .. TotalInstallments(c) |->
     IF i < TotalInstallments(c) THEN Regular(c, i) ELSE LastRow(c)]

-----------------------------------------------------------------------------
(* What a schedule promises                                                *)

\* The totals of the rows make up the amount due, exactly unless rounding up
\* has left nothing for the last row, and then with less than half a cent a
\* row too much.
CoversDue(c, rows) ==
  LET n      == Len(rows)
      excess == Sum([i \in 1 .. n |-> rows[i].total]) - TotalAmountDue(c)
  IN /\ 0 <= excess /\ 2 * excess <= n - 1
     /\ excess > 0 => rows[n].total = 0

\* Principal and interest make up the total: to a cent in every row but the
\* last, and together to the cent unless a last part was cut at zero.
PartsAddUp(c, rows) ==
  LET n      == Len(rows)
      gap(i) == rows[i].principal + rows[i].interest - rows[i].total
  IN /\ \A i \in 1 .. n - 1 : gap(i) \in -1 .. 1
     /\ rows[n].principal > 0 /\ rows[n].interest > 0 /\ rows[n].total > 0
          => Sum([i \in 1 .. n |-> gap(i)]) = 0
=============================================================================
