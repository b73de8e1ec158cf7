------------------------------ MODULE MCAccounts ------------------------------
(***************************************************************************)
(* Terms for TLC: amounts of a few cents, where rounding bites, and of     *)
(* thousands; starts on the last days of January; and one contract whose   *)
(* repayment is followed, on instants two hours, a day, eleven days and    *)
(* five weeks apart.                                                       *)
(***************************************************************************)
EXTENDS Accounts

TermsOf(amounts, rates, months, starts) ==
  [amount: amounts, rate: rates, term: months, frequency: Frequencies, start: starts]

Starts == {[month |-> 0, day |-> 30], [month |-> 0, day |-> 31], [month |-> 1, day |-> 1]}

Paid == [amount |-> 100, rate |-> 12, term |-> 2, frequency |-> "MONTHLY",
         start |-> [month |-> 0, day |-> 31]]

AllTerms == TermsOf(0 .. 12 \union {99, 100, 1001, 4999}, {0, 5, 12, 36},
                    {1, 2, 4, 5, 12}, Starts) \union {Paid}
PaidTerms == {Paid}

Slots == {360, 364, 506, 926}
=============================================================================
