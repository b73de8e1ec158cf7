----------------------------- MODULE MCPaymentFlow -----------------------------
(***************************************************************************)
(* One page and two handlers: an answer that is lost leaves one running    *)
(* while the page goes on to the next.  With two pages and two handlers, a *)
(* page could keep the other from ever finding a free slot, which no       *)
(* server does.                                                            *)
(***************************************************************************)
EXTENDS PaymentFlow, TLC

CONSTANTS r1, r2, full

OneRequest  == {r1}
TwoRequests == {r1, r2}

Installments == {1, 2}
DueOf == [s \in Installments |-> 2]

OnePayment == {full}
AmountOf    == [u \in OnePayment |-> 2]
SelectionOf == [u \in OnePayment |-> {1}]

Cancelling == {"CANCELLED"}
=============================================================================
