------------------------------ MODULE Agreement ------------------------------
(***************************************************************************)
(* What a loan contract promises, as ContractsService means it when one    *)
(* request runs at a time: a contract is drafted, generated, signed by the *)
(* borrower and then by the lender, and paid out; it can be withdrawn only *)
(* as a draft, reported or cancelled at any time, and it goes away with    *)
(* its loan.                                                               *)
(***************************************************************************)

VARIABLES
  stage,    \* "NONE" when there is no contract
  parties,  \* who has signed
  loan      \* status of the loan

avars == <<stage, parties, loan>>

AInit == stage = "NONE" /\ parties = {} /\ loan = "NONE"

\* The lender's side of the loan: application, review, removal.
Apply   == loan = "NONE" /\ loan' = "DRAFT" /\ UNCHANGED <<stage, parties>>
Review  == /\ loan # "NONE"
           /\ loan' \in {"UNDER_REVIEW", "APPROVED", "REJECTED"}
           /\ UNCHANGED <<stage, parties>>
Discard == loan # "NONE" /\ loan' = "NONE" /\ stage' = "NONE" /\ parties' = {}

Draft == /\ stage = "NONE" /\ loan # "NONE"
         /\ stage' = "DRAFT"
         /\ UNCHANGED <<parties, loan>>

\* The loan follows the contract in a second write.
Generate == /\ stage \in {"DRAFT", "GENERATED"}
            /\ stage' = "GENERATED"
            /\ UNCHANGED <<parties, loan>>
Follow   == /\ stage = "GENERATED"
            /\ loan' = "CONTRACT_GENERATED"
            /\ UNCHANGED <<stage, parties>>

BorrowerSigns == /\ stage # "NONE" /\ parties = {}
                 /\ parties' = {"BORROWER"}
                 /\ UNCHANGED <<stage, loan>>

LenderSigns == /\ stage # "NONE" /\ parties = {"BORROWER"}
               /\ parties' = {"BORROWER", "TENANT"}
               /\ stage' = "SIGNED"
               /\ loan' = "CONTRACT_SIGNED"

\* Money moves only on a contract that carries both signatures afterwards.
PayOut == /\ stage \in {"GENERATED", "SIGNED", "ACTIVE"}
          /\ "BORROWER" \in parties
          /\ parties' = {"BORROWER", "TENANT"}
          /\ stage' = "ACTIVE"
          /\ loan' = "LOAN_PROVIDED"

Report == stage # "NONE" /\ stage' = "REPORTED" /\ UNCHANGED <<parties, loan>>

\* An administrative change of status, whatever was agreed.
Cancel == stage # "NONE" /\ stage' = "CANCELLED" /\ UNCHANGED <<parties, loan>>

Withdraw == /\ stage = "DRAFT"
            /\ stage' = "NONE" /\ parties' = {}
            /\ UNCHANGED loan

ANext == \/ Apply \/ Review \/ Discard \/ Draft \/ Generate \/ Follow
         \/ BorrowerSigns \/ LenderSigns \/ PayOut \/ Report \/ Cancel
         \/ Withdraw

ASpec == AInit /\ [][ANext]_avars
=============================================================================
