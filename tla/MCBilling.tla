------------------------------ MODULE MCBilling ------------------------------
(* Billing on small sets: the symmetric ones are model values.               *)
EXTENDS Billing, TLC

\* The administrator may set a plan to anything.
AnyOffer == PlanRow

\* Its price goes up and down.
PriceOffer == [free : BOOLEAN, public : {TRUE}]

\* Every statement before which a request can die.
AllPoints == {"insert", "hookPay", "hookSub", "hookOrg", "cancelSub", "cancelOrg",
              "modifyReadSub", "modifyReadPlan", "modifySub", "modifyOrg"}

\* Threads and payments are interchangeable in safety runs.
Interchangeable == Permutations(Handlers) \cup Permutations(Payments)

=============================================================================
