---------------------------- MODULE Entitlement ----------------------------
(* What billing promises, with the rows, the gateway and the handlers left   *)
(* out: an organization holds grants (plans it has settled a payment for, or *)
(* was offered at price zero), a grant is never taken back, and the plan of  *)
(* an organization is Free or one it holds a grant for.  Billing implements  *)
(* this module under the mapping given at the end of Billing.                *)
CONSTANTS Orgs,   \* the tenants
          Plans,  \* the keys of the Plan table
          Free    \* the key of the read-only tier

VARIABLES plan,   \* the plan each organization is on
          grants  \* the <<organization, plan>> pairs that were earned

vars == <<plan, grants>>

\* An organization is created on the Free plan and has earned nothing.
Init == /\ plan = [o \in Orgs |-> Free]
        /\ grants = {}

\* A payment settles, or a plan is offered at no price.
Earn(o, p) == /\ grants' = grants \cup {<<o, p>>}
              /\ UNCHANGED plan

\* The organization moves to a plan it holds a grant for.
Raise(o, p) == /\ <<o, p>> \in grants
               /\ plan' = [plan EXCEPT ![o] = p]
               /\ UNCHANGED grants

\* The organization falls back to the Free plan.
Drop(o) == /\ plan' = [plan EXCEPT ![o] = Free]
           /\ UNCHANGED grants

Next == \/ \E o \in Orgs, p \in Plans : Earn(o, p) \/ Raise(o, p)
        \/ \E o \in Orgs : Drop(o)

Spec == Init /\ [][Next]_vars

=============================================================================
