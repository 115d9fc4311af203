------------------------------ MODULE MCTrail ------------------------------
(* An organization with an administrator, an examiner and a reviewer, another *)
(* with its owner, and a user whose organization is not set.                  *)
EXTENDS Trail, TLC

CONSTANTS o1, o2, h1, h2

Member(org, role, owner) == [org |-> org, role |-> role, owner |-> owner, super |-> FALSE]

MCMembers == [admin |-> Member(o1, "admin", FALSE), examiner |-> Member(o1, "examiner", FALSE),
              viewer |-> Member(o1, "viewer", FALSE), owner |-> Member(o2, "viewer", TRUE),
              stray |-> Member(None, "admin", FALSE)]

MCPlans == {[readOnly |-> FALSE, features |-> {"audit", "export", "report"}],
            [readOnly |-> TRUE, features |-> {}]}

MCSymmetry == Permutations({h1, h2})

=============================================================================
