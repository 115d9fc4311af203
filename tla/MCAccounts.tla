----------------------------- MODULE MCAccounts -----------------------------
(* Accounts and Launch on small sets.                                        *)
EXTENDS Accounts, TLC

\* Where the death of a launch leaves something half-written (and the superuser
\* prompt, which may be left); elsewhere it leaves what closing the window leaves.
FirstKills == {"write", "seed", "admin"}

\* The same of a request: between these an account is half-made.
MakeCuts == {"profile", "plan", "org", "link"}

Interchangeable == Permutations(Names) \cup Permutations(OrgIds) \cup Permutations(Threads)
                     \cup Permutations(Copies) \cup Permutations(Secrets)

=============================================================================
