------------------------------- MODULE Launch -------------------------------
(* The desktop launcher: what `python desktop_app.py` does to the user's     *)
(* data directory (the secret key file and the Plan table of the database)   *)
(* and to the local ports, from the click to the window and back.            *)
(*                                                                           *)
(* Every copy of the application is a process of its own; all of them share  *)
(* the data directory, and nothing keeps two from starting at once or from   *)
(* being killed between two writes: the history variables tell which launch  *)
(* that happened to, and what the properties promise is for the others.      *)
(* A copy runs main() on one thread and its web server  *)
(* on another, and it ends when its window is closed or the process is       *)
(* killed, taking the server thread with it.                                 *)
EXTENDS Naturals, Sequences

CONSTANTS
  Copies,      \* processes of the application
  Secrets,     \* what secrets.token_urlsafe may return
  Ports,       \* local ports
  Preferred,   \* the port tried first
  KillPoints,  \* where a process may be killed
  None         \* no file, no key, no port, no row

ASSUME LaunchAssumption == /\ None \notin Secrets \cup {""}
                           /\ "" \notin Secrets
                           /\ Preferred \in Ports

VARIABLES
  keyFile,  \* content of secret_key.txt; "" when it was created and not yet written
  plans,    \* keys of the rows of the Plan table
  app,      \* [copy -> where main() is, its key, its port, its server thread]
  met,      \* history: [copy -> where it met the unfinished business of another]
  rival,    \* history: whether a key was drawn while another copy had yet to write its own
  broken    \* history: the first writes in the middle of which a copy was killed

launchHistory == <<met, rival, broken>>
launchVars    == <<keyFile, plans, app, launchHistory>>

-----------------------------------------------------------------------------
(* State *)

\* The rows of seed_plans, in the order it writes them.
PlanDefs == <<"free", "pro", "enterprise">>
PlanKeys == {PlanDefs[i] : i \in DOMAIN PlanDefs}

Off == [at |-> "off", key |-> None, port |-> None, server |-> "none", next |-> 0]

\* main() before the server thread is started, and all the places it may be at.
\* "window" is main() from there on: it waits until something answers on the
\* port or gives up, and goes on either way to the window or, without a native
\* engine, to wait for the server thread; it writes nothing any more.
Booting == {"draw", "write", "boot", "seed", "ready"}
Points  == {"off", "admin", "window"} \cup Booting

AppRow == [at : Points, key : Secrets \cup {"", None}, port : Ports \cup {None},
           server : {"none", "starting", "up", "failed"}, next : 0 .. Len(PlanDefs)]

LaunchTypeOK == /\ keyFile \in Secrets \cup {"", None}
                /\ plans \subseteq PlanKeys
                /\ app \in [Copies -> AppRow]
                /\ met \in [Copies -> SUBSET {"key", "plans", "port"}]
                /\ rival \in BOOLEAN
                /\ broken \subseteq {"write", "seed"}

\* A machine the application was installed on and never started.
LaunchInit == /\ keyFile = None
              /\ plans = {}
              /\ app = [c \in Copies |-> Off]
              /\ met = [c \in Copies |-> {}]
              /\ rival = FALSE
              /\ broken = {}

Listening(p) == \E c \in Copies : app[c].server = "up" /\ app[c].port = p

\* main() of c goes on at `at`.
Go(c, at) == app' = [app EXCEPT ![c].at = at]

\* Those who have a key and have not written it.
Drawn == {c \in Copies : app[c].at \in {"draw", "write"}}

\* c comes upon what is written at `at`, by a copy still at it or killed there.
Meets(c, at, what) ==
  met' = IF at \in broken \/ \E d \in Copies : app[d].at = at
           THEN [met EXCEPT ![c] = @ \cup {what}] ELSE met

-----------------------------------------------------------------------------
(* bootstrap_django *)

\* get_or_create_secret_key finds the file and takes what is in it.
FindKey(c) == /\ app[c].at = "off" /\ keyFile # None
              /\ app' = [app EXCEPT ![c].at = "boot", ![c].key = keyFile]
              /\ Meets(c, "write", "key")
              /\ UNCHANGED <<keyFile, plans, rival, broken>>

Draws(c, k) == /\ \A d \in Copies : app[d].key # k
               /\ app' = [app EXCEPT ![c].at = "draw", ![c].key = k]
               /\ rival' = (Drawn # {})

\* (mutant) A key is drawn at every launch.
DrawKeyAlways(c) == /\ app[c].at = "off"
                    /\ \E k \in Secrets : Draws(c, k)
                    /\ UNCHANGED <<keyFile, plans, met, broken>>

\* It finds none and draws a key nobody else has drawn.
DrawKey(c) == /\ app[c].at = "off" /\ keyFile = None
              /\ \E k \in Secrets : Draws(c, k)
              /\ UNCHANGED <<keyFile, plans, met, broken>>

\* write_text opens the file, which empties it, and then writes.
OpenKeyFile(c) == /\ app[c].at = "draw"
                  /\ keyFile' = ""
                  /\ Go(c, "write") /\ UNCHANGED <<plans, launchHistory>>
WriteKeyFile(c) == /\ app[c].at = "write"
                   /\ keyFile' = app[c].key
                   /\ broken' = broken \ {"write"}
                   /\ Go(c, "boot") /\ UNCHANGED <<plans, met, rival>>

\* After migrate: the plans are seeded into an empty table only.
SeedCheck(c) == /\ app[c].at = "boot"
                /\ \/ /\ plans = {}
                      /\ app' = [app EXCEPT ![c].at = "seed", ![c].next = 1]
                      /\ UNCHANGED met
                   \/ /\ plans # {}
                      /\ Go(c, "ready")
                      /\ Meets(c, "seed", "plans")
                /\ UNCHANGED <<keyFile, plans, rival, broken>>

\* (mutant) The loop stops one row early.
SeedAllButLast(c) == /\ app[c].at = "seed"
                     /\ plans' = plans \cup {PlanDefs[app[c].next]}
                     /\ IF app[c].next + 1 < Len(PlanDefs)
                          THEN app' = [app EXCEPT ![c].next = @ + 1]
                          ELSE Go(c, "ready")
                     /\ UNCHANGED <<keyFile, launchHistory>>

\* update_or_create of one plan, a transaction of its own.
SeedPlan(c) == /\ app[c].at = "seed"
               /\ plans' = plans \cup {PlanDefs[app[c].next]}
               /\ \/ /\ app[c].next < Len(PlanDefs)
                     /\ app' = [app EXCEPT ![c].next = @ + 1]
                     /\ UNCHANGED broken
                  \/ /\ app[c].next = Len(PlanDefs)
                     /\ Go(c, "ready")
                     /\ broken' = broken \ {"seed"}
               /\ UNCHANGED <<keyFile, met, rival>>

-----------------------------------------------------------------------------
(* main *)

\* desktop_app.py --createsuperuser goes from the bootstrap to the prompt.
Prompt(c) == app[c].at = "ready" /\ Go(c, "admin") /\ UNCHANGED <<keyFile, plans, launchHistory>>

\* (mutant) The preferred port is not tried.
ProbedUnasked(p) == p = Preferred

\* free_port: the preferred port, if it can be bound at this moment, or one of
\* the operating system's choice; the probe lets go of it.
Probed(p) == IF Listening(Preferred) THEN p # Preferred /\ ~Listening(p) ELSE p = Preferred

\* The copies that have probed a port and not bound it.
Probing(p) == {c \in Copies : app[c].server = "starting" /\ app[c].port = p}

\* (mutant) The port that was asked for is returned, not the one that was bound.
ProbeReturnsZero(c) == /\ app[c].at = "ready"
                       /\ app' = [app EXCEPT ![c].at = "window", ![c].server = "starting",
                                  ![c].port = IF Listening(Preferred) THEN 0 ELSE Preferred]
                       /\ UNCHANGED <<keyFile, plans, launchHistory>>

\* free_port, then the server thread is started.
ProbePort(c) == /\ app[c].at = "ready"
                /\ \E p \in Ports :
                     /\ Probed(p)
                     /\ app' = [app EXCEPT ![c].at = "window", ![c].port = p, ![c].server = "starting"]
                     /\ met' = [d \in Copies |-> IF Probing(p) # {} /\ d \in Probing(p) \cup {c}
                                                 THEN met[d] \cup {"port"} ELSE met[d]]
                /\ UNCHANGED <<keyFile, plans, rival, broken>>

\* run_server: the thread binds the port now, and ends if it cannot.
Serve(c) == /\ app[c].server = "starting"
            /\ app' = [app EXCEPT ![c].server = IF Listening(app[c].port) THEN "failed" ELSE "up"]
            /\ UNCHANGED <<keyFile, plans, launchHistory>>

\* The process is gone.
End(c) == /\ app' = [app EXCEPT ![c] = Off]
          /\ met' = [met EXCEPT ![c] = {}]

\* The window is closed or the server thread that main waits for has ended; or
\* the process is killed (which also stands for leaving the superuser prompt).
MayEnd(c) == app[c].at \in {"window"} \cup KillPoints

LaunchStep(c) == \/ FindKey(c) \/ DrawKey(c) \/ OpenKeyFile(c) \/ WriteKeyFile(c)
                 \/ SeedCheck(c) \/ SeedPlan(c)
                 \/ Prompt(c) \/ ProbePort(c) \/ Serve(c)

-----------------------------------------------------------------------------
(* Properties *)

\* Once main() is past the bootstrap, the copy has all plans and a key to sign
\* with, "a fresh install 'just works'" (desktop_app.py:86-88): however often it
\* was started and killed before, unless it came upon the key file or the plans
\* while another copy was writing them, or after one was killed at that.
FreshInstallWorks ==
  \A c \in Copies : app[c].at \in {"admin", "window"} =>
    /\ "plans" \in met[c] \/ plans = PlanKeys
    /\ "key" \in met[c] \/ app[c].key \in Secrets

\* A copy past its bootstrap has a server of its own, up or on its way, and
\* does not depend on another copy that happens to answer on the same port,
\* unless both had probed the port before either bound it (free_port).
WindowIsServed ==
  \A c \in Copies : app[c].at = "window" /\ "port" \notin met[c] =>
    app[c].server \in {"starting", "up"}

=============================================================================
