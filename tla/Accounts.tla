------------------------------ MODULE Accounts ------------------------------
(* Accounts on top of the launcher: signup, login, the profile form, the     *)
(* change of a password and `createsuperuser`, over the User, Profile and    *)
(* Organization tables and the sessions, statement by statement.             *)
(*                                                                           *)
(* A request runs on a thread of a copy of the application whose server is   *)
(* up and ends with that copy; the superuser is made by the main thread of a *)
(* copy started for it.  Of a Profile only the organization is kept: roles,  *)
(* labels and the ownership flag are written together with it; of a User the *)
(* standing and the password, which is counted: 0 is the one of the signup.  *)
EXTENDS Launch, FiniteSets

CONSTANTS
  Names,       \* user names
  OrgIds,      \* Organization primary keys
  Threads,     \* threads that serve requests
  Changes,     \* (bounds the passwords of a user)
  CutPoints    \* where a request may be cut off because its process ends

ASSUME AccountsAssumption == /\ None \notin Names \cup OrgIds
                             /\ Changes \in Nat

VARIABLES
  user,     \* [name -> User row with its Profile, or None]
  org,      \* [id -> Organization row, or None]
  session,  \* [name -> its session, or None]
  req,      \* [thread -> the request it is serving]
  chosen,   \* history: [name -> the password it was last changed to]
  raced,    \* history: the names whose password was changed during an edit
  spoilt,   \* history: the names whose account was cut off or edited half-made
  skimped   \* history: organizations made by a copy that had met another's seeding

tables  == <<user, org, session>>
history == <<chosen, raced, spoilt, skimped>>
accVars == <<tables, req, history>>
vars    == <<launchVars, accVars>>

-----------------------------------------------------------------------------
(* State *)

\* "none": there is no Profile row; None: a Profile without organization.
UserRow == [super : BOOLEAN, profile : OrgIds \cup {None, "none"}, password : 0..Changes]
OrgRow  == [owner : Names, plan : PlanKeys]

\* The key a session is signed with, and the password it was made under, whose
\* hash it holds.
Session == [key : Secrets, password : 0..Changes]

ASSUME NoneIsNoRow == None \notin UserRow \cup OrgRow \cup Session

Idle     == [at |-> "idle"]
MakeJob  == [at : {"user", "profile", "plan", "org", "link", "login"}, copy : Copies,
             name : Names, super : BOOLEAN, plan : PlanKeys \cup {None}, org : OrgIds \cup {None}]
PatchJob == [at : {"patch", "label"}, copy : Copies, name : Names, row : OrgIds \cup {None},
             password : 0..Changes]
PassJob  == [at : {"pass", "hash"}, copy : Copies, name : Names, password : 0..Changes]

TypeOK == /\ LaunchTypeOK
          /\ user \in [Names -> UserRow \cup {None}]
          /\ org \in [OrgIds -> OrgRow \cup {None}]
          /\ session \in [Names -> Session \cup {None}]
          /\ req \in [Threads -> {Idle} \cup MakeJob \cup PatchJob \cup PassJob]
          /\ chosen \in [Names -> 0..Changes]
          /\ raced \subseteq Names
          /\ spoilt \subseteq Names
          /\ skimped \subseteq OrgIds

Init == /\ LaunchInit
        /\ user = [n \in Names |-> None]
        /\ org = [i \in OrgIds |-> None]
        /\ session = [n \in Names |-> None]
        /\ req = [t \in Threads |-> Idle]
        /\ chosen = [n \in Names |-> 0]
        /\ raced = {}
        /\ spoilt = {}
        /\ skimped = {}

Take(t, r)  == req' = [req EXCEPT ![t] = r]
Proceed(t, a) == req' = [req EXCEPT ![t].at = a]
Done(t)     == req' = [req EXCEPT ![t] = Idle]

\* Request t has made n's User row and has not linked an organization to it.
Makes(t, n) == req[t].at \in {"profile", "plan", "org", "link"} /\ req[t].name = n

InTheMaking(n) == \E t \in Threads : Makes(t, n)

\* django.contrib.auth.login: the session is signed, which an empty key refuses.
Login(c, n) ==
  session' = [session EXCEPT ![n] = IF app[c].key = "" THEN @
                                    ELSE [key |-> app[c].key, password |-> user[n].password]]

\* request.user is authenticated: the session is signed with the copy's key, and
\* holds the hash of the password in the user's row.
LoggedIn(c, n) == /\ app[c].server = "up" /\ session[n] # None
                  /\ session[n] = [key |-> app[c].key, password |-> user[n].password]

-----------------------------------------------------------------------------
(* SignupAPI.post and createsuperuser *)

MakeBegin(t, c, n, super) ==
  /\ req[t] = Idle
  /\ IF super THEN app[c].at = "admin" /\ \A s \in Threads : req[s] # Idle => req[s].copy # c
              ELSE app[c].server = "up"
  /\ user[n] = None                 \* validate_username; the prompt asks the same
  /\ Take(t, [at |-> "user", copy |-> c, name |-> n, super |-> super, plan |-> None, org |-> None])
  /\ UNCHANGED <<launchVars, tables, history>>

\* The end of createsuperuser is the end of its process.
MakeEnd(t) == /\ Done(t)
              /\ IF req[t].super THEN End(req[t].copy) ELSE UNCHANGED <<app, met>>

NewUser(t) == [super |-> req[t].super, profile |-> "none", password |-> 0]

\* (mutant) A row of that name is taken for the one just made.
InsertOrReuseUser(t) ==
  LET n == req[t].name IN
  /\ req[t].at = "user"
  /\ user' = IF user[n] # None THEN user
             ELSE [user EXCEPT ![n] = NewUser(t)]
  /\ Proceed(t, "profile")
  /\ UNCHANGED <<launchVars, org, session, history>>

\* create_user inserts the row and commits; a taken name is refused by the
\* unique index, whatever validate_username saw.
InsertUser(t) ==
  LET n == req[t].name IN
  /\ req[t].at = "user"
  /\ \/ /\ user[n] # None
        /\ MakeEnd(t) /\ UNCHANGED user
     \/ /\ user[n] = None
        /\ user' = [user EXCEPT ![n] = NewUser(t)]
        /\ Proceed(t, "profile") /\ UNCHANGED <<app, met>>
  /\ UNCHANGED <<keyFile, plans, rival, broken, org, session, history>>

\* ensure_profile, the post_save signal: get_or_create.
InsertProfile(t) ==
  LET n == req[t].name IN
  /\ req[t].at = "profile"
  /\ user' = [user EXCEPT ![n].profile = IF @ = "none" THEN None ELSE @]
  /\ Proceed(t, "plan")
  /\ UNCHANGED <<launchVars, org, session, history>>

\* (mutant) The superuser is treated like everybody.
PlanForAll(super) == "free"

\* The plan a new organization gets: Free, made if it is missing; for a
\* superuser Enterprise, if there is one.
PlanFor(super) == IF super /\ "enterprise" \in plans THEN "enterprise" ELSE "free"

ReadPlan(t) ==
  /\ req[t].at = "plan"
  /\ plans' = plans \cup {PlanFor(req[t].super)}
  /\ req' = [req EXCEPT ![t].at = "org", ![t].plan = PlanFor(req[t].super)]
  /\ UNCHANGED <<keyFile, app, launchHistory, tables, history>>

InsertOrg(t) ==
  /\ req[t].at = "org"
  /\ \E i \in OrgIds :
       /\ org[i] = None
       /\ org' = [org EXCEPT ![i] = [owner |-> req[t].name, plan |-> req[t].plan]]
       /\ req' = [req EXCEPT ![t].at = "link", ![t].org = i]
       /\ skimped' = IF "plans" \in met[req[t].copy] THEN skimped \cup {i} ELSE skimped
  /\ UNCHANGED <<launchVars, user, session, chosen, raced, spoilt>>

\* (mutant) profile.save(update_fields=...) leaves the organization out.
LinkForgetsOrg(t) ==
  /\ req[t].at = "link"
  /\ \/ req[t].super /\ MakeEnd(t)
     \/ ~req[t].super /\ Proceed(t, "login") /\ UNCHANGED <<app, met>>
  /\ UNCHANGED <<keyFile, plans, rival, broken, tables, history>>

\* profile.save() with the organization; createsuperuser is done with it.
LinkProfile(t) ==
  /\ req[t].at = "link"
  /\ user' = [user EXCEPT ![req[t].name].profile = req[t].org]
  /\ \/ req[t].super /\ MakeEnd(t)
     \/ ~req[t].super /\ Proceed(t, "login") /\ UNCHANGED <<app, met>>
  /\ UNCHANGED <<keyFile, plans, rival, broken, org, session, history>>

SignupLogin(t) ==
  /\ req[t].at = "login"
  /\ Login(req[t].copy, req[t].name)
  /\ Done(t)
  /\ UNCHANGED <<launchVars, user, org, history>>

-----------------------------------------------------------------------------
(* LoginAPI.post, LogoutAPI.post, ProfileAPI.patch, PasswordChangeAPI.post *)

LoginPost(c, n) ==
  /\ app[c].server = "up" /\ user[n] # None
  /\ Login(c, n)
  /\ UNCHANGED <<launchVars, user, org, req, history>>

LogoutPost(c, n) ==
  /\ LoggedIn(c, n)
  /\ session' = [session EXCEPT ![n] = None]
  /\ UNCHANGED <<launchVars, user, org, req, history>>

\* request.user and its profile: the rows are loaded whole; without a profile
\* the request fails.
PatchRead(t, c, n) ==
  /\ req[t] = Idle
  /\ LoggedIn(c, n) /\ user[n].profile # "none"
  /\ Take(t, [at |-> "patch", copy |-> c, name |-> n, row |-> user[n].profile,
              password |-> user[n].password])
  /\ spoilt' = IF InTheMaking(n) THEN spoilt \cup {n} ELSE spoilt
  /\ UNCHANGED <<launchVars, tables, chosen, raced, skimped>>

\* ProfileSerializer.update saves the user it loaded, every column of it ...
PatchSaveUser(t) ==
  /\ req[t].at = "patch"
  /\ user' = [user EXCEPT ![req[t].name].password = req[t].password]
  /\ Proceed(t, "label")
  /\ UNCHANGED <<launchVars, org, session, history>>

\* ... and then the profile, every column of it.
PatchSave(t) ==
  /\ req[t].at = "label"
  /\ user' = [user EXCEPT ![req[t].name].profile = req[t].row]
  /\ Done(t)
  /\ UNCHANGED <<launchVars, org, session, history>>

\* The old password is checked against the row loaded.
PassRead(t, c, n) ==
  /\ req[t] = Idle
  /\ LoggedIn(c, n) /\ user[n].password < Changes
  /\ Take(t, [at |-> "pass", copy |-> c, name |-> n, password |-> user[n].password + 1])
  /\ UNCHANGED <<launchVars, tables, history>>

Edits(t, n) == req[t].at = "patch" /\ req[t].name = n

\* (mutant) set_password without save
PassForgotten(t) ==
  LET n == req[t].name IN
  /\ req[t].at = "pass"
  /\ chosen' = [chosen EXCEPT ![n] = req[t].password]
  /\ raced' = IF \E s \in Threads : Edits(s, n) THEN raced \cup {n} ELSE raced
  /\ Proceed(t, "hash")
  /\ UNCHANGED <<launchVars, tables, spoilt, skimped>>

\* set_password and save: every column of the user.
PassSave(t) ==
  LET n == req[t].name IN
  /\ req[t].at = "pass"
  /\ user' = [user EXCEPT ![n].password = req[t].password]
  /\ chosen' = [chosen EXCEPT ![n] = req[t].password]
  /\ raced' = IF \E s \in Threads : Edits(s, n) THEN raced \cup {n} ELSE raced
  /\ Proceed(t, "hash")
  /\ UNCHANGED <<launchVars, org, session, spoilt, skimped>>

\* update_session_auth_hash: the session goes on under the new password.
PassRehash(t) ==
  /\ req[t].at = "hash"
  /\ session' = [session EXCEPT ![req[t].name] =
                   [key |-> app[req[t].copy].key, password |-> req[t].password]]
  /\ Done(t)
  /\ UNCHANGED <<launchVars, user, org, history>>

-----------------------------------------------------------------------------
(* The process ends, and its requests with it *)

Stop(c) ==
  /\ MayEnd(c)
  /\ \A t \in Threads : req[t] # Idle /\ req[t].copy = c => req[t].at \in CutPoints
  /\ End(c)
  /\ req' = [t \in Threads |-> IF req[t] # Idle /\ req[t].copy = c THEN Idle ELSE req[t]]
  /\ broken' = broken \cup ({app[c].at} \cap {"write", "seed"})
  /\ spoilt' = spoilt \cup {n \in Names : \E t \in Threads : Makes(t, n) /\ req[t].copy = c}
  /\ UNCHANGED <<keyFile, plans, rival, tables, chosen, raced, skimped>>

Serves(t) == \/ InsertUser(t) \/ InsertProfile(t) \/ ReadPlan(t) \/ InsertOrg(t)
             \/ LinkProfile(t) \/ SignupLogin(t)
             \/ PatchSaveUser(t) \/ PatchSave(t) \/ PassSave(t) \/ PassRehash(t)

Next == \/ \E c \in Copies : LaunchStep(c) /\ UNCHANGED accVars
        \/ \E c \in Copies : Stop(c)
        \/ \E t \in Threads, c \in Copies, n \in Names :
             \/ \E super \in BOOLEAN : MakeBegin(t, c, n, super)
             \/ PatchRead(t, c, n) \/ PassRead(t, c, n)
        \/ \E c \in Copies, n \in Names : LoginPost(c, n) \/ LogoutPost(c, n)
        \/ \E t \in Threads : Serves(t)

Spec == Init /\ [][Next]_vars

-----------------------------------------------------------------------------
(* Properties *)

\* n has a Profile with an organization, which is n's own.
Whole(n) == /\ user[n].profile \in OrgIds
            /\ org[user[n].profile] # None
            /\ org[user[n].profile].owner = n

\* "Every user belongs to exactly one Organization (via accounts.Profile.org)"
\* (billing/models.py:109-110), but for those a request is still making.
EveryUserHasOrg == \A n \in Names : user[n] # None /\ ~InTheMaking(n) => Whole(n)

\* What is left of that: signups of one name that race, edits that race, deaths
\* at any other moment leave no user without an organization; only an account
\* whose making was cut off, or whose profile was loaded by an edit before the
\* organization was linked to it, may be without (SignupSerializer.create).
AccountsAreWhole ==
  \A n \in Names \ spoilt : user[n] # None /\ ~InTheMaking(n) => Whole(n)

\* Two signups for one name pass validate_username together; still nobody gets a
\* second organization (accounts/serializers.py:47-50, 71-75).
OneOrgEach ==
  \A i, j \in OrgIds :
    org[i] # None /\ org[j] # None /\ org[i].owner = org[j].owner => i = j

\* A session outlives the process: every copy that serves requests signs with the
\* key the session was signed with (desktop_app.py:62-68), wherever copies were
\* killed before, unless two first launches had drawn a key each, or the copy read
\* the file while it was being written.
SessionsSurvive ==
  \A n \in Names, c \in Copies :
    session[n] # None /\ app[c].server = "up" =>
      rival \/ "key" \in met[c] \/ app[c].key = session[n].key

\* A changed password stands, whoever logs in, out or edits a profile before or
\* after and wherever a process ends, unless an edit of the same user had loaded
\* the row when it was changed (serializers.py:32 saves all of it).
PasswordStands ==
  \A n \in Names : user[n] # None /\ user[n].password # chosen[n] => n \in raced

\* The organization of a superuser is made on the top plan (accounts/signals.py:
\* 16-20) and everybody else's on Free, unless the copy that made it had found
\* the plans half-seeded.
PlansByStanding ==
  \A i \in OrgIds \ skimped : org[i] # None =>
    (org[i].plan = "enterprise") = user[org[i].owner].super

=============================================================================
