------------------------------- MODULE Sessions -------------------------------
(***************************************************************************)
(* Accounts and sessions: sign-up and login of the proxy (lib/auth-api.js) *)
(* and of the dashboard (app/api/auth, lib/auth.ts), sign-in with Google   *)
(* (lib/auth-google.js), and db/create-user.js.  They are processes of     *)
(* their own over one database file: every SQL statement is a step, and    *)
(* only UNIQUE(email) keeps two of them from creating the same account.    *)
(* The throttle of failed logins is in the memory of each process.         *)
(*                                                                         *)
(* An account is named by the attempt that created it, and a session by    *)
(* the attempt that opened it.                                             *)
(***************************************************************************)
EXTENDS Naturals

CONSTANTS
    Emails,
    Attempts,       \* sign-ups, logins and runs of create-user
    FailLimit,      \* 5 in the code
    NoOne

ASSUME EmailsAssumption == Emails # {}
ASSUME FailLimitAssumption == FailLimit \in Nat \ {0}
ASSUME NoOneAssumption == NoOne \notin Attempts

VARIABLES
    users,          \* the account of each email
    sessions,
    attempt,        \* where an attempt is, and what it is about
    fails           \* per process and email: failures, and whether locked out

sessionVars == <<users, sessions, attempt, fails>>

Servers == {"proxy", "dashboard"}
NoAccount == [id |-> NoOne, status |-> "none", password |-> FALSE]

SessionsInit ==
    /\ users = [e \in Emails |-> NoAccount]
    /\ sessions = {}
    /\ attempt = [r \in Attempts |-> [at |-> "idle", on |-> "proxy", email |-> CHOOSE e \in Emails : TRUE,
                                      user |-> NoOne, created |-> FALSE]]
    /\ fails = [p \in Servers |-> [e \in Emails |-> [count |-> 0, locked |-> FALSE]]]

Exists(e) == users[e].id # NoOne
\* status IN ('active', 'pending')
LetIn(e) == users[e].status \in {"active", "pending"}

Goes(r, where) == attempt' = [attempt EXCEPT ![r].at = where]
Enters(r, on, e, where, user) ==
    /\ attempt[r].at = "idle"
    /\ attempt' = [attempt EXCEPT ![r] = [at |-> where, on |-> on, email |-> e,
                                          user |-> user, created |-> FALSE]]

(***************************************************************************)
(* Creating an account: SELECT, and INSERT later.                          *)
(***************************************************************************)

\* The friendly pre-check of a sign-up.
SignupLooks(r, p, e) ==
    /\ Enters(r, p, e, IF Exists(e) THEN "taken" ELSE "signup", NoOne)
    /\ UNCHANGED <<users, sessions, fails>>

\* The callback after Google has vouched for the email.
GoogleLooks(r, e) ==
    /\ Enters(r, "proxy", e,
              IF ~Exists(e) THEN "google" ELSE IF LetIn(e) THEN "session" ELSE "suspended",
              users[e].id)
    /\ UNCHANGED <<users, sessions, fails>>

\* The state cookie does not match, or Google refuses or times out.
GoogleFails(r, e) ==
    /\ Enters(r, "proxy", e, "failed", NoOne)
    /\ UNCHANGED <<users, sessions, fails>>

\* create-user.js asks for the password between the two; --reset sets it.
OperatorLooks(r, e) ==
    /\ Enters(r, "cli", e, IF Exists(e) THEN "taken" ELSE "create", NoOne)
    /\ UNCHANGED <<users, sessions, fails>>
OperatorResets(e) ==
    /\ Exists(e)
    /\ users' = [users EXCEPT ![e].password = TRUE]
    /\ UNCHANGED <<sessions, attempt, fails>>

Inserted(r) ==
    LET e == attempt[r].email
        google == attempt[r].at = "google" IN
    users' = [users EXCEPT ![e] = [id |-> r, password |-> ~google,
                                   status |-> IF attempt[r].at = "create" THEN "active" ELSE "pending"]]

Inserts(r) ==
    /\ attempt[r].at \in {"signup", "google", "create"}
    /\ ~Exists(attempt[r].email)
    /\ Inserted(r)
    /\ attempt' = [attempt EXCEPT ![r].at = IF @ = "create" THEN "done" ELSE "session",
                                  ![r].user = r, ![r].created = TRUE]
    /\ UNCHANGED <<sessions, fails>>

\* Mutant: the sign-in that lost the race goes on with the id it made up.
RacedOwnId(r) == r
\* The lookup again.
Raced(r) == users[attempt[r].email].id

\* UNIQUE: another attempt has inserted the email.
Conflicts(r) ==
    /\ attempt[r].at \in {"signup", "google", "create"}
    /\ Exists(attempt[r].email)
    /\ IF attempt[r].at = "google" /\ LetIn(attempt[r].email)
       THEN attempt' = [attempt EXCEPT ![r].at = "session", ![r].user = Raced(r)]
       ELSE Goes(r, IF attempt[r].at = "google" THEN "suspended" ELSE "taken")
    /\ UNCHANGED <<users, sessions, fails>>

(***************************************************************************)
(* Login.  The throttle is keyed by email and IP; one IP.                  *)
(***************************************************************************)

Throttled(r, p, e) ==
    /\ fails[p][e].locked
    /\ Enters(r, p, e, "throttled", NoOne)
    /\ UNCHANGED <<users, sessions, fails>>

\* The password is right only for an account that has one.
LogsIn(r, p, e) ==
    /\ ~fails[p][e].locked
    /\ Exists(e) /\ LetIn(e) /\ users[e].password
    /\ Enters(r, p, e, "session", users[e].id)
    /\ fails' = [fails EXCEPT ![p][e] = [count |-> 0, locked |-> FALSE]]
    /\ UNCHANGED <<users, sessions>>

\* Any account, or none, may be tried with a wrong password.
Refused(r, p, e) ==
    /\ ~fails[p][e].locked
    /\ Enters(r, p, e, "refused", NoOne)
    /\ fails' = [fails EXCEPT ![p][e] =
                    IF @.count + 1 >= FailLimit THEN [count |-> 0, locked |-> TRUE]
                                                ELSE [count |-> @.count + 1, locked |-> FALSE]]
    /\ UNCHANGED <<users, sessions>>

\* 60 s later
Unlock(p, e) ==
    /\ fails[p][e].locked
    /\ fails' = [fails EXCEPT ![p][e] = [count |-> 0, locked |-> FALSE]]
    /\ UNCHANGED <<users, sessions, attempt>>

(***************************************************************************)
(* Sessions.                                                               *)
(***************************************************************************)

\* createSession: expired sessions go first.
OpensSession(r) ==
    /\ attempt[r].at = "session"
    /\ sessions' = {s \in sessions : ~s.expired}
                       \cup {[token |-> r, user |-> attempt[r].user, expired |-> FALSE]}
    /\ Goes(r, "in")
    /\ UNCHANGED <<users, fails>>

Logout(s) ==
    /\ sessions' = sessions \ {s}
    /\ UNCHANGED <<users, attempt, fails>>

\* 30 days later
Expires(s) ==
    /\ ~s.expired
    /\ sessions' = (sessions \ {s}) \cup {[s EXCEPT !.expired = TRUE]}
    /\ UNCHANGED <<users, attempt, fails>>

\* getSessionUser: the account behind a token.
SessionUsers(r) ==
    {users[e].id : e \in {f \in Emails : /\ LetIn(f)
                                         /\ \E s \in sessions : /\ s.token = r /\ ~s.expired
                                                                /\ s.user = users[f].id}}

\* Suspending an account, and letting it back in, is done by hand in SQL.
SetsStatus(e, status) ==
    /\ Exists(e)
    /\ users' = [users EXCEPT ![e].status = status]
    /\ UNCHANGED <<sessions, attempt, fails>>

\* A restart of a process loses its throttle and its attempts under way.
Restart(p) ==
    /\ fails' = [fails EXCEPT ![p] = [e \in Emails |-> [count |-> 0, locked |-> FALSE]]]
    /\ attempt' = [r \in Attempts |->
                      IF attempt[r].on = p /\ attempt[r].at \in {"signup", "google", "session"}
                      THEN [attempt[r] EXCEPT !.at = "lost"] ELSE attempt[r]]
    /\ UNCHANGED <<users, sessions>>

SessionsNext ==
    \/ \E r \in Attempts, p \in Servers, e \in Emails :
          SignupLooks(r, p, e) \/ Throttled(r, p, e) \/ LogsIn(r, p, e) \/ Refused(r, p, e)
    \/ \E r \in Attempts, e \in Emails : GoogleLooks(r, e) \/ GoogleFails(r, e) \/ OperatorLooks(r, e)
    \/ \E r \in Attempts : Inserts(r) \/ Conflicts(r) \/ OpensSession(r)
    \/ \E e \in Emails : OperatorResets(e) \/ \E status \in {"active", "suspended"} : SetsStatus(e, status)
    \/ \E p \in Servers : Restart(p) \/ \E e \in Emails : Unlock(p, e)
    \/ \E s \in sessions : Logout(s) \/ Expires(s)

SessionsSpec == SessionsInit /\ [][SessionsNext]_sessionVars
-----------------------------------------------------------------------------
(***************************************************************************)
(* Properties.                                                             *)
(***************************************************************************)

AccountType == [id : Attempts \cup {NoOne}, password : BOOLEAN,
                status : {"none", "active", "pending", "suspended"}]
SessionType == [token : Attempts, user : Attempts \cup {NoOne}, expired : BOOLEAN]
AttemptType == [at : {"idle", "signup", "google", "create", "session", "in", "done",
                      "taken", "suspended", "failed", "throttled", "refused", "lost"},
                on : Servers \cup {"cli"}, email : Emails,
                user : Attempts \cup {NoOne}, created : BOOLEAN]
ThrottleType == [count : Nat, locked : BOOLEAN]

SessionsTypeOK ==
    /\ users \in [Emails -> AccountType]
    /\ sessions \subseteq SessionType
    /\ attempt \in [Attempts -> AttemptType]
    /\ fails \in [Servers -> [Emails -> ThrottleType]]

\* Whoever signs in with an email, in whichever process and way, and however
\* the first sign-ins of a new email meet, gets a session of that email's one
\* account; and at most one of them is told that it created it.
OneAccountPerEmail ==
    \A r \in Attempts :
        /\ attempt[r].at \in {"session", "in"} => attempt[r].user = users[attempt[r].email].id
        /\ SessionUsers(r) \subseteq {users[attempt[r].email].id}
        /\ attempt[r].created => users[attempt[r].email].id = r
===============================================================================
