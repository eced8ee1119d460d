---------------------------- MODULE AccountsProofs ----------------------------
(***************************************************************************)
(* Proofs about accounts: that an email has one of them, however sign-ups, *)
(* sign-ins with Google and create-user meet (Sessions), that a key keeps  *)
(* its owner and that usage is conserved, however claims, migrations and   *)
(* flushes meet (Backfill); for any number of attempts, emails, keys,      *)
(* days, claims and flushes.                                               *)
(***************************************************************************)
EXTENDS Sessions, Backfill, SumTheorems

-----------------------------------------------------------------------------
(***************************************************************************)
(* One account per email.                                                  *)
(***************************************************************************)

\* The account of an email was created by an attempt for that email.
CreatedByAttempt ==
    \A e \in Emails : users[e].id # NoOne =>
        attempt[users[e].id].at # "idle" /\ attempt[users[e].id].email = e

\* Who is about to open a session, has opened one or created the account is
\* of the account of its email.
OwnAccount ==
    \A r \in Attempts :
        /\ attempt[r].at \in {"session", "in"} =>
              attempt[r].user = users[attempt[r].email].id /\ attempt[r].user # NoOne
        /\ attempt[r].created => users[attempt[r].email].id = r

\* So is the session.
OwnSession ==
    \A s \in sessions :
        attempt[s.token].at = "in" /\ s.user = attempt[s.token].user

SessionsInv == SessionsTypeOK /\ CreatedByAttempt /\ OwnAccount /\ OwnSession

LEMMA SessionsInvInit == SessionsInit => SessionsInv
<1> SUFFICES ASSUME SessionsInit PROVE SessionsInv
    OBVIOUS
<1>1. users \in [Emails -> AccountType] /\ sessions \subseteq SessionType
    BY DEF SessionsInit, NoAccount, AccountType
<1>2. attempt \in [Attempts -> AttemptType]
    BY EmailsAssumption DEF SessionsInit, AttemptType, Servers
<1>3. fails \in [Servers -> [Emails -> ThrottleType]]
    BY DEF SessionsInit, ThrottleType
<1>4. CreatedByAttempt /\ OwnAccount /\ OwnSession
    BY DEF SessionsInit, NoAccount, CreatedByAttempt, OwnAccount, OwnSession
<1>5. QED BY <1>1, <1>2, <1>3, <1>4 DEF SessionsInv, SessionsTypeOK

\* An attempt begins: as whoever it may be, it has created nothing, and is
\* given a session only for the account that is there.
LEMMA EntersKeeps ==
    ASSUME SessionsInv, NEW r \in Attempts, NEW on \in Servers \cup {"cli"}, NEW e \in Emails,
           NEW where \in {"signup", "google", "create", "session", "taken", "suspended", "failed",
                          "throttled", "refused"},
           NEW user \in Attempts \cup {NoOne},
           Enters(r, on, e, where, user),
           where = "session" => Exists(e) /\ user = users[e].id,
           UNCHANGED <<users, sessions>>
    PROVE  CreatedByAttempt' /\ OwnAccount' /\ OwnSession'
<1>1. /\ attempt[r].at = "idle"
      /\ attempt' = [attempt EXCEPT ![r] = [at |-> where, on |-> on, email |-> e, user |-> user, created |-> FALSE]]
    BY DEF Enters
<1>2. CreatedByAttempt'
    BY <1>1 DEF SessionsInv, SessionsTypeOK, AccountType, AttemptType, CreatedByAttempt
<1>3. OwnAccount'
    BY <1>1 DEF SessionsInv, SessionsTypeOK, AccountType, AttemptType, OwnAccount, Exists
<1>4. OwnSession'
    BY <1>1 DEF SessionsInv, SessionsTypeOK, AttemptType, SessionType, OwnSession
<1>5. QED BY <1>2, <1>3, <1>4

LEMMA EntersKeepsType ==
    ASSUME SessionsTypeOK, NEW r \in Attempts, NEW on \in Servers \cup {"cli"}, NEW e \in Emails,
           NEW where \in {"signup", "google", "create", "session", "taken", "suspended", "failed",
                          "throttled", "refused"},
           NEW user \in Attempts \cup {NoOne},
           Enters(r, on, e, where, user)
    PROVE  attempt' \in [Attempts -> AttemptType]
BY DEF Enters, SessionsTypeOK, AttemptType

LEMMA LooksKeep ==
    ASSUME SessionsInv, NEW r \in Attempts, NEW p \in Servers, NEW e \in Emails,
           SignupLooks(r, p, e) \/ Throttled(r, p, e) \/ GoogleLooks(r, e) \/ GoogleFails(r, e)
               \/ OperatorLooks(r, e)
    PROVE  SessionsInv'
<1>1. users[e].id \in Attempts \cup {NoOne} /\ "proxy" \in Servers /\ UNCHANGED <<users, sessions, fails>>
    BY DEF SessionsInv, SessionsTypeOK, AccountType, Servers, SignupLooks, Throttled, GoogleLooks, GoogleFails, OperatorLooks
<1>2. PICK on \in Servers \cup {"cli"}, user \in Attempts \cup {NoOne},
           where \in {"signup", "google", "create", "session", "taken", "suspended", "failed",
                      "throttled", "refused"} :
          /\ Enters(r, on, e, where, user)
          /\ where = "session" => Exists(e) /\ user = users[e].id
    <2>1. CASE SignupLooks(r, p, e)
        BY <2>1 DEF SignupLooks
    <2>2. CASE Throttled(r, p, e)
        BY <2>2 DEF Throttled
    <2>3. CASE GoogleLooks(r, e)
        BY <1>1, <2>3 DEF GoogleLooks
    <2>4. CASE GoogleFails(r, e)
        BY <1>1, <2>4 DEF GoogleFails
    <2>5. CASE OperatorLooks(r, e)
        BY <2>5 DEF OperatorLooks
    <2>6. QED BY <2>1, <2>2, <2>3, <2>4, <2>5
<1>3. CreatedByAttempt' /\ OwnAccount' /\ OwnSession'
    BY <1>1, <1>2, EntersKeeps
<1>4. attempt' \in [Attempts -> AttemptType]
    BY <1>2, EntersKeepsType DEF SessionsInv
<1>5. QED BY <1>1, <1>3, <1>4 DEF SessionsInv, SessionsTypeOK

LEMMA LoginKeeps ==
    ASSUME SessionsInv, NEW r \in Attempts, NEW p \in Servers, NEW e \in Emails,
           LogsIn(r, p, e) \/ Refused(r, p, e)
    PROVE  SessionsInv'
<1>1. fails' \in [Servers -> [Emails -> ThrottleType]]
    <2>1. /\ fails \in [Servers -> [Emails -> ThrottleType]]
          /\ fails[p][e] \in ThrottleType
        BY DEF SessionsInv, SessionsTypeOK
    <2>2. CASE LogsIn(r, p, e)
        BY <2>1, <2>2 DEF LogsIn, ThrottleType
    <2>3. CASE Refused(r, p, e)
        <3>1. CASE fails[p][e].count + 1 >= FailLimit
            <4>1. fails' = [fails EXCEPT ![p][e] = [count |-> 0, locked |-> TRUE]]
                BY <2>3, <3>1 DEF Refused
            <4>2. QED BY <2>1, <4>1 DEF ThrottleType
        <3>2. CASE ~(fails[p][e].count + 1 >= FailLimit)
            <4>1. fails' = [fails EXCEPT ![p][e] = [count |-> fails[p][e].count + 1, locked |-> FALSE]]
                BY <2>3, <3>2 DEF Refused
            <4>2. QED BY <2>1, <4>1 DEF ThrottleType
        <3>3. QED BY <3>1, <3>2
    <2>4. QED BY <2>2, <2>3
<1>2. CASE LogsIn(r, p, e)
    <2>1. /\ Enters(r, p, e, "session", users[e].id) /\ Exists(e)
          /\ UNCHANGED <<users, sessions>> /\ users[e].id \in Attempts \cup {NoOne}
        BY <1>2 DEF LogsIn, SessionsInv, SessionsTypeOK, AccountType
    <2>2. QED BY <1>1, <2>1, EntersKeeps, EntersKeepsType DEF SessionsInv, SessionsTypeOK
<1>3. CASE Refused(r, p, e)
    <2>1. Enters(r, p, e, "refused", NoOne) /\ UNCHANGED <<users, sessions>>
        BY <1>3 DEF Refused
    <2>2. QED BY <1>1, <2>1, EntersKeeps, EntersKeepsType DEF SessionsInv, SessionsTypeOK
<1>4. QED BY <1>2, <1>3

\* The account is new, and nobody was of another for this email.
LEMMA InsertsKeeps ==
    ASSUME SessionsInv, NEW r \in Attempts, Inserts(r)
    PROVE  SessionsInv'
<1> DEFINE e == attempt[r].email
<1>1. e \in Emails /\ users[e].id = NoOne /\ r # NoOne
          /\ attempt[r].at \in {"signup", "google", "create"}
    BY NoOneAssumption DEF SessionsInv, SessionsTypeOK, AttemptType, Inserts, Exists
<1>2. PICK pw \in BOOLEAN, status \in {"active", "pending"} :
          users' = [users EXCEPT ![e] = [id |-> r, password |-> pw, status |-> status]]
    BY DEF Inserts, Inserted
<1>3. PICK where \in {"done", "session"} :
          attempt' = [attempt EXCEPT ![r].at = where, ![r].user = r, ![r].created = TRUE]
    BY DEF Inserts
<1>4. UNCHANGED <<sessions, fails>>
    BY DEF Inserts
<1> HIDE DEF e
<1>5. /\ attempt'[r].at = where /\ attempt'[r].user = r /\ attempt'[r].created = TRUE
      /\ attempt'[r].email = e /\ attempt'[r].on = attempt[r].on
      /\ \A q \in Attempts : q # r => attempt'[q] = attempt[q]
    BY <1>3 DEF SessionsInv, SessionsTypeOK, AttemptType, e
<1>6. SessionsTypeOK'
    <2>1. users' \in [Emails -> AccountType]
        BY <1>1, <1>2 DEF SessionsInv, SessionsTypeOK, AccountType
    <2>2. attempt' \in [Attempts -> AttemptType]
        <3>1. attempt[r] \in AttemptType
            BY DEF SessionsInv, SessionsTypeOK
        <3>2. [attempt[r] EXCEPT !.at = where, !.user = r, !.created = TRUE] \in AttemptType
            BY <3>1 DEF AttemptType
        <3>3. attempt' = [attempt EXCEPT ![r] = [attempt[r] EXCEPT !.at = where, !.user = r, !.created = TRUE]]
            BY <1>3 DEF SessionsInv, SessionsTypeOK
        <3>4. QED BY <3>2, <3>3 DEF SessionsInv, SessionsTypeOK
    <2>3. QED BY <1>4, <2>1, <2>2 DEF SessionsInv, SessionsTypeOK
<1>7. CreatedByAttempt'
    BY <1>1, <1>2, <1>5 DEF SessionsInv, SessionsTypeOK, AccountType, CreatedByAttempt, e
<1>8. OwnAccount'
    BY <1>1, <1>2, <1>5, NoOneAssumption DEF SessionsInv, SessionsTypeOK, AccountType, AttemptType, OwnAccount
<1>9. OwnSession'
    BY <1>1, <1>4, <1>5 DEF SessionsInv, SessionsTypeOK, AttemptType, SessionType, OwnSession
<1>10. QED BY <1>6, <1>7, <1>8, <1>9 DEF SessionsInv

LEMMA ConflictsKeeps ==
    ASSUME SessionsInv, NEW r \in Attempts, Conflicts(r)
    PROVE  SessionsInv'
<1>1. /\ UNCHANGED <<users, sessions, fails>>
      /\ attempt[r].at \in {"signup", "google", "create"} /\ Exists(attempt[r].email)
    BY DEF Conflicts
<1>2. CASE attempt' = [attempt EXCEPT ![r].at = "session", ![r].user = Raced(r)]
    <2>1. Raced(r) \in Attempts \cup {NoOne}
        BY DEF SessionsInv, SessionsTypeOK, AccountType, AttemptType, Raced
    <2>2. /\ attempt'[r].at = "session" /\ attempt'[r].user = Raced(r)
          /\ attempt'[r].email = attempt[r].email /\ attempt'[r].created = attempt[r].created
          /\ \A q \in Attempts : q # r => attempt'[q] = attempt[q]
        BY <1>2 DEF SessionsInv, SessionsTypeOK, AttemptType
    <2>3. SessionsTypeOK'
        <3>1. attempt[r] \in AttemptType
            BY DEF SessionsInv, SessionsTypeOK
        <3>2. [attempt[r] EXCEPT !.at = "session", !.user = Raced(r)] \in AttemptType
            BY <2>1, <3>1 DEF AttemptType
        <3>3. attempt' = [attempt EXCEPT ![r] = [attempt[r] EXCEPT !.at = "session", !.user = Raced(r)]]
            BY <1>2 DEF SessionsInv, SessionsTypeOK
        <3>4. attempt' \in [Attempts -> AttemptType]
            BY <3>2, <3>3 DEF SessionsInv, SessionsTypeOK
        <3>5. QED BY <1>1, <3>4 DEF SessionsInv, SessionsTypeOK
    <2>4. CreatedByAttempt'
        BY <1>1, <2>2 DEF SessionsInv, SessionsTypeOK, AccountType, AttemptType, CreatedByAttempt
    <2>5. OwnAccount'
        BY <1>1, <2>2 DEF SessionsInv, SessionsTypeOK, AccountType, AttemptType, OwnAccount, Raced, Exists
    <2>6. OwnSession'
        BY <1>1, <2>2 DEF SessionsInv, SessionsTypeOK, AttemptType, SessionType, OwnSession
    <2>7. QED BY <2>3, <2>4, <2>5, <2>6 DEF SessionsInv
<1>3. ASSUME NEW where \in {"suspended", "taken"}, attempt' = [attempt EXCEPT ![r].at = where]
      PROVE  SessionsInv'
    <2>1. SessionsTypeOK'
        BY <1>1, <1>3 DEF SessionsInv, SessionsTypeOK, AttemptType
    <2>2. CreatedByAttempt' /\ OwnAccount' /\ OwnSession'
        BY <1>1, <1>3 DEF SessionsInv, SessionsTypeOK, AccountType, AttemptType, CreatedByAttempt, OwnAccount, OwnSession
    <2>3. QED BY <2>1, <2>2 DEF SessionsInv
<1>4. QED BY <1>2, <1>3 DEF Conflicts, Goes

LEMMA OpensKeeps ==
    ASSUME SessionsInv, NEW r \in Attempts, OpensSession(r)
    PROVE  SessionsInv'
<1>1. /\ attempt[r].at = "session" /\ UNCHANGED <<users, fails>>
      /\ attempt' = [attempt EXCEPT ![r].at = "in"]
      /\ \A s \in sessions' : s \in sessions \/ s = [token |-> r, user |-> attempt[r].user, expired |-> FALSE]
    BY DEF OpensSession, Goes
<1>2. SessionsTypeOK'
    <2>1. attempt' \in [Attempts -> AttemptType]
        BY <1>1 DEF SessionsInv, SessionsTypeOK, AttemptType
    <2>2. attempt[r].user \in Attempts \cup {NoOne}
        BY DEF SessionsInv, SessionsTypeOK, AttemptType
    <2>3. sessions' \subseteq SessionType
        <3> SUFFICES ASSUME NEW s \in sessions' PROVE s \in SessionType
            OBVIOUS
        <3>1. CASE s \in sessions
            BY <3>1 DEF SessionsInv, SessionsTypeOK
        <3>2. CASE s = [token |-> r, user |-> attempt[r].user, expired |-> FALSE]
            BY <2>2, <3>2 DEF SessionType
        <3>3. QED BY <1>1, <3>1, <3>2
    <2>4. QED BY <1>1, <2>1, <2>3 DEF SessionsInv, SessionsTypeOK
<1>3. CreatedByAttempt' /\ OwnAccount'
    BY <1>1 DEF SessionsInv, SessionsTypeOK, AccountType, AttemptType, CreatedByAttempt, OwnAccount
<1>4. OwnSession'
    BY <1>1 DEF SessionsInv, SessionsTypeOK, AttemptType, SessionType, OwnSession
<1>5. QED BY <1>2, <1>3, <1>4 DEF SessionsInv

\* Passwords and statuses do not name accounts.
LEMMA OperatorKeeps ==
    ASSUME SessionsInv, NEW e \in Emails,
           OperatorResets(e) \/ \E status \in {"active", "suspended"} : SetsStatus(e, status)
    PROVE  SessionsInv'
<1>1. /\ UNCHANGED <<sessions, attempt, fails>>
      /\ users' \in [Emails -> AccountType]
      /\ \A f \in Emails : users'[f].id = users[f].id
    <2>1. CASE OperatorResets(e)
        BY <2>1 DEF SessionsInv, SessionsTypeOK, AccountType, OperatorResets
    <2>2. ASSUME NEW status \in {"active", "suspended"}, SetsStatus(e, status)
          PROVE  /\ UNCHANGED <<sessions, attempt, fails>>
                 /\ users' \in [Emails -> AccountType]
                 /\ \A f \in Emails : users'[f].id = users[f].id
        BY <2>2 DEF SessionsInv, SessionsTypeOK, AccountType, SetsStatus
    <2>3. QED BY <2>1, <2>2
<1>2. QED BY <1>1 DEF SessionsInv, SessionsTypeOK, AccountType, AttemptType, CreatedByAttempt, OwnAccount, OwnSession

LEMMA RestartKeeps ==
    ASSUME SessionsInv, NEW p \in Servers, Restart(p)
    PROVE  SessionsInv'
<1>1. /\ UNCHANGED <<users, sessions>>
      /\ fails' \in [Servers -> [Emails -> ThrottleType]]
      /\ attempt' \in [Attempts -> AttemptType]
      /\ \A r \in Attempts :
            \/ attempt'[r] = attempt[r]
            \/ /\ attempt[r].at \in {"signup", "google", "session"}
               /\ attempt'[r] = [attempt[r] EXCEPT !.at = "lost"]
    BY DEF SessionsInv, SessionsTypeOK, AttemptType, ThrottleType, Restart
<1>2. SessionsTypeOK'
    BY <1>1 DEF SessionsInv, SessionsTypeOK
<1>3. \A r \in Attempts :
          /\ attempt'[r].email = attempt[r].email /\ attempt'[r].created = attempt[r].created
          /\ attempt'[r].user = attempt[r].user
          /\ attempt'[r].at = attempt[r].at
                \/ (attempt[r].at \in {"signup", "google", "session"} /\ attempt'[r].at = "lost")
    BY <1>1 DEF SessionsInv, SessionsTypeOK, AttemptType
<1>4. CreatedByAttempt'
    BY <1>1, <1>3 DEF SessionsInv, SessionsTypeOK, AccountType, CreatedByAttempt
<1>5. OwnAccount'
    BY <1>1, <1>3 DEF SessionsInv, OwnAccount
<1>6. OwnSession'
    BY <1>1, <1>3 DEF SessionsInv, SessionsTypeOK, SessionType, OwnSession
<1>7. QED BY <1>2, <1>4, <1>5, <1>6 DEF SessionsInv

LEMMA SessionsInvNext == SessionsInv /\ [SessionsNext]_sessionVars => SessionsInv'
<1> SUFFICES ASSUME SessionsInv, [SessionsNext]_sessionVars PROVE SessionsInv'
    OBVIOUS
<1>1. CASE UNCHANGED sessionVars
    BY <1>1 DEF sessionVars, SessionsInv, SessionsTypeOK, AccountType, AttemptType, CreatedByAttempt, OwnAccount, OwnSession
<1>2. ASSUME NEW r \in Attempts, NEW p \in Servers, NEW e \in Emails,
             SignupLooks(r, p, e) \/ Throttled(r, p, e) \/ LogsIn(r, p, e) \/ Refused(r, p, e)
      PROVE  SessionsInv'
    BY <1>2, LooksKeep, LoginKeeps
<1>3. ASSUME NEW r \in Attempts, NEW e \in Emails,
             GoogleLooks(r, e) \/ GoogleFails(r, e) \/ OperatorLooks(r, e)
      PROVE  SessionsInv'
    <2>1. "proxy" \in Servers
        BY DEF Servers
    <2>2. QED BY <1>3, <2>1, LooksKeep
<1>4. ASSUME NEW r \in Attempts, Inserts(r) \/ Conflicts(r) \/ OpensSession(r) PROVE SessionsInv'
    BY <1>4, InsertsKeeps, ConflictsKeeps, OpensKeeps
<1>5. ASSUME NEW e \in Emails,
             OperatorResets(e) \/ \E status \in {"active", "suspended"} : SetsStatus(e, status)
      PROVE  SessionsInv'
    BY <1>5, OperatorKeeps
<1>6. ASSUME NEW p \in Servers, NEW e \in Emails, Unlock(p, e) PROVE SessionsInv'
    <2>1. UNCHANGED <<users, sessions, attempt>> /\ fails' \in [Servers -> [Emails -> ThrottleType]]
        BY <1>6 DEF Unlock, SessionsInv, SessionsTypeOK, ThrottleType
    <2>2. QED BY <2>1 DEF SessionsInv, SessionsTypeOK, CreatedByAttempt, OwnAccount, OwnSession
<1>7. ASSUME NEW s \in sessions, Logout(s) \/ Expires(s) PROVE SessionsInv'
    <2>1. /\ UNCHANGED <<users, attempt, fails>>
          /\ sessions' \subseteq SessionType
          /\ \A t \in sessions' : \E o \in sessions : t.token = o.token /\ t.user = o.user
        BY <1>7 DEF Logout, Expires, SessionsInv, SessionsTypeOK, SessionType
    <2>2. QED BY <2>1 DEF SessionsInv, SessionsTypeOK, AccountType, AttemptType, CreatedByAttempt, OwnAccount, OwnSession
<1>8. QED
    BY <1>1, <1>2, <1>3, <1>4, <1>5, <1>6, <1>7, RestartKeeps DEF SessionsNext

LEMMA InvGivesOneAccount == SessionsInv => OneAccountPerEmail
<1> SUFFICES ASSUME SessionsInv, NEW r \in Attempts
             PROVE  /\ attempt[r].at \in {"session", "in"} => attempt[r].user = users[attempt[r].email].id
                    /\ SessionUsers(r) \subseteq {users[attempt[r].email].id}
                    /\ attempt[r].created => users[attempt[r].email].id = r
    BY DEF OneAccountPerEmail
<1>1. ASSUME NEW u \in SessionUsers(r) PROVE u = users[attempt[r].email].id
    <2>1. PICK s \in sessions : s.token = r /\ s.user = u
        BY <1>1 DEF SessionUsers
    <2>2. attempt[r].at = "in" /\ u = attempt[r].user
        BY <2>1 DEF SessionsInv, OwnSession
    <2>3. QED BY <2>2 DEF SessionsInv, OwnAccount
<1>2. QED BY <1>1 DEF SessionsInv, OwnAccount

\* OneAccountPerEmail for any number of attempts and emails, over any number of
\* restarts: sessions are of the one account of the email that signed in.
THEOREM OneAccount == SessionsSpec => []OneAccountPerEmail
<1>1. SessionsInit => SessionsInv
    BY SessionsInvInit
<1>2. SessionsInv /\ [SessionsNext]_sessionVars => SessionsInv'
    BY SessionsInvNext
<1>3. SessionsInv => OneAccountPerEmail
    BY InvGivesOneAccount
<1>4. QED BY <1>1, <1>2, <1>3, PTL DEF SessionsSpec

-----------------------------------------------------------------------------
(***************************************************************************)
(* The owner of a key.                                                     *)
(***************************************************************************)

\* Only a key that has a row has an owner, and only keys with rows are claimed.
OwnerInv ==
    /\ owner \in [OldKeys -> Who]
    /\ keyRows \subseteq OldKeys
    /\ \A k \in OldKeys : owner[k] # Unowned => k \in keyRows
    /\ DOMAIN claim = Claims
    /\ \A c \in Claims :
          claim[c].at = "keys" => claim[c].keys \subseteq keyRows /\ claim[c].for \in Owners

LEMMA OwnerInvInit == BackfillInit => OwnerInv
BY DEF BackfillInit, OwnerInv, Who, NoClaim

LEMMA OwnerInvNext ==
    ASSUME OwnerInv, [BackfillNext]_backfillVars
    PROVE  OwnerInv' /\ \A k \in OldKeys : owner[k] # Unowned => owner'[k] = owner[k]
<1>1. CASE UNCHANGED <<owner, keyRows, claim>>
    BY <1>1 DEF OwnerInv
<1>2. ASSUME NEW renamed \in BOOLEAN, MigrateKeys(renamed)
      PROVE  OwnerInv' /\ \A k \in OldKeys : owner[k] # Unowned => owner'[k] = owner[k]
    BY <1>2 DEF MigrateKeys, InsertedOwner, OwnerInv, Who
<1>3. ASSUME NEW c \in Claims, ClaimKeys(c)
      PROVE  OwnerInv' /\ \A k \in OldKeys : owner[k] # Unowned => owner'[k] = owner[k]
    BY <1>3 DEF ClaimKeys, Taken, OwnerInv, Who, NoClaim
<1>4. ASSUME NEW c \in Claims, NEW w \in Owners, NEW keys \in SUBSET OldKeys, ReadKeys(c, w, keys)
      PROVE  OwnerInv' /\ owner' = owner
    BY <1>4 DEF ReadKeys, OwnerInv, NoClaim
<1>5. ASSUME NEW c \in Claims, NEW w \in Owners, NEW days \in SUBSET Days, NEW merge \in BOOLEAN,
             ReadUsage(c, w, days, merge)
      PROVE  OwnerInv' /\ owner' = owner
    BY <1>5 DEF ReadUsage, OwnerInv, NoClaim
<1>6. ASSUME NEW c \in Claims, ClaimUsage(c) \/ Stops(c)
      PROVE  OwnerInv' /\ owner' = owner
    BY <1>6 DEF ClaimUsage, Stops, OwnerInv, NoClaim
<1>7. CASE UNCHANGED backfillVars
    BY <1>1, <1>7 DEF backfillVars
<1>8. ASSUME NEW w \in Who, NEW d \in Days, Tick(w, d)
      PROVE  UNCHANGED <<owner, keyRows, claim>>
    BY <1>8 DEF Tick
<1>9. QED
    BY <1>1, <1>2, <1>3, <1>4, <1>5, <1>6, <1>7, <1>8 DEF BackfillNext

\* OwnerIsKept for any number of keys, accounts and claims: no migration and no
\* claim takes a key from the account that has it.
THEOREM OwnerKept == BackfillSpec => OwnerIsKept
<1>1. BackfillInit => OwnerInv
    BY OwnerInvInit
<1>2. OwnerInv /\ [BackfillNext]_backfillVars => OwnerInv'
    BY OwnerInvNext
<1>3. OwnerInv /\ [BackfillNext]_backfillVars
          => [\A k \in OldKeys : owner[k] # Unowned => owner'[k] = owner[k]]_backfillVars
    BY OwnerInvNext
<1>4. QED BY <1>1, <1>2, <1>3, PTL DEF BackfillSpec, OwnerIsKept

-----------------------------------------------------------------------------
(***************************************************************************)
(* The usage.  A claim that has read the rows of an account and is about   *)
(* to merge into them will find them: only anonymous rows are ever removed.*)
(***************************************************************************)
Amounts == Nat \cup {Absent}
Rows == Who \X Days

\* What a claim has read, when it comes to write it.
ReadInv(c) ==
    claim[c].at = "usage" =>
        /\ claim[c].for \in Owners
        /\ claim[c].amounts \in [Days -> Amounts]
        /\ claim[c].merges \subseteq Days /\ claim[c].moves \subseteq Days
        /\ claim[c].merges \cap claim[c].moves = {}
        /\ \A d \in claim[c].merges :
              claim[c].amounts[d] # Absent /\ usage[claim[c].for][d] # Absent

UsageInv ==
    /\ usage \in [Who -> [Days -> Amounts]]
    /\ flushed \in Nat
    /\ DOMAIN claim = Claims
    /\ \A c \in Claims : ReadInv(c)
    /\ ClaimsConserveUsage

LEMMA RowsFinite == IsFiniteSet(Rows)
<1>1. IsFiniteSet(Who)
    BY TableAssumption, FS_AddElement DEF Who
<1>2. QED BY <1>1, TableAssumption, FS_Product DEF Rows

\* What the rows of a table of usage hold in all.
OnTable(table) ==
    SumFunctionOnSet([row \in Rows |-> IF table[row[1]][row[2]] = Absent THEN 0
                                       ELSE table[row[1]][row[2]]], Rows)

LEMMA OnRowsIsSum == OnRows = OnTable(usage)
BY DEF OnRows, OnTable, Amount, SumFunction, Rows

LEMMA OnRowsIsSumNext == OnRows' = OnTable(usage')
BY DEF OnRows, OnTable, Amount, SumFunction, Rows

LEMMA OnTableInt ==
    ASSUME NEW table \in [Who -> [Days -> Amounts]]
    PROVE  OnTable(table) \in Int
<1> DEFINE f == [row \in Rows |-> IF table[row[1]][row[2]] = Absent THEN 0
                                  ELSE table[row[1]][row[2]]]
<1>1. \A r \in Rows : f[r] \in Int
    BY DEF Rows, Amounts
<1>2. OnTable(table) = SumFunctionOnSet(f, Rows)
    BY DEF OnTable
<1> HIDE DEF f
<1>3. QED BY <1>1, <1>2, RowsFinite, SumInt

\* A flush adds what it writes to one row.
LEMMA TickAdds ==
    ASSUME NEW table \in [Who -> [Days -> Amounts]], NEW next \in [Who -> [Days -> Amounts]],
           NEW w \in Who, NEW d \in Days,
           next[w][d] = Plus(table[w][d], 1),
           \A x \in Who, e \in Days : <<x, e>> # <<w, d>> => next[x][e] = table[x][e]
    PROVE  OnTable(next) = OnTable(table) + 1
<1> DEFINE f == [row \in Rows |-> IF table[row[1]][row[2]] = Absent THEN 0
                                  ELSE table[row[1]][row[2]]]
           g == [row \in Rows |-> IF next[row[1]][row[2]] = Absent THEN 0
                                  ELSE next[row[1]][row[2]]]
           p == <<w, d>>
<1>1. p \in Rows /\ \A r \in Rows : f[r] \in Int /\ g[r] \in Int
    BY DEF Rows, Amounts
<1>2. \A r \in Rows \ {p} : g[r] = f[r]
    BY DEF Rows
<1>3. g[p] = f[p] + 1
    <2>1. table[w][d] \in Amounts
        OBVIOUS
    <2>2. QED BY <2>1 DEF Rows, Amounts, Plus, Absent
<1>4. OnTable(table) = SumFunctionOnSet(f, Rows) /\ OnTable(next) = SumFunctionOnSet(g, Rows)
    BY DEF OnTable
<1> HIDE DEF f, g, p
<1>5. SumFunctionOnSet(g, Rows) = SumFunctionOnSet(f, Rows) + g[p] - f[p]
    BY <1>1, <1>2, RowsFinite, SumChange
<1>6. SumFunctionOnSet(f, Rows) \in Int
    BY <1>1, RowsFinite, SumInt
<1>7. QED BY <1>1, <1>3, <1>4, <1>5, <1>6

\* What a claim writes: the merged days are added to the rows of the account,
\* the moved days are put there, and both leave the anonymous rows.
LEMMA ClaimWrites ==
    ASSUME UsageInv, NEW c \in Claims, ClaimUsage(c), NEW w, w = claim[c].for
    PROVE  /\ w \in Owners /\ w \in Who /\ Unowned \in Who /\ w # Unowned
           /\ usage' \in [Who -> [Days -> Amounts]]
           /\ \A x \in Who \ {w, Unowned} : usage'[x] = usage[x]
           /\ \A d \in Days :
                 \/ /\ d \in claim[c].merges
                    /\ usage[w][d] \in Nat /\ claim[c].amounts[d] \in Nat
                    /\ usage'[w][d] = usage[w][d] + claim[c].amounts[d]
                    /\ usage'[Unowned][d] = Absent
                 \/ /\ d \notin claim[c].merges
                    /\ usage[w][d] = Absent /\ usage[Unowned][d] # Absent
                    /\ usage'[w][d] = usage[Unowned][d]
                    /\ usage'[Unowned][d] = Absent
                 \/ /\ d \notin claim[c].merges
                    /\ usage'[w][d] = usage[w][d]
                    /\ usage'[Unowned][d] = usage[Unowned][d]
<1> DEFINE toAccount == [d \in Days |->
                 IF d \in claim[c].merges THEN SumOnRow(c, w, d)
                 ELSE IF d \in claim[c].moves /\ usage[Unowned][d] # Absent THEN usage[Unowned][d]
                 ELSE usage[w][d]]
           toUnowned == [d \in Days |-> IF d \in Leaving(c) THEN Absent ELSE usage[Unowned][d]]
<1>1. /\ w \in Owners /\ w \in Who /\ Unowned \in Who /\ w # Unowned
      /\ usage \in [Who -> [Days -> Amounts]]
      /\ claim[c].amounts \in [Days -> Amounts]
      /\ \A d \in claim[c].merges : claim[c].amounts[d] # Absent /\ usage[w][d] # Absent
    BY UnownedAssumption DEF UsageInv, ReadInv, ClaimUsage, Who
<1>2. usage' = [usage EXCEPT ![w] = toAccount, ![Unowned] = toUnowned] /\ ~Collides(c)
    BY DEF ClaimUsage
<1>3. \A d \in Days : /\ usage[w][d] \in Amounts /\ usage[Unowned][d] \in Amounts
                      /\ claim[c].amounts[d] \in Amounts
    BY <1>1
<1>4. \A d \in claim[c].merges \cap Days :
          /\ usage[w][d] \in Nat /\ claim[c].amounts[d] \in Nat
          /\ toAccount[d] = usage[w][d] + claim[c].amounts[d]
          /\ toUnowned[d] = Absent
    BY <1>1, <1>3 DEF Amounts, SumOnRow, Leaving
<1>5. \A d \in Days \ claim[c].merges :
          \/ /\ usage[w][d] = Absent /\ usage[Unowned][d] # Absent
             /\ toAccount[d] = usage[Unowned][d] /\ toUnowned[d] = Absent
          \/ toAccount[d] = usage[w][d] /\ toUnowned[d] = usage[Unowned][d]
    BY <1>2 DEF Collides, Leaving
<1>6. toAccount \in [Days -> Amounts] /\ toUnowned \in [Days -> Amounts]
    <2>1. \A d \in Days : toAccount[d] \in Amounts /\ toUnowned[d] \in Amounts
        <3> HIDE DEF toAccount, toUnowned
        <3>1. ASSUME NEW d \in Days, d \in claim[c].merges
              PROVE  toAccount[d] \in Amounts /\ toUnowned[d] \in Amounts
            BY <1>4, <3>1 DEF Amounts
        <3>2. ASSUME NEW d \in Days, d \notin claim[c].merges
              PROVE  toAccount[d] \in Amounts /\ toUnowned[d] \in Amounts
            BY <1>3, <1>5, <3>2
        <3>3. QED BY <3>1, <3>2
    <2>2. QED BY <2>1
<1> HIDE DEF toAccount, toUnowned
<1>7. /\ usage'[w] = toAccount /\ usage'[Unowned] = toUnowned
      /\ usage' \in [Who -> [Days -> Amounts]]
      /\ \A x \in Who \ {w, Unowned} : usage'[x] = usage[x]
    BY <1>1, <1>2, <1>6
<1>8. ASSUME NEW d \in Days
      PROVE  \/ /\ d \in claim[c].merges
                /\ usage[w][d] \in Nat /\ claim[c].amounts[d] \in Nat
                /\ usage'[w][d] = usage[w][d] + claim[c].amounts[d]
                /\ usage'[Unowned][d] = Absent
             \/ /\ d \notin claim[c].merges
                /\ usage[w][d] = Absent /\ usage[Unowned][d] # Absent
                /\ usage'[w][d] = usage[Unowned][d]
                /\ usage'[Unowned][d] = Absent
             \/ /\ d \notin claim[c].merges
                /\ usage'[w][d] = usage[w][d]
                /\ usage'[Unowned][d] = usage[Unowned][d]
    BY <1>4, <1>5, <1>7
<1>9. QED BY <1>1, <1>7, <1>8

\* So it conserves the total, when the rows it merges are as it read them.
LEMMA ClaimConserves ==
    ASSUME UsageInv, NEW c \in Claims, ClaimUsage(c),
           \A d \in claim[c].merges : usage[Unowned][d] = claim[c].amounts[d]
    PROVE  OnTable(usage') = OnTable(usage)
<1> DEFINE w == claim[c].for
           f == [row \in Rows |-> IF usage[row[1]][row[2]] = Absent THEN 0
                                  ELSE usage[row[1]][row[2]]]
           g == [row \in Rows |-> IF usage'[row[1]][row[2]] = Absent THEN 0
                                  ELSE usage'[row[1]][row[2]]]
<1>1. usage \in [Who -> [Days -> Amounts]]
    BY DEF UsageInv
<1>2. /\ w \in Who /\ Unowned \in Who /\ w # Unowned
      /\ usage' \in [Who -> [Days -> Amounts]]
      /\ \A x \in Who \ {w, Unowned} : usage'[x] = usage[x]
    BY ClaimWrites
<1>3. \A r \in Rows : f[r] \in Int /\ g[r] \in Int
    BY <1>1, <1>2 DEF Rows, Amounts
<1>4. \A x \in Who, d \in Days :
          /\ f[<<x, d>>] = IF usage[x][d] = Absent THEN 0 ELSE usage[x][d]
          /\ g[<<x, d>>] = IF usage'[x][d] = Absent THEN 0 ELSE usage'[x][d]
    BY DEF Rows
<1>5. ASSUME NEW d \in Days
      PROVE  f[<<w, d>>] + f[<<Unowned, d>>] = g[<<w, d>>] + g[<<Unowned, d>>]
    <2>1. usage[w][d] \in Amounts /\ usage[Unowned][d] \in Amounts
        BY <1>1, <1>2
    <2>2. \/ /\ d \in claim[c].merges
             /\ usage[w][d] \in Nat /\ claim[c].amounts[d] \in Nat
             /\ usage'[w][d] = usage[w][d] + claim[c].amounts[d]
             /\ usage'[Unowned][d] = Absent
          \/ /\ usage[w][d] = Absent
             /\ usage'[w][d] = usage[Unowned][d]
             /\ usage'[Unowned][d] = Absent
          \/ /\ usage'[w][d] = usage[w][d]
             /\ usage'[Unowned][d] = usage[Unowned][d]
        BY ClaimWrites
    <2>3. d \in claim[c].merges => usage[Unowned][d] = claim[c].amounts[d]
        OBVIOUS
    <2> HIDE DEF f, g, w
    <2>4. QED BY <1>2, <1>4, <2>1, <2>2, <2>3 DEF Amounts, Absent
<1>6. ASSUME NEW x \in Who \ {w, Unowned}, NEW d \in Days
      PROVE  g[<<x, d>>] = f[<<x, d>>]
    <2>1. x \in Who /\ usage'[x] = usage[x]
        BY <1>2
    <2>2. usage'[x][d] = usage[x][d]
        BY <2>1
    <2> HIDE DEF f, g, w
    <2>3. QED BY <1>4, <2>1, <2>2
<1>7. OnTable(usage) = SumFunctionOnSet(f, Rows) /\ OnTable(usage') = SumFunctionOnSet(g, Rows)
    BY DEF OnTable
<1>8. IsFiniteSet(Who) /\ IsFiniteSet(Days)
    BY TableAssumption, FS_AddElement DEF Who
<1> HIDE DEF f, g, w
<1>9. SumFunctionOnSet(g, Who \X Days) = SumFunctionOnSet(f, Who \X Days)
    <2>1. \A r \in Who \X Days : f[r] \in Int /\ g[r] \in Int
        BY <1>3 DEF Rows
    <2>2. QED BY <1>2, <1>5, <1>6, <1>8, <2>1, SumTransfer
<1>10. QED BY <1>7, <1>9 DEF Rows

LEMMA UsageInvInit == BackfillInit => UsageInv
<1> SUFFICES ASSUME BackfillInit PROVE UsageInv
    OBVIOUS
<1>1. /\ usage \in [Who -> [Days -> Amounts]] /\ flushed = 0 /\ DOMAIN claim = Claims
      /\ \A c \in Claims : claim[c].at = "idle"
      /\ \A w \in Who, d \in Days : usage[w][d] = Absent
    BY DEF BackfillInit, Amounts, NoClaim
<1>2. OnTable(usage) = 0
    <2> DEFINE f == [row \in Rows |-> IF usage[row[1]][row[2]] = Absent THEN 0
                                      ELSE usage[row[1]][row[2]]]
    <2>1. \A r \in Rows : f[r] = 0
        BY <1>1 DEF Rows
    <2>2. OnTable(usage) = SumFunctionOnSet(f, Rows)
        BY DEF OnTable
    <2> HIDE DEF f
    <2>3. QED BY <2>1, <2>2, RowsFinite, SumZero
<1>3. QED BY <1>1, <1>2, OnRowsIsSum DEF UsageInv, ReadInv, ClaimsConserveUsage

\* What a claim has read stays good when no row of an account is removed.
LEMMA ReadStays ==
    ASSUME UsageInv, NEW c \in Claims, claim'[c] = claim[c],
           \A w \in Owners, d \in Days : usage[w][d] # Absent => usage'[w][d] # Absent
    PROVE  ReadInv(c)'
<1>1. ReadInv(c)
    BY DEF UsageInv
<1>2. QED BY <1>1 DEF ReadInv

LEMMA UsageInvNext ==
    ASSUME UsageInv, [BackfillNext]_backfillVars
    PROVE  UsageInv'
<1>0. /\ usage \in [Who -> [Days -> Amounts]] /\ flushed \in Nat /\ DOMAIN claim = Claims
      /\ \A c \in Claims : ReadInv(c)
      /\ ~overtaken => OnTable(usage) = flushed
    BY OnRowsIsSum DEF UsageInv, ClaimsConserveUsage
\* A step that leaves the usage alone, and of the claims changes one at most.
<1>1. ASSUME UNCHANGED <<usage, flushed, overtaken>>, DOMAIN claim' = Claims,
             \A c \in Claims : claim'[c] = claim[c] \/ ReadInv(c)'
      PROVE  UsageInv'
    <2>1. \A c \in Claims : ReadInv(c)'
        BY <1>1, ReadStays
    <2>2. ClaimsConserveUsage'
        BY <1>0, <1>1, OnRowsIsSumNext DEF ClaimsConserveUsage
    <2>3. QED BY <1>0, <1>1, <2>1, <2>2 DEF UsageInv
<1>2. CASE (\E renamed \in BOOLEAN : MigrateKeys(renamed)) \/ UNCHANGED backfillVars
    BY <1>0, <1>1, <1>2 DEF MigrateKeys, backfillVars
<1>3. ASSUME NEW c \in Claims, ClaimKeys(c) \/ Stops(c)
      PROVE  UsageInv'
    <2>1. claim' = [claim EXCEPT ![c] = NoClaim] /\ UNCHANGED <<usage, flushed, overtaken>>
        BY <1>3 DEF ClaimKeys, Stops, KeepRest
    <2>2. claim'[c].at = "idle"
        BY <1>0, <2>1 DEF NoClaim
    <2>3. QED BY <1>0, <1>1, <2>1, <2>2 DEF ReadInv
<1>4. ASSUME NEW c \in Claims, NEW w \in Owners, NEW keys \in SUBSET OldKeys, ReadKeys(c, w, keys)
      PROVE  UsageInv'
    <2>1. /\ claim' = [claim EXCEPT ![c] = [NoClaim EXCEPT !.at = "keys", !.for = w, !.keys = keys]]
          /\ UNCHANGED <<usage, flushed, overtaken>>
        BY <1>4 DEF ReadKeys, KeepRest
    <2>2. claim'[c].at = "keys"
        BY <1>0, <2>1 DEF NoClaim
    <2>3. QED BY <1>0, <1>1, <2>1, <2>2 DEF ReadInv
<1>5. ASSUME NEW c \in Claims, NEW w \in Owners, NEW days \in SUBSET Days, NEW merge \in BOOLEAN,
             ReadUsage(c, w, days, merge)
      PROVE  UsageInv'
    <2> DEFINE rows == {d \in days : usage[Unowned][d] # Absent}
               there == {d \in rows : usage[w][d] # Absent}
               moves == rows \ there
               merges == IF merge THEN there ELSE {}
    <2>1. /\ claim' = [claim EXCEPT ![c] =
                [NoClaim EXCEPT !.at = "usage", !.for = w, !.moves = moves,
                                !.merges = merges, !.amounts = usage[Unowned]]]
          /\ UNCHANGED <<usage, flushed, overtaken>>
        BY <1>5 DEF ReadUsage, KeepRest
    <2>2. /\ merges \subseteq Days /\ moves \subseteq Days /\ merges \cap moves = {}
          /\ \A d \in merges : usage[Unowned][d] # Absent /\ usage[w][d] # Absent
          /\ usage[Unowned] \in [Days -> Amounts]
        BY <1>0 DEF Who
    <2> HIDE DEF moves, merges
    <2>3. /\ claim'[c].for = w /\ claim'[c].moves = moves /\ claim'[c].merges = merges
          /\ claim'[c].amounts = usage[Unowned]
        BY <1>0, <2>1 DEF NoClaim
    <2>4. ReadInv(c)'
        BY <2>1, <2>2, <2>3 DEF ReadInv
    <2>5. QED BY <1>0, <1>1, <2>1, <2>4
<1>6. ASSUME NEW w \in Who, NEW d \in Days, Tick(w, d)
      PROVE  UsageInv'
    <2>1. /\ usage' = [usage EXCEPT ![w][d] = Plus(@, 1)]
          /\ flushed' = flushed + 1 /\ UNCHANGED <<claim, overtaken>>
        BY <1>6 DEF Tick
    <2>2. Plus(usage[w][d], 1) \in Nat
        <3>1. usage[w][d] \in Amounts
            BY <1>0
        <3>2. QED BY <3>1 DEF Plus, Amounts, Absent
    <2>3. /\ usage' \in [Who -> [Days -> Amounts]]
          /\ usage'[w][d] = Plus(usage[w][d], 1)
          /\ \A x \in Who, e \in Days : <<x, e>> # <<w, d>> => usage'[x][e] = usage[x][e]
        BY <1>0, <2>1, <2>2 DEF Amounts
    <2>4. OnTable(usage') = OnTable(usage) + 1
        BY <1>0, <2>3, TickAdds
    <2>5. ClaimsConserveUsage'
        BY <1>0, <2>1, <2>4, OnRowsIsSumNext DEF ClaimsConserveUsage
    <2>6. \A x \in Owners, e \in Days : usage[x][e] # Absent => usage'[x][e] # Absent
        <3>1. Plus(usage[w][d], 1) # Absent
            BY <2>2 DEF Absent
        <3>2. QED BY <2>3, <3>1 DEF Who
    <2>7. \A c \in Claims : ReadInv(c)'
        BY <2>1, <2>6, ReadStays
    <2>8. QED BY <1>0, <2>1, <2>3, <2>5, <2>7 DEF UsageInv
<1>7. ASSUME NEW c \in Claims, ClaimUsage(c)
      PROVE  UsageInv'
    <2> DEFINE w == claim[c].for
    <2>1. /\ claim' = [claim EXCEPT ![c] = NoClaim] /\ flushed' = flushed
          /\ overtaken' = (overtaken \/ \E d \in claim[c].merges : usage[Unowned][d] # claim[c].amounts[d])
        BY <1>7 DEF ClaimUsage, KeepRest
    <2>2. /\ w \in Owners /\ w # Unowned
          /\ usage' \in [Who -> [Days -> Amounts]]
          /\ \A x \in Who \ {w, Unowned} : usage'[x] = usage[x]
        BY <1>7, ClaimWrites
    <2>3. \A d \in Days : usage[w][d] # Absent => usage'[w][d] # Absent
        <3> SUFFICES ASSUME NEW d \in Days, usage[w][d] # Absent PROVE usage'[w][d] # Absent
            OBVIOUS
        <3>1. \/ /\ usage[w][d] \in Nat /\ claim[c].amounts[d] \in Nat
                 /\ usage'[w][d] = usage[w][d] + claim[c].amounts[d]
              \/ usage'[w][d] = usage[w][d]
            BY <1>7, ClaimWrites
        <3>2. QED BY <3>1 DEF Absent
    <2>4. \A x \in Owners, d \in Days : usage[x][d] # Absent => usage'[x][d] # Absent
        BY <2>2, <2>3, UnownedAssumption DEF Who
    <2>5. \A b \in Claims : ReadInv(b)'
        <3>1. claim'[c].at = "idle"
            BY <1>0, <2>1 DEF NoClaim
        <3>2. \A b \in Claims \ {c} : claim'[b] = claim[b]
            BY <1>0, <2>1
        <3>3. \A b \in Claims \ {c} : ReadInv(b)'
            BY <2>4, <3>2, ReadStays
        <3>4. ReadInv(c)'
            BY <3>1 DEF ReadInv
        <3>5. QED BY <3>3, <3>4
    <2>6. ClaimsConserveUsage'
        <3> SUFFICES ASSUME ~overtaken' PROVE OnTable(usage') = flushed'
            BY OnRowsIsSumNext DEF ClaimsConserveUsage
        <3>1. ~overtaken /\ \A d \in claim[c].merges : usage[Unowned][d] = claim[c].amounts[d]
            BY <2>1
        <3>2. OnTable(usage') = OnTable(usage)
            BY <1>7, <3>1, ClaimConserves
        <3>3. QED BY <1>0, <2>1, <3>1, <3>2
    <2>7. QED BY <1>0, <2>1, <2>2, <2>5, <2>6 DEF UsageInv
<1>8. QED
    BY <1>2, <1>3, <1>4, <1>5, <1>6, <1>7 DEF BackfillNext

\* ClaimsConserveUsage for any number of accounts, days and claims, whatever
\* the amounts: as long as no claim merges a row that has moved on since it
\* was read, claims, collisions, crashes and reruns create and lose no usage.
THEOREM UsageConserved == BackfillSpec => []ClaimsConserveUsage
<1>1. BackfillInit => UsageInv
    BY UsageInvInit
<1>2. UsageInv /\ [BackfillNext]_backfillVars => UsageInv'
    BY UsageInvNext
<1>3. UsageInv => ClaimsConserveUsage
    BY DEF UsageInv
<1>4. QED BY <1>1, <1>2, <1>3, PTL DEF BackfillSpec
===============================================================================
