---------------------------- MODULE ApiRequests ----------------------------
(***************************************************************************)
(* What the handlers of the API share: the table of accounts, the tokens   *)
(* the server has signed, the guards every request passes, and the life of *)
(* a request, which advances one await at a time and ends with a status.   *)
(*                                                                         *)
(* Left out: names, passwords and the DTOs' checks of their form, and the  *)
(* role MANAGER, which every check of the API treats like USER.  A request *)
(* that a guard turns away changes nothing and is not modelled.            *)
(***************************************************************************)
EXTENDS Integers, FiniteSets

CONSTANTS
    Users,       \* ids of the accounts that may ever exist, never used twice
    Emails,      \* e-mail addresses, normalised
    Requests,    \* request handlers: that many requests run at a time
    AccessLife,  \* JWT_EXPIRES_IN
    RefreshLife, \* JWT_REFRESH_EXPIRES_IN
    MaxTime,     \* bound: the clock runs from 0 to MaxTime
    Fresh,       \* an id of the account table that was not used yet
    Gone,        \* an id whose row was deleted
    NoEnd,       \* the NULL of the endDate column
    Keep,        \* a field an update leaves out
    NoData       \* a request handler that holds nothing

ASSUME TimeAssumption ==
    /\ AccessLife \in Nat \ {0} /\ RefreshLife \in Nat /\ MaxTime \in Nat
    /\ AccessLife <= RefreshLife

VARIABLES
    users,      \* the account table
    campaigns,  \* the campaign table
    sessions,   \* the pairs of access and refresh token signed so far
    now,        \* the clock; tokens carry the time they were signed at
    pc,         \* where each handler waits, or the status it answered
    req         \* what a waiting handler holds in its local variables

tables == <<users, campaigns>>

Role == {"ADMIN", "USER"}
Account == [email : Emails, role : Role]
ASSUME MarksAssumption == Fresh # Gone /\ {Fresh, Gone} \cap Account = {}

\* A session is the pair of tokens issueTokens signs with one payload.
\* Pairs of one user signed within a second are the same strings.
Session == [sub : Users, role : Role, iat : 0 .. MaxTime]

Answers == {"200", "400", "401", "403", "404", "409", "500", "cut"}

Exists(u) == users[u] \notin {Fresh, Gone}
IsAdmin(u) == Exists(u) /\ users[u].role = "ADMIN"
Admins == {u \in Users : IsAdmin(u)}
EmailsUnique ==
    \A u, v \in Users :
        Exists(u) /\ Exists(v) /\ users[u].email = users[v].email => u = v

\* Mutant of EmailTaken: the column email has no unique index.
EmailNeverTaken(e, u) == FALSE

EmailTaken(e, u) == \E v \in Users \ {u} : Exists(v) /\ users[v].email = e

\* JwtStrategy and verifyAsync: a token is good before its second of expiry.
AccessValid(s) == now < s.iat + AccessLife
RefreshValid(s) == now < s.iat + RefreshLife

\* JwtAuthGuard and RolesGuard: the role that counts is the token's.
Admitted == {s \in sessions : AccessValid(s)}
AdmittedAdmins == {s \in Admitted : s.role = "ADMIN"}

\* What waits for issueTokens.  History: admin is whether the row just read is
\* an administrator's; late marks a refresh that began when the logout of its
\* token had been answered.
Signee(u, role, late) ==
    [sub |-> u, role |-> role, admin |-> IsAdmin(u), late |-> late]

Idle(r) == pc[r] \in Answers
At(r, step) == pc[r] = step

Await(r, step, data) ==
    /\ pc' = [pc EXCEPT ![r] = step]
    /\ req' = [req EXCEPT ![r] = data]
Answer(r, status) == Await(r, status, NoData)
=============================================================================
