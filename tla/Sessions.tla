------------------------------ MODULE Sessions ------------------------------
(***************************************************************************)
(* AuthService and AuthController: login, refresh, logout, and the map of  *)
(* revoked refresh tokens, which lives in the memory of the API process.   *)
(***************************************************************************)
EXTENDS ApiRequests

CONSTANT MaxSessions  \* bound: that many different sessions are ever signed

VARIABLES
    revoked,  \* the keys of revokedRefreshTokens
    ended     \* the sessions whose logout this process answered (history)

\* pruneRevokedRefreshTokens.  The map keeps exp * 1000 with each token,
\* the instant at which the token expires.
\* Mutant of Pruned: the lifetime of an access token is remembered.
PrunedEarly == {s \in revoked : AccessValid(s)}

Pruned == {s \in revoked : RefreshValid(s)}

\* login: findByEmail and bcrypt.compare; a wrong password is a choice
Login(r) ==
    /\ Idle(r)
    /\ \/ \E u \in Users :
            /\ Exists(u)
            /\ Await(r, "sign", Signee(u, users[u].role, FALSE))
       \/ Answer(r, "401")
    /\ UNCHANGED <<tables, sessions, revoked, ended>>

\* Mutant of IssuedRole: the role is taken over from the refresh token.
RoleOfToken(s) == s.role

\* buildAuthResponse: refresh builds the new tokens from the row it reads
IssuedRole(s) == users[s.sub].role

\* refresh, up to verifyAsync: the revocation map is consulted first
RefreshCheck(r) ==
    /\ Idle(r)
    /\ revoked' = Pruned
    /\ \E s \in sessions :
         IF s \in Pruned
         THEN Answer(r, "401")
         ELSE Await(r, "verify", [s |-> s, late |-> s \in ended])
    /\ UNCHANGED <<tables, sessions, ended>>

\* refresh: verifyAsync, which looks only at the clock, and findById
RefreshFind(r) ==
    /\ At(r, "verify")
    /\ LET s == req[r].s IN
       IF RefreshValid(s) /\ Exists(s.sub)
       THEN Await(r, "sign", Signee(s.sub, IssuedRole(s), req[r].late))
       ELSE Answer(r, "401")
    /\ UNCHANGED <<tables, sessions, revoked, ended>>

\* issueTokens
Sign(r) ==
    LET s == [sub |-> req[r].sub, role |-> req[r].role, iat |-> now] IN
    /\ At(r, "sign")
    /\ Cardinality(sessions \union {s}) <= MaxSessions
    /\ sessions' = sessions \union {s}
    /\ Answer(r, "200")
    /\ UNCHANGED <<tables, revoked, ended>>

\* logout: nothing is read before verifyAsync, and nothing awaited after it
Logout(r) ==
    /\ Idle(r)
    /\ \E s \in sessions :
         /\ revoked' = IF RefreshValid(s) THEN Pruned \union {s} ELSE revoked
         /\ ended' = ended \union {s}
    /\ Answer(r, "200")
    /\ UNCHANGED <<tables, sessions>>

\* The process dies: the requests it was serving are cut off, the
\* revocations forgotten.
ApiRestart ==
    /\ revoked' = {} /\ ended' = {}
    /\ pc' = [r \in Requests |-> "cut"]
    /\ req' = [r \in Requests |-> NoData]
    /\ UNCHANGED <<tables, sessions>>

SessionStep(r) ==
    Login(r) \/ RefreshCheck(r) \/ RefreshFind(r) \/ Sign(r) \/ Logout(r)
=============================================================================
