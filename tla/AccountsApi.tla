---------------------------- MODULE AccountsApi ----------------------------
(***************************************************************************)
(* The API as far as accounts and sessions go: clients log in, refresh and *)
(* log out while administrators create, edit and delete accounts, with the *)
(* rights their tokens were given.  No campaign exists here.               *)
(***************************************************************************)
EXTENDS Sessions, Accounts

VARIABLE lastAdmin  \* when each account was last in StillAdmins (history)

Never == -1
vars == <<users, campaigns, sessions, now, pc, req, revoked, ended, lastAdmin>>

\* The accounts that are ADMIN in the table, and those that were in the row a
\* request has read and not yet signed a token for.
StillAdmins ==
    {u \in Users :
        \/ IsAdmin(u)
        \/ \E r \in Requests : At(r, "sign") /\ req[r].sub = u /\ req[r].admin}

TypeOK ==
    /\ users \in [Users -> Account \union {Fresh, Gone}]
    /\ EmailsUnique
    /\ sessions \subseteq Session
    /\ \A s \in sessions : s.iat <= now /\ users[s.sub] # Fresh
    /\ revoked \subseteq ended /\ ended \subseteq sessions
    /\ now \in 0 .. MaxTime
    /\ lastAdmin \in [Users -> Never .. now]
    /\ \A u \in StillAdmins : lastAdmin[u] = now

----------------------------------------------------------------------------
Init ==
    /\ users \in [Users -> Account \union {Fresh}]
    /\ EmailsUnique /\ Admins # {}
    /\ campaigns = <<>>
    /\ sessions = {} /\ revoked = {} /\ ended = {}
    /\ now = 0
    /\ pc = [r \in Requests |-> "cut"]
    /\ req = [r \in Requests |-> NoData]
    /\ lastAdmin = [u \in Users |-> IF IsAdmin(u) THEN 0 ELSE Never]

Handle(r) ==
    \/ SessionStep(r)
    \/ AccountStep(r) /\ UNCHANGED <<revoked, ended>>

\* Time passes for the handlers too, between the row and the signature.
Tick ==
    /\ now < MaxTime
    /\ now' = now + 1
    /\ UNCHANGED <<tables, sessions, pc, req, revoked, ended>>

Next ==
    /\ \/ Tick
       \/ ApiRestart /\ UNCHANGED now
       \/ \E r \in Requests : Handle(r) /\ UNCHANGED now
    /\ lastAdmin' =
         [u \in Users |-> IF u \in StillAdmins' THEN now' ELSE lastAdmin[u]]

Spec == Init /\ [][Next]_vars

----------------------------------------------------------------------------
\* A refresh token whose logout this process has answered never yields a
\* session to a refresh that began later, also after the entry was pruned
\* from the map.  (auth.service.ts:180-186 and 200-208)
RevokedIsRejected == \A r \in Requests : At(r, "sign") => ~req[r].late

\* Whoever loses the role ADMIN, or the account, can do an administrator's
\* work for the life of one access token at most, counted from the loss, or
\* from the signature of the last request that had read the row before it
\* (bcrypt.compare and signAsync are awaited in between, for as long as they
\* take).  No refresh after that carries the rights over.
\* (auth.service.ts:80-88, 96-102 and 141-161)
StaleRightsExpire ==
    [][\A r \in Requests :
         Idle(r) /\ pc'[r] \in {"editUser", "deleteUser"}
            => now < lastAdmin[req'[r].by] + AccessLife]_vars

\* The table loses its last administrator only to somebody who is no longer
\* one: administrators cannot remove themselves, so this takes a token that
\* outlived the rights in it.  (users.service.ts:94 and 122)
LastAdminFallsToStaleToken ==
    [][\A r \in Requests :
         pc[r] \in {"editUser", "deleteUser"} /\ pc'[r] # pc[r]
             /\ Admins # {} /\ Admins' = {}
            => ~IsAdmin(req[r].by)]_vars

\* Every race two account requests can lose is answered as a conflict or as
\* not found, never as an internal error.  (users.service.ts:162-185)
RacesAreReported == \A r \in Requests : ~At(r, "500")
=============================================================================
