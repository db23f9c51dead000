------------------------- MODULE AccountsApiProofs -------------------------
(***************************************************************************)
(* Proofs about AccountsApi, for any number of accounts, addresses and     *)
(* requests and for all lifetimes of the tokens.                           *)
(*                                                                         *)
(* The invariant IInv adds to TypeOK what a waiting handler holds          *)
(* (HandlerOK) - that it signs the role ADMIN only if the row it read said *)
(* so -, that a token with the role ADMIN was signed no later than its     *)
(* account was last in StillAdmins (RolesOK), and that a session whose     *)
(* logout was answered is in the revocation map until it expires           *)
(* (LogoutsOK).                                                            *)
(***************************************************************************)
EXTENDS AccountsApi, TLAPS

Steps == (Answers \ {"500"}) \union
    {"sign", "verify", "register", "createUser", "editUser", "deleteUser"}

SignOK(r) ==
    /\ req[r].sub \in Users /\ req[r].role \in Role
    /\ users[req[r].sub] # Fresh
    /\ req[r].role = "ADMIN" => req[r].admin
    /\ ~req[r].late

VerifyOK(r) ==
    /\ req[r].s \in sessions
    /\ req[r].late => ~RefreshValid(req[r].s)

HandlerOK(r) ==
    /\ At(r, "sign") => SignOK(r)
    /\ At(r, "verify") => VerifyOK(r)
    /\ pc[r] \in {"register", "createUser"} => req[r] \in Account
    /\ At(r, "register") => req[r].role = "USER"
    /\ pc[r] \in {"editUser", "deleteUser"} =>
         req[r].by \in Users /\ req[r].id \in Users /\ req[r].by # req[r].id
    /\ At(r, "editUser") => req[r].change \in Change

HandlersOK ==
    /\ pc \in [Requests -> Steps]
    /\ req = [r \in Requests |-> req[r]]
    /\ \A r \in Requests : HandlerOK(r)

RolesOK ==
    \A s \in sessions : s.role = "ADMIN" => s.iat <= lastAdmin[s.sub]

LogoutsOK == \A s \in ended : RefreshValid(s) => s \in revoked

IInv == TypeOK /\ HandlersOK /\ RolesOK /\ LogoutsOK

LastAdminNext ==
    lastAdmin' =
      [u \in Users |-> IF u \in StillAdmins' THEN now' ELSE lastAdmin[u]]

----------------------------------------------------------------------------
LEMMA Initially == Init => IInv
<1> SUFFICES ASSUME Init PROVE IInv
    OBVIOUS
<1> USE TimeAssumption, MarksAssumption
<1>1. TypeOK
    BY DEF Init, TypeOK, StillAdmins, IsAdmin, Exists, Never, At
<1>2. HandlersOK
    BY DEF Init, HandlersOK, HandlerOK, Steps, Answers, At
<1>3. RolesOK /\ LogoutsOK
    BY DEF Init, RolesOK, LogoutsOK
<1> QED  BY <1>1, <1>2, <1>3 DEF IInv

\* lastAdmin never falls, and follows the table.
LEMMA LastAdminStep ==
    ASSUME IInv, now' \in 0 .. MaxTime, now <= now', LastAdminNext
    PROVE  /\ lastAdmin' \in [Users -> Never .. now']
           /\ \A u \in StillAdmins' : lastAdmin'[u] = now'
           /\ \A u \in Users : lastAdmin[u] <= lastAdmin'[u]
<1> USE TimeAssumption DEF IInv, TypeOK, Never
<1>1. lastAdmin \in [Users -> -1 .. now] /\ now \in Nat /\ now' \in Nat
    OBVIOUS
<1>2. ASSUME NEW u \in Users
      PROVE  /\ lastAdmin'[u] = IF u \in StillAdmins' THEN now' ELSE lastAdmin[u]
             /\ lastAdmin[u] \in -1 .. now
    BY <1>1 DEF LastAdminNext
<1>3. StillAdmins' \subseteq Users
    BY DEF StillAdmins
<1> QED  BY <1>1, <1>2, <1>3 DEF LastAdminNext

\* What a step of one handler has to show.
LEMMA HandlerStep ==
    ASSUME IInv, LastAdminNext, now' = now,
           NEW r \in Requests, NEW step \in Steps, NEW data,
           Await(r, step, data),
           users' \in [Users -> Account \union {Fresh, Gone}], EmailsUnique',
           \A u \in Users : users[u] # Fresh => users'[u] # Fresh,
           sessions \subseteq sessions', sessions' \subseteq Session,
           \A s \in sessions' \ sessions :
              /\ users'[s.sub] # Fresh /\ s.iat <= now
              /\ s.role = "ADMIN" => s.iat <= lastAdmin[s.sub],
           revoked' \subseteq ended', ended' \subseteq sessions',
           \A s \in ended' : RefreshValid(s) => s \in revoked',
           HandlerOK(r)'
    PROVE  IInv'
<1> USE TimeAssumption
<1>1. /\ lastAdmin' \in [Users -> Never .. now']
      /\ \A u \in StillAdmins' : lastAdmin'[u] = now'
      /\ \A u \in Users : lastAdmin[u] <= lastAdmin'[u]
    BY LastAdminStep DEF IInv, TypeOK
<1>2. \A s \in sessions' : s.sub \in Users /\ s.iat \in Int
    BY DEF Session
<1>3. TypeOK'
    BY <1>1, <1>2 DEF IInv, TypeOK
<1>4. \A u \in Users : lastAdmin[u] \in Int /\ lastAdmin'[u] \in Int
    BY <1>1 DEF IInv, TypeOK, Never
<1>5. RolesOK'
    BY <1>1, <1>2, <1>4 DEF IInv, RolesOK
<1>6. LogoutsOK'
    BY DEF LogoutsOK, RefreshValid
<1>7. HandlersOK'
  <2>1. /\ pc' = [pc EXCEPT ![r] = step] /\ pc' \in [Requests -> Steps]
        /\ req' = [req EXCEPT ![r] = data]
        /\ req' = [q \in Requests |-> req'[q]]
      BY DEF IInv, HandlersOK, Await
  <2>2. ASSUME NEW q \in Requests, q # r PROVE HandlerOK(q)'
    <3>1. pc'[q] = pc[q] /\ req'[q] = req[q] /\ HandlerOK(q)
        BY <2>1, <2>2 DEF IInv, HandlersOK
    <3>2. At(q, "sign") => SignOK(q)'
        BY <3>1 DEF HandlerOK, SignOK
    <3>3. At(q, "verify") => VerifyOK(q)'
        BY <3>1 DEF HandlerOK, VerifyOK, RefreshValid
    <3> QED  BY <3>1, <3>2, <3>3 DEF HandlerOK, At
  <2> QED  BY <2>1, <2>2 DEF HandlersOK
<1> QED  BY <1>3, <1>5, <1>6, <1>7 DEF IInv

\* The same for a handler that touches neither a table nor the sessions.
LEMMA ReadingStep ==
    ASSUME IInv, LastAdminNext, now' = now, NEW r \in Requests,
           NEW step \in Steps, NEW data, Await(r, step, data),
           users' = users, sessions' = sessions,
           revoked' \subseteq ended', ended' \subseteq sessions,
           \A s \in ended' : RefreshValid(s) => s \in revoked',
           HandlerOK(r)'
    PROVE  IInv'
<1>1. EmailsUnique'
    BY DEF IInv, TypeOK, EmailsUnique, Exists
<1> QED  BY <1>1, HandlerStep DEF IInv, TypeOK

----------------------------------------------------------------------------
LEMMA SessionPreserves ==
    ASSUME IInv, LastAdminNext, now' = now, NEW r \in Requests, SessionStep(r)
    PROVE  IInv'
<1> USE TimeAssumption, MarksAssumption
<1>0. /\ \A u \in Users : Exists(u) =>
            users[u] \in Account /\ users[u].role \in Role
      /\ revoked \subseteq ended /\ ended \subseteq sessions
      /\ \A s \in sessions : s.sub \in Users
    BY DEF IInv, TypeOK, Exists, Account, Session
<1>f. ASSUME NEW step, NEW data, Await(r, step, data)
      PROVE  pc'[r] = step /\ req'[r] = data
    BY <1>f DEF IInv, HandlersOK, Await
<1>i. ASSUME NEW status \in Answers \ {"500"}, Answer(r, status)
      PROVE  /\ status \in Steps /\ Await(r, status, NoData)
             /\ HandlerOK(r)'
    BY <1>i, <1>f DEF Answer, Answers, Steps, HandlerOK, At
<1>s. ASSUME NEW u \in Users, NEW role \in Role, NEW late, ~late,
             users[u] # Fresh, role = "ADMIN" => IsAdmin(u),
             users' = users, Await(r, "sign", Signee(u, role, late))
      PROVE  HandlerOK(r)' /\ "sign" \in Steps
  <2>1. /\ pc'[r] = "sign"
        /\ req'[r] = [sub |-> u, role |-> role, admin |-> IsAdmin(u),
                      late |-> late]
      BY <1>s, <1>f DEF Signee
  <2>2. SignOK(r)'
      BY <1>s, <2>1 DEF SignOK
  <2> QED  BY <2>1, <2>2 DEF HandlerOK, At, Steps
<1>1. CASE Login(r)
  <2>1. CASE Answer(r, "401")
      BY <1>1, <2>1, <1>0, <1>i, ReadingStep
      DEF Login, Answers, tables, IInv, LogoutsOK
  <2>2. ASSUME NEW u \in Users, Exists(u),
               Await(r, "sign", Signee(u, users[u].role, FALSE))
        PROVE  IInv'
    <3>1. HandlerOK(r)' /\ "sign" \in Steps
        BY <1>1, <2>2, <1>0, <1>s DEF Login, tables, Exists, IsAdmin
    <3> QED  BY <1>1, <2>2, <3>1, <1>0, ReadingStep
             DEF Login, tables, IInv, LogoutsOK
  <2> QED  BY <1>1, <2>1, <2>2 DEF Login
<1>2. CASE RefreshCheck(r)
  <2>1. /\ revoked' = Pruned /\ UNCHANGED <<tables, sessions, ended>>
        /\ revoked' \subseteq ended'
        /\ \A s \in ended' : RefreshValid(s) => s \in revoked'
      BY <1>2, <1>0 DEF RefreshCheck, Pruned, IInv, LogoutsOK
  <2>2. PICK s \in sessions :
          IF s \in Pruned THEN Answer(r, "401")
          ELSE Await(r, "verify", [s |-> s, late |-> s \in ended])
      BY <1>2 DEF RefreshCheck
  <2>3. CASE s \in Pruned
      BY <2>1, <2>2, <2>3, <1>0, <1>i, ReadingStep DEF Answers, tables
  <2>4. CASE s \notin Pruned
    <3>1. /\ pc'[r] = "verify"
          /\ req'[r] = [s |-> s, late |-> s \in ended]
        BY <2>2, <2>4, <1>f
    <3>2. s \in ended => ~RefreshValid(s)
        BY <2>4 DEF Pruned, IInv, LogoutsOK
    <3>a. ASSUME s \in ended
          PROVE  req'[r].s = s /\ (req'[r].late => ~RefreshValid(s))
      <4>1. (s \in ended) = TRUE
          BY <3>a, Zenon
      <4>2. req'[r] = [s |-> s, late |-> TRUE]
          BY <3>1, <4>1, Zenon
      <4> QED  BY <3>a, <3>2, <4>2
    <3>c. ASSUME s \notin ended
          PROVE  req'[r].s = s /\ (req'[r].late => ~RefreshValid(s))
      <4>1. (s \in ended) = FALSE
          BY <3>c
      <4>2. req'[r] = [s |-> s, late |-> FALSE]
          BY <3>1, <4>1, Zenon
      <4> QED  BY <4>2
    <3>b. req'[r].s = s /\ (req'[r].late => ~RefreshValid(s))
        BY <3>a, <3>c
    <3>3. VerifyOK(r)'
        BY <2>1, <3>b DEF VerifyOK, RefreshValid
    <3>4. HandlerOK(r)' /\ "verify" \in Steps
        BY <3>1, <3>3 DEF HandlerOK, At, Steps
    <3> QED  BY <2>1, <2>2, <2>4, <3>4, <1>0, ReadingStep DEF tables
  <2> QED  BY <2>3, <2>4
<1>3. CASE RefreshFind(r)
  <2> DEFINE s == req[r].s
  <2>1. VerifyOK(r)
      BY <1>3 DEF RefreshFind, IInv, HandlersOK, HandlerOK
  <2>2. CASE RefreshValid(s) /\ Exists(s.sub)
    <3>1. /\ Await(r, "sign", Signee(s.sub, users[s.sub].role, req[r].late))
          /\ ~req[r].late
        BY <1>3, <2>1, <2>2 DEF RefreshFind, VerifyOK, IssuedRole
    <3>2. HandlerOK(r)' /\ "sign" \in Steps
        BY <1>3, <2>1, <2>2, <3>1, <1>0, <1>s
        DEF RefreshFind, tables, Exists, IsAdmin, VerifyOK
    <3> QED  BY <1>3, <3>1, <3>2, <1>0, ReadingStep
             DEF RefreshFind, tables, IInv, LogoutsOK
  <2>3. CASE ~(RefreshValid(s) /\ Exists(s.sub))
    <3>1. Answer(r, "401")
        BY <1>3, <2>3 DEF RefreshFind
    <3> QED  BY <1>3, <3>1, <1>0, <1>i, ReadingStep
             DEF RefreshFind, Answers, tables, IInv, LogoutsOK
  <2> QED  BY <2>2, <2>3
<1>4. CASE Sign(r)
  <2> DEFINE s == [sub |-> req[r].sub, role |-> req[r].role, iat |-> now]
  <2>1. SignOK(r) /\ sessions' = sessions \union {s} /\ Answer(r, "200")
        /\ UNCHANGED <<users, campaigns, revoked, ended>>
      BY <1>4 DEF Sign, tables, IInv, HandlersOK, HandlerOK
  <2>2. s \in Session /\ users[s.sub] # Fresh
        /\ (s.role = "ADMIN" => s.iat <= lastAdmin[s.sub])
    <3>1. req[r].role = "ADMIN" => req[r].sub \in StillAdmins
        BY <1>4, <2>1 DEF SignOK, StillAdmins, Sign
    <3> QED  BY <2>1, <3>1 DEF SignOK, Session, IInv, TypeOK
  <2>3. EmailsUnique'
      BY <2>1 DEF IInv, TypeOK, EmailsUnique, Exists
  <2>4. \A t \in sessions' \ sessions :
          /\ users'[t.sub] # Fresh /\ t.iat <= now
          /\ t.role = "ADMIN" => t.iat <= lastAdmin[t.sub]
      BY <2>1, <2>2 DEF IInv, TypeOK
  <2> QED  BY <2>1, <2>2, <2>3, <2>4, <1>0, <1>i, HandlerStep
           DEF Answers, IInv, TypeOK, LogoutsOK
<1>5. CASE Logout(r)
  <2>1. PICK s \in sessions :
          /\ revoked' = IF RefreshValid(s) THEN Pruned \union {s} ELSE revoked
          /\ ended' = ended \union {s}
      BY <1>5 DEF Logout
  <2>2. /\ revoked' \subseteq ended' /\ ended' \subseteq sessions
        /\ \A t \in ended' : RefreshValid(t) => t \in revoked'
      BY <2>1, <1>0 DEF Pruned, IInv, LogoutsOK
  <2> QED  BY <1>5, <2>2, <1>i, ReadingStep DEF Logout, Answers, tables
<1> QED  BY <1>1, <1>2, <1>3, <1>4, <1>5 DEF SessionStep

LEMMA AccountPreserves ==
    ASSUME IInv, LastAdminNext, now' = now, NEW r \in Requests, AccountStep(r),
           UNCHANGED <<revoked, ended>>
    PROVE  IInv'
<1> USE TimeAssumption, MarksAssumption
<1>0. /\ \A u \in Users : Exists(u) => users[u] \in Account
      /\ revoked \subseteq ended /\ ended \subseteq sessions
      /\ \A s \in sessions : s.sub \in Users
    BY DEF IInv, TypeOK, Exists, Session
<1>a. \A s \in AdmittedAdmins : s.sub \in Users
    BY <1>0 DEF AdmittedAdmins, Admitted
<1>f. ASSUME NEW step, NEW data, Await(r, step, data)
      PROVE  pc'[r] = step /\ req'[r] = data
    BY <1>f DEF IInv, HandlersOK, Await
<1>i. ASSUME NEW status \in Answers \ {"500"}, Answer(r, status)
      PROVE  /\ status \in Steps /\ Await(r, status, NoData)
             /\ HandlerOK(r)'
    BY <1>i, <1>f DEF Answer, Answers, Steps, HandlerOK, At
<1>l. ended' \subseteq sessions /\ \A s \in ended' : RefreshValid(s) => s \in revoked'
    BY <1>0 DEF IInv, LogoutsOK
<1>r. ASSUME NEW step \in Steps, NEW data, Await(r, step, data),
             UNCHANGED <<tables, sessions>>, HandlerOK(r)'
      PROVE  IInv'
    BY <1>r, <1>l, <1>0, ReadingStep DEF tables
<1>e. ASSUME NEW status \in Answers \ {"500"}, Answer(r, status),
             UNCHANGED <<tables, sessions>>
      PROVE  IInv'
    BY <1>e, <1>i, <1>r
<1>w. ASSUME NEW u \in Users, NEW row, users' = [users EXCEPT ![u] = row],
             row = Gone \/ (row \in Account /\ ~EmailTaken(row.email, u)),
             sessions' = sessions, NEW step \in Steps, NEW data,
             Await(r, step, data), HandlerOK(r)'
      PROVE  IInv'
  <2>1. users' \in [Users -> Account \union {Fresh, Gone}] /\ row # Fresh
      BY <1>w DEF IInv, TypeOK
  <2>2. \A v \in Users : users'[v] = IF v = u THEN row ELSE users[v]
      BY <1>w DEF IInv, TypeOK
  <2>3. EmailsUnique'
      BY <1>w, <2>2 DEF IInv, TypeOK, EmailsUnique, EmailTaken, Exists
  <2>4. \A v \in Users : users[v] # Fresh => users'[v] # Fresh
      BY <2>1, <2>2
  <2> QED  BY <1>w, <1>l, <1>0, <2>1, <2>3, <2>4, HandlerStep DEF IInv, TypeOK
<1>1. CASE Register(r)
  <2>1. PICK e \in Emails :
          IF EmailTaken(e, NoData) THEN Answer(r, "409")
          ELSE Await(r, "register", [email |-> e, role |-> "USER"])
      BY <1>1 DEF Register
  <2>2. CASE Answer(r, "409")
      BY <1>1, <2>2, <1>e DEF Register, Answers
  <2>3. CASE Await(r, "register", [email |-> e, role |-> "USER"])
    <3>1. HandlerOK(r)' /\ "register" \in Steps
        BY <2>3, <1>f DEF HandlerOK, At, Steps, Account, Role
    <3> QED  BY <1>1, <2>3, <3>1, <1>r DEF Register
  <2> QED  BY <2>1, <2>2, <2>3
<1>2. CASE CreateUser(r)
  <2>1. PICK row \in Account : Await(r, "createUser", row)
      BY <1>2 DEF CreateUser
  <2>2. HandlerOK(r)' /\ "createUser" \in Steps
      BY <2>1, <1>f DEF HandlerOK, At, Steps
  <2> QED  BY <1>2, <2>1, <2>2, <1>r DEF CreateUser
<1>3. ASSUME NEW u \in Users, StoreAccount(r, u) PROVE IInv'
  <2>1. req[r] \in Account /\ (At(r, "register") => req[r].role = "USER")
      BY <1>3 DEF StoreAccount, IInv, HandlersOK, HandlerOK
  <2>2. CASE EmailTaken(req[r].email, u)
    <3>1. Answer(r, "409") /\ UNCHANGED <<tables, sessions>>
        BY <1>3, <2>2 DEF StoreAccount, HandleWriteError, tables
    <3> QED  BY <3>1, <1>e DEF Answers
  <2>3. CASE ~EmailTaken(req[r].email, u) /\ At(r, "register")
    <3>1. /\ users' = [users EXCEPT ![u] = req[r]] /\ sessions' = sessions
          /\ Await(r, "sign", Signee(u, "USER", FALSE))
        BY <1>3, <2>3 DEF StoreAccount
    <3>2. /\ pc'[r] = "sign"
          /\ req'[r] = [sub |-> u, role |-> "USER", admin |-> IsAdmin(u),
                        late |-> FALSE]
        BY <3>1, <1>f DEF Signee
    <3>3. users'[u] = req[r] /\ req[r] # Fresh
        BY <3>1, <2>1 DEF IInv, TypeOK
    <3>4. SignOK(r)'
        BY <3>2, <3>3 DEF SignOK, Role
    <3>5. HandlerOK(r)' /\ "sign" \in Steps
        BY <3>2, <3>4 DEF HandlerOK, At, Steps
    <3> QED  BY <3>1, <3>5, <2>1, <2>3, <1>w
  <2>4. CASE ~EmailTaken(req[r].email, u) /\ ~At(r, "register")
    <3>1. /\ users' = [users EXCEPT ![u] = req[r]] /\ sessions' = sessions
          /\ Answer(r, "200")
        BY <1>3, <2>4 DEF StoreAccount
    <3> QED  BY <3>1, <2>1, <2>4, <1>i, <1>w DEF Answers
  <2> QED  BY <2>2, <2>3, <2>4
<1>4. CASE EditUser(r)
  <2>1. PICK s \in AdmittedAdmins, id \in Users, change \in Change :
          IF OwnAccount(id, s.sub) THEN Answer(r, "403")
          ELSE Await(r, "editUser", [by |-> s.sub, id |-> id, change |-> change])
      BY <1>4 DEF EditUser
  <2>2. CASE OwnAccount(id, s.sub)
      BY <1>4, <2>1, <2>2, <1>e DEF EditUser, Answers
  <2>3. CASE ~OwnAccount(id, s.sub)
    <3>1. /\ pc'[r] = "editUser"
          /\ req'[r] = [by |-> s.sub, id |-> id, change |-> change]
        BY <2>1, <2>3, <1>f
    <3>2. HandlerOK(r)' /\ "editUser" \in Steps
        BY <3>1, <2>3, <1>a DEF HandlerOK, At, Steps, OwnAccount
    <3> QED  BY <1>4, <2>1, <2>3, <3>2, <1>r DEF EditUser
  <2> QED  BY <2>2, <2>3
<1>5. CASE DeleteUser(r)
  <2>1. PICK s \in AdmittedAdmins, id \in Users :
          IF OwnAccount(id, s.sub) THEN Answer(r, "403")
          ELSE Await(r, "deleteUser", [by |-> s.sub, id |-> id])
      BY <1>5 DEF DeleteUser
  <2>2. CASE OwnAccount(id, s.sub)
      BY <1>5, <2>1, <2>2, <1>e DEF DeleteUser, Answers
  <2>3. CASE ~OwnAccount(id, s.sub)
    <3>1. pc'[r] = "deleteUser" /\ req'[r] = [by |-> s.sub, id |-> id]
        BY <2>1, <2>3, <1>f
    <3>2. HandlerOK(r)' /\ "deleteUser" \in Steps
        BY <3>1, <2>3, <1>a DEF HandlerOK, At, Steps, OwnAccount
    <3> QED  BY <1>5, <2>1, <2>3, <3>2, <1>r DEF DeleteUser
  <2> QED  BY <2>2, <2>3
<1>6. CASE StoreChange(r)
  <2> DEFINE id == req[r].id
             row == Changed(users[id], req[r].change)
  <2>1. id \in Users /\ req[r].change \in Change
      BY <1>6 DEF StoreChange, IInv, HandlersOK, HandlerOK, At
  <2>2. CASE \E status \in {"404", "409"} : Answer(r, status) /\ UNCHANGED users
      BY <1>6, <2>2, <1>e DEF StoreChange, Answers, tables
  <2>3. CASE /\ Exists(id) /\ ~EmailTaken(row.email, id)
             /\ users' = [users EXCEPT ![id] = row] /\ Answer(r, "200")
    <3>1. row \in Account
        BY <2>1, <2>3, <1>0 DEF Changed, Account, Change
    <3> QED  BY <1>6, <2>1, <2>3, <3>1, <1>i, <1>w DEF StoreChange, Answers
  <2> QED  BY <1>6, <2>2, <2>3 DEF StoreChange, HandleWriteError
<1>7. CASE RemoveAccount(r)
  <2> DEFINE id == req[r].id
  <2>1. id \in Users
      BY <1>7 DEF RemoveAccount, IInv, HandlersOK, HandlerOK, At
  <2>2. CASE \E status \in {"404", "409"} : Answer(r, status) /\ UNCHANGED users
      BY <1>7, <2>2, <1>e DEF RemoveAccount, Answers, tables
  <2>3. CASE users' = [users EXCEPT ![id] = Gone] /\ Answer(r, "200")
      BY <1>7, <2>1, <2>3, <1>i, <1>w DEF RemoveAccount, Answers
  <2> QED  BY <1>7, <2>2, <2>3 DEF RemoveAccount, HandleWriteError
<1> QED  BY <1>1, <1>2, <1>3, <1>4, <1>5, <1>6, <1>7 DEF AccountStep

LEMMA RestartPreserves ==
    ASSUME IInv, LastAdminNext, now' = now, ApiRestart
    PROVE  IInv'
<1> USE TimeAssumption
<1>1. TypeOK'
    BY LastAdminStep
    DEF ApiRestart, tables, IInv, TypeOK, EmailsUnique, Exists
<1>2. HandlersOK'
    BY DEF ApiRestart, HandlersOK, HandlerOK, At, Steps, Answers
<1>3. \A u \in Users : lastAdmin[u] \in Int /\ lastAdmin'[u] \in Int
    BY <1>1 DEF IInv, TypeOK, Never
<1>4. RolesOK'
    BY <1>3, LastAdminStep
    DEF ApiRestart, tables, IInv, TypeOK, RolesOK, Session
<1>5. LogoutsOK'
    BY DEF ApiRestart, LogoutsOK
<1> QED  BY <1>1, <1>2, <1>4, <1>5 DEF IInv

LEMMA TickPreserves ==
    ASSUME IInv, LastAdminNext, Tick
    PROVE  IInv'
<1> USE TimeAssumption
<1>1. now' \in 0 .. MaxTime /\ now < now'
    BY DEF Tick, IInv, TypeOK
<1>2. \A s \in sessions : s.sub \in Users /\ s.iat \in Int
    BY DEF IInv, TypeOK, Session
<1>3. TypeOK'
    BY <1>1, <1>2, LastAdminStep
    DEF Tick, tables, IInv, TypeOK, EmailsUnique, Exists
<1>4. \A s \in sessions : RefreshValid(s)' => RefreshValid(s)
    BY <1>1, <1>2 DEF RefreshValid, IInv, TypeOK
<1>5. HandlersOK'
  <2>1. ASSUME NEW r \in Requests PROVE HandlerOK(r)'
    <3>1. /\ HandlerOK(r) /\ pc'[r] = pc[r] /\ req'[r] = req[r]
          /\ users' = users
        BY DEF Tick, tables, IInv, HandlersOK
    <3>2. At(r, "verify") => VerifyOK(r)'
        BY <3>1, <1>4 DEF Tick, HandlerOK, VerifyOK
    <3>3. At(r, "sign") => SignOK(r)'
        BY <3>1 DEF HandlerOK, SignOK
    <3> QED  BY <3>1, <3>2, <3>3 DEF HandlerOK, At
  <2> QED  BY <2>1 DEF Tick, IInv, HandlersOK
<1>6. \A u \in Users : lastAdmin[u] \in Int /\ lastAdmin'[u] \in Int
    BY <1>1, <1>3 DEF IInv, TypeOK, Never
<1>7. RolesOK'
    BY <1>1, <1>2, <1>6, LastAdminStep DEF Tick, IInv, TypeOK, RolesOK
<1>8. LogoutsOK'
    BY <1>4 DEF Tick, IInv, TypeOK, LogoutsOK
<1> QED  BY <1>3, <1>5, <1>7, <1>8 DEF IInv

LEMMA Preserved == IInv /\ [Next]_vars => IInv'
<1> SUFFICES ASSUME IInv, [Next]_vars PROVE IInv'
    OBVIOUS
<1>1. CASE Next
  <2>1. LastAdminNext
      BY <1>1 DEF Next, LastAdminNext
  <2> QED  BY <1>1, <2>1, SessionPreserves, AccountPreserves,
              RestartPreserves, TickPreserves DEF Next, Handle
<1>2. CASE UNCHANGED vars
    BY <1>2 DEF vars, IInv, TypeOK, HandlersOK, RolesOK, LogoutsOK, HandlerOK,
       SignOK, VerifyOK, At, RefreshValid, EmailsUnique, Exists, StillAdmins, IsAdmin
<1> QED  BY <1>1, <1>2

LEMMA Invariance == Spec => []IInv
BY Initially, Preserved, PTL DEF Spec

----------------------------------------------------------------------------
\* Whatever requests run and whenever the API restarts, the two tables, the
\* revocations and the history keep their types, no address is used twice,
\* and no account has a session before it has a row.
THEOREM TypeCorrect == Spec => []TypeOK
<1>1. IInv => TypeOK
    BY DEF IInv
<1> QED  BY <1>1, Invariance, PTL

\* A revoked refresh token never yields a session to a refresh that began
\* later, for all lifetimes and any pruning of the map.
THEOREM Revocation == Spec => []RevokedIsRejected
<1>1. IInv => RevokedIsRejected
    BY DEF IInv, HandlersOK, HandlerOK, SignOK, RevokedIsRejected
<1> QED  BY <1>1, Invariance, PTL

\* No race between requests about accounts ends in an internal error.
THEOREM Races == Spec => []RacesAreReported
<1>1. IInv => RacesAreReported
    BY DEF IInv, HandlersOK, Steps, Answers, RacesAreReported, At
<1> QED  BY <1>1, Invariance, PTL

\* A handler that is at work was entered by its own guard: no other step
\* moves it there.
LEMMA EntersAdminWork ==
    ASSUME IInv, Next, NEW r \in Requests, Idle(r),
           pc'[r] \in {"editUser", "deleteUser"}
    PROVE  \E s \in AdmittedAdmins : req'[r].by = s.sub
<1>1. pc[r] \in Answers /\ pc'[r] # pc[r] /\ pc'[r] \notin Answers
    BY DEF Idle, Answers
<1>2. PICK q \in Requests : SessionStep(q) \/ AccountStep(q)
    BY <1>1 DEF Next, Handle, Tick, ApiRestart, Answers
<1>3. ASSUME NEW step, NEW data, Await(q, step, data)
      PROVE  /\ pc'[q] = step /\ req'[q] = data
             /\ \A p \in Requests \ {q} : pc'[p] = pc[p]
    BY <1>3 DEF IInv, HandlersOK, Await
<1>4. CASE EditUser(q)
  <2>1. PICK s \in AdmittedAdmins, id \in Users, change \in Change :
          IF OwnAccount(id, s.sub) THEN Answer(q, "403")
          ELSE Await(q, "editUser", [by |-> s.sub, id |-> id, change |-> change])
      BY <1>4 DEF EditUser
  <2>2. CASE OwnAccount(id, s.sub)
      BY <1>1, <1>3, <2>1, <2>2 DEF Answer, Answers
  <2>3. CASE ~OwnAccount(id, s.sub)
    <3>1. Await(q, "editUser", [by |-> s.sub, id |-> id, change |-> change])
        BY <2>1, <2>3
    <3> QED  BY <1>1, <1>3, <3>1
  <2> QED  BY <2>2, <2>3
<1>5. CASE DeleteUser(q)
  <2>1. PICK s \in AdmittedAdmins, id \in Users :
          IF OwnAccount(id, s.sub) THEN Answer(q, "403")
          ELSE Await(q, "deleteUser", [by |-> s.sub, id |-> id])
      BY <1>5 DEF DeleteUser
  <2>2. CASE OwnAccount(id, s.sub)
      BY <1>1, <1>3, <2>1, <2>2 DEF Answer, Answers
  <2>3. CASE ~OwnAccount(id, s.sub)
    <3>1. Await(q, "deleteUser", [by |-> s.sub, id |-> id])
        BY <2>1, <2>3
    <3> QED  BY <1>1, <1>3, <3>1
  <2> QED  BY <2>2, <2>3
<1>h. ASSUME NEW data,
             NEW step \in Answers \union {"sign", "verify", "register", "createUser"},
             Await(q, step, data)
      PROVE  FALSE
    BY <1>1, <1>3, <1>h DEF Answers
<1>6. CASE Login(q) \/ RefreshCheck(q) \/ RefreshFind(q)
    BY <1>6, <1>h DEF Login, RefreshCheck, RefreshFind, Answer, Answers
<1>7. CASE Sign(q) \/ Logout(q)
    BY <1>7, <1>h DEF Sign, Logout, Answer, Answers
<1>8. CASE Register(q) \/ CreateUser(q)
    BY <1>8, <1>h DEF Register, CreateUser, Answer, Answers
<1>9. ASSUME NEW u \in Users, StoreAccount(q, u) PROVE FALSE
    BY <1>9, <1>h DEF StoreAccount, Answer, Answers, HandleWriteError
<1>10. CASE StoreChange(q) \/ RemoveAccount(q)
    BY <1>10, <1>h DEF StoreChange, RemoveAccount, Answer, Answers, HandleWriteError
<1> QED  BY <1>2, <1>4, <1>5, <1>6, <1>7, <1>8, <1>9, <1>10
         DEF SessionStep, AccountStep

\* The work of an administrator is admitted for the life of an access token
\* after the account was last an administrator or a request that had read it
\* as one has signed, however long signing takes and whatever logins and
\* refreshes run beside it.
THEOREM StaleRights == Spec => StaleRightsExpire
<1>1. ASSUME IInv, [Next]_vars, NEW r \in Requests, Idle(r),
             pc'[r] \in {"editUser", "deleteUser"}
      PROVE  now < lastAdmin[req'[r].by] + AccessLife
  <2>1. Next
      BY <1>1 DEF vars, Idle, Answers
  <2>2. PICK s \in AdmittedAdmins : req'[r].by = s.sub
      BY <1>1, <2>1, EntersAdminWork
  <2>3. /\ s \in sessions /\ s.iat <= lastAdmin[s.sub]
        /\ now < s.iat + AccessLife
        /\ s.iat \in Int /\ lastAdmin[s.sub] \in Int
      BY <1>1 DEF AdmittedAdmins, Admitted, AccessValid, IInv, RolesOK,
                  TypeOK, Session, Never
  <2> QED  BY <1>1, <2>2, <2>3, TimeAssumption DEF IInv, TypeOK
<1>2. IInv /\ [Next]_vars =>
        [\A r \in Requests :
           Idle(r) /\ pc'[r] \in {"editUser", "deleteUser"}
              => now < lastAdmin[req'[r].by] + AccessLife]_vars
    BY <1>1
<1> QED  BY <1>2, Invariance, PTL DEF Spec, StaleRightsExpire

\* The last administrator is removed only by an account that is none.
THEOREM LastAdmin == Spec => LastAdminFallsToStaleToken
<1>1. ASSUME IInv, [Next]_vars, NEW r \in Requests,
             pc[r] \in {"editUser", "deleteUser"}, pc'[r] # pc[r],
             IsAdmin(req[r].by)
      PROVE  Admins' # {}
  <2>1. /\ req[r].by \in Users /\ req[r].id \in Users
        /\ req[r].by # req[r].id
      BY <1>1 DEF IInv, HandlersOK, HandlerOK
  <2>2. SUFFICES users'[req[r].by] = users[req[r].by]
      BY <1>1, <2>1, <2>2 DEF Admins, IsAdmin, Exists
  <2>3. CASE ApiRestart
      BY <2>3 DEF ApiRestart, tables
  <2>4. ASSUME NEW q \in Requests, SessionStep(q)
        PROVE  users'[req[r].by] = users[req[r].by]
      BY <2>4 DEF SessionStep, Login, RefreshCheck, RefreshFind, Sign, Logout,
                  tables
  <2>5. ASSUME NEW q \in Requests, AccountStep(q)
        PROVE  users'[req[r].by] = users[req[r].by]
    <3>1. CASE q # r
      <4>1. ASSUME NEW step, NEW data, Await(q, step, data) PROVE FALSE
          BY <1>1, <3>1, <4>1 DEF Await, IInv, HandlersOK
      <4> QED  BY <2>5, <4>1
               DEF AccountStep, Register, CreateUser, StoreAccount, EditUser,
                   StoreChange, DeleteUser, RemoveAccount, Answer
    <3>2. CASE q = r
      <4>1. StoreChange(r) \/ RemoveAccount(r)
          BY <1>1, <2>5, <3>2
          DEF AccountStep, Register, CreateUser, StoreAccount, EditUser,
              DeleteUser, Idle, Answers
      <4> QED  BY <1>1, <2>1, <4>1 DEF StoreChange, RemoveAccount, IInv, TypeOK
    <3> QED  BY <3>1, <3>2
  <2> QED  BY <1>1, <2>3, <2>4, <2>5 DEF Next, Handle, Tick, vars
<1>2. IInv /\ [Next]_vars =>
        [\A r \in Requests :
           pc[r] \in {"editUser", "deleteUser"} /\ pc'[r] # pc[r]
               /\ Admins # {} /\ Admins' = {}
              => ~IsAdmin(req[r].by)]_vars
    BY <1>1
<1> QED  BY <1>2, Invariance, PTL DEF Spec, LastAdminFallsToStaleToken
=============================================================================
