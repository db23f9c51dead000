------------------------------ MODULE Accounts ------------------------------
(***************************************************************************)
(* UsersService and AuthService.register: administrators create, edit and  *)
(* delete accounts.  Every operation is admitted with the role inside the  *)
(* caller's token and writes after at least one await.                     *)
(***************************************************************************)
EXTENDS ApiRequests

\* Mutant of HandleWriteError: a row that has vanished is not thought of.
HandleConflicts(code) ==
    CASE code = "P2002" -> "409" [] code = "P2003" -> "409" [] OTHER -> "500"

\* The database's reason not to write: a unique index (P2002), a row that is
\* not there (P2025), a row that refers to this one (P2003)
HandleWriteError(code) ==
    CASE code = "P2002" -> "409" [] code = "P2025" -> "404"
      [] code = "P2003" -> "409" [] OTHER -> "500"

\* register looks for the address first, createManagedUser does not; both
\* hash the password before they write.
Register(r) ==
    /\ Idle(r) /\ AdmittedAdmins # {}
    /\ \E e \in Emails :
         IF EmailTaken(e, NoData)
         THEN Answer(r, "409")
         ELSE Await(r, "register", [email |-> e, role |-> "USER"])
    /\ UNCHANGED <<tables, sessions>>

CreateUser(r) ==
    /\ Idle(r) /\ AdmittedAdmins # {}
    /\ \E row \in Account : Await(r, "createUser", row)
    /\ UNCHANGED <<tables, sessions>>

\* prisma.user.create: the unique index on the address decides
StoreAccount(r, u) ==
    /\ pc[r] \in {"register", "createUser"}
    /\ users[u] = Fresh
    /\ IF EmailTaken(req[r].email, u)
       THEN Answer(r, HandleWriteError("P2002")) /\ UNCHANGED users
       ELSE /\ users' = [users EXCEPT ![u] = req[r]]
            /\ IF At(r, "register")
               THEN Await(r, "sign", Signee(u, "USER", FALSE))
               ELSE Answer(r, "200")
    /\ UNCHANGED <<campaigns, sessions>>

\* Mutant of OwnAccount: the operation does not compare the ids.
NobodysAccount(id, by) == FALSE

OwnAccount(id, by) == id = by

Change == [email : Emails \union {Keep}, role : Role \union {Keep}]

EditUser(r) ==
    /\ Idle(r)
    /\ \E s \in AdmittedAdmins, id \in Users, change \in Change :
         IF OwnAccount(id, s.sub)
         THEN Answer(r, "403")
         ELSE Await(r, "editUser", [by |-> s.sub, id |-> id, change |-> change])
    /\ UNCHANGED <<tables, sessions>>

DeleteUser(r) ==
    /\ Idle(r)
    /\ \E s \in AdmittedAdmins, id \in Users :
         IF OwnAccount(id, s.sub)
         THEN Answer(r, "403")
         ELSE Await(r, "deleteUser", [by |-> s.sub, id |-> id])
    /\ UNCHANGED <<tables, sessions>>

Changed(row, change) ==
    [email |-> IF change.email = Keep THEN row.email ELSE change.email,
     role |-> IF change.role = Keep THEN row.role ELSE change.role]

\* prisma.user.update
StoreChange(r) ==
    /\ At(r, "editUser")
    /\ LET id == req[r].id
           row == Changed(users[id], req[r].change)
       IN
       \/ ~Exists(id) /\ Answer(r, HandleWriteError("P2025")) /\ UNCHANGED users
       \/ /\ Exists(id) /\ EmailTaken(row.email, id)
          /\ Answer(r, HandleWriteError("P2002")) /\ UNCHANGED users
       \/ /\ Exists(id) /\ ~EmailTaken(row.email, id)
          /\ users' = [users EXCEPT ![id] = row] /\ Answer(r, "200")
    /\ UNCHANGED <<campaigns, sessions>>

\* Mutant of Owns: the foreign key does not restrict the deletion.
OwnsNothing(u) == FALSE

\* onDelete: Restrict
Owns(u) == \E c \in DOMAIN campaigns :
             campaigns[c] \notin {Fresh, Gone} /\ campaigns[c].owner = u

\* prisma.user.delete
RemoveAccount(r) ==
    /\ At(r, "deleteUser")
    /\ LET id == req[r].id IN
       \/ ~Exists(id) /\ Answer(r, HandleWriteError("P2025")) /\ UNCHANGED users
       \/ /\ Exists(id) /\ Owns(id)
          /\ Answer(r, HandleWriteError("P2003")) /\ UNCHANGED users
       \/ /\ Exists(id) /\ ~Owns(id)
          /\ users' = [users EXCEPT ![id] = Gone] /\ Answer(r, "200")
    /\ UNCHANGED <<campaigns, sessions>>

AccountStep(r) ==
    \/ Register(r) \/ CreateUser(r) \/ \E u \in Users : StoreAccount(r, u)
    \/ EditUser(r) \/ StoreChange(r) \/ DeleteUser(r) \/ RemoveAccount(r)
=============================================================================
