------------------------- MODULE CampaignsApiProofs -------------------------
(***************************************************************************)
(* Proofs about CampaignsApi, for any number of clients, campaigns and     *)
(* names, all lengths of a day and all time zones.                         *)
(*                                                                         *)
(* The invariant IInv adds to TypeOK that names are unique per owner and   *)
(* what a handler still knows when it comes to write (HandlerOK): the row  *)
(* it read is of the same owner if it is still there, and, unless a table  *)
(* changed since, all it checked holds.                                    *)
(***************************************************************************)
EXTENDS CampaignsApi, TLAPS

Steps == Answers \union {"create", "name", "update", "remove", "deleteUser"}

\* A request body after the DTO, and an update with fields left out
Body == [name : Names, start : Int, end : Int \union {NoEnd}]
Edit == [name : Names \union {Keep}, start : Int \union {Keep},
         end : Int \union {NoEnd, Keep}]

CreateOK(r) == req[r].by.sub \in Users /\ req[r].new \in Body

\* What update and remove know of the row they are going to write.
MayWrite(r) ==
    LET c == req[r].id IN
    /\ c \in Campaigns /\ campaigns[c] # Fresh
    /\ Stored(c) => Access(req[r].by, campaigns[c])
    /\ r \in raced \/ Stored(c)

Checked(r) ==
    LET c == req[r].id
        patch == req[r].patch
    IN
    /\ patch \in Edit
    /\ r \notin raced =>
         /\ req[r].owner = campaigns[c].owner
         /\ InRange(Value(patch.start, campaigns[c].start),
                    Value(patch.end, campaigns[c].end))

NameFree(r) ==
    LET c == req[r].id IN
    r \notin raced =>
        ~Taken(Value(req[r].patch.name, campaigns[c].name), campaigns[c].owner, c)

HandlerOK(r) ==
    /\ At(r, "create") => CreateOK(r)
    /\ pc[r] \in {"name", "update", "remove"} => MayWrite(r)
    /\ pc[r] \in {"name", "update"} => Checked(r)
    /\ At(r, "name") => req[r].patch.name # Keep
    /\ At(r, "update") => NameFree(r)
    /\ At(r, "deleteUser") => req[r].id \in Users

HandlersOK ==
    /\ pc \in [Requests -> Steps]
    /\ req = [r \in Requests |-> req[r]]
    /\ sessions \subseteq Session
    /\ \A r \in Requests : HandlerOK(r)

NamesUnique ==
    \A c \in Campaigns :
        Stored(c) => ~Taken(campaigns[c].name, campaigns[c].owner, c)

IInv == TypeOK /\ NamesUnique /\ HandlersOK

----------------------------------------------------------------------------
\* The form sends whole rows, whatever the time zones.
LEMMA SubmittedTyped ==
    ASSUME NEW editing PROVE Submitted(editing) \subseteq Body
<1>1. ASSUME NEW form \in Form PROVE Payload(form) \in Body
  <2>1. form.name \in Names /\ form.start \in Int
        /\ form.end \in Int \union {NoEnd}
      BY DayAssumption DEF Form
  <2>2. form.start # NoEnd
      BY <2>1, DayAssumption
  <2> QED  BY <2>1, <2>2, DayAssumption DEF Payload, ToLocalISO, Body
<1> QED  BY <1>1 DEF Submitted

LEMMA PatchTyped == Patch \subseteq Edit
<1>1. Submitted(TRUE) \subseteq Edit
  <2>1. Submitted(TRUE) \subseteq Body
      BY SubmittedTyped, Zenon
  <2>2. Body \subseteq Edit
      BY DEF Body, Edit
  <2> QED  BY <2>1, <2>2
<1>2. \A n \in Names : [Nothing EXCEPT !.name = n] \in Edit
    BY DEF Nothing, Edit
<1>3. \A t \in Dates : [Nothing EXCEPT !.start = t] \in Edit
    BY RowsAssumption DEF Nothing, Edit
<1>4. \A t \in Dates \union {NoEnd} : [Nothing EXCEPT !.end = t] \in Edit
    BY RowsAssumption DEF Nothing, Edit
<1> QED  BY <1>1, <1>2, <1>3, <1>4 DEF Patch

LEMMA DayOfMidnight ==
    ASSUME NEW d \in Int
    PROVE  d * DayLength \in Int /\ (d * DayLength) \div DayLength = d
BY DayAssumption

\* Opening a row in the form and saving it keeps its days, in every zone.
THEOREM RoundTrip ==
    ASSUME NEW row \in Campaign
    PROVE  FormOf(Payload(FormOf(row))) = FormOf(row)
<1>1. ASSUME NEW t \in Int \union {NoEnd}
      PROVE  ToDateInput(ToLocalISO(ToDateInput(t))) = ToDateInput(t)
  <2>1. CASE t = NoEnd
      BY <2>1 DEF ToDateInput, ToLocalISO
  <2>2. CASE t \in Int
    <3> DEFINE d == (t + BrowserZone) \div DayLength
    <3>1. d \in Int /\ ToDateInput(t) = d
        BY <2>2, DayAssumption DEF ToDateInput, Day
    <3>2. /\ d * DayLength \in Int
          /\ ToLocalISO(d) = d * DayLength - BrowserZone
          /\ ToLocalISO(d) \in Int
        BY <3>1, DayAssumption, DayOfMidnight DEF ToLocalISO
    <3> HIDE DEF d
    <3>3. ToLocalISO(d) + BrowserZone = d * DayLength
        BY <3>2, DayAssumption
    <3>4. ToDateInput(ToLocalISO(d)) = (d * DayLength) \div DayLength
        BY <3>2, <3>3, DayAssumption DEF ToDateInput, Day
    <3> QED  BY <3>1, <3>4, DayOfMidnight
  <2> QED  BY <2>1, <2>2
<1>2. row.start \in Int \union {NoEnd} /\ row.end \in Int \union {NoEnd}
    BY DEF Campaign
<1> QED  BY <1>1, <1>2 DEF FormOf, Payload

\* A browser in the server's time zone: what the form lets pass on a new
\* campaign, create does not refuse for its dates.  (validation.ts:103-116,
\* campaigns.service.ts:28-29)
THEOREM FormAgrees ==
    ASSUME BrowserZone = ServerZone, now \in Int,
           NEW form \in Form, FormValid(form, FALSE)
    PROVE  Accepted(Payload(form), Payload(form))
<1>1. ASSUME NEW d \in Int
      PROVE  ToLocalISO(d) \in Int /\ Day(ToLocalISO(d), ServerZone) = d
  <2> DEFINE midnight == d * DayLength
  <2>1. midnight \in Int /\ midnight \div DayLength = d
      BY DayOfMidnight
  <2>2. ToLocalISO(d) = midnight - BrowserZone
      BY DayAssumption DEF ToLocalISO
  <2> HIDE DEF midnight
  <2>3. ToLocalISO(d) + ServerZone = midnight
      BY <2>1, <2>2, DayAssumption
  <2> QED  BY <2>1, <2>2, <2>3, DayAssumption DEF Day
<1>2. Day(now, ServerZone) = TodayInput /\ TodayInput \in Int
    BY DayAssumption DEF TodayInput, Day
<1> DEFINE start == Payload(form).start
           end == Payload(form).end
<1>3. form.start \in Int /\ form.end \in Int \union {NoEnd}
    BY DayAssumption DEF Form
<1>4. start \in Int /\ Day(start, ServerZone) = form.start
    BY <1>1, <1>3 DEF Payload
<1>5. CASE form.end = NoEnd
  <2>1. end = NoEnd
      BY <1>5 DEF Payload, ToLocalISO
  <2> QED  BY <1>2, <1>4, <2>1, DayAssumption
           DEF Accepted, NotInPast, InRange, Value, FormValid
<1>6. CASE form.end \in Int
  <2>1. end \in Int /\ Day(end, ServerZone) = form.end /\ form.end # NoEnd
      BY <1>1, <1>6, DayAssumption DEF Payload
  <2> QED  BY <1>2, <1>4, <2>1
           DEF Accepted, NotInPast, InRange, Value, FormValid
<1> QED  BY <1>3, <1>5, <1>6

\* The days of every stored campaign survive the form.
LEMMA TypedRowsKeepDays == TypeOK => EditKeepsDays
BY RoundTrip, RowsAssumption DEF TypeOK, EditKeepsDays, Stored

----------------------------------------------------------------------------
LEMMA Initially == Init => IInv
<1> SUFFICES ASSUME Init PROVE IInv
    OBVIOUS
<1> USE TimeAssumption, MarksAssumption
<1>1. TypeOK
    BY DEF Init, TypeOK
<1>2. NamesUnique
    BY DEF Init, NamesUnique, Stored
<1>3. sessions \subseteq Session
    BY DEF Init, Session, Account
<1>4. HandlersOK
    BY <1>3 DEF Init, HandlersOK, HandlerOK, Steps, Answers, At
<1> QED  BY <1>1, <1>2, <1>4 DEF IInv

\* The handlers a step leaves alone know as much as before, or are raced.
RacedNext(r) ==
    raced' = (raced \ {r}) \union
               (IF UNCHANGED tables
                THEN IF pc'[r] \in Answers THEN {} ELSE raced \intersect {r}
                ELSE {x \in Requests \ {r} : ~Idle(x)})

\* How a step may change the campaign table.
RowsKept ==
    \A c \in Campaigns :
        /\ campaigns[c] # Fresh => campaigns'[c] # Fresh
        /\ campaigns[c] # Fresh /\ Stored(c)' =>
              Stored(c) /\ campaigns'[c].owner = campaigns[c].owner

LEMMA HandlerStep ==
    ASSUME IInv, NEW r \in Requests, NEW step \in Steps, NEW data,
           Await(r, step, data), RacedNext(r), UNCHANGED <<sessions, now>>,
           RowsKept, TypeOK', NamesUnique', HandlerOK(r)'
    PROVE  IInv'
<1>1. /\ pc' = [pc EXCEPT ![r] = step] /\ pc' \in [Requests -> Steps]
      /\ req' = [req EXCEPT ![r] = data]
      /\ req' = [q \in Requests |-> req'[q]]
    BY DEF IInv, HandlersOK, Await
<1>2. ASSUME NEW q \in Requests, q # r PROVE HandlerOK(q)'
  <2>1. pc'[q] = pc[q] /\ req'[q] = req[q] /\ HandlerOK(q)
      BY <1>1, <1>2 DEF IInv, HandlersOK
  <2>2. CASE UNCHANGED tables
    <3>1. users' = users /\ campaigns' = campaigns /\ (q \in raced' <=> q \in raced)
        BY <1>2, <2>2 DEF RacedNext, tables
    <3>2. pc[q] \in {"name", "update", "remove"} => MayWrite(q)'
        BY <2>1, <3>1 DEF HandlerOK, MayWrite, Stored
    <3>3. pc[q] \in {"name", "update"} => Checked(q)'
        BY <2>1, <3>1 DEF HandlerOK, Checked
    <3>4. At(q, "update") => NameFree(q)'
        BY <2>1, <3>1 DEF HandlerOK, NameFree, Taken, Stored
    <3> QED  BY <2>1, <3>2, <3>3, <3>4 DEF HandlerOK, CreateOK, At
  <2>3. CASE ~UNCHANGED tables
    <3>1. pc[q] \notin Answers => q \in raced'
        BY <1>2, <2>3 DEF RacedNext, Idle
    <3>2. pc[q] \in {"name", "update", "remove"} => MayWrite(q)'
      <4> SUFFICES ASSUME pc[q] \in {"name", "update", "remove"}
                   PROVE  MayWrite(q)'
          OBVIOUS
      <4>1. MayWrite(q) /\ q \in raced'
          BY <2>1, <3>1 DEF HandlerOK, Answers
      <4> QED  BY <2>1, <4>1 DEF MayWrite, RowsKept, Access
    <3>3. pc[q] \in {"name", "update"} => Checked(q)'
        BY <2>1, <3>1 DEF HandlerOK, Checked, Answers
    <3>4. At(q, "update") => NameFree(q)'
        BY <2>1, <3>1 DEF At, NameFree, Answers
    <3> QED  BY <2>1, <3>2, <3>3, <3>4 DEF HandlerOK, CreateOK, At
  <2> QED  BY <2>2, <2>3
<1> QED  BY <1>1, <1>2 DEF IInv, HandlersOK

\* The same for a handler that writes nothing.
LEMMA ReadingStep ==
    ASSUME IInv, NEW r \in Requests, NEW step \in Steps, NEW data,
           Await(r, step, data), RacedNext(r), UNCHANGED <<tables, sessions, now>>,
           HandlerOK(r)'
    PROVE  IInv'
<1>1. RowsKept
    BY DEF RowsKept, tables, Stored
<1>2. NamesUnique'
    BY DEF IInv, NamesUnique, Taken, Stored, tables
<1>3. raced' \subseteq Requests
    BY DEF RacedNext, IInv, TypeOK
<1>4. TypeOK'
    BY <1>3 DEF IInv, TypeOK, tables
<1> QED  BY <1>1, <1>2, <1>4, HandlerStep

\* An answer leaves nothing to know.
LEMMA Answered ==
    ASSUME IInv, NEW r \in Requests, NEW status \in Answers, Answer(r, status)
    PROVE  /\ pc'[r] = status /\ status \in Steps /\ Await(r, status, NoData)
           /\ HandlerOK(r)'
<1>1. pc'[r] = status /\ Await(r, status, NoData)
    BY DEF Answer, Await, IInv, HandlersOK
<1> QED  BY <1>1 DEF Answers, Steps, HandlerOK, At

LEMMA ReadingAnswer ==
    ASSUME IInv, NEW r \in Requests, NEW status \in Answers, Answer(r, status),
           RacedNext(r), UNCHANGED <<tables, sessions, now>>
    PROVE  IInv'
BY Answered, ReadingStep

----------------------------------------------------------------------------
LEMMA SessionsTyped ==
    ASSUME IInv, NEW s \in Admitted
    PROVE  s.sub \in Users /\ s \in Session
BY DEF IInv, HandlersOK, Admitted, Session

LEMMA CreatePreserves ==
    ASSUME IInv, NEW r \in Requests, Create(r), RacedNext(r),
           UNCHANGED <<sessions, now>>
    PROVE  IInv'
<1>1. PICK s \in Admitted,
           new \in Submitted(FALSE)
                    \union [name : Names, start : Dates, end : Dates \union {NoEnd}] :
        IF ~Accepted(new, new) THEN Answer(r, "400")
        ELSE IF Taken(new.name, s.sub, NoData) THEN Answer(r, "409")
        ELSE Await(r, "create", [by |-> s, new |-> new])
    BY DEF Create
<1>2. CASE \E status \in {"400", "409"} : Answer(r, status)
    BY <1>2, ReadingAnswer DEF Create, Answers
<1>3. CASE Await(r, "create", [by |-> s, new |-> new])
  <2>1. new \in Body
    <3>1. Submitted(FALSE) \subseteq Body
        BY SubmittedTyped, Zenon
    <3> QED  BY <3>1, <1>1, RowsAssumption DEF Body
  <2>2. pc'[r] = "create" /\ req'[r] = [by |-> s, new |-> new]
      BY <1>3 DEF Await, IInv, HandlersOK
  <2>3. HandlerOK(r)' /\ "create" \in Steps
      BY <2>1, <2>2, SessionsTyped DEF HandlerOK, CreateOK, At, Steps
  <2> QED  BY <1>3, <2>3, ReadingStep DEF Create
<1> QED  BY <1>1, <1>2, <1>3

LEMMA UpdatePreserves ==
    ASSUME IInv, NEW r \in Requests, Update(r), RacedNext(r),
           UNCHANGED <<sessions, now>>
    PROVE  IInv'
<1>1. PICK s \in Admitted, c \in Campaigns, patch \in Patch :
        \/ Answer(r, "404") \/ Answer(r, "403") \/ Answer(r, "400")
        \/ /\ Stored(c) /\ Access(s, campaigns[c])
           /\ Accepted(campaigns[c], patch)
           /\ Await(r, IF patch.name \in {Keep, campaigns[c].name}
                       THEN "update" ELSE "name",
                    [by |-> s, id |-> c, patch |-> patch,
                     owner |-> campaigns[c].owner])
    BY DEF Update
<1>2. CASE \E status \in {"400", "403", "404"} : Answer(r, status)
    BY <1>2, ReadingAnswer DEF Update, Answers
<1>3. CASE /\ Stored(c) /\ Access(s, campaigns[c])
           /\ Accepted(campaigns[c], patch)
           /\ Await(r, IF patch.name \in {Keep, campaigns[c].name}
                       THEN "update" ELSE "name",
                    [by |-> s, id |-> c, patch |-> patch,
                     owner |-> campaigns[c].owner])
  <2> DEFINE step == IF patch.name \in {Keep, campaigns[c].name}
                     THEN "update" ELSE "name"
  <2>1. /\ pc'[r] = step
        /\ req'[r] = [by |-> s, id |-> c, patch |-> patch,
                      owner |-> campaigns[c].owner]
      BY <1>3 DEF Await, IInv, HandlersOK
  <2>2. users' = users /\ campaigns' = campaigns
      BY DEF Update, tables
  <2>3. MayWrite(r)'
      BY <1>3, <2>1, <2>2 DEF MayWrite, Stored, Access
  <2>4. Checked(r)'
      BY <1>3, <2>1, <2>2, PatchTyped DEF Checked, Accepted
  <2>5. step = "name" => patch.name # Keep
      OBVIOUS
  <2>6. step = "update" => NameFree(r)'
    <3>1. step = "update" => Value(patch.name, campaigns[c].name) = campaigns[c].name
        BY DEF Value
    <3>2. ~Taken(campaigns[c].name, campaigns[c].owner, c)
        BY <1>3 DEF IInv, NamesUnique
    <3> QED  BY <2>1, <2>2, <3>1, <3>2 DEF NameFree, Taken, Stored
  <2>7. HandlerOK(r)' /\ step \in Steps
      BY <2>1, <2>3, <2>4, <2>5, <2>6 DEF HandlerOK, At, Steps
  <2> QED  BY <1>3, <2>7, ReadingStep DEF Update
<1> QED  BY <1>1, <1>2, <1>3

LEMMA UpdateNamePreserves ==
    ASSUME IInv, NEW r \in Requests, UpdateName(r), RacedNext(r),
           UNCHANGED <<sessions, now>>
    PROVE  IInv'
<1>1. MayWrite(r) /\ Checked(r) /\ req[r].patch.name # Keep
    BY DEF UpdateName, At, IInv, HandlersOK, HandlerOK
<1>2. CASE Answer(r, "409")
    BY <1>2, ReadingAnswer DEF UpdateName, Answers
<1>3. CASE /\ ~Taken(req[r].patch.name, req[r].owner, req[r].id)
           /\ Await(r, "update", req[r])
  <2>1. pc'[r] = "update" /\ req'[r] = req[r]
      BY <1>3 DEF Await, IInv, HandlersOK
  <2>2. /\ users' = users /\ campaigns' = campaigns
        /\ r \in raced' <=> r \in raced
      BY <2>1 DEF UpdateName, tables, RacedNext, Answers
  <2>3. MayWrite(r)' /\ Checked(r)'
      BY <1>1, <2>1, <2>2 DEF MayWrite, Checked, Stored
  <2>4. NameFree(r)'
      BY <1>1, <1>3, <2>1, <2>2
      DEF NameFree, Checked, Value, Taken, Stored
  <2>5. HandlerOK(r)' /\ "update" \in Steps
      BY <2>1, <2>3, <2>4 DEF HandlerOK, At, Steps
  <2> QED  BY <1>3, <2>5, ReadingStep DEF UpdateName
<1> QED  BY <1>2, <1>3 DEF UpdateName

LEMMA RemovePreserves ==
    ASSUME IInv, NEW r \in Requests, Remove(r), RacedNext(r),
           UNCHANGED <<sessions, now>>
    PROVE  IInv'
<1>1. PICK s \in Admitted, c \in Campaigns :
        \/ Answer(r, "404") \/ Answer(r, "403")
        \/ /\ Stored(c) /\ Access(s, campaigns[c])
           /\ Await(r, "remove", [by |-> s, id |-> c])
    BY DEF Remove
<1>2. CASE \E status \in {"403", "404"} : Answer(r, status)
    BY <1>2, ReadingAnswer DEF Remove, Answers
<1>3. CASE /\ Stored(c) /\ Access(s, campaigns[c])
           /\ Await(r, "remove", [by |-> s, id |-> c])
  <2>1. pc'[r] = "remove" /\ req'[r] = [by |-> s, id |-> c]
      BY <1>3 DEF Await, IInv, HandlersOK
  <2>2. MayWrite(r)'
      BY <1>3, <2>1 DEF Remove, tables, MayWrite, Stored, Access
  <2>3. HandlerOK(r)' /\ "remove" \in Steps
      BY <2>1, <2>2 DEF HandlerOK, At, Steps
  <2> QED  BY <1>3, <2>3, ReadingStep DEF Remove
<1> QED  BY <1>1, <1>2, <1>3

LEMMA DeleteUserPreserves ==
    ASSUME IInv, NEW r \in Requests, DeleteUser(r), RacedNext(r),
           UNCHANGED <<sessions, now>>
    PROVE  IInv'
<1>1. PICK s \in AdmittedAdmins, id \in Users :
        IF OwnAccount(id, s.sub) THEN Answer(r, "403")
        ELSE Await(r, "deleteUser", [by |-> s.sub, id |-> id])
    BY DEF DeleteUser
<1>2. CASE Answer(r, "403")
    BY <1>2, ReadingAnswer DEF DeleteUser, Answers
<1>3. CASE Await(r, "deleteUser", [by |-> s.sub, id |-> id])
  <2>1. pc'[r] = "deleteUser" /\ req'[r] = [by |-> s.sub, id |-> id]
      BY <1>3 DEF Await, IInv, HandlersOK
  <2>2. HandlerOK(r)' /\ "deleteUser" \in Steps
      BY <2>1 DEF HandlerOK, At, Steps
  <2> QED  BY <1>3, <2>2, ReadingStep DEF DeleteUser
<1> QED  BY <1>1, <1>2, <1>3

\* A write and its answer
LEMMA WritingAnswer ==
    ASSUME IInv, NEW r \in Requests, Answer(r, "200"), RacedNext(r),
           UNCHANGED <<sessions, now>>, RowsKept, NamesUnique',
           users' \in [Users -> Account \union {Gone}],
           campaigns' \in [Campaigns -> Campaign \union {Fresh, Gone}]
    PROVE  IInv'
<1>1. raced' \subseteq Requests
    BY DEF RacedNext, IInv, TypeOK
<1>2. TypeOK'
    BY <1>1 DEF IInv, TypeOK
<1>3. "200" \in Answers
    BY DEF Answers
<1> QED  BY <1>2, <1>3, Answered, HandlerStep

LEMMA StoreNewPreserves ==
    ASSUME IInv, NEW r \in Requests, NEW c \in Campaigns, StoreNew(r, c),
           RacedNext(r), UNCHANGED <<sessions, now>>
    PROVE  IInv'
<1> DEFINE owner == req[r].by.sub
           new == req[r].new
           row == [owner |-> owner, name |-> new.name,
                   start |-> new.start, end |-> new.end]
<1>1. CreateOK(r) /\ users' = users /\ campaigns[c] = Fresh
    BY DEF StoreNew, IInv, HandlersOK, HandlerOK
<1>2. CASE \E status \in {"409", "500"} : Answer(r, status) /\ UNCHANGED campaigns
    BY <1>1, <1>2, ReadingAnswer DEF Answers, tables
<1>3. CASE /\ ~Taken(new.name, owner, c) /\ Answer(r, "200")
           /\ campaigns' = [campaigns EXCEPT ![c] = row]
  <2>1. row \in Campaign /\ row \notin {Fresh, Gone}
      BY <1>1, RowsAssumption DEF CreateOK, Body, Campaign
  <2>2. \A d \in Campaigns : campaigns'[d] = IF d = c THEN row ELSE campaigns[d]
      BY <1>3 DEF IInv, TypeOK
  <2>3. campaigns' \in [Campaigns -> Campaign \union {Fresh, Gone}]
      BY <1>3, <2>1 DEF IInv, TypeOK
  <2>4. RowsKept
      BY <1>1, <2>1, <2>2 DEF RowsKept, Stored
  <2>5. NamesUnique'
      BY <1>3, <2>1, <2>2 DEF IInv, NamesUnique, Taken, Stored
  <2> QED  BY <1>1, <1>3, <2>3, <2>4, <2>5, WritingAnswer DEF IInv, TypeOK
<1> QED  BY <1>2, <1>3 DEF StoreNew

\* What StoreUpdate puts in the place of a row.
Merged(old, patch) ==
    [owner |-> old.owner, name |-> Value(patch.name, old.name),
     start |-> Value(patch.start, old.start), end |-> Value(patch.end, old.end)]

LEMMA StoreUpdatePreserves ==
    ASSUME IInv, NEW r \in Requests, StoreUpdate(r), RacedNext(r),
           UNCHANGED <<sessions, now>>
    PROVE  IInv'
<1> DEFINE c == req[r].id
           new == Merged(campaigns[c], req[r].patch)
<1>1. c \in Campaigns /\ req[r].patch \in Edit /\ users' = users
    BY DEF StoreUpdate, At, IInv, HandlersOK, HandlerOK, MayWrite, Checked
<1>2. CASE Answer(r, "500") /\ UNCHANGED campaigns
    BY <1>1, <1>2, ReadingAnswer DEF Answers, tables
<1>3. CASE /\ Stored(c) /\ ~Taken(new.name, new.owner, c)
           /\ campaigns' = [campaigns EXCEPT ![c] = new] /\ Answer(r, "200")
  <2>1. new \in Campaign /\ new \notin {Fresh, Gone}
        /\ new.owner = campaigns[c].owner
    <3>1. campaigns[c] \in Campaign
        BY <1>1, <1>3 DEF IInv, TypeOK, Stored
    <3> QED  BY <1>1, <3>1, RowsAssumption DEF Merged, Value, Edit, Campaign
  <2>2. \A d \in Campaigns : campaigns'[d] = IF d = c THEN new ELSE campaigns[d]
      BY <1>3 DEF IInv, TypeOK
  <2>3. campaigns' \in [Campaigns -> Campaign \union {Fresh, Gone}]
      BY <1>3, <2>1 DEF IInv, TypeOK
  <2> HIDE DEF new
  <2>4. RowsKept
      BY <1>3, <2>1, <2>2 DEF RowsKept, Stored
  <2>5. NamesUnique'
      BY <1>3, <2>1, <2>2 DEF IInv, NamesUnique, Taken, Stored
  <2> QED  BY <1>1, <1>3, <2>3, <2>4, <2>5, WritingAnswer DEF IInv, TypeOK
<1> QED  BY <1>2, <1>3 DEF StoreUpdate, Merged

LEMMA StoreRemovePreserves ==
    ASSUME IInv, NEW r \in Requests, StoreRemove(r), RacedNext(r),
           UNCHANGED <<sessions, now>>
    PROVE  IInv'
<1> DEFINE c == req[r].id
<1>1. c \in Campaigns /\ users' = users
    BY DEF StoreRemove, At, IInv, HandlersOK, HandlerOK, MayWrite
<1>2. CASE Answer(r, "500") /\ UNCHANGED campaigns
    BY <1>1, <1>2, ReadingAnswer DEF Answers, tables
<1>3. CASE campaigns' = [campaigns EXCEPT ![c] = Gone] /\ Answer(r, "200")
  <2>1. \A d \in Campaigns : campaigns'[d] = IF d = c THEN Gone ELSE campaigns[d]
      BY <1>3 DEF IInv, TypeOK
  <2>2. RowsKept
      BY <2>1, MarksAssumption DEF RowsKept, Stored
  <2>3. NamesUnique'
      BY <2>1 DEF IInv, NamesUnique, Taken, Stored
  <2> QED  BY <1>1, <1>3, <2>2, <2>3, WritingAnswer DEF IInv, TypeOK
<1> QED  BY <1>2, <1>3 DEF StoreRemove

LEMMA RemoveAccountPreserves ==
    ASSUME IInv, NEW r \in Requests, RemoveAccount(r), RacedNext(r),
           UNCHANGED <<sessions, now>>
    PROVE  IInv'
<1>1. req[r].id \in Users /\ campaigns' = campaigns
    BY DEF RemoveAccount, At, IInv, HandlersOK, HandlerOK
<1>2. CASE \E status \in {"404", "409"} : Answer(r, status) /\ UNCHANGED users
    BY <1>1, <1>2, ReadingAnswer DEF Answers, tables
<1>3. CASE users' = [users EXCEPT ![req[r].id] = Gone] /\ Answer(r, "200")
  <2>1. RowsKept /\ NamesUnique'
      BY <1>1 DEF RowsKept, IInv, NamesUnique, Taken, Stored
  <2> QED  BY <1>1, <1>3, <2>1, WritingAnswer DEF IInv, TypeOK
<1> QED  BY <1>2, <1>3 DEF RemoveAccount, HandleWriteError

LEMMA Preserved == IInv /\ [Next]_vars => IInv'
<1> SUFFICES ASSUME IInv, [Next]_vars PROVE IInv'
    OBVIOUS
<1>1. CASE Tick
  <2>1. /\ now' \in 0 .. MaxTime
        /\ UNCHANGED <<users, campaigns, sessions, pc, req, raced>>
      BY <1>1, TimeAssumption DEF Tick, tables, IInv, TypeOK
  <2>2. TypeOK' /\ NamesUnique'
      BY <2>1 DEF IInv, TypeOK, NamesUnique, Taken, Stored
  <2>3. HandlersOK'
      BY <2>1 DEF IInv, HandlersOK, HandlerOK, CreateOK, MayWrite, Checked,
                  NameFree, Taken, Stored, At
  <2> QED  BY <2>2, <2>3 DEF IInv
<1>2. ASSUME NEW r \in Requests, Handle(r) PROVE IInv'
  <2>1. RacedNext(r) /\ UNCHANGED <<sessions, now>>
      BY <1>2 DEF Handle, RacedNext
  <2> QED  BY <1>2, <2>1, CreatePreserves, UpdatePreserves, UpdateNamePreserves,
              RemovePreserves, DeleteUserPreserves, StoreNewPreserves,
              StoreUpdatePreserves, StoreRemovePreserves, RemoveAccountPreserves
           DEF Handle, TableStep
<1>3. CASE UNCHANGED vars
    BY <1>3 DEF vars, IInv, TypeOK, NamesUnique, HandlersOK, HandlerOK, CreateOK,
                MayWrite, Checked, NameFree, Taken, Stored, At
<1> QED  BY <1>1, <1>2, <1>3 DEF Next

LEMMA Invariance == Spec => []IInv
BY Initially, Preserved, PTL DEF Spec

----------------------------------------------------------------------------
\* Tables and campaigns keep their types under all interleavings.
THEOREM TypeCorrect == Spec => []TypeOK
<1>1. IInv => TypeOK
    BY DEF IInv
<1> QED  BY <1>1, Invariance, PTL

\* A campaign opened in the form and saved untouched stays on its days, for
\* every length of the day and every pair of time zones.
THEOREM DaysKept == Spec => []EditKeepsDays
<1>1. IInv => EditKeepsDays
    BY TypedRowsKeepDays DEF IInv
<1> QED  BY <1>1, Invariance, PTL

\* A handler moves only in its own steps.
LEMMA Moves ==
    ASSUME IInv, [Next]_vars, NEW r \in Requests, pc'[r] # pc[r]
    PROVE  Handle(r)
<1>1. PICK q \in Requests : Handle(q)
    BY DEF Next, Tick, vars
<1>2. SUFFICES ASSUME q # r PROVE FALSE
    BY <1>1
<1>3. ASSUME NEW step, NEW data, Await(q, step, data) PROVE FALSE
    BY <1>2, <1>3 DEF Await, IInv, HandlersOK
<1>4. CASE TableStep(q)
    BY <1>3, <1>4 DEF TableStep, Create, StoreNew, Update, UpdateName,
       StoreUpdate, Remove, StoreRemove, Answer
<1>5. CASE DeleteUser(q) \/ RemoveAccount(q)
    BY <1>3, <1>5 DEF DeleteUser, RemoveAccount, Answer
<1> QED  BY <1>1, <1>4, <1>5 DEF Handle

\* Where a row that is there changes, a handler writes what MayWrite let it.
LEMMA Writes ==
    ASSUME IInv, NEW r \in Requests, Handle(r), NEW c \in Campaigns, Stored(c),
           campaigns'[c] # campaigns[c]
    PROVE  (StoreUpdate(r) \/ StoreRemove(r)) /\ c = req[r].id
<1>1. StoreUpdate(r) \/ StoreRemove(r)
  <2>1. ASSUME NEW d \in Campaigns, StoreNew(r, d) PROVE FALSE
      BY <2>1 DEF StoreNew, Stored, IInv, TypeOK
  <2> QED  BY <2>1 DEF Handle, TableStep, Create, Update, UpdateName, Remove,
                       DeleteUser, RemoveAccount, tables
<1>2. CASE StoreUpdate(r)
    BY <1>2 DEF StoreUpdate, IInv, TypeOK
<1>3. CASE StoreRemove(r)
    BY <1>3 DEF StoreRemove, IInv, TypeOK
<1> QED  BY <1>1, <1>2, <1>3

\* Nobody but the owner or an administrator changes or removes a campaign,
\* although the check and the write are two steps.
THEOREM Ownership == Spec => OnlyOwnersOrAdmins
<1>1. ASSUME IInv, [Next]_vars, NEW r \in Requests, NEW c \in Campaigns,
             pc'[r] # pc[r], Stored(c), campaigns'[c] # campaigns[c]
      PROVE  Access(req[r].by, campaigns[c])
  <2>1. /\ StoreUpdate(r) \/ StoreRemove(r)
        /\ c = req[r].id
      BY <1>1, Moves, Writes
  <2>2. pc[r] \in {"update", "remove"}
      BY <2>1 DEF StoreUpdate, StoreRemove, At
  <2>3. MayWrite(r)
      BY <1>1, <2>2 DEF IInv, HandlersOK, HandlerOK
  <2> QED  BY <1>1, <2>1, <2>3 DEF MayWrite
<1>2. IInv /\ [Next]_vars =>
        [\A r \in Requests, c \in Campaigns :
           pc'[r] # pc[r] /\ Stored(c) /\ campaigns'[c] # campaigns[c]
              => Access(req[r].by, campaigns[c])]_vars
    BY <1>1
<1> QED  BY <1>2, Invariance, PTL DEF Spec, OnlyOwnersOrAdmins

\* An update that no write interrupted keeps the range of dates in order.
THEOREM Ranges == Spec => RangeBreaksOnlyInRace
<1>1. ASSUME IInv, [Next]_vars, NEW r \in Requests, NEW c \in Campaigns,
             At(r, "update"), pc'[r] # pc[r], campaigns'[c] # campaigns[c],
             r \notin raced
      PROVE  InRange(campaigns'[c].start, campaigns'[c].end)
  <2>1. MayWrite(r) /\ Checked(r)
      BY <1>1 DEF IInv, HandlersOK, HandlerOK, At
  <2>2. StoreUpdate(r)
      BY <1>1, Moves DEF Handle, TableStep, Create, StoreNew, Update, UpdateName,
         Remove, StoreRemove, DeleteUser, RemoveAccount, At, Idle, Answers
  <2>3. /\ c = req[r].id
        /\ campaigns' = [campaigns EXCEPT ![c] = Merged(campaigns[c], req[r].patch)]
      BY <1>1, <2>2 DEF StoreUpdate, Merged, IInv, TypeOK
  <2>4. campaigns'[c] = Merged(campaigns[c], req[r].patch)
      BY <1>1, <2>3 DEF IInv, TypeOK
  <2> QED  BY <1>1, <2>1, <2>3, <2>4 DEF Checked, Merged
<1>2. IInv /\ [Next]_vars =>
        [\A r \in Requests, c \in Campaigns :
           At(r, "update") /\ pc'[r] # pc[r] /\ campaigns'[c] # campaigns[c]
             /\ ~InRange(campaigns'[c].start, campaigns'[c].end)
              => r \in raced]_vars
    BY <1>1
<1> QED  BY <1>2, Invariance, PTL DEF Spec, RangeBreaksOnlyInRace

\* A request that no write interrupted never ends in an internal error, unless
\* it creates a campaign for an account that is gone.
THEOREM Failures == Spec => FailsOnlyInRace
<1>1. ASSUME IInv, [Next]_vars, NEW r \in Requests, pc'[r] = "500", pc'[r] # pc[r]
      PROVE  r \in raced \/ ~Exists(req[r].by.sub)
  <2>1. Handle(r)
      BY <1>1, Moves
  <2>f. ASSUME NEW step, NEW data, Await(r, step, data) PROVE step = "500"
      BY <1>1, <2>f DEF Await, IInv, HandlersOK
  <2>2. \/ \E c \in Campaigns : StoreNew(r, c)
        \/ StoreUpdate(r) \/ StoreRemove(r)
    <3>1. ~Create(r) /\ ~UpdateName(r) /\ ~Remove(r)
        BY <2>f DEF Create, UpdateName, Remove, Answer
    <3>2. ~Update(r)
        BY <2>f DEF Update, Answer
    <3>3. ~DeleteUser(r) /\ ~RemoveAccount(r)
        BY <2>f DEF DeleteUser, RemoveAccount, Answer, HandleWriteError
    <3> QED  BY <2>1, <3>1, <3>2, <3>3 DEF Handle, TableStep
  <2>3. CASE \E c \in Campaigns : StoreNew(r, c)
      BY <2>3, <2>f DEF StoreNew, Answer
  <2>4. CASE StoreUpdate(r)
    <3>1. MayWrite(r) /\ NameFree(r)
        BY <1>1, <2>4 DEF StoreUpdate, IInv, HandlersOK, HandlerOK, At
    <3>2. ~(/\ Stored(req[r].id)
            /\ ~Taken(Value(req[r].patch.name, campaigns[req[r].id].name),
                      campaigns[req[r].id].owner, req[r].id))
        BY <2>4, <2>f DEF StoreUpdate, Answer
    <3> QED  BY <3>1, <3>2 DEF MayWrite, NameFree
  <2>5. CASE StoreRemove(r)
      BY <1>1, <2>5, <2>f
      DEF StoreRemove, Answer, At, IInv, HandlersOK, HandlerOK, MayWrite
  <2> QED  BY <2>2, <2>3, <2>4, <2>5
<1>2. IInv /\ [Next]_vars =>
        [\A r \in Requests :
           pc'[r] = "500" /\ pc'[r] # pc[r]
              => r \in raced \/ ~Exists(req[r].by.sub)]_vars
    BY <1>1
<1> QED  BY <1>2, Invariance, PTL DEF Spec, FailsOnlyInRace

----------------------------------------------------------------------------
\* The book and its members, as CampaignsApi keeps them.
book == [c \in Campaigns |->
           IF Stored(c)
           THEN [owner |-> campaigns[c].owner, title |-> campaigns[c].name]
           ELSE Gone]
present == {u \in Users : Exists(u)}

LEMMA BookTyped ==
    ASSUME TypeOK, NEW c \in Campaigns
    PROVE  /\ book[c] # Gone <=> Stored(c)
           /\ Stored(c) => /\ campaigns[c] \in Campaign
                           /\ book[c] \in Book!Line
                           /\ book[c].owner = campaigns[c].owner
                           /\ book[c].title = campaigns[c].name
<1>1. Stored(c) => campaigns[c] \in Campaign
    BY DEF TypeOK, Stored
<1> QED  BY <1>1, BlankAssumption DEF book, Book!Line, Campaign

\* A line that nobody has taken is in no other place of the book.
LEMMA FreeLine ==
    ASSUME TypeOK, NEW c \in Campaigns, NEW owner \in Users, NEW title \in Names,
           ~Taken(title, owner, c)
    PROVE  [owner |-> owner, title |-> title] \notin Book!Others(c)
<1>1. ASSUME NEW d \in Campaigns \ {c},
             book[d] = [owner |-> owner, title |-> title]
      PROVE  FALSE
  <2>1. Stored(d)
      BY <1>1, BlankAssumption DEF book
  <2> QED  BY <1>1, <2>1, BookTyped DEF Taken
<1> QED  BY <1>1 DEF Book!Others, book

LEMMA BookInit == Init => Book!Init
<1> SUFFICES ASSUME Init PROVE Book!Init
    OBVIOUS
<1>1. book = [c \in Campaigns |-> Gone]
    BY DEF Init, book, Stored
<1> QED  BY <1>1 DEF Book!Init, Book!Consistent, book, present

LEMMA BookStep ==
    ASSUME IInv, IInv', [Next]_vars
    PROVE  [Book!Next]_<<present, book>>
<1>1. CASE UNCHANGED tables
    BY <1>1 DEF tables, present, book, Exists, Stored
<1>2. CASE ~UNCHANGED tables
  <2>1. PICK r \in Requests :
           \/ \E c \in Campaigns : StoreNew(r, c)
           \/ StoreUpdate(r) \/ StoreRemove(r) \/ RemoveAccount(r)
      BY <1>2 DEF Next, Tick, vars, tables, Handle, TableStep, Create, Update,
                  UpdateName, Remove, DeleteUser
  <2>2. ASSUME NEW c \in Campaigns, StoreNew(r, c)
        PROVE  Book!Next
    <3>1. CreateOK(r)
        BY <2>2 DEF StoreNew, IInv, HandlersOK, HandlerOK
    <3>a. PICK line \in Book!Line :
             line = [owner |-> req[r].by.sub, title |-> req[r].new.name]
        BY <3>1 DEF CreateOK, Body, Book!Line
    <3>2. /\ ~Taken(req[r].new.name, req[r].by.sub, c) /\ Exists(req[r].by.sub)
          /\ users' = users /\ campaigns[c] = Fresh
          /\ campaigns' =
               [campaigns EXCEPT ![c] = [owner |-> req[r].by.sub,
                                         name |-> req[r].new.name,
                                         start |-> req[r].new.start,
                                         end |-> req[r].new.end]]
        BY <1>2, <2>2 DEF StoreNew, tables
    <3>3. line \notin Book!Others(c)
        BY <3>1, <3>2, <3>a, FreeLine DEF CreateOK, Body, IInv
    <3>4. Stored(c)'
      <4>1. [owner |-> req[r].by.sub, name |-> req[r].new.name,
             start |-> req[r].new.start, end |-> req[r].new.end] \in Campaign
          BY <3>1 DEF CreateOK, Body, Campaign
      <4> QED  BY <3>2, <4>1, RowsAssumption DEF IInv, TypeOK, Stored
    <3>5. book' = [book EXCEPT ![c] = line]
        BY <3>2, <3>4, <3>a DEF book, Stored, IInv, TypeOK
    <3>6. Book!Enter(c, line)
        BY <3>1, <3>2, <3>3, <3>5, <3>a
        DEF Book!Enter, CreateOK, book, present, Stored, Exists
    <3> QED  BY <3>6 DEF Book!Next
  <2>3. CASE StoreUpdate(r)
    <3>1. req[r].id \in Campaigns /\ req[r].patch \in Edit
        BY <2>3 DEF StoreUpdate, At, IInv, HandlersOK, HandlerOK, MayWrite, Checked
    <3>2. PICK c \in Campaigns : c = req[r].id
        BY <3>1
    <3>3. PICK new : new = Merged(campaigns[c], req[r].patch)
        OBVIOUS
    <3>4. /\ Stored(c) /\ ~Taken(new.name, new.owner, c) /\ users' = users
          /\ campaigns' = [campaigns EXCEPT ![c] = new]
        BY <1>2, <2>3, <3>2, <3>3 DEF StoreUpdate, Merged, tables
    <3>5. campaigns[c] \in Campaign /\ book[c] # Gone
          /\ book[c] = [owner |-> campaigns[c].owner, title |-> campaigns[c].name]
        BY <3>4, BookTyped DEF IInv, book
    <3>6. new \in Campaign /\ new.owner = campaigns[c].owner
        BY <3>1, <3>3, <3>5 DEF Merged, Value, Edit, Campaign
    <3>7. [book[c] EXCEPT !.title = new.name]
             = [owner |-> new.owner, title |-> new.name]
        BY <3>5, <3>6
    <3>8. [owner |-> new.owner, title |-> new.name] \notin Book!Others(c)
        BY <3>4, <3>6, FreeLine DEF IInv, Campaign
    <3>9. campaigns'[c] = new /\ new \notin {Fresh, Gone}
          /\ \A d \in Campaigns : d # c => campaigns'[d] = campaigns[d]
        BY <3>4, <3>6, RowsAssumption DEF IInv, TypeOK
    <3>10. book' = [book EXCEPT ![c] = [owner |-> new.owner, title |-> new.name]]
        BY <3>9 DEF book, Stored
    <3>11. book' = [book EXCEPT ![c].title = new.name]
        BY <3>7, <3>10
    <3>12. Book!Rename(c, new.name) /\ new.name \in Names
        BY <3>4, <3>5, <3>6, <3>7, <3>8, <3>11
        DEF Book!Rename, present, book, Exists, Campaign
    <3> QED  BY <3>12 DEF Book!Next
  <2>4. CASE StoreRemove(r)
    <3>1. PICK c \in Campaigns : c = req[r].id
        BY <2>4 DEF StoreRemove, At, IInv, HandlersOK, HandlerOK, MayWrite
    <3>2. /\ Stored(c) /\ users' = users
          /\ campaigns' = [campaigns EXCEPT ![c] = Gone]
        BY <1>2, <2>4, <3>1 DEF StoreRemove, tables
    <3>3. book' = [book EXCEPT ![c] = Gone]
        BY <3>2, <3>1 DEF book, Stored, IInv, TypeOK
    <3>4. book[c] # Gone
        BY <3>2, <3>1, BookTyped DEF IInv
    <3>5. Book!Strike(c)
        BY <3>2, <3>3, <3>4 DEF Book!Strike, present, book, Exists
    <3> QED  BY <3>5 DEF Book!Next
  <2>5. CASE RemoveAccount(r)
    <3>1. PICK id \in Users : id = req[r].id
        BY <2>5 DEF RemoveAccount, At, IInv, HandlersOK, HandlerOK
    <3>2. /\ Exists(id) /\ ~Owns(id) /\ campaigns' = campaigns
          /\ users' = [users EXCEPT ![id] = Gone]
        BY <1>2, <2>5, <3>1 DEF RemoveAccount, tables
    <3>3. present' = present \ {id}
        BY <3>2, <3>1 DEF present, Exists, IInv, TypeOK
    <3>4. \A c \in Campaigns : book[c] # Gone => book[c].owner # id
      <4>1. ASSUME NEW c \in Campaigns, Stored(c) PROVE campaigns[c].owner # id
          BY <3>2, <4>1 DEF Owns, Stored, IInv, TypeOK
      <4> QED  BY <4>1, BookTyped DEF IInv
    <3>5. book' = book
        BY <3>2 DEF book, Stored
    <3>6. Book!Leave(id)
        BY <3>3, <3>4, <3>5 DEF Book!Leave, book, present
    <3> QED  BY <3>6 DEF Book!Next
  <2> QED  BY <2>1, <2>2, <2>3, <2>4, <2>5
<1> QED  BY <1>1, <1>2

\* However the awaits of the requests interleave, the table implements
\* CampaignBook: unique names per owner, no change of hands, no campaign
\* without its owner.
THEOREM Refinement == Spec => BookKept
<1>1. IInv /\ IInv' /\ [Next]_vars => [Book!Next]_<<present, book>>
    BY BookStep
<1> QED  BY <1>1, BookInit, Invariance, PTL
         DEF Spec, BookKept, Book!Spec, present, book

BookProofs == INSTANCE CampaignBookProofs WITH
    Members <- Users, Entries <- Campaigns, Titles <- Names, Blank <- Gone

\* So the tables are consistent in every state: whoever owns a campaign has
\* an account, and no two campaigns of one owner have the same name.
TablesConsistent ==
    \A c \in Campaigns : Stored(c) =>
        /\ Exists(campaigns[c].owner)
        /\ ~Taken(campaigns[c].name, campaigns[c].owner, c)

THEOREM Consistency == Spec => []TablesConsistent
<1>1. Book!Spec => []BookProofs!Consistent
  <2>1. Book!Init => BookProofs!Init
      BY DEF Book!Init, Book!Consistent, Book!Line, Book!Others,
             BookProofs!Init, BookProofs!Consistent, BookProofs!Line,
             BookProofs!Others, present, book
  <2>2. [Book!Next]_<<present, book>> => [BookProofs!Next]_<<present, book>>
      BY DEF Book!Next, Book!Enter, Book!Rename, Book!Strike, Book!Leave,
             Book!Line, Book!Others,
             BookProofs!Next, BookProofs!Enter, BookProofs!Rename,
             BookProofs!Strike, BookProofs!Leave, BookProofs!Line,
             BookProofs!Others, present, book
  <2> QED  BY <2>1, <2>2, BookProofs!Consistency, PTL
           DEF Book!Spec, BookProofs!Spec, present, book
<1>2. IInv /\ BookProofs!Consistent => TablesConsistent
  <2> SUFFICES ASSUME IInv, BookProofs!Consistent, NEW c \in Campaigns, Stored(c)
               PROVE  Exists(campaigns[c].owner)
      BY DEF TablesConsistent, IInv, NamesUnique
  <2> QED  BY BookTyped DEF BookProofs!Consistent, IInv, present
<1> QED  BY <1>1, <1>2, Refinement, Invariance, PTL DEF BookKept

----------------------------------------------------------------------------
\* The dates of every campaign are in order, also of one about to be created.
RangesOrdered ==
    \A c \in Campaigns :
        Stored(c) => InRange(campaigns[c].start, campaigns[c].end)

RangeInv ==
    /\ RangesOrdered
    /\ \A r \in Requests :
         At(r, "create") => InRange(req[r].new.start, req[r].new.end)

\* No table changes between the checks of an update and its write.
Undisturbed == \A r \in Requests : At(r, "update") => r \notin raced

LEMMA RangeHandler ==
    ASSUME IInv, RangeInv, NEW r \in Requests, NEW step, NEW data,
           Await(r, step, data), RangesOrdered',
           step = "create" => InRange(data.new.start, data.new.end)
    PROVE  RangeInv'
<1>1. \A q \in Requests : /\ pc'[q] = IF q = r THEN step ELSE pc[q]
                          /\ req'[q] = IF q = r THEN data ELSE req[q]
    BY DEF Await, IInv, HandlersOK
<1> QED  BY <1>1 DEF RangeInv, At

LEMMA RangeAnswer ==
    ASSUME IInv, RangeInv, NEW r \in Requests, NEW status \in Answers,
           Answer(r, status), RangesOrdered'
    PROVE  RangeInv'
<1>1. status # "create" /\ Await(r, status, NoData)
    BY DEF Answers, Answer
<1> QED  BY <1>1, RangeHandler

LEMMA RangeKept == RangesOrdered /\ UNCHANGED tables => RangesOrdered'
BY DEF RangesOrdered, tables, Stored

LEMMA RangeStep == IInv /\ RangeInv /\ Undisturbed /\ [Next]_vars => RangeInv'
<1> SUFFICES ASSUME IInv, RangeInv, Undisturbed, [Next]_vars PROVE RangeInv'
    OBVIOUS
<1>1. CASE Tick \/ UNCHANGED vars
    BY <1>1 DEF Tick, vars, tables, RangeInv, RangesOrdered, Stored, At
<1>2. ASSUME NEW r \in Requests, Handle(r) PROVE RangeInv'
  <2>0. Answers = {"200", "400", "401", "403", "404", "409", "500", "cut"}
      BY DEF Answers
  <2>a. UNCHANGED tables => RangesOrdered'
      BY RangeKept DEF RangeInv
  <2>1. CASE Create(r)
    <3>1. PICK s \in Admitted,
               new \in Submitted(FALSE)
                        \union [name : Names, start : Dates,
                                end : Dates \union {NoEnd}] :
            IF ~Accepted(new, new) THEN Answer(r, "400")
            ELSE IF Taken(new.name, s.sub, NoData) THEN Answer(r, "409")
            ELSE Await(r, "create", [by |-> s, new |-> new])
        BY <2>1 DEF Create
    <3>2. UNCHANGED tables
        BY <2>1 DEF Create
    <3>3. CASE \E status \in {"400", "409"} : Answer(r, status)
        BY <2>0, <2>a, <3>2, <3>3, RangeAnswer
    <3>4. CASE Accepted(new, new) /\ Await(r, "create", [by |-> s, new |-> new])
      <4>1. InRange(new.start, new.end)
          BY <3>4 DEF Accepted, Value
      <4> QED  BY <2>a, <3>2, <3>4, <4>1, RangeHandler
    <3> QED  BY <3>1, <3>3, <3>4
  <2>2. ASSUME NEW c \in Campaigns, StoreNew(r, c) PROVE RangeInv'
    <3>1. InRange(req[r].new.start, req[r].new.end)
        BY <2>2 DEF StoreNew, RangeInv
    <3>2. CASE \E status \in {"409", "500"} :
                   Answer(r, status) /\ UNCHANGED tables
        BY <2>0, <2>a, <3>2, RangeAnswer
    <3>3. CASE /\ campaigns' =
                   [campaigns EXCEPT ![c] = [owner |-> req[r].by.sub,
                                             name |-> req[r].new.name,
                                             start |-> req[r].new.start,
                                             end |-> req[r].new.end]]
               /\ Answer(r, "200")
      <4>1. RangesOrdered'
          BY <3>1, <3>3 DEF IInv, TypeOK, RangeInv, RangesOrdered, Stored
      <4> QED  BY <2>0, <3>3, <4>1, RangeAnswer
    <3> QED  BY <2>2, <3>2, <3>3 DEF StoreNew, tables
  <2>3. CASE Update(r)
    <3>1. PICK s \in Admitted, c \in Campaigns, patch \in Patch :
            \/ \E status \in {"400", "403", "404"} : Answer(r, status)
            \/ Await(r, IF patch.name \in {Keep, campaigns[c].name}
                        THEN "update" ELSE "name",
                     [by |-> s, id |-> c, patch |-> patch,
                      owner |-> campaigns[c].owner])
        BY <2>3 DEF Update
    <3>2. UNCHANGED tables
        BY <2>3 DEF Update
    <3> QED  BY <2>0, <2>a, <3>1, <3>2, RangeAnswer, RangeHandler
  <2>4. CASE UpdateName(r)
    <3>1. UNCHANGED tables /\ (Answer(r, "409") \/ Await(r, "update", req[r]))
        BY <2>4 DEF UpdateName
    <3> QED  BY <2>0, <2>a, <3>1, RangeAnswer, RangeHandler
  <2>5. CASE StoreUpdate(r)
    <3> DEFINE c == req[r].id
    <3>1. MayWrite(r) /\ Checked(r) /\ r \notin raced
        BY <2>5 DEF StoreUpdate, At, Undisturbed, IInv, HandlersOK, HandlerOK
    <3>2. CASE Answer(r, "500") /\ UNCHANGED tables
        BY <2>0, <2>a, <3>2, RangeAnswer
    <3>3. CASE /\ campaigns' = [campaigns EXCEPT ![c] =
                                  Merged(campaigns[c], req[r].patch)]
               /\ Answer(r, "200")
      <4>1. InRange(Merged(campaigns[c], req[r].patch).start,
                    Merged(campaigns[c], req[r].patch).end)
          BY <3>1 DEF Checked, Merged
      <4>2. \A d \in Campaigns : campaigns'[d] =
              IF d = c THEN Merged(campaigns[c], req[r].patch) ELSE campaigns[d]
          BY <3>3 DEF IInv, TypeOK
      <4>3. RangesOrdered'
          BY <4>1, <4>2 DEF RangeInv, RangesOrdered, Stored
      <4> QED  BY <2>0, <3>3, <4>3, RangeAnswer
    <3> QED  BY <2>5, <3>2, <3>3 DEF StoreUpdate, Merged, tables
  <2>6. CASE Remove(r)
    <3>1. PICK s \in Admitted, c \in Campaigns :
            \/ \E status \in {"403", "404"} : Answer(r, status)
            \/ Await(r, "remove", [by |-> s, id |-> c])
        BY <2>6 DEF Remove
    <3>2. UNCHANGED tables
        BY <2>6 DEF Remove
    <3> QED  BY <2>0, <2>a, <3>1, <3>2, RangeAnswer, RangeHandler
  <2>7. CASE StoreRemove(r)
    <3>1. CASE Answer(r, "500") /\ UNCHANGED tables
        BY <2>0, <2>a, <3>1, RangeAnswer
    <3>2. CASE campaigns' = [campaigns EXCEPT ![req[r].id] = Gone]
               /\ Answer(r, "200")
      <4>1. RangesOrdered'
          BY <3>2 DEF IInv, TypeOK, RangeInv, RangesOrdered, Stored
      <4> QED  BY <2>0, <3>2, <4>1, RangeAnswer
    <3> QED  BY <2>7, <3>1, <3>2 DEF StoreRemove, tables
  <2>8. CASE DeleteUser(r)
    <3>1. PICK s \in AdmittedAdmins, id \in Users :
            \/ Answer(r, "403")
            \/ Await(r, "deleteUser", [by |-> s.sub, id |-> id])
        BY <2>8 DEF DeleteUser
    <3>2. UNCHANGED tables
        BY <2>8 DEF DeleteUser
    <3> QED  BY <2>0, <2>a, <3>1, <3>2, RangeAnswer, RangeHandler
  <2>9. CASE RemoveAccount(r)
    <3>1. RangesOrdered'
        BY <2>9 DEF RemoveAccount, RangeInv, RangesOrdered, Stored
    <3> QED  BY <2>0, <2>9, <3>1, RangeAnswer DEF RemoveAccount, HandleWriteError
  <2> QED  BY <1>2, <2>1, <2>2, <2>3, <2>4, <2>5, <2>6, <2>7, <2>8, <2>9
           DEF Handle, TableStep
<1> QED  BY <1>1, <1>2 DEF Next

\* As long as no table changes between the checks of an update and its write,
\* no campaign ever ends before it starts, whatever else runs at the time.
THEOREM RangesInOrder == Spec /\ []Undisturbed => []RangesOrdered
<1>1. Init => RangeInv
    BY DEF Init, RangeInv, RangesOrdered, Stored, At
<1>2. RangeInv => RangesOrdered
    BY DEF RangeInv
<1> QED  BY <1>1, <1>2, RangeStep, Invariance, PTL DEF Spec

\* An API that answers one request after the other never stores dates out of
\* order, and fails internally only for a sender who has no account any more:
\* all else that goes wrong above is the work of two requests at a time.
FailsOnlyGoneSenders ==
    [][\A r \in Requests :
         pc'[r] = "500" /\ pc'[r] # pc[r] => ~Exists(req[r].by.sub)]_vars

COROLLARY OneAtATime ==
    ASSUME \A q, r \in Requests : q = r
    PROVE  Spec => []RangesOrdered /\ FailsOnlyGoneSenders
<1>1. Init => raced = {}
    BY DEF Init
<1>2. raced = {} /\ [Next]_vars => (raced = {})'
  <2>1. ASSUME raced = {}, NEW r \in Requests, Handle(r) PROVE raced' = {}
      BY <2>1 DEF Handle
  <2> QED  BY <2>1 DEF Next, Tick, vars
<1>3. raced = {} => Undisturbed
    BY DEF Undisturbed
<1>4. /\ raced = {}
      /\ [\A r \in Requests : pc'[r] = "500" /\ pc'[r] # pc[r]
            => r \in raced \/ ~Exists(req[r].by.sub)]_vars
      => [\A r \in Requests : pc'[r] = "500" /\ pc'[r] # pc[r]
            => ~Exists(req[r].by.sub)]_vars
    OBVIOUS
<1> QED  BY <1>1, <1>2, <1>3, <1>4, RangesInOrder, Failures, PTL
         DEF Spec, FailsOnlyInRace, FailsOnlyGoneSenders
=============================================================================
