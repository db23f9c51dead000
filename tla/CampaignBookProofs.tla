-------------------------- MODULE CampaignBookProofs --------------------------
(***************************************************************************)
(* CampaignBook keeps what its first state has, for any members, entries   *)
(* and titles: what its steps check is enough for the book to stay         *)
(* consistent.  CampaignsApiProofs takes this over to the tables.          *)
(***************************************************************************)
EXTENDS CampaignBook, TLAPS

Inv ==
    /\ present \in SUBSET Members
    /\ book \in [Entries -> {Blank} \union Line]
    /\ Consistent

\* One entry gets a line that no other has, or is struck.
LEMMA NewLine ==
    ASSUME Inv, NEW e \in Entries, NEW line \in {Blank} \union Line,
           line # Blank => line.owner \in present /\ line \notin Others(e),
           book' = [book EXCEPT ![e] = line], UNCHANGED present
    PROVE  Inv'
<1>1. \A d \in Entries : book'[d] = IF d = e THEN line ELSE book[d]
    BY DEF Inv
<1>2. ASSUME NEW d \in Entries, book'[d] # Blank
      PROVE  book'[d].owner \in present' /\ book'[d] \notin Others(d)'
  <2>1. CASE d = e
      BY <1>1, <1>2, <2>1 DEF Others
  <2>2. CASE d # e
    <3>1. book[d] # Blank /\ book'[d] = book[d]
        BY <1>1, <1>2, <2>2
    <3>2. book[d] # line
        BY <1>1, <2>2, <3>1 DEF Others
    <3> QED  BY <1>1, <2>2, <3>1, <3>2 DEF Inv, Consistent, Others
  <2> QED  BY <2>1, <2>2
<1> QED  BY <1>1, <1>2 DEF Inv, Consistent

LEMMA Preserved == Inv /\ [Next]_<<present, book>> => Inv'
<1> SUFFICES ASSUME Inv, [Next]_<<present, book>> PROVE Inv'
    OBVIOUS
<1>1. ASSUME NEW e \in Entries, NEW line \in Line, Enter(e, line) PROVE Inv'
    BY <1>1, NewLine DEF Enter
<1>2. ASSUME NEW e \in Entries, NEW title \in Titles, Rename(e, title)
      PROVE  Inv'
  <2>1. book[e] \in Line /\ book[e].owner \in present
      BY <1>2 DEF Rename, Inv, Consistent
  <2>2. PICK line \in Line : line = [book[e] EXCEPT !.title = title]
      BY <2>1 DEF Line
  <2>3. line.owner = book[e].owner
      BY <2>1, <2>2 DEF Line
  <2>4. book' = [book EXCEPT ![e] = line] /\ line \notin Others(e)
        /\ UNCHANGED present
      BY <1>2, <2>2 DEF Rename
  <2> QED  BY <2>1, <2>3, <2>4, NewLine
<1>3. ASSUME NEW e \in Entries, Strike(e) PROVE Inv'
    BY <1>3, NewLine DEF Strike
<1>4. ASSUME NEW m \in Members, Leave(m) PROVE Inv'
    BY <1>4 DEF Leave, Inv, Consistent, Others
<1>5. CASE UNCHANGED <<present, book>>
    BY <1>5 DEF Inv, Consistent, Others
<1> QED  BY <1>1, <1>2, <1>3, <1>4, <1>5 DEF Next

\* The book never holds an entry without its owner, nor one line twice.
THEOREM Consistency == Spec => []Consistent
<1>1. Init => Inv
    BY DEF Init, Inv
<1>2. Inv => Consistent
    BY DEF Inv
<1> QED  BY <1>1, <1>2, Preserved, PTL DEF Spec
=============================================================================
