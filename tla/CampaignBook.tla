---------------------------- MODULE CampaignBook ----------------------------
(***************************************************************************)
(* What the campaign table promises to its readers, with no request in     *)
(* sight: every campaign belongs to a member, nobody has two of one name,  *)
(* a campaign never changes hands, and a member leaves with empty hands.   *)
(*                                                                         *)
(* CampaignsApi implements this module (see Book there).                   *)
(***************************************************************************)
CONSTANTS
    Members,  \* everybody who may ever be a member
    Entries,  \* ids of the campaigns that may ever be entered
    Titles,   \* names of campaigns
    Blank     \* an entry that is not in the book

VARIABLES
    present,  \* the members
    book      \* book[e] is Blank or the owner and title of entry e

Line == [owner : Members, title : Titles]

\* The lines of the book without entry e.
Others(e) == {book[d] : d \in Entries \ {e}}

\* Every entry has an owner who is there, and a line of its own.
Consistent ==
    \A e \in Entries :
        book[e] # Blank => book[e].owner \in present /\ book[e] \notin Others(e)

Init ==
    /\ present \in SUBSET Members
    /\ book \in [Entries -> {Blank} \union Line]
    /\ Consistent

Enter(e, line) ==
    /\ book[e] = Blank
    /\ line.owner \in present /\ line \notin Others(e)
    /\ book' = [book EXCEPT ![e] = line]
    /\ UNCHANGED present

Rename(e, title) ==
    /\ book[e] # Blank
    /\ [book[e] EXCEPT !.title = title] \notin Others(e)
    /\ book' = [book EXCEPT ![e].title = title]
    /\ UNCHANGED present

Strike(e) ==
    /\ book[e] # Blank
    /\ book' = [book EXCEPT ![e] = Blank]
    /\ UNCHANGED present

Leave(m) ==
    /\ \A e \in Entries : book[e] # Blank => book[e].owner # m
    /\ present' = present \ {m}
    /\ UNCHANGED book

Next ==
    \/ \E e \in Entries :
         \/ \E line \in Line : Enter(e, line)
         \/ \E title \in Titles : Rename(e, title)
         \/ Strike(e)
    \/ \E m \in Members : Leave(m)

Spec == Init /\ [][Next]_<<present, book>>
=============================================================================
