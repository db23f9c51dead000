--------------------------- MODULE CampaignForms ---------------------------
(***************************************************************************)
(* The dates of a campaign on their way between the table, the dashboard's *)
(* form and the API's checks.  An instant is a number of hours or the like,*)
(* a date input holds a day, and which day an instant belongs to depends   *)
(* on the time zone: both the browser and the server use their own.        *)
(***************************************************************************)
EXTENDS ApiRequests

CONSTANTS
    Names,        \* names of campaigns
    DayLength,    \* units of time in a day
    BrowserZone,  \* the offset from UTC of the browser's local time
    ServerZone,   \* the offset from UTC of the server's local time
    Days          \* the days that are picked in the form

ASSUME DayAssumption ==
    /\ DayLength \in Nat \ {0}
    /\ BrowserZone \in Int /\ ServerZone \in Int
    /\ Days \subseteq Int /\ NoEnd \notin Int

Day(t, zone) == (t + zone) \div DayLength

\* toDateInputValue and getTodayInputValue
ToDateInput(t) == IF t = NoEnd THEN NoEnd ELSE Day(t, BrowserZone)
TodayInput == Day(now, BrowserZone)

\* Mutant of ToLocalISO: new Date('2026-04-01') is midnight in UTC.
ToUtcISO(day) == IF day = NoEnd THEN NoEnd ELSE day * DayLength

\* toLocalDateISOString: local midnight
ToLocalISO(day) == IF day = NoEnd THEN NoEnd ELSE day * DayLength - BrowserZone

\* handleEditCampaign fills the form from the row it shows.
FormOf(row) == [name |-> row.name, start |-> ToDateInput(row.start),
                end |-> ToDateInput(row.end)]

\* handleCampaignSubmit sends every field of the form, also when it edits.
Payload(form) == [name |-> form.name, start |-> ToLocalISO(form.start),
                  end |-> ToLocalISO(form.end)]

\* validateCampaignForm: dates in the past are refused on a new campaign only
FormValid(form, editing) ==
    /\ editing \/ form.start >= TodayInput
    /\ form.end # NoEnd =>
         (editing \/ form.end >= TodayInput) /\ form.end >= form.start

Form == [name : Names, start : Days, end : Days \union {NoEnd}]
Submitted(editing) == {Payload(f) : f \in {g \in Form : FormValid(g, editing)}}

\* assertDatesAreNotInPast and assertDateRange pass over a date that is not
\* there; the others count by the server's day.
NotInPast(t) == t \in Int => Day(t, ServerZone) >= Day(now, ServerZone)
InRange(start, end) ==
    {start, end} \subseteq Int => Day(end, ServerZone) >= Day(start, ServerZone)
=============================================================================
