----------------------------- MODULE EventBook -----------------------------
(***************************************************************************)
(* What the event store promises: a book with one page per event, in which *)
(* changes are made one at a time.  A change starts from the page as the   *)
(* change before it left the page, takes effect once or not at all, and    *)
(* adds its claims at the end of what is listed of the event.  EventLedger *)
(* implements it with transactions that overlap.                           *)
(***************************************************************************)
EXTENDS Naturals

CONSTANTS
    Requests, Kind, Title, Target,  \* as in EventLedger
    None

Creates == {r \in Requests : Kind[r] = "create"}

VARIABLES
    pages,    \* text and status of each event, None before it is created
    address,  \* the number at the end of its slug
    listed,   \* its claims
    before,   \* pairs of its claims: the first is listed before the second
    done      \* requests that have taken effect

vars == <<pages, address, listed, before, done>>

Init ==
    /\ pages = [e \in Creates |-> None]
    /\ address = [e \in Creates |-> 0]
    /\ listed = [e \in Creates |-> {}]
    /\ before = [e \in Creates |-> {}]
    /\ done = {}

TakesEffect(r) == r \notin done /\ done' = done \cup {r}

List(e, claim) ==
    /\ listed' = [listed EXCEPT ![e] = @ \cup {claim}]
    /\ before' = [before EXCEPT ![e] = @ \cup (listed[e] \X {claim})]

\* A new event is a draft with a snapshot and a status.  Its address is one
\* that no event of the same title has.
Create(r) ==
    /\ Kind[r] = "create" /\ pages[r] = None /\ TakesEffect(r)
    /\ pages' = [pages EXCEPT ![r] = [text |-> r, status |-> "draft"]]
    /\ address' = [address EXCEPT ![r] = address'[r]]
    /\ \A e \in Creates : pages[e] # None /\ Title[e] = Title[r] => address[e] # address'[r]
    /\ listed' = [listed EXCEPT ![r] = {<<r, "snapshot">>, <<r, "status">>}]
    /\ before' = [before EXCEPT ![r] = {<<<<r, "snapshot">>, <<r, "status">>>>}]

\* An edit writes a new text, whatever the status is by now.
Edit(r, e) ==
    /\ Kind[r] = "edit" /\ pages[e] # None /\ TakesEffect(r)
    /\ pages' = [pages EXCEPT ![e].text = r]
    /\ List(e, <<r, "snapshot">>)
    /\ UNCHANGED address

\* A change of state writes a new status, whatever the text is by now.
SetStatus(r, e) ==
    /\ Kind[r] = "state" /\ pages[e] # None /\ TakesEffect(r)
    /\ pages' = [pages EXCEPT ![e].status = Target[r]]
    /\ List(e, <<r, "status">>)
    /\ UNCHANGED address

Next == \E r \in Requests : Create(r) \/ \E e \in Creates : Edit(r, e) \/ SetStatus(r, e)

Spec == Init /\ [][Next]_vars
=============================================================================
