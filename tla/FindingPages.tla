---------------------------- MODULE FindingPages ----------------------------
(***************************************************************************)
(* A client pages through the findings (ListFindings in                    *)
(* internal/kubernetes/findings.go, the cursor in                          *)
(* internal/finding/cursor.go) while K8sGPT creates, deletes and rewrites  *)
(* the Result objects they are made of.  The backend keeps nothing between *)
(* two pages: each page lists, filters and sorts everything again and      *)
(* starts where the cursor of the page before points to.                   *)
(*                                                                         *)
(* A finding is its ID, its creation time and whether the client's filter  *)
(* matches it.  The Kubernetes API lists in chunks, by name, and all the   *)
(* chunks of one listing show the state at the first of them.              *)
(***************************************************************************)
EXTENDS Naturals, Sequences, FiniteSets, SequencesExt

CONSTANTS Ids,         \* names of Results, numbers for their order
          Limit,       \* findings in a page, NormalizeLimit
          ChunkSize,   \* resultPageSize
          MaxScan,     \* maxResultScan
          MaxClock     \* bound on creation times

ASSUME PagesAssumption ==
    /\ Ids \subseteq Nat /\ IsFiniteSet(Ids)
    /\ Limit \in Nat \ {0} /\ ChunkSize \in Nat \ {0}
    /\ MaxScan \in Nat
    /\ MaxClock \in Nat \ {0}

VARIABLES
    clock,      \* the API server's clock
    results,    \* the Results of the current K8sGPT
    cursor,     \* the decoded continue token, or NoCursor
    listing,    \* the Results of the listing under way
    read,       \* those of them that were read
    served,     \* the findings of all pages so far
    steady,     \* findings that matched in every state since the first page
    client      \* "paging", "listing", "done", "failed"

scan == <<listing, read>>
vars == <<clock, results, cursor, scan, served, steady, client>>

NoCursor == [created |-> 0, id |-> 0]

Findings == [id : Ids, created : 1 .. MaxClock, matches : BOOLEAN]
Position(item) == [created |-> item.created, id |-> item.id]
Positions == {Position(item) : item \in Findings}

(* The newest first, equal ages by ID.                                      *)
Before(a, b) ==
    \/ a.created > b.created
    \/ a.created = b.created /\ a.id < b.id

Matching(rs) == {item \in rs : item.matches}

InOrder(items) ==
    CHOOSE s \in [1 .. Cardinality(items) -> items] :
        \A i, j \in DOMAIN s : i < j => Before(s[i], s[j])

-----------------------------------------------------------------------------
Init ==
    /\ clock = 1
    /\ results \in {rs \in SUBSET [id : Ids, created : {1}, matches : BOOLEAN] :
                        \A a, b \in rs : a.id = b.id => a = b}
    /\ cursor = NoCursor
    /\ listing = {} /\ read = {}
    /\ served = <<>>
    /\ steady = {Position(item) : item \in Matching(results)}
    /\ client = "paging"

(* What happens to the Results between two pages, or two chunks.            *)
Change(rs) ==
    /\ results' = rs
    /\ steady' = steady \cap {Position(item) : item \in Matching(rs)}
    /\ UNCHANGED <<clock, cursor, scan, served, client>>

Create ==
    \E id \in Ids, matches \in BOOLEAN :
        /\ \A item \in results : item.id # id
        /\ Change(results \cup {[id |-> id, created |-> clock, matches |-> matches]})

Delete == \E item \in results : Change(results \ {item})

(* K8sGPT rewrites a Result in place: its problem or target is another one. *)
Rewrite ==
    \E item \in results :
        Change((results \ {item}) \cup {[item EXCEPT !.matches = ~item.matches]})

Tick ==
    /\ clock < MaxClock
    /\ clock' = clock + 1
    /\ UNCHANGED <<results, cursor, scan, served, steady, client>>

-----------------------------------------------------------------------------
(* Fault: the finding the cursor was made of is served again.               *)
AfterInclusive(item, c) == c = NoCursor \/ ~Before(Position(item), c)

After(item, c) == c = NoCursor \/ Before(c, Position(item))

(* Fault: the position is an offset, not a finding.                         *)
StartByOffset(items, c) == Len(served) + 1

(* cursorStart: the first finding that comes after the cursor.              *)
Start(items, c) ==
    LET later == {i \in DOMAIN items : After(items[i], c)} IN
    IF later = {} THEN Len(items) + 1 ELSE CHOOSE i \in later : \A j \in later : i <= j

(* Fault: the cursor is made of the first finding of the page.              *)
EncodeFirst(page) == Position(Head(page))

EncodeCursor(page) == Position(Last(page))

(* The page of what was listed: ListFindings after filteredFindings.        *)
Serve(listed) ==
    LET items == InOrder(Matching(listed))
        start == Start(items, cursor)
        end == IF start + Limit - 1 > Len(items) THEN Len(items) ELSE start + Limit - 1
        page == SubSeq(items, start, end)
        more == page # <<>> /\ end < Len(items) IN
    /\ served' = served \o page
    /\ cursor' = IF more THEN EncodeCursor(page) ELSE NoCursor
    /\ client' = IF more THEN "paging" ELSE "done"
    /\ listing' = {} /\ read' = {}

Ask ==
    /\ client = "paging"
    /\ listing' = results
    /\ client' = "listing"
    /\ UNCHANGED <<clock, results, cursor, read, served, steady>>

(* The next chunk, and whether it is the last.                              *)
NextRead ==
    read \cup {item \in listing \ read :
                  Cardinality({i \in listing \ read : i.id < item.id}) < ChunkSize}

(* One chunk of listCurrentResults.  The limit counts what is listed, not
   what matches.                                                            *)
Chunk ==
    /\ client = "listing"
    /\ Cardinality(NextRead) <= MaxScan
    /\ IF NextRead = listing
       THEN Serve(listing)
       ELSE read' = NextRead /\ UNCHANGED <<cursor, listing, served, client>>
    /\ UNCHANGED <<clock, results, steady>>

(* finding.ErrTooMany, a chunk that is too large to be decoded, a continue
   token that expired, any other failure of the Kubernetes API.             *)
ChunkFails ==
    /\ client = "listing"
    /\ client' = "failed"
    /\ listing' = {} /\ read' = {}
    /\ UNCHANGED <<clock, results, cursor, served, steady>>

Environment == Create \/ Delete \/ Rewrite \/ Tick

Next == (client \in {"paging", "listing"} /\ Environment) \/ Ask \/ Chunk \/ ChunkFails

(* The client asks for the next page as long as it is given a cursor.       *)
Spec == Init /\ [][Next]_vars

-----------------------------------------------------------------------------
(* Every variable keeps its type, and a client that goes on paging has a
   cursor that points at the last finding it was given.                     *)
TypeOK ==
    /\ clock \in 1 .. MaxClock
    /\ results \subseteq Findings
    /\ \A a, b \in results : a.id = b.id => a = b
    /\ served \in Seq(Findings)
    /\ steady \subseteq Positions
    /\ client \in {"paging", "listing", "done", "failed"}
    /\ read \subseteq listing /\ listing \subseteq Findings
    /\ client # "listing" => listing = {}
    /\ cursor = IF client = "done" \/ served = <<>> THEN NoCursor
                                                    ELSE Position(Last(served))

(* However the Results change between two pages, the pages together are
   newest first and hold nothing twice, not even a Result that was deleted
   and created again under its name.                                        *)
NothingTwice ==
    /\ \A i, j \in DOMAIN served : i < j => Before(served[i], served[j])
    /\ \A i, j \in DOMAIN served : served[i].id = served[j].id => i = j

(* A client that pages to the end has been given every finding that was
   there, and matched, all the time: pages shift under it, but no finding
   slips through between two of them (the cursor names a finding, not an
   offset).                                                                 *)
NothingMissed ==
    client = "done" => steady \subseteq {Position(served[i]) : i \in DOMAIN served}
=============================================================================
