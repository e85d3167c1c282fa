--------------------------- MODULE ActivityFeed ---------------------------
(***************************************************************************)
(* Chats that write their activity row while a client walks through        *)
(* GET /v1/activity page by page (telemetry/query.py, api/routes.py).      *)
(* A record gets its time and its id when it is built; it becomes a row    *)
(* when its transaction commits, maybe much later.                         *)
(***************************************************************************)
EXTENDS ActivityTable

CONSTANTS
    Chats,       \* executions of POST /v1/chat, named by the uuid4 of their row
    RequestIds,  \* X-Request-ID values; clients may use one twice
    Times,       \* what the wall clock may show
    Limits       \* page sizes clients ask for

FeedAssumption ==
    Times \subseteq Int /\ Chats \subseteq Int /\ Limits \subseteq Nat \ {0}

VARIABLES
    pending,    \* of each chat: {} or the one record being written
    metric,     \* of each chat: the telemetry_write outcome counted
    rows,       \* the committed table
    walk,       \* "idle", "reading" or "done"
    before,     \* the cursor the client will send
    answer,     \* the last answer: "page", "unavailable" or "invalid_cursor"
    page,       \* history: the items of the last page
    base,       \* history: the rows when the walk began
    delivered,  \* history: the rows the walk was given before the last page
    passed      \* history: rows committed behind the cursor of the walk

writers == <<pending, metric, rows>>
reader == <<walk, before, answer, page, base, delivered>>
vars == <<writers, reader, passed>>

Key == [at : Times, id : Chats]
Row == [at : Times, id : Chats, req : RequestIds]

Init ==
    /\ pending = [c \in Chats |-> {}]
    /\ metric = [c \in Chats |-> "none"]
    /\ rows = {} /\ passed = {}
    /\ walk = "idle" /\ before = {} /\ answer = "page"
    /\ page = {} /\ base = {} /\ delivered = {}

-----------------------------------------------------------------------------
(* The writers.                                                            *)

\* ChatActivityRecord(...): id and created_at are given here.  The wall clock
\* may show the same time twice and may be set back; the uuid4 of a chat may
\* lie anywhere in the order of identifiers, and no two are the same.
BuildRecord(c) ==
    /\ pending[c] = {} /\ metric[c] = "none"
    /\ \E t \in Times, q \in RequestIds :
          pending' = [pending EXCEPT ![c] = {[at |-> t, id |-> c, req |-> q]}]
    /\ UNCHANGED <<metric, rows, reader, passed>>

\* Where the walk stands when a row commits: behind its cursor, or not.
Behind(rec) ==
    \/ walk = "done"
    \/ walk = "reading" /\ rec \notin Selected({rec}, before)

Insert(rec) ==
    /\ Accepts(rows, rec)
    /\ rows' = rows \cup {rec}
    /\ passed' = IF Behind(rec) THEN passed \cup {rec} ELSE passed

\* record_chat_activity commits in time.
Commit(c) ==
    /\ \E rec \in pending[c] : Insert(rec)
    /\ pending' = [pending EXCEPT ![c] = {}]
    /\ metric' = [metric EXCEPT ![c] = "success"]
    /\ UNCHANGED reader

\* It commits, but the timeout or the lost connection is what is seen.
CommitUnseen(c) ==
    /\ \E rec \in pending[c] : Insert(rec)
    /\ pending' = [pending EXCEPT ![c] = {}]
    /\ metric' = [metric EXCEPT ![c] = "failure"]
    /\ UNCHANGED reader

\* A constraint, the database or the timeout refuses it; the record is gone.
WriteFails(c) ==
    /\ pending[c] # {}
    /\ pending' = [pending EXCEPT ![c] = {}]
    /\ metric' = [metric EXCEPT ![c] = "failure"]
    /\ UNCHANGED <<rows, reader, passed>>

-----------------------------------------------------------------------------
(* The reader.                                                             *)

\* The first request of a walk sends no cursor.
StartWalk ==
    /\ walk # "reading"
    /\ walk' = "reading" /\ before' = {} /\ answer' = "page"
    /\ page' = {} /\ base' = rows /\ delivered' = {} /\ passed' = {}
    /\ UNCHANGED writers

\* Mutant: the last item of an empty page is asked for its key, and raises.
ReadPage_NoEmptyPage(limit) ==
    LET found == list_chat_activity(rows, before, limit)
    IN  /\ walk = "reading" /\ found.items # {}
        /\ page' = found.items
        /\ delivered' = delivered \cup page
        /\ before' = next_cursor(found)
        /\ walk' = IF found.has_more THEN "reading" ELSE "done"
        /\ answer' = "page"
        /\ UNCHANGED <<writers, base, passed>>

\* ChatActivityQueryService.page: query, and next_cursor for the client.
ReadPage(limit) ==
    LET found == list_chat_activity(rows, before, limit)
    IN  /\ walk = "reading"
        /\ page' = found.items
        /\ delivered' = delivered \cup page
        /\ before' = next_cursor(found)
        /\ walk' = IF found.has_more THEN "reading" ELSE "done"
        /\ answer' = "page"
        /\ UNCHANGED <<writers, base, passed>>

\* No repository, a timeout or any error of the query: 503, ask again.
ReadFails ==
    /\ walk = "reading"
    /\ answer' = "unavailable"
    /\ UNCHANGED <<writers, walk, before, page, base, delivered, passed>>

\* A cursor that does not decode, or has no time zone: 422, before any query.
ReadBadCursor ==
    /\ walk = "reading"
    /\ answer' = "invalid_cursor"
    /\ UNCHANGED <<writers, walk, before, page, base, delivered, passed>>

Next ==
    \/ \E c \in Chats : BuildRecord(c) \/ Commit(c) \/ CommitUnseen(c) \/ WriteFails(c)
    \/ StartWalk
    \/ \E n \in Limits : ReadPage(n)
    \/ ReadFails
    \/ ReadBadCursor

Spec == Init /\ [][Next]_vars

\* The client keeps asking and the database keeps answering in the end.
FairSpec == Spec /\ WF_vars(\E n \in Limits : ReadPage(n))

-----------------------------------------------------------------------------
(* Properties.                                                             *)

\* The variables hold what the code can put there.
TypeOK ==
    /\ pending \in [Chats -> SUBSET Row]
    /\ metric \in [Chats -> {"none", "success", "failure"}]
    /\ rows \subseteq Row /\ passed \subseteq Row
    /\ page \subseteq Row /\ base \subseteq Row /\ delivered \subseteq Row
    /\ walk \in {"idle", "reading", "done"}
    /\ before \subseteq Key /\ Cardinality(before) <= 1
    /\ answer \in {"page", "unavailable", "invalid_cursor"}

Given == delivered \cup page

\* A walk that has come to its last page was given every row that was there
\* when it began, and every later one except those that committed behind its
\* cursor, which it never shows (query.py and list_chat_activity).
WholeHistory ==
    /\ walk = "done" => rows = Given \cup passed /\ base \subseteq Given
    /\ walk # "idle" => Given \cap passed = {}

\* Newest first over the whole walk, whatever commits between two pages and
\* whatever limits the pages have: a page is older than everything before it,
\* so no row is shown twice (the strict comparison of list_chat_activity).
NewestFirst == \A r \in page, s \in delivered : Newer(s, r)

\* A request id that is used twice costs the second chat its row and is
\* counted as a failed write: a write counted as a success owns the row of
\* its id, and no id has two (the unique request_id of chat_activity).
OneRowPerRequestId ==
    /\ \A r, s \in rows : r.req = s.req => r = s
    /\ \A c \in Chats : metric[c] = "success" => \E r \in rows : r.id = c

\* What a client reads page by page is the history: whole, each row once, newest
\* first, one row per request id, whatever commits late or between two pages.
PagesTellHistory == WholeHistory /\ NewestFirst /\ OneRowPerRequestId

\* Every page moves the cursor on, so a walk ends although rows keep coming
\* (next_cursor of ChatActivityQueryService.page).
WalkEnds == walk = "reading" ~> walk = "done"
=============================================================================
