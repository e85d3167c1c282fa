--------------------------- MODULE ActivityTable ---------------------------
(***************************************************************************)
(* The chat_activity table (persistence/models.py) and what the repository *)
(* does with it (persistence/repository.py): one insert per chat, and the  *)
(* page query of GET /v1/activity.  A row keeps what the queries and the   *)
(* constraints look at: created_at as at, id, and request_id as req.       *)
(***************************************************************************)
EXTENDS Integers, FiniteSets

\* ORDER BY created_at DESC, id DESC: r comes before s.
Newer(r, s) == r.at > s.at \/ (r.at = s.at /\ r.id > s.id)

\* The insert commits unless the primary key or the unique request_id is taken.
Accepts(rows, rec) == \A r \in rows : r.id # rec.id /\ r.req # rec.req

\* WHERE (created_at, id) < before.  before is {} for None, else holds one key.
Selected(rows, before) == {r \in rows : \A c \in before : Newer(c, r)}

\* ORDER BY ... LIMIT n: those of the selected rows that come first.
FirstRows(rows, before, n) ==
    LET found == Selected(rows, before)
    IN  {r \in found : Cardinality({s \in found : Newer(s, r)}) < n}

\* Mutant: LIMIT limit, so that a full page looks like the last one.
list_chat_activity_NoLookahead(rows, before, limit) ==
    [items |-> FirstRows(rows, before, limit), has_more |-> FALSE]

\* LIMIT limit + 1: the first limit rows are the items, one more means has_more.
list_chat_activity(rows, before, limit) ==
    [items |-> FirstRows(rows, before, limit),
     has_more |-> Cardinality(FirstRows(rows, before, limit + 1)) > limit]

\* The key of the last item of a page, when there is more to read.
next_cursor(page) ==
    IF page.has_more
    THEN {[at |-> r.at, id |-> r.id] :
             r \in {x \in page.items : \A y \in page.items \ {x} : Newer(y, x)}}
    ELSE {}
=============================================================================
