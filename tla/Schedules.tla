------------------------------ MODULE Schedules ------------------------------
(***************************************************************************)
(* The schedule domain's calls: Create, CreateBatch and Cancel, and        *)
(* ListBySelector, which walks the cursor pages of ListV2 and keeps the    *)
(* entries its selector matches, while other goroutines change the table.  *)
(* A schedule is its route, here a number in the broker's listing order.   *)
(***************************************************************************)
EXTENDS Exchanges

CONSTANTS
    Listers,    \* the callers that list; the others change the table
    Routes,     \* the routes of schedules: a set of positive numbers
    Matching,   \* those the selector matches (scheduleSelectorMatches)
    PageSize    \* entries of a page (limit)

VARIABLES
    table,     \* the broker's schedules
    arg,       \* the routes that each change on the wire carries
    list,      \* the state of ListBySelector
    kept       \* schedules that existed ever since the listing began

scheduleVars == <<exchange, table, arg, list, kept>>

NoPage == [entries |-> <<>>, more |-> FALSE, next |-> 0]
NoList == [by |-> Nothing, cursor |-> 0, page |-> NoPage, matches |-> <<>>, result |-> Nothing]
Free(c) == call[c].pc = "idle"

ScheduleInit ==
    /\ ExchangeInit
    /\ table \in SUBSET Routes
    /\ arg = [n \in 1 .. MaxCalls |-> {}]
    /\ list = NoList
    /\ kept = {}

\* Create and Cancel name one route, CreateBatch several; none is retried.
Change(c, op, rs) ==
    /\ Free(c) /\ c \notin Listers
    /\ Start(c, op, conn)
    /\ arg' = [arg EXCEPT ![calls'] = rs]
    /\ UNCHANGED <<table, list, kept>>

Create(c) == \E r \in Routes : Change(c, "Create", {r})
CreateBatch(c) == \E rs \in SUBSET Routes : Cardinality(rs) > 1 /\ Change(c, "Create", rs)
Cancel(c) == \E r \in Routes : Change(c, "Cancel", {r})

ChangeReturns(c) ==
    /\ call[c].pc = "waiting" /\ call[c].op \in {"Create", "Cancel"} /\ call[c].reply # Nothing
    /\ call' = Back(c, call[c].reply, {})
    /\ UNCHANGED <<conn, up, wire, calls, table, arg, list, kept>>

\* ListBySelector asks for the first page, without a cursor.
ListBySelector(c) ==
    /\ Free(c) /\ c \in Listers /\ list = NoList
    /\ Start(c, "List", conn)
    /\ list' = [NoList EXCEPT !.by = c]
    /\ kept' = table
    /\ UNCHANGED <<table, arg>>

\* The selector is applied to every entry of the page.
Selected(entries) == SelectSeq(entries, LAMBDA r : r \in Matching)

\* The cursor of the next request is the page's continuation.
Unmoved(page) == list.cursor
Continuation(page) == page.next

\* ListV2 refuses a page that has more without a continuation, and
\* ListBySelector an empty page that claims to have more.
Malformed(page) == page.more /\ (page.next = 0 \/ page.entries = <<>>)

PageRead(c) ==
    LET page == list.page IN
    /\ list.by = c /\ list.result = Nothing
    /\ call[c].pc = "waiting" /\ call[c].op = "List" /\ call[c].reply = "ok"
    /\ \/ /\ Malformed(page)
          /\ list' = [NoList EXCEPT !.by = c, !.result = "error"]
          /\ call' = Back(c, "ok", {}) /\ UNCHANGED <<wire, calls>>
       \/ /\ ~Malformed(page) /\ ~page.more
          /\ list' = [list EXCEPT !.result = "ok", !.page = NoPage,
                                  !.matches = @ \o Selected(page.entries)]
          /\ call' = Back(c, "ok", {}) /\ UNCHANGED <<wire, calls>>
       \/ /\ ~Malformed(page) /\ page.more
          /\ list' = [list EXCEPT !.cursor = Continuation(page), !.page = NoPage,
                                  !.matches = @ \o Selected(page.entries)]
          /\ call' = [call EXCEPT ![c].on = conn, ![c].reply = ReplyNow(conn)]
          /\ Post(c, "List", conn, call[c].n) /\ UNCHANGED calls
    /\ UNCHANGED <<conn, up, table, arg, kept>>

\* Any page that fails ends the listing with that error.
ListFails(c) ==
    /\ list.by = c /\ call[c].pc = "waiting" /\ call[c].op = "List"
    /\ call[c].reply \notin {Nothing, "ok"}
    /\ list' = [NoList EXCEPT !.by = c, !.result = "error"]
    /\ call' = Back(c, call[c].reply, {})
    /\ UNCHANGED <<conn, up, wire, calls, table, arg, kept>>

-----------------------------------------------------------------------------
\* The broker (external): a page holds the schedules after the cursor in
\* order, at most PageSize of them; now and then it is malformed.

Smallest(s) == CHOOSE r \in s : \A q \in s : r <= q
After(cursor) == {r \in table : r > cursor}
PageOf[rest \in SUBSET Routes, n \in 0 .. PageSize] ==
    IF rest = {} \/ n = 0 THEN <<>>
    ELSE <<Smallest(rest)>> \o PageOf[rest \ {Smallest(rest)}, n - 1]

GoodPage(cursor) ==
    LET entries == PageOf[After(cursor), PageSize]
    IN  [entries |-> entries, more |-> Cardinality(After(cursor)) > Len(entries),
         next |-> IF entries = <<>> THEN 0 ELSE entries[Len(entries)]]

BadPages == {[entries |-> <<>>, more |-> TRUE, next |-> 1], [NoPage EXCEPT !.more = TRUE]}

BrokerLists ==
    /\ up /\ wire # <<>> /\ Head(wire).op = "List"
    /\ \/ \E page \in {GoodPage(list.cursor)} \cup BadPages :
             /\ list' = [list EXCEPT !.page = IF Answer(Head(wire), "ok") # call THEN page ELSE @]
             /\ call' = Answer(Head(wire), "ok")
       \/ call' = Answer(Head(wire), "refused") /\ UNCHANGED list
    /\ wire' = Tail(wire)
    /\ UNCHANGED <<conn, up, calls, table, arg, kept>>

BrokerChanges ==
    LET rq == Head(wire) IN
    /\ up /\ wire # <<>> /\ rq.op \in {"Create", "Cancel"}
    /\ \/ /\ table' = IF rq.op = "Create" THEN table \cup arg[rq.n] ELSE table \ arg[rq.n]
          /\ call' = Answer(rq, "ok")
       \/ UNCHANGED table /\ call' = Answer(rq, "refused")
    /\ kept' = kept \cap table'
    /\ wire' = Tail(wire) /\ arg' = [arg EXCEPT ![rq.n] = {}]
    /\ UNCHANGED <<conn, up, calls, list>>

ScheduleConnLost ==
    /\ ConnLost
    /\ arg' = [n \in 1 .. MaxCalls |-> {}] /\ UNCHANGED <<table, list, kept>>
ScheduleContextEnds(c) == ContextEnds(c) /\ UNCHANGED <<table, arg, list, kept>>
ScheduleReplaceConnection == ReplaceConnection /\ UNCHANGED <<table, arg, list, kept>>

ScheduleNext ==
    \/ \E c \in Callers : Create(c)
    \/ \E c \in Callers : CreateBatch(c)
    \/ \E c \in Callers : Cancel(c)
    \/ \E c \in Callers : ChangeReturns(c)
    \/ \E c \in Callers : ListBySelector(c)
    \/ \E c \in Callers : PageRead(c)
    \/ \E c \in Callers : ListFails(c)
    \/ \E c \in Callers : ScheduleContextEnds(c)
    \/ BrokerLists
    \/ BrokerChanges
    \/ ScheduleConnLost
    \/ ScheduleReplaceConnection

-----------------------------------------------------------------------------
Listed == {list.matches[i] : i \in DOMAIN list.matches}

\* A listing that succeeds holds each schedule once, only matching ones, and
\* every matching schedule that existed all the time it took, whatever other
\* goroutines created and cancelled between its pages.
ListingComplete ==
    list.result = "ok" =>
        /\ Listed \subseteq Matching
        /\ kept \cap Matching \subseteq Listed
        /\ Len(list.matches) = Cardinality(Listed)
=============================================================================
