--------------------------- MODULE SessionListing ---------------------------
(***************************************************************************)
(* The list of the dashboard: a page of sessions, filtered, ordered and    *)
(* counted (ListSessions in internal/session/repository.go and its answer  *)
(* in internal/server/sessions.go).                                        *)
(*                                                                         *)
(* ListSessions makes three queries, in no transaction: between two of     *)
(* them other requests and the reconciler may write.  A session's id is    *)
(* its number; a search text is the set of the sessions that contain it,   *)
(* and the empty text is in all of them.                                   *)
(***************************************************************************)
EXTENDS Paging, FiniteSets, Sequences, SequencesExt

CONSTANTS
    Sessions,       \* numbers
    Statuses,       \* those that occur in an instance
    ListedRegions,  \* numbers, in the order of their names
    DefaultSize, LargestSize,   \* 10 and 100 in the code
    Inputs,         \* what a client may ask for
    MaxTime, MaxRequests    \* bounds

Pollable == {"created", "provisioning", "waiting_for_dns", "ready", "active", "finalizing",
             "awaiting_manual_download", "teardown_pending", "tearing_down"}
Settled == {"ended", "failed"}

\* What the control plane writes: a new status, or the row with its status kept.
Moves == {<<"created", "provisioning">>, <<"provisioning", "waiting_for_dns">>,
          <<"provisioning", "failed">>, <<"tearing_down", "failed">>,
          <<"tearing_down", "ended">>}
         \cup ({"provisioning", "waiting_for_dns", "failed"} \X {"tearing_down"})
         \cup {<<st, st>> : st \in {"provisioning", "waiting_for_dns", "tearing_down"}}

ASSUME ListingAssumption ==
    /\ Sessions \subseteq Nat /\ IsFiniteSet(Sessions)
    /\ Statuses \subseteq Pollable \cup Settled
    /\ ListedRegions \subseteq Nat
    /\ {DefaultSize, LargestSize} \subseteq Nat \ {0} /\ DefaultSize <= LargestSize
    /\ Inputs # {}
    /\ Inputs \subseteq [page : Int, size : Int, sort : STRING, direction : STRING,
                         statuses : SUBSET STRING, regions : SUBSET Nat,
                         query : SUBSET Sessions]
    /\ {MaxTime, MaxRequests} \subseteq Nat

-----------------------------------------------------------------------------
(***************************************************************************)
(* What is asked for, and the order and the page of the rows of a table.   *)
(***************************************************************************)
\* normalizeListSessionsInput: numbers that make no sense get a default.
PageAsked(i) == IF i.page < 1 THEN 1 ELSE i.page
SizeAsked(i) ==
    IF i.size <= 0 THEN DefaultSize
    ELSE IF i.size > LargestSize THEN LargestSize ELSE i.size

\* listSessionsWhere: an empty filter lets everything through.
Matched(tab, i) ==
    {s \in Sessions :
        /\ i.statuses # {} => tab[s].status \in i.statuses
        /\ i.regions # {} => tab[s].region \in i.regions
        /\ s \in i.query}

\* listSessionsOrder: an unknown column is updated_at, and the id decides last.
SortKey(row, i) == IF i.sort = "region" THEN row.region ELSE row.updated

Before(tab, i, s, t) ==
    LET a == IF i.direction = "asc" THEN s ELSE t
        b == IF i.direction = "asc" THEN t ELSE s
    IN  \/ SortKey(tab[a], i) < SortKey(tab[b], i)
        \/ SortKey(tab[a], i) = SortKey(tab[b], i) /\ a <= b

\* How many rows come before that of s in their order, it included.
Rank(tab, i, s) == Cardinality({t \in Matched(tab, i) : Before(tab, i, t, s)})

\* The rows that match, in their order.
InOrder(tab, i) ==
    [k \in 1..Cardinality(Matched(tab, i)) |->
        CHOOSE s \in Matched(tab, i) : Rank(tab, i, s) = k]

\* The part of them that LIMIT and OFFSET cut out.
RowsOf(tab, i, page) ==
    LET all == InOrder(tab, i)
        last == page * SizeAsked(i)
    IN  SubSeq(all, last - SizeAsked(i) + 1, IF last < Len(all) THEN last ELSE Len(all))

\* countSessionsByStatus
CountsOf(tab, i) ==
    [st \in Statuses |-> Cardinality({s \in Matched(tab, i) : tab[s].status = st})]

\* pollableSessionCount
PollableCount(c) == FoldFunctionOnSet(+, 0, c, Statuses \cap Pollable)

-----------------------------------------------------------------------------
VARIABLES
    table,      \* the rows of sessions
    clock,      \* the time of the last update
    requests,   \* the number of requests so far
    input, stage,   \* the request and its next query
    total, counts,  \* what its queries found
    answer,     \* the last page answered: rows, page, total and summary
    quiet       \* nothing was written since the request came

listVars == <<table, clock, requests, input, stage, total, counts, answer, quiet>>

Rows == [status : Statuses, region : ListedRegions, updated : 0..MaxTime]
NoCounts == [st \in Statuses |-> 0]
NoAnswer == [rows |-> <<>>, page |-> 1, total |-> 0, counts |-> NoCounts]

ListTypeOK ==
    /\ table \in [Sessions -> Rows]
    /\ clock \in 0..MaxTime /\ requests \in 0..MaxRequests
    /\ input \in Inputs
    /\ stage \in {"none", "count", "status", "select"}
    /\ total \in 0..Cardinality(Sessions)
    /\ counts \in [Statuses -> 0..Cardinality(Sessions)]
    /\ answer \in [rows : Seq([id : Sessions, status : Statuses]), page : Nat \ {0},
                   total : 0..Cardinality(Sessions),
                   counts : [Statuses -> 0..Cardinality(Sessions)]]
    /\ Len(answer.rows) <= LargestSize
    /\ quiet \in BOOLEAN

ListInit ==
    /\ clock \in 0..MaxTime
    /\ table \in [Sessions -> [status : Statuses, region : ListedRegions,
                              updated : 0..clock]]
    /\ requests = 0
    /\ input = CHOOSE i \in Inputs : TRUE
    /\ stage = "none" /\ total = 0 /\ counts = NoCounts /\ answer = NoAnswer
    /\ quiet = TRUE

\* GET /api/sessions
AskForList(i) ==
    /\ stage = "none" /\ requests < MaxRequests
    /\ requests' = requests + 1
    /\ input' = i
    /\ stage' = "count"
    /\ quiet' = TRUE
    /\ UNCHANGED <<table, clock, total, counts, answer>>

CountSessions ==
    /\ stage = "count"
    /\ total' = Cardinality(Matched(table, input))
    /\ stage' = "status"
    /\ UNCHANGED <<table, clock, requests, input, counts, answer, quiet>>

\* Mutant: what counts is the whole table.
CountAllByStatus ==
    /\ stage = "status"
    /\ counts' = [st \in Statuses |-> Cardinality({s \in Sessions : table[s].status = st})]
    /\ stage' = "select"
    /\ UNCHANGED <<table, clock, requests, input, total, answer, quiet>>

CountSessionsByStatus ==
    /\ stage = "status"
    /\ counts' = CountsOf(table, input)
    /\ stage' = "select"
    /\ UNCHANGED <<table, clock, requests, input, total, answer, quiet>>

SelectSessions ==
    /\ stage = "select"
    /\ LET page == ClampListSessionsPage(PageAsked(input), SizeAsked(input), total) IN
       answer' = [rows |-> [i \in DOMAIN RowsOf(table, input, page) |->
                              LET s == RowsOf(table, input, page)[i]
                              IN  [id |-> s, status |-> table[s].status]],
                  page |-> page, total |-> total, counts |-> counts]
    /\ stage' = "none"
    /\ UNCHANGED <<table, clock, requests, input, total, counts, quiet>>

\* has_pollable of the answer.
HasPollable == PollableCount(answer.counts) > 0

\* A session's row is written by somebody else.
WriteRow(s, st) ==
    /\ clock < MaxTime /\ <<table[s].status, st>> \in Moves
    /\ clock' = clock + 1
    /\ table' = [table EXCEPT ![s].status = st, ![s].updated = clock + 1]
    /\ quiet' = FALSE
    /\ UNCHANGED <<requests, input, stage, total, counts, answer>>

ListNext ==
    \/ \E i \in Inputs : AskForList(i)
    \/ CountSessions \/ CountSessionsByStatus \/ SelectSessions
    \/ \E s \in Sessions, st \in Statuses : WriteRow(s, st)

ListSpec == ListInit /\ [][ListNext]_listVars

-----------------------------------------------------------------------------

\* Page after page a client gets every session that matches, each of them once,
\* and a page beyond the last is the last.
PagesPartition ==
    stage = "count" =>
        LET n == Cardinality(Matched(table, input))
            pages == [p \in 1..Pages(n, SizeAsked(input)) |-> RowsOf(table, input, p)]
            all == FlattenSeq(pages)
        IN  /\ Len(all) = n
            /\ ToSet(all) = Matched(table, input)
            /\ \A p \in 1..(n + 1) :
                  n > 0 =>
                      RowsOf(table, input, ClampListSessionsPage(p, SizeAsked(input), n)) # <<>>

\* When nothing was written meanwhile, an answer agrees with the table: its page
\* exists, its counts add up, and has_pollable tells whether a matching session
\* can still change by itself, on this page or another.
AnswerAgrees ==
    stage = "none" /\ quiet /\ answer # NoAnswer =>
        /\ answer.total = Cardinality(Matched(table, input))
        /\ FoldFunction(+, 0, answer.counts) = answer.total
        /\ answer.total > 0 => answer.rows # <<>>
        /\ HasPollable <=> \E s \in Matched(table, input) : table[s].status \in Pollable
=============================================================================
