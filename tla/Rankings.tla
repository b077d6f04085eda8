------------------------------- MODULE Rankings -------------------------------
(***************************************************************************)
(* The daily rankings: results in accountDailyRuns, the ranking of the day *)
(* (category 0) and of the week (category 1), and a client that asks for   *)
(* the number of pages and then for one page after the other               *)
(* (db/daily.go:66-123, handleDailyRankings and                            *)
(* handleDailyRankingPageCount in api/endpoints.go).                       *)
(*                                                                         *)
(* Every page is a query of its own: results, bans and midnight come       *)
(* between them.  Accounts that tie are in any order, each time anew.      *)
(* The wave of a result is not ranked and left to RunClear.                *)
(***************************************************************************)
EXTENDS Integers, FiniteSets

CONSTANTS
    Players,
    PageSize,     \* 10: the LIMIT of a page and the divisor of the count
    FirstWeekday, \* the weekday of day 0, Sunday is 0
    MaxDay,       \* bound: days
    Scores,       \* the scores of the results
    Boards,       \* the results of day 0 there may be already
    Start,        \* a second after all of those
    MaxResults,   \* bound: results recorded
    NoRow         \* the account has no result of that day

ASSUME RankAssumption ==
    /\ IsFiniteSet(Players)
    /\ PageSize \in Nat \ {0} /\ FirstWeekday \in 0 .. 6
    /\ MaxDay \in Nat /\ Scores \subseteq Nat /\ MaxResults \in Nat
    /\ Start \in Nat /\ NoRow \notin [score : Scores, stamp : Nat]
    /\ Boards \subseteq [Players -> [score : Scores, stamp : 0 .. Start]
                                    \cup {NoRow}]

VARIABLES
    today,   \* UTC_DATE()
    seconds, \* UTC_TIMESTAMP(): several results may share one second
    rows,    \* accountDailyRuns: score and timestamp, by account and day
    banned,  \* accounts.banned
    first,   \* when the first result of an account and a day was recorded
    results, \* the number of results so far
    walk     \* what a client has asked for and seen

rankVars == << today, seconds, rows, banned, first, results, walk >>

Days == 0 .. MaxDay
Categories == {0, 1}

\* The days of a category: today, or those since the last Sunday.
Period(cat) ==
    IF cat = 0 THEN {today}
    ELSE {d \in Days : d >= today - ((FirstWeekday + today) % 7)}

\* The results that count for an account, and what it is ranked by: the sum of
\* its scores, none of which is older than six days.
Counting(p, cat) == {d \in Period(cat) : rows[p][d] # NoRow}
Points(p, cat, d) == IF d \in Counting(p, cat) THEN rows[p][d].score ELSE 0
Score(p, cat) ==
    Points(p, cat, today) + Points(p, cat, today - 1) + Points(p, cat, today - 2)
    + Points(p, cat, today - 3) + Points(p, cat, today - 4)
    + Points(p, cat, today - 5) + Points(p, cat, today - 6)
Stamps(p, cat) == {rows[p][d].stamp : d \in Counting(p, cat)}

Counted(cat) == {p \in Players : Counting(p, cat) # {}}
Listed(cat) == Counted(cat) \ banned

\* ORDER BY score DESC, timestamp: the timestamp of a week is that of any of
\* its rows, so it decides only when all of them do.
Ahead(p, q, cat) ==
    \/ Score(p, cat) > Score(q, cat)
    \/ /\ Score(p, cat) = Score(q, cat)
       /\ \A s \in Stamps(p, cat), t \in Stamps(q, cat) : s < t

\* Every order in which the database may return the ranking.
Orders(cat) ==
    LET n == Cardinality(Listed(cat)) IN
    {order \in [1 .. n -> Listed(cat)] :
        \A i, j \in 1 .. n :
            i < j => /\ order[i] # order[j]
                     /\ ~Ahead(order[j], order[i], cat)}

\* The first page is counted from 0.
FetchRankings_wrong(order, page) ==
    LET offset == page * PageSize IN
    {order[i] : i \in DOMAIN order \cap (offset + 1 .. offset + PageSize)}

\* LIMIT 10 OFFSET (page - 1) * 10
FetchRankings(order, page) ==
    LET offset == (page - 1) * PageSize IN
    {order[i] : i \in DOMAIN order \cap (offset + 1 .. offset + PageSize)}

\* There is always a last page that is not full.
FetchRankingPageCount_wrong(cat) ==
    Cardinality(Counted(cat)) \div PageSize + 1

\* Ceil(count / 10), where the count has no condition on banned.
FetchRankingPageCount(cat) ==
    (Cardinality(Counted(cat)) + PageSize - 1) \div PageSize

\* The place of an account that no tie leaves open.
Settled(cat) ==
    {p \in Listed(cat) :
        \A q \in Listed(cat) \ {p} : Ahead(p, q, cat) \/ Ahead(q, p, cat)}
Place(p, cat) == Cardinality({q \in Listed(cat) : Ahead(q, p, cat)}) + 1

NoWalk == [cat |-> 0, pages |-> 0, next |-> 1, empty |-> 0,
           times |-> [p \in Players |-> 0], steady |-> {}, calm |-> FALSE]

RankInit ==
    /\ today = 0
    /\ seconds = Start
    /\ \E board \in Boards :
         /\ rows = [p \in Players |->
                       [d \in Days |-> IF d = 0 THEN board[p] ELSE NoRow]]
         /\ first = [p \in Players |->
                       [d \in Days |-> IF d = 0 /\ board[p] # NoRow
                                       THEN board[p].stamp ELSE 0]]
    /\ banned = {}
    /\ results = 0
    /\ walk = NoWalk

\* The client has asked for the page count and not ended.
Walking == walk.next <= walk.pages

\* What a change to the rankings means to a walk: an account is steady while
\* its place stays the same.
Watched ==
    \E c \in {walk.cat} :
        walk' = IF ~Walking THEN NoWalk ELSE
                [walk EXCEPT
                    !.steady = {p \in @ : p \in Settled(c)'
                                          /\ Place(p, c)' = Place(p, c)},
                    !.calm = @ /\ Counted(c)' = Counted(c)
                               /\ Listed(c)' = Listed(c)]

\* The timestamp is compared with the score before it is raised.
Updated_wrong(row, score) ==
    IF row = NoRow \/ row.score < score
    THEN [score |-> score, stamp |-> seconds']
    ELSE row

\* The row after a result: assignments are evaluated from left to right, so
\* the timestamp is compared with the score that was raised before, is not
\* less than the new score, and stays that of the first result.
Updated(row, score) ==
    IF row = NoRow THEN [score |-> score, stamp |-> seconds']
    ELSE LET raised == IF row.score < score THEN score ELSE row.score IN
         [score |-> raised,
          stamp |-> IF raised < score THEN seconds' ELSE row.stamp]

\* AddOrUpdateAccountDailyRun, in the same second as the last result or later.
Record(p, score) ==
    /\ results < MaxResults
    /\ results' = results + 1
    /\ seconds' \in {seconds, seconds + 1}
    /\ rows' = [rows EXCEPT ![p][today] = Updated(@, score)]
    /\ first' = [first EXCEPT ![p][today] =
                    IF rows[p][today] = NoRow THEN seconds' ELSE @]
    /\ UNCHANGED << today, banned >>
    /\ Watched

\* SetAccountBanned
Ban(p) ==
    /\ p \notin banned
    /\ banned' = banned \cup {p}
    /\ UNCHANGED << today, seconds, rows, first, results >>
    /\ Watched

Midnight ==
    /\ today < MaxDay
    /\ today' = today + 1
    /\ seconds' = seconds + 1
    /\ UNCHANGED << rows, banned, first, results >>
    /\ Watched

\* A client asks for the number of pages; it begins a walk.
AskPageCount(cat) ==
    /\ ~Walking
    /\ walk' = [NoWalk EXCEPT !.cat = cat,
                              !.pages = FetchRankingPageCount(cat),
                              !.steady = Settled(cat),
                              !.calm = TRUE]
    /\ UNCHANGED << today, seconds, rows, banned, first, results >>

\* It asks for the next page.
AskPage ==
    /\ Walking
    /\ \E order \in Orders(walk.cat) :
         LET page == FetchRankings(order, walk.next) IN
         walk' = [walk EXCEPT
                     !.next = @ + 1,
                     !.empty = IF page = {} THEN @ + 1 ELSE @,
                     !.times = [p \in Players |->
                                   @[p] + IF p \in page THEN 1 ELSE 0]]
    /\ UNCHANGED << today, seconds, rows, banned, first, results >>

RankNext ==
    \/ \E p \in Players : Ban(p) \/ \E score \in Scores : Record(p, score)
    \/ Midnight
    \/ \E cat \in Categories : AskPageCount(cat)
    \/ AskPage

RankSpec == RankInit /\ [][RankNext]_rankVars

(***************************************************************************)
(* Properties                                                              *)
(***************************************************************************)

\* Every variable has its type.
RankTypeOK ==
    /\ today \in Days
    /\ seconds \in Nat
    /\ rows \in [Players -> [Days -> [score : Scores, stamp : Nat]
                                     \cup {NoRow}]]
    /\ banned \in SUBSET Players
    /\ first \in [Players -> [Days -> Nat]]
    /\ results \in 0 .. MaxResults
    /\ walk \in [cat : Categories, pages : Nat, next : Nat, empty : Nat,
                 times : [Players -> Nat], steady : SUBSET Players,
                 calm : BOOLEAN]

WalkOver == walk.pages > 0 /\ ~Walking

\* A client that walks through all pages sees every account that kept its
\* place during the walk exactly once, whatever the results and bans of other
\* accounts were between the queries: the page count and the pages agree.
WalkShowsTheSteady == WalkOver => \A p \in walk.steady : walk.times[p] = 1

\* A page within the page count is empty only because of banned accounts, which
\* the count includes and the ranking leaves out (daily.go:108-112 against
\* 82-85), or because the ranking has changed since it was counted.
EmptyPagesMeanBanned ==
    walk.calm /\ walk.empty > 0 => banned \cap Counted(walk.cat) # {}

\* Of two accounts with the same score today, the one whose first result of
\* the day was earlier is never listed behind the other, even if it reached
\* that score later.
TieByFirstResult ==
    \A order \in Orders(0) : \A i, j \in DOMAIN order :
        (i < j /\ rows[order[i]][today].score = rows[order[j]][today].score)
            => first[order[i]][today] <= first[order[j]][today]
=============================================================================
