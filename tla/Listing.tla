------------------------------- MODULE Listing ------------------------------
(***************************************************************************)
(* GET /api/registry/mcp-server: list_all of mc-registry over list_all,    *)
(* list_with_limit and count of McpDBHandler (mc-db), with a client that   *)
(* walks through the pages while servers are being registered.             *)
(*                                                                         *)
(* A row is its id.  The list and the count are two queries, each a        *)
(* snapshot of its own, and each may fail.  Numbers are as wide as an i64; *)
(* a small width stands for 64 bits.                                       *)
(***************************************************************************)
EXTENDS Integers, SequencesExt

CONSTANTS
    Ids,            \* ids that registrations may draw, in any order
    Sizes, Nums,    \* page_size and page_num of requests outside the walk
    WalkSize,       \* page_size of the walk
    Half            \* 2^63: an i64 is one of -Half .. Half - 1

ASSUME ListingAssumption ==
    /\ Ids \subseteq Nat
    /\ Half \in Nat \ {0}
    /\ Sizes \subseteq -Half .. Half - 1
    /\ Nums \subseteq -Half .. Half - 1
    /\ WalkSize \in 1 .. Half - 1
    /\ IsFiniteSet(Ids) /\ Cardinality(Ids) + WalkSize < Half

VARIABLES
    rows,           \* tb_mcp_servers; handlers only insert
    handler,        \* the request being served: its parameters and its progress
    answer,         \* the answer to it
    walk            \* the walking client: pages asked for, rows at its start,
                    \* rows it was shown

vars == <<rows, handler, answer, walk>>
-----------------------------------------------------------------------------
NoRequest == [pc |-> "idle"]
NoAnswer == [status |-> "none"]

Init ==
    /\ rows = {}
    /\ handler = NoRequest
    /\ answer = NoAnswer
    /\ walk = [num |-> 0, start |-> {}, seen |-> <<>>]

Register(i) ==
    /\ i \notin rows
    /\ rows' = rows \cup {i}
    /\ UNCHANGED <<handler, answer, walk>>

(* ORDER BY id: each row is listed behind those with smaller ids. *)
Rank(ids, i) == Cardinality({j \in ids : j <= i})

ById(ids) == [k \in 1..Cardinality(ids) |-> CHOOSE i \in ids : Rank(ids, i) = k]

Window(seq, first, last) == SubSeq(seq, first, Min({last, Len(seq)}))

(* (page_num - 1) * page_size, as written and in 64 bits. *)
Product(size, num) == (num - 1) * size
Fits(n) == -Half <= n /\ n < Half
Wrap(n) == ((n + Half) % (2 * Half)) - Half

(* Mutants: pages are numbered from 0; one row more than the limit. *)
PageFromZero(ids, size, offset) ==
    Window(ById(ids), offset + size + 1, offset + 2 * size)
PageTooLong(ids, size, offset) ==
    Window(ById(ids), offset + 1, offset + size + 1)

(* Mutant: an offset behind the rows shows the last page. *)
PageClamped(ids, size, offset) ==
    LET first == Max({0, Min({offset, Cardinality(ids) - size})})
    IN  Window(ById(ids), first + 1, first + size)

(* LIMIT size OFFSET offset *)
list_with_limit(ids, size, offset) ==
    Window(ById(ids), offset + 1, offset + size)

(* Option<i64>, a set of at most one number, and its unwrap_or(0) *)
Optional(numbers) == {{}} \cup {{x} : x \in numbers}
OrZero(p) == IF p = {} THEN 0 ELSE CHOOSE x \in p : TRUE

Paged(r) == OrZero(r.size) > 0 /\ OrZero(r.num) > 0

Request(size, num) == [pc |-> "list", size |-> size, num |-> num]

(* Both parameters must be given, or none. *)
Receive(size, num) ==
    /\ handler = NoRequest
    /\ answer = NoAnswer
    /\ (size = {}) = (num = {})
    /\ handler' = Request(size, num)
    /\ UNCHANGED answer

Refuse(size, num) ==
    /\ handler = NoRequest
    /\ answer = NoAnswer
    /\ (size = {}) # (num = {})
    /\ answer' = [status |-> "500"]
    /\ UNCHANGED handler

Offset(h) == Product(OrZero(h.size), OrZero(h.num))

Listed(h, page) == [pc |-> "count", size |-> h.size, num |-> h.num, page |-> page]

ListWhole ==
    /\ handler.pc = "list"
    /\ ~Paged(handler)
    /\ handler' = Listed(handler, ById(rows))
    /\ UNCHANGED <<rows, answer, walk>>

(* A release build wraps around; Postgres refuses a negative offset. *)
ListPage ==
    /\ handler.pc = "list"
    /\ Paged(handler)
    /\ Wrap(Offset(handler)) >= 0
    /\ handler' = Listed(handler,
           list_with_limit(rows, OrZero(handler.size), Wrap(Offset(handler))))
    /\ UNCHANGED <<rows, answer, walk>>

(* A debug build panics at the product, which closes the connection. *)
PanicOnOverflow ==
    /\ handler.pc = "list"
    /\ Paged(handler)
    /\ ~Fits(Offset(handler))
    /\ handler' = NoRequest
    /\ answer' = [status |-> "closed"]
    /\ UNCHANGED <<rows, walk>>

Success(h, count) ==
    [status |-> "200", size |-> h.size, num |-> h.num, page |-> h.page, count |-> count]

(* Mutant: the rows of the page are counted. *)
CountPage ==
    /\ handler.pc = "count"
    /\ handler' = NoRequest
    /\ answer' = Success(handler, Len(handler.page))
    /\ UNCHANGED <<rows, walk>>

Count ==
    /\ handler.pc = "count"
    /\ handler' = NoRequest
    /\ answer' = Success(handler, Cardinality(rows))
    /\ UNCHANGED <<rows, walk>>

(* Either query fails, for its offset or for any other reason. *)
QueryFails ==
    /\ handler.pc \in {"list", "count"}
    /\ handler' = NoRequest
    /\ answer' = [status |-> "500"]
    /\ UNCHANGED <<rows, walk>>
-----------------------------------------------------------------------------
(* The clients. *)

Walking == walk.num > 0

AskOnce ==
    /\ ~Walking
    /\ \E size \in Optional(Sizes), num \in Optional(Nums) :
          Receive(size, num) \/ Refuse(size, num)
    /\ UNCHANGED <<rows, walk>>

Forget ==
    /\ ~Walking
    /\ answer # NoAnswer
    /\ answer' = NoAnswer
    /\ UNCHANGED <<rows, handler, walk>>

StartWalk ==
    /\ ~Walking
    /\ Receive({WalkSize}, {1})
    /\ walk' = [num |-> 1, start |-> rows, seen |-> <<>>]
    /\ UNCHANGED rows

(* A failed page is asked for again. *)
Retry ==
    /\ Walking
    /\ answer.status = "500"
    /\ handler' = Request({WalkSize}, {walk.num})
    /\ answer' = NoAnswer
    /\ UNCHANGED <<rows, walk>>

(* A full page: there may be another one. *)
NextPage ==
    /\ Walking
    /\ answer.status = "200"
    /\ Len(answer.page) >= WalkSize
    /\ walk' = [walk EXCEPT !.num = @ + 1, !.seen = @ \o answer.page]
    /\ handler' = Request({WalkSize}, {walk.num + 1})
    /\ answer' = NoAnswer
    /\ UNCHANGED rows

WalkEnded == Walking /\ answer.status = "200" /\ Len(answer.page) < WalkSize

Shown == walk.seen \o answer.page

EndWalk ==
    /\ WalkEnded
    /\ walk' = [num |-> 0, start |-> {}, seen |-> <<>>]
    /\ answer' = NoAnswer
    /\ UNCHANGED <<rows, handler>>

Next ==
    \/ \E i \in Ids : Register(i)
    \/ ListWhole \/ ListPage \/ PanicOnOverflow \/ Count \/ QueryFails
    \/ AskOnce \/ Forget \/ StartWalk \/ Retry \/ NextPage \/ EndWalk

Spec == Init /\ [][Next]_vars
-----------------------------------------------------------------------------
(* Registrations shift rows behind the page being read, and failed pages   *)
(* are asked for again, so a walk may see a row twice, but it misses none  *)
(* of those it started with.                                               *)
WalkMissesNothing == WalkEnded => walk.start \subseteq ToSet(Shown)

(* A walk during which nothing is registered sees each row once, in order. *)
QuietWalkIsExact == WalkEnded /\ rows = walk.start => Shown = ById(rows)

(* A walk is never stopped by its own numbers: however many rows come, it  *)
(* asks for no page whose offset overflows.                                *)
WalkNeverOverflows ==
    Walking => Fits(Product(WalkSize, walk.num)) /\ answer.status # "closed"

(* The count answered with a page is never smaller than the number of rows *)
(* up to the page's end, although it is another query's, as long as the    *)
(* offset is the one asked for.                                            *)
CountReachesPage ==
    /\ answer.status = "200"
    /\ answer.page # <<>>
    /\ Fits(Offset(answer))
    => answer.count >= Len(answer.page) + (IF Paged(answer) THEN Offset(answer) ELSE 0)
=============================================================================
