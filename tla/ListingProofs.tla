---------------------------- MODULE ListingProofs ---------------------------
(***************************************************************************)
(* Theorems about Listing, for any number of rows, any page sizes and      *)
(* numbers, and any width: what a walk through the pages sees while rows   *)
(* are inserted anywhere and queries fail, and what a count says of its    *)
(* page.                                                                   *)
(***************************************************************************)
EXTENDS Listing, FiniteSetTheorems, FunctionTheorems, SequenceTheorems, TLAPS

(* Requests and answers by how far they are. *)
Params == {{}} \cup {{x} : x \in Int}

Asked == [pc : {"list"}, size : Params, num : Params]
Counting == [pc : {"count"}, size : Params, num : Params, page : Seq(Ids)]
Successes == [status : {"200"}, size : Params, num : Params, page : Seq(Ids), count : Nat]

TypeInv ==
    /\ rows \in SUBSET Ids
    /\ handler \in {NoRequest} \cup Asked \cup Counting
    /\ answer \in {NoAnswer, [status |-> "500"], [status |-> "closed"]} \cup Successes
    /\ walk \in [num : Nat, start : SUBSET Ids, seen : Seq(Ids)]

(* The rows of a listing end within the first n, if its offset was right.  *)
Reaches(h, n) ==
    h.page # <<>> /\ Fits(Offset(h)) =>
        n >= Len(h.page) + (IF Paged(h) THEN Offset(h) ELSE 0)

ReachInv ==
    /\ handler.pc = "count" => Reaches(handler, Cardinality(rows))
    /\ answer.status = "200" => Reaches(answer, answer.count)

(* Rows in front of the page of walk w. *)
Behind(w) == Product(WalkSize, w.num)

(* What walk w has seen of the rows ids: each row it started with, unless  *)
(* it is still to come, and the first rows in order as long as nothing is  *)
(* inserted.                                                               *)
SeenBy(w, ids) ==
    /\ w.start \subseteq ids
    /\ Behind(w) <= Cardinality(ids)
    /\ \A i \in w.start : i \in ToSet(w.seen) \/ Behind(w) < Rank(ids, i)
    /\ ids = w.start =>
          /\ Len(w.seen) = Behind(w)
          /\ \A k \in 1..Behind(w) : w.seen[k] = ById(ids)[k]

(* What a page shows walk w. *)
PageFor(w, ids, page) ==
    /\ Len(page) <= WalkSize
    /\ Behind(w) + Len(page) <= Cardinality(ids)
    /\ \A i \in w.start :
          \/ i \in ToSet(w.seen) \cup ToSet(page)
          \/ Len(page) = WalkSize /\ Behind(w) + WalkSize < Rank(ids, i)
    /\ ids = w.start =>
          /\ Len(page) < WalkSize => Behind(w) + Len(page) = Cardinality(ids)
          /\ \A k \in 1..Len(page) : page[k] = ById(ids)[Behind(w) + k]

(* A walk is served page by page, by its own requests. *)
WalkInv ==
    Walking =>
        /\ SeenBy(walk, rows)
        /\ handler # NoRequest =>
              handler.size = {WalkSize} /\ handler.num = {walk.num} /\ answer = NoAnswer
        /\ handler.pc = "count" => PageFor(walk, rows, handler.page)
        /\ answer.status = "200" => PageFor(walk, rows, answer.page)
        /\ answer.status # "closed"

IInv == TypeInv /\ ReachInv /\ WalkInv
-----------------------------------------------------------------------------
(* Lemmas about the order of a listing. *)

LEMMA RowsAreFinite ==
    ASSUME NEW ids \in SUBSET Ids
    PROVE  /\ IsFiniteSet(ids) /\ Cardinality(ids) \in Nat
           /\ Cardinality(ids) <= Cardinality(Ids)
           /\ \A i \in ids : i \in Nat
  BY ListingAssumption, FS_Subset, FS_CardinalityType

LEMMA RankType ==
    ASSUME NEW ids \in SUBSET Ids, NEW i \in ids
    PROVE  Rank(ids, i) \in 1..Cardinality(ids)
<1> DEFINE below == {j \in ids : j <= i}
<1>1. below \in SUBSET ids /\ i \in below
  BY RowsAreFinite
<1>2. IsFiniteSet(below) /\ Cardinality(below) <= Cardinality(ids)
  BY <1>1, RowsAreFinite, FS_Subset
<1>3. Cardinality(below) \in Nat /\ Cardinality(below) # 0
  BY <1>1, <1>2, FS_CardinalityType, FS_EmptySet
<1> QED
  BY <1>2, <1>3, RowsAreFinite DEF Rank

(* Inserted rows only move a row back. *)
LEMMA RankGrows ==
    ASSUME NEW ids \in SUBSET Ids, NEW more \in SUBSET Ids, ids \subseteq more, NEW i \in ids
    PROVE  Rank(ids, i) <= Rank(more, i)
<1> DEFINE below == {j \in ids : j <= i}
           belowMore == {j \in more : j <= i}
<1>1. below \in SUBSET belowMore /\ belowMore \in SUBSET Ids
  OBVIOUS
<1>2. IsFiniteSet(belowMore)
  BY <1>1, RowsAreFinite
<1>3. Cardinality(below) <= Cardinality(belowMore)
  BY <1>1, <1>2, FS_Subset
<1> QED
  BY <1>3 DEF Rank

LEMMA RankOrders ==
    ASSUME NEW ids \in SUBSET Ids, NEW i \in ids, NEW j \in ids, i < j
    PROVE  Rank(ids, i) < Rank(ids, j)
<1> DEFINE A == {x \in ids : x <= i}
           B == {x \in ids : x <= j}
<1>1. A \in SUBSET B /\ B \in SUBSET Ids /\ j \in B /\ j \notin A
  BY RowsAreFinite
<1>2. IsFiniteSet(B) /\ Cardinality(A) <= Cardinality(B) /\ Cardinality(A) # Cardinality(B)
  BY <1>1, RowsAreFinite, FS_Subset
<1>3. Cardinality(A) \in Nat /\ Cardinality(B) \in Nat
  BY <1>1, RowsAreFinite
<1> QED
  BY <1>2, <1>3 DEF Rank

(* Each place of a listing is the rank of one row. *)
LEMMA RankOnto ==
    ASSUME NEW ids \in SUBSET Ids, NEW k \in 1..Cardinality(ids)
    PROVE  \E i \in ids : Rank(ids, i) = k
<1> DEFINE n == Cardinality(ids)
           f == [i \in ids |-> Rank(ids, i)]
<1>1. n \in Nat /\ IsFiniteSet(ids)
  BY RowsAreFinite
<1>2. f \in [ids -> 1..n]
  BY RankType
<1>3. ASSUME NEW i \in ids, NEW j \in ids, f[i] = f[j] PROVE i = j
  <2>1. i \in Nat /\ j \in Nat /\ Rank(ids, i) \in 1..n /\ Rank(ids, j) \in 1..n
    BY RowsAreFinite, RankType
  <2>2. ~(i < j) /\ ~(j < i)
    BY <1>1, <1>3, <2>1, RankOrders
  <2> QED
    BY <2>1, <2>2
<1>4. f \in Injection(ids, 1..n)
  BY <1>2, <1>3 DEF Injection, IsInjective
<1>5. IsFiniteSet(1..n) /\ Cardinality(1..n) = n
  BY <1>1, FS_Interval
<1>6. f \in Surjection(ids, 1..n)
  BY <1>4, <1>5, FS_Injection
<1>7. PICK i \in ids : f[i] = k
  BY <1>6 DEF Surjection
<1> QED
  BY <1>7

(* A listing holds every row at the place of its rank. *)
LEMMA ByIdRanks ==
    ASSUME NEW ids \in SUBSET Ids
    PROVE  /\ ById(ids) \in Seq(ids) /\ Len(ById(ids)) = Cardinality(ids)
           /\ \A k \in 1..Cardinality(ids) :
                 ById(ids)[k] \in ids /\ Rank(ids, ById(ids)[k]) = k
           /\ \A i \in ids : ById(ids)[Rank(ids, i)] = i
<1> DEFINE n == Cardinality(ids)
           s == ById(ids)
<1>1. n \in Nat
  BY RowsAreFinite
<1>2. ASSUME NEW k \in 1..n PROVE s[k] \in ids /\ Rank(ids, s[k]) = k
  <2>1. s[k] = CHOOSE i \in ids : Rank(ids, i) = k
    BY DEF ById
  <2> QED
    BY <2>1, RankOnto
<1>3. s = [k \in 1..n |-> s[k]]
  BY DEF ById
<1>4. s \in Seq(ids) /\ Len(s) = n
  <2>1. s \in [1..n -> ids]
    BY <1>2, <1>3
  <2> QED
    BY <1>1, <2>1
<1>5. ASSUME NEW i \in ids PROVE s[Rank(ids, i)] = i
  <2> DEFINE j == s[Rank(ids, i)]
  <2>1. Rank(ids, i) \in 1..n
    BY RankType
  <2>2. j \in ids /\ Rank(ids, j) = Rank(ids, i)
    BY <1>2, <2>1
  <2>3. i \in Nat /\ j \in Nat
    BY <2>2, RowsAreFinite
  <2>4. ~(i < j) /\ ~(j < i)
    BY <2>1, <2>2, <1>1, RankOrders
  <2> QED
    BY <2>3, <2>4
<1> QED
  BY <1>2, <1>4, <1>5

LEMMA LeastOfTwo ==
    ASSUME NEW a \in Int, NEW b \in Int
    PROVE  Min({a, b}) = IF a <= b THEN a ELSE b
<1>1. \E x \in {a, b} : \A y \in {a, b} : x <= y
  OBVIOUS
<1>2. Min({a, b}) \in {a, b} /\ \A y \in {a, b} : Min({a, b}) <= y
  BY <1>1 DEF Min
<1> QED
  BY <1>2

(* A page is a part of the listing, cut at its end. *)
LEMMA PageOfListing ==
    ASSUME NEW ids \in SUBSET Ids, NEW size \in Nat, NEW offset \in Nat
    PROVE  LET page == list_with_limit(ids, size, offset)
               n == Cardinality(ids)
           IN  /\ page \in Seq(Ids)
               /\ Len(page) = IF offset + size <= n THEN size
                              ELSE IF offset < n THEN n - offset ELSE 0
               /\ \A k \in 1..Len(page) : page[k] = ById(ids)[offset + k]
<1> DEFINE s == ById(ids)
           n == Cardinality(ids)
           last == IF offset + size <= n THEN offset + size ELSE n
           page == list_with_limit(ids, size, offset)
<1>1. n \in Nat /\ s \in Seq(ids) /\ Len(s) = n
  BY RowsAreFinite, ByIdRanks
<1>2. page = SubSeq(s, offset + 1, last)
  BY <1>1, LeastOfTwo DEF list_with_limit, Window
<1>3. \A k \in offset + 1 .. last : s[k] \in Ids
  BY <1>1, ByIdRanks
<1>4. /\ page \in Seq(Ids)
      /\ Len(page) = IF offset + 1 <= last THEN last - offset ELSE 0
      /\ \A k \in 1 .. last - offset : page[k] = s[offset + k]
  <2>1. offset + 1 \in Int /\ last \in Int
    BY <1>1
  <2> HIDE DEF page, s, last
  <2>2. /\ SubSeq(s, offset + 1, last) \in Seq(Ids)
        /\ Len(SubSeq(s, offset + 1, last)) =
              IF offset + 1 <= last THEN last - (offset + 1) + 1 ELSE 0
        /\ \A k \in 1 .. last - (offset + 1) + 1 :
              SubSeq(s, offset + 1, last)[k] = s[offset + 1 + k - 1]
    BY <1>3, <2>1, SubSeqProperties
  <2> QED
    BY <1>2, <2>1, <2>2
<1> QED
  BY <1>1, <1>4
-----------------------------------------------------------------------------
(* Lemmas about numbers. *)

Walks == [num : Nat \ {0}, start : SUBSET Ids, seen : Seq(Ids)]

(* What unwrap_or(0) makes of a parameter. *)
LEMMA OrZeroValue ==
    /\ \A p \in Params : OrZero(p) \in Int
    /\ \A x \in Int : OrZero({x}) = x
<1>1. OrZero({}) = 0
  BY DEF OrZero
<1>2. ASSUME NEW x \in Int PROVE OrZero({x}) = x
  BY DEF OrZero
<1> QED
  BY <1>1, <1>2 DEF Params

LEMMA OffsetType ==
    ASSUME NEW h, h.size \in Params, h.num \in Params
    PROVE  Offset(h) \in Int
  BY OrZeroValue DEF Offset, Product

(* A number that fits an i64 is kept by the wrapping product. *)
LEMMA WrapKeeps ==
    ASSUME NEW n \in Int, Fits(n)
    PROVE  Wrap(n) = n
<1> DEFINE m == n + Half
<1>1. Half \in Nat \ {0} /\ m \in 0 .. 2 * Half - 1
  BY ListingAssumption DEF Fits
<1>2. m % (2 * Half) = m
  BY <1>1
<1> QED
  BY <1>1, <1>2 DEF Wrap

LEMMA WrapType ==
    ASSUME NEW n \in Int
    PROVE  Wrap(n) \in Int
  BY ListingAssumption DEF Wrap

LEMMA BehindSteps ==
    ASSUME NEW w \in Walks, NEW v \in Walks, v.num = w.num + 1
    PROVE  /\ Behind(w) \in Nat
           /\ Behind(v) = Behind(w) + WalkSize
           /\ w.num = 1 => Behind(w) = 0
<1>1. WalkSize \in Nat /\ w.num \in Nat /\ w.num >= 1
  BY ListingAssumption DEF Walks
<1>2. Behind(w) \in Nat
  <2> DEFINE n == w.num - 1
  <2>1. n \in Nat
    BY <1>1
  <2>2. n * WalkSize \in Nat
    BY <1>1, <2>1
  <2> QED
    BY <2>2 DEF Behind, Product
<1>3. Behind(v) = Behind(w) + WalkSize
  BY <1>1 DEF Behind, Product
<1>4. w.num = 1 => Behind(w) = 0
  BY <1>1 DEF Behind, Product
<1> QED
  BY <1>2, <1>3, <1>4

(* The offset of the walk fits: it is never behind all rows. *)
LEMMA BehindFits ==
    ASSUME NEW w \in Walks, NEW ids \in SUBSET Ids, SeenBy(w, ids)
    PROVE  /\ Fits(Behind(w)) /\ Wrap(Behind(w)) = Behind(w)
           /\ Behind(w) \in Nat
<1>1. [w EXCEPT !.num = @ + 1] \in Walks /\ [w EXCEPT !.num = @ + 1].num = w.num + 1
  BY DEF Walks
<1>2. Behind(w) \in Nat
  BY <1>1, BehindSteps
<1>3. Cardinality(ids) \in Nat /\ Cardinality(ids) <= Cardinality(Ids)
  BY RowsAreFinite
<1>4. Cardinality(Ids) \in Nat
  BY RowsAreFinite
<1>5. Fits(Behind(w))
  BY <1>2, <1>3, <1>4, ListingAssumption DEF SeenBy, Fits
<1> QED
  BY <1>2, <1>5, WrapKeeps
-----------------------------------------------------------------------------
(* Lemmas about what a walk sees. *)

LEMMA SeenTogether ==
    ASSUME NEW s \in Seq(Ids), NEW t \in Seq(Ids)
    PROVE  /\ s \o t \in Seq(Ids) /\ Len(s \o t) = Len(s) + Len(t)
           /\ \A k \in 1..Len(s) : (s \o t)[k] = s[k]
           /\ \A k \in 1..Len(t) : (s \o t)[Len(s) + k] = t[k]
           /\ ToSet(s) \cup ToSet(t) \subseteq ToSet(s \o t)
<1>1. Len(s) \in Nat /\ Len(t) \in Nat /\ DOMAIN s = 1..Len(s) /\ DOMAIN t = 1..Len(t)
  OBVIOUS
<1>2. s \o t \in Seq(Ids) /\ Len(s \o t) = Len(s) + Len(t)
  OBVIOUS
<1>3. \A k \in 1..Len(s) : (s \o t)[k] = s[k]
  OBVIOUS
<1>4. \A k \in 1..Len(t) : (s \o t)[Len(s) + k] = t[k]
  OBVIOUS
<1>5. DOMAIN (s \o t) = 1 .. Len(s) + Len(t)
  BY <1>2
<1>6. ASSUME NEW i \in ToSet(s) PROVE i \in ToSet(s \o t)
  <2>1. PICK k \in 1..Len(s) : i = s[k]
    BY <1>1, <1>6 DEF ToSet
  <2>2. k \in DOMAIN (s \o t) /\ (s \o t)[k] = i
    BY <1>1, <1>3, <1>5, <2>1
  <2> QED
    BY <2>2 DEF ToSet
<1>7. ASSUME NEW i \in ToSet(t) PROVE i \in ToSet(s \o t)
  <2>1. PICK k \in 1..Len(t) : i = t[k]
    BY <1>1, <1>7 DEF ToSet
  <2>2. Len(s) + k \in DOMAIN (s \o t) /\ (s \o t)[Len(s) + k] = i
    BY <1>1, <1>4, <1>5, <2>1
  <2> QED
    BY <2>2 DEF ToSet
<1> QED
  BY <1>2, <1>3, <1>4, <1>6, <1>7

(* A registration takes nothing from what the walk has seen. *)
LEMMA SeenGrows ==
    ASSUME NEW w \in Walks, NEW ids \in SUBSET Ids, NEW i \in Ids \ ids
    PROVE  /\ SeenBy(w, ids) => SeenBy(w, ids \cup {i})
           /\ \A page \in Seq(Ids) : SeenBy(w, ids) /\ PageFor(w, ids, page)
                                           => PageFor(w, ids \cup {i}, page)
<1> DEFINE more == ids \cup {i}
<1> SUFFICES ASSUME SeenBy(w, ids)
             PROVE  /\ SeenBy(w, more)
                    /\ \A page \in Seq(Ids) : PageFor(w, ids, page) => PageFor(w, more, page)
  OBVIOUS
<1>1. more \in SUBSET Ids /\ ids \subseteq more
  OBVIOUS
<1>2. /\ Cardinality(ids) \in Nat /\ Cardinality(more) \in Nat
      /\ Cardinality(ids) <= Cardinality(more)
  BY <1>1, RowsAreFinite, FS_Subset
<1>3. w.start \subseteq ids /\ more # w.start
  BY DEF SeenBy
<1>4. \A j \in w.start : /\ Rank(ids, j) \in Nat /\ Rank(more, j) \in Nat
                         /\ Rank(ids, j) <= Rank(more, j)
  BY <1>1, <1>2, <1>3, RankGrows, RankType
<1>5. Behind(w) \in Nat
  BY BehindFits
<1> HIDE DEF more
<1>6. SeenBy(w, more)
  BY <1>1, <1>2, <1>3, <1>4, <1>5 DEF SeenBy
<1>7. ASSUME NEW page \in Seq(Ids), PageFor(w, ids, page) PROVE PageFor(w, more, page)
  <2>1. WalkSize \in Nat /\ Len(page) \in Nat
    BY ListingAssumption
  <2>2. Len(page) <= WalkSize /\ Behind(w) + Len(page) <= Cardinality(more)
    BY <1>2, <1>5, <1>7, <2>1 DEF PageFor
  <2>3. \A j \in w.start : \/ j \in ToSet(w.seen) \cup ToSet(page)
                           \/ Len(page) = WalkSize /\ Behind(w) + WalkSize < Rank(more, j)
    BY <1>4, <1>5, <1>7, <2>1 DEF PageFor
  <2> QED
    BY <1>3, <2>2, <2>3 DEF PageFor
<1> QED
  BY <1>6, <1>7

(* The page behind what the walk has seen. *)
LEMMA PageIsNext ==
    ASSUME NEW w \in Walks, NEW ids \in SUBSET Ids, SeenBy(w, ids)
    PROVE  /\ list_with_limit(ids, WalkSize, Behind(w)) \in Seq(Ids)
           /\ PageFor(w, ids, list_with_limit(ids, WalkSize, Behind(w)))
<1> DEFINE page == list_with_limit(ids, WalkSize, Behind(w))
           n == Cardinality(ids)
           b == Behind(w)
<1>1. WalkSize \in Nat /\ WalkSize > 0 /\ b \in Nat /\ n \in Nat /\ b <= n
  <2>1. WalkSize \in Nat /\ WalkSize > 0
    BY ListingAssumption
  <2>2. b \in Nat /\ n \in Nat
    BY BehindFits, RowsAreFinite
  <2>3. b <= n
    BY DEF SeenBy
  <2> QED
    BY <2>1, <2>2, <2>3
<1>2. /\ page \in Seq(Ids)
      /\ Len(page) = IF b + WalkSize <= n THEN WalkSize ELSE IF b < n THEN n - b ELSE 0
      /\ \A k \in 1..Len(page) : page[k] = ById(ids)[b + k]
  BY <1>1, PageOfListing
<1> HIDE DEF page, b
<1> HIDE DEF n
<1>3. Len(page) <= WalkSize /\ b + Len(page) <= n /\ (Len(page) < WalkSize => b + Len(page) = n)
  <2>1. \/ b + WalkSize <= n /\ Len(page) = WalkSize
        \/ b + WalkSize > n /\ b < n /\ Len(page) = n - b
        \/ b + WalkSize > n /\ b = n /\ Len(page) = 0
    BY <1>1, <1>2
  <2> QED
    BY <1>1, <2>1
<1>4. ASSUME NEW i \in w.start, i \notin ToSet(w.seen), i \notin ToSet(page)
      PROVE  Len(page) = WalkSize /\ b + WalkSize < Rank(ids, i)
  <2> DEFINE r == Rank(ids, i)
  <2>1. i \in ids /\ b < r
    BY <1>4 DEF SeenBy, b
  <2>2. r \in 1..n /\ ById(ids)[r] = i
    BY <2>1, RankType, ByIdRanks DEF n
  <2> HIDE DEF r
  <2>3. CASE r <= b + Len(page)
    <3>1. r - b \in 1..Len(page) /\ b + (r - b) = r
      BY <1>1, <1>2, <2>1, <2>2, <2>3
    <3>2. page[r - b] = i /\ r - b \in DOMAIN page
      BY <1>2, <2>2, <3>1
    <3>3. i \in ToSet(page)
      BY <3>2 DEF ToSet
    <3> QED
      BY <1>4, <3>3
  <2>4. CASE ~(r <= b + Len(page))
    BY <1>1, <1>2, <1>3, <2>2, <2>4 DEF r
  <2> QED
    BY <2>3, <2>4
<1>5. PageFor(w, ids, page)
  BY <1>2, <1>3, <1>4 DEF PageFor, b, n
<1> QED
  BY <1>2, <1>5 DEF page, b

(* After a full page the walk has seen the page as well. *)
LEMMA SeenWithPage ==
    ASSUME NEW w \in Walks, NEW ids \in SUBSET Ids, NEW page \in Seq(Ids), NEW v,
           SeenBy(w, ids), PageFor(w, ids, page), Len(page) >= WalkSize,
           v = [w EXCEPT !.num = @ + 1, !.seen = @ \o page]
    PROVE  v \in Walks /\ SeenBy(v, ids)
<1> DEFINE b == Behind(w)
           W == WalkSize
<1>1. /\ v.num = w.num + 1 /\ v.start = w.start /\ v.seen = w.seen \o page
      /\ w.seen \in Seq(Ids)
  BY DEF Walks
<1>2. v \in Walks
  <2>1. w.num + 1 \in Nat \ {0} /\ w.start \in SUBSET Ids /\ w.seen \o page \in Seq(Ids)
    BY <1>1, SeenTogether DEF Walks
  <2>2. v = [num |-> w.num + 1, start |-> w.start, seen |-> w.seen \o page]
    BY DEF Walks
  <2> QED
    BY <2>1, <2>2 DEF Walks
<1>3. b \in Nat /\ Behind(v) = b + W
  BY <1>1, <1>2, BehindSteps
<1>4. W \in Nat /\ Len(page) \in Nat /\ Len(page) = W
  BY ListingAssumption DEF PageFor
<1> HIDE DEF b, W
<1>5. v.start \subseteq ids /\ Behind(v) <= Cardinality(ids)
  BY <1>1, <1>3, <1>4 DEF SeenBy, PageFor, b, W
<1>6. ASSUME NEW i \in v.start PROVE i \in ToSet(v.seen) \/ Behind(v) < Rank(ids, i)
  BY <1>1, <1>3, SeenTogether DEF PageFor, b, W
<1>7. ASSUME ids = v.start
      PROVE  /\ Len(v.seen) = Behind(v)
             /\ \A k \in 1..Behind(v) : v.seen[k] = ById(ids)[k]
  <2>1. Len(w.seen) = b /\ \A k \in 1..b : w.seen[k] = ById(ids)[k]
    BY <1>1, <1>7 DEF SeenBy, b
  <2>2. \A k \in 1..W : page[k] = ById(ids)[b + k]
    BY <1>1, <1>4, <1>7 DEF PageFor, b
  <2>3. Len(v.seen) = Behind(v)
    BY <1>1, <1>3, <1>4, <2>1, SeenTogether
  <2>4. ASSUME NEW k \in 1..Behind(v) PROVE v.seen[k] = ById(ids)[k]
    <3>1. CASE k <= b
      <4>1. k \in 1..b
        BY <1>3, <3>1
      <4>2. (w.seen \o page)[k] = w.seen[k]
        BY <1>1, <2>1, <4>1, SeenTogether
      <4> QED
        BY <1>1, <2>1, <4>1, <4>2
    <3>2. CASE k > b
      <4>1. k - b \in 1..W /\ b + (k - b) = k
        BY <1>3, <1>4, <3>2
      <4>2. (w.seen \o page)[Len(w.seen) + (k - b)] = page[k - b]
        BY <1>1, <1>4, <4>1, SeenTogether
      <4>3. page[k - b] = ById(ids)[k]
        BY <2>2, <4>1
      <4>4. Len(w.seen) + (k - b) = k
        BY <2>1, <4>1
      <4> QED
        BY <1>1, <4>2, <4>3, <4>4
    <3>3. k <= b \/ k > b
      BY <1>3, <1>4
    <3> QED
      BY <3>1, <3>2, <3>3
  <2> QED
    BY <2>3, <2>4
<1> QED
  BY <1>2, <1>5, <1>6, <1>7 DEF SeenBy
-----------------------------------------------------------------------------
(* The steps. *)

(* Requests and answers by their stage. *)
LEMMA Stages ==
    ASSUME TypeInv
    PROVE  /\ handler.pc = "idle" <=> handler = NoRequest
           /\ handler.pc = "list" => handler \in Asked
           /\ handler.pc = "count" => handler \in Counting
           /\ answer.status = "200" => answer \in Successes
           /\ answer.status = "none" <=> answer = NoAnswer
  BY DEF TypeInv, NoRequest, NoAnswer, Asked, Counting, Successes

LEMMA PageType ==
    ASSUME TypeInv, handler.pc = "list", Paged(handler), Wrap(Offset(handler)) >= 0
    PROVE  /\ OrZero(handler.size) \in Nat /\ Wrap(Offset(handler)) \in Nat
           /\ list_with_limit(rows, OrZero(handler.size), Wrap(Offset(handler))) \in Seq(Ids)
<1>1. handler.size \in Params /\ handler.num \in Params
  BY Stages DEF Asked
<1>2. OrZero(handler.size) \in Nat
  BY <1>1, OrZeroValue DEF Paged
<1>3. Wrap(Offset(handler)) \in Nat
  BY <1>1, OffsetType, WrapType
<1> QED
  BY <1>2, <1>3, PageOfListing DEF TypeInv

LEMMA RequestType ==
    ASSUME NEW size \in Params, NEW num \in Params
    PROVE  Request(size, num) \in Asked
  BY DEF Request, Asked

LEMMA TypeStep ==
    ASSUME TypeInv, [Next]_vars
    PROVE  TypeInv'
<1> USE DEF TypeInv
<1>1. ASSUME NEW i \in Ids, Register(i) PROVE TypeInv'
  BY <1>1 DEF Register
<1>2. CASE ListWhole
  <2>1. handler \in Asked
    BY <1>2, Stages DEF ListWhole
  <2>2. ById(rows) \in Seq(Ids)
    <3>1. ById(rows) \in Seq(rows)
      BY ByIdRanks
    <3> QED
      BY <3>1
  <2>3. handler' \in Counting
    BY <1>2, <2>1, <2>2 DEF ListWhole, Listed, Asked, Counting
  <2> QED
    BY <1>2, <2>3 DEF ListWhole
<1>3. CASE ListPage
  <2>1. handler \in Asked
    BY <1>3, Stages DEF ListPage
  <2>2. list_with_limit(rows, OrZero(handler.size), Wrap(Offset(handler))) \in Seq(Ids)
    BY <1>3, PageType DEF ListPage
  <2>3. handler' \in Counting
    BY <1>3, <2>1, <2>2 DEF ListPage, Listed, Asked, Counting
  <2> QED
    BY <1>3, <2>3 DEF ListPage
<1>4. CASE PanicOnOverflow
  BY <1>4 DEF PanicOnOverflow
<1>5. CASE Count
  <2>1. handler \in Counting /\ Cardinality(rows) \in Nat
    BY <1>5, Stages, RowsAreFinite DEF Count
  <2>2. answer' \in Successes
    BY <1>5, <2>1 DEF Count, Success, Counting, Successes
  <2> QED
    BY <1>5, <2>2 DEF Count
<1>6. CASE QueryFails
  BY <1>6 DEF QueryFails
<1>7. CASE AskOnce
  <2>1. Optional(Sizes) \subseteq Params /\ Optional(Nums) \subseteq Params
    BY ListingAssumption DEF Optional, Params
  <2>2. PICK size \in Params, num \in Params : Receive(size, num) \/ Refuse(size, num)
    BY <1>7, <2>1 DEF AskOnce
  <2>3. CASE Receive(size, num)
    BY <1>7, <2>3, RequestType DEF AskOnce, Receive
  <2>4. CASE Refuse(size, num)
    BY <1>7, <2>4 DEF AskOnce, Refuse
  <2> QED
    BY <2>2, <2>3, <2>4
<1>8. CASE Forget
  BY <1>8 DEF Forget
<1>9. {WalkSize} \in Params /\ \A n \in Nat : {n} \in Params
  BY ListingAssumption DEF Params
<1>10. CASE StartWalk
  <2>1. handler' \in Asked
    BY <1>9, <1>10, RequestType DEF StartWalk, Receive
  <2> QED
    BY <1>10, <2>1 DEF StartWalk, Receive
<1>11. CASE Retry
  <2>1. handler' \in Asked
    BY <1>9, <1>11, RequestType DEF Retry
  <2> QED
    BY <1>11, <2>1 DEF Retry
<1>12. CASE NextPage
  <2>1. handler' \in Asked
    <3>1. walk.num + 1 \in Nat
      OBVIOUS
    <3> QED
      BY <1>9, <1>12, <3>1, RequestType DEF NextPage
  <2>2. walk.seen \o answer.page \in Seq(Ids)
    BY <1>12, Stages, SeenTogether DEF NextPage, Successes
  <2>3. walk' \in [num : Nat, start : SUBSET Ids, seen : Seq(Ids)]
    <3>1. walk.num + 1 \in Nat /\ walk.start \in SUBSET Ids
      OBVIOUS
    <3>2. walk' = [num |-> walk.num + 1, start |-> walk.start,
                   seen |-> walk.seen \o answer.page]
      BY <1>12 DEF NextPage
    <3> QED
      BY <2>2, <3>1, <3>2
  <2> QED
    BY <1>12, <2>1, <2>3 DEF NextPage
<1>13. CASE EndWalk
  BY <1>13 DEF EndWalk
<1>14. CASE UNCHANGED vars
  BY <1>14 DEF vars
<1> HIDE DEF TypeInv
<1> QED
  BY <1>1, <1>2, <1>3, <1>4, <1>5, <1>6, <1>7, <1>8, <1>10, <1>11, <1>12, <1>13, <1>14,
     ZenonT(60) DEF Next

(* A listing reaches no further than the rows there were. *)
LEMMA ListedReaches ==
    ASSUME TypeInv, ListWhole \/ ListPage
    PROVE  Reaches(handler', Cardinality(rows))
<1>1. handler \in Asked /\ rows \in SUBSET Ids
  BY Stages DEF ListWhole, ListPage, TypeInv
<1>2. /\ handler'.size = handler.size /\ handler'.num = handler.num
      /\ Offset(handler') = Offset(handler) /\ Paged(handler') = Paged(handler)
  BY DEF ListWhole, ListPage, Listed, Offset, Paged
<1>3. Cardinality(rows) \in Nat
  BY <1>1, RowsAreFinite
<1>4. CASE ListWhole
  <2>1. Len(handler'.page) = Cardinality(rows)
    BY <1>1, <1>4, ByIdRanks DEF ListWhole, Listed
  <2>2. ~Paged(handler')
    BY <1>2, <1>4 DEF ListWhole
  <2> QED
    BY <1>3, <2>1, <2>2 DEF Reaches
<1>5. CASE ListPage
  <2> DEFINE size == OrZero(handler.size)
             offset == Wrap(Offset(handler))
             page == list_with_limit(rows, size, offset)
  <2>1. size \in Nat /\ offset \in Nat
    BY <1>5, PageType DEF ListPage
  <2>2. handler'.page = page
    BY <1>5 DEF ListPage, Listed
  <2>3. ASSUME page # <<>>, Fits(Offset(handler))
        PROVE  Cardinality(rows) >= Len(page) + Offset(handler)
    <3>1. offset = Offset(handler)
      BY <1>1, <2>3, OffsetType, WrapKeeps DEF Asked
    <3>2. /\ page \in Seq(Ids)
          /\ Len(page) = IF offset + size <= Cardinality(rows) THEN size
                         ELSE IF offset < Cardinality(rows) THEN Cardinality(rows) - offset ELSE 0
      BY <1>1, <2>1, PageOfListing
    <3>3. Len(page) > 0
      BY <2>3, <3>2, EmptySeq
    <3> HIDE DEF page, size, offset
    <3> QED
      BY <1>3, <2>1, <3>1, <3>2, <3>3
  <2>4. Paged(handler')
    BY <1>2, <1>5 DEF ListPage
  <2> HIDE DEF page
  <2> QED
    BY <1>2, <2>2, <2>3, <2>4 DEF Reaches
<1> QED
  BY <1>4, <1>5
LEMMA ReachStep ==
    ASSUME TypeInv, ReachInv, [Next]_vars
    PROVE  ReachInv'
<1> USE DEF ReachInv
<1>1. ASSUME NEW i \in Ids, Register(i) PROVE ReachInv'
  <2>1. /\ handler' = handler /\ answer' = answer
        /\ rows \in SUBSET Ids /\ rows' \in SUBSET Ids /\ rows \subseteq rows'
    BY <1>1 DEF Register, TypeInv
  <2>2. /\ Cardinality(rows) \in Nat /\ Cardinality(rows') \in Nat
        /\ Cardinality(rows) <= Cardinality(rows')
    BY <2>1, RowsAreFinite, FS_Subset
  <2>3. ASSUME handler.pc = "count", Reaches(handler, Cardinality(rows))
        PROVE  Reaches(handler, Cardinality(rows'))
    <3>1. Len(handler.page) \in Nat /\ Offset(handler) \in Int
      BY <2>3, Stages, OffsetType DEF Counting
    <3> QED
      BY <2>2, <2>3, <3>1 DEF Reaches
  <2> QED
    BY <2>1, <2>3
<1>2. CASE ListWhole \/ ListPage
  <2>1. Reaches(handler', Cardinality(rows))
    BY <1>2, ListedReaches
  <2> QED
    BY <1>2, <2>1 DEF ListWhole, ListPage
<1>3. CASE Count
  <2>1. Reaches(handler, Cardinality(rows)) /\ answer' = Success(handler, Cardinality(rows))
    BY <1>3 DEF Count
  <2>2. /\ answer'.page = handler.page /\ answer'.count = Cardinality(rows)
        /\ Offset(answer') = Offset(handler) /\ Paged(answer') = Paged(handler)
    BY <2>1 DEF Success, Offset, Paged
  <2>3. Reaches(answer', answer'.count)
    BY <2>1, <2>2 DEF Reaches
  <2> QED
    BY <1>3, <2>3 DEF Count, NoRequest
<1>4. CASE PanicOnOverflow \/ QueryFails
  BY <1>4 DEF PanicOnOverflow, QueryFails, NoRequest
<1>5. CASE AskOnce
  <2>1. handler'.pc # "count" \/ handler' = handler
    BY <1>5 DEF AskOnce, Receive, Refuse, Request
  <2>2. answer'.status # "200" /\ rows' = rows
    BY <1>5 DEF AskOnce, Receive, Refuse, NoAnswer
  <2> QED
    BY <2>1, <2>2
<1>6. CASE StartWalk \/ Retry \/ NextPage
  BY <1>6 DEF StartWalk, Receive, Retry, NextPage, Request, NoAnswer
<1>7. CASE Forget \/ EndWalk
  BY <1>7 DEF Forget, EndWalk, NoAnswer
<1>8. CASE UNCHANGED vars
  BY <1>8 DEF vars
<1> HIDE DEF ReachInv
<1> QED
  BY <1>1, <1>2, <1>3, <1>4, <1>5, <1>6, <1>7, <1>8, ZenonT(60) DEF Next

LEMMA WalkStarts ==
    ASSUME NEW w \in Walks, w.num = 1, w.seen = <<>>
    PROVE  SeenBy(w, w.start)
<1>1. [w EXCEPT !.num = @ + 1] \in Walks /\ [w EXCEPT !.num = @ + 1].num = w.num + 1
  BY DEF Walks
<1>2. Behind(w) = 0
  BY <1>1, BehindSteps
<1>3. w.start \in SUBSET Ids /\ Cardinality(w.start) \in Nat
  BY RowsAreFinite DEF Walks
<1>4. \A i \in w.start : Rank(w.start, i) > 0
  BY <1>3, RankType
<1>5. Len(w.seen) = 0
  OBVIOUS
<1> QED
  BY <1>2, <1>3, <1>4, <1>5 DEF SeenBy

(* The walk's own steps and those of its requests keep what it has seen.   *)
LEMMA WalkStep ==
    ASSUME TypeInv, WalkInv, [Next]_vars
    PROVE  WalkInv'
<1> SUFFICES ASSUME Walking' PROVE WalkInv'
  BY DEF WalkInv
<1>0. /\ rows \in SUBSET Ids
      /\ Walking => walk \in Walks
  BY DEF TypeInv, Walking, Walks
<1> DEFINE Same == walk' = walk /\ rows' = rows
<1>1. ASSUME NEW i \in Ids, Register(i) PROVE WalkInv'
  <2>1. /\ rows' = rows \cup {i} /\ i \in Ids \ rows
        /\ handler' = handler /\ answer' = answer /\ walk' = walk
    BY <1>1 DEF Register
  <2>2. Walking /\ SeenBy(walk, rows)
    BY <2>1 DEF Walking, WalkInv
  <2>3. /\ SeenBy(walk, rows \cup {i})
        /\ \A page \in Seq(Ids) : PageFor(walk, rows, page) => PageFor(walk, rows \cup {i}, page)
    BY <1>0, <2>1, <2>2, SeenGrows
  <2>4. handler.pc = "count" => PageFor(walk, rows \cup {i}, handler.page)
    BY <2>2, <2>3, Stages DEF WalkInv, Counting
  <2>5. answer.status = "200" => PageFor(walk, rows \cup {i}, answer.page)
    BY <2>2, <2>3, Stages DEF WalkInv, Successes
  <2> QED
    BY <2>1, <2>2, <2>3, <2>4, <2>5 DEF WalkInv, Walking
<1>2. ASSUME Same, Walking
      PROVE  SeenBy(walk', rows') /\ SeenBy(walk, rows) /\ walk \in Walks
  BY <1>0, <1>2 DEF WalkInv
<1>3. CASE ListWhole
  <2>1. Same /\ Walking /\ handler # NoRequest
    BY <1>3 DEF ListWhole, Walking, NoRequest
  <2>2. handler.size = {WalkSize} /\ handler.num = {walk.num} /\ walk.num \in Nat
    BY <1>0, <2>1 DEF WalkInv, Walks
  <2>3. WalkSize > 0 /\ WalkSize \in Int /\ walk.num > 0 /\ walk.num \in Int
    BY <2>1, <2>2, ListingAssumption DEF Walking
  <2>4. Paged(handler)
    BY <2>2, <2>3, OrZeroValue DEF Paged
  <2> QED
    BY <1>3, <2>4 DEF ListWhole
<1>4. ASSUME Walking, handler # NoRequest
      PROVE  /\ OrZero(handler.size) = WalkSize /\ Offset(handler) = Behind(walk)
             /\ answer = NoAnswer
  <2>1. handler.size = {WalkSize} /\ handler.num = {walk.num} /\ answer = NoAnswer
    BY <1>4 DEF WalkInv
  <2>2. WalkSize \in Int /\ walk.num \in Int
    BY <1>0, <1>4, ListingAssumption DEF Walks
  <2> QED
    BY <2>1, <2>2, OrZeroValue DEF Offset, Behind
<1>5. CASE ListPage
  <2>1. Same /\ Walking /\ handler # NoRequest /\ answer' = answer
    BY <1>5 DEF ListPage, Walking, NoRequest
  <2>2. SeenBy(walk, rows) /\ walk \in Walks
    BY <1>2, <2>1
  <2>3. Wrap(Offset(handler)) = Behind(walk) /\ OrZero(handler.size) = WalkSize
    BY <1>0, <1>4, <2>1, <2>2, BehindFits
  <2>4. handler'.page = list_with_limit(rows, WalkSize, Behind(walk))
    BY <1>5, <2>3 DEF ListPage, Listed
  <2>5. PageFor(walk, rows, handler'.page)
    BY <1>0, <2>2, <2>4, PageIsNext
  <2>6. handler'.size = handler.size /\ handler'.num = handler.num
    BY <1>5 DEF ListPage, Listed
  <2>7. answer.status # "200" /\ answer.status # "closed"
    BY <1>4, <2>1 DEF NoAnswer
  <2> QED
    BY <2>1, <2>2, <2>5, <2>6, <2>7 DEF WalkInv
<1>6. CASE PanicOnOverflow
  <2>1. Same /\ Walking /\ handler # NoRequest /\ ~Fits(Offset(handler))
    BY <1>6 DEF PanicOnOverflow, Walking, NoRequest
  <2>2. Offset(handler) = Behind(walk) /\ Fits(Behind(walk))
    BY <1>0, <1>2, <1>4, <2>1, BehindFits
  <2> QED
    BY <2>1, <2>2
<1>7. CASE Count
  <2>1. /\ Same /\ Walking /\ handler' = NoRequest /\ answer'.status = "200"
        /\ answer'.page = handler.page
    BY <1>7 DEF Count, Success, Walking
  <2>2. PageFor(walk, rows, answer'.page)
    BY <1>7, <2>1 DEF WalkInv, Count
  <2> QED
    BY <1>2, <2>1, <2>2 DEF WalkInv, NoRequest
<1>8. CASE QueryFails
  <2>1. Same /\ Walking /\ handler' = NoRequest /\ answer'.status = "500"
    BY <1>8 DEF QueryFails, Walking
  <2> QED
    BY <1>2, <2>1 DEF WalkInv, NoRequest
<1>9. CASE AskOnce \/ Forget
  BY <1>9 DEF AskOnce, Forget, Walking
<1>10. CASE StartWalk
  <2>1. /\ walk' = [num |-> 1, start |-> rows, seen |-> <<>>] /\ rows' = rows
        /\ handler' = Request({WalkSize}, {1}) /\ answer' = NoAnswer
    BY <1>10 DEF StartWalk, Receive
  <2>2. walk' \in Walks
    BY <1>0, <2>1 DEF Walks
  <2>3. SeenBy(walk', rows')
    BY <2>1, <2>2, WalkStarts
  <2> QED
    BY <2>1, <2>3 DEF WalkInv, Request, NoAnswer
<1>11. CASE Retry
  <2>1. /\ Same /\ Walking /\ handler' = Request({WalkSize}, {walk.num})
        /\ answer' = NoAnswer
    BY <1>11 DEF Retry
  <2> QED
    BY <1>2, <2>1 DEF WalkInv, Request, NoAnswer
<1>12. CASE NextPage
  <2>1. Walking /\ answer.status = "200" /\ Len(answer.page) >= WalkSize
    BY <1>12 DEF NextPage
  <2>2. /\ walk \in Walks /\ SeenBy(walk, rows)
        /\ answer.page \in Seq(Ids) /\ PageFor(walk, rows, answer.page)
    BY <1>0, <2>1, Stages DEF WalkInv, Successes
  <2>3. /\ walk' = [walk EXCEPT !.num = @ + 1, !.seen = @ \o answer.page]
        /\ rows' = rows /\ handler' = Request({WalkSize}, {walk.num + 1})
        /\ answer' = NoAnswer
    BY <1>12 DEF NextPage
  <2>4. SeenBy(walk', rows')
    BY <1>0, <2>1, <2>2, <2>3, SeenWithPage
  <2>5. walk'.num = walk.num + 1
    BY <2>2, <2>3 DEF Walks
  <2> QED
    BY <2>3, <2>4, <2>5 DEF WalkInv, Request, NoAnswer
<1>13. CASE EndWalk
  BY <1>13 DEF EndWalk, Walking
<1>14. CASE UNCHANGED vars
  BY <1>14 DEF vars, WalkInv, Walking
<1> HIDE DEF Same
<1> QED
  BY <1>1, <1>3, <1>5, <1>6, <1>7, <1>8, <1>9, <1>10, <1>11, <1>12, <1>13, <1>14,
     ZenonT(60) DEF Next

LEMMA Invariance == Spec => []IInv
<1>1. Init => IInv
  <2>1. Init => TypeInv
    BY DEF Init, TypeInv, NoRequest, NoAnswer
  <2>2. Init => ReachInv /\ WalkInv
    BY DEF Init, ReachInv, WalkInv, Walking, NoRequest, NoAnswer
  <2> QED
    BY <2>1, <2>2 DEF IInv
<1>2. IInv /\ [Next]_vars => IInv'
  BY TypeStep, ReachStep, WalkStep DEF IInv
<1> QED
  BY <1>1, <1>2, PTL DEF Spec
-----------------------------------------------------------------------------
(* A walk through the pages ends having shown every row it started with,   *)
(* although rows are inserted anywhere and queries fail on the way:        *)
(* list_all asks for each page with an offset of its own.                  *)
THEOREM WalksMissNothing == Spec => []WalkMissesNothing
<1>1. IInv => WalkMissesNothing
  <2> SUFFICES ASSUME IInv, WalkEnded PROVE walk.start \subseteq ToSet(Shown)
    BY DEF WalkMissesNothing
  <2>1. Walking /\ answer.status = "200" /\ Len(answer.page) < WalkSize
    BY DEF WalkEnded
  <2>2. /\ PageFor(walk, rows, answer.page)
        /\ walk.seen \in Seq(Ids) /\ answer.page \in Seq(Ids)
    BY <2>1, Stages DEF IInv, TypeInv, WalkInv, Successes
  <2>3. walk.start \subseteq ToSet(walk.seen) \cup ToSet(answer.page)
    BY <2>1, <2>2, ListingAssumption DEF PageFor
  <2> QED
    BY <2>2, <2>3, SeenTogether DEF Shown
<1> QED
  BY <1>1, Invariance, PTL

(* While nothing is registered, a walk shows each row exactly once and in  *)
(* the order of ids: the pages of list_with_limit fit together.            *)
THEOREM QuietWalksAreExact == Spec => []QuietWalkIsExact
<1>1. IInv => QuietWalkIsExact
  <2> SUFFICES ASSUME IInv, WalkEnded, rows = walk.start PROVE Shown = ById(rows)
    BY DEF QuietWalkIsExact
  <2>1. Walking /\ answer.status = "200" /\ Len(answer.page) < WalkSize
    BY DEF WalkEnded
  <2>2. /\ SeenBy(walk, rows) /\ PageFor(walk, rows, answer.page)
        /\ walk.seen \in Seq(Ids) /\ answer.page \in Seq(Ids)
        /\ rows \in SUBSET Ids /\ walk \in Walks
    BY <2>1, Stages DEF IInv, TypeInv, WalkInv, Successes, Walking, Walks
  <2> DEFINE b == Behind(walk)
             n == Cardinality(rows)
             page == answer.page
             seen == walk.seen
  <2>3. b \in Nat /\ n \in Nat /\ Len(page) \in Nat
    BY <2>2, BehindFits, RowsAreFinite
  <2>4. Len(seen) = b /\ \A k \in 1..b : seen[k] = ById(rows)[k]
    BY <2>2 DEF SeenBy
  <2>5. b + Len(page) = n /\ \A k \in 1..Len(page) : page[k] = ById(rows)[b + k]
    BY <2>1, <2>2 DEF PageFor
  <2>6. Shown \in Seq(Ids) /\ Len(Shown) = n
    <3>1. Shown \in Seq(Ids) /\ Len(Shown) = Len(seen) + Len(page)
      BY <2>2, SeenTogether DEF Shown
    <3> QED
      BY <2>4, <2>5, <3>1
  <2> HIDE DEF b, n
  <2>7. ASSUME NEW k \in 1..n PROVE Shown[k] = ById(rows)[k]
    <3>1. CASE k <= b
      <4>1. k \in 1..b
        BY <2>3, <3>1
      <4>2. Shown[k] = seen[k]
        BY <2>2, <2>4, <4>1, SeenTogether DEF Shown
      <4> QED
        BY <2>4, <4>1, <4>2
    <3>2. CASE k > b
      <4>1. k - b \in 1..Len(page) /\ b + (k - b) = k
        BY <2>3, <2>5, <3>2
      <4>2. Shown[b + (k - b)] = page[k - b]
        BY <2>2, <2>4, <4>1, SeenTogether DEF Shown
      <4>3. page[k - b] = ById(rows)[k]
        BY <2>5, <4>1
      <4> QED
        BY <4>1, <4>2, <4>3
    <3>3. k <= b \/ k > b
      BY <2>3
    <3> QED
      BY <3>1, <3>2, <3>3
  <2>8. ById(rows) \in Seq(rows) /\ Len(ById(rows)) = n
    BY <2>2, ByIdRanks DEF n
  <2>9. ById(rows) \in Seq(Ids)
    BY <2>2, <2>8
  <2> QED
    BY <2>6, <2>7, <2>8, <2>9, SeqEqual
<1> QED
  BY <1>1, Invariance, PTL

(* The offset a walk asks for never overflows, so a debug build never      *)
(* panics under it: the product in list_with_limit is at most the number   *)
(* of rows.                                                                *)
THEOREM WalksNeverOverflow == Spec => []WalkNeverOverflows
<1>1. IInv => WalkNeverOverflows
  <2> SUFFICES ASSUME IInv, Walking
               PROVE  Fits(Product(WalkSize, walk.num)) /\ answer.status # "closed"
    BY DEF WalkNeverOverflows
  <2>1. SeenBy(walk, rows) /\ walk \in Walks /\ rows \in SUBSET Ids
    BY DEF IInv, TypeInv, WalkInv, Walking, Walks
  <2>2. Fits(Behind(walk))
    BY <2>1, BehindFits
  <2> QED
    BY <2>2 DEF Behind, IInv, WalkInv
<1> QED
  BY <1>1, Invariance, PTL

(* The count answered with a page is at least the place of its last row,   *)
(* although list_all takes it in a later query than the page.              *)
THEOREM CountsReachPages == Spec => []CountReachesPage
<1>1. IInv => CountReachesPage
  BY DEF IInv, ReachInv, Reaches, CountReachesPage
<1> QED
  BY <1>1, Invariance, PTL
=============================================================================
