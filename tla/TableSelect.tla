---------------------------- MODULE TableSelect ----------------------------
(***************************************************************************)
(* The TSELECT execution engine (src/src/tables/select.rs): from a parsed  *)
(* plan to its answer, through index candidates, order and pagination      *)
(* push-down, early limits, the fast aggregate path and the hash join,     *)
(* each of which may only save work.  The table has an INT primary key id, *)
(* a nullable STR column s (set index) and a nullable INT column n (sorted *)
(* index); the indexes are functions of the rows, as Tables shows.  A row  *)
(* whose TTL has passed stays in the indexes until the sweep.  Iterating a *)
(* hash set yields any order, so an operator yields the set of answers the *)
(* engine may give.                                                        *)
(***************************************************************************)
EXTENDS Integers, Sequences, FiniteSets, SequencesExt

CONSTANTS
  Pks,            \* primary keys: a set of positive integers
  StrVals,        \* values of s: naturals that stand for strings in their order
  IntVals,        \* values of n: naturals
  Queries,        \* the plans that are asked in every state
  MaxCandidates   \* limits.max_query_candidates

VARIABLES
  table,          \* the stored rows
  lapsed          \* the stored rows whose TTL has passed

selectVars == <<table, lapsed>>

Null == -1
Low == -8
High == 8
NoRow == [s |-> Null - 1, n |-> Null - 1]
Row == [s : StrVals \cup {Null}, n : IntVals \cup {Null}]
None == -2                                   \* an absent LIMIT
Refused == [refused |-> TRUE, rows |-> <<>>, agg |-> <<>>]
Rows(seq) == [refused |-> FALSE, rows |-> seq, agg |-> <<>>]
Aggregate(v) == [refused |-> FALSE, rows |-> <<>>, agg |-> v]

Stored == {p \in Pks : table[p] # NoRow}
Live == Stored \ lapsed
Cell(p, col) == IF col = "id" THEN p ELSE table[p][col]

SelectInit == table = [p \in Pks |-> NoRow] /\ lapsed = {}

(* The statements that shape the table; Tables models what they do.        *)
InsertRow(p, row) == p \notin Stored /\ table' = [table EXCEPT ![p] = row] /\ UNCHANGED lapsed
Lapse(p) == p \in Live /\ lapsed' = lapsed \cup {p} /\ UNCHANGED table
DeleteRow(p) == p \in Stored /\ table' = [table EXCEPT ![p] = NoRow] /\ lapsed' = lapsed \ {p}

SelectNext ==
  \/ \E p \in Pks, row \in Row : InsertRow(p, row)
  \/ \E p \in Pks : Lapse(p)
  \/ \E p \in Pks : DeleteRow(p)

SelectSpec == SelectInit /\ [][SelectNext]_selectVars

-----------------------------------------------------------------------------
(* Conditions.  A clause is a set of conditions: one, or the arms of an OR. *)

Ranged == {"=", ">", ">=", "<", "<="}

Compare(v, op, w) ==
  CASE op = "=" -> v = w [] op = "!=" -> v # w [] op = ">" -> v > w
    [] op = ">=" -> v >= w [] op = "<" -> v < w [] op = "<=" -> v <= w [] OTHER -> FALSE

\* matches_condition: an absent column is null, which != and IS NULL match.
MatchesCondition(v, c) ==
  IF v = Null THEN c.op \in {"!=", "isnull"}
  ELSE CASE c.op = "isnull" -> FALSE [] c.op = "notnull" -> TRUE
         [] c.op = "in" -> v \in c.vals [] c.op = "notin" -> v \notin c.vals
         [] OTHER -> Compare(v, c.op, c.val)

\* row_passes_conditions reads the fields it needs and not the row's TTL.
RowPasses(p, conds) ==
  \A i \in DOMAIN conds : \E c \in conds[i] : MatchesCondition(Cell(p, c.col), c)

\* get_row: a row past its TTL is not there.
Hydrates(p) == p \in Live

-----------------------------------------------------------------------------
(* Reading the indexes                                                     *)

Unbounded == [min |-> Low, max |-> High, minx |-> FALSE, maxx |-> FALSE]

InRange(v, r) ==
  /\ IF r.minx THEN v > r.min ELSE v >= r.min
  /\ IF r.maxx THEN v < r.max ELSE v <= r.max

BoundsOf(c) ==
  [min |-> IF c.op \in {"=", ">", ">="} THEN c.val ELSE Low,
   max |-> IF c.op \in {"=", "<", "<="} THEN c.val ELSE High,
   minx |-> c.op = ">", maxx |-> c.op = "<"]

Window(seq, off, lim) ==
  LET rest == SubSeq(seq, off + 1, Len(seq)) IN
  IF lim = None \/ lim >= Len(rest) THEN rest ELSE SubSeq(rest, 1, lim)

\* zrangebyscore over the sorted index of col (or the ids set): score, then key.
ZRange(col, r, asc, off, lim) ==
  LET before(p, q) == \/ Cell(p, col) < Cell(q, col)
                      \/ Cell(p, col) = Cell(q, col) /\ p < q
      up == SetToSortSeq({p \in Stored : Cell(p, col) # Null /\ InRange(Cell(p, col), r)}, before)
  IN Window(IF asc THEN up ELSE Reverse(up), off, lim)

AtMost(lim) == IF lim = None \/ lim > MaxCandidates THEN MaxCandidates + 1 ELSE lim
Overflows(n) == n > MaxCandidates

\* candidates_from_index and candidates_from_implicit_id: the sets one condition
\* may select (set members come in any order); {} when no index serves it.
IndexCandidates(c, lim) ==
  CASE c.col = "id" /\ c.op = "=" -> {{p \in Stored : p = c.val}}
    [] c.col = "s" /\ c.op = "=" ->
         LET members == {p \in Stored : table[p].s = c.val}
             size == IF Cardinality(members) <= AtMost(lim) THEN Cardinality(members) ELSE AtMost(lim)
         IN {m \in SUBSET members : Cardinality(m) = size}
    [] c.col \in {"id", "n"} /\ c.op \in Ranged ->
         {Range(ZRange(c.col, BoundsOf(c), TRUE, 0, AtMost(lim)))}
    [] OTHER -> {}

Plain(clause) == Cardinality(clause) = 1
Only(clause) == CHOOSE c \in clause : TRUE

\* Variant: an OR group is narrowed by the index of one arm.
NarrowsByOneArm(conds, early) ==
  LET lim == IF Len(conds) = 1 THEN early ELSE None
      served(i) == IndexCandidates(Only(conds[i]), lim)
      narrowing == {i \in DOMAIN conds : served(i) # {}}
  IN {{p \in Stored : \A i \in narrowing : p \in pick[i]} :
        pick \in {f \in [narrowing -> SUBSET Stored] : \A i \in narrowing : f[i] \in served(i)}}

\* build_candidate_set: the intersection of what the indexes offer; the limit is
\* passed down for a single condition only, and an OR group narrows nothing.
BuildCandidateSet(conds, early) ==
  LET lim == IF Len(conds) = 1 THEN early ELSE None
      served(i) == IF Plain(conds[i]) THEN IndexCandidates(Only(conds[i]), lim) ELSE {}
      narrowing == {i \in DOMAIN conds : served(i) # {}}
  IN {{p \in Stored : \A i \in narrowing : p \in pick[i]} :
        pick \in {f \in [narrowing -> SUBSET Stored] : \A i \in narrowing : f[i] \in served(i)}}

\* ensure_candidate_count on what one index returned.
IndexOverflows(conds, early) ==
  \E i \in {j \in DOMAIN conds : Plain(conds[j])} :
    \E m \in IndexCandidates(Only(conds[i]), IF Len(conds) = 1 THEN early ELSE None) :
      Overflows(Cardinality(m))

\* Whether any condition is served, that is, whether there is a candidate set.
HasCandidateSet(conds) ==
  \E i \in DOMAIN conds : Plain(conds[i]) /\ IndexCandidates(Only(conds[i]), None) # {}

\* score_range_from_conditions: usable when every clause bounds the order column.
Rangeable(conds, col) ==
  \A i \in DOMAIN conds :
    Plain(conds[i]) /\ Only(conds[i]).col = col /\ Only(conds[i]).op \in Ranged
Narrow(r, c) ==
  CASE c.op = "=" -> [min |-> c.val, max |-> c.val, minx |-> FALSE, maxx |-> FALSE]
    [] c.op = ">" /\ (c.val > r.min \/ (c.val = r.min /\ ~r.minx)) ->
         [r EXCEPT !.min = c.val, !.minx = TRUE]
    [] c.op = ">=" /\ c.val > r.min -> [r EXCEPT !.min = c.val, !.minx = FALSE]
    [] c.op = "<" /\ (c.val < r.max \/ (c.val = r.max /\ ~r.maxx)) ->
         [r EXCEPT !.max = c.val, !.maxx = TRUE]
    [] c.op = "<=" /\ c.val < r.max -> [r EXCEPT !.max = c.val, !.maxx = FALSE]
    [] OTHER -> r
ScoreRange(conds) == FoldLeft(LAMBDA r, cl : Narrow(r, Only(cl)), Unbounded, conds)

-----------------------------------------------------------------------------
(* plan_table_scan                                                         *)

Scan(ids, ordered, paged) == [ids |-> ids, ordered |-> ordered, paged |-> paged]

\* bounded_order_pagination
PagesInIndex(q) == q.limit # None /\ q.offset + q.limit <= MaxCandidates

\* candidates_from_order_index: numeric columns and the key have an order.
OrderIndexed(col) == col \in {"id", "n"}

OrderScan(q, r, push) ==
  LET paged == push /\ PagesInIndex(q) IN
  Scan(ZRange(q.order, r, q.asc, IF paged THEN q.offset ELSE 0,
              IF paged THEN q.limit ELSE MaxCandidates + 1), TRUE, paged)

\* Truncation before the rows are checked is safe when nothing else can drop one.
CanApplyEarlyLimit(conds) == conds = <<>> \/ (Len(conds) = 1 /\ HasCandidateSet(conds))

PlanTableScan(q, conds, pushdown, early) ==
  IF pushdown /\ q.order # "" /\ OrderIndexed(q.order) /\ Rangeable(conds, q.order)
  THEN {OrderScan(q, ScoreRange(conds), TRUE)}
  ELSE IF pushdown /\ q.order # "" /\ OrderIndexed(q.order) /\ ~HasCandidateSet(conds)
  THEN {OrderScan(q, Unbounded, conds = <<>>)}
  ELSE LET cut == IF CanApplyEarlyLimit(conds) THEN early ELSE None
           full == ZRange("id", Unbounded, TRUE, 0, AtMost(cut))
           orders == IF HasCandidateSet(conds)
                     THEN UNION {SetToSeqs(cand) : cand \in BuildCandidateSet(conds, early)}
                     ELSE {full}
       IN {Scan(Window(ids, 0, cut), FALSE, FALSE) : ids \in orders}

-----------------------------------------------------------------------------
(* Aggregates                                                              *)

Total(vals) == FoldLeft(+, 0, vals)
Least(vals) == FoldLeft(LAMBDA a, b : IF b < a THEN b ELSE a, Head(vals), vals)
Greatest(vals) == FoldLeft(LAMBDA a, b : IF b > a THEN b ELSE a, Head(vals), vals)

\* AVG is kept as the pair (sum, count) its quotient is taken from.
Summary(func, vals) ==
  CASE func = "sum" -> <<Total(vals)>>
    [] func = "avg" -> IF vals = <<>> THEN <<0, 1>> ELSE <<Total(vals), Len(vals)>>
    [] func = "min" -> IF vals = <<>> THEN <<0>> ELSE <<Least(vals)>>
    [] func = "max" -> IF vals = <<>> THEN <<0>> ELSE <<Greatest(vals)>>

\* count_is_exact_via_index
ExactViaIndex(conds) ==
  \A i \in DOMAIN conds :
    /\ Plain(conds[i])
    /\ LET c == Only(conds[i]) IN IF c.col = "s" THEN c.op = "=" ELSE c.op \in Ranged

\* build_candidates
CandidatesOrAll(conds) == IF HasCandidateSet(conds) THEN BuildCandidateSet(conds, None) ELSE {Stored}

\* COUNT of try_fast_aggregate and count_matching_rows.
FastCount(conds) ==
  {IF conds = <<>> THEN Aggregate(<<Cardinality(Stored)>>)
   ELSE IF IndexOverflows(conds, None) \/ Overflows(Cardinality(cand)) THEN Refused
   ELSE IF ExactViaIndex(conds) THEN Aggregate(<<Cardinality(cand)>>)
   ELSE Aggregate(<<Cardinality({p \in cand : RowPasses(p, conds)})>>) :
     cand \in CandidatesOrAll(conds)}

\* SUM/AVG/MIN/MAX of try_fast_aggregate: the scores of the column's index, within
\* the first condition on that column; {} leaves the query to the slow path.
FastNumeric(a, conds) ==
  LET own == SelectInSeq(conds, LAMBDA cl : \E c \in cl : c.col = a.col)
      usable == \/ conds = <<>>
                \/ own # 0 /\ Plain(conds[own]) /\ Only(conds[own]).op \in Ranged
      r == IF conds = <<>> THEN Unbounded ELSE BoundsOf(Only(conds[own]))
      ids == ZRange(a.col, r, TRUE, 0, MaxCandidates + 1)
  IN IF ~usable THEN {}
     ELSE IF Overflows(Len(ids)) THEN {Refused}
     ELSE {Aggregate(Summary(a.func, [i \in DOMAIN ids |-> Cell(ids[i], a.col)]))}

FastAggregate(a, conds) == IF a.func = "count" THEN FastCount(conds) ELSE FastNumeric(a, conds)

\* aggregate_numeric_value: a null is not counted.
ValuesIn(pks, col) == SelectSeq([i \in DOMAIN pks |-> Cell(pks[i], col)], LAMBDA v : v # Null)

\* compute_aggregates, and the accumulators of compute_grouped_rows.
Accumulate(a, pks) ==
  IF a.func = "count" THEN <<Len(pks)>> ELSE Summary(a.func, ValuesIn(pks, a.col))

\* compute_grouped_rows and matches_all_having: one row per value of the column.
Grouped(q, pks) ==
  LET keys == {Cell(pks[i], q.group) : i \in DOMAIN pks}
      part(k) == SelectSeq(pks, LAMBDA p : Cell(p, q.group) = k)
      having(k) == q.having = {} \/ \A c \in q.having : Compare(Accumulate(q.agg, part(k))[1], c.op, c.val)
  IN {<<k, Accumulate(q.agg, part(k))>> : k \in {x \in keys : having(x)}}

-----------------------------------------------------------------------------
(* hash_join: the table joined with itself as u, ON n = u.id               *)

\* A joined row is a pair; 0 is the empty right side of a LEFT JOIN.
Unmatched == 0
RightRows(p) == IF Cell(p, "n") \in Live THEN <<Cell(p, "n")>> ELSE <<>>
JoinRow(q, p) ==
  CASE RightRows(p) # <<>> -> [i \in DOMAIN RightRows(p) |-> <<p, RightRows(p)[i]>>]
    [] q.join = "left" -> <<<<p, Unmatched>>>>
    [] OTHER -> <<>>

\* The probe stops at LIMIT when nothing after it can drop a row.
JoinLimit(q) == IF q.where = <<>> /\ q.limit # None THEN q.limit + q.offset ELSE None
HashJoin(q, pks) == Window(FlattenSeq([i \in DOMAIN pks |-> JoinRow(q, pks[i])]), 0, JoinLimit(q))

\* joined_row_matches_condition: every condition is on the qualified left columns.
JoinedPasses(pair, conds) == RowPasses(pair[1], conds)

-----------------------------------------------------------------------------
(* table_select_once                                                       *)

\* Variant: the limit is applied early under ORDER BY too.
LimitsBeforeSort(q) ==
  IF q.join = "" /\ q.limit # None THEN q.limit + q.offset ELSE None

EarlyLimit(q) ==
  IF q.join = "" /\ q.order = "" /\ q.limit # None THEN q.limit + q.offset ELSE None

\* The per-candidate work: filter, then hydrate, up to the early limit.
Process(q, conds, ids) ==
  Window(SelectSeq(ids, LAMBDA p : RowPasses(p, conds) /\ Hydrates(p)), 0, EarlyLimit(q))

\* sort_by is stable; an absent value reads as the empty string and sorts first.
Sorted(seq, key(_), asc) ==
  LET before(i, j) == LET a == key(seq[i])  b == key(seq[j]) IN
                      \/ IF asc THEN a < b ELSE a > b
                      \/ a = b /\ i < j
      perm == SetToSortSeq(DOMAIN seq, before)
  IN [i \in DOMAIN seq |-> seq[perm[i]]]

Paginate(q, scan, seq) == IF scan.paged THEN seq ELSE Window(seq, q.offset, q.limit)

Finish(q, scan, pks) ==
  IF q.group # "" THEN Aggregate(Grouped(q, pks))
  ELSE IF q.agg # <<>> THEN Aggregate(Accumulate(q.agg, pks))
  ELSE Rows(Paginate(q, scan, IF scan.ordered \/ q.order = "" THEN pks
                              ELSE Sorted(pks, LAMBDA p : Cell(p, q.order), q.asc)))

FinishJoin(q, scan, pks) ==
  LET pairs == SelectSeq(HashJoin(q, pks), LAMBDA pair : JoinedPasses(pair, q.where)) IN
  Rows(Paginate(q, scan, IF q.order = "" THEN pairs
                         ELSE Sorted(pairs, LAMBDA pair : Cell(pair[1], q.order), q.asc)))

\* What TSELECT may answer: WHERE waits for the join when there is one; a scan
\* of more than MaxCandidates rows is refused.
Answers(q) ==
  LET conds == IF q.join = "" THEN q.where ELSE <<>>
      fast == IF q.agg # <<>> /\ q.group = "" /\ q.having = {} THEN FastAggregate(q.agg, conds) ELSE {}
      early == EarlyLimit(q)
  IN IF fast # {} THEN fast
     ELSE {IF \/ Overflows(Len(scan.ids))
              \/ ~scan.ordered /\ IndexOverflows(conds, early)
              \/ q.join # "" /\ Overflows(Cardinality(Stored))
           THEN Refused
           ELSE IF q.join # "" THEN FinishJoin(q, scan, Process(q, conds, scan.ids))
           ELSE Finish(q, scan, Process(q, conds, scan.ids)) :
             scan \in PlanTableScan(q, conds, q.join = "", early)}

\* scan_matching_pks: what UPDATE, DELETE and a grant's subquery act on.
ScanMatching(conds) ==
  {SelectSeq(SetToSortSeq(cand, <), LAMBDA p : Hydrates(p) /\ RowPasses(p, conds)) :
     cand \in CandidatesOrAll(conds)}

\* scan_projected_column: the distinct values of a column, in the order met.
Projected(conds, col) == {{Cell(s[i], col) : i \in DOMAIN s} \ {Null} : s \in ScanMatching(conds)}

\* table_get_filtered_pk: the primary key, and the caller's row filter with it.
GetFiltered(p, filter) ==
  LET key == {[col |-> "id", op |-> "=", val |-> p, vals |-> {}]}
      plan == [where |-> <<key>> \o filter, order |-> "", asc |-> TRUE, limit |-> None, offset |-> 0,
               agg |-> <<>>, group |-> "", having |-> {}, join |-> ""]
  IN {a.rows : a \in Answers(plan)}

-----------------------------------------------------------------------------
(* What the answers must be                                                *)

Matching(conds) == {p \in Live : RowPasses(p, conds)}

\* The rows without push-down: everything that matches, joined, as a set.
Expected(q) ==
  IF q.join = "" THEN Matching(q.where)
  ELSE UNION {Range(JoinRow(q, p)) : p \in Matching(q.where)}

SortKey(q, x) == Cell(IF q.join = "" THEN x ELSE x[1], q.order)
Page(q, n) == LET left == IF n > q.offset THEN n - q.offset ELSE 0
              IN IF q.limit = None \/ left < q.limit THEN left ELSE q.limit

\* A page of an ordering of the expected rows.
RightRowsFor(q, seq) ==
  LET all == Expected(q)
      key(x) == SortKey(q, x)
      reference == Window(Sorted(SetToSeq(all), key, q.asc), q.offset, q.limit)
  IN /\ IsInjective(seq) /\ Range(seq) \subseteq all
     /\ Len(seq) = Page(q, Cardinality(all))
     /\ q.order # "" => \A i \in DOMAIN seq : SortKey(q, seq[i]) = SortKey(q, reference[i])

RightAggregate(q, v) ==
  LET all == SetToSortSeq(Matching(q.where), <) IN
  v = IF q.group # "" THEN Grouped(q, all) ELSE Accumulate(q.agg, all)

\* The plans the engine is known to answer differently, each a hazard of its own:
\* a limit under GROUP BY or an ordered join cuts rows before they are grouped or
\* sorted; the order index has no rows whose column is null; a numeric aggregate
\* looks at one condition; rows past their TTL fill pages and index counts.
Exempt(q) ==
  \/ q.limit # None /\ (q.group # "" \/ (q.join # "" /\ q.order # ""))
  \/ q.order = "n" /\ \E p \in Live : table[p].n = Null
  \/ q.agg # <<>> /\ q.group = "" /\ q.agg.func # "count" /\ Len(q.where) > 1
  \/ lapsed # {} /\ (q.limit # None \/ q.offset # 0 \/ (q.agg # <<>> /\ q.group = ""))

(***************************************************************************)
(* Planning never changes an answer: whatever indexes, push-down, early    *)
(* limit or fast path table_select_once uses, the rows are a page of the   *)
(* matching live rows in the order asked for and an aggregate is that of   *)
(* the matching rows; a refusal only when more rows than                   *)
(* max_query_candidates are stored (tables/select.rs:1237-1619).           *)
(***************************************************************************)
SelectAnswers ==
  \A q \in Queries : ~Exempt(q) =>
    \A a \in Answers(q) :
      IF a.refused THEN Cardinality(Stored) > MaxCandidates
      ELSE IF q.agg # <<>> THEN RightAggregate(q, a.agg)
      ELSE RightRowsFor(q, a.rows)

(***************************************************************************)
(* What a mutation or a grant's subquery acts on is exactly the live rows  *)
(* that match, in key order whatever the index iteration order, and a read *)
(* by key returns the row only when it passes the caller's filter too      *)
(* (scan_matching_pks, table_get_filtered_pk).                             *)
(***************************************************************************)
ScansExactly ==
  \A w \in {q.where : q \in Queries} : Cardinality(Stored) <= MaxCandidates =>
    /\ \A s \in ScanMatching(w) : s = SetToSortSeq(Matching(w), <)
    /\ \A vals \in Projected(w, "s") : vals = {table[p].s : p \in Matching(w)} \ {Null}
    /\ \A p \in Pks : \A got \in GetFiltered(p, w) :
         Range(got) = {p} \cap Matching(w)

\* The variables have their types.
SelectTypeOK ==
  /\ table \in [Pks -> Row \cup {NoRow}]
  /\ lapsed \subseteq Stored
=============================================================================
