------------------------------- MODULE Grants -------------------------------
(***************************************************************************)
(* Row-level grants (src/src/grants.rs, the grant section of auth.rs, and  *)
(* the enforcement in http.rs): a grant on a table is stored as a          *)
(* predicate, an OR of clauses; for a signed-in user it is resolved        *)
(* against the user and the tables its subqueries read, and then either    *)
(* rendered into a WHERE filter (the rows a statement may touch) or tested *)
(* against a row (what a statement may write).  The grant and the          *)
(* membership table are read in steps of their own, before the statement   *)
(* takes its locks.  The table has the columns owner and team, and team    *)
(* may be null; the one subquery form is                                   *)
(* team [NOT] IN (SELECT team FROM members WHERE user = auth.uid()).       *)
(***************************************************************************)
EXTENDS Integers, Sequences, FiniteSets, SequencesExt

CONSTANTS
  User, Team, RowId,
  Me,          \* the signed-in user whose requests are followed
  Named,       \* the teams grants name
  Client,      \* concurrent requests
  GrantAdmin,  \* concurrent GRANT commands
  MaxGrants,   \* bound: GRANT commands
  MaxMoves     \* bound: changes of the membership table

VARIABLES
  grantRow,    \* the stored predicate of (table, write), or NoGrant
  members,     \* the membership table: the teams of the caller
  moves,       \* changes of it
  rows,        \* the table: rows[i], or NoRow
  put,         \* GRANT commands in progress
  wr,          \* requests in progress
  granted      \* GRANT commands started

grantVars == <<grantRow, members, moves, rows, put, wr, granted>>

Null == "null"
NoGrant == <<>>
NoRow == [owner |-> Null, team |-> Null]
NoPut == [at |-> "idle", pred |-> NoGrant]
NoWrite == [at |-> "idle", kind |-> "", id |-> "", set |-> <<>>, using |-> <<>>,
            mayTouch |-> {}, mayWrite |-> {}]

TableRow == [owner : User, team : Team \cup {Null}]

\* What a grant may say of a column; "uid" and "members" are resolved per user.
Condition == [col : {"owner"}, op : {"="}, val : {"uid"}]
        \cup [col : {"team"}, op : {"=", "!="}, val : Named]
        \cup [col : {"team"}, op : {"in", "notin"}, val : {"members"}]
Clause == {{}} \cup {{c} : c \in Condition} \cup {{c, d} : c, d \in Condition}

GrantInit ==
  /\ grantRow = NoGrant /\ granted = 0
  /\ members \in SUBSET Named /\ moves = 0
  /\ rows = [i \in RowId |-> [owner |-> Me, team |-> Null]]
  /\ put = [a \in GrantAdmin |-> NoPut]
  /\ wr = [c \in Client |-> NoWrite]

-----------------------------------------------------------------------------
(* From the stored predicate to what is enforced                           *)

\* append_alternatives: an unconditional side makes the whole unconditional.
AppendAlternatives(pred, other) ==
  IF pred[1] = {} \/ other[1] = {} THEN <<{}>> ELSE pred \o other

\* resolve_predicate and execute_resolved for one condition.
Enforced(cond, mem) ==
  [col |-> cond.col, op |-> cond.op,
   vals |-> CASE cond.val = "uid" -> {Me}
              [] cond.val = "members" -> mem
              [] OTHER -> {cond.val}]
EnforcedConds(pred, mem) ==
  [i \in DOMAIN pred |-> {Enforced(cond, mem) : cond \in pred[i]}]

Positive(c) == c.op \in {"=", "in"}
EmptyNotIn(c) == c.op = "notin" /\ c.vals = {}
EmptyIn(c) == c.op = "in" /\ c.vals = {}

\* A filter is a set of disjunctions that must all match.
True == {}
Error == {{[col |-> "error", op |-> "=", vals |-> {}]}}

\* Variant: an empty set is left out whether it is negated or not.
DropsEmpty(clause) == {{c} : c \in {d \in clause : d.vals # {}}}

\* render_enforced_clause: an empty IN matches nothing, an empty NOT IN everything.
RenderClause(clause) ==
  {IF EmptyIn(c) THEN {} ELSE {c} : c \in {d \in clause : ~EmptyNotIn(d)}}

\* collapse_same_column_or_clauses: alternatives that name values of one column.
Collapses(cls) ==
  /\ \A i \in DOMAIN cls : Cardinality(cls[i]) = 1 /\ \A c \in cls[i] : Positive(c)
  /\ \A i, j \in DOMAIN cls : \A c \in cls[i], d \in cls[j] : c.col = d.col
Collapsed(cls) ==
  LET conds == UNION Range(cls) IN
  [col |-> (CHOOSE c \in conds : TRUE).col, op |-> "in", vals |-> UNION {c.vals : c \in conds}]

\* The branches in order: the first that holds always, or that has more than
\* one condition, decides; branches that can hold never are left out.
OrBranches(cls) ==
  LET parts(i) == {c \in cls[i] : ~EmptyNotIn(c)}
      never(i) == \E c \in cls[i] : EmptyIn(c)
      decides == {i \in DOMAIN cls : ~never(i) /\ Cardinality(parts(i)) # 1}
      first == CHOOSE i \in decides : \A j \in decides : i <= j
  IN IF decides # {} THEN IF parts(first) = {} THEN True ELSE Error
     ELSE {UNION {parts(i) : i \in {j \in DOMAIN cls : ~never(j)}}}

\* render_enforced_or_clauses and render_enforced_clauses.
RenderOr(cls) == IF Collapses(cls) THEN RenderClause({Collapsed(cls)}) ELSE OrBranches(cls)
Render(cls) == IF Len(cls) = 1 THEN RenderClause(cls[1]) ELSE RenderOr(cls)

\* A present value against a condition (cmp, in_set; matches_condition).
ValueMatches(c, v) == (v \in c.vals) = Positive(c)

\* row_passes_conditions: an absent column is null, which only != matches.
Matches(filter, row) ==
  \A alternatives \in filter : \E c \in alternatives :
    IF row[c.col] = Null THEN c.op = "!=" ELSE ValueMatches(c, row[c.col])

\* enforced_row_satisfies: every condition, and an absent column fails.
RowSatisfies(clause, row) == \A c \in clause : row[c.col] # Null /\ ValueMatches(c, row[c.col])

\* Variant: a new value is not compared when some other column is set too.
SetIgnoresOthers(clause, set) ==
  \E c \in clause : c.col \in DOMAIN set => ValueMatches(c, set[c.col])

\* enforced_set_satisfies: only the columns the statement sets.
SetSatisfies(clause, set) ==
  \A c \in clause : c.col \in DOMAIN set => ValueMatches(c, set[c.col])

\* Some clause holds (WriteGrant::check, check_update_set).
SomeClause(cls, Holds(_)) == \E i \in DOMAIN cls : Holds(cls[i])

-----------------------------------------------------------------------------
(* GRANT and REVOKE                                                        *)

\* put_grant reads the stored predicate and adds to it.
PutLoad(a, clause) ==
  /\ put[a] = NoPut /\ granted < MaxGrants
  /\ granted' = granted + 1
  /\ put' = [put EXCEPT ![a] =
       [at |-> "delete",
        pred |-> IF grantRow = NoGrant THEN <<clause>> ELSE AppendAlternatives(grantRow, <<clause>>)]]
  /\ UNCHANGED <<grantRow, members, moves, rows, wr>>

\* ... deletes the old row ...
PutDelete(a) ==
  /\ put[a].at = "delete"
  /\ grantRow' = NoGrant
  /\ put' = [put EXCEPT ![a].at = "insert"]
  /\ UNCHANGED <<members, moves, rows, wr, granted>>

\* ... and inserts the new one, unless another GRANT inserted first.
PutInsert(a) ==
  /\ put[a].at = "insert"
  /\ grantRow' = IF grantRow = NoGrant THEN put[a].pred ELSE grantRow
  /\ put' = [put EXCEPT ![a] = NoPut]
  /\ UNCHANGED <<members, moves, rows, wr, granted>>

DeleteGrant ==
  /\ grantRow # NoGrant
  /\ grantRow' = NoGrant
  /\ UNCHANGED <<members, moves, rows, put, wr, granted>>

\* The operator edits the membership table.
SetMembership(t) ==
  /\ moves < MaxMoves
  /\ moves' = moves + 1
  /\ members' = IF t \in members THEN members \ {t} ELSE members \cup {t}
  /\ UNCHANGED <<grantRow, rows, put, wr, granted>>

-----------------------------------------------------------------------------
(* A signed-in user's statement                                            *)

\* Ghost: the rows the grant of this moment gives to the caller, with and without the
\* ones whose null column a negated condition lets through.
Given == IF grantRow = NoGrant THEN {}
            ELSE {row \in TableRow : \E i \in DOMAIN grantRow :
                    RowSatisfies({Enforced(c, members) : c \in grantRow[i]}, row)}
GivenWithNulls ==
  IF grantRow = NoGrant THEN {}
  ELSE {row \in TableRow : \E i \in DOMAIN grantRow : \A cond \in grantRow[i] :
          LET c == Enforced(cond, members) IN
          IF row[c.col] = Null THEN ~Positive(c) ELSE ValueMatches(c, row[c.col])}

\* write_filter, read_filter: the filter of the user's statement.
Filter == Render(EnforcedConds(grantRow, members))

\* route_table_insert, route_table_update, route_table_delete: the statement
\* arrives; an insert has no row to look at.
Begin(c, kind, i, set) ==
  /\ wr[c] = NoWrite
  /\ CASE kind = "delete" -> set = <<>>
       [] kind = "update" -> Cardinality(DOMAIN set) = 1
       [] OTHER -> DOMAIN set = {"owner", "team"}
  /\ wr' = [wr EXCEPT ![c] =
       [NoWrite EXCEPT !.at = IF kind = "insert" THEN "check" ELSE "using",
                       !.kind = kind, !.id = i, !.set = set]]
  /\ UNCHANGED <<grantRow, members, moves, rows, put, granted>>

\* enforce_table_write_where, WriteGrant::resolve: no grant and no filter refuse.
ResolveUsing(c) ==
  LET w == wr[c] IN
  /\ w.at = "using"
  /\ wr' = [wr EXCEPT ![c] =
       IF grantRow = NoGrant \/ (w.kind # "upsert" /\ Filter = Error) THEN NoWrite
       ELSE [w EXCEPT !.at = IF w.kind = "delete" THEN "apply" ELSE "check",
                      !.mayTouch = GivenWithNulls,
                      !.using = EnforcedConds(grantRow, members)]]
  /\ UNCHANGED <<grantRow, members, moves, rows, put, granted>>

\* enforce_table_insert, enforce_table_update_check: the grant is resolved again.
CheckNew(c) ==
  LET w == wr[c]
      cls == EnforcedConds(grantRow, members)
      Holds(clause) == IF w.kind = "update" THEN SetSatisfies(clause, w.set)
                       ELSE RowSatisfies(clause, w.set)
  IN
  /\ w.at = "check"
  /\ wr' = [wr EXCEPT ![c] =
       IF grantRow = NoGrant \/ ~SomeClause(cls, Holds) THEN NoWrite
       ELSE [w EXCEPT !.at = "apply", !.mayWrite = Given]]
  /\ UNCHANGED <<grantRow, members, moves, rows, put, granted>>

\* The row the statement's WHERE selects, or the guard of an upsert lets through.
Touches(w) ==
  /\ rows[w.id] # NoRow
  /\ IF w.kind = "upsert"
     THEN SomeClause(w.using, LAMBDA clause : RowSatisfies(clause, rows[w.id]))
     ELSE Matches(Render(w.using), rows[w.id])

\* The table mutation, under its locks.
Apply(c) ==
  LET w == wr[c] IN
  /\ w.at = "apply"
  /\ rows' = [rows EXCEPT ![w.id] =
       CASE w.kind \in {"insert", "upsert"} /\ @ = NoRow -> w.set
         [] w.kind \in {"upsert", "update"} /\ Touches(w) ->
              [col \in DOMAIN @ |-> IF col \in DOMAIN w.set THEN w.set[col] ELSE @[col]]
         [] w.kind = "delete" /\ Touches(w) -> NoRow
         [] OTHER -> @]
  /\ wr' = [wr EXCEPT ![c] = NoWrite]
  /\ UNCHANGED <<grantRow, members, moves, put, granted>>

Sets == {<<>>} \cup [{"owner"} -> User] \cup [{"team"} -> Team] \cup [owner : User, team : Team]

GrantNext ==
  \/ \E a \in GrantAdmin :
       \/ \E clause \in Clause : PutLoad(a, clause)
       \/ PutDelete(a) \/ PutInsert(a)
  \/ DeleteGrant
  \/ \E t \in Named : SetMembership(t)
  \/ \E c \in Client :
       \/ \E kind \in {"insert", "upsert", "update", "delete"}, i \in RowId, set \in Sets :
            Begin(c, kind, i, set)
       \/ ResolveUsing(c) \/ CheckNew(c) \/ Apply(c)

GrantSpec == GrantInit /\ [][GrantNext]_grantVars

-----------------------------------------------------------------------------
(* Properties                                                              *)

\* The variables keep their types: predicates are non-empty lists of clauses.
GrantTypeOK ==
  /\ grantRow = NoGrant \/ \A i \in DOMAIN grantRow : grantRow[i] \in Clause
  /\ members \subseteq Team
  /\ \A i \in RowId : rows[i] \in TableRow \cup {NoRow}
  /\ \A c \in Client : wr[c].at \in {"idle", "using", "check", "apply"}

\* The WHERE fragment rendered from a grant selects what the grant gives: every
\* row that satisfies a clause, and beyond these only rows whose null column a
\* negated condition lets through; what cannot be rendered is refused
\* (render_enforced_or_clauses against enforced_row_satisfies).
FilterIsGrant ==
  grantRow # NoGrant =>
    \/ Filter = Error
    \/ /\ \A row \in Given : Matches(Filter, row)
       /\ \A row \in TableRow : Matches(Filter, row) => row \in GivenWithNulls

\* A signed-in user's statement overwrites or removes only rows that the grant
\* gave to the user at a moment of the request, and an insert or upsert leaves
\* only such a row; so does an update when the grant has a single clause.
WriteStep ==
  \A c \in Client : \A i \in RowId :
    wr[c].at = "apply" /\ wr'[c] = NoWrite /\ rows'[i] # rows[i] =>
      /\ rows[i] # NoRow => rows[i] \in wr[c].mayTouch
      /\ rows'[i] # NoRow /\ wr[c].kind # "update" => rows'[i] \in wr[c].mayWrite
      /\ /\ wr[c].kind = "update" /\ Len(wr[c].using) = 1
         /\ wr[c].using = EnforcedConds(grantRow, members) /\ wr[c].mayWrite = Given
         => rows'[i] \in GivenWithNulls
=============================================================================
