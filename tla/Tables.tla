------------------------------- MODULE Tables -------------------------------
(***************************************************************************)
(* Relational tables (src/src/tables/mod.rs) over the atomic batch of      *)
(* src/src/store/mod.rs.  Two tables, each with an integer primary key, a  *)
(* UNIQUE string column u, an integer foreign key r and a row deadline     *)
(* (the hidden field "\0ttl"); refs says which table r refers to: Refs from *)
(* the creation on, or any table, its own too, once TALTER ADD has added r.*)
(*                                                                         *)
(* A table keeps, beside its rows, structures derived from them: the ids   *)
(* set, a set index per value of u, a sorted index on r, the unique hash,  *)
(* the deadline index and the key sequence.  A statement stages its whole  *)
(* effect against the unchanged store and publishes it at once, after      *)
(* journaling the final image of every row it touched.                     *)
(*                                                                         *)
(* replica is what replaying the journal written so far would build: the   *)
(* frames of a statement are applied to it when they are journaled.        *)
(***************************************************************************)
EXTENDS Naturals, FiniteSets, FiniteSetsExt, Sequences, SequencesExt

CONSTANTS
    MaxPk,          \* primary keys are 1..MaxPk
    Val,            \* values of the unique column (positive numbers)
    Refs,           \* [Table -> Table or NoTable]: the foreign key each table is created with
    RowTtl,         \* the length of a row deadline, in ticks
    MaxRowClock,    \* bound: ticks of the clock
    MaxTableOps     \* bound: statements

VARIABLES
    tdb,        \* the live rows and derived structures of both tables
    replica,    \* what replay of the journal rebuilds
    made,       \* [Table -> {"no", "plain", "ttl"}]: the schema, "ttl" when created WITH TTL
    refs,       \* [Table -> Table or NoTable]: where the foreign key of a table points
    mode,       \* ON DELETE of the foreign key: restrict, cascade or setnull
    bare,       \* tables whose column u was dropped
    backfilled, \* tables whose column u was added with a DEFAULT over existing rows
    severed,    \* rows whose referenced table was dropped under them
    entangled,  \* ghost: a statement purged a row and the cascade met the statement's own rows
    sweep,      \* the expiry pass: its cutoff and the rows still to look at
    rowClock,
    stmts

tableVars == <<tdb, replica, made, refs, mode, bare, backfilled, severed, entangled, sweep, rowClock, stmts>>

Table   == {"c", "p"}
NoTable == "none"
Pk      == 1..MaxPk
Null    == 0                    \* no value; values of u are numbers from 1
Auto    == 0                    \* no key given: the sequence supplies one
NoRow   == [gone |-> TRUE]
Never   == 0                    \* no deadline
Untouched == [same |-> TRUE]
Identity  == Table \X Pk

Exists(t)  == made[t] # "no"
Expired(row) == row.ttl # Never /\ rowClock >= row.ttl

(* get_row: a row past its deadline reads as absent. *)
LiveRow(d, t, pk) == d.rows[t][pk] # NoRow /\ ~Expired(d.rows[t][pk])

-----------------------------------------------------------------------------
(* The operations of a staged batch.  They are applied in the order they   *)
(* are staged, under one write barrier, so the batch is the state they     *)
(* lead to.                                                                *)

(* stage_add_to_index: a set per value for a string, one score per row for an integer. *)
IndexAdd(d, t, col, v, pk) ==
    IF v = Null THEN d
    ELSE [d EXCEPT !.idx = {e \in @ : ~(col = "r" /\ e[1] = t /\ e[2] = col /\ e[4] = pk)}
                           \cup {<<t, col, v, pk>>}]

IndexRemove(d, t, col, v, pk) ==
    [d EXCEPT !.idx = {e \in @ : ~(/\ e[1] = t /\ e[2] = col /\ e[4] = pk
                                   /\ col = "u" => e[3] = v)}]

SetUnique(d, t, v, pk) ==
    IF v = Null THEN d
    ELSE [d EXCEPT !.uniq = {e \in @ : ~(e[1] = t /\ e[2] = v)} \cup {<<t, v, pk>>}]

(* hash_delete_if_value: only the row that holds the value gives it up. *)
RemoveUnique(d, t, v, pk) == [d EXCEPT !.uniq = @ \ {<<t, v, pk>>}]

SetDeadline(d, t, pk, deadline) ==
    [d EXCEPT !.due = {e \in @ : ~(e[1] = t /\ e[2] = pk)}
                      \cup (IF deadline = Never THEN {} ELSE {<<t, pk, deadline>>})]

(* TableBatchOp::HashSet merges fields into the hash. *)
HashSet(d, t, pk, row) ==
    LET old == d.rows[t][pk] IN
    [d EXCEPT !.rows[t][pk] =
        IF old = NoRow THEN row
        ELSE [u   |-> IF row.u = Null THEN old.u ELSE row.u,
              r   |-> IF row.r = Null THEN old.r ELSE row.r,
              ttl |-> IF row.ttl = Never THEN old.ttl ELSE row.ttl]]

(* The last part of a delete: every derived entry of the row goes with it. *)
Erase(d, t, pk, row) ==
    LET d1 == IndexRemove(IndexRemove(d, t, "u", row.u, pk), t, "r", row.r, pk)
        d2 == RemoveUnique(d1, t, row.u, pk)
        d3 == SetDeadline(d2, t, pk, Never)
    IN  [d3 EXCEPT !.ids = @ \ {<<t, pk>>}, !.rows[t][pk] = NoRow]

-----------------------------------------------------------------------------
(* Replay: TROWSET is the complete image of a row, TROWDEL its removal.    *)

(* A variant: the image is merged into the hash that is there. *)
Merged(old, row) ==
    IF old = NoRow THEN row ELSE [row EXCEPT !.r = IF row.r = Null THEN old.r ELSE row.r]

(* "TROWSET is a complete resolved row image, not a merge": what replay    *)
(* leaves in the hash.                                                     *)
Replaced(old, row) == row

(* table_apply_wal_row: what the old image put into the indexes comes out  *)
(* (an expired row's too), the hash is replaced, the counters catch up.    *)
ApplyWalRow(d, t, pk, row) ==
    LET old == d.rows[t][pk]
        d1  == IF old = NoRow THEN d
               ELSE RemoveUnique(IndexRemove(IndexRemove(d, t, "u", old.u, pk), t, "r", old.r, pk),
                                 t, old.u, pk)
        d2  == IndexAdd(IndexAdd(d1, t, "u", row.u, pk), t, "r", row.r, pk)
        d3  == SetDeadline(SetUnique(d2, t, row.u, pk), t, pk, row.ttl)
    IN  [d3 EXCEPT !.ids = @ \cup {<<t, pk>>},
                   !.seq[t] = IF pk > @ THEN pk ELSE @,
                   !.rows[t][pk] = Replaced(old, row)]

ApplyWalDelete(d, t, pk) ==
    IF d.rows[t][pk] = NoRow THEN d ELSE Erase(d, t, pk, d.rows[t][pk])

(* The frames of one statement are in the order of (table, primary key). *)
FrameOrder == [i \in 1..(2 * MaxPk) |->
                 <<IF i <= MaxPk THEN "c" ELSE "p", ((i - 1) % MaxPk) + 1>>]

ReplayFrames(d, res) ==
    FoldLeft(LAMBDA acc, id :
                CASE res[id] = Untouched -> acc
                  [] res[id] = NoRow     -> ApplyWalDelete(acc, id[1], id[2])
                  [] OTHER               -> ApplyWalRow(acc, id[1], id[2], res[id]),
             d, FrameOrder)

-----------------------------------------------------------------------------
(* A statement in preparation.  old is the store, which nothing changes    *)
(* while the statement holds the journal; out is the store with the batch  *)
(* applied; res the row images to journal.                                 *)
Prepare ==
    [old |-> tdb, out |-> tdb, res |-> [id \in Identity |-> Untouched], ok |-> TRUE,
     deleted |-> {}, planned |-> {}, inserted |-> {}, claims |-> {}, releases |-> {}, targets |-> {},
     reached |-> {}, wrote |-> {}]

(* Ghost: the rows that the deletes of a statement reach beyond the one    *)
(* they name, and those that the statement writes or refers to.            *)
Reach(m, id) == [m EXCEPT !.reached = @ \cup {id}]
Wrote(m, t, pk, row) ==
    [m EXCEPT !.wrote = @ \cup {<<t, pk>>} \cup (IF row.r = Null THEN {} ELSE {<<refs[t], row.r>>})]
Entangled(m) == m.reached \cap m.wrote # {}

Fail(m) == [m EXCEPT !.ok = FALSE]

(* record_field_removal: the image staged so far, else the stored row, without the field. *)
RecordRemoval(m, t, pk) ==
    LET staged == m.res[<<t, pk>>] IN
    CASE staged = NoRow     -> m
      [] staged = Untouched -> [m EXCEPT !.res[<<t, pk>>] = [m.old.rows[t][pk] EXCEPT !.r = Null]]
      [] OTHER              -> [m EXCEPT !.res[<<t, pk>>] = [staged EXCEPT !.r = Null]]

CascadeLimit == 16

(* A variant: an expired row is taken to have no referencing rows. *)
ReferencingUnlessDue(m, other, pk) ==
    IF Expired(m.old.rows[refs[other]][pk]) THEN {}
    ELSE {k \in Pk : LiveRow(m.old, other, k) /\ m.old.rows[other][k].r = pk}

(* The rows of other that refer to the row and are not going away themselves. *)
Referencing(m, other, pk) ==
    {k \in Pk : /\ LiveRow(m.old, other, k)
                /\ m.old.rows[other][k].r = pk
                /\ <<other, k>> \notin (m.deleted \cup m.planned)}

(* ON DELETE SET NULL on one referencing row. *)
SetNull(m, other, k, pk) ==
    RecordRemoval([Reach(m, <<other, k>>) EXCEPT !.out = IndexRemove([@ EXCEPT !.rows[other][k].r = Null],
                                                other, "r", pk, k)], other, k)

RECURSIVE StageDelete(_, _, _, _)
StageDelete(m, t, pk, depth) ==
    IF ~m.ok \/ <<t, pk>> \in m.deleted THEN m
    ELSE IF depth > CascadeLimit \/ m.old.rows[t][pk] = NoRow THEN Fail(m)
    ELSE LET Others   == {o \in Table : Exists(o) /\ refs[o] = t}
             Leave(acc, o) ==
                LET ks == Referencing(acc, o, pk) IN
                CASE ks = {}            -> acc
                  [] mode = "restrict"  -> Fail(acc)
                  [] mode = "cascade"   -> FoldSet(LAMBDA k, a : StageDelete(a, o, k, depth + 1), acc, ks)
                  [] mode = "setnull"   -> FoldSet(LAMBDA k, a : SetNull(a, o, k, pk), acc, ks)
             m1 == FoldSet(LAMBDA o, a : IF a.ok THEN Leave(a, o) ELSE a,
                           [(IF depth > 0 THEN Reach(m, <<t, pk>>) ELSE m)
                              EXCEPT !.deleted = @ \cup {<<t, pk>>}], Others)
         IN  IF ~m1.ok THEN m1
             ELSE [m1 EXCEPT !.out = Erase(@, t, pk, m.old.rows[t][pk]),
                             !.res[<<t, pk>>] = NoRow]

(* stage_purge_if_expired: an expired row in the way is deleted within the *)
(* same statement; what remains in the way is reported by InTheWay.        *)
InTheWay(m, t, pk) ==
    /\ <<t, pk>> \notin m.deleted
    /\ LiveRow(m.old, t, pk)

PurgeIfExpired(m, t, pk) ==
    IF <<t, pk>> \in m.deleted \/ m.old.rows[t][pk] = NoRow \/ ~Expired(m.old.rows[t][pk])
    THEN m ELSE StageDelete(m, t, pk, 0)

(* claim_unique_value: nobody else in this statement, and no live row that *)
(* this statement does not delete or release, holds the value.             *)
Holders(m, t, v) == {e[3] : e \in {h \in m.old.uniq : h[1] = t /\ h[2] = v}}
Released(m, t, v, k) == <<t, k>> \in m.deleted \/ <<t, v, k>> \in m.releases

(* purged is the statement once the expired holders are out of the way. *)
Claimed(m, purged, t, v, pk, holders) ==
    IF ~purged.ok THEN purged
    ELSE IF \E k \in holders : /\ ~Released(m, t, v, k) /\ InTheWay(purged, t, k)
                               /\ m.old.rows[t][k].u = v
         THEN Fail(purged)
         ELSE [purged EXCEPT !.claims = @ \cup {<<t, v, pk>>}]

ClaimUnique(m, t, v, pk) ==
    LET taken   == {c \in m.claims : c[1] = t /\ c[2] = v}
        holders == Holders(m, t, v) \ {pk}
    IN  IF v = Null \/ ~m.ok THEN m
        ELSE IF taken # {} THEN IF <<t, v, pk>> \in taken THEN m ELSE Fail(m)
        ELSE Claimed(m, FoldSet(LAMBDA k, a : IF Released(m, t, v, k) THEN a ELSE PurgeIfExpired(a, t, k),
                                m, holders),
                     t, v, pk, holders)

(* staged_reference_exists: the image staged in this statement decides,    *)
(* else the stored row, which must not have expired.                       *)
ReferenceExists(m, t, v) ==
    LET to == refs[t] IN
    /\ to # NoTable /\ Exists(to)
    /\ IF m.res[<<to, v>>] # Untouched THEN m.res[<<to, v>>] # NoRow ELSE LiveRow(m.old, to, v)

(* The columns are checked in the order in which the statement names them; *)
(* here r comes first, so what the claim of u purges is not seen by r.     *)
CheckFields(m, t, r, v, pk) ==
    IF ~m.ok \/ (r # Null /\ ~ReferenceExists(m, t, r)) \/ (v # Null /\ t \in bare)
    THEN Fail(m) ELSE ClaimUnique(m, t, v, pk)

(* TtlOp: Set counts from now, Clear removes, None keeps (an insert then   *)
(* takes the default of the table).                                        *)
Deadline(t, op, kept) ==
    CASE op = "set"   -> rowClock + RowTtl
      [] op = "clear" -> Never
      [] OTHER        -> kept
DefaultDeadline(t) == IF made[t] = "ttl" THEN rowClock + RowTtl ELSE Never

(* A key that is not given comes from the sequence, as this statement left it. *)
ChosenPk(m, t, spec) == IF spec.pk = Auto THEN m.out.seq[t] + 1 ELSE spec.pk

(* stage_table_insert, once its fields are checked *)
RowAdded(d, t, pk, row) ==
    HashSet([(IF row.ttl = Never THEN d ELSE SetDeadline(d, t, pk, row.ttl))
               EXCEPT !.ids = @ \cup {<<t, pk>>}, !.seq[t] = IF pk > @ THEN pk ELSE @],
            t, pk, row)

WithValues(d, t, pk, row) ==
    SetUnique(IndexAdd(IndexAdd(d, t, "u", row.u, pk), t, "r", row.r, pk), t, row.u, pk)

(* The first row of the statement with this key, and an expired one purged. *)
FirstWithKey(m, t, pk) ==
    IF m.ok /\ <<t, pk>> \notin m.inserted THEN PurgeIfExpired(m, t, pk) ELSE Fail(m)

InsertInto(m, ready, t, pk, row) ==
    IF ~m.ok \/ ~ready.ok \/ InTheWay(ready, t, pk) THEN Fail(m)
    ELSE [Wrote(ready, t, pk, row) EXCEPT
                       !.inserted = @ \cup {<<t, pk>>},
                       !.out = RowAdded(WithValues(@, t, pk, row), t, pk, row),
                       !.res[<<t, pk>>] = row]

InsertAs(m, t, pk, row) ==
    InsertInto(m, FirstWithKey(CheckFields(m, t, row.r, row.u, pk), t, pk), t, pk, row)

StageInsert(m, t, spec, op) ==
    InsertAs(m, t, ChosenPk(m, t, spec),
             [u |-> spec.u, r |-> spec.r, ttl |-> Deadline(t, op, DefaultDeadline(t))])

(* The full image an update leaves: what it does not set stays, the deadline too. *)
UpdatedImage(t, old, set, op) ==
    [u   |-> IF set.u = Null THEN old.u ELSE set.u,
     r   |-> IF set.r = Null THEN old.r ELSE set.r,
     ttl |-> Deadline(t, op, old.ttl)]

Reindex(d, t, col, from, to, pk) ==
    IF to = Null THEN d
    ELSE IndexAdd(IndexRemove(d, t, col, from, pk), t, col, to, pk)

RowChanged(d, t, pk, old, set) ==
    LET o == Reindex(Reindex(d, t, "u", old.u, set.u, pk), t, "r", old.r, set.r, pk)
    IN  IF set.u = Null THEN o ELSE SetUnique(RemoveUnique(o, t, old.u, pk), t, set.u, pk)

DeadlineChanged(d, t, pk, op, ttl) ==
    CASE op = "set"   -> SetDeadline(d, t, pk, ttl)
      [] op = "clear" -> SetDeadline([d EXCEPT !.rows[t][pk].ttl = Never], t, pk, Never)
      [] OTHER        -> d

UpdateInto(m, checked, t, pk, row, set, op) ==
    IF ~m.ok \/ ~LiveRow(m.old, t, pk) \/ ~checked.ok THEN Fail(m)
    ELSE [Wrote(checked, t, pk, row) EXCEPT
            !.out = DeadlineChanged(HashSet(RowChanged(@, t, pk, m.old.rows[t][pk], set), t, pk, row),
                                    t, pk, op, row.ttl),
            !.res[<<t, pk>>] = row]

(* stage_table_update: reads the stored row, not what the statement staged for it. *)
StageUpdate(m, t, pk, set, op) ==
    UpdateInto(m, CheckFields(m, t, set.r, set.u, pk), t, pk,
               UpdatedImage(t, m.old.rows[t][pk], set, op), set, op)

(* stage_table_upsert: the conflict column is the key or u; without a      *)
(* value for it the statement is a plain insert.  m1 is the statement once *)
(* expired rows with the value are purged, found what is left of them.     *)
UpsertInto(m, m1, t, col, spec, op, target, found) ==
    LET set     == [u |-> IF col = "u" THEN Null ELSE spec.u, r |-> spec.r]
        keyed   == [m1 EXCEPT !.targets = @ \cup {target}]
        plain   == target[2] = Null
        refused == target \in m.targets \/ (col = "u" /\ t \in bare) \/ ~m1.ok
    IN  IF plain \/ (~refused /\ found = {})
        THEN StageInsert(IF plain THEN m ELSE keyed, t, spec, op)
        ELSE IF refused \/ (col = "u" /\ spec.pk # Auto) THEN Fail(m)
        ELSE IF set = [u |-> Null, r |-> Null] /\ op = "keep" THEN keyed
        ELSE StageUpdate(keyed, t, CHOOSE k \in found : TRUE, set, op)

UpsertPurged(m, m1, t, col, spec, op, holders) ==
    UpsertInto(m, m1, t, col, spec, op, <<col, IF col = "pk" THEN spec.pk ELSE spec.u>>,
               {k \in holders : InTheWay(m1, t, k)})

StageUpsert(m, t, col, spec, op) ==
    LET holders == IF col = "pk" THEN {spec.pk} ELSE Holders(m, t, spec.u)
    IN  IF ~m.ok THEN m
        ELSE UpsertPurged(m, FoldSet(LAMBDA k, a : PurgeIfExpired(a, t, k), m, holders),
                          t, col, spec, op, holders)

-----------------------------------------------------------------------------
(* The rows a WHERE clause selects: all, or those with one value of u. *)
Matched(t, where) ==
    {k \in Pk : LiveRow(tdb, t, k) /\ (where = Null \/ tdb.rows[t][k].u = where)}

InOrder(ks) == SetToSortSeq(ks, LAMBDA a, b : a < b)

(* publish_resolved: nothing of a refused statement is journaled or applied. *)
Publish(m) ==
    /\ m.ok
    /\ tdb' = m.out
    /\ replica' = ReplayFrames(replica, m.res)
    /\ entangled' = (entangled \/ Entangled(m))

Statement(t) ==
    /\ Exists(t) /\ stmts < MaxTableOps
    /\ stmts' = stmts + 1
    /\ UNCHANGED <<made, refs, mode, bare, backfilled, severed, sweep, rowClock>>

(* table_insert_many: all rows or none. *)
InsertMany(t, specs, op) ==
    /\ Statement(t)
    /\ Publish(FoldLeft(LAMBDA m, s : StageInsert(m, t, s, op), Prepare, specs))

UpsertMany(t, col, specs, op) ==
    /\ Statement(t)
    /\ Publish(FoldLeft(LAMBDA m, s : StageUpsert(m, t, col, s, op), Prepare, specs))

(* table_update_where: the values its rows give up are declared first, so  *)
(* the final set of values decides.                                        *)
UpdateWhere(t, where, set, op) ==
    LET ks == Matched(t, where)
        m  == [Prepare EXCEPT !.releases = {<<t, tdb.rows[t][k].u, k>> :
                   k \in {j \in ks : set.u # Null /\ tdb.rows[t][j].u \notin {Null, set.u}}}]
    IN  /\ Statement(t) /\ ks # {}
        /\ Publish(FoldLeft(LAMBDA a, k : StageUpdate(a, t, k, set, op), m, InOrder(ks)))

(* table_delete_where: rows of the same statement do not hold each other back. *)
DeleteWhere(t, where) ==
    LET ks == Matched(t, where)
        m  == [Prepare EXCEPT !.planned = {t} \X ks]
    IN  /\ Statement(t) /\ ks # {}
        /\ Publish(FoldLeft(LAMBDA a, k : StageDelete(a, t, k, 0), m, InOrder(ks)))

-----------------------------------------------------------------------------
(* The expiry pass: the due rows are read once, each is then looked at     *)
(* again under the journal, so statements run in between.                  *)
NoSweep == [cutoff |-> 0, queue |-> <<>>]

(* expire_due_rows *)
SweepStart ==
    LET now == {e \in tdb.due : e[3] <= rowClock}
        Place(e) == MaxPk * (2 * e[3] + IF e[1] = "c" THEN 0 ELSE 1) + e[2]
        Before(a, b) == Place(a) < Place(b)
    IN  /\ sweep = NoSweep /\ now # {}
        /\ sweep' = [cutoff |-> rowClock, queue |-> SetToSortSeq(now, Before)]
        /\ UNCHANGED <<tdb, replica, made, refs, mode, bare, backfilled, severed, entangled, rowClock, stmts>>

SweepAgain(rest) == IF rest = <<>> THEN NoSweep ELSE [sweep EXCEPT !.queue = rest]

HasDeadline(row) == row # NoRow /\ row.ttl # Never
IsDue(row, cutoff) == HasDeadline(row) /\ row.ttl <= cutoff

(* expire_row_if_due; a row that cannot be deleted ends the pass. *)
Expire(m) ==
    \/ /\ m.ok
       /\ Publish(m)
       /\ sweep' = SweepAgain(Tail(sweep.queue))
    \/ /\ ~m.ok
       /\ sweep' = NoSweep
       /\ UNCHANGED <<tdb, replica, entangled>>

SweepRow ==
    LET head == Head(sweep.queue)
        t    == head[1]
        pk   == head[2]
        row  == tdb.rows[t][pk]
        lost(d) == SetDeadline(d, t, pk, Never)
    IN  /\ sweep # NoSweep
        /\ \/ /\ IsDue(row, sweep.cutoff)
              /\ Expire(StageDelete(Prepare, t, pk, 0))
           \/ /\ ~HasDeadline(row)
              /\ tdb' = lost(tdb) /\ replica' = lost(replica)
              /\ sweep' = SweepAgain(Tail(sweep.queue)) /\ UNCHANGED entangled
           \/ /\ HasDeadline(row) /\ ~IsDue(row, sweep.cutoff)
              /\ sweep' = SweepAgain(Tail(sweep.queue))
              /\ UNCHANGED <<tdb, replica, entangled>>
        /\ UNCHANGED <<made, refs, mode, bare, backfilled, severed, rowClock, stmts>>

-----------------------------------------------------------------------------
(* Schema changes.  They are journaled as they stand and replay runs the   *)
(* same code.                                                              *)

TableCreate(t, kind) ==
    /\ ~Exists(t) /\ stmts < MaxTableOps
    /\ Refs[t] # NoTable => Exists(Refs[t])
    /\ made' = [made EXCEPT ![t] = kind]
    /\ refs' = [refs EXCEPT ![t] = Refs[t]]
    /\ bare' = bare \ {t}
    /\ tdb' = [tdb EXCEPT !.seq[t] = 0]
    /\ replica' = [replica EXCEPT !.seq[t] = 0]
    /\ stmts' = stmts + 1
    /\ UNCHANGED <<mode, backfilled, severed, entangled, sweep, rowClock>>

(* A variant: the deadlines of the dropped rows stay in the index. *)
DropKeepsDeadlines(d, t) ==
    [d EXCEPT !.rows[t] = [k \in Pk |-> NoRow],
              !.ids  = {e \in @ : e[1] # t},
              !.uniq = {e \in @ : e[1] # t},
              !.idx  = {e \in @ : e[1] # t \/ e[2] = "u"},
              !.seq[t] = 0]

(* table_drop: the keys it names; the set indexes, one key per value of a  *)
(* string column, are not among them.                                      *)
DropFrom(d, t) ==
    [d EXCEPT !.rows[t] = [k \in Pk |-> NoRow],
              !.ids  = {e \in @ : e[1] # t},
              !.due  = {e \in @ : e[1] # t},
              !.uniq = {e \in @ : e[1] # t},
              !.idx  = {e \in @ : e[1] # t \/ e[2] = "u"},
              !.seq[t] = 0]

TableDrop(t) ==
    /\ Exists(t) /\ stmts < MaxTableOps
    /\ made' = [made EXCEPT ![t] = "no"]
    /\ refs' = [refs EXCEPT ![t] = NoTable]
    /\ tdb' = DropFrom(tdb, t)
    /\ replica' = DropFrom(replica, t)
    /\ severed' = {id \in severed : id[1] # t}
                  \cup {id \in Identity : /\ id[1] # t /\ refs[id[1]] = t
                                          /\ tdb.rows[id[1]][id[2]] # NoRow}
    /\ backfilled' = backfilled \ {t}
    /\ stmts' = stmts + 1
    /\ UNCHANGED <<mode, bare, entangled, sweep, rowClock>>

(* table_drop_column u: the field of every row, the unique hash and every set index. *)
DropColumnFrom(d, t) ==
    [d EXCEPT !.rows[t] = [k \in Pk |-> IF @[k] = NoRow THEN NoRow ELSE [@[k] EXCEPT !.u = Null]],
              !.uniq = {e \in @ : e[1] # t},
              !.idx  = {e \in @ : e[1] # t \/ e[2] # "u"}]

DropColumn(t) ==
    /\ Exists(t) /\ t \notin bare /\ stmts < MaxTableOps
    /\ tdb' = DropColumnFrom(tdb, t)
    /\ replica' = DropColumnFrom(replica, t)
    /\ bare' = bare \cup {t}
    /\ backfilled' = backfilled \ {t}
    /\ stmts' = stmts + 1
    /\ UNCHANGED <<made, refs, mode, severed, entangled, sweep, rowClock>>

(* table_add_column u UNIQUE [DEFAULT v]: the default is written to every  *)
(* row, and the unique hash keeps the last.                                *)
BackfillIn(d, t, v) ==
    FoldLeft(LAMBDA acc, k :
                IF <<t, k>> \notin d.ids \/ v = Null THEN acc
                ELSE SetUnique(IndexAdd([acc EXCEPT !.rows[t][k].u = v], t, "u", v, k), t, v, k),
             d, [i \in 1..MaxPk |-> i])

AddColumn(t, v) ==
    /\ Exists(t) /\ t \in bare /\ stmts < MaxTableOps
    /\ tdb' = BackfillIn(tdb, t, v)
    /\ replica' = BackfillIn(replica, t, v)
    /\ bare' = bare \ {t}
    /\ backfilled' = IF v = Null THEN backfilled ELSE backfilled \cup {t}
    /\ stmts' = stmts + 1
    /\ UNCHANGED <<made, refs, mode, severed, entangled, sweep, rowClock>>

(* table_add_column r REFERENCES a table, which need not be there and may be *)
(* the table itself: the rows that exist have no value of it.              *)
AddReference(t, to) ==
    /\ Exists(t) /\ refs[t] = NoTable /\ stmts < MaxTableOps
    /\ refs' = [refs EXCEPT ![t] = to]
    /\ stmts' = stmts + 1
    /\ UNCHANGED <<tdb, replica, made, mode, bare, backfilled, severed, entangled, sweep, rowClock>>

RowTick ==
    /\ rowClock < MaxRowClock
    /\ rowClock' = rowClock + 1
    /\ UNCHANGED <<tdb, replica, made, refs, mode, bare, backfilled, severed, entangled, sweep, stmts>>

-----------------------------------------------------------------------------
EmptyTables ==
    [rows |-> [t \in Table |-> [k \in Pk |-> NoRow]], ids |-> {}, idx |-> {}, uniq |-> {},
     due |-> {}, seq |-> [t \in Table |-> 0]]

(* Both tables are there, or one alone that was created without a foreign   *)
(* key and then given one to itself.                                       *)
TableInit ==
    /\ tdb = EmptyTables /\ replica = EmptyTables
    /\ \/ made = [t \in Table |-> "plain"] /\ refs = Refs
       \/ \E alone \in {t \in Table : Refs[t] = NoTable} :
             /\ made = [t \in Table |-> IF t = alone THEN "plain" ELSE "no"]
             /\ refs = [t \in Table |-> IF t = alone THEN t ELSE NoTable]
    /\ mode \in {"restrict", "cascade", "setnull"}
    /\ bare = {} /\ backfilled = {} /\ severed = {} /\ entangled = FALSE
    /\ sweep = NoSweep /\ rowClock = 1 /\ stmts = 0

(* The statements tried: one row with a given or generated key, or two     *)
(* rows of which the second may refer to the first.  A deadline is cleared *)
(* by statements that do nothing else, and the values of u beyond the      *)
(* first come from a second row and from updates.                          *)
RefsOf(t) == IF refs[t] = NoTable THEN {Null} ELSE Pk \cup {Null}
RowSpec(t) == [pk : Pk, u : {Null, Min(Val)}, r : RefsOf(t)]
OneRow(t) ==
    {<<s>> : s \in RowSpec(t)}
    \cup {<<[pk |-> Auto, u |-> v, r |-> Null]>> : v \in {v \in {Null, Min(Val)} : tdb.seq[t] < MaxPk}}
TwoRows(t) ==
    {<<s1, s2>> : s1 \in {s \in RowSpec(t) : s.pk = 1 /\ s.r = Null},
                  s2 \in [pk : {2}, u : Val, r : RefsOf(t) \ {2}]}

(* Without a value of the conflict column an upsert is an insert. *)
Conflicting(specs, col) == \A i \in DOMAIN specs : (IF col = "pk" THEN specs[i].pk ELSE specs[i].u) # Null
UpsertTtl(specs) ==
    CASE Len(specs) = 2      -> {"set"}
      [] specs[1].r # Null   -> {"keep", "set"}
      [] OTHER               -> {"keep", "set", "clear"}

(* An UPDATE sets one column, or none and the deadline. *)
OneColumn(t) == {[u |-> v, r |-> Null] : v \in Val \cup {Null}} \cup {[u |-> Null, r |-> k] : k \in RefsOf(t)}

(* The tables a statement may name, while the bound lasts. *)
StatementTables == {t \in Table : Exists(t) /\ stmts < MaxTableOps}

TableNext ==
    \/ \E t \in StatementTables : \E specs \in OneRow(t) \cup TwoRows(t), op \in {"keep", "set"} : InsertMany(t, specs, op)
    \/ \E t \in StatementTables, col \in {"pk", "u"} : \E specs \in OneRow(t) \cup TwoRows(t) :
       \E op \in IF Conflicting(specs, col) THEN UpsertTtl(specs) ELSE {"clear"} :
          UpsertMany(t, col, specs, op)
    \/ \E t \in StatementTables, where \in Val \cup {Null} : \E set \in OneColumn(t) :
       \E op \in IF set.u = Null /\ set.r = Null THEN {"set", "clear"} ELSE {"keep"} :
          UpdateWhere(t, where, set, op)
    \/ \E t \in StatementTables, where \in Val \cup {Null} : DeleteWhere(t, where)
    \/ SweepStart
    \/ SweepRow
    \/ \E t \in Table, kind \in {"plain", "ttl"} : TableCreate(t, kind)
    \/ \E t \in StatementTables : TableDrop(t) \/ DropColumn(t)
    \/ \E t \in StatementTables, v \in Val \cup {Null} : AddColumn(t, v)
    \/ \E t \in StatementTables, to \in Table : AddReference(t, to)
    \/ RowTick

TableSpec == TableInit /\ [][TableNext]_tableVars

-----------------------------------------------------------------------------
Row == [u : Val \cup {Null}, r : Pk \cup {Null}, ttl : 0..(MaxRowClock + RowTtl)]

(* The derived structures of a table say exactly what its rows say: every  *)
(* row is in the ids set and under its values in the indexes, the unique   *)
(* hash names the one row with a value, the deadline index holds every     *)
(* deadline and no other, and no generated key can meet an existing one.   *)
(* A set index may also hold entries a dropped table left.                 *)
DerivedAgree ==
    \A t \in Table :
        LET there == {k \in Pk : tdb.rows[t][k] # NoRow}
            row(k) == tdb.rows[t][k]
        IN  /\ \A k \in there : row(k) \in Row /\ k <= tdb.seq[t]
            /\ {e[2] : e \in {e \in tdb.ids : e[1] = t}} = there
            /\ {<<e[3], e[4]>> : e \in {e \in tdb.idx : e[1] = t /\ e[2] = "r"}}
                   = {<<row(k).r, k>> : k \in {j \in there : row(j).r # Null}}
            /\ {<<row(k).u, k>> : k \in {j \in there : row(j).u # Null}}
                   \subseteq {<<e[3], e[4]>> : e \in {e \in tdb.idx : e[1] = t /\ e[2] = "u"}}
            /\ t \notin backfilled =>
                 {<<e[2], e[3]>> : e \in {e \in tdb.uniq : e[1] = t}}
                     = {<<row(k).u, k>> : k \in {j \in there : row(j).u # Null}}
            /\ {<<e[2], e[3]>> : e \in {e \in tdb.due : e[1] = t}}
                   = {<<k, row(k).ttl>> : k \in {j \in there : row(j).ttl # Never}}

(* A visible row never refers to a row that is gone, and no two rows share *)
(* a value of the unique column, whatever a statement purged, cascaded or  *)
(* nulled on the way.  Outside: references a dropped table left behind,    *)
(* and a default written over existing rows.                               *)
ConstraintsHold ==
    /\ \A t \in Table, k \in Pk :
         LiveRow(tdb, t, k) /\ tdb.rows[t][k].r # Null /\ <<t, k>> \notin severed
             => tdb.rows[refs[t]][tdb.rows[t][k].r] # NoRow
    /\ \A t \in Table \ backfilled, j, k \in Pk :
         j # k /\ tdb.rows[t][j] # NoRow /\ tdb.rows[t][k] # NoRow /\ tdb.rows[t][j].u # Null
             => tdb.rows[t][j].u # tdb.rows[t][k].u

(* Replaying the resolved row images rebuilds the tables as they are: the  *)
(* rows, every index and the counters.                                     *)
ReplicaAgrees == replica = tdb
=============================================================================
