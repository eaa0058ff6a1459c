--------------------------- MODULE SnapshotFormat ---------------------------
(***************************************************************************)
(* What a snapshot, a DUMP blob and a cold-tier record hold, and what the  *)
(* readers make of them when they are whole, cut short or altered          *)
(* (src/src/snapshot.rs, the codec of src/src/disk.rs).                    *)
(* A file is a header and a sequence of tokens, one per primitive write;   *)
(* every token is an integer, so a reader out of step reads another        *)
(* value's token, as it would read another value's bytes.  The SHA-256     *)
(* digest of a sequence stands for the sequence (no collisions).  Formats: *)
(* V6 is written today, V1 to V5 and the text rows by older engines;       *)
(* "LXD" is the DUMP envelope around one V3 entry, "cold" a tier record.   *)
(***************************************************************************)
EXTENDS Integers, Sequences, SequencesExt, FiniteSets

CONSTANTS
  Databases,      \* databases: sequences of [key, type, val, deadline], deadline 0 = none
  MaxSnapClock,   \* bound: the wall clock
  MaxItems,       \* MAX_SNAPSHOT_ITEMS
  Altered         \* what an altered token may read

VARIABLES
  snapDb,         \* the database that was saved
  snapFmt,        \* the format it was saved in, or "none"
  snapAt,         \* when
  image,          \* the file
  harm,           \* what happened to it: "none", "cut" or "altered"
  snapClock,
  loaded          \* the answer of the last load

snapVars == <<snapDb, snapFmt, snapAt, image, harm, snapClock, loaded>>

(* Shapes: what follows an entry's type byte, key and deadline. *)
Atom == [is |-> "atom"]
Maybe == [is |-> "maybe"]                             \* a flag byte and, after 1, an atom
Many(shape) == [is |-> "many", of |-> shape]          \* a count and that many tuples
Pairs == Many(<<Atom, Atom>>)
Atoms == Many(<<Atom>>)
Groups == Many(<<Atom, Atom, Many(<<Atom, Atoms>>), Many(<<Atom, Atom, Atom>>)>>)

TypeBytes == [S |-> 83, L |-> 76, H |-> 72, h |-> 104, T |-> 84, Z |-> 90, X |-> 88, V |-> 86, W |-> 87,
              P |-> 80, I |-> 73]
TypeOf(byte) == CHOOSE t \in DOMAIN TypeBytes : TypeBytes[t] = byte
KnownByte(byte) == \E t \in DOMAIN TypeBytes : TypeBytes[t] = byte

\* save_binary_entries: the payload of each type
WriteShape(t) ==
  CASE t = "S" -> <<Atom>>
    [] t \in {"L", "T", "P"} -> <<Atoms>>
    [] t \in {"H", "Z"} -> <<Pairs>>
    [] t = "h" -> <<Pairs, Pairs>>
    [] t = "X" -> <<Atom, Many(<<Atom, Pairs>>), Groups>>
    [] t = "V" -> <<Atoms, Maybe>>
    [] t = "W" -> <<Atom, Maybe>>
    [] t = "I" -> <<Pairs, Atom, Pairs>>

\* read_dump_value: what is read for each type byte
StreamShape(groups) == <<Atom, Many(<<Atom, Pairs>>)>> \o IF groups THEN <<Groups>> ELSE <<>>
ReadShape(t, groups) ==
  CASE t = "S" -> <<Atom>>
    [] t \in {"L", "T", "P"} -> <<Atoms>>
    [] t \in {"H", "h"} -> <<Pairs>> \o IF t = "h" THEN <<Pairs>> ELSE <<>>
    [] t = "Z" -> <<Pairs>>
    [] t = "X" -> StreamShape(groups)
    [] t = "V" -> <<Atoms, Maybe>>
    [] t = "W" -> <<Atom, Maybe>>
    [] t = "I" -> <<Pairs, Atom, Pairs>>

\* encrypt_vector seals the payload under the entry's key
Seal(key, v) == 1000 + 10 * key + v
Opens(key, sealed) == sealed \div 10 = 100 + key
OpenSealed(sealed) == sealed % 10

RECURSIVE Write(_, _)
Write(shape, v) ==
  IF shape = <<>> THEN <<>>
  ELSE LET s == Head(shape)
           x == Head(v)
       IN (CASE s.is = "atom" -> <<x>>
             [] s.is = "maybe" -> IF x = <<>> THEN <<0>> ELSE <<1, x[1]>>
             [] s.is = "many" -> <<Len(x)>> \o FlattenSeq([i \in 1..Len(x) |-> Write(s.of, x[i])]))
          \o Write(Tail(shape), Tail(v))

Failed == [ok |-> FALSE, val |-> <<>>, pos |-> 0]

\* a tuple of the shape read from toks after position pos; a count over the limit or the end of
\* the input refuses (read_count, read_sized_count, read_exact)
RECURSIVE Read(_, _, _)
RECURSIVE ReadMany(_, _, _, _)
ReadMany(n, shape, toks, pos) ==
  IF n = 0 THEN [ok |-> TRUE, val |-> <<>>, pos |-> pos]
  ELSE LET first == Read(shape, toks, pos)
           rest == ReadMany(n - 1, shape, toks, first.pos)
       IN IF first.ok /\ rest.ok THEN [rest EXCEPT !.val = <<first.val>> \o @] ELSE Failed
Read(shape, toks, pos) ==
  IF shape = <<>> THEN [ok |-> TRUE, val |-> <<>>, pos |-> pos]
  ELSE IF pos >= Len(toks) THEN Failed
  ELSE LET s == Head(shape)
           x == toks[pos + 1]
           one == CASE s.is = "atom" -> [ok |-> TRUE, val |-> x, pos |-> pos + 1]
                    [] s.is = "maybe" ->
                         IF x # 1 THEN [ok |-> TRUE, val |-> <<>>, pos |-> pos + 1]
                         ELSE IF pos + 1 >= Len(toks) THEN Failed
                         ELSE [ok |-> TRUE, val |-> <<toks[pos + 2]>>, pos |-> pos + 2]
                    [] s.is = "many" ->
                         IF x < 0 \/ x > MaxItems THEN Failed ELSE ReadMany(x, s.of, toks, pos + 1)
           rest == Read(Tail(shape), toks, one.pos)
       IN IF one.ok /\ rest.ok THEN [rest EXCEPT !.val = <<one.val>> \o @] ELSE Failed

(* Writing. *)
Live(db, at) == SelectSeq(db, LAMBDA e : e.deadline = 0 \/ e.deadline > at)
Sealed(e) == IF e.type = "W" THEN [e.val EXCEPT ![1] = Seal(e.key, @)] ELSE e.val

\* one entry: type byte, key, deadline (-1 = none), payload
WriteEntry(e) ==
  <<TypeBytes[e.type], e.key, IF e.deadline = 0 THEN -1 ELSE e.deadline>> \o Write(WriteShape(e.type), Sealed(e))
\* V1 and V2 wrote the remaining time; V1 wrote no consumer groups
WriteOldEntry(e, fmt, at) ==
  <<TypeBytes[e.type], e.key, IF e.deadline = 0 THEN -1 ELSE e.deadline - at>>
  \o Write(IF e.type = "X" THEN StreamShape(fmt # "V1") ELSE WriteShape(e.type), Sealed(e))
\* write_single_entry: the remaining time, vectors as plain data
WriteSingle(e, at) == WriteOldEntry(e, "V2", at)

Global == 1                                           \* the checkpoint named "global"
Generation == 5
Successor == 6
\* count, then name, generation, offset and, since V6, the generation that may follow
Checkpoints(fmt) ==
  CASE fmt = "V6" -> <<1, Global, Generation, 0, Successor>>
    [] fmt \in {"V4", "V5"} -> <<1, Global, Generation, 0>>
    [] OTHER -> <<>>

WriteBody(fmt, db, at) ==
  LET live == Live(db, at)
      entries(Op(_)) == FlattenSeq([i \in 1..Len(live) |-> Op(live[i])])
      old(e) == WriteOldEntry(e, fmt, at)
      single(e) == WriteSingle(e, at)
  IN IF fmt = "cold" THEN entries(single)
     ELSE IF fmt \in {"V1", "V2"} THEN entries(old)
     ELSE Checkpoints(fmt) \o entries(WriteEntry)

Enveloped(fmt) == fmt \in {"V5", "V6", "LXD"}
\* save_snapshot_binary, encode_dump_blob: length and digest are patched in after the body
Image(fmt, body) ==
  [hdr |-> fmt, len |-> IF Enveloped(fmt) THEN Len(body) ELSE 0,
   digest |-> IF Enveloped(fmt) THEN body ELSE <<>>, body |-> body]
WriteImage(fmt, db, at) == Image(fmt, WriteBody(fmt, db, at))

(* Reading. *)
Refuses == [ok |-> FALSE, entries |-> <<>>, checkpoints |-> {}]

\* a reader that checks the digest of the bytes that are there
VerifiesPrefix(f) == IsPrefix(f.body, f.digest)

\* verify_snapshot_body, verified_dump_payload: exact length, then digest, before anything is parsed
Verified(f) == f.len = Len(f.body) /\ f.digest = f.body

\* read_wal_checkpoints: nonzero successor other than the generation, no duplicate, "global" present
ReadCheckpoints(toks, successor) ==
  LET width == IF successor THEN 4 ELSE 3
      n == IF toks = <<>> THEN -1 ELSE toks[1]
      at(i) == 1 + (i - 1) * width
      names == {toks[at(i) + 1] : i \in 1..n}
      ok == /\ n \in 0..MaxItems
            /\ Len(toks) >= 1 + n * width
            /\ \A i \in 1..n : toks[at(i) + 1] > 0
            /\ Cardinality(names) = n
            /\ successor => Global \in names /\ \A i \in 1..n : toks[at(i) + 4] \notin {0, toks[at(i) + 2]}
  IN IF ok THEN [ok |-> TRUE, names |-> names, pos |-> 1 + n * width]
     ELSE [ok |-> FALSE, names |-> {}, pos |-> 0]

\* a reader that takes every deadline for a remaining time
RestartsTtl(ttl, absolute, now) == IF ttl <= 0 THEN 0 ELSE now + ttl

\* an entry's deadline at load: an absolute one is kept and may have passed, a relative one
\* starts again
DeadlineAt(ttl, absolute, now) == IF ttl <= 0 THEN 0 ELSE IF absolute THEN ttl ELSE now + ttl
Lapsed(ttl, absolute, now) == ttl > 0 /\ absolute /\ ttl <= now

\* load_entry: a group's pending entries are put on their consumers' own lists
Joined(group) ==
  LET pending == group[4]
      listed == {c[1] : c \in ToSet(group[3])}
      unlisted == SetToSeq({p[2] : p \in ToSet(pending)} \ listed)
      consumers == group[3] \o [i \in 1..Len(unlisted) |-> <<unlisted[i], <<>>>>]
      missing(c) == SetToSeq({<<p[1]>> : p \in {q \in ToSet(pending) : q[2] = c[1]}} \ ToSet(c[2]))
  IN <<group[1], group[2], [i \in 1..Len(consumers) |->
       <<consumers[i][1], consumers[i][2] \o missing(consumers[i])>>], pending>>
Groupless(val) == Len(val) = 2
LoadEntry(t, key, val) ==
  CASE t = "X" -> <<val[1], val[2], IF Groupless(val) THEN <<>>
                                  ELSE [i \in 1..Len(val[3]) |-> Joined(val[3][i])]>>
    [] t = "W" -> [val EXCEPT ![1] = OpenSealed(@)]
    [] OTHER -> val

\* parse_binary: the end of the input is the end of the entries only before a type byte; an expired
\* entry is staged when recovery asks for it and skipped otherwise
Staged(t, key, ttl, val, absolute, preserve, now) ==
  LET expired == Lapsed(ttl, absolute, now)
  IN IF expired /\ ~preserve THEN <<>>
     ELSE <<[key |-> key, type |-> t, val |-> LoadEntry(t, key, val),
             deadline |-> DeadlineAt(ttl, absolute, now), staged |-> expired]>>
WithEntry(here, rest) == IF rest.ok THEN [rest EXCEPT !.entries = here \o @] ELSE Refuses
RECURSIVE ParseBinary(_, _, _, _, _, _)
ParsedEntry(toks, t, key, ttl, value, groups, absolute, preserve, now) ==
  IF ~value.ok \/ (t = "W" /\ ~Opens(key, value.val[1])) THEN Refuses
  ELSE WithEntry(Staged(t, key, ttl, value.val, absolute, preserve, now),
                 ParseBinary(toks, value.pos, groups, absolute, preserve, now))
ParseBinary(toks, pos, groups, absolute, preserve, now) ==
  IF pos >= Len(toks) THEN [Refuses EXCEPT !.ok = TRUE]
  ELSE IF ~KnownByte(toks[pos + 1]) \/ pos + 3 > Len(toks) THEN Refuses
  ELSE LET t == TypeOf(toks[pos + 1])
       IN ParsedEntry(toks, t, toks[pos + 2], toks[pos + 3], Read(ReadShape(t, groups), toks, pos + 3),
                      groups, absolute, preserve, now)

\* a row of the text format: a type column or none, key, value, remaining time
LegacyRowFits(row) == row.columns = (IF row.typed THEN 4 ELSE 3) /\ row.wellFormed
LoadLegacy(rows, now) ==
  IF \A i \in 1..Len(rows) : LegacyRowFits(rows[i])
  THEN [Refuses EXCEPT !.ok = TRUE,
        !.entries = [i \in 1..Len(rows) |->
          [key |-> rows[i].key, type |-> "S", val |-> <<rows[i].value>>,
           deadline |-> DeadlineAt(rows[i].ttl, FALSE, now), staged |-> FALSE]]]
  ELSE Refuses

\* load_from_reader after the header: what is verified, which checkpoints precede the entries
NoCheckpoints == [ok |-> TRUE, names |-> {}, pos |-> 0]
CheckpointsOf(f) ==
  CASE f.hdr \in {"V5", "V6"} -> IF Verified(f) THEN ReadCheckpoints(f.body, f.hdr = "V6")
                                ELSE [NoCheckpoints EXCEPT !.ok = FALSE]
    [] f.hdr = "V4" -> ReadCheckpoints(f.body, FALSE)
    [] f.hdr = "short" -> [NoCheckpoints EXCEPT !.ok = FALSE]
    [] OTHER -> NoCheckpoints
WithCheckpoints(names, parsed) == IF parsed.ok THEN [parsed EXCEPT !.checkpoints = names] ELSE Refuses
AfterCheckpoints(f, cps, preserve, now) ==
  IF cps.ok THEN WithCheckpoints(cps.names, ParseBinary(f.body, cps.pos, f.hdr # "V1", f.hdr \notin {"V1", "V2"},
                                                        preserve, now))
  ELSE Refuses
LoadFromReader(f, preserve, now) ==
  IF f.hdr = "text" THEN LoadLegacy(f.body, now) ELSE AfterCheckpoints(f, CheckpointsOf(f), preserve, now)

\* decode_dump_blob: the envelope, then one V3 entry, never staged
DecodeDumpBlob(f, now) ==
  IF Verified(f) THEN ParseBinary(f.body, 0, TRUE, TRUE, FALSE, now) ELSE Refuses

\* read_single_entry: exactly one record, its remaining time as it is written; a record cut before
\* its groups is a stream without groups
SingleEntry(toks, t, value, now) ==
  IF ~value.ok THEN Refuses
  ELSE [Refuses EXCEPT !.ok = TRUE,
        !.entries = Staged(t, toks[2], toks[3], value.val, FALSE, FALSE, now)]
WholeOr(bare, toks, t) ==
  IF t = "X" /\ bare.ok /\ bare.pos = Len(toks) THEN bare ELSE Read(ReadShape(t, TRUE), toks, 3)
ReadSingleEntry(f, now) ==
  LET toks == f.body
      t == TypeOf(toks[1])
  IN IF Len(toks) < 3 \/ ~KnownByte(toks[1]) THEN Refuses
     ELSE SingleEntry(toks, t, WholeOr(Read(ReadShape(t, FALSE), toks, 3), toks, t), now)

\* validate_restore_reader: the same checks, nothing applied; text rows are no restore payload
ValidateRestore(f, now) ==
  /\ f.hdr \in {"V1", "V2", "V3", "V4", "V5", "V6"}
  /\ LoadFromReader(f, TRUE, now).ok

\* canonicalize_restore: a fresh store is loaded, without staged entries, and written as V6
Canonical(f, now) == WriteImage("V6", LoadFromReader(f, FALSE, now).entries, now)

\* required_existing_journals: the journals a start must find; it opens none before V4
RequiredJournals(f) ==
  CASE f.hdr \in {"V5", "V6"} ->
         IF Verified(f) THEN LET cps == ReadCheckpoints(f.body, f.hdr = "V6")
                             IN [ok |-> cps.ok, names |-> cps.names]
         ELSE [ok |-> FALSE, names |-> {}]
    [] f.hdr = "V4" -> LET cps == ReadCheckpoints(f.body, FALSE) IN [ok |-> cps.ok, names |-> cps.names]
    [] f.hdr = "short" -> [ok |-> FALSE, names |-> {}]
    [] OTHER -> [ok |-> TRUE, names |-> {}]

---------------------------------------------------------------------------
NoImage == [hdr |-> "none", len |-> 0, digest |-> <<>>, body |-> <<>>]
NotLoaded == [kind |-> "none", ok |-> FALSE, entries |-> <<>>, checkpoints |-> {}]

SnapInit ==
  /\ snapDb = <<>> /\ snapFmt = "none" /\ snapAt = 0 /\ image = NoImage /\ harm = "none" /\ snapClock = 0
  /\ loaded = NotLoaded

TextRow(e, at) == [typed |-> e.key = 1, columns |-> IF e.key = 1 THEN 4 ELSE 3, wellFormed |-> TRUE,
                   key |-> e.key, value |-> e.val[1], ttl |-> IF e.deadline = 0 THEN -1 ELSE e.deadline - at]
Strings(db) == \A i \in 1..Len(db) : db[i].type = "S"

\* a database is written, by this engine (V6, LXD, cold) or by an older one
SnapWrite(db, fmt) ==
  /\ snapFmt = "none"
  /\ fmt \in {"LXD", "cold"} => Len(db) = 1 /\ Len(Live(db, snapClock)) = 1
  /\ fmt = "cold" => db[1].type # "W"                 \* vectors stay in memory
  /\ fmt = "text" => Strings(db)
  /\ snapDb' = db /\ snapFmt' = fmt /\ snapAt' = snapClock
  /\ image' = IF fmt = "text"
              THEN [NoImage EXCEPT !.hdr = "text",
                    !.body = [i \in 1..Len(Live(db, snapClock)) |-> TextRow(Live(db, snapClock)[i], snapClock)]]
              ELSE WriteImage(fmt, db, snapClock)
  /\ UNCHANGED <<harm, snapClock, loaded>>

\* time passes until the file is read
SnapTick ==
  /\ snapClock < MaxSnapClock /\ loaded = NotLoaded
  /\ snapClock' = snapClock + 1
  /\ UNCHANGED <<snapDb, snapFmt, snapAt, image, harm, loaded>>

\* the file is cut: in the header, or after some token
SnapCut ==
  /\ snapFmt # "none" /\ harm = "none" /\ loaded = NotLoaded
  /\ \/ image' = [image EXCEPT !.hdr = "short", !.body = <<>>] /\ snapFmt # "cold" /\ snapFmt # "LXD"
     \/ \E n \in 0..Len(image.body) - 1 : image' = [image EXCEPT !.body = SubSeq(@, 1, n)]
  /\ harm' = "cut"
  /\ UNCHANGED <<snapDb, snapFmt, snapAt, snapClock, loaded>>

\* a token, the length or the digest reads something else (a tier record has a checksum of its own)
SnapAlter ==
  /\ snapFmt \notin {"none", "cold"} /\ harm = "none" /\ loaded = NotLoaded
  /\ \/ /\ snapFmt # "text"
        /\ \E i \in 1..Len(image.body), x \in Altered :
             x # image.body[i] /\ image' = [image EXCEPT !.body[i] = x]
     \/ /\ snapFmt = "text"
        /\ \E i \in 1..Len(image.body) : \/ image' = [image EXCEPT !.body[i].columns = 2]
                                         \/ image' = [image EXCEPT !.body[i].wellFormed = FALSE]
     \/ Enveloped(snapFmt) /\ image' = [image EXCEPT !.len = @ + 1]
     \/ Enveloped(snapFmt) /\ image.digest # <<>> /\ image' = [image EXCEPT !.digest = <<>>]
  /\ harm' = "altered"
  /\ UNCHANGED <<snapDb, snapFmt, snapAt, snapClock, loaded>>

\* start (preserve), restore canonicalisation (not), LXRESTORE, or a read of the cold tier
Answered(preserve, answer) ==
  [kind |-> IF preserve THEN "start" ELSE "restore", ok |-> answer.ok,
   entries |-> answer.entries, checkpoints |-> answer.checkpoints]
SnapLoad(preserve) ==
  /\ snapFmt # "none" /\ loaded = NotLoaded
  /\ preserve => snapFmt \notin {"LXD", "cold"}
  /\ loaded' = Answered(preserve, CASE snapFmt = "LXD" -> DecodeDumpBlob(image, snapClock)
                                     [] snapFmt = "cold" -> ReadSingleEntry(image, snapClock)
                                     [] OTHER -> LoadFromReader(image, preserve, snapClock))
  /\ UNCHANGED <<snapDb, snapFmt, snapAt, image, harm, snapClock>>

SnapNext ==
  \/ \E db \in Databases, fmt \in {"V1", "V2", "V3", "V4", "V5", "V6", "LXD", "cold", "text"} : SnapWrite(db, fmt)
  \/ SnapTick
  \/ SnapCut
  \/ SnapAlter
  \/ \E preserve \in BOOLEAN : SnapLoad(preserve)

SnapSpec == SnapInit /\ [][SnapNext]_snapVars

---------------------------------------------------------------------------
\* what a reader of the format must find of an entry of the saved database
Wanted(e) ==
  LET val == IF e.type # "X" THEN e.val
             ELSE <<e.val[1], e.val[2], IF snapFmt = "V1" THEN <<>> ELSE e.val[3]>>
      absolute == snapFmt \in {"V3", "V4", "V5", "V6", "LXD"}
      deadline == IF e.deadline = 0 THEN 0 ELSE IF absolute THEN e.deadline ELSE snapClock + e.deadline - snapAt
  IN [key |-> e.key, type |-> e.type, val |-> val, deadline |-> deadline,
      staged |-> absolute /\ e.deadline # 0 /\ e.deadline <= snapClock]

\* Loading an undamaged file brings back every entry that was live when it was written, value and
\* consumer groups (none in V1), the absolute deadlines as they were (V1, V2, text and tier records
\* start the remaining time again), and nothing else; an entry that expired since is staged as
\* expired at a start and dropped by a restore (load_from_reader, parse_binary, read_dump_value
\* against save_binary_entries; read_single_entry against write_single_entry).
RoundTrip ==
  (loaded # NotLoaded /\ harm = "none") =>
    /\ loaded.ok
    /\ LET live == Live(snapDb, snapAt)
           wanted == [i \in 1..Len(live) |-> Wanted(live[i])]
       IN loaded.entries = IF loaded.kind = "start" THEN wanted ELSE SelectSeq(wanted, LAMBDA e : ~e.staged)

\* A V5 or V6 snapshot or a DUMP blob that was cut or altered is refused and nothing of it is loaded:
\* the digest and the exact length are checked before a token is parsed.
DamageRefused ==
  (loaded # NotLoaded /\ harm # "none" /\ Enveloped(snapFmt)) => ~loaded.ok /\ loaded.entries = <<>>

\* Even without a digest, a V3 or V4 snapshot that was cut loads a prefix of its entries or is refused,
\* and a loaded group's pending entries are on their consumers' lists whatever was altered.
CutLoadsPrefix ==
  /\ (loaded.ok /\ harm = "cut" /\ snapFmt \in {"V3", "V4"} /\ loaded.kind = "start") =>
       LET live == Live(snapDb, snapAt)
       IN IsPrefix(loaded.entries, [i \in 1..Len(live) |-> Wanted(live[i])])
  /\ \A i \in 1..Len(loaded.entries) : loaded.entries[i].type = "X" =>
       \A g \in ToSet(loaded.entries[i].val[3]) : \A p \in ToSet(g[4]) :
         \E c \in ToSet(g[3]) : c[1] = p[2] /\ <<p[1]>> \in ToSet(c[2])

SameEntries(restored, again) ==
  restored.ok /\ again.ok /\ again.entries = restored.entries /\ Global \in again.checkpoints
FindsItsJournals(start, needs) == start.ok => needs.ok /\ needs.names = start.checkpoints

\* A payload the restore check accepts is one the start accepts, it canonicalises to a snapshot with
\* the same entries, and the journals a start requires before it loads are the checkpoints it loads.
RestoreCheckAgrees ==
  (snapFmt \notin {"none", "LXD", "cold"}) =>
    /\ ValidateRestore(image, snapClock) =>
         SameEntries(LoadFromReader(image, FALSE, snapClock),
                     LoadFromReader(Canonical(image, snapClock), FALSE, snapClock))
    /\ FindsItsJournals(LoadFromReader(image, TRUE, snapClock), RequiredJournals(image))
=============================================================================
