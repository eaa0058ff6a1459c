-------------------------- MODULE CollectionCommands -------------------------
(***************************************************************************)
(* The commands on lists, hashes, sets and sorted sets.                    *)
(***************************************************************************)
EXTENDS StringCommands

-----------------------------------------------------------------------------
(* The list commands (src/cmd/lists.rs over src/store/mod.rs).  A list     *)
(* that has lost its last element stays as an empty one.                   *)

List(e) == IF e.type = "list" THEN e.val ELSE <<>>
PutList(db, k, e, l) == Put(db, k, Entry("list", l, e.exp))

\* LPUSH, RPUSH and, for an existing list only, LPUSHX and RPUSHX.
Pushed(l, args, left) == IF left THEN Reverse(args) \o l ELSE l \o args

push_list(db, now, c, left) ==
  LET e == Live(db, c.key, now)
      l == Pushed(List(e), c.args, left)
  IN IF ~Holds(e, "list") THEN Refused(db)
     ELSE Generic(c, PutList(db, c.key, e, l), Int1(Len(l)))

cmd_pushx(db, now, c, left) ==
  LET e == Live(db, c.key, now)
      l == Pushed(List(e), c.args, left)
  IN IF e.type # "list" THEN Generic(c, db, Int1(0))
     ELSE Generic(c, PutList(db, c.key, e, l), Int1(Len(l)))

\* The first or last n elements, in the order in which they are popped.
Popped(l, n, left) ==
  IF left THEN SubSeq(l, 1, Min({n, Len(l)}))
  ELSE Reverse(SubSeq(l, Max({Len(l) - n, 0}) + 1, Len(l)))
Remaining(l, n, left) ==
  IF left THEN SubSeq(l, n + 1, Len(l)) ELSE SubSeq(l, 1, Len(l) - Min({n, Len(l)}))

\* LPOP and RPOP: with a count (n > 0 here) a wrong type is an error, without
\* one (n = 0) it is nil.
cmd_pop(db, now, c, left) ==
  LET e == Live(db, c.key, now)
      n == Max({c.n, 1})
  IN CASE e.type \notin {"none", "list"} ->
            IF c.n = 0 THEN Generic(c, db, Nil) ELSE Refused(db)
       [] e.type = "none" \/ (c.n = 0 /\ e.val = <<>>) -> Generic(c, db, Nil)
       [] OTHER -> Generic(c, PutList(db, c.key, e, Remaining(e.val, n, left)),
                           IF c.n = 0 THEN Bulk(Popped(e.val, 1, left))
                           ELSE Many(Popped(e.val, n, left)))

cmd_llen(db, now, c) ==
  LET e == Live(db, c.key, now)
  IN IF Holds(e, "list") THEN NoOp(db, Int1(Len(List(e)))) ELSE Refused(db)

cmd_lrange(db, now, c) ==
  LET e == Live(db, c.key, now)
  IN IF Holds(e, "list") THEN NoOp(db, Many(Slice(List(e), c.n, c.m))) ELSE Refused(db)

Position(l, i) == (IF i < 0 THEN Len(l) + i ELSE i) + 1

cmd_lindex(db, now, c) ==
  LET l == List(Live(db, c.key, now))
      p == Position(l, c.n)
  IN NoOp(db, IF p \in 1..Len(l) THEN Bulk(<<l[p]>>) ELSE Nil)

cmd_lset(db, now, c) ==
  LET e == Live(db, c.key, now)
      p == Position(List(e), c.n)
  IN IF e.type = "list" /\ p \in 1..Len(e.val)
     THEN Generic(c, PutList(db, c.key, e, [e.val EXCEPT ![p] = c.m]), Ok)
     ELSE Refused(db)

\* LINSERT before or after the first element equal to n.
cmd_linsert(db, now, c) ==
  LET e == Live(db, c.key, now)
      at == {i \in 1..Len(List(e)) : e.val[i] = c.n}
      p == IF "BEFORE" \in c.opt THEN Min(at) ELSE Min(at) + 1
  IN CASE ~Holds(e, "list") -> Refused(db)
       [] e.type = "none" -> Generic(c, db, Int1(0))
       [] at = {} -> Generic(c, db, Int1(-1))
       [] OTHER -> Generic(c, PutList(db, c.key, e, InsertAt(e.val, p, c.m)), Int1(Len(e.val) + 1))

\* LREM removes the first n, the last -n, or all elements equal to m.
Removals(l, n, m) ==
  LET at == {i \in 1..Len(l) : l[i] = m}
      before(i) == Cardinality({j \in at : j < i})
      after(i) == Cardinality({j \in at : j > i})
  IN CASE n > 0 -> {i \in at : before(i) < n}
       [] n < 0 -> {i \in at : after(i) < -n}
       [] OTHER -> at

Without(l, gone) ==
  LET keep == {i \in 1..Len(l) : i \notin gone}
  IN [i \in 1..Cardinality(keep) |-> l[CHOOSE j \in keep : Cardinality({x \in keep : x <= j}) = i]]

cmd_lrem(db, now, c) ==
  LET e == Live(db, c.key, now)
      gone == Removals(List(e), c.n, c.m)
  IN IF ~Holds(e, "list") THEN Refused(db)
     ELSE IF e.type = "none" THEN Generic(c, db, Int1(0))
     ELSE Generic(c, PutList(db, c.key, e, Without(e.val, gone)), Int1(Cardinality(gone)))

cmd_ltrim(db, now, c) ==
  LET e == Live(db, c.key, now)
  IN IF ~Holds(e, "list") THEN Refused(db)
     ELSE IF e.type = "none" THEN Generic(c, db, Ok)
     ELSE Generic(c, PutList(db, c.key, e, Slice(e.val, c.n, c.m)), Ok)

\* LPOS with RANK n: matches in the direction of the rank, from the |n|-th on.
cmd_lpos(db, now, c) ==
  LET e == Live(db, c.key, now)
      at == {i \in 1..Len(List(e)) : e.val[i] = c.m}
      seen(i) == IF c.n > 0 THEN {j \in at : j <= i} ELSE {j \in at : j >= i}
      hit == {i \in at : Cardinality(seen(i)) = IF c.n > 0 THEN c.n ELSE -c.n}
  IN IF ~Holds(e, "list") \/ c.n = 0 THEN Refused(db)
     ELSE NoOp(db, IF hit = {} THEN Nil ELSE Int1((CHOOSE i \in hit : TRUE) - 1))

\* journaled_list_move, for LMOVE and RPOPLPUSH: the pop and the push of the
\* element it looked at, in one frame.
cmd_lmove(db, now, c) ==
  LET src == Live(db, c.key, now)
      fromLeft == "FROMLEFT" \in c.opt
      toLeft == "TOLEFT" \in c.opt
      v == Popped(List(src), 1, fromLeft)
      popped == PutList(db, c.key, src, Remaining(List(src), 1, fromLeft))
      dst == Live(popped, c.dst, now)
  IN CASE ~Holds(src, "list") \/ ~Holds(Live(db, c.dst, now), "list") -> Refused(db)
       [] v = <<>> -> NoOp(db, Nil)
       [] OTHER ->
            Done(PutList(popped, c.dst, dst, Pushed(List(dst), v, toLeft)), Bulk(v),
                 <<Cmd(IF fromLeft THEN "LPOP" ELSE "RPOP", c.key, c.key, 0, 0, <<>>, {}),
                   Cmd(IF toLeft THEN "LPUSH" ELSE "RPUSH", c.dst, c.dst, 0, 0, v, {})>>)

\* journaled_lmpop, for LMPOP and the immediate answer of BLPOP and BRPOP: the
\* first of the keys with an element, and how many elements it gave.
cmd_lmpop(db, now, c) ==
  LET keys == <<c.key, c.dst>>
      left == "LEFT" \in c.opt
      at(i) == Live(db, keys[i], now)
      stop == {i \in 1..2 : at(i).type \notin {"none", "list"} \/ List(at(i)) # <<>>}
      i == Min(stop)
      v == Popped(List(at(i)), c.n, left)
  IN CASE stop = {} -> NoOp(db, Nil)
       [] at(i).type # "list" -> Refused(db)
       [] OTHER -> Done(PutList(db, keys[i], at(i), Remaining(at(i).val, c.n, left)), Many(v),
                        <<Cmd(IF left THEN "LPOP" ELSE "RPOP", keys[i], keys[i], Len(v), 0,
                              <<>>, {})>>)

ListOps == {"LPUSH", "RPUSH", "LPUSHX", "RPUSHX", "LPOP", "RPOP", "LLEN", "LRANGE", "LINDEX",
            "LSET", "LINSERT", "LREM", "LTRIM", "LPOS", "LMOVE", "LMPOP"}

ListExec(db, now, c) ==
  CASE c.op = "LPUSH" -> push_list(db, now, c, TRUE)
    [] c.op = "RPUSH" -> push_list(db, now, c, FALSE)
    [] c.op = "LPUSHX" -> cmd_pushx(db, now, c, TRUE)
    [] c.op = "RPUSHX" -> cmd_pushx(db, now, c, FALSE)
    [] c.op = "LPOP" -> cmd_pop(db, now, c, TRUE)
    [] c.op = "RPOP" -> cmd_pop(db, now, c, FALSE)
    [] c.op = "LLEN" -> cmd_llen(db, now, c)
    [] c.op = "LRANGE" -> cmd_lrange(db, now, c)
    [] c.op = "LINDEX" -> cmd_lindex(db, now, c)
    [] c.op = "LSET" -> cmd_lset(db, now, c)
    [] c.op = "LINSERT" -> cmd_linsert(db, now, c)
    [] c.op = "LREM" -> cmd_lrem(db, now, c)
    [] c.op = "LTRIM" -> cmd_ltrim(db, now, c)
    [] c.op = "LPOS" -> cmd_lpos(db, now, c)
    [] c.op = "LMOVE" -> cmd_lmove(db, now, c)
    [] c.op = "LMPOP" -> cmd_lmpop(db, now, c)

-----------------------------------------------------------------------------
(* The hash commands (src/cmd/hashes.rs over src/store/hashes.rs), with a  *)
(* deadline of its own for every field that has one.  A field is gone at   *)
(* its deadline, a key only after it.                                      *)

EmptyHash == [fields |-> <<>>, ttl |-> <<>>]
Hash(e) == IF e.type = "hash" THEN e.val ELSE EmptyHash

Has(h, f) == f \in DOMAIN h.fields
FieldExpired(h, f, now) == f \in DOMAIN h.ttl /\ h.ttl[f] <= now
LiveFields(h, now) == {f \in DOMAIN h.fields : ~FieldExpired(h, f, now)}

With(fn, x, y) == [z \in DOMAIN fn \union {x} |-> IF z = x THEN y ELSE fn[z]]
Less(fn, S) == [z \in DOMAIN fn \ S |-> fn[z]]

PurgeExpired(h, now) ==
  LET gone == {f \in DOMAIN h.fields : FieldExpired(h, f, now)}
  IN [fields |-> Less(h.fields, gone), ttl |-> Less(h.ttl, gone)]

\* A new value ends the field's deadline.
SetField(h, f, v) == [fields |-> With(h.fields, f, v), ttl |-> Less(h.ttl, {f})]
DelField(h, f) == [fields |-> Less(h.fields, {f}), ttl |-> Less(h.ttl, {f})]

PutHash(db, k, e, h) == Put(db, k, Entry("hash", h, e.exp))

\* A key whose last field is gone is removed.
KeepHash(db, k, e, h) == IF DOMAIN h.fields = {} THEN Drop(db, k) ELSE PutHash(db, k, e, h)

\* HSET and HMSET journal the bytes they store, as ENC RAWHSET.
cmd_hset(db, now, c) ==
  LET e == Live(db, c.key, now)
      h == PurgeExpired(Hash(e), now)
  IN IF ~Holds(e, "hash") THEN Refused(db)
     ELSE Done(PutHash(db, c.key, e, SetField(h, c.n, c.m)), Int1(IF Has(h, c.n) THEN 0 ELSE 1),
               <<[c EXCEPT !.op = "RAWHSET"]>>)

\* HSETNX looks at the stored fields, expired or not.
cmd_hsetnx(db, now, c) ==
  LET e == Live(db, c.key, now)
      h == Hash(e)
  IN IF ~Holds(e, "hash") THEN Refused(db)
     ELSE IF Has(h, c.n) THEN Generic(c, db, Int1(0))
     ELSE Generic(c, PutHash(db, c.key, e, [h EXCEPT !.fields = With(@, c.n, c.m)]), Int1(1))

\* HGET of a key of another type answers nil.
cmd_hget(db, now, c) ==
  LET h == Hash(Live(db, c.key, now))
  IN NoOp(db, IF c.n \in LiveFields(h, now) THEN Bulk(<<h.fields[c.n]>>) ELSE Nil)

\* HGETALL, HKEYS, HVALS and HMGET: the live fields.
cmd_hgetall(db, now, c) ==
  LET e == Live(db, c.key, now)
      h == Hash(e)
  IN IF ~Holds(e, "hash") THEN Refused(db)
     ELSE NoOp(db, <<"fields", {<<f, h.fields[f]>> : f \in LiveFields(h, now)}>>)

cmd_hlen(db, now, c) ==
  LET e == Live(db, c.key, now)
  IN IF ~Holds(e, "hash") THEN Refused(db)
     ELSE NoOp(db, Int1(Cardinality(LiveFields(Hash(e), now))))

cmd_hdel(db, now, c) ==
  LET e == Live(db, c.key, now)
      h == Hash(e)
  IN CASE ~Holds(e, "hash") -> Refused(db)
       [] e.type = "none" -> Generic(c, db, Int1(0))
       [] OTHER -> Generic(c, KeepHash(db, c.key, e, DelField(h, c.n)),
                           Int1(IF c.n \in LiveFields(h, now) THEN 1 ELSE 0))

\* HINCRBY: the field's deadline is dropped before the value is parsed, so
\* even a refusal loses it.  A value of TextField stands for one that is no
\* number.
TextField == 99

cmd_hincrby(db, now, c) ==
  LET e == Live(db, c.key, now)
      h == PurgeExpired(Hash(e), now)
      timeless == [h EXCEPT !.ttl = Less(@, {c.n})]
      new == (IF Has(h, c.n) THEN h.fields[c.n] ELSE 0) + c.m
  IN CASE ~Holds(e, "hash") -> Refused(db)
       [] Has(h, c.n) /\ h.fields[c.n] = TextField -> Refused(PutHash(db, c.key, e, timeless))
       [] OTHER -> Generic(c, PutHash(db, c.key, e, SetField(h, c.n, new)), Int1(new))

\* HINCRBYFLOAT neither purges nor touches the field's deadline.
cmd_hincrbyfloat(db, now, c) ==
  LET e == Live(db, c.key, now)
      h == Hash(e)
      new == (IF Has(h, c.n) THEN h.fields[c.n] ELSE 0) + c.m
  IN IF ~Holds(e, "hash") \/ (Has(h, c.n) /\ h.fields[c.n] = TextField) THEN Refused(db)
     ELSE Generic(c, PutHash(db, c.key, e, [h EXCEPT !.fields = With(@, c.n, new)]), Bulk(<<new>>))

\* hexpire_fields on one field: -2 absent, 0 condition not met, 1 set, 2 the
\* deadline has passed and the field is deleted.
ExpireAllowed(h, f, deadline, opt) ==
  /\ "NX" \in opt => f \notin DOMAIN h.ttl
  /\ "XX" \in opt => f \in DOMAIN h.ttl
  /\ "GT" \in opt => f \in DOMAIN h.ttl /\ deadline > h.ttl[f]
  /\ "LT" \in opt /\ f \in DOMAIN h.ttl => deadline < h.ttl[f]

HExpireAt(db, now, c, deadline, log) ==
  LET e == Live(db, c.key, now)
      h == PurgeExpired(Hash(e), now)
      new == CASE ~Has(h, c.m) \/ ~ExpireAllowed(h, c.m, deadline, c.opt) -> h
               [] deadline <= now -> DelField(h, c.m)
               [] OTHER -> [h EXCEPT !.ttl = With(@, c.m, deadline)]
      code == CASE ~Has(h, c.m) -> -2
                [] ~ExpireAllowed(h, c.m, deadline, c.opt) -> 0
                [] deadline <= now -> 2
                [] OTHER -> 1
  IN CASE ~Holds(e, "hash") -> Refused(db)
       [] e.type = "none" -> Done(db, Int1(-2), log)
       [] OTHER -> Done(KeepHash(db, c.key, e, new), Int1(code), log)

\* HEXPIRE, HPEXPIRE and their AT forms journal the absolute deadline.
JournalledAt(c, deadline) == <<[c EXCEPT !.op = "HPEXPIREAT", !.n = deadline]>>
cmd_hpexpire(db, now, c) == HExpireAt(db, now, c, now + c.n, JournalledAt(c, now + c.n))
cmd_hpexpireat(db, now, c) == HExpireAt(db, now, c, c.n, JournalledAt(c, c.n))

cmd_hpexpiretime(db, now, c) ==
  LET e == Live(db, c.key, now)
      h == Hash(e)
  IN IF ~Holds(e, "hash") THEN Refused(db)
     ELSE NoOp(db, Int1(CASE c.m \notin LiveFields(h, now) -> -2
                          [] c.m \notin DOMAIN h.ttl -> -1
                          [] OTHER -> h.ttl[c.m]))

cmd_hpersist(db, now, c) ==
  LET e == Live(db, c.key, now)
      h == PurgeExpired(Hash(e), now)
  IN CASE ~Holds(e, "hash") -> Refused(db)
       [] e.type = "none" -> Generic(c, db, Int1(-2))
       [] OTHER -> Generic(c, PutHash(db, c.key, e, [h EXCEPT !.ttl = Less(@, {c.m})]),
                           Int1(CASE ~Has(h, c.m) -> -2
                                  [] c.m \notin DOMAIN h.ttl -> -1
                                  [] OTHER -> 1))

cmd_hgetdel(db, now, c) ==
  LET e == Live(db, c.key, now)
      h == PurgeExpired(Hash(e), now)
  IN CASE ~Holds(e, "hash") -> Refused(db)
       [] e.type = "none" -> Generic(c, db, Nil)
       [] OTHER -> Generic(c, KeepHash(db, c.key, e, DelField(h, c.m)),
                           IF Has(h, c.m) THEN Bulk(<<h.fields[c.m]>>) ELSE Nil)

\* HGETEX: reads, and journals HPERSIST or HPEXPIREAT for the option it has.
cmd_hgetex(db, now, c) ==
  LET e == Live(db, c.key, now)
      h == PurgeExpired(Hash(e), now)
      deadline == IF "PX" \in c.opt THEN now + c.n ELSE c.n
      value == IF Has(h, c.m) THEN Bulk(<<h.fields[c.m]>>) ELSE Nil
      new == CASE ~Has(h, c.m) \/ c.opt = {} -> h
               [] "PERSIST" \in c.opt -> [h EXCEPT !.ttl = Less(@, {c.m})]
               [] deadline <= now -> DelField(h, c.m)
               [] OTHER -> [h EXCEPT !.ttl = With(@, c.m, deadline)]
      log == CASE c.opt = {} -> <<>>
               [] "PERSIST" \in c.opt -> <<[c EXCEPT !.op = "HPERSIST", !.opt = {}]>>
               [] OTHER -> <<[c EXCEPT !.op = "HPEXPIREAT", !.n = deadline, !.opt = {}]>>
  IN CASE ~Holds(e, "hash") -> Refused(db)
       [] e.type = "none" -> Done(db, Nil, log)
       [] OTHER -> Done(KeepHash(db, c.key, e, new), value, log)

HashOps == {"HSET", "RAWHSET", "HSETNX", "HGET", "HGETALL", "HLEN", "HDEL", "HINCRBY",
            "HINCRBYFLOAT", "HPEXPIRE", "HPEXPIREAT", "HPEXPIRETIME", "HPERSIST", "HGETDEL",
            "HGETEX"}

HashExec(db, now, c) ==
  CASE c.op \in {"HSET", "RAWHSET"} -> cmd_hset(db, now, c)
    [] c.op = "HSETNX" -> cmd_hsetnx(db, now, c)
    [] c.op = "HGET" -> cmd_hget(db, now, c)
    [] c.op = "HGETALL" -> cmd_hgetall(db, now, c)
    [] c.op = "HLEN" -> cmd_hlen(db, now, c)
    [] c.op = "HDEL" -> cmd_hdel(db, now, c)
    [] c.op = "HINCRBY" -> cmd_hincrby(db, now, c)
    [] c.op = "HINCRBYFLOAT" -> cmd_hincrbyfloat(db, now, c)
    [] c.op = "HPEXPIRE" -> cmd_hpexpire(db, now, c)
    [] c.op = "HPEXPIREAT" -> cmd_hpexpireat(db, now, c)
    [] c.op = "HPEXPIRETIME" -> cmd_hpexpiretime(db, now, c)
    [] c.op = "HPERSIST" -> cmd_hpersist(db, now, c)
    [] c.op = "HGETDEL" -> cmd_hgetdel(db, now, c)
    [] c.op = "HGETEX" -> cmd_hgetex(db, now, c)

-----------------------------------------------------------------------------
(* The set commands (src/cmd/sets.rs over src/store/mod.rs).  A set keeps  *)
(* its members in a vector beside an index: a new member goes to the end,  *)
(* a removed one is replaced by the last, SPOP takes from the end.         *)

Members(e) == IF e.type = "set" THEN e.val ELSE <<>>
SetInsert(s, x) == IF Contains(s, x) THEN s ELSE Append(s, x)
SetRemove(s, x) ==
  IF ~Contains(s, x) THEN s
  ELSE LET i == CHOOSE j \in 1..Len(s) : s[j] = x
       IN [j \in 1..Len(s) - 1 |-> IF j = i THEN s[Len(s)] ELSE s[j]]

InsertAll(s, xs) == FoldLeft(SetInsert, s, xs)
RemoveAll(s, xs) == FoldLeft(SetRemove, s, xs)
PutSet(db, k, e, s) == Put(db, k, Entry("set", s, e.exp))

cmd_sadd(db, now, c) ==
  LET e == Live(db, c.key, now)
      s == InsertAll(Members(e), c.args)
  IN IF ~Holds(e, "set") THEN Refused(db)
     ELSE Generic(c, PutSet(db, c.key, e, s), Int1(Len(s) - Len(Members(e))))

cmd_srem(db, now, c) ==
  LET e == Live(db, c.key, now)
      s == RemoveAll(Members(e), c.args)
  IN CASE ~Holds(e, "set") -> Refused(db)
       [] e.type = "none" -> Generic(c, db, Int1(0))
       [] OTHER -> Generic(c, PutSet(db, c.key, e, s), Int1(Len(Members(e)) - Len(s)))

\* SMEMBERS, SCARD, SISMEMBER and SMISMEMBER.
cmd_smembers(db, now, c) ==
  LET e == Live(db, c.key, now)
  IN IF ~Holds(e, "set") THEN Refused(db) ELSE NoOp(db, <<"members", ToSet(Members(e))>>)

\* SRANDMEMBER answers from the front of the vector.
cmd_srandmember(db, now, c) ==
  LET e == Live(db, c.key, now)
  IN IF ~Holds(e, "set") THEN Refused(db)
     ELSE NoOp(db, Many(SubSeq(Members(e), 1, Min({c.n, Len(Members(e))}))))

PreviewSpop(s, n) == Reverse(SubSeq(s, Max({Len(s) - n, 0}) + 1, Len(s)))

\* SPOP journals the members it took, as SREM.
cmd_spop(db, now, c) ==
  LET e == Live(db, c.key, now)
      taken == PreviewSpop(Members(e), c.n)
  IN CASE ~Holds(e, "set") -> Refused(db)
       [] taken = <<>> -> NoOp(db, Many(<<>>))
       [] OTHER -> Done(PutSet(db, c.key, e, RemoveAll(e.val, taken)), Many(taken),
                        <<Cmd("SREM", c.key, c.key, 0, 0, taken, {})>>)

cmd_smove(db, now, c) ==
  LET src == Live(db, c.key, now)
      left == PutSet(db, c.key, src, SetRemove(Members(src), c.n))
      dst == Live(left, c.dst, now)
      one(op, k) == Cmd(op, k, k, 0, 0, <<c.n>>, {})
  IN CASE ~Holds(src, "set") \/ ~Holds(Live(db, c.dst, now), "set") -> Refused(db)
       [] ~Contains(Members(src), c.n) -> NoOp(db, Int1(0))
       [] OTHER -> Done(PutSet(left, c.dst, dst, SetInsert(Members(dst), c.n)), Int1(1),
                        <<one("SREM", c.key), one("SADD", c.dst)>>)

\* SUNION, SINTER and SDIFF of two keys, in the order of the result vector.
Union2(a, b) == InsertAll(a, b)
Inter2(a, b) == SelectSeq(a, LAMBDA x : Contains(b, x))
Diff2(a, b) == SelectSeq(a, LAMBDA x : ~Contains(b, x))

Combine(db, now, c) ==
  LET a == Members(Live(db, c.key, now))
      b == Members(Live(db, c.dst, now))
  IN CASE "UNION" \in c.opt -> Union2(a, b)
       [] "INTER" \in c.opt -> Inter2(a, b)
       [] OTHER -> Diff2(a, b)

BothSets(db, now, c) == \A k \in {c.key, c.dst} : Holds(Live(db, k, now), "set")

cmd_sinter(db, now, c) ==
  IF BothSets(db, now, c) THEN NoOp(db, <<"members", ToSet(Combine(db, now, c))>>) ELSE Refused(db)

cmd_sintercard(db, now, c) ==
  IF BothSets(db, now, c)
  THEN NoOp(db, Int1(Len(Inter2(Members(Live(db, c.key, now)), Members(Live(db, c.dst, now))))))
  ELSE Refused(db)

\* write_computed_set, for SUNIONSTORE, SINTERSTORE and SDIFFSTORE into the
\* second of the two keys: a removal and the members that were computed.
cmd_sstore(db, now, c) ==
  LET s == Combine(db, now, c)
      del == Cmd("DEL", c.dst, c.dst, 0, 0, <<>>, {})
      sadd == Cmd("SADD", c.dst, c.dst, 0, 0, s, {})
  IN IF ~BothSets(db, now, c) THEN Refused(db)
     ELSE Done(IF s = <<>> THEN Drop(db, c.dst) ELSE Put(db, c.dst, Entry("set", s, NoDeadline)),
               Int1(Len(s)), IF s = <<>> THEN <<del>> ELSE <<del, sadd>>)

SetOps == {"SADD", "SREM", "SMEMBERS", "SRANDMEMBER", "SPOP", "SMOVE", "SINTER", "SINTERCARD",
           "SSTORE"}

SetExec(db, now, c) ==
  CASE c.op = "SADD" -> cmd_sadd(db, now, c)
    [] c.op = "SREM" -> cmd_srem(db, now, c)
    [] c.op = "SMEMBERS" -> cmd_smembers(db, now, c)
    [] c.op = "SRANDMEMBER" -> cmd_srandmember(db, now, c)
    [] c.op = "SPOP" -> cmd_spop(db, now, c)
    [] c.op = "SMOVE" -> cmd_smove(db, now, c)
    [] c.op = "SINTER" -> cmd_sinter(db, now, c)
    [] c.op = "SINTERCARD" -> cmd_sintercard(db, now, c)
    [] c.op = "SSTORE" -> cmd_sstore(db, now, c)

-----------------------------------------------------------------------------
(* The sorted-set commands (src/cmd/sorted_sets.rs over                    *)
(* src/store/sorted_sets.rs).  A sorted set gives every member a score and *)
(* is ordered by score, then member.  Scores are 64-bit floats, of which   *)
(* the model keeps small integers, the infinities and NaN; NaN sorts above *)
(* all of them, as OrderedFloat has it.                                    *)


Inf == 100
NaN == 1000

FloatAdd(a, b) ==
  CASE NaN \in {a, b} \/ {a, b} = {Inf, -Inf} -> NaN
    [] Inf \in {a, b} -> Inf
    [] -Inf \in {a, b} -> -Inf
    [] OTHER -> a + b

FloatMul(a, w) ==
  CASE a = NaN \/ (a \in {Inf, -Inf} /\ w = 0) -> NaN
    [] a \in {Inf, -Inf} -> IF w > 0 THEN a ELSE -a
    [] OTHER -> a * w

\* f64::min and f64::max prefer the operand that is a number.
FloatMin(a, b) == IF a = NaN THEN b ELSE IF b = NaN THEN a ELSE Min({a, b})
FloatMax(a, b) == IF a = NaN THEN b ELSE IF b = NaN THEN a ELSE Max({a, b})

Scores(e) == IF e.type = "zset" THEN e.val ELSE <<>>
PutZset(db, k, e, z) == Put(db, k, Entry("zset", z, e.exp))

\* The members in the order of the tree.
Before(z, a, b) == z[a] < z[b] \/ (z[a] = z[b] /\ a < b)
Ordered(z) == SetToSortSeq(DOMAIN z, LAMBDA a, b : Before(z, a, b))
InOrder(z, reverse) == IF reverse THEN Reverse(Ordered(z)) ELSE Ordered(z)
Scored(z, ms) == [i \in 1..Len(ms) |-> <<ms[i], z[ms[i]]>>]

ZaddSyntax(opt) ==
  /\ "NX" \in opt => opt \cap {"XX", "GT", "LT"} = {}
  /\ ~ {"GT", "LT"} \subseteq opt

\* ZADD of member n with score m.
cmd_zadd(db, now, c) ==
  LET e == Live(db, c.key, now)
      z == Scores(e)
      old == c.n \in DOMAIN z
      update == /\ old /\ "NX" \notin c.opt /\ c.m # z[c.n]
                /\ "GT" \in c.opt => c.m > z[c.n]
                /\ "LT" \in c.opt => z[c.n] # NaN /\ c.m < z[c.n]
      add == ~old /\ "XX" \notin c.opt
  IN CASE ~ZaddSyntax(c.opt) \/ c.m = NaN -> Refused(db)
       [] e.type = "none" /\ "XX" \in c.opt -> Generic(c, db, Int1(0))
       [] ~Holds(e, "zset") -> Refused(db)
       [] OTHER -> Generic(c, PutZset(db, c.key, e, IF add \/ update THEN With(z, c.n, c.m) ELSE z),
                           Int1(IF add \/ (update /\ "CH" \in c.opt) THEN 1 ELSE 0))

\* The replacement that a STORE command journals is one ZADD of all pairs,
\* and a NaN among them refuses it.
cmd_zaddall(db, now, c) ==
  LET e == Live(db, c.key, now)
      z == Scores(e)
      new == c.args
  IN IF NaN \in Range(new) \/ ~Holds(e, "zset") THEN Refused(db)
     ELSE NoOp(PutZset(db, c.key, e, [x \in DOMAIN z \union DOMAIN new |->
                                        IF x \in DOMAIN new THEN new[x] ELSE z[x]]), Int1(0))

cmd_zincrby(db, now, c) ==
  LET e == Live(db, c.key, now)
      z == Scores(e)
      new == FloatAdd(IF c.n \in DOMAIN z THEN z[c.n] ELSE 0, c.m)
  IN IF ~Holds(e, "zset") \/ c.m = NaN THEN Refused(db)
     ELSE Generic(c, PutZset(db, c.key, e, With(z, c.n, new)), Bulk(<<new>>))

cmd_zscore(db, now, c) ==
  LET e == Live(db, c.key, now)
      z == Scores(e)
  IN IF ~Holds(e, "zset") THEN Refused(db)
     ELSE NoOp(db, IF c.n \in DOMAIN z THEN Bulk(<<z[c.n]>>) ELSE Nil)

cmd_zcard(db, now, c) ==
  LET e == Live(db, c.key, now)
  IN IF Holds(e, "zset") THEN NoOp(db, Int1(Cardinality(DOMAIN Scores(e)))) ELSE Refused(db)

cmd_zrank(db, now, c) ==
  LET e == Live(db, c.key, now)
      z == Scores(e)
      below == Cardinality({x \in DOMAIN z : Before(z, x, c.n)})
  IN IF ~Holds(e, "zset") THEN Refused(db)
     ELSE NoOp(db, CASE c.n \notin DOMAIN z -> Nil
                     [] "REV" \in c.opt -> Int1(Cardinality(DOMAIN z) - 1 - below)
                     [] OTHER -> Int1(below))

cmd_zrem(db, now, c) ==
  LET e == Live(db, c.key, now)
      z == Scores(e)
      gone == DOMAIN z \cap ToSet(c.args)
  IN CASE ~Holds(e, "zset") -> Refused(db)
       [] e.type = "none" -> Generic(c, db, Int1(0))
       [] OTHER -> Generic(c, PutZset(db, c.key, e, Less(z, gone)), Int1(Cardinality(gone)))

\* The members between two ranks, two scores (which the reversed form names
\* in the other order) or two members, in the order of the answer.
InRank(z, c) == Slice(InOrder(z, "REV" \in c.opt), c.n, c.m)

InScore(z, c) ==
  LET lo == IF "REV" \in c.opt THEN c.m ELSE c.n
      hi == IF "REV" \in c.opt THEN c.n ELSE c.m
      in(x) == z[x] >= lo /\ z[x] <= hi /\ z[x] # NaN
  IN SelectSeq(InOrder(z, "REV" \in c.opt), in)

InLex(z, c) == SelectSeq(InOrder(z, "REV" \in c.opt), LAMBDA x : x >= c.n /\ x <= c.m)

Picked(z, c) ==
  CASE "BYSCORE" \in c.opt -> InScore(z, c)
    [] "BYLEX" \in c.opt -> InLex(z, c)
    [] OTHER -> InRank(z, c)

cmd_zrange(db, now, c) ==
  LET e == Live(db, c.key, now)
  IN IF ~Holds(e, "zset") THEN Refused(db)
     ELSE NoOp(db, Many(Scored(Scores(e), Picked(Scores(e), c))))

cmd_zcount(db, now, c) ==
  LET e == Live(db, c.key, now)
      z == Scores(e)
      counted == IF c.n = -Inf /\ c.m = Inf THEN DOMAIN z ELSE ToSet(InScore(z, c))
  IN CASE c.n > c.m -> NoOp(db, Int1(0))
       [] ~Holds(e, "zset") -> Refused(db)
       [] OTHER -> NoOp(db, Int1(Cardinality(counted)))

\* ZREMRANGEBYRANK, ZREMRANGEBYSCORE and ZREMRANGEBYLEX.
cmd_zremrange(db, now, c) ==
  LET e == Live(db, c.key, now)
      z == Scores(e)
      gone == ToSet(Picked(z, c))
  IN CASE ~Holds(e, "zset") -> Refused(db)
       [] e.type = "none" -> Generic(c, db, Int1(0))
       [] OTHER -> Generic(c, PutZset(db, c.key, e, Less(z, gone)), Int1(Cardinality(gone)))

preview_zpop(z, n, max) == SubSeq(InOrder(z, max), 1, Min({n, Cardinality(DOMAIN z)}))

\* ZPOPMIN and ZPOPMAX journal themselves.
ZpopOf(z, n, max) == SubSeq(InOrder(z, max), 1, Min({n, Cardinality(DOMAIN z)}))
cmd_zpop(db, now, c) ==
  LET e == Live(db, c.key, now)
      z == Scores(e)
      taken == ZpopOf(z, c.n, "MAX" \in c.opt)
  IN CASE ~Holds(e, "zset") -> Refused(db)
       [] e.type = "none" -> Generic(c, db, Many(<<>>))
       [] OTHER -> Generic(c, PutZset(db, c.key, e, Less(z, ToSet(taken))), Many(Scored(z, taken)))

\* journaled_zmpop, for ZMPOP, BZPOPMIN and BZMPOP: the first key with a
\* member, journaled as the ZREM of the members it looked at.  A pop that
\* takes others is refused, with the frame already written.
cmd_zmpop(db, now, c) ==
  LET keys == <<c.key, c.dst>>
      at(i) == Live(db, keys[i], now)
      stop == {i \in 1..2 : at(i).type \notin {"none", "zset"} \/ DOMAIN Scores(at(i)) # {}}
      i == Min(stop)
      z == Scores(at(i))
      seen == preview_zpop(z, c.n, "MAX" \in c.opt)
      taken == ZpopOf(z, c.n, "MAX" \in c.opt)
      after == PutZset(db, keys[i], at(i), Less(z, ToSet(taken)))
      log == <<Cmd("ZREM", keys[i], keys[i], 0, 0, seen, {})>>
  IN CASE stop = {} -> NoOp(db, Nil)
       [] at(i).type # "zset" -> Refused(db)
       [] OTHER -> Done(after, IF seen = taken THEN Many(Scored(z, taken)) ELSE Err, log)

\* zunion_compute, zinter_compute and zdiff_compute of two keys, with weight n
\* for both.
Aggregate(opt, a, b) ==
  CASE "MIN" \in opt -> FloatMin(a, b)
    [] "MAX" \in opt -> FloatMax(a, b)
    [] OTHER -> FloatAdd(a, b)

Computed(x, y, c) ==
  LET a == [k \in DOMAIN x |-> FloatMul(x[k], c.n)]
      b == [k \in DOMAIN y |-> FloatMul(y[k], c.n)]
      both == DOMAIN a \cap DOMAIN b
  IN CASE "INTER" \in c.opt -> [k \in both |-> Aggregate(c.opt, a[k], b[k])]
       [] "DIFF" \in c.opt -> [k \in DOMAIN x \ DOMAIN y |-> x[k]]
       [] OTHER -> [k \in DOMAIN a \union DOMAIN b |->
                      CASE k \in both -> Aggregate(c.opt, a[k], b[k])
                        [] k \in DOMAIN a -> a[k]
                        [] OTHER -> b[k]]

BothZsets(db, now, c) == \A k \in {c.key, c.dst} : Holds(Live(db, k, now), "zset")

cmd_zunion(db, now, c) ==
  LET z == Computed(Scores(Live(db, c.key, now)), Scores(Live(db, c.dst, now)), c)
  IN IF BothZsets(db, now, c) THEN NoOp(db, Many(Scored(z, Ordered(z)))) ELSE Refused(db)

\* The result replaces the destination and is journaled as DEL and ZADD, with
\* the scores as they are printed: a NaN is not refused here.
write_computed_zset(db, k, z) ==
  LET del == Cmd("DEL", k, k, 0, 0, <<>>, {})
      zadd == Cmd("ZADDALL", k, k, 0, 0, z, {})
  IN Done(IF DOMAIN z = {} THEN Drop(db, k) ELSE Put(db, k, Entry("zset", z, NoDeadline)),
          Int1(Cardinality(DOMAIN z)), IF DOMAIN z = {} THEN <<del>> ELSE <<del, zadd>>)

cmd_zunionstore(db, now, c) ==
  IF BothZsets(db, now, c)
  THEN write_computed_zset(db, c.dst, Computed(Scores(Live(db, c.key, now)),
                                               Scores(Live(db, c.dst, now)), c))
  ELSE Refused(db)

cmd_zrangestore(db, now, c) ==
  LET z == Scores(Live(db, c.key, now))
      picked == ToSet(Picked(z, c))
  IN IF Holds(Live(db, c.key, now), "zset")
     THEN write_computed_zset(db, c.dst, [x \in picked |-> z[x]])
     ELSE Refused(db)

ZsetOps == {"ZADD", "ZADDALL", "ZINCRBY", "ZSCORE", "ZCARD", "ZRANK", "ZREM", "ZRANGE", "ZCOUNT",
            "ZREMRANGE", "ZPOP", "ZMPOP", "ZUNION", "ZUNIONSTORE", "ZRANGESTORE"}

ZsetExec(db, now, c) ==
  CASE c.op = "ZADD" -> cmd_zadd(db, now, c)
    [] c.op = "ZADDALL" -> cmd_zaddall(db, now, c)
    [] c.op = "ZINCRBY" -> cmd_zincrby(db, now, c)
    [] c.op = "ZSCORE" -> cmd_zscore(db, now, c)
    [] c.op = "ZCARD" -> cmd_zcard(db, now, c)
    [] c.op = "ZRANK" -> cmd_zrank(db, now, c)
    [] c.op = "ZREM" -> cmd_zrem(db, now, c)
    [] c.op = "ZRANGE" -> cmd_zrange(db, now, c)
    [] c.op = "ZCOUNT" -> cmd_zcount(db, now, c)
    [] c.op = "ZREMRANGE" -> cmd_zremrange(db, now, c)
    [] c.op = "ZPOP" -> cmd_zpop(db, now, c)
    [] c.op = "ZMPOP" -> cmd_zmpop(db, now, c)
    [] c.op = "ZUNION" -> cmd_zunion(db, now, c)
    [] c.op = "ZUNIONSTORE" -> cmd_zunionstore(db, now, c)
    [] c.op = "ZRANGESTORE" -> cmd_zrangestore(db, now, c)
==============================================================================
