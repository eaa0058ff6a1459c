----------------------------- MODULE ShardReads ------------------------------
(***************************************************************************)
(* The second implementation of the read commands, for pipelines whose     *)
(* commands all read or, in an ephemeral store, are plain SETs             *)
(* (execute_on_shard and execute_on_shard_read of src/cmd/mod.rs, chosen   *)
(* by pipeline_access_for_args).  It works on the map of one shard under   *)
(* one lock.  GEODIST and GEOPOS, which compute over floats, are left out. *)
(***************************************************************************)
EXTENDS StreamCommands

\* pipeline_access: Read.
BatchReads == {"GET", "EXISTS", "STRLEN", "LLEN", "LINDEX", "LRANGE", "HLEN", "HGET", "HGETALL",
               "SMEMBERS", "SRANDMEMBER", "TYPE", "PEXPIRETIME", "ZCARD", "ZCOUNT", "ZSCORE", "XLEN"}

InMap(d, at, k) == d[k].type # "none" /\ ~IsExpiredAt(d[k], at)

\* One key that must be of a type: the answer if it is, the one for an absent
\* key, an error otherwise.
Typed(d, at, c, type, answer, absent) ==
  IF ~InMap(d, at, c.key) THEN absent ELSE IF d[c.key].type = type THEN answer ELSE Err

ReadZset(d, at, c) ==
  LET z == d[c.key].val
      within == {x \in DOMAIN z : z[x] # NaN /\ z[x] >= c.n /\ z[x] <= c.m}
  IN CASE c.op = "ZCARD" -> Typed(d, at, c, "zset", Int1(Cardinality(DOMAIN z)), Int1(0))
       [] c.op = "ZCOUNT" -> Typed(d, at, c, "zset", Int1(Cardinality(within)), Int1(0))
       [] c.op = "ZSCORE" ->
            Typed(d, at, c, "zset", IF c.n \in DOMAIN z THEN Bulk(<<z[c.n]>>) ELSE Nil, Nil)

ReadString(d, at, c) ==
  LET e == d[c.key]
      string == InMap(d, at, c.key) /\ IsString(e)
  IN CASE c.op = "GET" -> IF string THEN Bulk(e.val.s) ELSE Nil
       [] c.op = "STRLEN" -> Int1(IF string THEN Len(e.val.s) ELSE 0)
       [] c.op = "EXISTS" -> Int1(IF InMap(d, at, c.key) THEN 1 ELSE 0)
       [] c.op = "TYPE" -> <<"type", IF InMap(d, at, c.key) THEN e.type ELSE "none">>

RangeOff(l, c) ==
  LET from == IF c.n < 0 THEN Max({Len(l) + c.n, 0}) ELSE Min({c.n, Len(l)})
      to == IF c.m < 0 THEN Max({Len(l) + c.m, 0}) ELSE Min({c.m, Len(l)})
  IN IF from >= to THEN <<>> ELSE SubSeq(l, from + 1, to)

RangeOf(l, c) ==
  LET from == IF c.n < 0 THEN Max({Len(l) + c.n, 0}) ELSE Min({c.n, Len(l)})
      to == IF c.m < 0 THEN Max({Len(l) + c.m + 1, 0}) ELSE Min({c.m + 1, Len(l)})
  IN IF from >= to THEN <<>> ELSE SubSeq(l, from + 1, to)

\* LINDEX of another type answers nil, as the single command does.
ReadList(d, at, c) ==
  LET l == d[c.key].val
      i == (IF c.n < 0 THEN Len(l) + c.n ELSE c.n) + 1
  IN CASE c.op = "LLEN" -> Typed(d, at, c, "list", Int1(Len(l)), Int1(0))
       [] c.op = "LRANGE" -> Typed(d, at, c, "list", Many(RangeOf(l, c)), Many(<<>>))
       [] c.op = "LINDEX" ->
            IF InMap(d, at, c.key) /\ d[c.key].type = "list" /\ i \in 1..Len(l)
            THEN Bulk(<<l[i]>>) ELSE Nil

ReadHash(d, at, c) ==
  LET h == d[c.key].val
      hash == InMap(d, at, c.key) /\ d[c.key].type = "hash"
  IN CASE c.op = "HLEN" -> Typed(d, at, c, "hash", Int1(Cardinality(LiveFields(h, at))), Int1(0))
       [] c.op = "HGET" ->
            IF hash /\ c.n \in LiveFields(h, at) THEN Bulk(<<h.fields[c.n]>>) ELSE Nil
       [] c.op = "HGETALL" ->
            Typed(d, at, c, "hash", <<"fields", {<<f, h.fields[f]>> : f \in LiveFields(h, at)}>>,
                  <<"fields", {}>>)

\* SRANDMEMBER without a count: the first of the vector.
ReadSet(d, at, c) ==
  LET s == d[c.key].val
  IN CASE c.op = "SMEMBERS" -> Typed(d, at, c, "set", <<"members", ToSet(s)>>, <<"members", {}>>)
       [] c.op = "SRANDMEMBER" ->
            Typed(d, at, c, "set", Many(SubSeq(s, 1, Min({1, Len(s)}))), Many(<<>>))

ReadStream(d, at, c) ==
  Typed(d, at, c, "stream", Int1(Cardinality(DOMAIN d[c.key].val.entries)), Int1(0))

ReadTtl(d, at, c) ==
  LET e == d[c.key]
  IN Int1(CASE e.type = "none" -> -2
            [] e.exp = NoDeadline -> -1
            [] at > e.exp -> -2
            [] OTHER -> e.exp)

execute_on_shard_read(d, at, c) ==
  CASE c.op \in {"ZCARD", "ZCOUNT", "ZSCORE"} -> ReadZset(d, at, c)
    [] c.op \in {"GET", "STRLEN", "EXISTS", "TYPE"} -> ReadString(d, at, c)
    [] c.op \in {"LLEN", "LRANGE", "LINDEX"} -> ReadList(d, at, c)
    [] c.op \in {"HLEN", "HGET", "HGETALL"} -> ReadHash(d, at, c)
    [] c.op \in {"SMEMBERS", "SRANDMEMBER"} -> ReadSet(d, at, c)
    [] c.op = "XLEN" -> ReadStream(d, at, c)
    [] c.op = "PEXPIRETIME" -> ReadTtl(d, at, c)

\* SET of three arguments in a batch: an envelope stays an envelope.
SetOnShard(d, at, c) ==
  Put(d, c.key, Entry("string", [s |-> c.args, enc |-> InMap(d, at, c.key) /\ Sealed(d[c.key])],
                      NoDeadline))
==============================================================================
