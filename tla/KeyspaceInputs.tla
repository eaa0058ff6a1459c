--------------------------- MODULE KeyspaceInputs ---------------------------
(***************************************************************************)
(* The commands the keyspace is checked with, by family, and what had been *)
(* executed before.  First names k1 and then k2, Second the reverse.       *)
(***************************************************************************)
EXTENDS StoreEntry

First(op, n, m, a, o) == Cmd(op, "k1", "k2", n, m, a, o)
Second(op, n, m, a, o) == Cmd(op, "k2", "k1", n, m, a, o)
\* A hash field that is no number, and an infinite score.
Text == 99
Infinite == 100

Bare(op, k) == Cmd(op, k, k, 0, 0, <<>>, {})

StringCmds ==
  {First("SET", 0, 0, <<1>>, {}), First("SET", 5, 0, <<2>>, {"PX"}),
   First("SET", 1, 0, <<2>>, {"PX", "NX"}),
   First("SET", 7, 0, <<3, 3>>, {"PXAT", "XX"}), First("SET", 0, 1, <<4>>, {"KEEPTTL", "GET"}),
   First("SET", 0, 1, <<5>>, {"IFEQ"}), First("SET", 3, 0, <<6>>, {"ENCRYPTED", "PX"}),
   First("SETNX", 0, 0, <<1>>, {}), First("PSETEX", 3, 0, <<1>>, {}),
   First("GETSET", 0, 0, <<1>>, {}),
   First("GETDEL", 0, 0, <<>>, {}), First("DELIFEQ", 0, 0, <<1>>, {}),
   First("GETEX", 3, 0, <<>>, {"PX"}),
   First("GETEX", 0, 0, <<>>, {"PERSIST"}), First("GETEX", 0, 0, <<>>, {}),
   First("GETRANGE", -1, 1, <<>>, {}),
   First("STRLEN", 0, 0, <<>>, {}), First("SETRANGE", 2, 0, <<9>>, {}),
   First("SETRANGE", 9, 0, <<9>>, {}),
   First("MGET", 0, 0, <<>>, {}), First("MSET", 0, 0, <<1>>, {}),
   First("MSETNX", 0, 0, <<1>>, {}),
   First("APPEND", 0, 0, <<8>>, {}), First("INCRBY", 1, 0, <<>>, {}),
   First("INCRBYFLOAT", 1, 0, <<>>, {}),
   First("PEXPIRE", 5, 0, <<>>, {}), Second("APPEND", 0, 0, <<8>>, {}),
   First("GET", 0, 0, <<>>, {})}

KeyCmds ==
  {Bare("DEL", "k1"), Bare("EXISTS", "k1"), Bare("TYPE", "k1"), Bare("DBSIZE", "k1"),
   Bare("FLUSHDB", "k1"), Bare("PEXPIRETIME", "k1"), First("RENAME", 0, 0, <<>>, {}),
   Second("RENAME", 0, 0, <<>>, {}), First("RENAMENX", 0, 0, <<>>, {}),
   First("COPY", 0, 0, <<>>, {}),
   Second("COPY", 0, 0, <<>>, {"REPLACE"}),
   [First("RESTORE", 5, 0, <<>>, {}) EXCEPT !.blob = Entry("list", <<1>>, NoDeadline)],
   [First("RESTORE", 0, 0, <<>>, {"REPLACE"}) EXCEPT !.blob = Entry("list", <<1>>, NoDeadline)],
   [First("RESTORE", 3, 0, <<>>, {"REPLACE", "ABSTTL"}) EXCEPT !.blob = Entry("list", <<1>>, NoDeadline)],
   First("PEXPIRE", 5, 0, <<>>, {}), First("PEXPIRE", -1, 0, <<>>, {}),
   Second("PEXPIREAT", 7, 0, <<>>, {}),
   First("PERSIST", 0, 0, <<>>, {}), First("APPEND", 0, 0, <<8>>, {}),
   Second("RPUSH", 0, 0, <<8>>, {}),
   First("SET", 3, 0, <<1>>, {"PX"}), First("SADD", 0, 0, <<8>>, {})}

ListCmds ==
  {First("LPUSH", 0, 0, <<1, 2>>, {}), First("RPUSH", 0, 0, <<1, 3>>, {}),
   First("LPUSHX", 0, 0, <<4>>, {}),
   Second("RPUSHX", 0, 0, <<4>>, {}), First("LPOP", 0, 0, <<>>, {}),
   First("RPOP", 2, 0, <<>>, {}),
   First("LLEN", 0, 0, <<>>, {}), First("LRANGE", -2, 5, <<>>, {}),
   First("LINDEX", -1, 0, <<>>, {}),
   First("LSET", -1, 9, <<>>, {}), First("LINSERT", 1, 7, <<>>, {"BEFORE"}),
   First("LINSERT", 1, 7, <<>>, {}),
   First("LREM", 1, 1, <<>>, {}), First("LREM", -1, 1, <<>>, {}), First("LREM", 0, 1, <<>>, {}),
   First("LTRIM", 1, -2, <<>>, {}), First("LPOS", -1, 1, <<>>, {}),
   First("LMOVE", 0, 0, <<>>, {"FROMLEFT"}),
   Cmd("LMOVE", "k1", "k1", 0, 0, <<>>, {"TOLEFT"}), Second("LMPOP", 2, 0, <<>>, {"LEFT"}),
   First("LMPOP", 1, 0, <<>>, {}), First("PEXPIRE", 5, 0, <<>>, {}),
   Second("SET", 0, 0, <<1>>, {})}

HashCmds ==
  {First("HSET", 1, 5, <<>>, {}), First("HSET", 1, Text, <<>>, {}), First("HSETNX", 1, 6, <<>>, {}),
   First("HSETNX", 2, 6, <<>>, {}), First("HGET", 1, 0, <<>>, {}),
   First("HGETALL", 0, 0, <<>>, {}), First("HLEN", 0, 0, <<>>, {}),
   First("HDEL", 1, 0, <<>>, {}),
   First("HINCRBY", 1, 2, <<>>, {}), First("HINCRBYFLOAT", 1, 2, <<>>, {}),
   First("HPEXPIRE", 3, 1, <<>>, {}), First("HPEXPIRE", 5, 1, <<>>, {"GT"}),
   First("HPEXPIRE", 1, 1, <<>>, {"LT"}),
   First("HPEXPIRE", -1, 1, <<>>, {"NX"}), First("HPEXPIREAT", 7, 2, <<>>, {"XX"}),
   First("HPEXPIRETIME", 0, 1, <<>>, {}), First("HPERSIST", 0, 1, <<>>, {}),
   First("HGETDEL", 0, 1, <<>>, {}),
   First("HGETEX", 3, 1, <<>>, {"PX"}), First("HGETEX", 0, 1, <<>>, {"PERSIST"}),
   First("HGETEX", 0, 1, <<>>, {}),
   First("PEXPIRE", 5, 0, <<>>, {}), First("COPY", 0, 0, <<>>, {}),
   Second("HINCRBY", 1, 2, <<>>, {})}

SetCmds ==
  {First("SADD", 0, 0, <<1, 2>>, {}), First("SADD", 0, 0, <<3>>, {}),
   Second("SADD", 0, 0, <<2, 4>>, {}),
   First("SREM", 0, 0, <<1, 9>>, {}), First("SMEMBERS", 0, 0, <<>>, {}),
   First("SRANDMEMBER", 1, 0, <<>>, {}),
   First("SPOP", 1, 0, <<>>, {}), First("SPOP", 2, 0, <<>>, {}), First("SMOVE", 2, 0, <<>>, {}),
   Cmd("SMOVE", "k1", "k1", 1, 0, <<>>, {}), First("SINTER", 0, 0, <<>>, {"UNION"}),
   First("SINTER", 0, 0, <<>>, {"INTER"}),
   First("SINTERCARD", 0, 0, <<>>, {}), First("SSTORE", 0, 0, <<>>, {"UNION"}),
   First("SSTORE", 0, 0, <<>>, {"INTER"}),
   Second("SSTORE", 0, 0, <<>>, {"DIFF"}), First("PEXPIRE", 5, 0, <<>>, {}),
   Second("PEXPIRE", 3, 0, <<>>, {}),
   Second("SET", 0, 0, <<1>>, {})}

ZsetCmds ==
  {First("ZADD", 1, 2, <<>>, {}), First("ZADD", 1, Infinite, <<>>, {}),
   First("ZADD", 1, 1, <<>>, {"GT", "CH"}), First("ZINCRBY", 1, -Infinite, <<>>, {}),
   First("ZADD", 2, 1, <<>>, {"LT"}),
   First("ZADD", 3, 2, <<>>, {"XX"}), First("ZADD", 3, 2, <<>>, {"NX"}),
   Second("ZADD", 1, 5, <<>>, {}), First("ZADD", 1, 5, <<>>, {"NX", "XX"}),
   First("ZINCRBY", 1, 3, <<>>, {}), First("ZSCORE", 1, 0, <<>>, {}),
   First("ZCARD", 0, 0, <<>>, {}),
   First("ZRANK", 1, 0, <<>>, {"REV"}), First("ZREM", 0, 0, <<1>>, {}),
   First("ZRANGE", 0, -1, <<>>, {}),
   First("ZCOUNT", 1, 2, <<>>, {}), First("ZCOUNT", 2, 1, <<>>, {}),
   First("ZCOUNT", -Infinite, Infinite, <<>>, {}), First("ZREMRANGE", 0, 0, <<>>, {}),
   First("ZREMRANGE", 2, 1, <<>>, {"BYSCORE", "REV"}),
   First("ZREMRANGE", 2, 3, <<>>, {"BYLEX"}), First("ZPOP", 1, 0, <<>>, {}),
   First("ZPOP", 2, 0, <<>>, {"MAX"}),
   Second("ZMPOP", 1, 0, <<>>, {}), First("ZMPOP", 2, 0, <<>>, {"MAX"}),
   First("ZUNION", 1, 0, <<>>, {"MIN"}),
   First("ZUNIONSTORE", 2, 0, <<>>, {}), First("ZUNIONSTORE", 0, 0, <<>>, {}),
   First("ZUNIONSTORE", 0, 0, <<>>, {"INTER", "MAX"}),
   First("ZUNIONSTORE", 1, 0, <<>>, {"DIFF"}), First("ZRANGESTORE", 0, 0, <<>>, {"REV"}),
   Second("ZRANGESTORE", 1, 2, <<>>, {"BYSCORE"}), First("PEXPIRE", 5, 0, <<>>, {}),
   First("SET", 0, 0, <<1>>, {})}

StreamCmds ==
  {First("XADD", 0, 0, <<1>>, {"AUTO"}), First("XADD", 10, 1, <<2>>, {"AUTOSEQ", "MAXLEN"}),
   First("XADD", 20, 0, <<3>>, {}),
   First("XADD", 0, 0, <<4>>, {}), First("XLEN", 0, 0, <<>>, {}),
   First("XRANGE", 0, 10, <<>>, {"REV"}), First("XREAD", 10, 0, <<>>, {}),
   First("XDEL", 0, 0, <<10>>, {}), First("XTRIM", 0, 1, <<>>, {}),
   Second("XGROUPCREATE", 0, 0, <<1>>, {"LAST", "MKSTREAM"}),
   First("XGROUPCREATE", 0, 0, <<1>>, {}), First("XGROUPDESTROY", 0, 0, <<1>>, {}),
   First("XGROUPSETID", 0, 0, <<1>>, {}), First("XGROUPCONSUMER", 0, 0, <<1, 2>>, {}),
   First("XGROUPDELCONSUMER", 0, 0, <<1, 1>>, {}), First("XREADGROUP", 0, 1, <<1, 1>>, {"NEW"}),
   First("XREADGROUP", 0, 0, <<1, 2>>, {"NEW", "BOTH"}),
   First("XREADGROUP", 0, 0, <<1, 1>>, {"NEW", "NOACK"}),
   First("XREADGROUP", 0, 0, <<1, 2>>, {}), First("XACK", 0, 0, <<1, 10, 11>>, {}),
   First("XCLAIM", 0, 0, <<1, 2, 10, 20>>, {}),
   First("XCLAIM", 0, 1, <<1, 1, 10>>, {}),
   First("XAUTOCLAIM", 0, 0, <<1, 1>>, {}), First("XPENDING", 0, 0, <<1, 0>>, {}),
   First("PEXPIRE", 5, 0, <<>>, {}),
   First("COPY", 0, 0, <<>>, {}), Second("SET", 0, 0, <<1>>, {})}

KeyspaceCommands ==
  [string |-> StringCmds, keys |-> KeyCmds, list |-> ListCmds, hash |-> HashCmds,
   set |-> SetCmds, zset |-> ZsetCmds, stream |-> StreamCmds]

TwoEntries ==
  <<First("XADD", 10, 0, <<1>>, {}), First("XADD", 11, 0, <<2>>, {}),
    First("XGROUPCREATE", 0, 0, <<1>>, {})>>
ThreeFields ==
  <<First("HSET", 1, 5, <<>>, {}), First("HSET", 2, 5, <<>>, {}),
    First("HPEXPIRE", 3, 2, <<>>, {}), First("PEXPIRE", 3, 0, <<>>, {})>>
TwoScores == <<First("ZADD", 1, 1, <<>>, {}), First("ZADD", 2, 2, <<>>, {})>>
Expiring(k) == Cmd("SET", k, k, 3, 0, <<1>>, {"PX"})

KeyspaceSetups ==
  [string |->
     {<<>>, <<First("SET", 5, 0, <<1>>, {"PX"})>>, <<First("SET", 0, 0, <<1, 2>>, {})>>,
      <<First("RPUSH", 0, 0, <<1>>, {})>>},
   keys |->
     {<<Expiring("k1")>>, <<First("RPUSH", 0, 0, <<1>>, {}), Expiring("k2")>>,
      <<First("SET", 0, 0, <<1>>, {}), Second("SET", 3, 0, <<6>>, {"ENCRYPTED", "PX"})>>},
   list |->
     {<<>>, <<First("RPUSH", 0, 0, <<1, 2, 1, 3>>, {})>>,
      <<First("RPUSH", 0, 0, <<1, 2>>, {}), First("PEXPIRE", 3, 0, <<>>, {}),
        Second("RPUSH", 0, 0, <<5>>, {})>>},
   hash |->
     {<<>>, <<First("HSET", 1, 5, <<>>, {}), First("HPEXPIRE", 3, 1, <<>>, {})>>, ThreeFields,
      <<First("HSET", 1, Text, <<>>, {}), First("HPEXPIRE", 3, 1, <<>>, {})>>},
   set |->
     {<<>>, <<First("SADD", 0, 0, <<1, 2, 3>>, {})>>,
      <<First("SADD", 0, 0, <<1, 2, 3>>, {}), Second("SADD", 0, 0, <<2, 4>>, {})>>},
   zset |->
     {<<>>, TwoScores \o <<First("ZADD", 3, 2, <<>>, {})>>,
      TwoScores \o <<Second("ZADD", 1, 2, <<>>, {}), First("PEXPIRE", 3, 0, <<>>, {})>>,
      <<First("ZADD", 1, Infinite, <<>>, {}), Second("ZADD", 1, 2, <<>>, {})>>},
   stream |->
     {<<>>, TwoEntries, TwoEntries \o <<First("XREADGROUP", 0, 0, <<1, 1>>, {"NEW"})>>}]
=============================================================================
