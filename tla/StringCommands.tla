--------------------------- MODULE StringCommands ----------------------------
(***************************************************************************)
(* The string commands (src/cmd/strings.rs over src/store/mod.rs) and the  *)
(* commands about keys of any type (src/cmd/keys.rs).  A string is its     *)
(* bytes and whether it is an encrypted envelope; the commands that edit   *)
(* bytes in place refuse an envelope.                                      *)
(***************************************************************************)
EXTENDS StoreEntry

CONSTANT MaxString   \* max_resp_request: the longest string

Str(s) == [s |-> s, enc |-> FALSE]
IsString(e) == e.type = "string"
Sealed(e) == IsString(e) /\ e.val.enc
Bytes(e) == IF IsString(e) THEN e.val.s ELSE <<>>
IsInteger(s) == Len(s) = 1

\* The journaled form of a SET whose outcome is known: RAWSET for an
\* envelope, with the absolute deadline if there is one.
ResolvedSet(k, v, deadline) ==
  Cmd(IF v.enc THEN "RAWSET" ELSE "SET", k, k, Max({deadline, 0}), 0, v.s,
      IF deadline = NoDeadline THEN {} ELSE {"PXAT"})

\* A relative time to live is measured from now; an absolute one that has
\* passed leaves the key with no time at all, visible at this instant only.
NewDeadline(c, now) ==
  CASE "PX" \in c.opt -> now + c.n
    [] "PXAT" \in c.opt -> Max({c.n, now})
    [] OTHER -> NoDeadline

\* The deadline that goes to the journal is the client's own one.
JournalDeadline(c, now, e) ==
  CASE "KEEPTTL" \in c.opt -> e.exp
    [] "PX" \in c.opt -> now + c.n
    [] "PXAT" \in c.opt -> c.n
    [] OTHER -> NoDeadline

SetSyntax(c) ==
  /\ ~ {"NX", "XX"} \subseteq c.opt
  /\ "IFEQ" \in c.opt => c.opt \cap {"NX", "XX"} = {}
  /\ "KEEPTTL" \in c.opt => c.opt \cap {"PX", "PXAT"} = {}

ShouldSet(c, e) ==
  IF "IFEQ" \in c.opt THEN IsString(e) /\ e.val.s = <<c.m>>
  ELSE /\ "NX" \in c.opt => e.type = "none"
       /\ "XX" \in c.opt => e.type # "none"

cmd_set(db, now, c) ==
  LET e == Live(db, c.key, now)
      old == IF IsString(e) THEN Bulk(e.val.s) ELSE Nil
      v == [s |-> c.args, enc |-> "ENCRYPTED" \in c.opt \/ Sealed(e)]
      exp == IF "KEEPTTL" \in c.opt THEN e.exp ELSE NewDeadline(c, now)
      set == ShouldSet(c, e)
  IN IF \/ ~SetSyntax(c)
        \/ e.type \notin {"none", "string"} /\ c.opt \cap {"GET", "IFEQ"} # {}
     THEN Refused(db)
     ELSE Done(IF set THEN Put(db, c.key, Entry("string", v, exp)) ELSE db,
               IF "GET" \in c.opt THEN old ELSE IF set THEN Ok ELSE Nil,
               IF set THEN <<ResolvedSet(c.key, v, JournalDeadline(c, now, e))>> ELSE <<>>)

\* ENC RAWSET stores the envelope of the journal as it is.
cmd_rawset(db, now, c) ==
  NoOp(Put(db, c.key, Entry("string", [s |-> c.args, enc |-> TRUE], NewDeadline(c, now))), Ok)

cmd_setnx(db, now, c) ==
  LET e == Live(db, c.key, now)
  IN IF Sealed(e) THEN Refused(db)
     ELSE IF e.type # "none" THEN Generic(c, db, Int1(0))
     ELSE Generic(c, Put(db, c.key, Entry("string", Str(c.args), NoDeadline)), Int1(1))

\* SETEX and PSETEX.
cmd_psetex(db, now, c) ==
  IF Sealed(Live(db, c.key, now)) \/ c.n <= 0 THEN Refused(db)
  ELSE Done(Put(db, c.key, Entry("string", Str(c.args), now + c.n)), Ok,
            <<ResolvedSet(c.key, Str(c.args), now + c.n)>>)

cmd_get(db, now, c) ==
  LET e == Live(db, c.key, now)
  IN NoOp(db, IF IsString(e) THEN Bulk(e.val.s) ELSE Nil)

\* GETSET replaces a value of any type, and answers nil for one that is none.
cmd_getset(db, now, c) ==
  LET e == Live(db, c.key, now)
  IN IF Sealed(e) THEN Refused(db)
     ELSE Generic(c, Put(db, c.key, Entry("string", Str(c.args), NoDeadline)),
                  IF IsString(e) THEN Bulk(e.val.s) ELSE Nil)

cmd_getdel(db, now, c) ==
  LET e == Live(db, c.key, now)
  IN IF IsString(e) THEN Generic(c, Drop(db, c.key), Bulk(e.val.s)) ELSE Generic(c, db, Nil)

\* DELIFEQ compares the stored bytes, so an envelope never matches; an
\* expired value is removed and not counted.
cmd_delifeq(db, now, c) ==
  LET e == Live(db, c.key, now)
  IN IF e.type \notin {"none", "string"} THEN Refused(db)
     ELSE IF e.type = "none" THEN Generic(c, Drop(db, c.key), Int1(0))
     ELSE IF ~e.val.enc /\ e.val.s = c.args THEN Generic(c, Drop(db, c.key), Int1(1))
     ELSE Generic(c, db, Int1(0))

\* GETEX journals the deadline or PERSIST, and only when it changes the key.
cmd_getex(db, now, c) ==
  LET e == Live(db, c.key, now)
      found == e.type # "none"
      reply == IF IsString(e) THEN Bulk(e.val.s) ELSE Nil
  IN IF Cardinality(c.opt) > 1 THEN Refused(db)
     ELSE CASE c.opt = {} \/ ~found -> NoOp(db, reply)
            [] "PERSIST" \in c.opt ->
                 Done(Put(db, c.key, [e EXCEPT !.exp = NoDeadline]), reply,
                      IF e.exp = NoDeadline THEN <<>>
                      ELSE <<Cmd("PERSIST", c.key, c.key, 0, 0, <<>>, {})>>)
            [] OTHER ->
                 Done(Put(db, c.key, [e EXCEPT !.exp = NewDeadline(c, now)]), reply,
                      <<Cmd("PEXPIREAT", c.key, c.key, JournalDeadline(c, now, e), 0, <<>>, {})>>)

cmd_getrange(db, now, c) ==
  LET e == Live(db, c.key, now)
  IN IF e.type \notin {"none", "string"} THEN Refused(db)
     ELSE NoOp(db, Bulk(Slice(Bytes(e), c.n, c.m)))

cmd_strlen(db, now, c) == NoOp(db, Int1(Len(Bytes(Live(db, c.key, now)))))

\* SETRANGE pads with zeros and keeps the deadline; nothing to write leaves
\* even an absent key as it is.
cmd_setrange(db, now, c) ==
  LET e == Live(db, c.key, now)
      old == Bytes(e)
      end == c.n + Len(c.args)
      new == [i \in 1..Max({Len(old), end}) |->
                IF i > c.n /\ i <= end THEN c.args[i - c.n]
                ELSE IF i <= Len(old) THEN old[i] ELSE 0]
  IN IF Sealed(e) \/ end > MaxString \/ e.type \notin {"none", "string"} THEN Refused(db)
     ELSE IF c.args = <<>> THEN Generic(c, db, Int1(Len(old)))
     ELSE Generic(c, Put(db, c.key, Entry("string", Str(new), e.exp)), Int1(Len(new)))

cmd_mget(db, now, c) ==
  NoOp(db, Many([i \in 1..2 |-> Bytes(Live(db, IF i = 1 THEN c.key ELSE c.dst, now))]))

\* MSET and MSETNX journal one plain SET for each pair, in one frame.
SetBoth(db, c) ==
  LET e == Entry("string", Str(c.args), NoDeadline)
  IN [db EXCEPT ![c.key] = e, ![c.dst] = e]
TwoSets(c) == <<ResolvedSet(c.key, Str(c.args), NoDeadline),
                ResolvedSet(c.dst, Str(c.args), NoDeadline)>>

cmd_mset(db, now, c) ==
  IF \E k \in {c.key, c.dst} : Sealed(Live(db, k, now)) THEN Refused(db)
  ELSE Done(SetBoth(db, c), Ok, TwoSets(c))

\* msetnx_would_set looks at strings only.
cmd_msetnx(db, now, c) ==
  LET strings == {k \in {c.key, c.dst} : IsString(Live(db, k, now))}
  IN CASE \E k \in strings : Sealed(db[k]) -> Refused(db)
       [] strings # {} -> NoOp(db, Int1(0))
       [] OTHER -> Done(SetBoth(db, c), Int1(1), TwoSets(c))

\* APPEND to a value of another type replaces it.
cmd_append(db, now, c) ==
  LET e == Live(db, c.key, now)
      new == Bytes(e) \o c.args
  IN IF Sealed(e) \/ Len(new) > MaxString THEN Refused(db)
     ELSE Generic(c, Put(db, c.key, Entry("string", Str(new),
                                          IF IsString(e) THEN e.exp ELSE NoDeadline)),
                  Int1(Len(new)))

\* INCR, DECR, INCRBY, DECRBY: the deadline of a live value is kept.
cmd_incrby(db, now, c) ==
  LET e == Live(db, c.key, now)
      new == (IF IsString(e) THEN e.val.s[1] ELSE 0) + c.n
  IN IF \/ Sealed(e) \/ e.type \notin {"none", "string"}
        \/ IsString(e) /\ ~IsInteger(e.val.s)
     THEN Refused(db)
     ELSE Generic(c, Put(db, c.key, Entry("string", Str(<<new>>), e.exp)), Int1(new))

\* INCRBYFLOAT takes the deadline from the entry in the map, expired or not.
cmd_incrbyfloat(db, now, c) ==
  LET e == Live(db, c.key, now)
      new == (IF IsString(e) THEN e.val.s[1] ELSE 0) + c.n
  IN IF \/ Sealed(e) \/ e.type \notin {"none", "string"}
        \/ IsString(e) /\ ~IsInteger(e.val.s)
     THEN Refused(db)
     ELSE Generic(c, Put(db, c.key, Entry("string", Str(<<new>>), db[c.key].exp)), Bulk(<<new>>))

StringOps == {"SET", "RAWSET", "SETNX", "PSETEX", "GET", "GETSET", "GETDEL", "DELIFEQ", "GETEX",
              "GETRANGE", "STRLEN", "SETRANGE", "MGET", "MSET", "MSETNX", "APPEND", "INCRBY",
              "INCRBYFLOAT"}

StringExec(db, now, c) ==
  CASE c.op = "SET" -> cmd_set(db, now, c)
    [] c.op = "RAWSET" -> cmd_rawset(db, now, c)
    [] c.op = "SETNX" -> cmd_setnx(db, now, c)
    [] c.op = "PSETEX" -> cmd_psetex(db, now, c)
    [] c.op = "GET" -> cmd_get(db, now, c)
    [] c.op = "GETSET" -> cmd_getset(db, now, c)
    [] c.op = "GETDEL" -> cmd_getdel(db, now, c)
    [] c.op = "DELIFEQ" -> cmd_delifeq(db, now, c)
    [] c.op = "GETEX" -> cmd_getex(db, now, c)
    [] c.op = "GETRANGE" -> cmd_getrange(db, now, c)
    [] c.op = "STRLEN" -> cmd_strlen(db, now, c)
    [] c.op = "SETRANGE" -> cmd_setrange(db, now, c)
    [] c.op = "MGET" -> cmd_mget(db, now, c)
    [] c.op = "MSET" -> cmd_mset(db, now, c)
    [] c.op = "MSETNX" -> cmd_msetnx(db, now, c)
    [] c.op = "APPEND" -> cmd_append(db, now, c)
    [] c.op = "INCRBY" -> cmd_incrby(db, now, c)
    [] c.op = "INCRBYFLOAT" -> cmd_incrbyfloat(db, now, c)

-----------------------------------------------------------------------------
(* The commands about keys of any type (src/cmd/keys.rs, RESTORE of        *)
(* src/cmd/server.rs, and their store functions).                          *)

\* An envelope is bound to the name of its key and cannot move.
KeyBound(e) == Sealed(e)

cmd_del(db, now, c) ==
  Generic(c, Drop(db, c.key), Int1(IF Exists(db, c.key, now) THEN 1 ELSE 0))

cmd_exists(db, now, c) == NoOp(db, Int1(IF Exists(db, c.key, now) THEN 1 ELSE 0))
cmd_type(db, now, c) == NoOp(db, <<"type", Live(db, c.key, now).type>>)
cmd_dbsize(db, now, c) == NoOp(db, Int1(Cardinality({k \in DOMAIN db : Exists(db, k, now)})))
cmd_flushdb(db, now, c) == Generic(c, [k \in DOMAIN db |-> Missing], Ok)

\* TTL, PTTL, EXPIRETIME and PEXPIRETIME: -2 for no key, -1 for no deadline.
cmd_pexpiretime(db, now, c) ==
  LET e == Live(db, c.key, now)
  IN NoOp(db, Int1(IF e.type = "none" THEN -2 ELSE IF e.exp = NoDeadline THEN -1 ELSE e.exp))

\* Store::rename moves the entry with its deadline over whatever the new key
\* holds, and takes an expired source away even though it reports none.
RenameTo(db, now, c, reply) ==
  LET e == Live(db, c.key, now)
  IN CASE KeyBound(e) -> Refused(db)
       [] e.type = "none" -> Refused(Drop(db, c.key))
       [] OTHER -> Generic(c, Put(Drop(db, c.key), c.dst, e), reply)

cmd_rename(db, now, c) == RenameTo(db, now, c, Ok)

\* RENAMENX asks Store::get, which knows strings only.
cmd_renamenx(db, now, c) ==
  IF IsString(Live(db, c.dst, now)) THEN Generic(c, db, Int1(0)) ELSE RenameTo(db, now, c, Int1(1))

\* COPY journals the destination it computed, as one snapshot entry.
cmd_copy(db, now, c) ==
  LET e == Live(db, c.key, now)
      lx == [Cmd("LXRESTORE", c.dst, c.dst, 0, 0, <<>>, {}) EXCEPT !.blob = e]
  IN CASE KeyBound(e) -> Refused(db)
       [] e.type = "none" \/ ("REPLACE" \notin c.opt /\ Exists(db, c.dst, now)) ->
            NoOp(db, Int1(0))
       [] OTHER -> Done(Put(db, c.dst, e), Int1(1), <<lx>>)

\* The replay of a COPY: an entry whose deadline has passed is not loaded.
apply_lxrestore(db, now, c) ==
  NoOp(IF c.blob.exp # NoDeadline /\ c.blob.exp <= now THEN db ELSE Put(db, c.key, c.blob), Ok)

\* RESTORE journals itself with an absolute deadline; one in the past means
\* that only the removal of the old value is left.
cmd_restore(db, now, c) ==
  LET exp == IF c.n = 0 THEN NoDeadline ELSE IF "ABSTTL" \in c.opt THEN c.n ELSE now + c.n
      log == [c EXCEPT !.n = Max({exp, 0}), !.opt = @ \union {"ABSTTL"}]
  IN IF Exists(db, c.key, now) /\ "REPLACE" \notin c.opt THEN Refused(db)
     ELSE Done(IF exp # NoDeadline /\ exp <= now THEN Drop(db, c.key)
               ELSE Put(db, c.key, [c.blob EXCEPT !.exp = exp]),
               Ok, <<log>>)

\* journaled_expiry, for EXPIRE, PEXPIRE, EXPIREAT and PEXPIREAT: the deadline
\* is journaled if the key exists, and no time left means removal.
Expiry(db, now, k, deadline) ==
  IF ~Exists(db, k, now) THEN NoOp(db, Int1(0))
  ELSE Done(IF deadline <= now THEN Drop(db, k) ELSE [db EXCEPT ![k].exp = deadline], Int1(1),
            <<Cmd("PEXPIREAT", k, k, deadline, 0, <<>>, {})>>)

cmd_pexpire(db, now, c) == Expiry(db, now, c.key, now + c.n)
cmd_pexpireat(db, now, c) == Expiry(db, now, c.key, c.n)

cmd_persist(db, now, c) ==
  LET e == Live(db, c.key, now)
  IN IF e.type = "none" \/ e.exp = NoDeadline THEN NoOp(db, Int1(0))
     ELSE Done([db EXCEPT ![c.key].exp = NoDeadline], Int1(1), <<c>>)

KeyOps == {"DEL", "EXISTS", "TYPE", "DBSIZE", "FLUSHDB", "PEXPIRETIME", "RENAME", "RENAMENX",
           "COPY", "LXRESTORE", "RESTORE", "PEXPIRE", "PEXPIREAT", "PERSIST"}

KeyExec(db, now, c) ==
  CASE c.op = "DEL" -> cmd_del(db, now, c)
    [] c.op = "EXISTS" -> cmd_exists(db, now, c)
    [] c.op = "TYPE" -> cmd_type(db, now, c)
    [] c.op = "DBSIZE" -> cmd_dbsize(db, now, c)
    [] c.op = "FLUSHDB" -> cmd_flushdb(db, now, c)
    [] c.op = "PEXPIRETIME" -> cmd_pexpiretime(db, now, c)
    [] c.op = "RENAME" -> cmd_rename(db, now, c)
    [] c.op = "RENAMENX" -> cmd_renamenx(db, now, c)
    [] c.op = "COPY" -> cmd_copy(db, now, c)
    [] c.op = "LXRESTORE" -> apply_lxrestore(db, now, c)
    [] c.op = "RESTORE" -> cmd_restore(db, now, c)
    [] c.op = "PEXPIRE" -> cmd_pexpire(db, now, c)
    [] c.op = "PEXPIREAT" -> cmd_pexpireat(db, now, c)
    [] c.op = "PERSIST" -> cmd_persist(db, now, c)
==============================================================================
