--------------------------- MODULE StreamCommands ----------------------------
(***************************************************************************)
(* Streams and consumer groups (src/cmd/streams.rs over                    *)
(* src/store/streams.rs).  An entry ID orders a millisecond and a sequence *)
(* number; here it is one number, ten to a millisecond.  A group remembers *)
(* what it delivered last, and keeps every delivery that is not yet        *)
(* acknowledged twice: in the group's list with its owner, and in the      *)
(* owner's own set.                                                        *)
(*                                                                         *)
(* The group and the consumer of a command are args[1] and args[2], the    *)
(* IDs follow them; consumer 0 is none.                                    *)
(***************************************************************************)
EXTENDS CollectionCommands

IdOf(ms, seq) == 10 * ms + seq
MsOf(id) == id \div 10

Empty == <<>>
NewStream == [entries |-> Empty, last |-> 0, groups |-> Empty]
StreamIn(e) == IF e.type = "stream" THEN e.val ELSE NewStream
PutStream(db, k, e, s) == Put(db, k, Entry("stream", s, e.exp))
Asc(ids) == SetToSortSeq(ids, LAMBDA a, b : a < b)
AtMost(seq, count) == IF count = 0 THEN seq ELSE SubSeq(seq, 1, Min({count, Len(seq)}))
Entries(s, ids) == Many([i \in 1..Len(ids) |-> <<ids[i], s.entries[ids[i]]>>])

\* resolve_xadd_id: "*" takes the clock unless the stream is ahead of it.
ResolveId(s, now, c) ==
  CASE "AUTO" \in c.opt -> IF now > MsOf(s.last) THEN IdOf(now, 0) ELSE s.last + 1
    [] "AUTOSEQ" \in c.opt -> IF MsOf(c.n) = MsOf(s.last) THEN s.last + 1 ELSE IdOf(MsOf(c.n), 0)
    [] OTHER -> c.n

IdRefused(s, id) == (id <= s.last /\ s.last # 0) \/ (id = 0 /\ DOMAIN s.entries # {})

Newest(s, count) ==
  LET ids == Asc(DOMAIN s.entries)
      kept == ToSet(SubSeq(ids, Max({Len(ids) - count + 1, 1}), Len(ids)))
  IN [s EXCEPT !.entries = Restrict(@, kept)]

\* The clock is resolved before the frame is written.
LogsAuto(c, id) == c
LogsResolved(c, id) == [c EXCEPT !.n = id, !.opt = @ \ {"AUTO", "AUTOSEQ"}]

cmd_xadd(db, now, c) ==
  LET e == Live(db, c.key, now)
      s == StreamIn(e)
      id == ResolveId(s, now, c)
      added == [s EXCEPT !.entries = With(@, id, Head(c.args)), !.last = id]
  IN IF ~Holds(e, "stream") \/ IdRefused(s, id) THEN Refused(db)
     ELSE Done(PutStream(db, c.key, e, IF "MAXLEN" \in c.opt THEN Newest(added, c.m) ELSE added),
               Int1(id), <<LogsResolved(c, id)>>)

\* XLEN, XRANGE from n to m and XREAD after n.
cmd_xrange(db, now, c) ==
  LET e == Live(db, c.key, now)
      s == StreamIn(e)
      within == {id \in DOMAIN s.entries : IF c.op = "XREAD" THEN id > c.n ELSE id >= c.n /\ id <= c.m}
  IN CASE c.op = "XREAD" -> NoOp(db, Entries(s, Asc(within)))
       [] ~Holds(e, "stream") -> Refused(db)
       [] c.op = "XLEN" -> NoOp(db, Int1(Cardinality(DOMAIN s.entries)))
       [] OTHER -> NoOp(db, Entries(s, IF "REV" \in c.opt THEN Reverse(Asc(within)) ELSE Asc(within)))

cmd_xdel(db, now, c) ==
  LET e == Live(db, c.key, now)
      s == StreamIn(e)
      gone == ToSet(c.args) \cap DOMAIN s.entries
  IN CASE ~Holds(e, "stream") -> Refused(db)
       [] e.type = "none" -> Generic(c, db, Int1(0))
       [] OTHER -> Generic(c, PutStream(db, c.key, e, [s EXCEPT !.entries = Restrict(@, DOMAIN @ \ gone)]),
                           Int1(Cardinality(gone)))

cmd_xtrim(db, now, c) ==
  LET e == Live(db, c.key, now)
      s == StreamIn(e)
  IN CASE ~Holds(e, "stream") -> Refused(db)
       [] e.type = "none" -> Generic(c, db, Int1(0))
       [] OTHER -> Generic(c, PutStream(db, c.key, e, Newest(s, c.m)),
                           Int1(Max({Cardinality(DOMAIN s.entries) - c.m, 0})))

-------------------------------------------------------------------------------
(* Consumer groups. *)

GroupOf(c) == c.args[1]
ConsumerOf(c) == c.args[2]
HasGroup(e, g) == e.type = "stream" /\ g \in DOMAIN e.val.groups
PutGroup(db, k, e, g, cg) == PutStream(db, k, e, [e.val EXCEPT !.groups = With(@, g, cg)])

StartAt(s, c) == IF "LAST" \in c.opt THEN s.last ELSE c.n

xgroup_create(db, now, c) ==
  LET e == Live(db, c.key, now)
      s == StreamIn(e)
      fresh == [last |-> StartAt(s, c), cons |-> Empty, pel |-> Empty]
  IN IF \/ ~Holds(e, "stream") \/ GroupOf(c) \in DOMAIN s.groups
        \/ e.type = "none" /\ "MKSTREAM" \notin c.opt
     THEN Refused(db)
     ELSE Generic(c, PutStream(db, c.key, e, [s EXCEPT !.groups = With(@, GroupOf(c), fresh)]), Ok)

xgroup_destroy(db, now, c) ==
  LET e == Live(db, c.key, now)
      s == StreamIn(e)
  IN CASE ~Holds(e, "stream") -> Refused(db)
       [] e.type = "none" -> Generic(c, db, Int1(0))
       [] OTHER -> Generic(c, PutStream(db, c.key, e,
                              [s EXCEPT !.groups = Restrict(@, DOMAIN @ \ {GroupOf(c)})]),
                           Int1(IF GroupOf(c) \in DOMAIN s.groups THEN 1 ELSE 0))

xgroup_setid(db, now, c) ==
  LET e == Live(db, c.key, now)
      g == GroupOf(c)
  IN IF ~HasGroup(e, g) THEN Refused(db)
     ELSE Generic(c, PutGroup(db, c.key, e, g, [e.val.groups[g] EXCEPT !.last = StartAt(e.val, c)]), Ok)

WithConsumer(cg, name) == [cg EXCEPT !.cons = IF name \in DOMAIN @ THEN @ ELSE With(@, name, {})]

xgroup_createconsumer(db, now, c) ==
  LET e == Live(db, c.key, now)
      g == GroupOf(c)
  IN IF ~HasGroup(e, g) THEN Refused(db)
     ELSE Generic(c, PutGroup(db, c.key, e, g, WithConsumer(e.val.groups[g], ConsumerOf(c))),
                  Int1(IF ConsumerOf(c) \in DOMAIN e.val.groups[g].cons THEN 0 ELSE 1))

\* A consumer goes together with what it had pending.
KeepsPending(cg, ids) == cg
DropPending(cg, ids) == [cg EXCEPT !.pel = Restrict(@, DOMAIN @ \ ids)]

xgroup_delconsumer(db, now, c) ==
  LET e == Live(db, c.key, now)
      g == GroupOf(c)
      cg == e.val.groups[g]
      name == ConsumerOf(c)
  IN CASE ~HasGroup(e, g) -> Refused(db)
       [] name \notin DOMAIN cg.cons -> Generic(c, db, Int1(0))
       [] OTHER -> Generic(c, PutGroup(db, c.key, e, g,
                              DropPending([cg EXCEPT !.cons = Restrict(@, DOMAIN @ \ {name})], cg.cons[name])),
                           Int1(Cardinality(cg.cons[name])))

\* Ownership of pending entries passes to a consumer: the previous owners
\* forget them.  pairs gives every entry its delivery count.
MoveTo(cg, name, pairs, now) ==
  LET lost == [x \in DOMAIN cg.cons |-> cg.cons[x] \ DOMAIN pairs]
      moved == [id \in DOMAIN pairs |-> [owner |-> name, count |-> pairs[id], at |-> now]]
      own == DOMAIN pairs \union (IF name \in DOMAIN lost THEN lost[name] ELSE {})
  IN [cg EXCEPT !.pel = moved @@ @, !.cons = With(lost, name, own)]

\* apply_lxgroupread, also the replay of LXGROUPREAD: n is the last ID.
cmd_lxgroupread(db, now, c) ==
  LET e == Live(db, c.key, now)
      g == GroupOf(c)
      ids == ToSet(SubSeq(c.args, 3, Len(c.args)))
      seen == [e.val.groups[g] EXCEPT !.last = c.n]
  IN IF ~HasGroup(e, g) THEN Refused(db)
     ELSE Done(PutGroup(db, c.key, e, g,
                 IF ConsumerOf(c) = 0 THEN seen ELSE MoveTo(seen, ConsumerOf(c), [id \in ids |-> 1], now)),
               Ok, <<c>>)

\* preview_xreadgroup for one key: ">" delivers what the group has not seen,
\* an ID repeats what is still pending with the consumer.
Fresh(s, cg, count) == AtMost(Asc({id \in DOMAIN s.entries : id > cg.last}), count)
Again(s, cg, c) ==
  LET own == IF ConsumerOf(c) \in DOMAIN cg.cons THEN cg.cons[ConsumerOf(c)] ELSE {}
  IN AtMost(Asc({id \in own : id > c.n /\ id \in DOMAIN s.entries}), c.m)

preview_xreadgroup(db, now, c, k) ==
  LET e == Live(db, k, now)
      cg == e.val.groups[GroupOf(c)]
      new == Fresh(e.val, cg, c.m)
      mine == IF "NOACK" \in c.opt THEN <<0>> ELSE <<ConsumerOf(c)>> \o new
      deliver == [c EXCEPT !.op = "LXGROUPREAD", !.key = k, !.n = Last(new), !.m = 0, !.opt = {},
                           !.args = <<GroupOf(c)>> \o mine]
      create == [c EXCEPT !.op = "XGROUPCONSUMER", !.key = k, !.n = 0, !.m = 0, !.opt = {}]
  IN IF e.type # "stream" THEN [out |-> <<>>, log |-> <<>>]
     ELSE IF "NEW" \in c.opt
          THEN [out |-> new, log |-> IF new = <<>> THEN <<>> ELSE <<deliver>>]
          ELSE [out |-> Again(e.val, cg, c),
                log |-> IF ConsumerOf(c) \in DOMAIN cg.cons THEN <<>> ELSE <<create>>]

StreamKeys(c) == IF "BOTH" \in c.opt THEN <<c.key, c.dst>> ELSE <<c.key>>

cmd_xreadgroup(db, now, c) ==
  LET keys == StreamKeys(c)
      plans == [i \in 1..Len(keys) |-> preview_xreadgroup(db, now, c, keys[i])]
      log == FlattenSeq([i \in 1..Len(keys) |-> plans[i].log])
      apply(d, x) == IF x.op = "LXGROUPREAD" THEN cmd_lxgroupread(d, now, x).db
                     ELSE xgroup_createconsumer(d, now, x).db
      ungrouped == \E k \in ToSet(keys) : Live(db, k, now).type = "stream"
                                          /\ ~HasGroup(Live(db, k, now), GroupOf(c))
  IN IF ungrouped THEN Refused(db)
     ELSE Done(FoldLeft(apply, db, log), Many([i \in 1..Len(keys) |-> plans[i].out]), log)

\* A pending ID is counted once however often it is named.
cmd_xack(db, now, c) ==
  LET e == Live(db, c.key, now)
      g == GroupOf(c)
      cg == e.val.groups[g]
      ids == ToSet(Tail(c.args)) \cap DOMAIN cg.pel
      free == [x \in DOMAIN cg.cons |-> cg.cons[x] \ {id \in ids : cg.pel[id].owner = x}]
  IN CASE ~Holds(e, "stream") -> Refused(db)
       [] ~HasGroup(e, g) -> Generic(c, db, Int1(0))
       [] OTHER -> Generic(c, PutGroup(db, c.key, e, g, DropPending([cg EXCEPT !.cons = free], ids)),
                           Int1(Cardinality(ids)))

\* apply_lxgroupclaim: args[3] on are ID and delivery count by turns.
cmd_lxgroupclaim(db, now, c) ==
  LET e == Live(db, c.key, now)
      g == GroupOf(c)
      n == (Len(c.args) - 2) \div 2
      counts == [id \in {c.args[2 * i + 1] : i \in 1..n} |->
                   c.args[2 * (CHOOSE i \in 1..n : c.args[2 * i + 1] = id) + 2]]
  IN IF ~HasGroup(e, g) \/ ~(DOMAIN counts \subseteq DOMAIN e.val.groups[g].pel) THEN Refused(db)
     ELSE Done(PutGroup(db, c.key, e, g, MoveTo(e.val.groups[g], ConsumerOf(c), counts, now)), Ok, <<c>>)

\* Deliveries that have been idle for at least m.
Idle(cg, ids, c, now) == SelectSeq(ids, LAMBDA id : id \in DOMAIN cg.pel /\ now - cg.pel[id].at >= c.m)

ClaimOf(cg, c, ids) ==
  [c EXCEPT !.op = "LXGROUPCLAIM", !.n = 0, !.m = 0, !.opt = {},
            !.args = <<GroupOf(c), ConsumerOf(c)>> \o
                     FlattenSeq([i \in 1..Len(ids) |-> <<ids[i], cg.pel[ids[i]].count + 1>>])]

Claim(db, now, c, cg, ids, reply) ==
  IF ids = <<>> THEN NoOp(db, reply)
  ELSE [cmd_lxgroupclaim(db, now, ClaimOf(cg, c, ids)) EXCEPT !.reply = reply]

Present(s, ids) == SelectSeq(ids, LAMBDA id : id \in DOMAIN s.entries)

cmd_xclaim(db, now, c) ==
  LET e == Live(db, c.key, now)
      cg == e.val.groups[GroupOf(c)]
      ids == Idle(cg, SubSeq(c.args, 3, Len(c.args)), c, now)
  IN CASE e.type = "none" -> NoOp(db, Many(<<>>))
       [] ~HasGroup(e, GroupOf(c)) -> Refused(db)
       [] OTHER -> Claim(db, now, c, cg, ids, Entries(e.val, Present(e.val, ids)))

\* XAUTOCLAIM from ID n on, with a COUNT of one: entries that were deleted are
\* claimed without counting, and the scan ends at the next pending ID.
cmd_xautoclaim(db, now, c) ==
  LET e == Live(db, c.key, now)
      cg == e.val.groups[GroupOf(c)]
      all == Asc({id \in DOMAIN cg.pel : id >= c.n})
      idle == Idle(cg, all, c, now)
      first == Present(e.val, idle)
      ids == IF first = <<>> THEN idle ELSE SelectSeq(idle, LAMBDA id : id <= Head(first))
      rest == IF first = <<>> THEN <<>> ELSE SelectSeq(all, LAMBDA id : id > Head(first))
      reply == <<"claimed", IF rest = <<>> THEN 0 ELSE Head(rest), Entries(e.val, Present(e.val, ids)),
                 SelectSeq(ids, LAMBDA id : id \notin DOMAIN e.val.entries)>>
  IN IF ~HasGroup(e, GroupOf(c)) THEN Refused(db) ELSE Claim(db, now, c, cg, ids, reply)

\* xpending_summary and xpending_range of one consumer (0: of all).
cmd_xpending(db, now, c) ==
  LET e == Live(db, c.key, now)
      pel == e.val.groups[GroupOf(c)].pel
      ids == Asc({id \in DOMAIN pel : ConsumerOf(c) \in {0, pel[id].owner}})
  IN IF ~HasGroup(e, GroupOf(c)) THEN Refused(db)
     ELSE NoOp(db, Many([i \in 1..Len(ids) |-> <<ids[i], pel[ids[i]].owner, pel[ids[i]].count>>]))

StreamOps == {"XADD", "XLEN", "XRANGE", "XREAD", "XDEL", "XTRIM", "XGROUPCREATE", "XGROUPDESTROY",
              "XGROUPSETID", "XGROUPCONSUMER", "XGROUPDELCONSUMER", "XREADGROUP", "LXGROUPREAD",
              "XACK", "XCLAIM", "XAUTOCLAIM", "LXGROUPCLAIM", "XPENDING"}

StreamExec(db, now, c) ==
  CASE c.op = "XADD" -> cmd_xadd(db, now, c)
    [] c.op \in {"XLEN", "XRANGE", "XREAD"} -> cmd_xrange(db, now, c)
    [] c.op = "XDEL" -> cmd_xdel(db, now, c)
    [] c.op = "XTRIM" -> cmd_xtrim(db, now, c)
    [] c.op = "XGROUPCREATE" -> xgroup_create(db, now, c)
    [] c.op = "XGROUPDESTROY" -> xgroup_destroy(db, now, c)
    [] c.op = "XGROUPSETID" -> xgroup_setid(db, now, c)
    [] c.op = "XGROUPCONSUMER" -> xgroup_createconsumer(db, now, c)
    [] c.op = "XGROUPDELCONSUMER" -> xgroup_delconsumer(db, now, c)
    [] c.op = "XREADGROUP" -> cmd_xreadgroup(db, now, c)
    [] c.op = "LXGROUPREAD" -> cmd_lxgroupread(db, now, c)
    [] c.op = "XACK" -> cmd_xack(db, now, c)
    [] c.op = "XCLAIM" -> cmd_xclaim(db, now, c)
    [] c.op = "XAUTOCLAIM" -> cmd_xautoclaim(db, now, c)
    [] c.op = "LXGROUPCLAIM" -> cmd_lxgroupclaim(db, now, c)
    [] c.op = "XPENDING" -> cmd_xpending(db, now, c)

\* The two records of every pending delivery agree.
PelAgrees(e) ==
  e.type = "stream" =>
    \A g \in DOMAIN e.val.groups :
      LET cg == e.val.groups[g]
      IN /\ \A id \in DOMAIN cg.pel :
              cg.pel[id].owner \in DOMAIN cg.cons /\ id \in cg.cons[cg.pel[id].owner]
         /\ \A x \in DOMAIN cg.cons : \A id \in cg.cons[x] :
              id \in DOMAIN cg.pel /\ cg.pel[id].owner = x
==============================================================================
