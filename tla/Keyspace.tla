------------------------------- MODULE Keyspace -------------------------------
(***************************************************************************)
(* The keyspace with its clock, its journal and its snapshot: clients      *)
(* execute commands, time passes, the sweep removes expired keys without   *)
(* journaling it, a save captures the entries and truncates the journal,   *)
(* and a restart loads the snapshot and replays the journal through the    *)
(* same commands (src/cmd/mod.rs, src/store/mod.rs, src/snapshot.rs).      *)
(*                                                                         *)
(* What a crash could lose of the files is the subject of Journal.tla;     *)
(* here every frame that was written is there, and the question is what    *)
(* its replay computes.                                                    *)
(***************************************************************************)
EXTENDS ShardReads

CONSTANTS
  Key,          \* the keys
  Commands,     \* the client commands, for every family
  Setups,       \* what had been executed before, for every family
  Step,         \* how far the clock advances at a time
  MaxCommands, MaxTicks, MaxSaves

VARIABLES
  db,           \* Store::shards
  now,          \* the clock
  journal,      \* the frames since the last save
  dump,         \* the snapshot
  lapsed,       \* some deadline on record has passed
  slipped,      \* ghost: a refused HINCRBY has ended a field's deadline since the last save
  family,       \* the commands the clients use
  room          \* what is left of the bounds

keyVars == <<db, now, journal, dump, lapsed, slipped, family, room>>

\* The commands of an instance with one key whose time to live is set twice, and no setup.
RefreshCommands ==
  [refresh |-> {Cmd("SET", "k1", "k2", 0, 0, <<1>>, {}),
                Cmd("PEXPIRE", "k1", "k2", 1, 0, <<>>, {}),
                Cmd("PEXPIRE", "k1", "k2", 5, 0, <<>>, {})}]
NoSetups == [refresh |-> {<<>>}]

\* execute: the dispatch of src/cmd/mod.rs.
Execute(d, at, c) ==
  CASE c.op \in StringOps -> StringExec(d, at, c)
    [] c.op \in KeyOps -> KeyExec(d, at, c)
    [] c.op \in ListOps -> ListExec(d, at, c)
    [] c.op \in HashOps -> HashExec(d, at, c)
    [] c.op \in SetOps -> SetExec(d, at, c)
    [] c.op \in ZsetOps -> ZsetExec(d, at, c)
    [] c.op \in StreamOps -> StreamExec(d, at, c)

Frame(r) == IF r.log = <<>> THEN <<>> ELSE <<[cmds |-> r.log, checked |-> r.checked]>>

-------------------------------------------------------------------------------
(* Recovery. *)

\* stage_expired_recovery_entry: an entry of the snapshot whose deadline has
\* passed stays until the replay is over.
Sentinel == 1000000
LoadEntry(e, at) == IF e.exp # NoDeadline /\ e.exp <= at THEN [e EXCEPT !.exp = Sentinel] ELSE e

\* replay_wal: a refused command ends the start, unless it is the only one of
\* the last frame and that frame may be taken back.
Replayed(s, r) ==
  IF ~s.ok \/ IsErr(r.reply) THEN [s EXCEPT !.ok = FALSE] ELSE [s EXCEPT !.db = r.db]

ReplayFrame(s, at, f) == FoldLeft(LAMBDA t, c : Replayed(t, Execute(t.db, at, c)), s, f.cmds)

LastTakenBack(run(_), frames, all) ==
  IF ~all.ok /\ frames # <<>> /\ Last(frames).checked THEN run(Front(frames)) ELSE all

ReplayAll(run(_), frames) == LastTakenBack(run, frames, run(frames))

replay_wal(d, frames, at) ==
  ReplayAll(LAMBDA fs : FoldLeft(LAMBDA s, f : ReplayFrame(s, at, f), [db |-> d, ok |-> TRUE], fs),
            frames)

\* finish_recovery removes what was staged and is still as it was.
finish_recovery(s) ==
  [s EXCEPT !.db = [k \in Key |-> IF s.db[k].exp = Sentinel THEN Missing ELSE s.db[k]]]

Recover(at) ==
  finish_recovery(replay_wal([k \in Key |-> LoadEntry(dump[k], at)], journal, at))

-------------------------------------------------------------------------------

\* The commands of a setup have been executed at the start.
Executed(s, r) == [db |-> r.db, journal |-> s.journal \o Frame(r)]

AfterSetup(cs) ==
  FoldLeft(LAMBDA s, c : Executed(s, Execute(s.db, 0, c)),
           [db |-> [k \in Key |-> Missing], journal |-> <<>>], cs)

KeyInit ==
  /\ family \in DOMAIN Commands
  /\ \E s \in {AfterSetup(cs) : cs \in Setups[family]} : db = s.db /\ journal = s.journal
  /\ dump = [k \in Key |-> Missing]
  /\ now = 0
  /\ lapsed = FALSE /\ slipped = FALSE
  /\ room = [commands |-> MaxCommands, ticks |-> MaxTicks, saves |-> MaxSaves]

Effect(r) ==
  /\ room.commands > 0
  /\ room' = [room EXCEPT !.commands = @ - 1]
  /\ db' = r.db
  /\ journal' = journal \o Frame(r)
  /\ UNCHANGED <<now, dump, lapsed, family>>

\* The deadline of a field goes before its text is parsed, and the refusal is
\* not journaled.
EndsDeadline(c, r) ==
  /\ c.op = "HINCRBY" /\ IsErr(r.reply)
  /\ db[c.key].type = "hash" /\ c.n \in DOMAIN db[c.key].val.ttl

Client(c) ==
  LET r == Execute(db, now, c) IN
  Effect(r) /\ slipped' = (slipped \/ EndsDeadline(c, r))

\* The deadlines that the keyspace, the snapshot and the journal know of.
EntryDeadlines(e) == {e.exp} \union (IF e.type = "hash" THEN Range(e.val.ttl) ELSE {})
CommandDeadlines(c) ==
  EntryDeadlines(c.blob) \union
    (IF c.op \in {"PEXPIREAT", "HPEXPIREAT"} \/ c.opt \cap {"PXAT", "ABSTTL"} # {} THEN {c.n} ELSE {})
FrameDeadlines(f) == UNION {CommandDeadlines(c) : c \in Range(f.cmds)}
Known ==
  UNION {EntryDeadlines(db[k]) \union EntryDeadlines(dump[k]) : k \in Key}
    \union UNION {FrameDeadlines(f) : f \in Range(journal)}

Tick ==
  /\ room.ticks > 0
  /\ room' = [room EXCEPT !.ticks = @ - 1]
  /\ now' = now + Step
  /\ lapsed' = (lapsed \/ \E t \in Known \ {NoDeadline, 0} : t <= now + Step)
  /\ UNCHANGED <<db, journal, dump, slipped, family>>

\* expire_sweep on one of the keys it samples: nothing goes to the journal.
Sweep(k) ==
  /\ IsExpiredAt(db[k], now)
  /\ db' = Drop(db, k)
  /\ UNCHANGED <<now, journal, dump, lapsed, slipped, family, room>>

\* dump_all_from_locked_shards: the live entries with the time they have left,
\* of which none is written as no deadline at all.
DumpEntry(e, at) ==
  CASE IsExpiredAt(e, at) -> Missing
    [] e.exp = at -> [e EXCEPT !.exp = NoDeadline]
    [] OTHER -> e

Save ==
  /\ room.saves > 0
  /\ room' = [room EXCEPT !.saves = @ - 1]
  /\ dump' = [k \in Key |-> DumpEntry(db[k], now)]
  /\ journal' = <<>>
  /\ slipped' = FALSE
  /\ UNCHANGED <<db, now, lapsed, family>>

KeyNext ==
  \/ \E c \in Commands[family] : Client(c)
  \/ Tick
  \/ \E k \in Key : Sweep(k)
  \/ Save

KeySpec == KeyInit /\ [][KeyNext]_keyVars
-------------------------------------------------------------------------------

\* Two entries that a client cannot tell apart at an instant: the members of a
\* set are compared without their order, the fields of a hash if they live,
\* pending deliveries without their times, which a restart renews.
Visible(e, at) ==
  CASE e.type = "set" -> ToSet(e.val)
    [] e.type = "hash" -> {<<f, e.val.fields[f], IF f \in DOMAIN e.val.ttl THEN e.val.ttl[f] ELSE 0>> :
                             f \in LiveFields(e.val, at)}
    [] e.type = "stream" ->
         [e.val EXCEPT !.groups = [g \in DOMAIN @ |->
            [@[g] EXCEPT !.pel = [id \in DOMAIN @ |-> <<@[id].owner, @[id].count>>]]]]
    [] OTHER -> e.val

SameKey(a, b, at) == a.type = b.type /\ a.exp = b.exp /\ Visible(a, at) = Visible(b, at)

SameKeys(d1, d2, at) ==
  \A k \in Key : SameKey(Live(d1, k, at), Live(d2, k, at), at)

\* A restart at this instant accepts the journal and serves what was there.
Serves(r) == r.ok /\ SameKeys(r.db, db, now + 1)
Reproduces == Serves(Recover(now))

\* A STORE command journals a computed score that ZADD refuses.
JournalsNaN == \E f \in Range(journal) : \E c \in Range(f.cmds) : c.op = "ZADDALL" /\ NaN \in Range(c.args)

\* Recovery re-executes every journaled command at one instant that is not the
\* one at which a client sent it, so each command must have journaled a form
\* that does not depend on the clock, on chance or on state that is not there:
\* as long as no deadline on record has passed, a restart at any point serves
\* exactly the keys, values and deadlines that the clients saw
\* (store/mod.rs:3439).  Two cases are set aside until the next save: a ZUNIONSTORE
\* whose weights make a score NaN (store/sorted_sets.rs:818), and a HINCRBY of a text
\* field, which ends its deadline before it is refused (store/hashes.rs:333).
KeyspaceReplays == lapsed \/ slipped \/ JournalsNaN \/ Reproduces

\* Single ZCOUNTs that look at the range before the key, or count a NaN.
CountsApart(c) ==
  /\ c.op = "ZCOUNT"
  /\ \/ c.n > c.m /\ ~Holds(Live(db, c.key, now), "zset")
     \/ c.n = -Inf /\ c.m = Inf /\ NaN \in Range(Scores(db[c.key]))

BatchAlike(c, r) ==
  /\ c.op \in BatchReads /\ ~CountsApart(c) => execute_on_shard_read(db, now, c) = r.reply
  /\ c.op = "SET" /\ c.opt = {} => SetOnShard(db, now, c) = r.db

\* A client's pipeline and its single commands are two implementations of one
\* command set: in every state, with expired keys and fields that no sweep has
\* removed yet among them, a batched read gives the answer of the single one,
\* and a batched plain SET leaves what the single one leaves (cmd/mod.rs:3370).  Set
\* aside is ZCOUNT with a reversed range on another type and over all scores with a
\* NaN among them (store/sorted_sets.rs:487, 498).
BatchAnswersAlike ==
  \A c \in Commands[family] : BatchAlike(c, Execute(db, now, c))

PendingAgreesIn(d) == \A k \in Key : PelAgrees(d[k])

\* A delivery that is not acknowledged is recorded with the group and with its
\* consumer, and deliveries, claims, acknowledgements and the removal of a
\* consumer change both: they never disagree, nor do they after a restart
\* (store/streams.rs:749).
PendingAgrees ==
  PendingAgreesIn(db) /\ PendingAgreesIn(Recover(now).db)

\* What DURABILITY.md says, without that restriction: replay is
\* deterministic and reproduces exactly the state clients observed.
ReproducesObserved == Reproduces
===============================================================================
