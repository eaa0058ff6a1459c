----------------------------- MODULE StoreEntry ------------------------------
(***************************************************************************)
(* The keyspace (src/store/mod.rs) as the commands see it: a key holds an  *)
(* entry, a value of one type with an optional deadline.  A command is a   *)
(* record, and executing one gives the keyspace after it, the reply and    *)
(* the commands that went to the journal.  Most commands journal their own *)
(* arguments; one whose effect depends on the clock, on chance or on the   *)
(* state journals a resolved form instead.                                 *)
(*                                                                         *)
(* Instants and deadlines are numbers of one clock.  A byte string is a    *)
(* sequence of numbers, and the ones of length one are those that parse as *)
(* integers.  A replayed command never sees the time at which it first     *)
(* ran, only the instant of the recovery.                                  *)
(***************************************************************************)
EXTENDS Integers, Sequences, FiniteSets, SequencesExt, FiniteSetsExt, Functions

NoDeadline == -1

\* What a removed or absent key holds.
Missing == [type |-> "none", val |-> <<>>, exp |-> NoDeadline]
Entry(type, val, exp) == [type |-> type, val |-> val, exp |-> exp]

IsExpiredAt(e, now) == e.exp # NoDeadline /\ now > e.exp

\* The entry a command sees: an expired one counts as absent before any
\* sweep has removed it.
Live(db, k, now) == IF IsExpiredAt(db[k], now) THEN Missing ELSE db[k]
Exists(db, k, now) == Live(db, k, now).type # "none"

\* The value of a key that must hold one type, or the empty one of that type.
Holds(e, type) == e.type \in {type, "none"}

\* A command: the keys it names, two numbers, a list of values or members,
\* its options, and the serialized entry of the RESTORE family.
Cmd(op, key, dst, n, m, args, opt) ==
  [op |-> op, key |-> key, dst |-> dst, n |-> n, m |-> m, args |-> args, opt |-> opt,
   blob |-> Missing]

Int1(n) == <<"int", n>>
Bulk(v) == <<"bulk", v>>
Many(s) == <<"array", s>>
Nil == <<"nil">>
Ok == <<"ok">>
Err == <<"error">>
IsErr(reply) == reply = Err

\* A frame is checked when its apply may still refuse the command.
Done(db, reply, log) == [db |-> db, reply |-> reply, log |-> log, checked |-> FALSE]

\* commit_journaled_checked: the frame is written first and taken back when
\* the reply is an error.
Generic(c, db, reply) ==
  [Done(db, reply, IF IsErr(reply) THEN <<>> ELSE <<c>>) EXCEPT !.checked = TRUE]
Refused(db) == Done(db, Err, <<>>)
NoOp(db, reply) == Done(db, reply, <<>>)

Put(db, k, e) == [db EXCEPT ![k] = e]
Drop(db, k) == [db EXCEPT ![k] = Missing]

\* Positions of LRANGE, LTRIM and GETRANGE: negative ones count from the end,
\* and the half-open interval stays inside the value.
From(len, start) == IF start < 0 THEN Max({len + start, 0}) ELSE Min({start, len})
To(len, stop) == IF stop < 0 THEN Max({len + stop + 1, 0}) ELSE Min({stop + 1, len})
Slice(s, start, stop) == SubSeq(s, From(Len(s), start) + 1, To(Len(s), stop))
==============================================================================
