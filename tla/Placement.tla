----------------------------- MODULE Placement -----------------------------
(***************************************************************************)
(* Tiered storage: where a value lives, and the memory boundary that keeps *)
(* it there while a command runs.                                          *)
(*                                                                         *)
(*   src/store/mod.rs    tiered_memory_boundary, TieredMemoryBoundary,     *)
(*                       evict_key, try_promote,                           *)
(*                       with_stable_resident_or_absent_key                *)
(*   src/eviction.rs     evict_if_needed                                   *)
(*   src/shard_exec.rs   the read fast path                                *)
(*   src/http.rs         with_execution_read                               *)
(*                                                                         *)
(* A command counts itself in, promotes its key from the cold files, runs, *)
(* and counts itself out.  Who leaves with memory over the limit becomes   *)
(* the rebalancer: newcomers spin, and once the count is zero it spills    *)
(* hot keys to disk.  The RESP and HTTP surfaces take the boundary and the *)
(* execution gate (see Transaction) in opposite orders.                    *)
(*                                                                         *)
(* The value of a key is the number of the last write to it; 0 stands for  *)
(* no value.  Each hot value takes one unit of memory.                     *)
(***************************************************************************)
EXTENDS Integers, FiniteSets

CONSTANTS
  Key,        \* keys, each with its own journal gate
  Thread,     \* threads that run commands
  Surface,    \* the surfaces in use: a subset of {"resp", "http", "exec"}
  Pinned,     \* keys whose values are vectors, which are never spilled
  MaxHot,     \* eviction.max_memory, in values
  MaxQueue,   \* bound: commands of one EXEC
  MaxOps,     \* bound: commands in all
  MaxErrors   \* bound: cold-file errors and crashes

VARIABLES
  hot,        \* hot[k]: the value in memory
  cold,       \* cold[k]: the value in the disk shard
  latest,     \* latest[k]: the last value written (ghost)
  ops,        \* the threads tiered_memory_operations counts
  rebal,      \* who has set tiered_memory_rebalancing
  gate,       \* gate[k]: who holds the journal gate of k
  readers,    \* execution gate: who holds it shared
  writer,     \* execution gate: who holds or drains it
  poisoned,   \* Store.journal_poisoned
  spill,      \* did the last rebalancing fail to get under the limit? (ghost)
  pc,         \* pc[t]: where thread t is
  cmd,        \* cmd[t]: its surface, key, kind, value in transit, rest
  used,       \* commands and errors used
  nextVal     \* the next value written

Nobody == "nobody"
NoCmd == [surface |-> Nobody, key |-> Nobody, write |-> FALSE,
          val |-> 0, todo |-> 0]

placeVars == <<hot, cold, latest>>
execVars  == <<readers, writer>>
vars == <<hot, cold, latest, ops, rebal, gate, readers, writer, poisoned, spill, pc, cmd,
          used, nextVal>>

HotCount == Cardinality({k \in Key : hot[k] # 0})
OverLimit == HotCount > MaxHot

Init ==
  /\ hot = [k \in Key |-> 0] /\ cold = [k \in Key |-> 0] /\ latest = [k \in Key |-> 0]
  /\ ops = {} /\ rebal = Nobody
  /\ gate = [k \in Key |-> Nobody]
  /\ readers = {} /\ writer = Nobody
  /\ poisoned = FALSE /\ spill = FALSE
  /\ pc = [t \in Thread |-> "idle"]
  /\ cmd = [t \in Thread |-> NoCmd]
  /\ used = [ops |-> 0, errors |-> 0]
  /\ nextVal = 1

Goto(t, label) == pc' = [pc EXCEPT ![t] = label]
Is(t, s) == cmd[t].surface = s

-----------------------------------------------------------------------------
(* Commands, by surface                                                    *)

\* A request arrives.  RESP and EXEC go to the execution gate first, HTTP to
\* the memory boundary.
Start(t, s, k, w, n) ==
  /\ pc[t] = "idle" /\ ~poisoned /\ used.ops < MaxOps
  /\ cmd' = [cmd EXCEPT ![t] = [surface |-> s, key |-> k, write |-> w,
                                       val |-> 0, todo |-> n]]
  /\ used' = [used EXCEPT !.ops = @ + 1]
  /\ Goto(t, CASE s = "resp" -> "guard" [] s = "http" -> "spin" [] s = "exec" -> "bid")
  /\ UNCHANGED <<placeVars, ops, rebal, gate, execVars, poisoned, spill, nextVal>>

\* execution_read_guard, with its health check inside the gate.  A single RESP
\* read then tries the path that needs no boundary.
Guard(t) ==
  /\ pc[t] = "guard" /\ writer = Nobody
  /\ \/ /\ ~poisoned
        /\ readers' = readers \cup {t}
        /\ Goto(t, IF Is(t, "http") THEN "promote"
                   ELSE IF cmd[t].write THEN "spin" ELSE "fast")
     \/ /\ poisoned
        /\ Goto(t, IF Is(t, "http") THEN "leave" ELSE "done")
        /\ UNCHANGED readers
  /\ UNCHANGED <<placeVars, ops, rebal, gate, writer, poisoned, spill, cmd, used, nextVal>>

\* Variant: placement may be read or changed while another thread moves the key.
PlacementUnguarded(k) == TRUE

PlacementGuarded(k) == gate[k] = Nobody

\* with_stable_resident_or_absent_key: under the journal gate of the key, a hot
\* or absent key is read at once.
FastRead(t) ==
  LET k == cmd[t].key
  IN
  /\ pc[t] = "fast" /\ PlacementGuarded(k)
  /\ Goto(t, IF hot[k] # 0 \/ cold[k] = 0 THEN "done" ELSE "batch")
  /\ UNCHANGED <<placeVars, ops, rebal, gate, execVars, poisoned, spill, cmd, used, nextVal>>

\* The check that batches make: a key that is hot under the shard lock is read,
\* without its gate; a cold one needs the boundary.
BatchRead(t) ==
  LET k == cmd[t].key
  IN
  /\ pc[t] = "batch"
  /\ \A u \in Thread : ~(pc[u] = "remove" /\ cmd[u].key = k)
  /\ Goto(t, IF hot[k] # 0 THEN "done" ELSE "spin")
  /\ UNCHANGED <<placeVars, ops, rebal, gate, execVars, poisoned, spill, cmd, used, nextVal>>

\* EXEC: shut out new readers, wait for those inside, check the journal.
Bid(t) ==
  /\ pc[t] = "bid" /\ writer = Nobody
  /\ writer' = t
  /\ Goto(t, "drain")
  /\ UNCHANGED <<placeVars, ops, rebal, gate, readers, poisoned, spill, cmd, used, nextVal>>

Drained(t) ==
  /\ pc[t] = "drain" /\ readers = {}
  /\ Goto(t, IF poisoned THEN "done" ELSE "spin")
  /\ UNCHANGED <<placeVars, ops, rebal, gate, execVars, poisoned, spill, cmd, used, nextVal>>

\* The end of a command, or of one of the commands of EXEC.
Done(t) ==
  /\ pc[t] = "done"
  /\ IF Is(t, "exec") /\ cmd[t].todo > 1
     THEN /\ \E k \in Key, w \in BOOLEAN :
               cmd' = [cmd EXCEPT ![t] = [@ EXCEPT !.key = k, !.write = w,
                                                    !.todo = cmd[t].todo - 1]]
          /\ Goto(t, "spin")
          /\ UNCHANGED execVars
     ELSE /\ cmd' = [cmd EXCEPT ![t] = NoCmd]
          /\ Goto(t, "idle")
          /\ readers' = readers \ {t}
          /\ writer' = IF writer = t THEN Nobody ELSE writer
  /\ UNCHANGED <<placeVars, ops, rebal, gate, poisoned, spill, used, nextVal>>

-----------------------------------------------------------------------------
(* The boundary                                                            *)

\* tiered_memory_boundary: wait for the flag, count in, look again.
Spin(t) ==
  /\ pc[t] = "spin" /\ rebal = Nobody
  /\ Goto(t, "count")
  /\ UNCHANGED <<placeVars, ops, rebal, gate, execVars, poisoned, spill, cmd, used, nextVal>>

CountIn(t) ==
  /\ pc[t] = "count"
  /\ ops' = ops \cup {t}
  /\ Goto(t, "recheck")
  /\ UNCHANGED <<placeVars, rebal, gate, execVars, poisoned, spill, cmd, used, nextVal>>

\* Variant: the flag is not read again after counting in.
NotRechecked == TRUE

StillFree == rebal = Nobody

Recheck(t) ==
  /\ pc[t] = "recheck"
  /\ \/ StillFree /\ Goto(t, IF Is(t, "http") THEN "guard" ELSE "promote") /\ UNCHANGED ops
     \/ ~StillFree /\ Goto(t, "spin") /\ ops' = ops \ {t}
  /\ UNCHANGED <<placeVars, rebal, gate, execVars, poisoned, spill, cmd, used, nextVal>>

\* Drop of the outermost boundary: look at the limit, then claim the flag, both
\* while still counted in.
CheckLimit(t) ==
  /\ pc[t] = "leave"
  /\ Goto(t, IF OverLimit THEN "claim" ELSE "unflagged")
  /\ UNCHANGED <<placeVars, ops, rebal, gate, execVars, poisoned, spill, cmd, used, nextVal>>

ClaimFlag(t) ==
  /\ pc[t] = "claim"
  /\ \/ rebal = Nobody /\ rebal' = t /\ Goto(t, "flagged")
     \/ rebal # Nobody /\ Goto(t, "unflagged") /\ UNCHANGED rebal
  /\ UNCHANGED <<placeVars, ops, gate, execVars, poisoned, spill, cmd, used, nextVal>>

\* Variant: the last one out does not rebalance.
SkipsRebalancing(t) == "done"

AfterCountOut(t) == IF pc[t] = "flagged" THEN "wait" ELSE "done"

CountedOut(t) == ops \ {t}

CountOut(t) ==
  /\ pc[t] \in {"flagged", "unflagged"}
  /\ ops' = CountedOut(t)
  /\ Goto(t, AfterCountOut(t))
  /\ rebal' = IF rebal = t /\ AfterCountOut(t) = "done" THEN Nobody ELSE rebal
  /\ UNCHANGED <<placeVars, gate, execVars, poisoned, spill, cmd, used, nextVal>>

\* The rebalancer waits until nobody is counted in.
NobodyInside == ops = {}

WaitInside(t) ==
  /\ pc[t] = "wait" /\ NobodyInside
  /\ Goto(t, "evict")
  /\ UNCHANGED <<placeVars, ops, rebal, gate, execVars, poisoned, spill, cmd, used, nextVal>>

\* evict_if_needed: stop under the limit, otherwise pick a hot key.
EvictStop(t) ==
  /\ pc[t] = "evict" /\ ~OverLimit
  /\ rebal' = Nobody
  /\ spill' = FALSE
  /\ Goto(t, "done")
  /\ UNCHANGED <<placeVars, ops, gate, execVars, poisoned, cmd, used, nextVal>>

\* Nothing left to spill, or the cold file cannot be written: in tiered mode
\* the data stays hot and memory stays over the limit.
EvictGivesUp(t) ==
  /\ pc[t] = "evict" /\ OverLimit
  /\ \/ /\ \A k \in Key \ Pinned : hot[k] = 0
        /\ UNCHANGED used
     \/ /\ used.errors < MaxErrors
        /\ \E k \in Key \ Pinned : hot[k] # 0 /\ PlacementGuarded(k)
        /\ used' = [used EXCEPT !.errors = @ + 1]
  /\ rebal' = Nobody
  /\ spill' = TRUE
  /\ Goto(t, "done")
  /\ UNCHANGED <<placeVars, ops, gate, execVars, poisoned, cmd, nextVal>>

\* evict_key: take the journal gate and the shard lock, write the value to the
\* disk shard ...
EvictPut(t, k) ==
  /\ pc[t] = "evict" /\ OverLimit
  /\ k \notin Pinned /\ hot[k] # 0 /\ PlacementGuarded(k)
  /\ gate' = [gate EXCEPT ![k] = t]
  /\ cold' = [cold EXCEPT ![k] = hot[k]]
  /\ cmd' = [cmd EXCEPT ![t].key = k]
  /\ Goto(t, "remove")
  /\ UNCHANGED <<hot, latest, ops, rebal, execVars, poisoned, spill, used, nextVal>>

\* ... and remove it from memory, with both locks still held.
EvictRemove(t) ==
  LET k == cmd[t].key
  IN
  /\ pc[t] = "remove"
  /\ hot' = [hot EXCEPT ![k] = 0]
  /\ gate' = [gate EXCEPT ![k] = Nobody]
  /\ Goto(t, "evict")
  /\ UNCHANGED <<cold, latest, ops, rebal, execVars, poisoned, spill, cmd, used, nextVal>>

-----------------------------------------------------------------------------
(* Inside the boundary                                                     *)

\* Variant: the promoted value stays in the disk shard as well.
ColdKept(k) == cold

ColdRemoved(k) == [cold EXCEPT ![k] = 0]

\* with_execution_read drops its guard before its boundary.
DropHttpGuard(t) == readers' = IF Is(t, "http") THEN readers \ {t} ELSE readers

\* try_promote, under the journal gate: read and forget the cold value ...
Promote(t) ==
  LET k == cmd[t].key
  IN
  /\ pc[t] = "promote" /\ PlacementGuarded(k)
  /\ \/ cold[k] = 0 /\ Goto(t, "operate") /\ UNCHANGED <<cold, gate, cmd>>
     \/ /\ cold[k] # 0
        /\ gate' = [gate EXCEPT ![k] = t]
        /\ cold' = ColdRemoved(k)
        /\ cmd' = [cmd EXCEPT ![t].val = cold[k]]
        /\ Goto(t, "load")
  /\ UNCHANGED <<hot, latest, ops, rebal, execVars, poisoned, spill, used, nextVal>>

\* A cold value that cannot be read poisons the journal.
PromoteFails(t) ==
  /\ pc[t] = "promote" /\ PlacementGuarded(cmd[t].key) /\ cold[cmd[t].key] # 0
  /\ used.errors < MaxErrors
  /\ used' = [used EXCEPT !.errors = @ + 1]
  /\ poisoned' = TRUE
  /\ Goto(t, "leave")
  /\ DropHttpGuard(t)
  /\ UNCHANGED <<placeVars, ops, rebal, gate, writer, spill, cmd, nextVal>>

\* ... and load_entry puts it in memory.
Load(t) ==
  LET k == cmd[t].key
  IN
  /\ pc[t] = "load"
  /\ hot' = [hot EXCEPT ![k] = cmd[t].val]
  /\ gate' = [gate EXCEPT ![k] = Nobody]
  /\ cmd' = [cmd EXCEPT ![t].val = 0]
  /\ Goto(t, "operate")
  /\ UNCHANGED <<cold, latest, ops, rebal, execVars, poisoned, spill, used, nextVal>>

\* The command itself.  A write is journaled under the gate of its key, and
\* refused once the journal is poisoned; a read needs no gate.  Its key is then
\* of no further use.
Operate(t) ==
  LET k == cmd[t].key
  IN
  /\ pc[t] = "operate"
  /\ \/ /\ cmd[t].write /\ ~poisoned /\ gate[k] = Nobody
        /\ hot' = [hot EXCEPT ![k] = nextVal]
        /\ latest' = [latest EXCEPT ![k] = nextVal]
        /\ nextVal' = nextVal + 1
     \/ /\ cmd[t].write => poisoned
        /\ UNCHANGED <<hot, latest, nextVal>>
  /\ Goto(t, "leave")
  /\ cmd' = [cmd EXCEPT ![t] = [@ EXCEPT !.key = Nobody, !.write = FALSE]]
  /\ DropHttpGuard(t)
  /\ UNCHANGED <<cold, ops, rebal, gate, writer, poisoned, spill, used>>

-----------------------------------------------------------------------------
(* Restart                                                                 *)

\* A crash, or a restart after poisoning.  The cold files are thrown away, the
\* values come back from the snapshot and the journal, and the ceiling is
\* restored before any client is served.
Restart ==
  /\ poisoned \/ used.errors < MaxErrors
  /\ used' = [used EXCEPT !.errors = IF poisoned THEN @ ELSE @ + 1]
  /\ \E S \in SUBSET Key :
       /\ LET held == {k \in Key : latest[k] # 0}
              over == Cardinality(held \ S) > MaxHot
          IN  /\ S \subseteq held \ Pinned
              /\ over => S = held \ Pinned
              /\ spill' = over
       /\ hot' = [k \in Key |-> IF k \in S THEN 0 ELSE latest[k]]
       /\ cold' = [k \in Key |-> IF k \in S THEN latest[k] ELSE 0]
  /\ ops' = {} /\ rebal' = Nobody
  /\ gate' = [k \in Key |-> Nobody]
  /\ readers' = {} /\ writer' = Nobody
  /\ poisoned' = FALSE
  /\ pc' = [t \in Thread |-> "idle"]
  /\ cmd' = [t \in Thread |-> NoCmd]
  /\ UNCHANGED <<latest, nextVal>>

-----------------------------------------------------------------------------

ThreadStep(t) ==
  \/ Guard(t) \/ FastRead(t) \/ BatchRead(t) \/ Bid(t) \/ Drained(t) \/ Done(t)
  \/ Spin(t) \/ CountIn(t) \/ Recheck(t) \/ CheckLimit(t) \/ ClaimFlag(t) \/ CountOut(t)
  \/ WaitInside(t) \/ EvictStop(t) \/ EvictGivesUp(t) \/ (\E k \in Key : EvictPut(t, k)) \/ EvictRemove(t)
  \/ Promote(t) \/ PromoteFails(t) \/ Load(t) \/ Operate(t)

\* The commands are all done: the bounded instance ends here.
Finished == used.ops = MaxOps /\ (\A t \in Thread : pc[t] = "idle") /\ UNCHANGED vars

Next ==
  \/ \E t \in Thread, s \in Surface, k \in Key, w \in BOOLEAN, n \in 1..MaxQueue :
       (s = "exec" \/ n = 1) /\ Start(t, s, k, w, n)
  \/ \E t \in Thread : ThreadStep(t)
  \/ Restart
  \/ Finished

Spec == Init /\ [][Next]_vars

\* Threads are scheduled, and every loop they spin in yields.
FairSpec == Spec /\ \A t \in Thread : WF_vars(ThreadStep(t))

-----------------------------------------------------------------------------
(* Properties                                                              *)

\* Where a thread can be, and what it can be about.
Label == {"idle", "guard", "fast", "batch", "bid", "drain", "done", "spin", "count",
          "recheck", "promote", "load", "operate", "leave", "claim", "flagged",
          "unflagged", "wait", "evict", "remove"}
Command == [surface : Surface \cup {Nobody}, key : Key \cup {Nobody}, write : BOOLEAN,
            val : 0..(nextVal - 1), todo : Nat]

Typed ==
  /\ nextVal \in Nat \ {0} /\ used \in [ops : Nat, errors : Nat]
  /\ hot \in [Key -> 0..(nextVal - 1)] /\ cold \in [Key -> 0..(nextVal - 1)]
  /\ latest \in [Key -> 0..(nextVal - 1)]
  /\ ops \subseteq Thread /\ readers \subseteq Thread
  /\ rebal \in Thread \cup {Nobody} /\ writer \in Thread \cup {Nobody}
  /\ gate \in [Key -> Thread \cup {Nobody}]
  /\ poisoned \in BOOLEAN /\ spill \in BOOLEAN
  /\ pc \in [Thread -> Label]
  /\ cmd \in [Thread -> Command]

\* The variables have their types, and no thread is both counted in and the
\* one that spills (Drop of TieredMemoryBoundary).
TypeOK ==
  /\ Typed
  /\ \A t \in Thread : pc[t] \in {"wait", "evict", "remove"} => rebal = t /\ t \notin ops

\* Unless a thread is moving it, the last value written to a key is in exactly
\* one place, memory or the cold file, however spills, promotions, writes and
\* crashes interleave (evict_key writes the file before it removes, try_promote
\* forgets the file before it loads).
OnePlace ==
  \A k \in Key : gate[k] = Nobody =>
    \/ hot[k] = latest[k] /\ cold[k] = 0
    \/ cold[k] = latest[k] /\ hot[k] = 0

\* A command that has promoted its key finds it in memory when it runs: nothing
\* spills a key between try_promote and the command (tiered_memory_boundary).
StaysPromoted ==
  \A t \in Thread : LET k == cmd[t].key
                   IN  pc[t] = "operate" /\ gate[k] = Nobody => hot[k] = latest[k]

\* The read path without a boundary answers with the last value written
\* (with_stable_resident_or_absent_key, and the batch check under the lock).
FastReadsLatest ==
  [][\A t \in Thread : pc[t] \in {"fast", "batch"} /\ pc'[t] = "done"
       => hot[cmd[t].key] = latest[cmd[t].key]]_vars

\* When nobody is inside a boundary and nobody spills, memory is under the limit,
\* unless the last spill could not get it there (Drop of TieredMemoryBoundary:
\* whoever leaves first with memory over the limit clears up after all others).
CeilingRestored == ops = {} /\ rebal = Nobody => ~OverLimit \/ spill

\* Every command ends: the threads spinning for the rebalancer, the rebalancer
\* waiting for the threads inside and EXEC waiting for the readers never wait
\* for each other.
CommandsEnd == \A t \in Thread : pc[t] # "idle" ~> pc[t] = "idle"
=============================================================================
