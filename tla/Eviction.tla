------------------------------ MODULE Eviction ------------------------------
(***************************************************************************)
(* Memory-mode eviction: every write first deletes keys until memory is    *)
(* under the limit, and journals each deletion as a DEL of its own.        *)
(*                                                                         *)
(*   src/eviction.rs     evict_if_needed, evict_lru, evict_random,         *)
(*                       evict_selected_key                                *)
(*   src/cmd/mod.rs      execute_with_wal, the prelude of execute          *)
(*   src/shard_exec.rs   execute_write_batch                               *)
(*   src/store/mod.rs    commit_journaled, commit_journaled_checked        *)
(*                                                                         *)
(* A resolved command (SET) evicts before it takes its journal gate.  A    *)
(* generic one (SADD) is journaled first, keeps the journal locked while   *)
(* it runs so that it can take its frame back, and evicts in between.      *)
(* Within EXEC both write to a buffer that EXEC appends at its end.        *)
(*                                                                         *)
(* The value of a key is the set of the writes in it: a resolved write     *)
(* replaces the set, a generic one adds to it.  A key takes one unit of    *)
(* memory.  Journal faults are left to Journal.                            *)
(***************************************************************************)
EXTENDS Integers, FiniteSets, Sequences, SequencesExt

CONSTANTS
  Key,        \* keys, each with its own journal gate
  Protected,  \* the keys of tables (_t:*), never evicted in memory mode
  Thread,     \* threads that run commands
  Kind,       \* pairs of a surface ("plain", "exec") and a strategy
              \* ("generic", "resolved") in use
  Policy,     \* "allkeys", "volatile" or "noeviction"
  MaxMem,     \* eviction.max_memory, in keys
  MaxTries,   \* the 128 rounds of evict_if_needed
  MaxQueue,   \* bound: commands of one EXEC
  MaxOps      \* bound: commands in all

VARIABLES
  mem,        \* mem[k]: the value of k and whether it has a TTL
  journal,    \* the frames of the journal
  wal,        \* who holds the journal lock (not reentrant)
  gate,       \* gate[k]: who holds the journal gate of k (reentrant)
  inside,     \* threads that hold the execution gate shared
  exec,       \* the thread that runs EXEC
  buf,        \* the frames of the running EXEC
  pc,         \* pc[t]: where thread t is
  cmd,        \* cmd[t]: its command
  nextId      \* the number of the next command

\* The kinds of an instance without EXEC and SET.
GenericKinds == {<<"plain", "generic">>}

Nobody == "nobody"
Absent == [ids |-> {}, vol |-> FALSE]
NoCmd == [surface |-> Nobody, strategy |-> Nobody, key |-> Nobody, vol |-> FALSE,
          id |-> 0, at |-> 0, victim |-> Nobody, tries |-> 0, todo |-> 0]

locks == <<gate, inside, exec>>
vars == <<mem, journal, wal, gate, inside, exec, buf, pc, cmd, nextId>>

Present == {k \in Key : mem[k] # Absent}
OverLimit == Cardinality(Present) > MaxMem

Init ==
  /\ mem = [k \in Key |-> Absent]
  /\ journal = <<>> /\ buf = <<>>
  /\ wal = Nobody /\ exec = Nobody /\ inside = {}
  /\ gate = [k \in Key |-> Nobody]
  /\ pc = [t \in Thread |-> "idle"]
  /\ cmd = [t \in Thread |-> NoCmd]
  /\ nextId = 1

Goto(t, label) == pc' = [pc EXCEPT ![t] = label]
Generic(t) == cmd[t].strategy = "generic"

\* Only the volatile policies look at TTLs.
TtlChoice == IF Policy = "volatile" THEN BOOLEAN ELSE {FALSE}

\* What a frame does to the value of its key.
Effect(v, f) ==
  CASE f.op = "DEL"      -> Absent
    [] f.op = "resolved" -> [ids |-> {f.id}, vol |-> f.vol]
    [] f.op = "generic"  -> [v EXCEPT !.ids = @ \cup {f.id}]

\* The store that recovery rebuilds; it takes no eviction decision of its own.
Replayed(frames) ==
  LET after[n \in 0..Len(frames)] ==
        IF n = 0 THEN [k \in Key |-> Absent]
        ELSE [after[n - 1] EXCEPT ![frames[n].key] = Effect(@, frames[n])]
  IN  after[Len(frames)]

Frame(t) == [op |-> cmd[t].strategy, key |-> cmd[t].key, id |-> cmd[t].id, vol |-> cmd[t].vol]
DelFrame(k) == [op |-> "DEL", key |-> k, id |-> 0, vol |-> FALSE]

-----------------------------------------------------------------------------
(* Commands                                                                *)

\* The first step of a command: a resolved one runs execute's prelude, a generic
\* one is journaled before execute runs.
FirstStep(strategy) == IF strategy = "generic" THEN "gate" ELSE "evict"

\* A single command joins the execution gate, EXEC takes it alone.
Start(t, s, g, k, v, n) ==
  /\ pc[t] = "idle" /\ nextId <= MaxOps
  /\ exec = Nobody
  /\ IF s = "exec" THEN inside = {} /\ exec' = t /\ UNCHANGED inside
                   ELSE inside' = inside \cup {t} /\ UNCHANGED exec
  /\ cmd' = [cmd EXCEPT ![t] = [NoCmd EXCEPT !.surface = s, !.strategy = g, !.key = k,
                                            !.vol = v, !.id = nextId, !.todo = n]]
  /\ nextId' = nextId + 1
  /\ Goto(t, FirstStep(g))
  /\ UNCHANGED <<mem, journal, wal, gate, buf>>

\* prepare_journaled: the gate of the key.
LockGate(t) ==
  /\ pc[t] = "gate" /\ gate[cmd[t].key] = Nobody
  /\ gate' = [gate EXCEPT ![cmd[t].key] = t]
  /\ Goto(t, "append")
  /\ UNCHANGED <<mem, journal, wal, inside, exec, buf, cmd, nextId>>

KeepsWal(t) == IF Generic(t) THEN t ELSE Nobody

\* The frame of the command.  A generic command outside EXEC keeps the journal
\* locked.
AppendFrame(t) ==
  /\ pc[t] = "append"
  /\ \/ /\ exec = t
        /\ buf' = Append(buf, Frame(t))
        /\ cmd' = [cmd EXCEPT ![t].at = Len(buf)]
        /\ UNCHANGED <<journal, wal>>
     \/ /\ exec # t /\ wal = Nobody
        /\ journal' = Append(journal, Frame(t))
        /\ cmd' = [cmd EXCEPT ![t].at = Len(journal)]
        /\ wal' = KeepsWal(t)
        /\ UNCHANGED buf
  /\ Goto(t, IF Generic(t) THEN "evict" ELSE "apply")
  /\ UNCHANGED <<mem, locks, nextId>>

\* What the end of a command lets go of.
Release(t) ==
  /\ gate' = [k \in Key |-> IF gate[k] = t THEN Nobody ELSE gate[k]]
  /\ wal' = IF wal = t THEN Nobody ELSE wal
  /\ Goto(t, "done")

Apply(t) ==
  /\ pc[t] = "apply"
  /\ mem' = [mem EXCEPT ![cmd[t].key] = Effect(@, Frame(t))]
  /\ Release(t)
  /\ UNCHANGED <<journal, inside, exec, buf, cmd, nextId>>

\* Variant: the frame of a rejected command stays in the journal.
FrameKept(t) == journal

FrameRemoved(t) == SubSeq(journal, 1, cmd[t].at)

\* A generic command that fails, by itself or because nothing can be evicted,
\* takes its frame back.  A resolved one has not been journaled yet.
RejectFrame(t) ==
  /\ IF ~Generic(t) THEN UNCHANGED <<journal, buf>>
     ELSE IF exec = t THEN buf' = SubSeq(buf, 1, cmd[t].at) /\ UNCHANGED journal
     ELSE journal' = FrameRemoved(t) /\ UNCHANGED buf
  /\ Release(t)

Reject(t) ==
  /\ pc[t] = "apply" /\ Generic(t)
  /\ RejectFrame(t)
  /\ UNCHANGED <<mem, inside, exec, cmd, nextId>>

\* The reply; EXEC goes on with its next command, or appends its buffer.
Done(t) ==
  /\ pc[t] = "done"
  /\ IF exec = t /\ cmd[t].todo > 1
     THEN /\ \E k \in Key, v \in TtlChoice :
               cmd' = [cmd EXCEPT ![t] = [@ EXCEPT !.key = k, !.vol = v, !.id = nextId,
                                                  !.tries = 0, !.todo = cmd[t].todo - 1]]
          /\ nextId' = nextId + 1
          /\ Goto(t, FirstStep(cmd[t].strategy))
          /\ UNCHANGED <<journal, buf, inside, exec>>
     ELSE /\ journal' = IF exec = t THEN journal \o buf ELSE journal
          /\ buf' = IF exec = t THEN <<>> ELSE buf
          /\ exec' = IF exec = t THEN Nobody ELSE exec
          /\ inside' = inside \ {t}
          /\ cmd' = [cmd EXCEPT ![t] = NoCmd]
          /\ Goto(t, "idle")
          /\ UNCHANGED nextId
  /\ UNCHANGED <<mem, wal, gate>>

-----------------------------------------------------------------------------
(* evict_if_needed                                                         *)

\* Variant: the keys of tables may be chosen too.
UnprotectedVictims == Present

\* The keys evict_lru and evict_random may choose; which of them depends on
\* clocks and hash order.
Victims ==
  {k \in Present \ Protected : CASE Policy = "allkeys"    -> TRUE
                                 [] Policy = "volatile"   -> mem[k].vol
                                 [] Policy = "noeviction" -> FALSE}

UnderLimit == ~OverLimit

\* Memory is under the limit: on with the command.
EvictEnough(t) ==
  /\ pc[t] = "evict" /\ UnderLimit
  /\ Goto(t, IF Generic(t) THEN "apply" ELSE "gate")
  /\ UNCHANGED <<mem, journal, wal, locks, buf, cmd, nextId>>

\* OOM: no key may go, or too many rounds.
EvictRefused(t) ==
  /\ pc[t] = "evict" /\ OverLimit
  /\ Victims = {} \/ cmd[t].tries >= MaxTries
  /\ RejectFrame(t)
  /\ UNCHANGED <<mem, inside, exec, cmd, nextId>>

\* A key is chosen under the read lock of its shard ...
ChooseVictim(t, k) ==
  /\ pc[t] = "evict" /\ OverLimit /\ cmd[t].tries < MaxTries
  /\ k \in Victims
  /\ cmd' = [cmd EXCEPT ![t].victim = k, ![t].tries = @ + 1]
  /\ Goto(t, "victim")
  /\ UNCHANGED <<mem, journal, wal, locks, buf, nextId>>

\* ... and evict_selected_key commits a DEL for it: its gate, which the thread
\* may own already,
VictimGate(t) ==
  /\ pc[t] = "victim" /\ gate[cmd[t].victim] \in {Nobody, t}
  /\ gate' = [gate EXCEPT ![cmd[t].victim] = t]
  /\ Goto(t, "del")
  /\ UNCHANGED <<mem, journal, wal, inside, exec, buf, cmd, nextId>>

\* Variant: a deletion that memory pressure forces is not journaled.
SilentDel(k) == journal

JournaledDel(k) == Append(journal, DelFrame(k))

\* its frame, for which the journal must be locked,
VictimAppend(t) ==
  /\ pc[t] = "del"
  /\ \/ exec = t /\ buf' = Append(buf, DelFrame(cmd[t].victim)) /\ UNCHANGED journal
     \/ exec # t /\ wal = Nobody /\ journal' = JournaledDel(cmd[t].victim) /\ UNCHANGED buf
  /\ Goto(t, "remove")
  /\ UNCHANGED <<mem, wal, locks, cmd, nextId>>

\* The gate is released unless the command owns it.
ReleaseVictim(t) ==
  gate' = IF Generic(t) /\ cmd[t].victim = cmd[t].key THEN gate
          ELSE [gate EXCEPT ![cmd[t].victim] = Nobody]

\* and evict_key.
EvictKey(t) ==
  /\ pc[t] = "remove" /\ mem[cmd[t].victim] # Absent
  /\ mem' = [mem EXCEPT ![cmd[t].victim] = Absent]
  /\ ReleaseVictim(t)
  /\ cmd' = [cmd EXCEPT ![t].victim = Nobody]
  /\ Goto(t, "evict")
  /\ UNCHANGED <<journal, wal, inside, exec, buf, nextId>>

\* Somebody else has evicted it in the meantime: nothing was evicted, which
\* memory mode answers with OOM.
EvictKeyGone(t) ==
  /\ pc[t] = "remove" /\ mem[cmd[t].victim] = Absent
  /\ RejectFrame(t)
  /\ cmd' = [cmd EXCEPT ![t].victim = Nobody]
  /\ UNCHANGED <<mem, inside, exec, nextId>>

-----------------------------------------------------------------------------

ThreadStep(t) ==
  \/ LockGate(t) \/ AppendFrame(t) \/ Apply(t) \/ Reject(t) \/ Done(t)
  \/ EvictEnough(t) \/ EvictRefused(t) \/ (\E k \in Key : ChooseVictim(t, k))
  \/ VictimGate(t) \/ VictimAppend(t) \/ EvictKey(t) \/ EvictKeyGone(t)

Next ==
  \/ \E t \in Thread, kd \in Kind, k \in Key, v \in TtlChoice, n \in 1..MaxQueue :
       /\ (kd[1] = "exec" \/ n = 1) /\ (kd[2] = "generic" => ~v)
       /\ Start(t, kd[1], kd[2], k, v, n)
  \/ \E t \in Thread : ThreadStep(t)

Spec == Init /\ [][Next]_vars

\* Threads are scheduled.
FairSpec == Spec /\ \A t \in Thread : WF_vars(ThreadStep(t))

-----------------------------------------------------------------------------
(* Properties                                                              *)

\* The variables have their types, and only a generic command keeps the journal
\* locked from one step to the next (commit_journaled_checked).
TypeOK ==
  /\ mem \in [Key -> [ids : SUBSET (1..(nextId - 1)), vol : BOOLEAN]]
  /\ gate \in [Key -> Thread \cup {Nobody}]
  /\ inside \subseteq Thread /\ exec \in Thread \cup {Nobody}
  /\ exec # Nobody => inside = {}
  /\ wal # Nobody => wal \in inside /\ Generic(wal)

\* What recovery rebuilds is what is in memory, for every key that no command is
\* working on: evictions are part of the journal, in the order in which they and
\* the writes took effect (evict_selected_key records the exact key it removes).
ReplayMatchesMemory ==
  exec = Nobody => \A k \in Key : gate[k] = Nobody => Replayed(journal)[k] = mem[k]

\* Memory passes the limit by at most one key for every thread: those that found
\* it under the limit at the same time (evict_if_needed before each write).
MemoryBounded == Cardinality(Present) <= MaxMem + Cardinality(Thread)

\* No step takes away a key of a table (the protect_tables tests).
TablesKept == \A k \in Protected : mem[k] # Absent => mem'[k] # Absent

\* Every command ends, whatever it has to evict.
WritesEnd == \A t \in Thread : pc[t] # "idle" ~> pc[t] = "idle"
=============================================================================
