----------------------------- MODULE SaveWorker -----------------------------
(***************************************************************************)
(* The background snapshot worker (SnapshotWorker and                      *)
(* background_save_worker in src/src/snapshot.rs) with the status it       *)
(* shares with BGSAVE (src/src/store/mod.rs): a thread, a channel with one *)
(* slot, the status under its mutex, and two stop flags that shutdown sets *)
(* one after the other.  What a save writes is Journal's business.         *)
(***************************************************************************)
EXTENDS Integers, Sequences

CONSTANTS
  MaxSaves,       \* bound: BGSAVE requests answered
  MaxTimeouts     \* bound: times the interval elapses

VARIABLES
  savePhase,      \* SnapshotStatus.phase: "idle", "queued" or "saving"
  slot,           \* the channel: at most one message
  worker,         \* the thread: "top", "recv", "fired" (the interval elapsed), "wake", "save", "exited"
  scheduled,      \* persistent with an interval: recv_timeout, else recv
  noSaves,        \* Store.background_save_stopping
  halt,           \* SnapshotWorker.stopping
  shutter,        \* request_shutdown: "no", "flagged", "halted", "done"
  accepted, done, asked, fired

saveVars == <<savePhase, slot, worker, scheduled, noSaves, halt, shutter, accepted, done, asked, fired>>

SaveInit ==
  /\ savePhase = "idle" /\ slot = <<>> /\ worker = "top" /\ scheduled \in BOOLEAN /\ noSaves = FALSE
  /\ halt = FALSE /\ shutter = "no" /\ accepted = 0 /\ done = 0 /\ asked = 0 /\ fired = 0

TrySend(m) == slot' = IF slot = <<>> /\ worker # "exited" THEN <<m>> ELSE slot

\* request_background_save: refused while stopping, while a save is queued or running, or when the
\* slot still holds a message; the status mutex is held throughout
RequestSave ==
  /\ asked < MaxSaves /\ asked' = asked + 1
  /\ IF ~noSaves /\ savePhase = "idle" /\ slot = <<>> /\ worker # "exited"
     THEN savePhase' = "queued" /\ slot' = <<"save">> /\ accepted' = accepted + 1
     ELSE UNCHANGED <<savePhase, slot, accepted>>
  /\ UNCHANGED <<worker, scheduled, noSaves, halt, shutter, done, fired>>

\* a shutdown that wakes the thread before it sets the thread's flag
WakesFirst == <<"flagged", "done", "halted">>

\* request_shutdown: no further saves are accepted, then the thread's flag, then a message
ShutdownOrder == <<"flagged", "halted", "done">>
After(s) == IF s = "no" THEN ShutdownOrder[1]
            ELSE ShutdownOrder[(CHOOSE i \in 1..3 : ShutdownOrder[i] = s) + 1]
RequestShutdown ==
  /\ shutter # ShutdownOrder[3]
  /\ shutter' = After(shutter)
  /\ noSaves' = (noSaves \/ shutter' = "flagged")
  /\ halt' = (halt \/ shutter' = "halted")
  /\ IF shutter' = "done" THEN TrySend("wake") ELSE UNCHANGED slot
  /\ UNCHANGED <<savePhase, worker, scheduled, accepted, done, asked, fired>>

\* the top of the loop: a stopping thread takes what is there, another waits
LoopTop ==
  /\ worker = "top"
  /\ IF ~halt THEN worker' = "recv" /\ UNCHANGED <<slot, savePhase>>
     ELSE IF slot = <<>> THEN worker' = "exited" /\ savePhase' = "idle" /\ UNCHANGED slot
     ELSE worker' = slot[1] /\ slot' = <<>> /\ UNCHANGED savePhase
  /\ UNCHANGED <<scheduled, noSaves, halt, shutter, accepted, done, asked, fired>>

Receive ==
  /\ worker = "recv" /\ slot # <<>>
  /\ worker' = slot[1] /\ slot' = <<>>
  /\ UNCHANGED <<savePhase, scheduled, noSaves, halt, shutter, accepted, done, asked, fired>>

\* recv_timeout gives up
Elapsed ==
  /\ worker = "recv" /\ scheduled /\ fired < MaxTimeouts
  /\ worker' = "fired" /\ fired' = fired + 1
  /\ UNCHANGED <<savePhase, slot, scheduled, noSaves, halt, shutter, accepted, done, asked>>

\* an interval that starts a save whatever is queued
BeginsAnyway == ~noSaves

\* begin_scheduled_background_save: only when no save is queued or running
Begins == ~noSaves /\ savePhase = "idle"
BeginScheduled ==
  /\ worker = "fired"
  /\ IF Begins THEN worker' = "save" /\ savePhase' = "queued" /\ accepted' = accepted + 1
     ELSE worker' = "wake" /\ UNCHANGED <<savePhase, accepted>>
  /\ UNCHANGED <<slot, scheduled, noSaves, halt, shutter, done, asked, fired>>

\* a Wake ends a stopping thread
Woken ==
  /\ worker = "wake"
  /\ IF halt THEN worker' = "exited" /\ savePhase' = "idle" ELSE worker' = "top" /\ UNCHANGED savePhase
  /\ UNCHANGED <<slot, scheduled, noSaves, halt, shutter, accepted, done, asked, fired>>

SaveRuns ==
  /\ worker = "save" /\ savePhase # "saving"
  /\ savePhase' = "saving"
  /\ UNCHANGED <<slot, worker, scheduled, noSaves, halt, shutter, accepted, done, asked, fired>>

\* finish_background_save, whether the save succeeded or not
SaveFinishes ==
  /\ worker = "save" /\ savePhase = "saving"
  /\ savePhase' = "idle" /\ worker' = "top" /\ done' = done + 1
  /\ UNCHANGED <<slot, scheduled, noSaves, halt, shutter, accepted, asked, fired>>

SaveNext ==
  \/ RequestSave \/ RequestShutdown \/ LoopTop \/ Receive \/ Elapsed \/ BeginScheduled \/ Woken
  \/ SaveRuns \/ SaveFinishes

SaveSpec == SaveInit /\ [][SaveNext]_saveVars

---------------------------------------------------------------------------
\* One save at a time and none lost: while the thread lives, every accepted save is in the slot, in the
\* thread's hands or done, at most one is unfinished, and the status says "idle" exactly when none is
\* (request_background_save, begin_scheduled_background_save and finish_background_save against
\* the one-slot channel).
SingleFlight ==
  worker # "exited" =>
    LET pending == (IF slot = <<"save">> THEN 1 ELSE 0) + (IF worker = "save" THEN 1 ELSE 0)
    IN pending <= 1 /\ accepted = done + pending /\ (savePhase = "idle" <=> pending = 0)

\* Once shutdown has asked, the thread never waits on an empty channel without an interval to wake it:
\* the flag is set before the message, and a full slot is itself a message (request_shutdown,
\* background_save_worker).
WorkerWakes ==
  ~(shutter = ShutdownOrder[3] /\ worker = "recv" /\ slot = <<>> /\ ~scheduled)
=============================================================================
