----------------------------- MODULE Migrations -----------------------------
(***************************************************************************)
(* The migration ledger (src/migrations.rs) and the CLIs that drive it     *)
(* (apply_pending_migrations and the Migrate commands of cli/src/lib.rs).  *)
(*                                                                         *)
(* A migration is a file of Steps commands.  The engine plans it without a *)
(* lock and applies it under MIGRATION_WRITE_LOCK: a row "applying", then  *)
(* command by command an execution and a durable count of completed        *)
(* commands, then "applied".  The execution and the count are two writes   *)
(* and the engine can die, or a ledger write fail, between them; what is   *)
(* left is for an operator to repair by hand.                              *)
(*                                                                         *)
(* ran[f] is a ghost: the commands of f whose effect is in the store, in   *)
(* the order they took effect.  A crash may take back the last one while   *)
(* no later ledger write has made it durable.                              *)
(***************************************************************************)
EXTENDS Integers, Sequences, FiniteSets

CONSTANTS
  Runner,      \* CLI processes and management requests
  Files,       \* number of migration files; file names sort as 1..Files
  Steps,       \* commands in a file
  Unfit,       \* file versions that do not parse or hold a forbidden command
  MaxEdits,    \* files edited on disk
  MaxMigFaults,\* failed commands, failed ledger writes and crashes
  MaxRepairs   \* repairs an operator makes

File == 1..Files

VARIABLES
  migLock,     \* holder of MIGRATION_WRITE_LOCK
  ledger,      \* __lux_migrations by filename
  content,     \* what lux/migrations holds on disk: the version of each file
  run,         \* what each runner is doing
  ran,         \* ghost: effects of each file's commands
  volatile,    \* ghost: the last effect may still be lost in a crash
  manual,      \* ghost: files an operator vouched for without looking
  budget       \* remaining edits, faults and repairs

migVars == <<migLock, ledger, content, run, ran, volatile, manual, budget>>

NoFile == [status |-> "none", body |-> 0, done |-> 0]
Free == "free"
Idle == [at |-> "idle", file |-> 0, body |-> 0, from |-> 0, cli |-> FALSE]

Unsettled == {"applying", "failed"}

(***************************************************************************)
(* plan(): the content is compared by checksum, which identifies it.       *)
(***************************************************************************)
Blocker(l) == {f \in File : l[f].status \in Unsettled}

ChecksumMatches(row, body) == row.body = body

\* parse_migration_commands and validate_migration_commands: before anything
\* is written, so an unfit file leaves no row.
Acceptable(body) == body \notin Unfit

\* ensure_ledger(): a row of an older engine has no status and no counts; it
\* is taken as applied, complete, with the commands its body holds.
Legacy == [status |-> "", body |-> 1, done |-> 0]
Normalized(l) ==
  [f \in File |-> IF l[f].status = "" THEN [l[f] EXCEPT !.status = "applied", !.done = Steps]
                 ELSE l[f]]

Plan(l, f, body) ==
  IF ~Acceptable(body) THEN "error"
  ELSE IF l[f].status # "none"
  THEN CASE l[f].status = "applied" /\ ChecksumMatches(l[f], body) -> "already_applied"
         [] l[f].status \in Unsettled -> "blocked"
         [] OTHER -> "conflict"
  ELSE IF Blocker(l) # {} THEN "blocked" ELSE "apply"

\* The first n commands of a file, all of one version.
InOrderOf(body, n) == [c \in 1..n |-> <<body, c>>]

MigInit ==
  /\ migLock = Free
  /\ ledger \in {[f \in File |-> IF f <= n THEN Legacy ELSE NoFile] : n \in 0..1}
  /\ content = [f \in File |-> 1]
  /\ run = [r \in Runner |-> Idle]
  /\ ran = [f \in File |-> IF ledger[f] = Legacy THEN InOrderOf(1, Steps) ELSE <<>>]
  /\ volatile = FALSE
  /\ manual = {}
  /\ budget = [edits |-> MaxEdits, faults |-> MaxMigFaults, repairs |-> MaxRepairs]

Spend(what) ==
  /\ budget[what] > 0
  /\ budget' = [budget EXCEPT ![what] = @ - 1]

(***************************************************************************)
(* The CLI: files in name order, a plan, and an apply only for "apply".    *)
(* Any other answer ends the process.                                      *)
(***************************************************************************)
CliStart(r) ==
  /\ run[r].at = "idle"
  /\ run' = [run EXCEPT ![r] = [at |-> "plan", file |-> 1, body |-> content[1],
                                from |-> 0, cli |-> TRUE]]
  /\ UNCHANGED <<migLock, ledger, content, ran, volatile, manual, budget>>

NextFile(r) ==
  LET f == run[r].file + 1
  IN IF run[r].cli /\ f <= Files
     THEN [run[r] EXCEPT !.at = "plan", !.file = f, !.body = content[f], !.from = 0]
     ELSE Idle

StopsOn(action) == action \in {"conflict", "blocked", "error"}

CliPlan(r) ==
  /\ run[r].at = "plan"
  /\ ledger' = Normalized(ledger)
  /\ LET action == Plan(ledger', run[r].file, run[r].body)
     IN run' = [run EXCEPT ![r] = IF StopsOn(action) THEN Idle
                                  ELSE IF action = "apply" THEN [@ EXCEPT !.at = "apply"]
                                  ELSE NextFile(r)]
  /\ UNCHANGED <<migLock, content, ran, volatile, manual, budget>>

(***************************************************************************)
(* apply(): the lock, the plan again, the row.  A refused plan, or a row   *)
(* that cannot be written, leaves nothing behind.                          *)
(***************************************************************************)
NewRow(body) == [status |-> "applying", body |-> body, done |-> 0]

ApplyBegin(r) ==
  /\ run[r].at = "apply"
  /\ migLock = Free
  /\ LET f == run[r].file
         action == Plan(ledger, f, run[r].body)
     IN IF action = "apply"
        THEN \/ /\ migLock' = r
                /\ ledger' = [ledger EXCEPT ![f] = NewRow(run[r].body)]
                /\ run' = [run EXCEPT ![r].at = "execute"]
                /\ volatile' = FALSE
                /\ UNCHANGED budget
             \/ /\ Spend("faults")
                /\ run' = [run EXCEPT ![r] = Idle]
                /\ UNCHANGED <<migLock, ledger, volatile>>
        ELSE /\ run' = [run EXCEPT ![r] = IF StopsOn(action) THEN Idle ELSE NextFile(r)]
             /\ UNCHANGED <<migLock, ledger, volatile, budget>>
  /\ UNCHANGED <<content, ran, manual>>

(***************************************************************************)
(* execute_from(): the next command, then the count of completed commands. *)
(***************************************************************************)
Release(r) == run' = [run EXCEPT ![r] = Idle] /\ migLock' = Free

Execute(r) ==
  /\ run[r].at = "execute"
  /\ run[r].from < Steps
  /\ LET f == run[r].file
     IN \/ /\ ran' = [ran EXCEPT ![f] = Append(@, <<run[r].body, run[r].from + 1>>)]
           /\ volatile' = TRUE
           /\ run' = [run EXCEPT ![r].at = "count"]
           /\ UNCHANGED budget
        \/ /\ Spend("faults")                   \* the command answers an error
           /\ run' = [run EXCEPT ![r].at = "fail"]
           /\ UNCHANGED <<ran, volatile>>
  /\ UNCHANGED <<migLock, ledger, content, manual>>

RecordFailure(r) ==
  /\ run[r].at = "fail"
  /\ \/ /\ ledger' = [ledger EXCEPT ![run[r].file].status = "failed"]
        /\ volatile' = FALSE
        /\ UNCHANGED budget
     \/ Spend("faults") /\ UNCHANGED <<ledger, volatile>>
  /\ Release(r)
  /\ UNCHANGED <<content, ran, manual>>

CountLate(index) == index
CompletedAfter(index) == index + 1

RecordCompleted(r) ==
  /\ run[r].at = "count"
  /\ \/ /\ ledger' = [ledger EXCEPT ![run[r].file].done = CompletedAfter(run[r].from)]
        /\ run' = [run EXCEPT ![r].at = "execute", ![r].from = @ + 1]
        /\ volatile' = FALSE
        /\ UNCHANGED <<migLock, budget>>
     \/ /\ Spend("faults")
        /\ Release(r)
        /\ UNCHANGED <<ledger, volatile>>
  /\ UNCHANGED <<content, ran, manual>>

RecordApplied(r) ==
  /\ run[r].at = "execute"
  /\ run[r].from = Steps
  /\ migLock' = Free
  /\ \/ /\ ledger' = [ledger EXCEPT ![run[r].file].status = "applied"]
        /\ run' = [run EXCEPT ![r] = NextFile(r)]
        /\ UNCHANGED budget
     \/ /\ Spend("faults")
        /\ run' = [run EXCEPT ![r] = Idle]
        /\ UNCHANGED ledger
  /\ UNCHANGED <<content, ran, volatile, manual>>

(***************************************************************************)
(* repair(): under the same lock, only an unsettled row, and with the body *)
(* the row recorded, not the one on disk.  The operator resumes from a     *)
(* command of its choosing; `manual' remembers a choice that does not      *)
(* match what took effect, and every MARK-APPLIED.                         *)
(***************************************************************************)
RepairsAnyRow(row) == row.status \notin {"none", ""}
MayRepair(row) == row.status \in Unsettled

ResumesDisk(row, f) == content[f]
BodyToResume(row, f) == row.body

Resume(r, f) ==
  \E from \in 0..Steps :
    /\ Acceptable(ledger[f].body)
    /\ ledger' = [ledger EXCEPT ![f].status = "applying", ![f].done = from]
    /\ run' = [run EXCEPT ![r] = [at |-> "execute", file |-> f, from |-> from,
                                  body |-> BodyToResume(ledger[f], f), cli |-> FALSE]]
    /\ migLock' = r
    /\ manual' = IF from = Len(ran[f]) THEN manual ELSE manual \cup {f}

MarkApplied(f) ==
  /\ ledger' = [ledger EXCEPT ![f].status = "applied", ![f].done = Steps]
  /\ manual' = manual \cup {f}
  /\ UNCHANGED <<run, migLock>>

Abandon(f) ==
  /\ ledger' = [ledger EXCEPT ![f].status = "abandoned"]
  /\ UNCHANGED <<run, migLock, manual>>

Repair(r) ==
  /\ run[r].at = "idle"
  /\ migLock = Free
  /\ \E f \in File : /\ MayRepair(ledger[f])
                     /\ Resume(r, f) \/ MarkApplied(f) \/ Abandon(f)
  /\ Spend("repairs")
  /\ volatile' = FALSE
  /\ UNCHANGED <<content, ran>>

(***************************************************************************)
(* The file is edited on disk, or the engine dies: the ledger writes are   *)
(* durable, an execution only once a later durable write follows it.       *)
(***************************************************************************)
Edit(f) ==
  /\ Spend("edits")
  /\ content' = [content EXCEPT ![f] = @ + 1]
  /\ UNCHANGED <<migLock, ledger, run, ran, volatile, manual>>

EngineCrash ==
  /\ Spend("faults")
  /\ migLock' = Free
  /\ run' = [r \in Runner |-> Idle]
  /\ volatile' = FALSE
  /\ \/ UNCHANGED ran
     \/ /\ volatile
        /\ \E f \in File : /\ Blocker(ledger) = {f}
                           /\ ran' = [ran EXCEPT ![f] = SubSeq(@, 1, Len(@) - 1)]
  /\ UNCHANGED <<ledger, content, manual>>

MigNext ==
  \/ \E r \in Runner : \/ CliStart(r) \/ CliPlan(r) \/ ApplyBegin(r) \/ Execute(r)
                       \/ RecordFailure(r) \/ RecordCompleted(r) \/ RecordApplied(r)
                       \/ Repair(r)
  \/ \E f \in File : Edit(f)
  \/ EngineCrash

MigSpec == MigInit /\ [][MigNext]_migVars

\* The variables have their types.
MigTypeOK ==
  /\ migLock \in Runner \cup {Free}
  /\ \A f \in File : /\ ledger[f].status \in Unsettled \cup {"none", "", "applied", "abandoned"}
                     /\ ledger[f].done \in 0..Steps
  /\ \A r \in Runner : run[r].at \in {"idle", "plan", "apply", "execute", "count", "fail"}
  /\ manual \subseteq File

\* The ledger never loses track of what ran: for every file an operator has
\* not vouched for, the effects in the store are the first commands of the
\* recorded body, each once and in order, as many as the ledger counts or one
\* more; and an applied file ran all of them.  Crashes, failed commands,
\* failed ledger writes, edits on disk, reviewed resumes and racing CLIs
\* included (apply, execute_from and repair of migrations.rs).
LedgerTracks ==
  \A f \in File \ manual :
    LET n == Len(ran[f])
    IN /\ ran[f] = InOrderOf(ledger[f].body, n)
       /\ ledger[f] = Legacy \/ n \in {ledger[f].done, ledger[f].done + 1}
       /\ ledger[f].status = "applied" => n = Steps

\* One unsettled migration stops all others, and the files of one directory
\* are recorded in name order: no row exists after a file that is not applied
\* (blocker and plan, against CLIs that plan before they take the lock).
OneAtATime ==
  /\ Cardinality(Blocker(ledger)) <= 1
  /\ \A f, g \in File : f < g /\ ledger[g].status # "none" => ledger[f].status \in {"applied", ""}

\* A settled row is final: once applied or abandoned, neither its state nor
\* its body changes again, and no command of it takes effect (repair refuses
\* it, plan answers already_applied or conflict).
LedgerStep ==
  \A f \in File : ledger[f].status \in {"applied", "abandoned"}
    => ledger'[f] = ledger[f] /\ ran'[f] = ran[f]
=============================================================================
