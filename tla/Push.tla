-------------------------------- MODULE Push --------------------------------
(***************************************************************************)
(* Push notifications (src/src/push/): the registry of devices, the        *)
(* durable outbox that a send fills, and the worker that empties it.  The  *)
(* worker selects a batch, asks the providers, and only then applies the   *)
(* outcomes, one durable write each; devices register, move and leave      *)
(* meanwhile, sends go on, and a crash may come between any two writes.    *)
(* Tables (push.devices, push.outbox, push.credentials) survive a crash;   *)
(* the worker's batch and its cache of sinks do not.                       *)
(***************************************************************************)
EXTENDS Integers, FiniteSets, FiniteSetsExt

CONSTANTS
  Subject, Token,
  Sender,         \* callers that register devices or send
  MaxPerSubject,  \* MAX_DEVICES_PER_SUBJECT
  MaxOutbox,      \* MAX_OUTBOX_ROWS
  MaxAttempts,    \* MAX_ATTEMPTS
  MaxDead,        \* MAX_DEAD_LETTERS
  MaxSends,       \* bound: outbox rows ever written
  MaxPushFaults   \* bound: crashes and failed writes

VARIABLES
  device,     \* device[t]: the row of token t in push.devices, or NoDevice
  outbox,     \* the rows of push.outbox, by issue number
  cred,       \* push.credentials: the version in the plain and the encrypted column
  hasKey,     \* store.encryption().has_active_key()
  registry,   \* who holds push_device_registry_guard
  enqueue,    \* who holds push_enqueue_guard
  caller,     \* calls in progress
  worker,     \* the delivery worker
  issued,     \* outbox rows ever written
  tries,      \* tries[i]: times row i was handed to a provider (ghost)
  taken,      \* rows a provider accepted (ghost)
  faults

pushVars == <<device, outbox, cred, hasKey, registry, enqueue, caller, worker,
              issued, tries, taken, faults>>

NoDevice == [subject |-> "", active |-> FALSE]
Free == "free"
NoCaller == [at |-> "idle", subject |-> "", token |-> "", devices |-> {}]
NoWorker == [at |-> "idle", jobs |-> {}, results |-> <<>>, sink |-> 0, using |-> 0, half |-> 0]
OutRow == 1..MaxSends

PushInit ==
  /\ device = [t \in Token |-> NoDevice]
  /\ outbox = <<>>
  /\ cred = [plain |-> 1, enc |-> 0] /\ hasKey = FALSE
  /\ registry = Free /\ enqueue = Free
  /\ caller = [c \in Sender |-> NoCaller]
  /\ worker = NoWorker
  /\ issued = 0 /\ faults = 0 /\ taken = {}
  /\ tries = [i \in OutRow |-> 0]

-----------------------------------------------------------------------------
(* The registry of devices                                                 *)

ActiveDevices(s) == {t \in Token : device[t].subject = s /\ device[t].active}

\* ensure_tables with ensure_encrypted_credential_columns and
\* migrate_plaintext_credential_secrets: a plain secret moves once there is a key.
Migrated(cr) ==
  IF hasKey /\ cr.plain # 0 /\ cr.enc = 0 THEN [plain |-> 0, enc |-> cr.plain] ELSE cr

\* Variant: the registry is not locked between the look and the write.
LooksUnlocked(c) == UNCHANGED registry

\* push_device_registry_guard.
LocksRegistry(c) == registry = Free /\ registry' = c

\* register_device under the registry guard, up to its decision: a user may not
\* take another subject's token, and a subject may not exceed its quota.
RegisterLook(c, s, t, trusted) ==
  LET known == device[t] # NoDevice
      gains == ~known \/ device[t].subject # s \/ ~device[t].active
      refused == \/ known /\ ~trusted /\ device[t].subject # s
                 \/ gains /\ Cardinality(ActiveDevices(s)) >= MaxPerSubject
  IN
  /\ caller[c] = NoCaller /\ LocksRegistry(c)
  /\ cred' = Migrated(cred)
  /\ caller' = [caller EXCEPT ![c] =
       [NoCaller EXCEPT !.at = IF refused THEN "leave" ELSE "register", !.subject = s, !.token = t]]
  /\ UNCHANGED <<device, outbox, hasKey, enqueue, worker, issued, tries, taken, faults>>

\* ... and its write.
RegisterWrite(c) ==
  /\ caller[c].at \in {"register", "leave"}
  /\ IF caller[c].at = "leave" THEN UNCHANGED device
     ELSE device' = [device EXCEPT ![caller[c].token] =
                       [subject |-> caller[c].subject, active |-> TRUE]]
  /\ registry' = IF registry = c THEN Free ELSE registry
  /\ caller' = [caller EXCEPT ![c] = NoCaller]
  /\ UNCHANGED <<outbox, cred, hasKey, enqueue, worker, issued, tries, taken, faults>>

\* delete_device and its forms for the operator and for a token.
DeleteDevice(t) ==
  /\ registry = Free /\ device[t] # NoDevice
  /\ device' = [device EXCEPT ![t] = NoDevice]
  /\ UNCHANGED <<outbox, cred, hasKey, registry, enqueue, caller, worker, issued, tries, taken, faults>>

-----------------------------------------------------------------------------
(* Credentials                                                             *)

\* set_vapid_credentials, rotate_vapid_credentials: the secret goes to the
\* encrypted column and the plain one is emptied.
StoredSecret(version) == [plain |-> 0, enc |-> version]

\* disable_vapid_credentials, clear_apns_credentials.
NoSecret == [plain |-> 0, enc |-> 0]

\* update_apns_credentials: a new secret only with a key.
SetCredentials ==
  /\ hasKey /\ cred.enc < 2
  /\ cred' = StoredSecret(cred.enc + 1)
  /\ UNCHANGED <<device, outbox, hasKey, registry, enqueue, caller, worker, issued, tries, taken, faults>>

ClearCredentials ==
  /\ cred # NoSecret
  /\ cred' = NoSecret
  /\ UNCHANGED <<device, outbox, hasKey, registry, enqueue, caller, worker, issued, tries, taken, faults>>

EncInit ==
  /\ ~hasKey /\ hasKey' = TRUE
  /\ UNCHANGED <<device, outbox, cred, registry, enqueue, caller, worker, issued, tries, taken, faults>>

\* get_apns_credentials, get_vapid_credentials: the encrypted one first.
Credential == IF cred.enc # 0 THEN cred.enc ELSE cred.plain

-----------------------------------------------------------------------------
(* Sending                                                                 *)

\* enqueue_to_subjects: the active devices of the subjects, without a lock.
SendResolve(c, subjects) ==
  LET found == UNION {ActiveDevices(s) : s \in subjects} IN
  /\ caller[c] = NoCaller /\ found # {} /\ issued + Cardinality(found) <= MaxSends
  /\ cred' = Migrated(cred)
  /\ caller' = [caller EXCEPT ![c] = [NoCaller EXCEPT !.at = "count", !.devices = found]]
  /\ UNCHANGED <<device, outbox, hasKey, registry, enqueue, worker, issued, tries, taken, faults>>

\* push_enqueue_guard.
LocksEnqueue(c) == enqueue = Free /\ enqueue' = c

\* The rows are counted under the enqueue guard ...
SendCount(c) ==
  /\ caller[c].at = "count" /\ LocksEnqueue(c)
  /\ caller' = [caller EXCEPT ![c].at =
       IF Cardinality(caller[c].devices) > MaxOutbox - Cardinality(DOMAIN outbox)
       THEN "full" ELSE "insert"]
  /\ UNCHANGED <<device, outbox, cred, hasKey, registry, worker, issued, tries, taken, faults>>

\* ... and inserted as one mutation, or not at all.
SendInsert(c) ==
  LET targets == caller[c].devices
      Order == CHOOSE f \in [1..Cardinality(targets) -> targets] :
                 \A t \in targets : \E i \in DOMAIN f : f[i] = t
      fresh == (issued + 1)..(issued + Cardinality(targets))
  IN
  /\ caller[c].at \in {"insert", "full"} /\ issued + Cardinality(targets) <= MaxSends
  /\ IF caller[c].at = "full" THEN UNCHANGED <<outbox, issued>>
     ELSE /\ outbox' = [i \in DOMAIN outbox \cup fresh |->
                 IF i \in fresh
                 THEN [token |-> Order[i - issued], attempts |-> 0, state |-> "pending", due |-> TRUE]
                 ELSE outbox[i]]
          /\ issued' = issued + Cardinality(targets)
  /\ enqueue' = IF enqueue = c THEN Free ELSE enqueue
  /\ caller' = [caller EXCEPT ![c] = NoCaller]
  /\ UNCHANGED <<device, cred, hasKey, registry, worker, tries, taken, faults>>

-----------------------------------------------------------------------------
(* The delivery worker                                                     *)

Due == {i \in DOMAIN outbox : outbox[i].state = "pending" /\ outbox[i].due}

\* The back-off of a row has passed.
BackoffEnds(i) ==
  /\ i \in DOMAIN outbox /\ ~outbox[i].due
  /\ outbox' = [outbox EXCEPT ![i].due = TRUE]
  /\ UNCHANGED <<device, cred, hasKey, registry, enqueue, caller, worker, issued, tries, taken, faults>>

\* Variant: a cached sink is used whatever the credentials are now.
CachedSink == IF worker.sink # 0 THEN worker.sink ELSE Credential

\* resolve_sink: the cached sink only while the fingerprint is that of the
\* credentials; 0 when there are none.
ResolveSink == IF worker.sink = Credential THEN worker.sink ELSE Credential

\* process_pending: the rows that are due.  They die at once without credentials, and
\* also with ones that cannot be read or make no sink: that error is not retried.
SelectBatch ==
  /\ worker.at = "idle" /\ Due # {}
  /\ \/ /\ outbox' = [i \in DOMAIN outbox |->
               IF i \in Due THEN [outbox[i] EXCEPT !.state = "dead"] ELSE outbox[i]]
        /\ worker' = [NoWorker EXCEPT !.at = "prune", !.sink = IF Credential = 0 THEN 0 ELSE worker.sink]
     \/ /\ Credential # 0
        /\ worker' = [NoWorker EXCEPT !.at = "deliver", !.jobs = Due,
                                      !.sink = ResolveSink, !.using = Credential]
        /\ UNCHANGED outbox
  /\ UNCHANGED <<device, cred, hasKey, registry, enqueue, caller, issued, tries, taken, faults>>

\* classify_status_with_diagnostic: what an answer of APNs means.
ApnsClassify(status) ==
  CASE status = "200" -> "ok"
    [] status \in {"410", "400 BadDeviceToken"} -> "gone"
    [] status \in {"400", "403", "404", "3xx"} -> "permanent"
    [] OTHER -> "retry"

\* classify_web_push: the same for a Web Push service.
WebClassify(status) ==
  CASE status = "200" -> "ok"
    [] status \in {"404", "410"} -> "gone"
    [] status \in {"400", "400 BadDeviceToken", "403", "3xx"} -> "permanent"
    [] OTHER -> "retry"

Status == {"200", "3xx", "400", "400 BadDeviceToken", "403", "404", "410", "429", "5xx"}

\* The deliver of each sink: a malformed target is gone without a request, a
\* body that is too large or a key that does not sign is permanent, and a
\* request that fails on the way or gets no answer is retried.
ApnsDeliver == {"gone", "permanent", "retry"} \cup {ApnsClassify(status) : status \in Status}
WebDeliver == {"gone", "permanent", "retry"} \cup {WebClassify(status) : status \in Status}
Answer == ApnsDeliver \cup WebDeliver

\* The provider answers one of the requests under way.
Deliver(i, answer) ==
  /\ worker.at = "deliver" /\ i \in worker.jobs \ DOMAIN worker.results
  /\ LET results == [j \in DOMAIN worker.results \cup {i} |->
                       IF j = i THEN answer ELSE worker.results[j]] IN
     worker' = [worker EXCEPT !.results = results,
                              !.at = IF DOMAIN results = worker.jobs THEN "apply" ELSE "deliver"]
  /\ tries' = [tries EXCEPT ![i] = @ + 1]
  /\ taken' = IF answer = "ok" THEN taken \cup {i} ELSE taken
  /\ UNCHANGED <<device, outbox, cred, hasKey, registry, enqueue, caller, issued, faults>>

\* decide.
Decision(attempts, answer) ==
  CASE answer = "ok" -> "delivered"
    [] answer = "gone" -> "disable"
    [] answer = "permanent" -> "dead"
    [] OTHER -> IF attempts + 1 >= MaxAttempts THEN "dead" ELSE "retry"

NextJob(i) == LET rest == DOMAIN worker.results \ {i} IN
  [worker EXCEPT !.results = [j \in rest |-> worker.results[j]], !.half = 0,
                 !.at = IF rest = {} THEN "prune" ELSE "apply"]

Removed(rows) == [j \in DOMAIN outbox \ rows |-> outbox[j]]

\* Variant: a failed attempt takes the row out of the outbox.
DropsRow(i, done) == Removed({i})

\* The outbox after apply of a decision that is not to disable the device.
Applied(i, done) ==
  CASE done = "delivered" -> Removed({i})
    [] done = "retry" -> [outbox EXCEPT ![i].attempts = @ + 1, ![i].due = FALSE]
    [] OTHER -> [outbox EXCEPT ![i].attempts = @ + 1, ![i].state = "dead"]

\* apply, for one outcome of the batch.
Apply(i) ==
  /\ worker.at = "apply" /\ worker.half = 0 /\ i \in DOMAIN worker.results
  /\ LET done == Decision(outbox[i].attempts, worker.results[i]) IN
     /\ done # "disable"
     /\ outbox' = Applied(i, done)
  /\ worker' = NextJob(i)
  /\ UNCHANGED <<device, cred, hasKey, registry, enqueue, caller, issued, tries, taken, faults>>

\* apply of DisableDevice: first the device, whoever registered it by now ...
DisableDevice(i) ==
  /\ worker.at = "apply" /\ worker.half = 0 /\ i \in DOMAIN worker.results
  /\ worker.results[i] = "gone" /\ LocksRegistry("worker")
  /\ LET t == outbox[i].token IN
     device' = IF device[t] = NoDevice THEN device ELSE [device EXCEPT ![t].active = FALSE]
  /\ worker' = [worker EXCEPT !.half = i]
  /\ UNCHANGED <<outbox, cred, hasKey, enqueue, caller, issued, tries, taken, faults>>

\* ... then the row.
DisableRow ==
  /\ worker.half # 0
  /\ outbox' = [outbox EXCEPT ![worker.half].state = "dead"]
  /\ registry' = IF registry = "worker" THEN Free ELSE registry
  /\ worker' = NextJob(worker.half)
  /\ UNCHANGED <<device, cred, hasKey, enqueue, caller, issued, tries, taken, faults>>

Dead == {i \in DOMAIN outbox : outbox[i].state = "dead"}

\* prune_dead_letters_to: the oldest dead rows beyond the number kept.
Pruned == {i \in Dead : Cardinality({j \in Dead : j <= i}) <= Cardinality(Dead) - MaxDead}

PruneDeadLetters ==
  /\ worker.at = "prune"
  /\ outbox' = Removed(Pruned)
  /\ worker' = [NoWorker EXCEPT !.sink = worker.sink]
  /\ UNCHANGED <<device, cred, hasKey, registry, enqueue, caller, issued, tries, taken, faults>>

\* A write of the worker fails: process_pending returns, the other outcomes of
\* the batch are forgotten, and the rows are still pending.
WriteFails ==
  /\ worker.at = "apply" /\ faults < MaxPushFaults
  /\ faults' = faults + 1
  /\ worker' = [NoWorker EXCEPT !.sink = worker.sink]
  /\ registry' = IF registry = "worker" THEN Free ELSE registry
  /\ UNCHANGED <<device, outbox, cred, hasKey, enqueue, caller, issued, tries, taken>>

\* The process dies; the tables are durable.
PushCrash ==
  /\ faults < MaxPushFaults
  /\ faults' = faults + 1
  /\ worker' = NoWorker /\ registry' = Free /\ enqueue' = Free
  /\ caller' = [c \in Sender |-> NoCaller]
  /\ UNCHANGED <<device, outbox, cred, hasKey, issued, tries, taken>>

PushNext ==
  \/ \E c \in Sender :
       \/ \E s \in Subject, t \in Token, trusted \in BOOLEAN : RegisterLook(c, s, t, trusted)
       \/ RegisterWrite(c)
       \/ \E subjects \in SUBSET Subject : SendResolve(c, subjects)
       \/ SendCount(c) \/ SendInsert(c)
  \/ \E t \in Token : DeleteDevice(t)
  \/ SetCredentials \/ ClearCredentials \/ EncInit
  \/ \E i \in OutRow :
       \/ BackoffEnds(i) \/ Apply(i) \/ DisableDevice(i)
       \/ \E answer \in Answer : Deliver(i, answer)
  \/ SelectBatch \/ DisableRow \/ PruneDeadLetters \/ WriteFails \/ PushCrash

PushSpec == PushInit /\ [][PushNext]_pushVars

-----------------------------------------------------------------------------
(* Properties                                                              *)

\* The variables have their types.
PushTypeOK ==
  /\ \A t \in Token : device[t].subject \in Subject \cup {""}
  /\ DOMAIN outbox \subseteq 1..issued
  /\ \A i \in DOMAIN outbox : outbox[i].attempts \in 0..MaxAttempts
  /\ worker.jobs \subseteq 1..issued /\ DOMAIN worker.results \subseteq worker.jobs

\* No subject has more active devices than its quota, however registrations and
\* the worker's disabling interleave, and the outbox never holds more rows than
\* its capacity, however many sends are under way (register_device,
\* enqueue_to_subjects).
PushBounded ==
  /\ \A s \in Subject : Cardinality(ActiveDevices(s)) <= MaxPerSubject
  /\ Cardinality(DOMAIN outbox) <= MaxOutbox

\* A notification is handed to the provider at most MaxAttempts times, and once
\* more for each crash or failed write; and always with the credentials that
\* were stored when its batch was selected (decide, resolve_sink).
AttemptsBounded ==
  /\ \A i \in OutRow : tries[i] <= MaxAttempts + faults
  /\ worker.at = "deliver" => worker.sink = worker.using

\* A notification leaves the outbox only when a provider accepted it or as one of
\* the oldest dead letters beyond those kept: no crash or failure loses one, and
\* the newest dead letters stay.
OutboxStep ==
  \A i \in DOMAIN outbox : i \notin DOMAIN outbox' =>
    \/ i \in taken
    \/ i \in Dead /\ MaxDead <= Cardinality({j \in Dead : j > i})

=============================================================================
