------------------------------ MODULE Embedded ------------------------------
(***************************************************************************)
(* The pipelines of the embedded client (src/src/lib.rs,                   *)
(* src/src/embedded.rs).  A pipeline is pushed command by command, then    *)
(* run: a pipeline of raw argument lists goes to the command executor as a *)
(* whole; one with a typed command runs command by command, the reads of   *)
(* one shard in a run under one shard lock and at the time the pipeline    *)
(* began.  Another client, the clock, a failing journal and a shutdown     *)
(* interleave with it.                                                     *)
(*                                                                         *)
(* The typed commands (src/src/command.rs and the builders of              *)
(* src/src/embedded.rs) come first: which argument lists become a typed    *)
(* command, which argument list a typed command is executed as, and how    *)
(* a command is classified.  A token is a string; a number is a token of   *)
(* Numbers, and "junk" is one that is not UTF-8.                           *)
(***************************************************************************)
EXTENDS Integers, Sequences, SequencesExt, FiniteSets, Folds

-----------------------------------------------------------------------------
(* Typed commands                                                          *)

\* tokens that parse as a number, and the number they are rendered as
Rendered == [zero |-> "zero", one |-> "one", leading |-> "one", minus |-> "minus"]   \* 0, 1, 01, -1
Numbers == DOMAIN Rendered
Unsigned == Numbers \ {"minus"}
Junk == "junk"
SetWords == {"NX", "XX", "KEEPTTL"}
SetTimes == {"EX", "PX"}
GeoUnits == {"m", "km", "mi", "ft"}
XaddWords == {"NOMKSTREAM", "MAXLEN", "MINID"}

(* The arguments of each command: key, name (field, member or channel), arg, int, uint, float; *)
(* a form in Rest stands for the rest of the arguments.                                        *)
StringForms ==
  [GET |-> <<"key">>, SET |-> <<"key", "arg", "options">>, GETSET |-> <<"key", "arg">>, SETNX |-> <<"key", "arg">>,
   SETEX |-> <<"key", "uint", "arg">>, PSETEX |-> <<"key", "uint", "arg">>, MGET |-> <<"keys">>,
   MSET |-> <<"pairs">>, MSETNX |-> <<"pairs">>, APPEND |-> <<"key", "arg">>, STRLEN |-> <<"key">>,
   INCR |-> <<"key">>, DECR |-> <<"key">>, INCRBY |-> <<"key", "int">>, DECRBY |-> <<"key", "int">>]
KeyForms ==
  [DEL |-> <<"keys">>, UNLINK |-> <<"keys">>, EXISTS |-> <<"keys">>, EXPIRE |-> <<"key", "uint">>, TTL |-> <<"key">>,
   PTTL |-> <<"key">>, PERSIST |-> <<"key">>, TYPE |-> <<"key">>, RENAME |-> <<"key", "key">>,
   RENAMENX |-> <<"key", "key">>]
ListForms ==
  [LPUSH |-> <<"key", "args">>, RPUSH |-> <<"key", "args">>, LPOP |-> <<"key">>, RPOP |-> <<"key">>,
   LLEN |-> <<"key">>, LINDEX |-> <<"key", "int">>, LRANGE |-> <<"key", "int", "int">>]
HashForms ==
  [HSET |-> <<"key", "name", "arg">>, HINCRBY |-> <<"key", "name", "int">>, HGET |-> <<"key", "name">>,
   HMGET |-> <<"key", "names">>, HDEL |-> <<"key", "names">>, HEXISTS |-> <<"key", "name">>, HLEN |-> <<"key">>,
   HGETALL |-> <<"key">>]
SetForms ==
  [SADD |-> <<"key", "names">>, SREM |-> <<"key", "names">>, SMEMBERS |-> <<"key">>, SISMEMBER |-> <<"key", "name">>,
   SCARD |-> <<"key">>, SPOP |-> <<"key">>, SUNION |-> <<"keys">>, SINTER |-> <<"keys">>, SDIFF |-> <<"keys">>]
SortedSetForms ==
  [ZADD |-> <<"key", "float", "name">>, ZREM |-> <<"key", "names">>, ZCARD |-> <<"key">>, ZSCORE |-> <<"key", "name">>,
   ZINCRBY |-> <<"key", "float", "name">>, ZCOUNT |-> <<"key", "arg", "arg">>,
   ZRANGE |-> <<"key", "int", "int", "withscores">>]
OtherForms ==
  [PING |-> <<>>, PUBLISH |-> <<"name", "arg">>, DBSIZE |-> <<>>, FLUSHDB |-> <<>>, FLUSHALL |-> <<>>,
   KEYS |-> <<"name">>, RANDOMKEY |-> <<>>, GEOADD |-> <<"key", "places">>, GEOPOS |-> <<"key", "names">>,
   GEODIST |-> <<"key", "name", "name", "unit">>, XADD |-> <<"key", "id", "pairs">>]
Families == <<StringForms, KeyForms, ListForms, HashForms, SetForms, SortedSetForms, OtherForms>>
Typed == UNION {DOMAIN Families[i] : i \in DOMAIN Families}
Form(name) == LET i == CHOOSE i \in DOMAIN Families : name \in DOMAIN Families[i] IN Families[i][name]
Rest == {"keys", "names", "args", "pairs", "places", "options", "withscores", "unit"}

\* prepare_owned_argv has no typed command for these: they stay raw argument lists
Unprepared == {"DEL", "UNLINK", "MSETNX", "RENAME", "RENAMENX", "HDEL", "SREM", "ZREM", "FLUSHDB", "FLUSHALL", "KEYS",
               "RANDOMKEY"}

NumberFits(kind, a) == CASE kind = "uint" -> a \in Unsigned [] kind \in {"int", "float"} -> a \in Numbers [] OTHER -> TRUE

\* parse_set_options: NX, XX and KEEPTTL alone, EX and PX with a number; anything else is no typed SET
RECURSIVE OptionsFit(_)
OptionsFit(args) ==
  \/ args = <<>>
  \/ args[1] \in SetWords /\ OptionsFit(Tail(args))
  \/ Len(args) >= 2 /\ args[1] \in SetTimes /\ args[2] \in Unsigned /\ OptionsFit(Tail(Tail(args)))

\* the rest of the arguments has the form; what has not is left to the generic command layer
RestFits(kind, args) ==
  CASE kind \in {"keys", "names", "args"} -> Len(args) >= 1
    [] kind = "pairs" -> Len(args) >= 2 /\ Len(args) % 2 = 0
    [] kind = "places" -> Len(args) >= 3 /\ Len(args) % 3 = 0
    [] kind = "options" -> OptionsFit(args)
    [] kind = "withscores" -> args = <<>> \/ args = <<"WITHSCORES">>
    [] kind = "unit" -> args = <<>> \/ (Len(args) = 1 /\ args[1] \in GeoUnits)

Fixed(form) == SelectSeq(form, LAMBDA kind : kind \notin Rest)
RestOf(form) == IF form # <<>> /\ Last(form) \in Rest THEN Last(form) ELSE "none"

\* the number of arguments and their keywords select the typed form
Selects(name, args) ==
  LET form == Form(name)
      n == Len(Fixed(form))
  IN /\ IF RestOf(form) = "none" THEN Len(args) = n ELSE Len(args) >= n /\ RestFits(RestOf(form), SubSeq(args, n + 1, Len(args)))
     /\ name = "XADD" => args[2] \notin XaddWords

\* its numbers must parse; GEOADD's are two of every three
Parses(name, args) ==
  LET form == Fixed(Form(name))
  IN /\ \A i \in 1..Len(form) : NumberFits(form[i], args[i])
     /\ name = "GEOADD" => \A i \in 2..Len(args) : i % 3 # 1 => args[i] \in Numbers

Raw(argv) == [form |-> "raw", argv |-> argv]

\* a SET whose options it does not know is typed without them
DropsOptions(argv) ==
  IF argv[1] = "SET" /\ Len(argv) >= 3 THEN [form |-> "typed", argv |-> SubSeq(argv, 1, 3)] ELSE Raw(argv)

Prepare(argv) ==
  LET name == argv[1]
      args == Tail(argv)
  IN IF name \notin Typed \ Unprepared \/ ~Selects(name, args) THEN Raw(argv)
     ELSE IF ~Parses(name, args) THEN [form |-> "error", argv |-> argv]
     ELSE [form |-> "typed", argv |-> argv]

\* write_argv: numbers are rendered again, GEODIST always names its unit
RenderedArg(kind, a) == IF kind \in {"int", "uint", "float"} THEN Rendered[a] ELSE a
WriteArgv(command) ==
  LET argv == command.argv
      form == Fixed(Form(argv[1]))
      rest == RestOf(Form(argv[1]))
      arg(i) == IF i <= Len(form) THEN RenderedArg(form[i], argv[i + 1])
                ELSE IF (rest = "places" /\ i % 3 # 1) \/ (rest = "options" /\ i - 1 > Len(form) /\ argv[i] \in SetTimes)
                THEN Rendered[argv[i + 1]]
                ELSE argv[i + 1]
      args == [i \in 1..Len(argv) - 1 |-> arg(i)]
  IN IF command.form = "raw" THEN argv
     ELSE <<argv[1]>> \o args \o (IF rest = "unit" /\ Len(args) = 3 THEN <<"m">> ELSE <<>>)

\* Command::is_read
Reads == {"PING", "DBSIZE", "KEYS", "RANDOMKEY", "GET", "MGET", "STRLEN", "EXISTS", "TTL", "PTTL", "TYPE", "LLEN", "LINDEX",
          "LRANGE", "HGET", "HMGET", "HEXISTS", "HLEN", "HGETALL", "SISMEMBER", "SCARD", "SMEMBERS", "SUNION",
          "SINTER", "SDIFF", "ZSCORE", "ZCARD", "ZCOUNT", "ZRANGE", "GEOPOS", "GEODIST"}
\* is_write: everything but the commands of its own list
NotWrites == {"PING", "DBSIZE", "KEYS", "RANDOMKEY", "GET", "MGET", "STRLEN", "EXISTS", "TTL", "PTTL", "TYPE", "LLEN",
              "LINDEX", "LRANGE", "HGET", "HMGET", "HEXISTS", "HLEN", "HGETALL", "SISMEMBER", "SCARD", "SMEMBERS",
              "SUNION", "SINTER", "SDIFF", "ZSCORE", "ZCARD", "ZCOUNT", "ZRANGE", "GEOPOS", "GEODIST"}
Writes == Typed \ NotWrites

\* command_kind
Subscribing == {"SUBSCRIBE", "UNSUBSCRIBE", "PSUBSCRIBE", "PUNSUBSCRIBE", "KSUB", "KUNSUB"}
BlockingKind == {"BLPOP", "BRPOP", "BLMOVE", "BZPOPMIN", "BZPOPMAX", "XREAD", "XREADGROUP"}
TransactionKind == {"MULTI", "EXEC", "DISCARD", "WATCH", "UNWATCH"}
Kind(name) ==
  CASE name \in Subscribing -> "subscribe"
    [] name = "PUBLISH" -> "publish"
    [] name \in BlockingKind -> "blocking"
    [] name \in TransactionKind -> "transaction"
    [] name = "AUTH" -> "auth"
    [] OTHER -> "general"

\* validate_utf8_identity_args: the argument positions that must be UTF-8
EveryOther(from, argv) == {i \in from..Len(argv) : (i - from) % 2 = 0}
AllNamed == {"MGET", "DEL", "UNLINK", "EXISTS", "SUNION", "SINTER", "SDIFF", "KEYS", "WATCH", "HGET", "HMGET", "HDEL",
             "HEXISTS", "HINCRBY", "HINCRBYFLOAT", "SADD", "SREM", "SISMEMBER", "SRANDMEMBER", "SPOP", "ZREM", "ZSCORE",
             "ZINCRBY", "GEOPOS", "GEODIST"}
ZaddWords == {"NX", "XX", "GT", "LT", "CH"}
RECURSIVE AfterWords(_, _)
AfterWords(argv, i) == IF i <= Len(argv) /\ argv[i] \in ZaddWords THEN AfterWords(argv, i + 1) ELSE i
RECURSIVE AfterXaddWords(_, _)
AfterXaddWords(argv, i) ==
  IF i > Len(argv) THEN i
  ELSE IF argv[i] = "MAXLEN"
  THEN AfterXaddWords(argv, i + 2 + IF i + 2 <= Len(argv) /\ argv[i + 1] = "~" THEN 1 ELSE 0)
  ELSE IF argv[i] = "NOMKSTREAM" THEN AfterXaddWords(argv, i + 1)
  ELSE i

Identities(argv) ==
  LET name == argv[1]
      key == {2} \intersect (1..Len(argv))
  IN CASE name \in AllNamed \/ Kind(name) \in {"subscribe", "publish"} -> 2..Len(argv)
       [] name \in {"MSET", "MSETNX"} -> EveryOther(2, argv)
       [] name \in {"HSET", "HMSET"} -> key \union EveryOther(3, argv)
       [] name = "ZADD" -> key \union {i \in EveryOther(AfterWords(argv, 3) + 1, argv) : i <= Len(argv)}
       [] name = "GEOADD" -> key \union {i \in 5..Len(argv) : (i - 5) % 3 = 0}
       [] name = "XADD" -> key \union EveryOther(AfterXaddWords(argv, 3) + 1, argv)
       [] OTHER -> key
Utf8Valid(argv) == argv[1] # Junk /\ \A i \in Identities(argv) : argv[i] # Junk

\* validate_embedded_command
Accepts(argv) == Utf8Valid(argv) /\ Kind(argv[1]) \notin {"subscribe", "blocking"}

---------------------------------------------------------------------------
(* What the forms must satisfy, for a set of argument lists.                *)
\* two argument lists the generic command layer treats alike: numbers by value, metres by default
Same(a, b) ==
  LET num(t) == IF t \in Numbers THEN Rendered[t] ELSE t
      pad(s) == IF s[1] = "GEODIST" /\ Len(s) = 4 THEN Append(s, "m") ELSE s
  IN [i \in DOMAIN pad(a) |-> num(pad(a)[i])] = [i \in DOMAIN pad(b) |-> num(pad(b)[i])]

\* the positions of a typed command's keys, fields, members and channels
NamedPositions(argv) ==
  LET form == Fixed(Form(argv[1]))
      rest == RestOf(Form(argv[1]))
      n == Len(form) + 1
  IN {i + 1 : i \in {j \in 1..Len(form) : form[j] \in {"key", "name"}}}
     \union (IF rest \in {"keys", "names"} THEN n + 1..Len(argv)
             ELSE IF rest = "pairs" THEN EveryOther(n + 1, argv)
             ELSE IF rest = "places" THEN {i \in n + 1..Len(argv) : (i - n) % 3 = 0} ELSE {})

\* A prepared command runs as the argument list it was prepared from, is a write in one of the two
\* lists exactly when it is not a read in the other, and no key, field, member or channel of a typed
\* command escapes the UTF-8 check (the new key of RENAME and RENAMENX does); a command whose reply
\* would block or subscribe is not accepted.
FormAgrees(argv) ==
  LET command == Prepare(argv)
  IN /\ command.form # "error" => Same(WriteArgv(command), argv)
     /\ argv[1] \in Typed => (argv[1] \in Reads <=> argv[1] \notin Writes)
     /\ (command.form = "typed" /\ Accepts(argv)) => \A i \in NamedPositions(argv) : argv[i] # Junk

-----------------------------------------------------------------------------
(* Pipelines                                                               *)

CONSTANTS Pipelines,     \* sequences of argument lists
          Argvs,         \* argument lists offered to push_argv alone
          EmbShard,      \* shard of each key
          Reserved,      \* keys the store keeps for itself
          EmbExpiring,   \* keys that start with a deadline
          MaxEmbClock, MaxOthers

VARIABLES embDb,      \* key -> [kind, val, dl]
          embClock,
          pipe,       \* the prepared commands
          mode,       \* "building", "typed", "raw" or "ended"
          collect,    \* replies are collected
          at,         \* next command
          began,      \* the `now` of the pipeline
          outs,       \* replies so far: [argv, reply, db, time, multi]
          ended,      \* "none", "ok", "error" or "unsupported"
          embJournal, \* the commands journaled
          multi, queued,   \* the client session's MULTI
          published,
          embUp, accepting,
          others,     \* writes of the other client
          offered     \* the argument list last offered, <<>> for none

embVars == <<embDb, embClock, pipe, mode, collect, at, began, outs, ended, embJournal, multi, queued, published, embUp,
             accepting, others, offered>>

EmbKeys == DOMAIN EmbShard
NoEntry == [kind |-> "none", val |-> 0, dl |-> 0]
\* is_expired_at; dl is the first tick after the deadline, 0 for none
Due(e, now) == e.dl # 0 /\ e.dl <= now
Seen(db, k, now) == IF Due(db[k], now) THEN NoEntry ELSE db[k]
FirstDb == [k \in EmbKeys |-> IF k \in EmbExpiring THEN [kind |-> "str", val |-> 1, dl |-> 1] ELSE NoEntry]

---------------------------------------------------------------------------
(* The command layer.                                                       *)
Nil == <<"nil", 0>>
WrongType == <<"error", 0>>
Queued == <<"queued", 0>>
Panic == <<"panic", 0>>
Okay == <<"ok", 0>>
Num(n) == <<"number", n>>
ReadReply(argv, db, now) ==
  LET e == Seen(db, argv[2], now)
  IN CASE argv[1] = "GET" -> IF e.kind = "str" THEN Num(e.val) ELSE Nil
       [] argv[1] = "EXISTS" -> Num(Cardinality({i \in 2..Len(argv) : Seen(db, argv[i], now).kind # "none"}))
       [] argv[1] = "HGET" -> IF e.kind = "hash" THEN Num(e.val) ELSE Nil
       [] argv[1] = "TTL" -> IF e.kind = "none" THEN Num(-2) ELSE IF e.dl = 0 THEN Num(-1) ELSE Num(e.dl - now)

WriteKind(argv) == IF argv[1] = "HINCRBY" THEN "hash" ELSE "str"
Fails(argv, db, now) ==
  argv[2] \in Reserved \/ Seen(db, argv[2], now).kind \notin {"none", WriteKind(argv)}
Written(argv, db, now) ==
  [db EXCEPT ![argv[2]] = [kind |-> WriteKind(argv), val |-> Seen(db, argv[2], now).val + 1, dl |-> Seen(db, argv[2], now).dl]]
IsWrite(argv) == argv[1] \in {"INCR", "HINCRBY"}

---------------------------------------------------------------------------
Command(i) == pipe[i].argv
Typed1(i) == pipe[i].form = "typed"

\* a raw pipeline runs as of its beginning, the others command by command
Now == IF mode = "raw" THEN began ELSE embClock

\* native_pipeline_access
NativeReads == {"GET", "STRLEN", "HGET", "GEOPOS", "GEODIST"}
NativeWrites == {"LPUSH", "RPUSH", "LPOP", "RPOP", "HINCRBY", "SADD", "ZADD", "ZINCRBY", "GEOADD", "DEL", "UNLINK"}
Access(i) ==
  LET argv == Command(i)
  IN IF ~Typed1(i) \/ Len(argv) < 2 THEN "none"
     ELSE IF argv[2] \in Reserved THEN "none"
     ELSE IF argv[1] \in NativeReads \/ (argv[1] = "EXISTS" /\ Len(argv) = 2) THEN "read"
     ELSE IF argv[1] \in NativeWrites THEN "write"
     ELSE "none"

\* a run of native commands that does not stop at a write
CrossesWrites(i) == CHOOSE e \in i..Len(pipe) : (\A j \in i..e : Access(j) # "none")
                                                 /\ (e = Len(pipe) \/ Access(e + 1) = "none")
\* the reads of the first one's shard that follow it without a gap
BatchEnd(i) ==
  LET joins(j) == Access(j) = "read" /\ EmbShard[Command(j)[2]] = EmbShard[Command(i)[2]]
  IN CHOOSE e \in i..Len(pipe) : (\A j \in i + 1..e : joins(j)) /\ (e = Len(pipe) \/ ~joins(e + 1))

\* the commands that reach the journal with the write at i: a run of native writes would put all of
\* them there before the first has run
PreJournals(i) ==
  LET inRun(j) == Access(j) = "write"
  IN IF ~inRun(i) THEN <<Command(i)>>
     ELSE IF i > 1 /\ inRun(i - 1) THEN <<>>
     ELSE LET e == CHOOSE e \in i..Len(pipe) : (\A j \in i..e : inRun(j)) /\ (e = Len(pipe) \/ ~inRun(e + 1))
          IN [j \in 1..e - i + 1 |-> Command(i + j - 1)]
JournaledWith(i) == IF Fails(Command(i), embDb, Now) THEN <<>> ELSE <<Command(i)>>

---------------------------------------------------------------------------
EmbInit ==
  /\ embDb = FirstDb
  /\ embClock = 0 /\ pipe = <<>> /\ mode = "building" /\ collect = FALSE /\ at = 1 /\ began = 0
  /\ outs = <<>> /\ ended = "none" /\ embJournal = <<>> /\ multi = FALSE /\ queued = <<>> /\ published = 0
  /\ embUp = TRUE /\ accepting = TRUE /\ others = 0 /\ offered = <<>>

\* push_argv of one argument list, which names a typed command, or a raw one, or a bad number
Offer ==
  /\ mode = "building" /\ pipe = <<>> /\ offered = <<>> /\ embClock = 0 /\ others = 0
  /\ \E argv \in Argvs : offered' = argv
  /\ UNCHANGED <<embDb, embClock, pipe, mode, collect, at, began, outs, ended, embJournal, multi, queued, published, embUp,
                 accepting, others>>

\* push_argv, which refuses a typed command with a bad number, and raw, which takes anything
Push ==
  /\ mode = "building" /\ offered = <<>>
  /\ \E p \in Pipelines :
       /\ Len(pipe) < Len(p) /\ \A i \in DOMAIN pipe : p[i] = pipe[i].argv
       /\ \E command \in {Prepare(p[Len(pipe) + 1]), Raw(p[Len(pipe) + 1])} :
            command.form # "error" /\ pipe' = Append(pipe, command)
  /\ UNCHANGED <<embDb, embClock, mode, collect, at, began, outs, ended, embJournal, multi, queued, published, embUp,
                 accepting, others, offered>>

\* execute_prepared_pipeline and its discarding form; a pipeline of raw commands is checked as a whole
Execute ==
  /\ mode = "building" /\ pipe # <<>>
  /\ collect' \in BOOLEAN
  /\ began' = embClock
  /\ LET raw == \A i \in 1..Len(pipe) : ~Typed1(i)
     IN IF ~accepting THEN mode' = "ended" /\ ended' = "error"
        ELSE IF raw /\ \E i \in 1..Len(pipe) : ~Accepts(Command(i)) THEN mode' = "ended" /\ ended' = "unsupported"
        ELSE mode' = (IF raw THEN "raw" ELSE "typed") /\ UNCHANGED ended
  /\ UNCHANGED <<embDb, embClock, pipe, at, outs, embJournal, multi, queued, published, embUp, accepting, others, offered>>

\* the reply of command i, with the state it was taken from
Out(i, reply) == [argv |-> Command(i), reply |-> reply, db |-> embDb, time |-> embClock, multi |-> multi]
Collected(new) == IF collect THEN outs \o new ELSE outs

Finish ==
  /\ mode \in {"typed", "raw"} /\ at > Len(pipe)
  /\ mode' = "ended" /\ ended' = "ok"
  /\ UNCHANGED <<embDb, embClock, pipe, collect, at, began, outs, embJournal, multi, queued, published, embUp, accepting,
                 others, offered>>

\* a failed command ends a typed pipeline: what ran stays, its replies are lost
Abort(why) ==
  /\ mode' = "ended" /\ ended' = why
  /\ UNCHANGED <<embDb, outs, at, multi, queued, published>>

\* consecutive reads of one shard, under one lock and as of the pipeline's beginning
ReadRun ==
  /\ mode = "typed" /\ at <= Len(pipe) /\ Access(at) = "read"
  /\ LET e == BatchEnd(at)
         reply(i) == IF Access(i) = "read" THEN ReadReply(Command(i), embDb, began) ELSE Panic
     IN IF collect /\ ~embUp THEN Abort("error")
        ELSE /\ outs' = Collected([j \in 1..e - at + 1 |-> Out(at + j - 1, reply(at + j - 1))])
             /\ at' = e + 1
             /\ UNCHANGED <<embDb, mode, ended, multi, queued, published>>
  /\ UNCHANGED <<embClock, pipe, collect, began, embJournal, embUp, accepting, others, offered>>

\* execute_command_fast_path: reads and PUBLISH, at the current time and past an open MULTI
FastPath(i) ==
  /\ Typed1(i)
  /\ Command(i)[1] \in (Reads \ {"KEYS", "RANDOMKEY"}) \union {"PUBLISH"}
  /\ ~(Command(i)[1] # "PUBLISH" /\ \E j \in 2..Len(Command(i)) : Command(i)[j] \in Reserved)
FastReply(argv) == IF argv[1] = "PUBLISH" THEN Num(0) ELSE ReadReply(argv, embDb, embClock)
FastRead ==
  /\ mode = "typed" /\ at <= Len(pipe) /\ Access(at) = "none" /\ FastPath(at)
  /\ IF ~embUp \/ (~accepting /\ ~(Command(at)[1] = "PUBLISH" /\ ~collect)) THEN Abort("error")
     ELSE /\ outs' = Collected(<<Out(at, FastReply(Command(at)))>>)
          /\ published' = published + IF Command(at)[1] = "PUBLISH" THEN 1 ELSE 0
          /\ at' = at + 1
          /\ UNCHANGED <<embDb, mode, ended, multi, queued>>
  /\ UNCHANGED <<embClock, pipe, collect, began, embJournal, embUp, accepting, others, offered>>

\* the queued commands, in order; one that fails is answered and skipped
Exec(db, commands) == FoldLeft(LAMBDA d, argv : IF Fails(argv, d, Now) THEN d ELSE Written(argv, d, Now), db, commands)
ExecJournal(commands) ==
  FoldLeft(LAMBDA acc, argv : IF Fails(argv, acc.db, Now) THEN acc
                              ELSE [db |-> Written(argv, acc.db, Now), log |-> Append(acc.log, argv)],
           [db |-> embDb, log |-> <<>>], commands).log

\* execute_pipeline asks for the gate once when all commands are reads it can batch, or all PUBLISH
Batched ==
  /\ mode = "raw" /\ ~multi
  /\ \/ \A i \in DOMAIN pipe : Command(i)[1] \in {"GET", "HGET", "TTL", "EXISTS"} /\ Command(i)[2] \notin Reserved
     \/ \A i \in DOMAIN pipe : Command(i)[1] = "PUBLISH"
Admitted == embUp \/ Batched

\* the executor runs one command in the client's session
Takes(i, reply) == at' = at + 1 /\ outs' = Collected(<<Out(i, reply)>>) /\ UNCHANGED <<mode, ended>>
RunCommand(i, aborts) ==
  LET argv == Command(i)
  IN \/ /\ argv[1] = "MULTI"
        /\ IF multi THEN (IF aborts THEN Abort("error") ELSE Takes(i, WrongType) /\ UNCHANGED <<embDb, multi, queued, published>>)
           ELSE Takes(i, Okay) /\ multi' = TRUE /\ UNCHANGED <<embDb, queued, published>>
        /\ UNCHANGED embJournal
     \/ /\ argv[1] = "EXEC"
        /\ IF ~multi \/ ~embUp
           THEN (IF aborts THEN Abort("error") ELSE Takes(i, WrongType) /\ UNCHANGED <<embDb, multi, queued, published>>)
                /\ UNCHANGED embJournal
           ELSE /\ Takes(i, Okay)
                /\ embDb' = Exec(embDb, queued) /\ embJournal' = embJournal \o ExecJournal(queued)
                /\ multi' = FALSE /\ queued' = <<>> /\ UNCHANGED published
     \/ /\ argv[1] \notin {"MULTI", "EXEC"} /\ multi
        /\ Takes(i, Queued)
        /\ queued' = (IF IsWrite(argv) THEN Append(queued, argv) ELSE queued)
        /\ UNCHANGED <<embDb, multi, published, embJournal>>
     \/ /\ argv[1] = "BLMPOP" /\ ~multi
        /\ Abort("unsupported") /\ UNCHANGED embJournal
     \/ /\ IsWrite(argv) /\ ~multi
        /\ embJournal' = IF embUp THEN embJournal \o JournaledWith(i) ELSE embJournal
        /\ IF ~embUp \/ Fails(argv, embDb, Now)
           THEN IF aborts THEN Abort("error") ELSE Takes(i, WrongType) /\ UNCHANGED <<embDb, multi, queued, published>>
           ELSE Takes(i, Num(Written(argv, embDb, Now)[argv[2]].val)) /\ embDb' = Written(argv, embDb, Now)
                /\ UNCHANGED <<multi, queued, published>>
     \/ /\ argv[1] \in Reads /\ ~multi
        /\ LET reply == IF ~Admitted \/ argv[2] \in Reserved THEN WrongType ELSE ReadReply(argv, embDb, Now)
           IN IF reply = WrongType /\ aborts THEN Abort("error")
              ELSE Takes(i, reply) /\ UNCHANGED <<embDb, multi, queued, published>>
        /\ UNCHANGED embJournal
     \/ /\ argv[1] = "PUBLISH" /\ ~multi
        /\ IF ~Admitted THEN (IF aborts THEN Abort("error") ELSE Takes(i, WrongType) /\ UNCHANGED <<embDb, multi, queued, published>>)
           ELSE Takes(i, Num(0)) /\ published' = published + 1 /\ UNCHANGED <<embDb, multi, queued>>
        /\ UNCHANGED embJournal

\* execute_owned: what is neither a native read nor on the fast path
OwnedCommand ==
  /\ mode = "typed" /\ at <= Len(pipe) /\ Access(at) # "read" /\ ~FastPath(at)
  /\ IF ~accepting \/ ~Accepts(Command(at)) THEN Abort(IF accepting THEN "unsupported" ELSE "error") /\ UNCHANGED embJournal
     ELSE RunCommand(at, TRUE)
  /\ UNCHANGED <<embClock, pipe, collect, began, embUp, accepting, others, offered>>

\* CommandExecutor::execute_pipeline: errors are replies, a blocking command ends the pipeline; a
\* batch that finds the gate shut is answered by one error for all its commands
RawCommand ==
  /\ mode = "raw" /\ at <= Len(pipe)
  /\ IF at = 1 /\ Batched /\ ~embUp
     THEN /\ mode' = "ended" /\ ended' = "ok" /\ outs' = Collected(<<Out(1, WrongType)>>)
          /\ UNCHANGED <<embDb, at, multi, queued, published, embJournal>>
     ELSE RunCommand(at, FALSE)
  /\ UNCHANGED <<embClock, pipe, collect, began, embUp, accepting, others, offered>>

---------------------------------------------------------------------------
Idle == <<pipe, mode, collect, at, began, outs, ended, multi, queued, published, offered>>
\* another client's write
OtherWrite ==
  /\ others < MaxOthers /\ embUp /\ accepting /\ offered = <<>>
  /\ \E argv \in {a \in UNION {Range(p) : p \in Pipelines} : IsWrite(a)} :
       /\ ~Fails(argv, embDb, embClock)
       /\ embDb' = Written(argv, embDb, embClock) /\ embJournal' = Append(embJournal, argv)
  /\ others' = others + 1
  /\ UNCHANGED <<embClock, embUp, accepting>> /\ UNCHANGED Idle
EmbTick ==
  /\ embClock < MaxEmbClock /\ offered = <<>> /\ embClock' = embClock + 1
  /\ UNCHANGED <<embDb, embJournal, embUp, accepting, others>> /\ UNCHANGED Idle
\* a failed journal write stops the database; a shutdown stops accepting work
GateFalls ==
  /\ embUp /\ mode # "building" /\ embUp' = FALSE
  /\ UNCHANGED <<embDb, embClock, embJournal, accepting, others>> /\ UNCHANGED Idle
Shutdown ==
  /\ accepting /\ pipe # <<>> /\ accepting' = FALSE
  /\ UNCHANGED <<embDb, embClock, embJournal, embUp, others>> /\ UNCHANGED Idle

EmbNext ==
  \/ Offer \/ Push \/ Execute \/ ReadRun \/ FastRead \/ OwnedCommand \/ RawCommand \/ Finish
  \/ OtherWrite \/ EmbTick \/ GateFalls \/ Shutdown
EmbSpec == EmbInit /\ [][EmbNext]_embVars

---------------------------------------------------------------------------
\* What the journal holds is what was done: run again from the first state it gives every key's
\* value.  A pipeline that stops in the middle leaves no frame for a command that never ran
\* (execute_command_pipeline_internal journals each write at its own boundary).
AppliedAsJournaled ==
  LET replayed == FoldLeft(LAMBDA d, argv : IF Fails(argv, d, 0) THEN d ELSE Written(argv, d, 0), FirstDb, embJournal)
  IN \A k \in EmbKeys \ EmbExpiring : replayed[k] = embDb[k]

\* A collected reply answers its command, in order, from the state the command met: reads batched
\* under a shard lock may be as of any moment since the pipeline began, never of another state or
\* of another command (the session's MULTI, which typed reads pass by, set aside), and an error only
\* for a reserved key or a closed gate.
RepliesHonest ==
  /\ Len(outs) < at \/ mode = "ended"
  /\ collect /\ mode \in {"typed", "raw"} => Len(outs) = at - 1
  /\ \A i \in DOMAIN outs :
       /\ outs[i].argv = Command(i)
       /\ outs[i].reply # Panic
       /\ (outs[i].argv[1] \in Reads /\ outs[i].reply # Queued) =>
            \/ outs[i].reply = WrongType /\ (~embUp \/ outs[i].argv[2] \in Reserved)
            \/ \E t \in began..outs[i].time : outs[i].reply = ReadReply(outs[i].argv, outs[i].db, t)

\* Every argument list becomes a command that means the same (see FormAgrees).
FormsAgree == offered # <<>> => FormAgrees(offered)
=============================================================================
