----------------------------- MODULE RespParser -----------------------------
(***************************************************************************)
(* The incremental RESP parser (Parser in src/src/resp.rs) and the buffer  *)
(* it is called on by handle_connection (src/src/lib.rs).  A byte is one   *)
(* of "*", "$", "-", a digit 0..9, "r" and "n" for CR and LF, " " for the  *)
(* space and "x" for any other.  TCP cuts the stream anywhere: each read   *)
(* appends to the pending bytes, every complete command is taken off, and  *)
(* a partial one must wait for the rest.                                   *)
(***************************************************************************)
EXTENDS Integers, Sequences, SequencesExt

CONSTANTS
  Streams,        \* the byte streams a client sends
  MaxBulkLen,     \* max_resp_request
  MaxArrayLen     \* max_resp_command_args

VARIABLES
  stream,         \* the bytes the client sends
  fed,            \* how many have arrived
  pending,        \* the connection's buffer
  taken,          \* commands handed to the executor
  refused         \* the connection was closed with a protocol error

parserVars == <<stream, fed, pending, taken, refused>>

More(pos) == [ok |-> "more", pos |-> pos, val |-> <<>>]
Bad(pos) == [ok |-> "error", pos |-> pos, val |-> <<>>]
Got(pos, val) == [ok |-> "got", pos |-> pos, val |-> val]

\* The first CRLF at or after pos, 0 if there is none.
LineEnd(buf, pos) ==
  LET ends == {i \in pos..(Len(buf) - 1) : buf[i] = "r" /\ buf[i + 1] = "n"} IN
  IF ends = {} THEN 0 ELSE CHOOSE i \in ends : \A j \in ends : i <= j

\* parse_i64_bytes: empty for anything but an optional sign and digits
DigitOf == [d \in {"0", "1", "2", "3"} |-> CASE d = "0" -> 0 [] d = "1" -> 1 [] d = "2" -> 2 [] OTHER -> 3]
ParseInt(line) ==
  LET negative == line # <<>> /\ line[1] = "-"
      digits == IF negative THEN Tail(line) ELSE line
      value == FoldLeft(LAMBDA acc, d : acc * 10 + DigitOf[d], 0, digits)
  IN IF digits = <<>> \/ \E i \in DOMAIN digits : digits[i] \notin DOMAIN DigitOf THEN <<>>
     ELSE <<IF negative THEN -value ELSE value>>

\* read_line_int: None for an incomplete line, and for a line that is no number.
Number(end, n) == IF n = <<>> THEN More(end + 2) ELSE Got(end + 2, n[1])
LineInt(buf, pos, end) ==
  IF end = 0 THEN More(pos) ELSE Number(end, ParseInt(SubSeq(buf, pos, end - 1)))
ReadLineInt(buf, pos) == LineInt(buf, pos, LineEnd(buf, pos))

\* parse_bulk_string; a null bulk is an empty argument
BulkData(buf, pos, len) ==
  LET data == len.pos
      end == len.pos + len.val
  IN CASE len.ok = "more" -> More(pos)
       [] len.val < 0 -> Got(data, <<>>)
       [] len.val > MaxBulkLen -> Bad(data)
       [] end + 1 > Len(buf) -> More(pos)
       [] buf[end] # "r" \/ buf[end + 1] # "n" -> Bad(data)
       [] OTHER -> Got(end + 2, SubSeq(buf, data, end - 1))

ParseBulk(buf, pos) ==
  IF pos > Len(buf) THEN More(pos)
  ELSE IF buf[pos] # "$" THEN Bad(pos)
  ELSE BulkData(buf, pos, ReadLineInt(buf, pos + 1))

\* Variant: a partial command is not rolled back to its first byte.
KeepsPos(saved, reached) == reached

\* self.pos = saved: a command is taken whole or not at all
RollBack(saved, reached) == saved

\* parse_multibulk_args.  A negative count is skipped but reported like an
\* incomplete command, so the caller stops parsing there.
AddArg(acc, saved, b) ==
  CASE b.ok = "got" -> Got(b.pos, Append(acc.val, b.val))
    [] b.ok = "error" -> Bad(b.pos)
    [] OTHER -> More(RollBack(saved, acc.pos))

ReadArgs(buf, saved, count) ==
  LET next(acc, i) == IF acc.ok # "got" THEN acc ELSE AddArg(acc, saved, ParseBulk(buf, acc.pos))
  IN CASE count.ok = "more" -> More(saved)
       [] count.val < 0 -> More(count.pos)
       [] count.val > MaxArrayLen -> Bad(count.pos)
       [] OTHER -> FoldLeft(next, Got(count.pos, <<>>), [i \in 1..count.val |-> i])

ParseMultibulk(buf, saved) == ReadArgs(buf, saved, ReadLineInt(buf, saved + 1))

\* The words of an inline command
Words(line) ==
  LET step(acc, b) == IF b = " " THEN Append(acc, <<>>) ELSE [acc EXCEPT ![Len(acc)] = Append(@, b)]
  IN SelectSeq(FoldLeft(step, << <<>> >>, line), LAMBDA w : w # <<>>)

\* parse_inline_args: up to the first LF, less a CR before it
ParseInline(buf, start) ==
  LET ends == {i \in start..Len(buf) : buf[i] = "n"} IN
  IF ends = {} THEN More(start)
  ELSE LET end == CHOOSE i \in ends : \A j \in ends : i <= j
           last == IF end > start /\ buf[end - 1] = "r" THEN end - 2 ELSE end - 1
           words == Words(SubSeq(buf, start, last))
       IN IF Len(words) > MaxArrayLen THEN Bad(end + 1) ELSE Got(end + 1, words)

\* parse_command_args
ParseCommand(buf, pos) ==
  IF pos > Len(buf) THEN More(pos)
  ELSE IF buf[pos] = "*" THEN ParseMultibulk(buf, pos) ELSE ParseInline(buf, pos)

\* The loop of handle_connection: every complete command of the buffer; empty
\* ones are skipped, and an error drops the commands of the same read.
ParseNext(buf, s) ==
  LET c == s.last IN
  IF c.ok # "got" THEN s
  ELSE [cmds |-> IF c.val = <<>> THEN s.cmds ELSE Append(s.cmds, c.val), last |-> ParseCommand(buf, c.pos)]

ParseAll(buf) ==
  FoldLeft(LAMBDA s, i : ParseNext(buf, s), [cmds |-> <<>>, last |-> Got(1, <<>>)],
           [i \in 1..(Len(buf) + 1) |-> i])

ParserInit ==
  /\ stream \in Streams /\ fed = 0 /\ pending = <<>> /\ taken = <<>> /\ refused = FALSE

\* One read of any size
Parsed(buf, r) ==
  /\ refused' = (r.last.ok = "error" \/ Len(buf) > MaxBulkLen)
  /\ taken' = IF refused' THEN taken ELSE taken \o r.cmds
  /\ pending' = IF refused' THEN pending ELSE SubSeq(buf, r.last.pos, Len(buf))

Deliver(k) ==
  LET buf == pending \o SubSeq(stream, fed + 1, fed + k) IN
  /\ ~refused /\ fed + k <= Len(stream) /\ fed' = fed + k
  /\ Parsed(buf, ParseAll(buf))
  /\ UNCHANGED stream

ParserNext == \E k \in 1..(Len(stream) - fed) : Deliver(k)
ParserSpec == ParserInit /\ [][ParserNext]_parserVars

-----------------------------------------------------------------------------
\* The commands of a byte stream, read past every array of negative count: ParseAll
\* that goes on where it would stop.
ReadNext(buf, s) ==
  LET c == s.last
      skips == c.ok = "more" /\ c.pos > s.from
  IN IF c.ok # "got" /\ ~skips THEN s
     ELSE [cmds |-> IF skips \/ c.val = <<>> THEN s.cmds ELSE Append(s.cmds, c.val),
           last |-> ParseCommand(buf, c.pos), from |-> c.pos, skipped |-> s.skipped \/ skips]

CommandsOf(buf) ==
  FoldLeft(LAMBDA s, i : ReadNext(buf, s),
           [cmds |-> <<>>, last |-> Got(1, <<>>), from |-> 1, skipped |-> FALSE],
           [i \in 1..(Len(buf) + 1) |-> i])

\* What was taken, is pending and is to come, against the commands of the stream.
AgreesWith(whole) ==
  LET bad == whole.last.ok = "error"
      behind == CommandsOf(pending \o SubSeq(stream, fed + 1, Len(stream)))
  IN
  /\ refused => (bad \/ Len(stream) > MaxBulkLen) /\ IsPrefix(taken, whole.cmds)
  /\ ~refused => taken \o behind.cmds = whole.cmds
  /\ fed = Len(stream) /\ ~refused /\ ~bad /\ ~whole.skipped => taken = whole.cmds

(* However the stream is cut, what was executed is a prefix of the commands *)
(* it holds, none lost, repeated or out of order (the roll-back of          *)
(* parse_multibulk_args and parse_inline_args), and a stream without an     *)
(* error is executed in full.  The exception is a stream with an array of   *)
(* negative count, where a read stops: the commands behind it are executed  *)
(* when more bytes arrive, so that there the cuts do show in time.          *)
CutsAreInvisible == AgreesWith(CommandsOf(stream))
=============================================================================
