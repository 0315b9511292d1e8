------------------------------ MODULE RespWire ------------------------------
(***************************************************************************)
(* RESP2 on the wire: the client's encoder and reader (hkv-client/src/     *)
(* resp.rs) and the server's streaming parser (hkv-server/src/protocol.rs) *)
(* and reply encoders (server.rs), joined by a connection that delivers    *)
(* the bytes in arbitrary pieces and may be cut.  Bytes are their codes.   *)
(*                                                                         *)
(* The parser keeps its state, the arguments read so far and the length it *)
(* waits for from one read to the next; one step of Parse is one turn of   *)
(* its loop.                                                               *)
(***************************************************************************)
EXTENDS Integers, Sequences, FiniteSetsExt, SequencesExt

CONSTANTS
  Streams,    \* what the peer sends: [bytes, commands, outcome], where the
              \* outcome is "read", "error", or "overflow" for a length that
              \* does not fit
  Answers,    \* what the server answers: [bytes, value]
  UsizeMax,   \* usize::MAX
  I64Max      \* i64::MAX

ASSUME WireAssumption == UsizeMax \in Nat /\ I64Max \in Nat \ {0}

VARIABLES
  input,      \* the peer's stream
  sent,       \* how many of its bytes have arrived
  phase,      \* the connection task: "read", "parse", "error", "panic"
  buf,        \* its buffer
  parser,     \* RespParser
  commands,   \* the commands it returned
  replies,    \* the values of the replies written
  out,        \* reply bytes on their way
  arrived,    \* reply bytes the client has not consumed
  cut,        \* the reply stream has ended
  values,     \* what read_response returned
  failed      \* read_response returned an error

serverVars == <<phase, buf, parser, commands, replies>>
clientVars == <<arrived, cut, values, failed>>
wireVars == <<input, sent, phase, buf, parser, commands, replies, out, arrived,
          cut, values, failed>>

CR == 13
LF == 10
CRLF == <<CR, LF>>
Space == 32
Star == 42
Dollar == 36
Plus == 43
Minus == 45
Colon == 58
Zero == 48
is_digit(b) == b \in Zero..(Zero + 9)

Drop(s, n) == SubSeq(s, n + 1, Len(s))
Keep(s, n) == SubSeq(s, 1, n)

-----------------------------------------------------------------------------
(* Numbers.                                                                *)

(* push_usize, and to_string of a number that is not negative. *)
push_usize(n) ==
  LET text[k \in 0..n] ==
        IF k < 10 THEN <<Zero + k>> ELSE Append(text[k \div 10], Zero + (k % 10))
  IN text[n]

(* encode_u64: the digits from the last to the first, then reversed. *)
encode_u64(n) ==
  LET low[k \in Nat] == IF k = 0 THEN <<>> ELSE <<Zero + (k % 10)>> \o low[k \div 10]
  IN IF n = 0 THEN <<Zero>> ELSE Reverse(low[n])

to_string(n) == IF n < 0 THEN <<Minus>> \o push_usize(-n) ELSE push_usize(n)

(* value.saturating_mul(10).saturating_add(digit), from left to right. *)
Saturating(digits, max) ==
  LET cap(n) == IF n > max THEN max ELSE n
      value[i \in 0..Len(digits)] ==
        IF i = 0 THEN 0 ELSE cap(cap(value[i - 1] * 10) + (digits[i] - Zero))
  IN value[Len(digits)]

AllDigits(data) == \A i \in DOMAIN data : is_digit(data[i])

is_usize(data) == data # <<>> /\ AllDigits(data)
parse_usize(data) == Saturating(data, UsizeMax)

(* A sign alone is read as 0. *)
Unsigned(data) == IF Head(data) = Minus THEN Tail(data) ELSE data
is_i64(data) == data # <<>> /\ AllDigits(Unsigned(data))
parse_i64(data) ==
  IF Head(data) = Minus THEN -Saturating(Unsigned(data), I64Max)
  ELSE Saturating(data, I64Max)

-----------------------------------------------------------------------------
(* Encoders.                                                               *)

EncodeBulk(data) == <<Dollar>> \o push_usize(Len(data)) \o CRLF \o data \o CRLF

encode_command(args) ==
  <<Star>> \o push_usize(Len(args)) \o CRLF
    \o FlattenSeq([i \in DOMAIN args |-> EncodeBulk(args[i])])

resp_simple(text) == [bytes |-> <<Plus>> \o text \o CRLF,
                      value |-> [is |-> "simple", data |-> text]]
resp_error(text) == [bytes |-> <<Minus>> \o text \o CRLF,
                     value |-> [is |-> "error", data |-> text]]
resp_integer(n) == [bytes |-> <<Colon>> \o to_string(n) \o CRLF,
                    value |-> [is |-> "integer", data |-> <<n>>]]
resp_bulk(data) == [bytes |-> EncodeBulk(data),
                    value |-> [is |-> "bulk", data |-> data]]
resp_null == [bytes |-> <<Dollar, Minus, Zero + 1>> \o CRLF,
              value |-> [is |-> "null", data |-> <<>>]]

-----------------------------------------------------------------------------
(* The server's parser.                                                    *)

NewParser == [state |-> "ArrayLen", args |-> <<>>, remaining |-> 0, bulk_len |-> 0]

LineEnds(s) == {i \in 2..Len(s) : s[i] = LF /\ s[i - 1] = CR}
HasLine(s) == LineEnds(s) # {}
Line(s) == Keep(s, Min(LineEnds(s)) - 2)
AfterLine(s) == Drop(s, Min(LineEnds(s)))

(* The words of an inline command. *)
Words(s) ==
  LET starts == {i \in DOMAIN s : s[i] # Space /\ (i = 1 \/ s[i - 1] = Space)}
      end(i) == Min({j \in i..Len(s) : s[j] = Space} \cup {Len(s) + 1}) - 1
  IN [n \in 1..Cardinality(starts) |->
        LET i == CHOOSE k \in starts : Cardinality({j \in starts : j < k}) = n - 1
        IN SubSeq(s, i, end(i))]

(* A command is returned to the connection task, which answers it and      *)
(* calls parse again.                                                      *)
Returns(args) ==
  /\ commands' = Append(commands, args)
  /\ \E a \in Answers :
       /\ replies' = Append(replies, a.value)
       /\ out' = out \o a.bytes

(* parse panicked: the task unwinds. *)
Panics == phase' = "panic" /\ UNCHANGED <<commands, replies, out>>

(* parse returned an error: the task answers it and returns. *)
Fails ==
  LET answer == resp_error(<<112>>) IN
  /\ phase' = "error"
  /\ replies' = Append(replies, answer.value)
  /\ out' = out \o answer.bytes
  /\ UNCHANGED commands

Continues == UNCHANGED <<phase, commands, replies, out>>

(* parse returned None: the task waits for more bytes. *)
NeedMore ==
  /\ phase' = "read"
  /\ UNCHANGED <<buf, parser, commands, replies, out>>

ParseArrayLen ==
  LET line == Line(buf) IN
  \/ ~HasLine(buf) /\ NeedMore
  \/ /\ HasLine(buf)
     /\ buf' = AfterLine(buf)
     /\ \/ /\ line = <<>> \/ line[1] # Star
           /\ IF Words(line) = <<>> THEN Fails
              ELSE Returns(Words(line)) /\ UNCHANGED phase
           /\ UNCHANGED parser
        \/ /\ line # <<>> /\ line[1] = Star
           /\ IF ~is_usize(Tail(line)) THEN Fails /\ UNCHANGED parser
              ELSE LET count == parse_usize(Tail(line)) IN
                   /\ parser' = [parser EXCEPT
                        !.args = <<>>, !.remaining = count,
                        !.state = IF count = 0 THEN "ArrayLen" ELSE "BulkLen"]
                   /\ IF count = 0 THEN Returns(<<>>) /\ UNCHANGED phase ELSE Continues

ParseBulkLen ==
  LET line == Line(buf)
      valid == line # <<>> /\ line[1] = Dollar /\ is_usize(Tail(line))
  IN
  \/ ~HasLine(buf) /\ NeedMore
  \/ /\ HasLine(buf)
     /\ buf' = AfterLine(buf)
     /\ IF ~valid THEN Fails /\ UNCHANGED parser
        ELSE /\ parser' = [parser EXCEPT !.state = "BulkData",
                                         !.bulk_len = parse_usize(Tail(line))]
             /\ Continues

(* Mutant of ParseBulkData: the data alone is waited for. *)
ParseBulkData_NoCrlf ==
  LET n == parser.bulk_len
      args == Append(parser.args, Keep(buf, n))
      last == parser.remaining = 1
  IN
  \/ Len(buf) < n /\ NeedMore
  \/ /\ Len(buf) >= n
     /\ buf' = Drop(buf, n + 2)
     /\ parser' = [parser EXCEPT !.state = IF last THEN "ArrayLen" ELSE "BulkLen",
                                 !.remaining = @ - 1,
                                 !.args = IF last THEN <<>> ELSE args]
     /\ IF last THEN Returns(args) /\ UNCHANGED phase ELSE Continues

(* bulk_len + 2 does not fit for a length that was saturated: in a debug   *)
(* build the addition panics; in a release build it wraps, and split_to    *)
(* panics unless the buffer is shorter even than what is left of the sum.  *)
ParseBulkData ==
  LET n == parser.bulk_len
      args == Append(parser.args, Keep(buf, n))
      last == parser.remaining = 1
  IN
  \/ n + 2 > UsizeMax /\ Panics /\ UNCHANGED <<buf, parser>>
  \/ n + 2 > UsizeMax /\ Len(buf) < (n + 2) % (UsizeMax + 1) /\ NeedMore
  \/ n + 2 <= UsizeMax /\ Len(buf) < n + 2 /\ NeedMore
  \/ /\ n + 2 <= UsizeMax /\ Len(buf) >= n + 2
     /\ buf' = Drop(buf, n + 2)
     /\ IF SubSeq(buf, n + 1, n + 2) # CRLF THEN Fails /\ UNCHANGED parser
        ELSE /\ parser' = [parser EXCEPT
                  !.state = IF last THEN "ArrayLen" ELSE "BulkLen",
                  !.remaining = @ - 1,
                  !.args = IF last THEN <<>> ELSE args]
             /\ IF last THEN Returns(args) /\ UNCHANGED phase ELSE Continues

Parse ==
  /\ phase = "parse"
  /\ \/ parser.state = "ArrayLen" /\ ParseArrayLen
     \/ parser.state = "BulkLen" /\ ParseBulkLen
     \/ parser.state = "BulkData" /\ ParseBulkData
  /\ UNCHANGED <<input, sent, clientVars>>

(* read_buf: the task gets any number of the bytes that were sent. *)
ReadBuf ==
  /\ phase = "read"
  /\ \E n \in 1..(Len(input.bytes) - sent) :
       /\ buf' = buf \o SubSeq(input.bytes, sent + 1, sent + n)
       /\ sent' = sent + n
  /\ phase' = "parse"
  /\ UNCHANGED <<input, parser, commands, replies, out, clientVars>>

-----------------------------------------------------------------------------
(* The client's reader.  A blocked read waits unless the stream has ended. *)

Blocked == [st |-> "blocked"]
Protocol == [st |-> "error"]
Ok(value, rest) == [st |-> "ok", value |-> value, rest |-> rest]

(* The bytes up to and with the first LF, or all there are at the end. *)
Until(s) ==
  LET ends == {i \in DOMAIN s : s[i] = LF} IN
  IF ends = {} THEN s ELSE Keep(s, Min(ends))

(* Mutant of IsLine: the CR is not looked for. *)
IsLine_NoCr(raw) == Len(raw) >= 2

IsLine(raw) == Len(raw) >= 2 /\ raw[Len(raw) - 1] = CR

read_line(s) ==
  LET raw == Until(s) IN
  CASE ~cut /\ (raw = <<>> \/ Last(raw) # LF) -> Blocked
    [] (cut \/ (raw # <<>> /\ Last(raw) = LF)) /\ IsLine(raw) ->
         Ok(Keep(raw, Len(raw) - 2), Drop(s, Len(raw)))
    [] OTHER -> Protocol

parse_bulk_len(n, s) ==
  CASE n < 0 -> Ok(resp_null.value, s)
    [] n >= 0 /\ Len(s) < n + 2 -> IF cut THEN Protocol ELSE Blocked
    [] OTHER -> IF SubSeq(s, n + 1, n + 2) # CRLF THEN Protocol
                ELSE Ok(resp_bulk(Keep(s, n)).value, Drop(s, n + 2))

(* The n items of an array, one after the other, each with `reader`. *)
parse_array_len(n, s, reader) ==
  LET items[i \in 0..n] ==
        LET before == items[i - 1]
            item == reader[before.rest]
        IN CASE i = 0 -> Ok(<<>>, s)
             [] i > 0 /\ before.st # "ok" -> before
             [] i > 0 /\ before.st = "ok" /\ item.st # "ok" -> item
             [] OTHER -> Ok(Append(before.value, item.value), item.rest)
      got == IF n <= 0 THEN Ok(<<>>, s) ELSE items[n]
  IN IF got.st # "ok" THEN got
     ELSE Ok([is |-> "array", data |-> got.value], got.rest)

(* A response whose items, if it is an array, `reader` reads. *)
read_value(s, reader) ==
  LET got == read_line(s)
      line == got.value
      data == Tail(line)
  IN
  IF got.st # "ok" THEN got
  ELSE CASE line = <<>> -> Protocol
         [] line # <<>> /\ line[1] = Plus -> Ok(resp_simple(data).value, got.rest)
         [] line # <<>> /\ line[1] = Minus -> Ok(resp_error(data).value, got.rest)
         [] line # <<>> /\ line[1] \in {Colon, Dollar, Star} ->
              IF ~is_i64(data) THEN Protocol
              ELSE CASE line[1] = Colon -> Ok(resp_integer(parse_i64(data)).value, got.rest)
                     [] line[1] = Dollar -> parse_bulk_len(parse_i64(data), got.rest)
                     [] OTHER -> parse_array_len(parse_i64(data), got.rest, reader)
         [] OTHER -> Protocol

(* read_response calls itself for the items; arrays cannot be nested       *)
(* deeper than there are bytes.                                            *)
read_response(s) ==
  LET reader[depth \in 0..(Len(s) + 1)] ==
        [t \in Seq(Nat) |->
           IF depth = 0 THEN Protocol ELSE read_value(t, reader[depth - 1])]
  IN reader[Len(s) + 1][s]

(* One call of read_response that has what it needs; after an error the    *)
(* client gives the connection up.                                         *)
ClientRead ==
  LET got == read_response(arrived) IN
  /\ ~failed /\ (arrived # <<>> \/ cut)
  /\ got.st # "blocked"
  /\ IF got.st = "ok"
     THEN /\ values' = Append(values, got.value)
          /\ arrived' = got.rest
          /\ UNCHANGED failed
     ELSE failed' = TRUE /\ UNCHANGED <<values, arrived>>
  /\ UNCHANGED <<input, sent, serverVars, out, cut>>

-----------------------------------------------------------------------------
(* The connection, outside both programs.                                  *)

DeliverReply ==
  /\ ~cut
  /\ \E n \in 1..Len(out) :
       arrived' = arrived \o Keep(out, n) /\ out' = Drop(out, n)
  /\ UNCHANGED <<input, sent, serverVars, cut, values, failed>>

(* The connection ends; reply bytes that have not arrived are lost. *)
Cut ==
  /\ ~cut /\ cut' = TRUE
  /\ phase' = "closed"
  /\ out' = <<>>
  /\ UNCHANGED <<input, sent, buf, parser, commands, replies, arrived, values,
                 failed>>

WireInit ==
  /\ input \in Streams
  /\ sent = 0 /\ phase = "read" /\ buf = <<>> /\ parser = NewParser
  /\ commands = <<>> /\ replies = <<>> /\ out = <<>>
  /\ arrived = <<>> /\ cut = FALSE /\ values = <<>> /\ failed = FALSE

(* The server has seen the whole stream. *)
Finished ==
  \/ phase = "read" /\ sent = Len(input.bytes)
  \/ phase \in {"error", "panic"}

WireNext == ReadBuf \/ Parse \/ DeliverReply \/ Cut \/ ClientRead

WireSpec == WireInit /\ [][WireNext]_wireVars

-----------------------------------------------------------------------------
(* Properties.                                                             *)

(* However the bytes are cut into reads, the parser returns the commands   *)
(* that were sent, argument for argument and in order, with CR LF and      *)
(* length markers inside an argument taken as data, and stays in step from *)
(* one command to the next; and it ends as the stream says: waiting for    *)
(* more, or with an error at a malformed command.  How a length that is    *)
(* too large for a usize ends is left to MalformedRefused.                 *)
ParsesWhatWasSent ==
  /\ IsPrefix(commands, input.commands)
  /\ Finished =>
       /\ commands = input.commands
       /\ input.outcome # "overflow" => phase = input.outcome
       /\ phase = "read" /\ parser.state = "ArrayLen" => buf = <<>>

(* protocol.rs:12: "Malformed frames return a protocol error immediately." *)
(* A length no buffer can have is such a frame; the code panics on it, or  *)
(* waits for a sum that has wrapped.                                       *)
MalformedRefused ==
  Finished /\ input.outcome \in {"error", "overflow"} => phase = "error"

(* The client reads back the values the server answered, in order: a reply *)
(* torn by the end of the connection is never taken for a shorter one, and *)
(* without a cut every reply is read and none is an error.                 *)
RepliesReadBack ==
  /\ IsPrefix(values, replies)
  /\ failed => cut
  /\ ~cut /\ out = <<>> /\ read_response(arrived).st = "blocked" =>
       values = replies

=============================================================================
