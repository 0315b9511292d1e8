----------------------------- MODULE MCRespWire -----------------------------
(***************************************************************************)
(* Streams and answers for TLC.  105 is an arbitrary letter.               *)
(***************************************************************************)
EXTENDS RespWire

Letter == 105

(* Arguments that are empty, hold the framing bytes, or need two digits. *)
Empty == <<>>
Framing == <<CR, LF, Dollar>>
Long == [i \in 1..10 |-> IF i = 5 THEN Space ELSE Letter]

Encoded(args) == [bytes |-> encode_command(args), commands |-> <<args>>,
                  outcome |-> "read"]
Then(x, y) == [bytes |-> x.bytes \o y.bytes, commands |-> x.commands \o y.commands,
               outcome |-> y.outcome]
Raw(text, commands_, outcome_) ==
  [bytes |-> text, commands |-> commands_, outcome |-> outcome_]

Inline == Raw(<<Space, Letter, Space, Space, Letter, Letter>> \o CRLF,
              <<<<<<Letter>>, <<Letter, Letter>>>>>>, "read")
(* A number of seconds as an argument, as EXPIRE has it. *)
Seconds == Raw(encode_command(<<encode_u64(0), encode_u64(60)>>),
               <<<<<<Zero>>, <<Zero + 6, Zero>>>>>>, "read")
NoArguments == Raw(<<Star, Zero>> \o CRLF, <<<<>>>>, "read")
Unfinished == Raw(<<Star, Zero + 2>> \o CRLF \o EncodeBulk(<<Letter>>), <<>>, "read")
Blank == Raw(<<Space>> \o CRLF, <<>>, "error")
BadCount == Raw(<<Star, Letter>> \o CRLF, <<>>, "error")
BadLength == Raw(<<Star, Zero + 1>> \o CRLF \o <<Dollar>> \o CRLF, <<>>, "error")
BadEnd == Raw(<<Star, Zero + 1>> \o CRLF \o <<Dollar, Zero>> \o CRLF \o <<LF, CR>>,
              <<>>, "error")
Saturated == Raw(<<Star, Zero + 1>> \o CRLF \o <<Dollar, Zero + 9, Zero + 9, Zero + 9>>
                   \o CRLF \o <<Letter>>, <<>>, "overflow")

(* Every way to follow a complete command, however it is sent. *)
Complete == {Encoded(<<Framing, Empty>>), Encoded(<<Long>>), Inline, Seconds,
             NoArguments}
StreamSet ==
  {Then(x, y) : x \in Complete,
                y \in Complete \cup {Unfinished, Blank, BadCount, BadLength, BadEnd,
                                     Saturated}}

(* Malformed streams alone. *)
MalformedSet == {Blank, BadCount, BadLength, BadEnd, Saturated}

ArrayAnswer ==
  [bytes |-> <<Star, Zero + 2>> \o CRLF \o resp_null.bytes \o resp_integer(7).bytes,
   value |-> [is |-> "array", data |-> <<resp_null.value, resp_integer(7).value>>]]

AnswerSet ==
  {resp_simple(<<Letter>>), resp_error(<<Letter>>), resp_integer(-12),
   resp_bulk(Framing), resp_bulk(Empty), resp_null, ArrayAnswer}

=============================================================================
