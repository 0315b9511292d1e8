---------------------------- MODULE ServerProofs ----------------------------
(***************************************************************************)
(* Proofs about Server, for any finite set of connections, any kinds of    *)
(* requests and any number of them.                                        *)
(***************************************************************************)
EXTENDS Server, FiniteSetTheorems, TLAPS

Cut == serve \in {"error", "panic"}

(* Types, as far as the proofs need them. *)
Typed ==
  /\ pc \in [Conn -> {"none", "queued", "read", "parse", "write", "done"}]
  /\ fate \in [Conn -> {"none", "running", "ok", "error", "panic", "cancelled"}]

(* A task between two awaits is running: only a task at an await is        *)
(* dropped, and a panic leaves it where it was.                            *)
ParsingRuns == \A c \in Conn : pc[c] = "parse" => fate[c] = "running"

(* Every task that runs or has panicked will be joined, unless serve was   *)
(* cut short; an orderly return has nothing left to join.                  *)
Joined ==
  /\ \A c \in Conn : fate[c] \in {"running", "panic"} => c \in joinset \/ Cut
  /\ serve = "ok" => joinset = {}

(* Only the end of the grace period and a cut abort tasks. *)
AbortsJustified ==
  /\ abort # {} => expired \/ Cut
  /\ \A c \in Conn : fate[c] = "cancelled" => expired \/ Cut

OrderInv == Typed /\ ParsingRuns /\ Joined /\ AbortsJustified

-----------------------------------------------------------------------------
LEMMA OrderInit == Init => OrderInv
  BY DEF Init, OrderInv, Typed, ParsingRuns, Joined, AbortsJustified

LEMMA OrderStep == OrderInv /\ [Next]_vars => OrderInv'
<1> SUFFICES ASSUME OrderInv, [Next]_vars PROVE OrderInv'
  OBVIOUS
<1> USE DEF OrderInv, Typed, ParsingRuns, Joined, AbortsJustified, Cut
<1>1. CASE UNCHANGED vars
  BY <1>1 DEF vars
<1>2. CASE AcceptFails
  BY <1>2 DEF AcceptFails, Abandon, DropListener
<1>3. CASE Shutdown
  BY <1>3 DEF Shutdown, DropListener
<1>4. CASE DrainDone
  BY <1>4 DEF DrainDone, task
<1>5. CASE DrainTimeout
  BY <1>5 DEF DrainTimeout, task
<1>6. CASE AbortDone
  BY <1>6 DEF AbortDone, task
<1>7. ASSUME NEW c \in Conn, Accept(c) PROVE OrderInv'
  BY <1>7 DEF Accept, Goto
<1>8. ASSUME NEW c \in Conn, Reap(c) PROVE OrderInv'
  <2>1. CASE Unwinds(c)
    BY <1>8, <2>1 DEF Reap, Abandon, DropListener
  <2>2. CASE ~Unwinds(c)
    BY <1>8, <2>2 DEF Reap, Unwinds, Returned
  <2> QED BY <2>1, <2>2
<1>9. CASE Outside
  <2>1. UNCHANGED <<serve, joinset, abort, expired, fate>>
    BY <1>9 DEF Outside, Signal, Connect, Send, Leave, loop, task
  <2>2. /\ pc' \in [Conn -> {"none", "queued", "read", "parse", "write", "done"}]
        /\ \A c \in Conn : pc'[c] = "parse" => pc[c] = "parse"
    BY <1>9 DEF Outside, Signal, Connect, Send, Leave, task, Goto
  <2> QED BY <2>1, <2>2
<1>10. ASSUME NEW c \in Conn, Read(c) PROVE OrderInv'
  BY <1>10 DEF Read, Goto, End, loop
<1>11. ASSUME NEW c \in Conn, ParseNone(c) PROVE OrderInv'
  BY <1>11 DEF ParseNone, Goto, loop
<1>12. ASSUME NEW c \in Conn, Dispatch(c) PROVE OrderInv'
  BY <1>12 DEF Dispatch, Goto, loop
<1>13. ASSUME NEW c \in Conn, ProtocolError(c) PROVE OrderInv'
  BY <1>13 DEF ProtocolError, Goto, loop
<1>14. ASSUME NEW c \in Conn, WriteDone(c) PROVE OrderInv'
  BY <1>14 DEF WriteDone, Goto, End, loop
<1>15. ASSUME NEW c \in Conn, Cancel(c) PROVE OrderInv'
  BY <1>15 DEF Cancel, loop
<1>16. CASE Terminated
  BY <1>16 DEF Terminated, vars
<1>17. ASSUME NEW c \in Conn, ParsePanics(c) PROVE OrderInv'
  BY <1>17 DEF ParsePanics, Goto, End, loop
<1> QED
  BY <1>1, <1>2, <1>3, <1>4, <1>5, <1>6, <1>7, <1>8, <1>9, <1>10, <1>11, <1>12,
     <1>13, <1>14, <1>15, <1>16, <1>17 DEF Next, Serve, Work

(* serve_with_shutdown, with any number of connections: when it returns Ok *)
(* every connection task has ended and none by a panic, and no task is     *)
(* cancelled before the grace period of the drain is over, unless an       *)
(* accept error or a panic cut serve short.                                *)
THEOREM ShutdownOrderly == Spec => []OrderlyShutdown
<1>1. OrderInv => OrderlyShutdown
  BY DEF OrderInv, Joined, AbortsJustified, OrderlyShutdown, Cut
<1> QED
  BY OrderInit, OrderStep, <1>1, PTL DEF Spec

-----------------------------------------------------------------------------
(* Accounting of the requests.                                             *)

Writing == {c \in Conn : pc[c] = "write"}

CountInv ==
  /\ pc \in [Conn -> {"none", "queued", "read", "parse", "write", "done"}]
  /\ requests_total \in Int /\ inflight \in Int /\ samples \in Int
  /\ RequestsAccounted

LEMMA WritingFinite == IsFiniteSet(Writing)
  BY ServerAssumption, FS_Subset DEF Writing

LEMMA CountInit == Init => CountInv
<1> SUFFICES ASSUME Init PROVE CountInv
  OBVIOUS
<1>1. {c \in Conn : pc[c] = "write"} = {}
  BY DEF Init
<1> QED BY <1>1, FS_EmptySet DEF Init, CountInv, RequestsAccounted

(* A step that counts nothing and begins or ends no write. *)
LEMMA CountSame ==
  ASSUME CountInv, UNCHANGED metrics,
         pc' \in [Conn -> {"none", "queued", "read", "parse", "write", "done"}],
         \A c \in Conn : pc'[c] = "write" <=> pc[c] = "write"
  PROVE  CountInv'
<1>1. {c \in Conn : pc'[c] = "write"} = {c \in Conn : pc[c] = "write"}
  OBVIOUS
<1> QED BY <1>1 DEF CountInv, RequestsAccounted, metrics

(* A request begins: its connection starts to write. *)
LEMMA CountBegins ==
  ASSUME CountInv, NEW c \in Conn, pc[c] # "write",
         record_request_start, samples' = samples, Goto(c, "write")
  PROVE  CountInv'
<1>1. Writing' = Writing \cup {c}
  BY DEF Writing, Goto, CountInv
<1>2. c \notin Writing
  BY DEF Writing
<1>3. Cardinality(Writing') = Cardinality(Writing) + 1
  BY <1>1, <1>2, WritingFinite, FS_AddElement
<1> QED
  BY <1>3 DEF CountInv, RequestsAccounted, record_request_start, Goto, Writing

(* A request ends: its connection goes elsewhere. *)
LEMMA CountEnds ==
  ASSUME CountInv, NEW c \in Conn, pc[c] = "write", record_request_end,
         requests_total' = requests_total, NEW place \in {"parse", "done"},
         Goto(c, place)
  PROVE  CountInv'
<1>1. Writing' = Writing \ {c}
  BY DEF Writing, Goto, CountInv
<1>2. c \in Writing
  BY DEF Writing
<1>3. Cardinality(Writing') = Cardinality(Writing) - 1
  BY <1>1, <1>2, WritingFinite, FS_RemoveElement
<1> QED
  BY <1>3 DEF CountInv, RequestsAccounted, record_request_end, Goto, Writing

LEMMA CountStep == CountInv /\ [Next]_vars => CountInv'
<1> SUFFICES ASSUME CountInv, [Next]_vars PROVE CountInv'
  OBVIOUS
<1> DEFINE Places == {"none", "queued", "read", "parse", "write", "done"}
<1>0. pc \in [Conn -> Places]
  BY DEF CountInv
<1>1. ASSUME NEW c \in Conn, Dispatch(c) \/ ProtocolError(c) PROVE CountInv'
  BY <1>1, CountBegins DEF Dispatch, ProtocolError
<1>2. ASSUME NEW c \in Conn, WriteDone(c) PROVE CountInv'
  <2>1. PICK place \in {"parse", "done"} : Goto(c, place)
    BY <1>2 DEF WriteDone, End
  <2>2. record_request_end /\ requests_total' = requests_total
    BY <1>2 DEF WriteDone, finish_tracked_request
  <2> QED BY <1>2, <2>1, <2>2, CountEnds DEF WriteDone
<1>3. ASSUME NEW c \in Conn,
             \/ Read(c) \/ ParseNone(c) \/ ParsePanics(c) \/ Cancel(c)
             \/ Accept(c) \/ Reap(c)
      PROVE  CountInv'
  <2>1. /\ UNCHANGED metrics
        /\ pc' \in [Conn -> Places]
        /\ \A d \in Conn : pc'[d] = "write" <=> pc[d] = "write"
    BY <1>0, <1>3 DEF Read, ParseNone, ParsePanics, Cancel, Accept, Reap, Abandon,
                      DropListener, Goto, End
  <2> QED BY <2>1, CountSame
<1>4. CASE \/ AcceptFails \/ Shutdown \/ DrainDone \/ DrainTimeout \/ AbortDone
           \/ Outside \/ Terminated \/ UNCHANGED vars
  <2>1. /\ UNCHANGED metrics
        /\ pc' \in [Conn -> Places]
        /\ \A d \in Conn : pc'[d] = "write" <=> pc[d] = "write"
    BY <1>0, <1>4 DEF AcceptFails, Shutdown, DrainDone, DrainTimeout, AbortDone,
                      Outside, Signal, Connect, Send, Leave, Terminated, vars, metrics,
                      task, Abandon, DropListener, Goto
  <2> QED BY <2>1, CountSame
<1> QED
  BY <1>1, <1>2, <1>3, <1>4 DEF Next, Serve, Work

(* server.rs and metrics.rs, with any number of connections: requests_total *)
(* is always what is in flight plus what has been measured, and in flight  *)
(* are exactly the requests whose answer is being written or was cut off.  *)
THEOREM AccountingExact == Spec => []RequestsAccounted
<1>1. CountInv => RequestsAccounted
  BY DEF CountInv
<1> QED
  BY CountInit, CountStep, <1>1, PTL DEF Spec

-----------------------------------------------------------------------------
(* The order of the answers on one connection.                             *)

Request == [no : Nat, kind : Kind]

WireTyped ==
  /\ pc \in [Conn -> {"none", "queued", "read", "parse", "write", "done"}]
  /\ fate \in [Conn -> {"none", "running", "ok", "error", "panic", "cancelled"}]
  /\ peer \in [Conn -> {"open", "closed", "reset"}]
  /\ sent \in [Conn -> Nat]
  /\ inbound \in [Conn -> Seq(Request)]
  /\ buffer \in [Conn -> Seq(Request)]
  /\ current \in [Conn -> Request]
  /\ executed \in [Conn -> Seq(Nat)]
  /\ replies \in [Conn -> Seq(Nat)]

(* The list of the first numbers. *)
Counts(list) == \A i \in 1..Len(list) : list[i] = i

(* The requests of a list have the numbers that follow k. *)
Numbered(list, k) == \A i \in 1..Len(list) : list[i].no = k + i

LEMMA CountsAppend ==
  ASSUME NEW list \in Seq(Nat), Counts(list)
  PROVE  /\ Append(list, Len(list) + 1) \in Seq(Nat)
         /\ Len(Append(list, Len(list) + 1)) = Len(list) + 1
         /\ Counts(Append(list, Len(list) + 1))
  BY DEF Counts

LEMMA NumberedTail ==
  ASSUME NEW b \in Seq(Request), b # <<>>, NEW k \in Nat, Numbered(b, k)
  PROVE  /\ Head(b) \in Request /\ Head(b).no = k + 1
         /\ Tail(b) \in Seq(Request) /\ Len(Tail(b)) = Len(b) - 1
         /\ Numbered(Tail(b), k + 1)
<1>1. /\ Len(b) \in Nat \ {0} /\ Head(b) = b[1] /\ Head(b) \in Request
      /\ Tail(b) \in Seq(Request) /\ Len(Tail(b)) = Len(b) - 1
      /\ \A i \in 1..Len(b) - 1 : Tail(b)[i] = b[i + 1]
  OBVIOUS
<1>2. b[1].no = k + 1
  BY <1>1 DEF Numbered
<1>3. ASSUME NEW i \in 1..Len(Tail(b)) PROVE Tail(b)[i].no = k + 1 + i
  <2>1. i + 1 \in 1..Len(b) /\ Tail(b)[i] = b[i + 1]
    BY <1>1
  <2>2. b[i + 1].no = k + (i + 1)
    BY <2>1 DEF Numbered
  <2> QED BY <2>1, <2>2
<1> QED BY <1>1, <1>2, <1>3 DEF Numbered

LEMMA NumberedMove ==
  ASSUME NEW b \in Seq(Request), NEW s \in Seq(Request), NEW k \in Nat,
         NEW n \in 1..Len(s), Numbered(b, k), Numbered(s, k + Len(b))
  PROVE  LET moved == b \o SubSeq(s, 1, n)
             rest == SubSeq(s, n + 1, Len(s))
         IN /\ moved \in Seq(Request) /\ Len(moved) = Len(b) + n
            /\ rest \in Seq(Request) /\ Len(rest) = Len(s) - n
            /\ Numbered(moved, k) /\ Numbered(rest, k + Len(moved))
<1> DEFINE front == SubSeq(s, 1, n)
           rest == SubSeq(s, n + 1, Len(s))
           moved == b \o front
<1>1. /\ front \in Seq(Request) /\ Len(front) = n
      /\ \A i \in 1..n : front[i] = s[i]
  OBVIOUS
<1>2. /\ rest \in Seq(Request) /\ Len(rest) = Len(s) - n
      /\ \A i \in 1..Len(s) - n : rest[i] = s[n + i]
  OBVIOUS
<1> HIDE DEF front, rest
<1>3. /\ moved \in Seq(Request) /\ Len(moved) = Len(b) + n
      /\ \A i \in 1..Len(b) + n :
           moved[i] = IF i <= Len(b) THEN b[i] ELSE front[i - Len(b)]
  BY <1>1
<1> HIDE DEF moved
<1>4. ASSUME NEW i \in 1..Len(moved) PROVE moved[i].no = k + i
  <2>1. CASE i <= Len(b)
    BY <1>3, <2>1 DEF Numbered
  <2>2. CASE i > Len(b)
    <3>1. i - Len(b) \in 1..n /\ moved[i] = s[i - Len(b)]
      BY <1>1, <1>3, <2>2
    <3>2. s[i - Len(b)].no = k + Len(b) + (i - Len(b))
      BY <3>1 DEF Numbered
    <3> QED BY <1>3, <3>1, <3>2
  <2> QED BY <1>3, <2>1, <2>2
<1>5. ASSUME NEW i \in 1..Len(rest) PROVE rest[i].no = k + Len(moved) + i
  <2>1. n + i \in 1..Len(s) /\ rest[i] = s[n + i]
    BY <1>2
  <2>2. s[n + i].no = k + Len(b) + (n + i)
    BY <2>1 DEF Numbered
  <2> QED BY <1>3, <2>1, <2>2
<1>6. Numbered(moved, k) /\ Numbered(rest, k + Len(moved))
  BY <1>4, <1>5 DEF Numbered
<1> QED BY <1>2, <1>3, <1>6 DEF moved, front, rest

(* How many requests have left the buffer. *)
Taken(c) == Len(replies[c]) + IF pc[c] = "write" THEN 1 ELSE 0

(* What has been answered, is being served, is in the buffer and is under  *)
(* way is one sequence of consecutive numbers.                             *)
InStep(c) ==
  /\ Counts(replies[c]) /\ Counts(executed[c])
  /\ Len(executed[c]) <= Len(replies[c]) + 1
  /\ pc[c] \notin {"write", "done"} => Len(executed[c]) = Len(replies[c])
  /\ pc[c] = "write" /\ fate[c] = "running" =>
       /\ current[c].no = Len(replies[c]) + 1
       /\ current[c].kind # "garbage" => Len(executed[c]) = Len(replies[c]) + 1
  /\ pc[c] # "done" =>
       /\ Numbered(buffer[c], Taken(c))
       /\ Numbered(inbound[c], Taken(c) + Len(buffer[c]))
       /\ peer[c] = "open" =>
            sent[c] = Taken(c) + Len(buffer[c]) + Len(inbound[c])

AnswerInv == WireTyped /\ \A c \in Conn : InStep(c)

LEMMA AnswerInit == Init => AnswerInv
  BY DEF Init, AnswerInv, WireTyped, InStep, Counts, Numbered, Taken, Request,
         NoRequest, Kind

(* Connections other than the one a step is about. *)
LEMMA OthersInStep ==
  ASSUME NEW d \in Conn, InStep(d),
         pc'[d] = pc[d], fate'[d] = fate[d], peer'[d] = peer[d], sent'[d] = sent[d],
         inbound'[d] = inbound[d], buffer'[d] = buffer[d], current'[d] = current[d],
         executed'[d] = executed[d], replies'[d] = replies[d]
  PROVE  InStep(d)'
  BY DEF InStep, Counts, Taken

LEMMA ReadInStep ==
  ASSUME AnswerInv, NEW c \in Conn, Read(c)
  PROVE  AnswerInv'
<1>1. CASE \E n \in 1..Len(inbound[c]) :
             /\ buffer' = [buffer EXCEPT ![c] = @ \o SubSeq(inbound[c], 1, n)]
             /\ inbound' = [inbound EXCEPT ![c] = SubSeq(@, n + 1, Len(@))]
             /\ Goto(c, "parse")
             /\ UNCHANGED fate
  <2>1. PICK n \in 1..Len(inbound[c]) :
             /\ buffer' = [buffer EXCEPT ![c] = @ \o SubSeq(inbound[c], 1, n)]
             /\ inbound' = [inbound EXCEPT ![c] = SubSeq(@, n + 1, Len(@))]
             /\ Goto(c, "parse")
             /\ UNCHANGED fate
    BY <1>1
  <2> DEFINE b == buffer[c]
             s == inbound[c]
             moved == b \o SubSeq(s, 1, n)
             rest == SubSeq(s, n + 1, Len(s))
  <2>2. /\ b \in Seq(Request) /\ s \in Seq(Request) /\ n \in 1..Len(s)
        /\ Taken(c) \in Nat /\ Numbered(b, Taken(c)) /\ Numbered(s, Taken(c) + Len(b))
        /\ Counts(replies[c]) /\ Counts(executed[c])
        /\ Len(executed[c]) = Len(replies[c])
        /\ peer[c] = "open" => sent[c] = Taken(c) + Len(b) + Len(s)
    <3>1. /\ b \in Seq(Request) /\ s \in Seq(Request) /\ n \in 1..Len(s)
          /\ Len(replies[c]) \in Nat /\ pc[c] = "read"
      BY <2>1, Read(c) DEF AnswerInv, WireTyped, Read
    <3>2. Taken(c) \in Nat
      BY <3>1 DEF Taken
    <3>3. InStep(c)
      BY DEF AnswerInv
    <3> QED BY <3>1, <3>2, <3>3 DEF InStep
  <2>3. /\ moved \in Seq(Request) /\ Len(moved) = Len(b) + n
        /\ rest \in Seq(Request) /\ Len(rest) = Len(s) - n
        /\ Numbered(moved, Taken(c)) /\ Numbered(rest, Taken(c) + Len(moved))
    BY <2>2, NumberedMove
  <2>4. /\ buffer'[c] = moved /\ inbound'[c] = rest /\ pc'[c] = "parse"
        /\ UNCHANGED <<replies, executed, peer, sent, current>>
    BY <2>1, Read(c) DEF AnswerInv, WireTyped, Goto, Read
  <2>5. WireTyped'
    BY <2>1, <2>3, <2>4 DEF AnswerInv, WireTyped, Goto
  <2>6. InStep(c)'
    <3>1. Taken(c)' = Taken(c) /\ Len(replies[c]) \in Nat
      BY <2>4, Read(c) DEF Taken, Read, AnswerInv, WireTyped
    <3>2. peer[c] = "open" => sent[c] = Taken(c) + Len(moved) + Len(rest)
      BY <2>2, <2>3
    <3>3. /\ Numbered(moved, Taken(c)') /\ Numbered(rest, Taken(c)' + Len(moved))
          /\ peer[c] = "open" => sent[c] = Taken(c)' + Len(moved) + Len(rest)
      BY <2>3, <3>1, <3>2
    <3> HIDE DEF moved, rest
    <3>4. Len(executed[c]) <= Len(replies[c]) + 1
      BY <2>2, <3>1
    <3> QED BY <2>2, <2>4, <3>3, <3>4 DEF InStep
  <2>7. ASSUME NEW d \in Conn \ {c} PROVE InStep(d)'
    BY <2>1, Read(c), OthersInStep DEF AnswerInv, WireTyped, Read, Goto
  <2> QED BY <2>5, <2>6, <2>7 DEF AnswerInv
<1>2. CASE \E how \in {"ok", "error"} : End(c, how) /\ UNCHANGED <<buffer, inbound>>
  <2>1. WireTyped'
    BY <1>2, Read(c) DEF AnswerInv, WireTyped, Read, Goto, End
  <2>2. InStep(c)'
    BY <1>2, Read(c) DEF AnswerInv, WireTyped, InStep, Counts, Read, Goto, End
  <2>3. ASSUME NEW d \in Conn \ {c} PROVE InStep(d)'
    BY <1>2, Read(c), OthersInStep DEF AnswerInv, WireTyped, Read, Goto, End
  <2> QED BY <2>1, <2>2, <2>3 DEF AnswerInv
<1> QED BY <1>1, <1>2, Read(c) DEF Read

(* A request leaves the buffer. *)
LEMMA ParsedInStep ==
  ASSUME AnswerInv, NEW c \in Conn, Dispatch(c) \/ ProtocolError(c)
  PROVE  AnswerInv'
<1> DEFINE b == buffer[c]
<1>1. /\ b \in Seq(Request) /\ b # <<>> /\ pc[c] = "parse"
      /\ buffer' = [buffer EXCEPT ![c] = Tail(b)]
      /\ current' = [current EXCEPT ![c] = Head(b)]
      /\ pc' = [pc EXCEPT ![c] = "write"]
      /\ UNCHANGED <<replies, peer, sent, inbound>>
  BY DEF Dispatch, ProtocolError, Goto, Consume, network, AnswerInv, WireTyped
<1>2. /\ Taken(c) = Len(replies[c]) /\ Taken(c) \in Nat
      /\ Len(executed[c]) = Len(replies[c]) /\ Counts(executed[c])
      /\ Counts(replies[c])
      /\ Numbered(b, Taken(c)) /\ Numbered(inbound[c], Taken(c) + Len(b))
      /\ peer[c] = "open" => sent[c] = Taken(c) + Len(b) + Len(inbound[c])
  <2>1. Len(replies[c]) \in Nat
    BY DEF AnswerInv, WireTyped
  <2>2. Taken(c) = Len(replies[c]) /\ Taken(c) \in Nat
    BY <1>1, <2>1 DEF Taken
  <2>3. InStep(c)
    BY DEF AnswerInv
  <2> QED BY <1>1, <2>2, <2>3 DEF InStep
<1> DEFINE r == Head(b)
           left == Tail(b)
<1>3. /\ r \in Request /\ r.no = Len(replies[c]) + 1
      /\ left \in Seq(Request) /\ Len(left) = Len(b) - 1
      /\ Numbered(left, Taken(c) + 1)
  BY <1>1, <1>2, NumberedTail
<1>4. \/ /\ r.kind = "garbage" /\ UNCHANGED <<fate, executed>>
      \/ /\ fate' = [fate EXCEPT ![c] = "panic"] /\ UNCHANGED executed
      \/ /\ UNCHANGED fate
         /\ executed' = [executed EXCEPT ![c] = Append(@, Len(executed[c]) + 1)]
  BY <1>2, <1>3 DEF Dispatch, ProtocolError
<1> HIDE DEF r, left
<1>5. /\ executed' \in [Conn -> Seq(Nat)]
      /\ Counts(executed'[c]) /\ Len(executed'[c]) <= Len(replies[c]) + 1
      /\ r.kind # "garbage" /\ fate'[c] = "running" =>
           Len(executed'[c]) = Len(replies[c]) + 1
      /\ \A d \in Conn \ {c} : executed'[d] = executed[d] /\ fate'[d] = fate[d]
      /\ fate' \in [Conn -> {"none", "running", "ok", "error", "panic", "cancelled"}]
  <2>1. executed \in [Conn -> Seq(Nat)] /\ executed[c] \in Seq(Nat)
    BY DEF AnswerInv, WireTyped
  <2> DEFINE more == Append(executed[c], Len(executed[c]) + 1)
  <2>2. more \in Seq(Nat) /\ Len(more) = Len(executed[c]) + 1 /\ Counts(more)
    BY <1>2, <2>1, CountsAppend
  <2>3. fate \in [Conn -> {"none", "running", "ok", "error", "panic", "cancelled"}]
    BY DEF AnswerInv, WireTyped
  <2>4. CASE UNCHANGED executed /\ (\/ r.kind = "garbage" /\ UNCHANGED fate
                                    \/ fate' = [fate EXCEPT ![c] = "panic"])
    <3>1. Len(executed[c]) \in Nat
      BY <2>1
    <3>2. Len(executed'[c]) <= Len(replies[c]) + 1
      BY <1>2, <2>4, <3>1
    <3>3. r.kind = "garbage" \/ fate'[c] = "panic"
      BY <2>3, <2>4
    <3>4. /\ \A d \in Conn \ {c} : fate'[d] = fate[d]
          /\ fate' \in [Conn -> {"none", "running", "ok", "error", "panic", "cancelled"}]
      BY <2>3, <2>4
    <3> QED BY <1>2, <2>1, <2>4, <3>2, <3>3, <3>4
  <2>5. CASE UNCHANGED fate /\ executed' = [executed EXCEPT ![c] = more]
    <3> HIDE DEF more
    <3>1. executed'[c] = more /\ executed' \in [Conn -> Seq(Nat)]
      BY <2>1, <2>2, <2>5
    <3> QED BY <1>2, <2>1, <2>2, <2>3, <2>5, <3>1
  <2> QED BY <1>4, <2>4, <2>5
<1>6. WireTyped'
  BY <1>1, <1>3, <1>5 DEF AnswerInv, WireTyped, r, left
<1>7. /\ buffer'[c] = left /\ current'[c] = r /\ pc'[c] = "write"
      /\ Taken(c)' = Taken(c) + 1
  BY <1>1, <1>2 DEF AnswerInv, WireTyped, Taken, r, left
<1>8. InStep(c)'
  <2>1. /\ Taken(c) + 1 + Len(left) = Taken(c) + Len(b)
        /\ peer[c] = "open" => sent[c] = Taken(c) + 1 + Len(left) + Len(inbound[c])
    <3>1. Len(b) \in Nat /\ Len(inbound[c]) \in Nat
      BY <1>1 DEF AnswerInv, WireTyped
    <3>2. Len(left) = Len(b) - 1 /\ Taken(c) \in Nat
      BY <1>2, <1>3
    <3>3. peer[c] = "open" => sent[c] = Taken(c) + Len(b) + Len(inbound[c])
      BY <1>2
    <3> HIDE DEF b
    <3> QED BY <3>1, <3>2, <3>3
  <2> QED BY <1>1, <1>2, <1>3, <1>5, <1>7, <2>1 DEF InStep
<1>9. ASSUME NEW d \in Conn \ {c} PROVE InStep(d)'
  BY <1>1, <1>5, OthersInStep DEF AnswerInv, WireTyped
<1> QED BY <1>6, <1>8, <1>9 DEF AnswerInv

LEMMA WriteInStep ==
  ASSUME AnswerInv, NEW c \in Conn, WriteDone(c)
  PROVE  AnswerInv'
<1>1. PICK delivered \in BOOLEAN :
        /\ replies' = [replies EXCEPT
                         ![c] = IF delivered THEN Append(@, current[c].no) ELSE @]
        /\ \/ ~delivered /\ End(c, "error")
           \/ delivered /\ current[c].kind = "garbage" /\ End(c, "ok")
           \/ delivered /\ current[c].kind # "garbage" /\ Goto(c, "parse") /\ UNCHANGED fate
  BY WriteDone(c) DEF WriteDone
<1>2. /\ pc[c] = "write" /\ fate[c] = "running"
      /\ UNCHANGED <<buffer, current, executed, peer, sent, inbound>>
  BY WriteDone(c) DEF WriteDone, network
<1>3. current[c].no = Len(replies[c]) + 1 /\ current[c].no \in Nat
  BY <1>2 DEF AnswerInv, InStep, WireTyped, Request
<1>4. replies \in [Conn -> Seq(Nat)] /\ Counts(replies[c]) /\ replies[c] \in Seq(Nat)
  BY DEF AnswerInv, WireTyped, InStep
<1> DEFINE more == Append(replies[c], Len(replies[c]) + 1)
<1>5. more \in Seq(Nat) /\ Len(more) = Len(replies[c]) + 1 /\ Counts(more)
  BY <1>4, CountsAppend
<1>6. replies' = [replies EXCEPT ![c] = IF delivered THEN more ELSE @]
  BY <1>1, <1>3
<1> HIDE DEF more
<1>7. /\ replies'[c] = (IF delivered THEN more ELSE replies[c])
      /\ replies' \in [Conn -> Seq(Nat)]
  BY <1>4, <1>5, <1>6
<1>8. WireTyped'
  BY <1>1, <1>2, <1>7 DEF AnswerInv, WireTyped, Goto, End
<1>9. InStep(c)'
  <2>1. CASE delivered /\ pc' = [pc EXCEPT ![c] = "parse"] /\ current[c].kind # "garbage"
    <3>1. /\ pc'[c] = "parse" /\ Taken(c)' = Taken(c)
          /\ Len(executed[c]) = Len(more) /\ Counts(executed[c])
          /\ Len(executed[c]) \in Nat
      BY <1>2, <1>4, <1>5, <1>7, <2>1 DEF AnswerInv, WireTyped, InStep, Taken
    <3> QED BY <1>2, <1>5, <1>7, <2>1, <3>1 DEF AnswerInv, InStep
  <2>2. CASE pc' = [pc EXCEPT ![c] = "done"]
    <3>1. /\ pc'[c] = "done" /\ Counts(executed[c])
          /\ Len(executed[c]) <= Len(replies[c]) + 1
          /\ Len(executed[c]) \in Nat /\ Len(replies[c]) \in Nat
      BY <1>2, <2>2 DEF AnswerInv, WireTyped, InStep
    <3>2. Counts(replies'[c]) /\ Len(executed[c]) <= Len(replies'[c]) + 1
      BY <1>4, <1>5, <1>7, <3>1
    <3> QED BY <1>2, <3>1, <3>2 DEF InStep
  <2> QED BY <1>1, <2>1, <2>2 DEF Goto, End
<1>10. ASSUME NEW d \in Conn \ {c} PROVE InStep(d)'
  BY <1>1, <1>2, <1>6, OthersInStep DEF AnswerInv, WireTyped, Goto, End
<1> QED BY <1>8, <1>9, <1>10 DEF AnswerInv

(* A step that serves nothing and sends nothing: tasks begin, end, are     *)
(* aborted or go back to reading, and the loop goes on.                    *)
LEMMA QuietInStep ==
  ASSUME AnswerInv,
         UNCHANGED <<buffer, current, executed, replies, peer, sent, inbound>>,
         pc' \in [Conn -> {"none", "queued", "read", "parse", "write", "done"}],
         fate' \in [Conn -> {"none", "running", "ok", "error", "panic", "cancelled"}],
         \A d \in Conn :
           /\ pc'[d] = "write" <=> pc[d] = "write"
           /\ pc[d] = "done" => pc'[d] = "done"
           /\ pc'[d] = "write" /\ fate'[d] = "running" => fate[d] = "running"
  PROVE  AnswerInv'
<1>1. WireTyped'
  BY DEF AnswerInv, WireTyped
<1>2. ASSUME NEW d \in Conn PROVE InStep(d)'
  <2>1. InStep(d) /\ Taken(d)' = Taken(d)
    BY DEF AnswerInv, Taken
  <2> QED BY <2>1 DEF InStep
<1> QED BY <1>1, <1>2 DEF AnswerInv

LEMMA SendInStep ==
  ASSUME AnswerInv, NEW c \in Conn, Send(c)
  PROVE  AnswerInv'
<1> DEFINE s == inbound[c]
<1>1. PICK k \in Kinds[c] :
        inbound' = [inbound EXCEPT ![c] = Append(s, [no |-> sent[c] + 1, kind |-> k])]
  BY Send(c) DEF Send
<1> DEFINE r == [no |-> sent[c] + 1, kind |-> k]
           more == Append(s, r)
<1>2. /\ s \in Seq(Request) /\ sent[c] \in Nat /\ r \in Request
      /\ r.no = sent[c] + 1
  <2>1. s \in Seq(Request) /\ sent[c] \in Nat
    BY DEF AnswerInv, WireTyped
  <2>2. Kinds[c] \subseteq Kind
    BY ServerAssumption
  <2>3. k \in Kind /\ sent[c] + 1 \in Nat
    BY <2>1, <2>2
  <2> QED BY <2>1, <2>3 DEF Request
<1> HIDE DEF r
<1>3. /\ more \in Seq(Request) /\ Len(more) = Len(s) + 1 /\ Len(s) \in Nat
      /\ \A i \in 1..Len(s) : more[i] = s[i]
      /\ more[Len(s) + 1] = r
  BY <1>2
<1>4. /\ UNCHANGED <<pc, fate, buffer, current, executed, replies, peer>>
      /\ sent' = [sent EXCEPT ![c] = @ + 1] /\ pc[c] # "done" /\ peer[c] = "open"
      /\ inbound' = [inbound EXCEPT ![c] = more]
  BY <1>1, Send(c) DEF Send, task, r
<1> HIDE DEF more
<1>5. WireTyped'
  BY <1>2, <1>3, <1>4 DEF AnswerInv, WireTyped
<1>6. InStep(c)'
  <2>1. InStep(c) /\ Taken(c)' = Taken(c)
    BY <1>4 DEF AnswerInv, Taken
  <2>2. Len(replies[c]) \in Nat /\ Len(buffer[c]) \in Nat
    BY DEF AnswerInv, WireTyped
  <2>3. Taken(c) \in Nat
    <3>1. CASE pc[c] = "write"
      BY <2>2, <3>1 DEF Taken
    <3>2. CASE pc[c] # "write"
      BY <2>2, <3>2 DEF Taken
    <3> QED BY <3>1, <3>2
  <2> DEFINE k0 == Taken(c) + Len(buffer[c])
  <2>4. Numbered(s, k0) /\ sent[c] = k0 + Len(s) /\ k0 \in Nat
    BY <1>4, <2>1, <2>2, <2>3 DEF InStep
  <2> HIDE DEF k0
  <2>5. Numbered(more, k0)
    <3> SUFFICES ASSUME NEW i \in 1..Len(s) + 1 PROVE more[i].no = k0 + i
      BY <1>3 DEF Numbered
    <3>1. CASE i \in 1..Len(s)
      BY <1>3, <2>4, <3>1 DEF Numbered
    <3>2. CASE i = Len(s) + 1
      BY <1>2, <1>3, <2>4, <3>2
    <3> QED BY <1>3, <3>1, <3>2
  <2>6. sent'[c] = k0 + Len(more) /\ inbound'[c] = more
    BY <1>2, <1>3, <1>4, <2>4 DEF AnswerInv, WireTyped
  <2>7. /\ Numbered(buffer[c], Taken(c)) /\ Numbered(more, Taken(c) + Len(buffer[c]))
        /\ sent'[c] = Taken(c) + Len(buffer[c]) + Len(more)
    BY <1>4, <2>1, <2>5, <2>6 DEF InStep, k0
  <2> QED BY <1>4, <2>1, <2>6, <2>7 DEF InStep
<1>7. ASSUME NEW d \in Conn \ {c} PROVE InStep(d)'
  BY <1>4, OthersInStep DEF AnswerInv, WireTyped
<1> QED BY <1>5, <1>6, <1>7 DEF AnswerInv

LEMMA LeaveInStep ==
  ASSUME AnswerInv, NEW c \in Conn, Leave(c)
  PROVE  AnswerInv'
<1>1. /\ UNCHANGED <<pc, fate, buffer, current, executed, replies, sent>>
      /\ peer' \in [Conn -> {"open", "closed", "reset"}] /\ peer'[c] # "open"
      /\ \A d \in Conn \ {c} : peer'[d] = peer[d]
  BY DEF Leave, task, AnswerInv, WireTyped
<1>2. /\ inbound'[c] = inbound[c] \/ inbound'[c] = <<>>
      /\ inbound' \in [Conn -> Seq(Request)]
      /\ \A d \in Conn \ {c} : inbound'[d] = inbound[d]
  BY DEF Leave, AnswerInv, WireTyped
<1>3. WireTyped'
  BY <1>1, <1>2 DEF AnswerInv, WireTyped
<1>4. InStep(c)'
  <2>1. InStep(c) /\ Taken(c)' = Taken(c)
    BY <1>1 DEF AnswerInv, Taken
  <2>2. Numbered(<<>>, Taken(c) + Len(buffer[c]))
    BY DEF Numbered
  <2>3. pc[c] # "done" => Numbered(inbound'[c], Taken(c) + Len(buffer[c]))
    BY <1>2, <2>1, <2>2 DEF InStep
  <2> QED BY <1>1, <2>1, <2>3 DEF InStep
<1>5. ASSUME NEW d \in Conn \ {c} PROVE InStep(d)'
  BY <1>1, <1>2, OthersInStep DEF AnswerInv
<1> QED BY <1>3, <1>4, <1>5 DEF AnswerInv

LEMMA AnswerStep == AnswerInv /\ [Next]_vars => AnswerInv'
<1> SUFFICES ASSUME AnswerInv, [Next]_vars PROVE AnswerInv'
  OBVIOUS
<1> DEFINE Quiet ==
      /\ UNCHANGED <<buffer, current, executed, replies, peer, sent, inbound>>
      /\ pc' \in [Conn -> {"none", "queued", "read", "parse", "write", "done"}]
      /\ fate' \in [Conn -> {"none", "running", "ok", "error", "panic", "cancelled"}]
      /\ \A d \in Conn :
           /\ pc'[d] = "write" <=> pc[d] = "write"
           /\ pc[d] = "done" => pc'[d] = "done"
           /\ pc'[d] = "write" /\ fate'[d] = "running" => fate[d] = "running"
<1>0. /\ pc \in [Conn -> {"none", "queued", "read", "parse", "write", "done"}]
      /\ fate \in [Conn -> {"none", "running", "ok", "error", "panic", "cancelled"}]
  BY DEF AnswerInv, WireTyped
<1>1. ASSUME NEW c \in Conn,
             \/ ParseNone(c) \/ ParsePanics(c) \/ Cancel(c) \/ Accept(c)
             \/ Reap(c) \/ Connect(c)
      PROVE  Quiet
  BY <1>0, <1>1 DEF ParseNone, ParsePanics, Cancel, Accept, Reap, Connect, Abandon,
                    DropListener, Goto, End, network
<1>2. CASE AcceptFails \/ Shutdown
  <2>1. Quiet
    BY <1>0, <1>2 DEF AcceptFails, Shutdown, DropListener, network
  <2> QED BY <2>1, QuietInStep
<1>3. CASE \/ DrainDone \/ DrainTimeout \/ AbortDone \/ Signal \/ Terminated
           \/ UNCHANGED vars
  <2>1. Quiet
    BY <1>0, <1>3 DEF DrainDone, DrainTimeout, AbortDone, Signal, Terminated, vars,
                      task, network
  <2> QED BY <2>1, QuietInStep
<1>4. ASSUME NEW c \in Conn,
             \/ ParseNone(c) \/ ParsePanics(c) \/ Cancel(c) \/ Accept(c)
             \/ Reap(c) \/ Connect(c)
      PROVE  AnswerInv'
  BY <1>1, <1>4, QuietInStep
<1> HIDE DEF Quiet
<1> QED
  BY <1>2, <1>3, <1>4, ReadInStep, ParsedInStep, WriteInStep, SendInStep, LeaveInStep
     DEF Next, Serve, Outside, Work

(* The request loop of handle_connection, with any number of connections   *)
(* and of pipelined requests, however the bytes arrive: the answers come   *)
(* in the order of the requests, none twice and none skipped, and at most  *)
(* the last command that ran is without its answer.                        *)
THEOREM AnswersInOrder == Spec => []RepliesInOrder
<1>1. AnswerInv => RepliesInOrder
  <2> SUFFICES ASSUME AnswerInv, NEW c \in Conn
               PROVE  /\ replies[c] = [i \in 1..Len(replies[c]) |-> i]
                      /\ executed[c] = [i \in 1..Len(executed[c]) |-> i]
                      /\ Len(executed[c]) <= Len(replies[c]) + 1
    BY DEF RepliesInOrder
  <2>1. /\ replies[c] \in Seq(Nat) /\ executed[c] \in Seq(Nat)
        /\ Counts(replies[c]) /\ Counts(executed[c])
        /\ Len(executed[c]) <= Len(replies[c]) + 1
    BY DEF AnswerInv, WireTyped, InStep
  <2>2. ASSUME NEW list \in Seq(Nat), Counts(list)
        PROVE  list = [i \in 1..Len(list) |-> i]
    BY <2>2 DEF Counts
  <2> QED BY <2>1, <2>2
<1> QED
  BY AnswerInit, AnswerStep, <1>1, PTL DEF Spec

=============================================================================
