------------------------------ MODULE StreamRelay ------------------------------
(****************************************************************************)
(* A streamed answer on its way from the provider to the client: a task of  *)
(* penny-providers cuts the bytes of the body into events, maps them and    *)
(* sends lines into a channel; the channel waits in the adapter's map until *)
(* the handler takes it; a task of penny-proxy forwards the lines to the    *)
(* client and settles the request to the usage they report.                 *)
(*                                                                          *)
(* A body is a sequence of events, each ended by a separator or cut off:    *)
(*   start  message_start, or the first chunk of OpenAI  (counts 1 token)   *)
(*   delta  some text; ansi: text with an escape sequence of a terminal     *)
(*   usage  message_delta, or OpenAI's chunk with usage  (counts 3 tokens)  *)
(*   stop   message_stop, or `data: [DONE]`                                 *)
(*   ping   an event without data that either side knows                    *)
(* An event is one symbol of the wire, its separator two or four.  The mock *)
(* provider has no wire: its lines are ready when the handler asks.         *)
(****************************************************************************)
EXTENDS Integers, Sequences, FiniteSetsExt, SequencesExt

CONSTANTS
  Streams,
  Answers,    \* of each stream: provider, format of the ingress, and body
  Threads,    \* worker threads: handlers that run at the same instant
  MaxPending, \* MAX_PENDING_STREAMS
  Ttl,        \* PENDING_STREAM_TTL
  MaxLag,     \* bound on the time a thread is held up between two statements
  ChannelCap, ClientCap,
  StripAnsi   \* cleanup.strip_ansi

ASSUME PendingAssumption ==
  /\ {Threads, MaxPending, Ttl, MaxLag} \subseteq Nat
  /\ Threads <= MaxPending /\ MaxLag <= Ttl

VARIABLES
  handler, \* of each stream: where the request's handler is, then its relay
  stream,  \* how far each stream is, and the local variables of its tasks
  pending  \* the adapter's map, from its streams to their ages

vars == <<handler, stream, pending>>

None == -1
Unopened ==
  [path |-> [provider |-> "none", ingress |-> "none"], body |-> << >>,
   pos |-> 0, buffer |-> << >>, role |-> FALSE, done |-> FALSE, tokens |-> None,
   out |-> << >>, producer |-> "none", channel |-> << >>, lines |-> << >>, sawDone |-> FALSE,
   client |-> "reading", unread |-> 0, usage |-> None]

Init ==
  /\ handler = [s \in Streams |-> "idle"] /\ pending = << >>
  /\ stream = [s \in Streams |-> Unopened]

Set(s, r) == stream' = [stream EXCEPT ![s] = r]
Goto(s, at) == handler' = [handler EXCEPT ![s] = at]

--------------------------------------------------------------------------------
(* The bytes of a body, and their way back into events                      *)

Separators == [lf |-> <<"lf", "lf">>, crlf |-> <<"cr", "lf", "cr", "lf">>, cut |-> << >>]
Events == {"start", "delta", "ansi", "usage", "stop", "ping"}
Items == [event : Events, sep : DOMAIN Separators]

(* The provider that MockProvider imitates is that of the ingress.          *)
Shape(path) == IF path.provider = "mock" THEN path.ingress ELSE path.provider

(* What the providers' protocols say of a body: nothing follows an event    *)
(* that is cut off; Anthropic counts once at the start and again later, and *)
(* does not start a second time after that.                                 *)
WellFormed(path, body) ==
  /\ path \in [provider : {"openai", "anthropic", "mock"}, ingress : {"openai", "anthropic"}]
  /\ body \in Seq(Items)
  /\ \A i \in DOMAIN body : body[i].sep = "cut" => i = Len(body)
  /\ Shape(path) = "anthropic" =>
       \A j \in DOMAIN body : body[j].event = "usage" =>
         /\ \E i \in 1..j : body[i].event = "start"
         /\ \A i \in j..Len(body) : body[i].event # "start"

ASSUME AnswersAssumption ==
  \A s \in Streams : \A answer \in Answers[s] : WellFormed(answer.path, answer.body)

Symbols(item) == <<item.event>> \o Separators[item.sep]
Bytes(body) == FlattenSeq([i \in DOMAIN body |-> Symbols(body[i])])

(* find_sse_delimiter: the first place where a separator is complete.       *)
IsAt(sep, buffer, i) == i + Len(sep) - 1 <= Len(buffer)
                        /\ SubSeq(buffer, i, i + Len(sep) - 1) = sep
Delimiters(buffer) ==
  {d \in (1..Len(buffer)) \X {"lf", "crlf"} : IsAt(Separators[d[2]], buffer, d[1])}
FirstOf(delimiters) == {d \in delimiters : \A other \in delimiters : d[1] <= other[1]}

(* Mutant: every separator is taken to be two bytes long.                   *)
BehindTwo(buffer, d) == SubSeq(buffer, d[1] + 2, Len(buffer))

(* drain_sse_events: what is before a delimiter, and what is behind it.     *)
Before(buffer, d) == SubSeq(buffer, 1, d[1] - 1)
Behind(buffer, d) == SubSeq(buffer, d[1] + Len(Separators[d[2]]), Len(buffer))

Trim(raw) ==
  LET kept == {i \in DOMAIN raw : raw[i] \notin {"cr", "lf"}} IN
  IF kept = {} THEN << >> ELSE SubSeq(raw, Min(kept), Max(kept))

Line(text, tokens) == [text |-> text, tokens |-> tokens]

Counts(path, event) ==
  CASE event = "start" /\ Shape(path) = "anthropic" -> 1
    [] event = "usage" -> 3
    [] OTHER -> None

(* map_stream_event, for an OpenAI client of Anthropic: what the event does *)
(* to the state of the stream, and the lines it becomes.                    *)
Translate(r, event) ==
  LET lines == CASE event = "start" /\ ~r.role -> <<Line(<<"role">>, None)>>
                 [] event \in {"delta", "ansi"} -> <<Line(<<event>>, None)>>
                 [] event = "stop" -> <<Line(<<"final">>, IF r.tokens = None THEN 0 ELSE r.tokens),
                                        Line(<<"stop">>, None)>>
                 [] OTHER -> << >>
      counted == Counts(r.path, event)
  IN [r EXCEPT !.tokens = IF counted = None THEN @ ELSE counted, !.out = @ \o lines,
               !.role = @ \/ event = "start", !.done = event = "stop"]

Forwarded(path, raw) ==
  Line(IF path.provider = "openai" THEN Trim(raw) ELSE raw, Counts(path, Last(Trim(raw))))

IsTranslated(path) == path.provider = "anthropic" /\ path.ingress = "openai"

(* One turn of the inner loop of the producer's task: native Anthropic and  *)
(* OpenAI bodies pass event by event, until the last one.                   *)
Emit(r, raw) ==
  IF IsTranslated(r.path) THEN Translate(r, Last(Trim(raw)))
  ELSE [r EXCEPT !.out = Append(@, Forwarded(r.path, raw)), !.done = Trim(raw) = <<"stop">>]

--------------------------------------------------------------------------------
(* The adapter: send, the producer's task, and the map of streams           *)

Fresh(entries) == Restrict(entries, {s \in DOMAIN entries : entries[s] <= Ttl})
Insert(entries, s) ==
  [e \in DOMAIN entries \cup {s} |-> IF e = s THEN 0 ELSE entries[e]]

(* The maps with `size` entries of the latest; any of those of the same age.*)
Latest(entries, size) ==
  {Restrict(entries, kept) : kept \in
     {kept \in SUBSET DOMAIN entries :
        /\ Cardinality(kept) = size
        /\ \A s \in kept, gone \in DOMAIN entries \ kept : entries[s] <= entries[gone]}}

(* Mutant: a map that is full makes room although it need not.              *)
PruneOverflowFull(entries) ==
  IF Cardinality(DOMAIN entries) >= MaxPending THEN Latest(entries, MaxPending - 1) ELSE {entries}

(* prune_overflow_stream: the oldest go until the map is not too large.     *)
PruneOverflow(entries) ==
  IF Cardinality(DOMAIN entries) > MaxPending THEN Latest(entries, MaxPending) ELSE {entries}

(* send starts the producer and puts its channel into the map; the handler  *)
(* takes it in the same poll of its future, on the same thread.             *)
Open(s, answer) ==
  /\ handler[s] = "idle" /\ answer.path.provider # "mock"
  /\ Cardinality({other \in Streams : handler[other] = "opened"}) < Threads
  /\ Goto(s, "opened")
  /\ Set(s, [Unopened EXCEPT !.path = answer.path, !.body = answer.body,
                             !.producer = "reading"])
  /\ pending' \in PruneOverflow(Insert(Fresh(pending), s))

(* MockProvider: send and take_stream_receiver need no map.  The two blocks *)
(* around an Anthropic delta are events without a count.                    *)
MockBody(ingress) ==
  LET events == IF ingress = "anthropic"
                THEN <<"start", "ping", "delta", "ping", "usage", "stop">>
                ELSE <<"start", "delta", "usage", "stop">>
  IN  [i \in DOMAIN events |-> [event |-> events[i], sep |-> "lf"]]

OpenMock(s, path) ==
  LET body == MockBody(path.ingress) IN
  /\ handler[s] = "idle" /\ path.provider = "mock" /\ Goto(s, "relayed")
  /\ Set(s, [Unopened EXCEPT !.path = path, !.body = body,
                !.pos = Len(Bytes(body)), !.producer = "reading", !.done = TRUE,
                !.out = [i \in DOMAIN body |-> Forwarded(path, <<body[i].event>>)]])
  /\ UNCHANGED pending

(* take_stream_receiver; a stream that is gone is answered with a 501 and   *)
(* its reservation released.                                                *)
Take(s) ==
  LET live == Fresh(pending) IN
  /\ handler[s] = "opened"
  /\ pending' = Restrict(live, DOMAIN live \ {s})
  /\ Goto(s, IF s \in DOMAIN live THEN "relayed" ELSE "refused")
  /\ UNCHANGED stream

(* Time passes for the entries of the map.                                  *)
Age ==
  /\ pending # << >> /\ \A s \in DOMAIN pending : pending[s] < MaxLag
  /\ pending' = [s \in DOMAIN pending |-> pending[s] + 1]
  /\ UNCHANGED <<handler, stream>>

(* The receiver is dropped with its entry, or with the proxy's task.        *)
Dropped(s) ==
  \/ handler[s] \in {"refused", "settled"}
  \/ handler[s] = "opened" /\ s \notin DOMAIN pending

(* The next bytes of the body, however the network cut them.                *)
ReceiveChunk(s) ==
  LET r == stream[s]
      bytes == Bytes(r.body)
  IN
  /\ r.producer = "reading" /\ r.out = << >> /\ Delimiters(r.buffer) = {}
  /\ \E n \in 1..(Len(bytes) - r.pos) :
       Set(s, [r EXCEPT !.pos = @ + n, !.buffer = @ \o SubSeq(bytes, r.pos + 1, r.pos + n)])
  /\ UNCHANGED <<handler, pending>>

(* One complete event after the other leaves the buffer; one that is blank  *)
(* is skipped.                                                              *)
TakeEvent(s) ==
  LET r == stream[s] IN
  /\ r.producer = "reading" /\ r.out = << >>
  /\ \E d \in FirstOf(Delimiters(r.buffer)) :
       LET raw == Before(r.buffer, d)
           taken == [r EXCEPT !.buffer = Behind(@, d)]
       IN  Set(s, IF Trim(raw) = << >> THEN taken ELSE Emit(taken, raw))
  /\ UNCHANGED <<handler, pending>>

(* The mock's channel has room for all its lines.                           *)
Room(r) == Len(r.channel) < IF r.path.provider = "mock" THEN Len(r.body) ELSE ChannelCap

(* tx.send: waits for room; without a receiver the task returns, and after  *)
(* the last line of a stream, too.                                          *)
SendLine(s) ==
  LET r == stream[s] IN
  /\ r.producer = "reading" /\ r.out # << >>
  /\ \/ /\ Dropped(s)
        /\ Set(s, [r EXCEPT !.producer = "gone", !.out = << >>])
     \/ /\ ~Dropped(s) /\ Room(r)
        /\ Set(s, [r EXCEPT !.channel = Append(@, Head(r.out)), !.out = Tail(@),
                           !.producer = IF r.done /\ Len(r.out) = 1 THEN "gone" ELSE @])
  /\ UNCHANGED <<handler, pending>>

(* Mutant: the client of the adapter has no timeout.                        *)
BodyEndsWithoutTimeout(s) ==
  LET r == stream[s]
      rest == Trim(r.buffer)
  IN
  /\ r.producer = "reading" /\ r.out = << >> /\ Delimiters(r.buffer) = {}
  /\ r.pos = Len(Bytes(r.body))
  /\ Set(s, IF r.path.provider = "openai" /\ rest # << >>
            THEN [r EXCEPT !.buffer = << >>, !.out = <<Forwarded(r.path, rest)>>, !.done = TRUE]
            ELSE [r EXCEPT !.producer = "gone"])
  /\ UNCHANGED <<handler, pending>>

(* The body ends, breaks off, or reaches the timeout of the client, at any  *)
(* byte.  OpenAI's task sends what is left in its buffer as a last line.    *)
BodyEnds(s) ==
  LET r == stream[s]
      rest == Trim(r.buffer)
  IN
  /\ r.producer = "reading" /\ r.out = << >> /\ Delimiters(r.buffer) = {}
  /\ Set(s, IF r.path.provider = "openai" /\ rest # << >>
            THEN [r EXCEPT !.buffer = << >>, !.out = <<Forwarded(r.path, rest)>>, !.done = TRUE]
            ELSE [r EXCEPT !.producer = "gone"])
  /\ UNCHANGED <<handler, pending>>

--------------------------------------------------------------------------------
(* The proxy's task: stream_passthrough_response                            *)

(* cleanup_sse_line: lines that are one field of data are cleaned; those of *)
(* Anthropic name their event first and keep what JSON has escaped.         *)
Cleaned(path, line) ==
  IF StripAnsi /\ (IsTranslated(path) \/ Shape(path) = "openai")
  THEN [line EXCEPT !.text = [i \in DOMAIN @ |-> IF @[i] = "ansi" THEN "delta" ELSE @[i]]]
  ELSE line

(* stream_chunk_is_terminal: `data: [DONE]`, or `event: message_stop` for   *)
(* an Anthropic client, which a body of OpenAI never has.                   *)
IsTerminal(path, line) ==
  Last(line.text) = "stop" /\ ~(path.provider = "openai" /\ path.ingress = "anthropic")

Counted(lines) == {i \in DOMAIN lines : lines[i].tokens # None}

(* Mutant: for an Anthropic client, too, the first count is taken.          *)
FirstUsage(path, lines) ==
  IF Counted(lines) = {} \/ (path.provider = "openai" /\ path.ingress = "anthropic")
  THEN None ELSE lines[Min(Counted(lines))].tokens

(* provider_usage_from_sse_lines: the first line with usage for an OpenAI   *)
(* client; for an Anthropic one the last count, if the start was seen.      *)
(* None stands for estimated_usage_from_request.                            *)
Usage(path, lines) ==
  IF path.ingress = "openai"
  THEN IF Counted(lines) = {} THEN None ELSE lines[Min(Counted(lines))].tokens
  ELSE IF Shape(path) = "anthropic" /\ \E i \in DOMAIN lines : lines[i].text = <<"start">>
  THEN lines[Max(Counted(lines))].tokens ELSE None

Settle(s, r) ==
  Goto(s, "settled") /\ Set(s, [r EXCEPT !.channel = << >>, !.usage = Usage(r.path, r.lines)])

(* One line to the client.  The task ends at the terminal line, or when the *)
(* client is gone; a client that does not read makes it wait.               *)
RelayLine(s) ==
  LET r == stream[s]
      line == Cleaned(r.path, Head(r.channel))
      read == [r EXCEPT !.channel = Tail(@), !.lines = Append(@, line),
                        !.sawDone = IsTerminal(r.path, line)]
      sent == [read EXCEPT !.unread = @ + 1]
  IN
  /\ handler[s] = "relayed" /\ r.channel # << >>
  /\ \/ r.client = "gone" /\ Settle(s, read)
     \/ /\ r.client = "reading" /\ r.unread < ClientCap
        /\ IF sent.sawDone THEN Settle(s, sent) ELSE Set(s, sent) /\ UNCHANGED handler
  /\ UNCHANGED pending

(* The channel is closed and empty: the stream is marked as incomplete.     *)
RelayEnds(s) ==
  /\ handler[s] = "relayed" /\ stream[s].channel = << >> /\ stream[s].producer = "gone"
  /\ Settle(s, stream[s]) /\ UNCHANGED pending

ClientReads(s) ==
  /\ stream[s].client = "reading" /\ stream[s].unread > 0
  /\ Set(s, [stream[s] EXCEPT !.unread = @ - 1]) /\ UNCHANGED <<handler, pending>>

ClientLeaves(s) ==
  /\ handler[s] \in {"relayed", "settled"} /\ stream[s].client = "reading"
  /\ Set(s, [stream[s] EXCEPT !.client = "gone", !.unread = 0])
  /\ UNCHANGED <<handler, pending>>

Next ==
  \/ \E s \in Streams :
       \/ \E answer \in Answers[s] : Open(s, answer) \/ OpenMock(s, answer.path)
       \/ Take(s) \/ ReceiveChunk(s) \/ TakeEvent(s) \/ SendLine(s) \/ BodyEnds(s)
       \/ RelayLine(s) \/ RelayEnds(s) \/ ClientReads(s) \/ ClientLeaves(s)
  \/ Age

Spec == Init /\ [][Next]_vars

(* tokio runs every task that can move; the timeout of the adapter's client *)
(* bounds a whole response; a client reads on or leaves.                    *)
Fairness ==
  \A s \in Streams :
    /\ WF_vars(Take(s)) /\ WF_vars(TakeEvent(s)) /\ WF_vars(SendLine(s))
    /\ WF_vars(BodyEnds(s)) /\ WF_vars(RelayLine(s)) /\ WF_vars(RelayEnds(s))
    /\ WF_vars(ClientReads(s) \/ ClientLeaves(s))

LiveSpec == Spec /\ Fairness

--------------------------------------------------------------------------------
(* What a reader of the whole body would forward                            *)

SymbolsThrough(body, i) == Len(Bytes(SubSeq(body, 1, i)))

(* The events received with their separators, up to the first stop.         *)
Complete(r) ==
  LET stops == {i \in DOMAIN r.body : r.body[i].event = "stop"} IN
  {i \in DOMAIN r.body :
     /\ SymbolsThrough(r.body, i) <= r.pos /\ r.body[i].sep # "cut"
     /\ \A j \in stops : i <= j}

(* The event whose separator is missing, which OpenAI's task sends too.     *)
CutOff(r) ==
  LET complete == Complete(r) IN
  IF r.path.provider # "openai" THEN {}
  ELSE {i \in DOMAIN r.body :
          /\ i \notin complete /\ SymbolsThrough(r.body, i - 1) < r.pos
          /\ \A j \in 1..(i - 1) : j \in complete /\ r.body[j].event # "stop"}

Plain(path, event) ==
  IF StripAnsi /\ event = "ansi" /\ (path.provider = "openai" \/ path.ingress = "openai")
  THEN "delta" ELSE event

Rendered(r, i) ==
  LET event == r.body[i].event IN
  IF ~IsTranslated(r.path) THEN << <<Plain(r.path, event)>> >>
  ELSE CASE event = "start" /\ \A j \in 1..(i - 1) : r.body[j].event # "start" -> << <<"role">> >>
         [] event \in {"delta", "ansi"} -> << <<Plain(r.path, event)>> >>
         [] event = "stop" -> << <<"final">>, <<"stop">> >>
         [] OTHER -> << >>

Forwardable(r) ==
  LET passed == Complete(r) \cup CutOff(r) IN
  FlattenSeq([i \in DOMAIN r.body |-> IF i \in passed THEN Rendered(r, i) ELSE << >>])

(* However the network cuts the body into chunks, and wherever it breaks    *)
(* off, the client is sent the lines of its events, in order and once,      *)
(* cleaned one by one where they can be, and nothing after the last.        *)
RelayedInOrder ==
  \A s \in Streams :
    IsPrefix([i \in DOMAIN stream[s].lines |-> stream[s].lines[i].text], Forwardable(stream[s]))

(* The provider's own count at the end of a body, None if it reports none.  *)
Reported(r) ==
  LET events == {r.body[i].event : i \in Complete(r) \cup CutOff(r)} IN
  IF "usage" \in events THEN 3
  ELSE IF Shape(r.path) = "anthropic" /\ "start" \in events THEN 1
  ELSE IF IsTranslated(r.path) THEN 0 ELSE None

(* A stream that is settled as complete was forwarded to its last line and  *)
(* is charged what the provider reported for the whole of it.               *)
CompleteIsCharged ==
  \A s \in Streams :
    LET r == stream[s] IN
    handler[s] = "settled" /\ r.sawDone =>
      /\ Len(r.lines) = Len(Forwardable(r))
      /\ r.usage = Reported(r)

(* The channel of a stream is there when its handler takes it, with the     *)
(* room and the lifetime that the number of threads needs.                  *)
OpenedIsFound == \A s \in Streams : handler[s] # "refused"

(* A stream that was opened is settled and its producer ends, whether the   *)
(* provider goes on, stops or stays silent.                                 *)
StreamsSettle ==
  \A s \in Streams :
    handler[s] \in {"opened", "relayed"} ~> handler[s] = "settled" /\ stream[s].producer = "gone"
================================================================================
