------------------------------ MODULE Streaming ------------------------------
(***************************************************************************)
(* One answer on its way from the web API to a client of the gateway:      *)
(* transport.stream() through a rotating proxy list, the SSE lines that    *)
(* HttpSession._iterate_stream() turns into events and bus messages, the   *)
(* reader of those events (StreamCollector, CompletionService, the method  *)
(* dispatcher) and the frames GatewayHandlers sends on.  The pieces of     *)
(* text of an answer are numbered: the text 1..n is the first n pieces.    *)
(***************************************************************************)
EXTENDS Integers, Sequences, FiniteSets

CONSTANTS
    Streams,     \* the answers asked for
    Asked,       \* per stream: the requests it may be asked for with
    Httpx,       \* the streams of sessions that use HttpxTransport
    Proxies,     \* how many proxies ListProxy rotates
    SkipFailed,  \* ListProxy.skip_failed_count
    MaxPieces,   \* bound on the pieces of text of an answer
    Pieces,      \* per stream: how many pieces its answer may have
    MaxEvents,   \* bound on the events a method stream has passed on when it
                 \* receives one more that is no text
    MaxSlips,    \* bound on the messages the bus delivers again or not at all
    CallPiece    \* the piece that completes a <tool_call> block

Modes == {"live",      \* CompletionService.stream, no custom tools
          "buffered",  \* CompletionService.stream with custom tools
          "json",      \* CompletionService.complete without tools, and text
          "tools",     \* CompletionService.complete with custom tools
          "method"}    \* MethodDispatchService.invoke_stream

\* What decides the mode: the route, whether a stream is wanted, which kinds of
\* tools the caller brings and whether tool_choice is "none".
Wishes == [route : {"chat", "invoke"}, stream : BOOLEAN,
           tools : SUBSET {"native", "custom"}, none : BOOLEAN]

\* split_tools: native tools are the server's affair, the custom ones are
\* emulated unless they are suppressed.
HasCustom(r) == "custom" \in r.tools /\ ~r.none

ModeOf(r) ==
    CASE r.route = "invoke" -> "method"
      [] r.route = "chat" /\ r.stream -> IF HasCustom(r) THEN "buffered" ELSE "live"
      [] r.route = "chat" /\ ~r.stream -> IF HasCustom(r) THEN "tools" ELSE "json"

ASSUME StreamingAssumption ==
    /\ IsFiniteSet(Streams) /\ Asked \in [Streams -> SUBSET Wishes] /\ Httpx \subseteq Streams
    /\ Proxies \in Nat \ {0} /\ SkipFailed \in Nat \ {0}
    /\ MaxPieces \in Nat /\ MaxEvents \in Nat /\ CallPiece \in Nat
    /\ MaxSlips \in Nat /\ Pieces \in [Streams -> 0..MaxPieces]

VARIABLES
    st,         \* per stream: pc and local variables of the coroutines
    sent,       \* per stream: what the server has sent (external)
    frames,     \* per stream: what the gateway's client has received
    cursor,     \* position of ListProxy's itertools.cycle
    failures,   \* ListProxy._failures
    unserved,   \* per proxy: get() calls since it was last chosen (history)
    bus,        \* messages on the bus, per kind, not handled yet
    metrics,    \* MessageMetrics: messages started and completed
    blacklist,  \* ProxyBlacklist: fail_count per proxy
    surplus,    \* per kind: handler runs beyond one per message (history)
    slips       \* how many messages slipped so far (history)

vars == <<st, sent, frames, cursor, failures, unserved, bus, metrics, blacklist, surplus, slips>>

Started == <<"started">>
Complete == <<"complete">>
Invalid(p) == <<"invalid", p>>
Kinds == {Started, Complete} \cup {Invalid(p) : p \in 1..Proxies}

\* The frames the gateway sends: its chunks, its events, its last words.
Role == <<"role">>
Text(n) == <<"text", n>>
ToolFrame == <<"calls">>
Finish == <<"finish">>
Event == <<"event">>
Error == <<"error">>
Done == <<"DONE">>

Init ==
    /\ st = [s \in Streams |-> [pc |-> "idle", mode |-> "none", proxy |-> 0,
              event |-> "none", data |-> "none", text |-> 0, got |-> 0, said |-> -1,
              uuid |-> "none"]]
    /\ sent = [s \in Streams |-> [phase |-> "start", pieces |-> 0]]
    /\ frames = [s \in Streams |-> <<>>]
    /\ cursor = 0 /\ failures = [p \in 1..Proxies |-> 0]
    /\ unserved = [p \in 1..Proxies |-> 0]
    /\ bus = [k \in Kinds |-> 0]
    /\ metrics = [started |-> 0, completed |-> 0]
    /\ blacklist = [p \in 1..Proxies |-> 0]
    /\ surplus = [k \in Kinds |-> 0] /\ slips = 0

proxyVars == <<cursor, failures, unserved>>
handlerVars == <<metrics, blacklist, surplus, slips>>

Publish(k) == bus' = [bus EXCEPT ![k] = @ + 1]
Put(s, fs) == frames' = [frames EXCEPT ![s] = @ \o fs]

---------------------------------------------------------------------------
(* The request, up to the upstream connection.                             *)

\* resolve_client and _prepare may refuse (no such account, no messages, the
\* conversation cannot be created).  A streamed answer has begun by then: the
\* refusal, like every later exception, is a frame of its own before DONE.
Plain == {"json", "tools"}
Refusal(mode) == IF mode \in Plain THEN <<Error>> ELSE <<Error, Done>>

\* stream() sends the role first, except where the answer is buffered.
Ask(s, r) ==
    LET mode == ModeOf(r)
    IN /\ st[s].pc = "idle"
       /\ \/ /\ st' = [st EXCEPT ![s].pc = "over", ![s].mode = mode]
             /\ Put(s, Refusal(mode))
          \/ /\ st' = [st EXCEPT ![s].pc = "connect", ![s].mode = mode]
             /\ Put(s, IF mode = "live" THEN <<Role>> ELSE <<>>)
       /\ UNCHANGED <<sent, proxyVars, bus, handlerVars>>

Fit(p) == failures[p] < SkipFailed
Place(i) == (i % Proxies) + 1

\* Mutant of TakeProxy: the search starts at the head of the list.
TakeFirstProxy(s) ==
    LET fit == {p \in 1..Proxies : Fit(p)}
        p   == IF fit = {} THEN 1 ELSE CHOOSE q \in fit : \A r \in fit : q <= r
    IN /\ cursor' = cursor
       /\ failures' = IF fit = {} THEN [q \in 1..Proxies |-> 0] ELSE failures
       /\ unserved' = [q \in 1..Proxies |->
                         IF q = p \/ ~Fit(q) THEN 0 ELSE unserved[q] + 1]
       /\ st' = [st EXCEPT ![s].pc = "dial", ![s].proxy = p]

\* ListProxy.get: the next fit proxy; when none is fit, all are forgiven.
TakeProxy(s) ==
    LET steps == {k \in 0..(Proxies - 1) : Fit(Place(cursor + k))}
        skip  == IF steps = {} THEN Proxies
                 ELSE CHOOSE k \in steps : \A j \in steps : k <= j
        p     == Place(cursor + skip)
    IN /\ cursor' = (cursor + skip + 1) % Proxies
       /\ failures' = IF steps = {} THEN [q \in 1..Proxies |-> 0] ELSE failures
       /\ unserved' = [q \in 1..Proxies |->
                         IF q = p \/ ~Fit(q) THEN 0 ELSE unserved[q] + 1]
       /\ st' = [st EXCEPT ![s].pc = "dial", ![s].proxy = p]

Connect(s) ==
    /\ st[s].pc = "connect"
    /\ TakeProxy(s)
    /\ UNCHANGED <<sent, frames, bus, handlerVars>>

\* The exception ends the reader and the handler's generator.
Raise(s) == /\ st' = [st EXCEPT ![s].pc = "over", ![s].proxy = 0,
                        ![s].event = "none", ![s].data = "none"]
            /\ Put(s, Refusal(st[s].mode))

\* ClientError: _on_failure reports and publishes, then NetworkError.
DialFails(s) ==
    /\ st[s].pc = "dial"
    /\ failures' = [failures EXCEPT ![st[s].proxy] = @ + 1]
    /\ Publish(Invalid(st[s].proxy))
    /\ Raise(s)
    /\ UNCHANGED <<sent, cursor, unserved, handlerVars>>

\* Connected: report_success.
Dialled(s) ==
    /\ st[s].pc = "dial"
    /\ failures' = [failures EXCEPT ![st[s].proxy] = 0]
    /\ st' = [st EXCEPT ![s].pc = "read", ![s].proxy = 0]
    /\ UNCHANGED <<sent, frames, cursor, unserved, bus, handlerVars>>

\* Connected, with a status of 400 or more: the proxy is well, the call raises.
Denied(s) ==
    /\ st[s].pc = "dial"
    /\ failures' = [failures EXCEPT ![st[s].proxy] = 0]
    /\ Raise(s)
    /\ UNCHANGED <<sent, cursor, unserved, bus, handlerVars>>

---------------------------------------------------------------------------
(* The server (external) sends message_start, pieces of text and other     *)
(* events (pings, blocks, limits, message_delta), and message_stop, each   *)
(* as an event line, data lines and a blank line, and may break off.  A    *)
(* delta that its model refuses is one of the other events: its text       *)
(* reaches nobody.                                                         *)

Sendable(s) ==
    CASE sent[s].phase = "start" -> {"start"}
      [] sent[s].phase = "body"  -> (IF sent[s].pieces < Pieces[s] THEN {"text"} ELSE {})
                                    \cup (IF st[s].mode = "method" /\ Len(frames[s]) >= MaxEvents
                                          THEN {} ELSE {"other"})
                                    \cup {"bare", "stop"}
      [] sent[s].phase = "stop"  -> {}

After(e, phase) == CASE e = "start" -> "body" [] e = "stop" -> "stop" [] OTHER -> phase

\* "event: e" and its "data: ..." lines, kept because the event is known; the
\* JSON may be broken, or there is no data, or MessageStart refuses it: the
\* event is a plain StreamEvent then.
EventLines(s, e, d) ==
    /\ st[s].pc = "read" /\ st[s].event = "none"
    /\ e \in Sendable(s)
    /\ d \in (IF e = "bare" THEN {"none"} ELSE {"ok", "broken"} \cup (IF e = "start" THEN {"odd"} ELSE {}))
    /\ sent' = [sent EXCEPT ![s] = [phase |-> After(e, @.phase),
                                    pieces |-> IF e = "text" THEN @.pieces + 1 ELSE @.pieces]]
    /\ st' = [st EXCEPT ![s].event = e, ![s].data = d]
    /\ UNCHANGED <<frames, proxyVars, bus, handlerVars>>

\* A blank line after an event without data: nothing to flush.
BlankLine(s) ==
    /\ st[s].pc = "read" /\ st[s].event = "bare"
    /\ st' = [st EXCEPT ![s].event = "none"]
    /\ UNCHANGED <<sent, frames, proxyVars, bus, handlerVars>>

\* A MessageStart: message_uuid is known and the message announced.
Announces(s) == st[s].event = "start" /\ st[s].data = "ok"

\* A blank line flushes the event: it is parsed, counted, published and
\* yielded to the reader.  parse_data raises StreamError on broken JSON.
Flush(s) ==
    /\ st[s].pc = "read" /\ st[s].event \notin {"none", "bare"}
    /\ IF st[s].data = "broken" THEN Raise(s) /\ UNCHANGED bus
       ELSE /\ st' = [st EXCEPT ![s].pc = "yield", ![s].data = "none",
                       ![s].text = IF st[s].event = "text" THEN @ + 1 ELSE @,
                       ![s].uuid = IF Announces(s) THEN "known" ELSE @]
            /\ IF Announces(s) THEN Publish(Started) ELSE UNCHANGED bus
            /\ UNCHANGED frames
    /\ UNCHANGED <<sent, proxyVars, handlerVars>>

\* Mutant of Cut: only the connection attempt is timed.
CutDials(s) ==
    /\ st[s].pc = "dial"
    /\ Raise(s)
    /\ UNCHANGED <<sent, proxyVars, bus, handlerVars>>

\* The connection breaks, the server is silent for too long, or (aiohttp) the
\* total time of the request has passed: no ClientError and no ConnectError
\* around the request, so no proxy is blamed.
Cut(s) ==
    /\ st[s].pc \in {"dial", "read"}
    /\ Raise(s)
    /\ UNCHANGED <<sent, proxyVars, bus, handlerVars>>

---------------------------------------------------------------------------
(* The reader: what each of them does with the event it was given, and     *)
(* when the events end.                                                    *)

Piece(s) == Text(st[s].got + 1)

\* Mutant of Reaction: the buffered reader streams as well.
ReactionStreams(s) ==
    CASE st[s].mode = "method" -> <<Event>>
      [] st[s].mode \in {"live", "buffered"} /\ st[s].event = "text" -> <<Piece(s)>>
      [] OTHER -> <<>>

Reaction(s) ==
    CASE st[s].mode = "method" -> <<Event>>
      [] st[s].mode = "live" /\ st[s].event = "text" -> <<Piece(s)>>
      [] OTHER -> <<>>

\* The reader takes the event and asks for the next one; after message_stop
\* the generator then publishes the completed message.
Take(s) ==
    /\ st[s].pc = "yield"
    /\ Put(s, Reaction(s))
    /\ st' = [st EXCEPT ![s].pc = "read", ![s].event = "none",
                ![s].got = IF st[s].event = "text" THEN @ + 1 ELSE @,
                ![s].said = IF st[s].event = "stop" THEN st[s].text ELSE @]
    /\ IF st[s].event = "stop" THEN Publish(Complete) ELSE UNCHANGED bus
    /\ UNCHANGED <<sent, proxyVars, handlerVars>>

\* parse_tool_calls finds the block when the piece that closes it is there.
ToolCalls(n) == CallPiece \in 1..n

\* complete() and text(): one JSON body.
Reply(mode, n) == IF mode = "tools" /\ ToolCalls(n) THEN <<ToolFrame>> ELSE <<Text(n)>>

\* Mutant of Answer: the tool calls end the frames.
AnswerReturnsEarly(mode, n) ==
    CASE mode = "live" -> <<Finish, Done>>
      [] mode = "method" -> <<Done>>
      [] mode \in Plain -> Reply(mode, n)
      [] mode = "buffered" /\ ToolCalls(n) -> <<Role, ToolFrame>>
      [] mode = "buffered" /\ ~ToolCalls(n) ->
           <<Role>> \o (IF n > 0 THEN <<Text(n)>> ELSE <<>>) \o <<Finish, Done>>

\* What is sent when the events have come to an end, n pieces having arrived.
Answer(mode, n) ==
    CASE mode = "live" -> <<Finish, Done>>
      [] mode = "method" -> <<Done>>
      [] mode \in Plain -> Reply(mode, n)
      [] mode = "buffered" /\ ToolCalls(n) -> <<Role, ToolFrame, Done>>
      [] mode = "buffered" /\ ~ToolCalls(n) ->
           <<Role>> \o (IF n > 0 THEN <<Text(n)>> ELSE <<>>) \o <<Finish, Done>>

\* Mutant of Eof: the end of the lines completes the message.
EofCompletes(s) ==
    /\ st[s].pc = "read"
    /\ st' = [st EXCEPT ![s].pc = "over", ![s].event = "none", ![s].data = "none",
                        ![s].said = st[s].text]
    /\ Put(s, Answer(st[s].mode, st[s].got))
    /\ Publish(Complete)
    /\ UNCHANGED <<sent, proxyVars, handlerVars>>

\* The lines end, after message_stop or in the middle of an event: the loop
\* is left, an unterminated event is forgotten, and nobody is told.
Eof(s) ==
    /\ st[s].pc = "read"
    /\ st' = [st EXCEPT ![s].pc = "over", ![s].event = "none", ![s].data = "none"]
    /\ Put(s, Answer(st[s].mode, st[s].got))
    /\ UNCHANGED <<sent, proxyVars, bus, handlerVars>>

\* The gateway's client goes away, or a reader stops reading: the generators
\* end where they stand.
Abandon(s) ==
    /\ st[s].pc \in {"read", "yield"}
    /\ st' = [st EXCEPT ![s].pc = "gone", ![s].event = "none", ![s].data = "none"]
    /\ UNCHANGED <<sent, frames, proxyVars, bus, handlerVars>>

---------------------------------------------------------------------------
(* The bus handlers; the bus delivers in any order.  When another          *)
(* subscriber of the event fails, the worker hands it to all of them again; *)
(* when a middleware of the bus raises, it goes to the dead letters unseen. *)

Taken(k) == bus[k] > 0 /\ bus' = [bus EXCEPT ![k] = @ - 1]

Slip(k, n) == /\ slips < MaxSlips /\ slips' = slips + 1
              /\ surplus' = [surplus EXCEPT ![k] = @ + n]

Handled(k) == \/ Taken(k) /\ UNCHANGED <<surplus, slips>>
              \/ bus[k] > 0 /\ UNCHANGED bus /\ Slip(k, 1)

OnStarted ==
    /\ Handled(Started)
    /\ metrics' = [metrics EXCEPT !.started = @ + 1]
    /\ UNCHANGED <<st, sent, frames, proxyVars, blacklist>>

OnComplete ==
    /\ Handled(Complete)
    /\ metrics' = [metrics EXCEPT !.completed = @ + 1]
    /\ UNCHANGED <<st, sent, frames, proxyVars, blacklist>>

OnInvalid(p) ==
    /\ Handled(Invalid(p))
    /\ blacklist' = [blacklist EXCEPT ![p] = @ + 1]
    /\ UNCHANGED <<st, sent, frames, proxyVars, metrics>>

Unseen(k) ==
    /\ Taken(k) /\ Slip(k, -1)
    /\ UNCHANGED <<st, sent, frames, proxyVars, metrics, blacklist>>

\* MessageMetrics.in_flight
InFlight == IF metrics.started >= metrics.completed
            THEN metrics.started - metrics.completed ELSE 0

---------------------------------------------------------------------------
Lines(s) == (\E e \in Sendable(s), d \in {"ok", "broken", "odd", "none"} : EventLines(s, e, d))
            \/ BlankLine(s) \/ Flush(s) \/ Cut(s) \/ Eof(s)

Step(s) == Connect(s) \/ DialFails(s) \/ Dialled(s) \/ Denied(s) \/ Lines(s) \/ Take(s)

Handle == \/ OnStarted \/ OnComplete \/ \E p \in 1..Proxies : OnInvalid(p)
          \/ \E k \in Kinds : Unseen(k)

Next == \/ \E s \in Streams : Step(s) \/ Abandon(s) \/ \E r \in Asked[s] : Ask(s, r)
        \/ Handle

\* ClientTimeout(total) counts the whole request, httpx.Timeout one read.
TotalTimeout == Streams \ Httpx

\* Ready coroutines run, a silent server is cut off, and the bus delivers.  A
\* server that sends on and on is cut off by the total timeout only.
Fairness == /\ \A s \in Streams : WF_vars(Step(s))
            /\ \A s \in TotalTimeout : SF_vars(Cut(s))
            /\ WF_vars(Handle)

Spec == Init /\ [][Next]_vars /\ Fairness

---------------------------------------------------------------------------
\* Type correctness; a dropped or doubled count shows as a count out of range.
TypeOK ==
    /\ \A s \in Streams : /\ st[s].mode \in Modes \cup {"none"}
                          /\ st[s].got \in 0..MaxPieces /\ st[s].text \in 0..MaxPieces
    /\ cursor \in 0..(Proxies - 1)
    /\ \A p \in 1..Proxies : blacklist[p] + bus[Invalid(p)] <= Cardinality(Streams) + MaxSlips
    /\ metrics.started \in 0..Cardinality(Streams) + MaxSlips
    /\ metrics.completed \in 0..Cardinality(Streams) + MaxSlips

\* http.py:318 _iterate_stream: a message is announced as completed only when
\* all that the server sent of it was read, and then with its whole text.
CompleteIsWhole ==
    \A s \in Streams : st[s].said >= 0 =>
        /\ sent[s].phase = "stop"
        /\ st[s].said = sent[s].pieces /\ st[s].got = sent[s].pieces

\* Where the text stands among the frames.
TextAt(f) == {i \in 1..Len(f) : f[i][1] = "text"}

\* completion_service.py:119 stream(): the client receives the pieces in the
\* order of the server, none twice and none left out, however the stream ends;
\* a buffered or plain answer is its text in one piece, or its tool calls.
TextInOrder ==
    \A s \in Streams :
        LET f  == frames[s]
            ts == TextAt(f)
        IN IF st[s].mode = "live"
           THEN ts = 2..(st[s].got + 1) /\ \A i \in ts : f[i] = Text(i - 1)
           ELSE \A i \in ts : ts = {i} /\ f[i] = Text(st[s].got)

\* handlers.py:191 _completion_sse, _methods_sse: every streamed answer ends
\* with exactly one DONE, and what comes before it ends in one of a finish, the
\* tool calls or an error, each of them once.
EndsOnce ==
    \A s \in Streams : st[s].pc = "over" /\ st[s].mode \notin Plain =>
        LET f == frames[s]
        IN /\ Len(f) > 0 /\ f[Len(f)] = Done
           /\ \A i \in 1..(Len(f) - 1) : f[i] # Done
           /\ Cardinality({i \in 1..Len(f) : f[i] \in {Finish, ToolFrame, Error}}) =
                IF st[s].mode = "method" /\ Error \notin {f[i] : i \in 1..Len(f)} THEN 0 ELSE 1

\* Read by its reader, past message_start and not past message_stop.
UnderWay(s) ==
    /\ st[s].pc \in {"read", "yield"}
    /\ sent[s].phase # "start" /\ ~(st[s].event = "start" /\ st[s].pc = "read")
    /\ ~(sent[s].phase = "stop" /\ st[s].event = "none")

Ended(s) == st[s].pc \in {"over", "gone"}

\* Announced and never completed, for good.
BrokenOff(s) == st[s].uuid = "known" /\ Ended(s) /\ st[s].said < 0

\* Completed and never announced: MessageStart refused its data.
Nameless(s) == st[s].uuid # "known" /\ st[s].said >= 0

Positive(n) == IF n >= 0 THEN n ELSE 0

\* handlers.py:109 MessageMetrics.in_flight, on which LeastInFlightSelector
\* routes: once the bus is quiet it differs from the announced messages that
\* are under way by what is never put right, and by nothing else.  Too high: a
\* message that broke off, an announcement delivered twice.  Too low: a
\* completion without announcement, one delivered twice.
InFlightExact ==
    (\A k \in Kinds : bus[k] = 0) =>
        InFlight = Positive(Cardinality({s \in Streams : st[s].uuid = "known" /\ UnderWay(s)})
                            + Cardinality({s \in Streams : BrokenOff(s)})
                            - Cardinality({s \in Streams : Nameless(s)})
                            + surplus[Started] - surplus[Complete])

\* list.py:31 ListProxy.get: a fit proxy is chosen at least once in as many
\* get() calls as there are proxies, whatever fails in between.
RotationFair == \A p \in 1..Proxies : Fit(p) => unserved[p] < Proxies

\* aiohttp.py:42, httpx.py:49: every answer that is asked for comes to its end,
\* though the server may break off or fall silent anywhere; over httpx a server
\* that sends for ever is read for ever.
EveryAnswerEnds ==
    /\ \A s \in TotalTimeout : (st[s].pc = "connect") ~> Ended(s)
    /\ \A s \in Httpx : ((st[s].pc = "connect") ~> Ended(s)) \/ []<>(st[s].event # "none")

=============================================================================
