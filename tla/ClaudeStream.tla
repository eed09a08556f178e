----------------------------- MODULE ClaudeStream -----------------------------
(***************************************************************************)
(* An OpenAI stream answered as a Claude stream. The direct conversion     *)
(* (relay/claude.go, convertOpenAIStreamToClaude) reads the stream's       *)
(* channels itself; the piped one (convertOpenAIStreamToClaudeWithTrans-   *)
(* former and the two stages of relay/transformer) reads them through a    *)
(* goroutine and three pipes. The producer is streamReader with            *)
(* HandlerChatStream; both channels are unbuffered, so a send and its      *)
(* receive are one step. When the conversion returns, the request is       *)
(* settled by what the provider's Usage says then.                         *)
(*                                                                         *)
(* A chunk is what it has in its first choice: a delta of one kind (the    *)
(* tool calls it continues are told by their index), finish_reason or not, *)
(* usage or not. The upstream sends as providers do: thinking until its    *)
(* signature, then text, then tool calls one after the other, then the     *)
(* finish reason, and maybe its usage in a chunk without choices.          *)
(***************************************************************************)
EXTENDS Naturals, Sequences, FiniteSets

CONSTANTS
  MaxChunks,        (* bound: the chunks with a delta *)
  UsageComes        (* of {"finish", "after", "never"}: where the usage comes *)

ASSUME ClaudeAssumption ==
  MaxChunks \in Nat /\ UsageComes \subseteq {"finish", "after", "never"}

Ways == {"direct", "piped"}
Tools == <<"tool0", "tool1">>

Chunk(delta, tools, finish, usage) ==
  [delta |-> delta, tools |-> tools, finish |-> finish, usage |-> usage]
NoChunk == Chunk("none", <<>>, FALSE, FALSE)

VARIABLES
  way, plan,        (* the conversion; where this upstream reports its usage *)
  stage, chunks,    (* the upstream: what came last; chunks sent *)
  producer, line,   (* streamReader: where it is, the chunk it offers *)
  reported,         (* history: the upstream has reported its usage *)
  usage,            (* the provider's Usage: nothing, an estimate, a report *)
  pump, pipe,       (* piped: the goroutine, and what is in the pipes *)
  conv, out,        (* the conversion's variables; the events it has written *)
  there,            (* the client is connected *)
  caller, billed    (* the handler; the usage it has settled *)

claudeVars == <<way, plan, stage, chunks, producer, line, reported, usage,
                pump, pipe, conv, out, there, caller, billed>>
upstreamVars == <<way, plan, stage, chunks>>

(* direct: hasStarted, isThinkingStarted, hasTextContentStarted, the known
   tool calls and toolCallChunks > 0, contentIndex, isClosed, hasFinished;
   piped: block is toolCallIndexToContentBlockIndex *)
FreshConversion ==
  [started |-> FALSE, thinking |-> FALSE, text |-> FALSE, tools |-> {},
   block |-> [i \in 0..1 |-> 0], index |-> 0, closed |-> FALSE, finished |-> FALSE]

(* Events. *)

Event(ev, index, of) == [ev |-> ev, index |-> index, of |-> of]
Message(ev) == Event(ev, 0, "message")

(* Left out: an event that is not due. *)
If(due, e) == IF due THEN <<e>> ELSE <<>>

ClaudeInit ==
  /\ way \in Ways /\ plan \in UsageComes
  /\ stage = "start" /\ chunks = 0
  /\ producer = "reads" /\ line = NoChunk /\ reported = FALSE /\ usage = "none"
  /\ pump = "on" /\ pipe = <<>>
  /\ conv = FreshConversion
  /\ out = If(way = "piped", Message("message_start"))
  /\ there = TRUE /\ caller = "converts" /\ billed = "nothing"

Live(c) == ~c.closed /\ ~c.finished

(* The variables after the tool calls of a chunk, two at most, and the events
   they become. *)
AfterTools(After(_, _), c, tools) ==
  IF Len(tools) = 2 THEN After(After(c, tools[1]), tools[2]) ELSE After(c, tools[1])
EventsOfTools(After(_, _), EventsOf(_, _), c, tools) ==
  IF Len(tools) = 2 THEN EventsOf(c, tools[1]) \o EventsOf(After(c, tools[1]), tools[2])
  ELSE EventsOf(c, tools[1])

-----------------------------------------------------------------------------
(* The direct conversion of a chunk. *)

Thought(c, signed) ==
  If(~c.thinking, Event("start", c.index, "think"))
  \o <<Event("delta", c.index, "think")>>
  \o If(signed, Event("stop", c.index, "think"))

Said(c) ==
  If(~c.text, Event("start", c.index, "text")) \o <<Event("delta", c.index, "text")>>

(* processToolCallDelta: a new index closes the block before it. *)
IsNew(c, t) == t \notin c.tools
(* Mutant: only the block of a text is closed. *)
ClosesText(c, t) == IsNew(c, t) /\ c.text /\ c.tools = {}
Closes(c, t) == IsNew(c, t) /\ (c.text \/ c.tools # {})
AfterCall(c, t) ==
  [c EXCEPT !.tools = @ \cup {t}, !.index = IF Closes(c, t) THEN @ + 1 ELSE @]
Called(c, t) ==
  LET i == AfterCall(c, t).index
  IN If(Closes(c, t), Event("stop", c.index, "any"))
     \o If(IsNew(c, t), Event("start", i, Tools[t + 1]))
     \o <<Event("delta", i, Tools[t + 1])>>

AfterDelta(c, x) ==
  CASE x.delta = "think" -> [c EXCEPT !.thinking = TRUE]
    [] x.delta = "sign"  -> [c EXCEPT !.thinking = TRUE, !.index = @ + 1]
    [] x.delta = "text"  -> [c EXCEPT !.text = TRUE]
    [] x.delta = "tools" -> AfterTools(AfterCall, c, x.tools)
    [] OTHER             -> c

(* The events that end the message, at the finish reason and at EOF. *)
Ended(c) ==
  If(c.text \/ c.tools # {}, Event("stop", c.index, "any"))
  \o <<Message("message_delta"), Message("message_stop")>>

Converted(c, x) ==
  If(~c.started, Message("message_start"))
  \o CASE x.delta \in {"think", "sign"} -> Thought(c, x.delta = "sign")
       [] x.delta = "text"              -> Said(c)
       [] x.delta = "tools"             -> EventsOfTools(AfterCall, Called, c, x.tools)
       [] OTHER                         -> <<>>

-----------------------------------------------------------------------------
(* The piped conversion of a chunk: TransformStreamResponseOut passes text and
   tool calls on, TransformStreamResponseIn makes the events. *)

PipedAfterCall(c, t) ==
  IF ~IsNew(c, t) THEN c
  ELSE [c EXCEPT !.text = FALSE, !.tools = @ \cup {t},
                 !.block[t] = Cardinality(c.tools), !.index = Cardinality(c.tools)]
PipedCalled(c, t) ==
  LET i == PipedAfterCall(c, t).block[t]
  IN If(IsNew(c, t) /\ c.text, Event("stop", c.index, "text"))
     \o If(IsNew(c, t), Event("start", i, Tools[t + 1]))
     \o <<Event("delta", i, Tools[t + 1])>>

PipedAfterDelta(c, x) ==
  CASE x.delta = "text"  -> [c EXCEPT !.text = TRUE]
    [] x.delta = "tools" -> AfterTools(PipedAfterCall, c, x.tools)
    [] OTHER             -> c

(* The blocks of the tool calls are closed at the end; in the code in any
   order. *)
PipedEnded(c) ==
  If(c.text, Event("stop", c.index, "text"))
  \o If(0 \in c.tools, Event("stop", c.block[0], "tool0"))
  \o If(1 \in c.tools, Event("stop", c.block[1], "tool1"))
  \o <<Message("message_delta"), Message("message_stop")>>

Piped(c, x) ==
  CASE x.delta = "text"  -> Said(c)
    [] x.delta = "tools" -> EventsOfTools(PipedAfterCall, PipedCalled, c, x.tools)
    [] OTHER             -> <<>>

-----------------------------------------------------------------------------
(* The producer: a line is read, its usage is noted, and it is offered. *)

NextTools(last) ==
  CASE last = "tool0" -> {<<0>>, <<1>>}
    [] last = "tool1" -> {<<1>>}
    [] OTHER          -> {<<0>>, <<0, 1>>}
Deltas ==
  CASE stage = "think"             -> {<<"think", <<>>>>, <<"sign", <<>>>>}
    [] stage = "start"             -> {<<"role", <<>>>>, <<"think", <<>>>>, <<"text", <<>>>>}
                                      \cup {<<"tools", t>> : t \in NextTools(stage)}
    [] stage \in {"sign", "text"}  -> {<<"text", <<>>>>} \cup {<<"tools", t>> : t \in NextTools(stage)}
    [] stage \in {"tool0", "tool1"} -> {<<"tools", t>> : t \in NextTools(stage)}
    [] OTHER                       -> {}
StageAfter(d) == IF d[1] = "tools" THEN Tools[d[2][Len(d[2])] + 1]
                 ELSE IF d[1] = "role" THEN "start" ELSE d[1]

Offer(x) ==
  /\ line' = x /\ producer' = "offers"
  /\ usage' = IF x.usage THEN "reported" ELSE usage
  /\ reported' = (reported \/ x.usage)

(* A chunk, and with it maybe the finish reason. *)
ReadChunk ==
  /\ producer = "reads" /\ chunks < MaxChunks /\ chunks' = chunks + 1
  /\ \E d \in Deltas, finish \in BOOLEAN :
       /\ finish => d[1] # "think"
       /\ Offer(Chunk(d[1], d[2], finish, finish /\ plan = "finish"))
       /\ stage' = IF finish THEN "finished" ELSE StageAfter(d)
  /\ UNCHANGED <<way, plan, pump, pipe, conv, out, there, caller, billed>>

(* The finish reason in a chunk of its own. *)
ReadFinish ==
  /\ producer = "reads" /\ stage \in {"sign", "text", "tool0", "tool1"}
  /\ stage' = "finished"
  /\ Offer(Chunk("none", <<>>, TRUE, plan = "finish"))
  /\ UNCHANGED <<way, plan, chunks, pump, pipe, conv, out, there, caller, billed>>

(* The chunk without choices is not passed on. *)
ReadUsage ==
  /\ producer = "reads" /\ stage = "finished" /\ plan = "after"
  /\ stage' = "accounted" /\ reported' = TRUE /\ usage' = "reported"
  /\ UNCHANGED <<way, plan, chunks, producer, line, pump, pipe, conv, out, there, caller, billed>>

(* [DONE]: EOF is sent and waits for its receiver. *)
ReadDone ==
  /\ producer = "reads"
  /\ stage = IF plan = "after" THEN "accounted" ELSE "finished"
  /\ producer' = "offersEOF"
  /\ UNCHANGED <<upstreamVars, line, reported, usage, pump, pipe, conv, out, there, caller, billed>>

(* The connection ends early, or breaks: the error waits for a second. *)
ReadEnds ==
  /\ producer = "reads" /\ producer' \in {"offersEnd", "offersError"}
  /\ UNCHANGED <<upstreamVars, line, reported, usage, pump, pipe, conv, out, there, caller, billed>>

(* An error in the stream itself waits for its receiver, and is followed by
   the next line. *)
ReadFailure ==
  /\ producer = "reads" /\ stage \notin {"finished", "accounted"}
  /\ producer' = "offersFailure"
  /\ UNCHANGED <<upstreamVars, line, reported, usage, pump, pipe, conv, out, there, caller, billed>>

(* Who receives: the conversion itself, or the goroutine of the pipes. *)
Receiving ==
  IF way = "direct" THEN caller = "converts" ELSE pump = "on" /\ Len(pipe) < 3

GiveUp ==
  /\ producer \in {"offersEnd", "offersError"} /\ ~Receiving
  /\ producer' = "gone"
  /\ UNCHANGED <<upstreamVars, line, reported, usage, pump, pipe, conv, out, there, caller, billed>>

Offers == {"offersEOF", "offersEnd", "offersError", "offersFailure"}
AfterOffer == IF producer = "offersFailure" THEN "reads" ELSE "gone"

-----------------------------------------------------------------------------
(* The direct conversion's loop. *)

(* writeSSEEventInternal: with the client gone nothing is written and the
   first event closes; what the chunk would still have done is not done. *)
Write(events, after) ==
  IF there \/ events = <<>>
  THEN out' = out \o events /\ conv' = after
  ELSE conv' = [conv EXCEPT !.closed = TRUE] /\ UNCHANGED out

ConvertChunk ==
  LET c == [AfterDelta(conv, line) EXCEPT !.started = TRUE]
      ends == line.finish /\ (there \/ Converted(conv, line) = <<>>)
  IN /\ Write(Converted(conv, line) \o (IF ends /\ there THEN Ended(c) ELSE <<>>),
              [c EXCEPT !.finished = ends, !.closed = ends])
     /\ usage' = IF ends /\ ~line.usage THEN "estimate" ELSE usage

(* A chunk; without usage in the chunk of the finish reason, an estimate is
   written into the provider's Usage. *)
TakeChunk ==
  /\ way = "direct" /\ caller = "converts" /\ producer = "offers"
  /\ producer' = "reads" /\ line' = NoChunk
  /\ IF conv.closed THEN UNCHANGED <<conv, out, usage>> ELSE ConvertChunk
  /\ caller' = IF conv.closed \/ conv'.finished THEN "returned" ELSE caller
  /\ UNCHANGED <<upstreamVars, reported, pump, pipe, there, billed>>

(* Mutant: an error does not end the loop. *)
TakeEndOnlyAtEOF ==
  /\ way = "direct" /\ caller = "converts" /\ producer \in Offers
  /\ producer' = AfterOffer
  /\ caller' = IF producer = "offersError" THEN caller ELSE "returned"
  /\ IF producer \in {"offersEOF", "offersEnd"} /\ Live(conv)
     THEN /\ Write(Ended(conv), conv)
          /\ usage' = IF reported THEN usage ELSE "estimate"
     ELSE UNCHANGED <<conv, out, usage>>
  /\ UNCHANGED <<upstreamVars, line, reported, pump, pipe, there, billed>>

(* EOF ends the message, unless it is closed; any error ends the loop. *)
TakeEnd ==
  /\ way = "direct" /\ caller = "converts" /\ producer \in Offers
  /\ producer' = AfterOffer /\ caller' = "returned"
  /\ IF producer \in {"offersEOF", "offersEnd"} /\ Live(conv)
     THEN /\ Write(Ended(conv), conv)
          /\ usage' = IF reported THEN usage ELSE "estimate"
     ELSE UNCHANGED <<conv, out, usage>>
  /\ UNCHANGED <<upstreamVars, line, reported, pump, pipe, there, billed>>

-----------------------------------------------------------------------------
(* The pipes. Behind a conversion that has ended, what is pumped is lost. *)

PumpChunk ==
  /\ way = "piped" /\ pump = "on" /\ producer = "offers"
  /\ caller = "converts" => Len(pipe) < 3
  /\ producer' = "reads" /\ line' = NoChunk
  /\ pipe' = IF caller = "converts" THEN Append(pipe, line) ELSE <<>>
  /\ UNCHANGED <<upstreamVars, reported, usage, pump, conv, out, there, caller, billed>>

PumpEnds ==
  /\ way = "piped" /\ pump = "on" /\ producer \in Offers \cup {"gone"}
  /\ producer' = AfterOffer /\ pump' = "off"
  /\ UNCHANGED <<upstreamVars, line, reported, usage, pipe, conv, out, there, caller, billed>>

ConvertPiped ==
  /\ way = "piped" /\ caller = "converts"
  /\ IF pipe # <<>>
     THEN LET x == Head(pipe)
              c == PipedAfterDelta(conv, x)
          IN /\ pipe' = Tail(pipe)
             /\ out' = out \o Piped(conv, x) \o (IF x.finish THEN PipedEnded(c) ELSE <<>>)
             /\ conv' = [c EXCEPT !.finished = x.finish]
             /\ caller' = IF x.finish THEN "returned" ELSE caller
     ELSE pump = "off" /\ caller' = "returned" /\ UNCHANGED <<pipe, conv, out>>
  /\ UNCHANGED <<upstreamVars, producer, line, reported, usage, pump, there, billed>>

-----------------------------------------------------------------------------
ClientLeaves ==
  /\ there /\ caller = "converts" /\ there' = FALSE
  /\ UNCHANGED <<upstreamVars, producer, line, reported, usage, pump, pipe, conv, out, caller, billed>>

(* The request is settled by the provider's Usage. *)
SettleStream ==
  /\ caller = "returned" /\ caller' = "settled" /\ billed' = usage
  /\ UNCHANGED <<upstreamVars, producer, line, reported, usage, pump, pipe, conv, out, there>>

ReadLine == ReadChunk \/ ReadFinish \/ ReadUsage \/ ReadDone \/ ReadEnds \/ ReadFailure
Convert == TakeChunk \/ TakeEnd \/ ConvertPiped
PumpStep == PumpChunk \/ PumpEnds

ClaudeNext == ReadLine \/ GiveUp \/ Convert \/ PumpStep \/ ClientLeaves \/ SettleStream

(* The goroutines go on and the upstream sends or the connection ends; only
   the client need not leave. No step can be taken for ever, so that some step
   is taken where one can be is enough. *)
ClaudeProgress == ReadLine \/ GiveUp \/ Convert \/ PumpStep \/ SettleStream

ClaudeSpec == ClaudeInit /\ [][ClaudeNext]_claudeVars /\ WF_claudeVars(ClaudeProgress)

-----------------------------------------------------------------------------
(* Properties. *)

Position == DOMAIN out
StartsBefore(n) == {m \in Position : m < n /\ out[m].ev = "start"}
IsStopped(i, from, n) == \E m \in Position : from < m /\ m < n /\ out[m].ev = "stop" /\ out[m].index = i
(* The starts whose block is open at position n. *)
OpenAt(n) == {m \in StartsBefore(n) : ~IsStopped(out[m].index, m, n)}

(* The message has the shape a Claude client reads: a delta and a stop name a
   block that is open, and one of the delta's kind; nothing follows
   message_stop, and then every block is closed but a thinking without its
   signature. The direct conversion has one block open at a time and numbers
   the blocks as they come. *)
BlocksAreWellFormed ==
  \A n \in Position :
    /\ out[n].ev = "delta" => \E m \in OpenAt(n) : out[m].index = out[n].index /\ out[m].of = out[n].of
    /\ out[n].ev = "stop" => \E m \in OpenAt(n) : out[m].index = out[n].index
    /\ out[n].ev = "message_stop" => n = Len(out) /\ \A m \in OpenAt(n) : out[m].of = "think"
    /\ way = "direct" /\ out[n].ev = "start" =>
         OpenAt(n) = {} /\ out[n].index = Cardinality(StartsBefore(n))

(* The usage is estimated only where the upstream reports none
   (relay/claude.go:1211, "for the computation when the upstream does not
   provide usage"). *)
EstimatedOnlyIfUnreported ==
  caller = "settled" /\ there /\ reported => billed = "reported"
=============================================================================
