---------------------------- MODULE AuditRecorder ----------------------------
(***************************************************************************)
(* The request audit of one request: internal/audit/session.go, which      *)
(* watches the inbound body and every exchange with an upstream, and       *)
(* internal/audit/recorder.go, the bounded queue and its worker.           *)
(*                                                                         *)
(* A chunk of a body is one event. The writer behind the worker is module  *)
(* AuditArchive; here a write succeeds or fails.                           *)
(***************************************************************************)
EXTENDS Naturals, FiniteSets, Sequences

CONSTANTS
  Exchanges,        (* the exchanges with upstreams, of all attempts *)
  MaxChunks,        (* bound: how many chunks a body has *)
  QueueSlots,       (* the capacity of the queue, in events: 1024 *)
  QueueBytes,       (* MaxQueueBytes, where a body event costs 2 and others 1 *)
  MaxFailures       (* bound: how many writes fail *)

Inbound == "inbound"
Sources == Exchanges \cup {Inbound}

ASSUME RecorderAssumption ==
  /\ Inbound \notin Exchanges
  /\ {MaxChunks, QueueSlots, QueueBytes, MaxFailures} \subseteq Nat

VARIABLES
  handler,          (* where the handler of the request is *)
  active, matched,  (* session.active, session.matched *)
  listed,           (* session.exchanges *)
  ending,           (* what a closure of BeginAttempt still has to finish *)
  body,             (* the inbound body: chunks observed and buffered, reason, outcome *)
  sent,             (* how many of its chunks Finish has emitted, more than
                       MaxChunks after a drop *)
  exchange,         (* per exchange: its state, chunks observed, reason *)
  queue, queued,    (* recorder.queue, recorder.queued *)
  closed, hand,     (* recorder.closed; the events the worker is writing *)
  worker,
  accepted,         (* history: how many events enqueue took *)
  written,          (* per source: what the writer was given, in order *)
  failures          (* recorder.writeErrors *)

sessionVars == <<handler, active, matched, listed, ending, body, sent, exchange>>
recorderVars == <<queue, queued, closed, hand, worker, accepted, written, failures>>
auditVars == <<sessionVars, recorderVars>>

HandlerStates ==
  {"before", "attempt", "closing", "between", "finish", "request", "over"}
ExchangeStates == {"none", "sent", "open", "reading", "ended"}

(* How a body ended: by its end or in any of the other ways the code names. *)
Outcomes == {"", "eof", "cut"}

AuditInit ==
  /\ handler = "before" /\ active = FALSE /\ matched = FALSE
  /\ listed = {} /\ ending = {}
  /\ body \in [observed : {0}, captured : {0}, reason : {""}, outcome : {"", "eof"}]
  /\ sent = 0
  /\ exchange = [e \in Exchanges |->
       [state |-> "none", observed |-> 0, reason |-> "", outcome |-> ""]]
  /\ queue = <<>> /\ queued = 0 /\ closed = FALSE /\ hand = <<>>
  /\ worker = "running" /\ accepted = 0 /\ failures = 0
  /\ written = [s \in Sources |-> <<>>]

-----------------------------------------------------------------------------
(* The queue. *)

Event(source, kind, incomplete) ==
  [source |-> source, kind |-> kind, incomplete |-> incomplete]

Cost(event) == IF event.kind = "body" THEN 2 ELSE 1

(* Mutant: only the channel is asked. *)
HasSlot(event) == ~closed /\ Len(queue) < QueueSlots

HasRoom(event) ==
  /\ ~closed
  /\ queued + Cost(event) <= QueueBytes
  /\ Len(queue) < QueueSlots

(* enqueue never waits: without room the event is dropped. *)
Enqueue(event) ==
  IF HasRoom(event)
  THEN /\ queue' = Append(queue, event)
       /\ queued' = queued + Cost(event)
       /\ accepted' = accepted + 1
       /\ UNCHANGED <<closed, hand, worker, written, failures>>
  ELSE UNCHANGED recorderVars

(* The worker takes an event, writes it, and only then gives its room back. *)
Take ==
  /\ worker = "running" /\ hand = <<>> /\ queue # <<>>
  /\ hand' = <<Head(queue)>> /\ queue' = Tail(queue)
  /\ UNCHANGED <<queued, closed, worker, accepted, written, failures, sessionVars>>

WriteEvent ==
  /\ hand # <<>>
  /\ LET event == hand[1] IN
     /\ \/ written' = [written EXCEPT ![event.source] = Append(@, event)] /\ UNCHANGED failures
        \/ failures < MaxFailures /\ failures' = failures + 1 /\ UNCHANGED written
     /\ queued' = queued - Cost(event)
  /\ hand' = <<>>
  /\ UNCHANGED <<queue, closed, worker, accepted, sessionVars>>

CloseRecorder ==
  /\ ~closed /\ closed' = TRUE
  /\ UNCHANGED <<queue, queued, hand, worker, accepted, written, failures, sessionVars>>

(* Mutant: the worker ends as soon as the queue is closed. *)
WorkerEndsEarly ==
  /\ worker = "running" /\ hand = <<>> /\ closed
  /\ worker' = "done"
  /\ UNCHANGED <<queue, queued, closed, hand, accepted, written, failures, sessionVars>>

(* A closed channel is read to its end. *)
WorkerEnds ==
  /\ worker = "running" /\ hand = <<>> /\ closed /\ queue = <<>>
  /\ worker' = "done"
  /\ UNCHANGED <<queue, queued, closed, hand, accepted, written, failures, sessionVars>>

-----------------------------------------------------------------------------
(* The inbound body, as whoever parses the request or sends it on reads it. *)

(* Finish holds the session's lock, and sets finished at its beginning. *)
SessionIsFree == handler \in {"before", "attempt", "closing", "between"}

(* capture: the buffer may be full, or the room for all buffers. *)
ReadInbound ==
  /\ SessionIsFree /\ body.outcome = "" /\ body.observed < MaxChunks
  /\ \E reason \in IF body.reason = "" THEN {"", "limit"} ELSE {"limit"},
        outcome \in {"", "eof", "cut"} :
       body' = [observed |-> body.observed + 1,
                captured |-> IF reason = "" THEN body.captured + 1 ELSE body.captured,
                reason |-> reason, outcome |-> outcome]
  /\ UNCHANGED <<handler, active, matched, listed, ending, sent, exchange, recorderVars>>

CloseInbound ==
  /\ SessionIsFree /\ body.outcome = ""
  /\ body' = [body EXCEPT !.outcome = "cut"]
  /\ UNCHANGED <<handler, active, matched, listed, ending, sent, exchange, recorderVars>>

-----------------------------------------------------------------------------
(* Exchanges. An exchange that is reading or ended has its lock taken or its
   end emitted; everything else about it is one step under its lock. *)

(* Mutant: nobody looks at what enqueue returns. *)
ReasonUnchecked(e, event) == exchange[e].reason

(* A lost event leaves its exchange incomplete. *)
Reason(e, event) ==
  IF HasRoom(event) /\ exchange[e].reason = "" THEN "" ELSE "incomplete"

(* BeginHTTP, of an attempt whose channel the filter selects. *)
BeginHTTP(e) ==
  /\ SessionIsFree /\ active /\ exchange[e].state = "none"
  /\ matched' = TRUE /\ listed' = listed \cup {e}
  /\ LET event == Event(e, "start", FALSE) IN
     /\ Enqueue(event)
     /\ exchange' = [exchange EXCEPT ![e].state = "sent", ![e].reason = Reason(e, event)]
  /\ UNCHANGED <<handler, active, ending, body, sent>>

(* finishLocked, whoever calls it: the end is emitted once. *)
EndOf(e, outcome) ==
  Event(e, "end", outcome # "eof" \/ exchange[e].reason # "")

FinishLocked(e, outcome) ==
  /\ Enqueue(EndOf(e, outcome))
  /\ exchange' = [exchange EXCEPT ![e].state = "ended", ![e].outcome = ""]

(* Response: the headers arrive, or the request has failed. *)
ResponseStarts(e) ==
  /\ exchange[e].state = "sent"
  /\ LET event == Event(e, "start", FALSE) IN
     /\ Enqueue(event)
     /\ exchange' = [exchange EXCEPT ![e].state = "open", ![e].reason = Reason(e, event)]
  /\ UNCHANGED <<handler, active, matched, listed, ending, body, sent>>

ResponseFails(e) ==
  /\ exchange[e].state = "sent"
  /\ FinishLocked(e, "cut")
  /\ UNCHANGED <<handler, active, matched, listed, ending, body, sent>>

(* Read by the handler, or by the drain after it: a chunk is emitted unless
   something is missing already or the response is too long. *)
ReadResponse(e) ==
  /\ exchange[e].state = "open" /\ exchange[e].observed < MaxChunks
  /\ \E outcome \in {"", "eof", "cut"} :
       LET event == Event(e, "body", FALSE)
           emitted(reason) ==
             exchange' = [exchange EXCEPT ![e] =
               [state    |-> IF outcome = "" THEN "open" ELSE "reading",
                observed |-> @.observed + 1, reason |-> reason, outcome |-> outcome]]
       IN \/ exchange[e].reason = "" /\ Enqueue(event) /\ emitted(Reason(e, event))
          \/ UNCHANGED recorderVars /\ emitted("incomplete")
  /\ UNCHANGED <<handler, active, matched, listed, ending, body, sent>>

(* The rest of the same call, which still holds the lock. *)
ReadEndsResponse(e) ==
  /\ exchange[e].state = "reading"
  /\ FinishLocked(e, exchange[e].outcome)
  /\ UNCHANGED <<handler, active, matched, listed, ending, body, sent>>

(* The last Read may return no data, and Close ends an exchange too. *)
EndsWithoutData(e) ==
  /\ exchange[e].state = "open"
  /\ \E outcome \in {"eof", "cut"} : FinishLocked(e, outcome)
  /\ UNCHANGED <<handler, active, matched, listed, ending, body, sent>>

-----------------------------------------------------------------------------
(* The handler. *)

BeginAttempt ==
  /\ handler \in {"before", "between"}
  /\ handler' = "attempt" /\ active' = TRUE
  /\ UNCHANGED <<matched, listed, ending, body, sent, exchange, recorderVars>>

(* The closure of BeginAttempt: the list is taken under the lock, and its
   exchanges are finished after it. *)
FinishAttempt ==
  /\ handler = "attempt"
  /\ handler' = "closing" /\ active' = FALSE
  /\ ending' = listed /\ listed' = {}
  /\ UNCHANGED <<matched, body, sent, exchange, recorderVars>>

(* exchange.finish waits for a Read under the exchange's lock. *)
Finished(e) ==
  IF exchange[e].state = "ended" THEN UNCHANGED <<exchange, recorderVars>>
  ELSE exchange[e].state # "reading" /\ FinishLocked(e, "cut")

FinishExchange(e) ==
  /\ handler = "closing" /\ e \in ending
  /\ Finished(e)
  /\ ending' = ending \ {e}
  /\ UNCHANGED <<handler, active, matched, listed, body, sent>>

AttemptIsOver ==
  /\ handler = "closing" /\ ending = {}
  /\ handler' = "between"
  /\ UNCHANGED <<active, matched, listed, ending, body, sent, exchange, recorderVars>>

(* Finish is deferred: it also comes after a panic in an attempt. *)
FinishSession ==
  /\ handler \in {"before", "attempt", "between"}
  /\ handler' = "finish"
  /\ UNCHANGED <<active, matched, listed, ending, body, sent, exchange, recorderVars>>

FinishListed(e) ==
  /\ handler = "finish" /\ e \in listed
  /\ Finished(e)
  /\ listed' = listed \ {e}
  /\ UNCHANGED <<handler, active, matched, ending, body, sent>>

(* A request without a selected exchange leaves no trace. Otherwise its start,
   the chunks until one is dropped, and its end. *)
Dropped(event) == ~HasRoom(event)

EmitRequestStart ==
  /\ handler = "finish" /\ listed = {}
  /\ LET event == Event(Inbound, "start", FALSE) IN
     IF matched
     THEN /\ Enqueue(event)
          /\ sent' = IF Dropped(event) THEN MaxChunks + 1 ELSE 0
          /\ handler' = "request"
     ELSE handler' = "over" /\ UNCHANGED <<sent, recorderVars>>
  /\ UNCHANGED <<active, matched, listed, ending, body, exchange>>

EmitRequestBody ==
  /\ handler = "request" /\ sent < body.captured
  /\ LET event == Event(Inbound, "body", FALSE) IN
     /\ Enqueue(event)
     /\ sent' = IF Dropped(event) THEN MaxChunks + 1 ELSE sent + 1
  /\ UNCHANGED <<handler, active, matched, listed, ending, body, exchange>>

EmitRequestEnd ==
  /\ handler = "request" /\ sent >= body.captured
  /\ Enqueue(Event(Inbound, "end",
       body.outcome # "eof" \/ body.reason # "" \/ sent > MaxChunks))
  /\ handler' = "over"
  /\ UNCHANGED <<active, matched, listed, ending, body, sent, exchange>>

HandlerStep ==
  \/ AttemptIsOver \/ EmitRequestStart \/ EmitRequestBody \/ EmitRequestEnd
  \/ \E e \in Exchanges : FinishExchange(e) \/ FinishListed(e)

AuditNext ==
  \/ ReadInbound \/ CloseInbound \/ BeginAttempt \/ FinishAttempt \/ FinishSession
  \/ HandlerStep
  \/ \E e \in Exchanges :
       BeginHTTP(e) \/ ResponseStarts(e) \/ ResponseFails(e) \/ ReadResponse(e)
       \/ ReadEndsResponse(e) \/ EndsWithoutData(e)
  \/ Take \/ WriteEvent \/ CloseRecorder \/ WorkerEnds

AuditSpec == AuditInit /\ [][AuditNext]_auditVars

-----------------------------------------------------------------------------
(* Properties. *)

AuditTypeOK ==
  /\ handler \in HandlerStates /\ active \in BOOLEAN /\ matched \in BOOLEAN
  /\ listed \subseteq Exchanges /\ ending \subseteq Exchanges
  /\ body.outcome \in Outcomes /\ body.observed \in 0..MaxChunks /\ sent \in 0..(MaxChunks + 1)
  /\ \A e \in Exchanges :
       /\ exchange[e].state \in ExchangeStates /\ exchange[e].outcome \in Outcomes
       /\ exchange[e].observed \in 0..MaxChunks
  /\ Len(queue) <= QueueSlots /\ queued \in 0..QueueBytes
  /\ closed \in BOOLEAN /\ Len(hand) <= 1 /\ worker \in {"running", "done"}

Times(kind, s) == Cardinality({i \in DOMAIN written[s] : written[s][i].kind = kind})

(* How many chunks of a source were read, and how many events start it. *)
Observed(s) == IF s = Inbound THEN body.observed ELSE exchange[s].observed
StartsOf(s) == IF s = Inbound THEN 1 ELSE 2

(* A record that says it is complete is: as long as no write has failed, its
   start and every chunk that was read were written before its end, nothing
   comes after it, and no source has two ends. The queue may drop any event,
   a drain may read on after the handler, an attempt may panic
   (internal/audit/session.go, finishLocked and Finish). *)
CompleteMeansWhole ==
  \A s \in Sources :
    \A i \in DOMAIN written[s] :
      written[s][i].kind = "end" =>
        /\ i = Len(written[s])
        /\ ~written[s][i].incomplete /\ failures = 0 =>
             Times("start", s) = StartsOf(s) /\ Times("body", s) = Observed(s)

WrittenLines == UNION {{<<s, i>> : i \in DOMAIN written[s]} : s \in Sources}
Bytes(events) == Len(events) + Cardinality({i \in DOMAIN events : events[i].kind = "body"})

(* What the queue has taken is accounted for: it is waiting, in the worker's
   hand, written or counted as a write error, the reserved bytes are those of
   what waits, and when the worker has ended nothing waits
   (internal/audit/recorder.go). *)
AcceptedIsAccountedFor ==
  /\ accepted = Len(queue) + Len(hand) + failures + Cardinality(WrittenLines)
  /\ queued = Bytes(queue) + Bytes(hand)
  /\ worker = "done" => queue = <<>> /\ hand = <<>>
=============================================================================
