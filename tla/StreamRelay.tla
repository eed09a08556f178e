----------------------------- MODULE StreamRelay -----------------------------
(***************************************************************************)
(* Relaying one SSE stream: the producer goroutine that reads the upstream *)
(* (streamReader.processLines and the provider's line handler), the        *)
(* consumer goroutine that writes to the client (responseStreamClient),    *)
(* the request's handler that waits for it and closes the reader, and the  *)
(* drain goroutine of DrainAndClose. DataChan and ErrChan are unbuffered:  *)
(* a send and its receive are one step.                                    *)
(*                                                                         *)
(* Timers fire only while the step they compete with is blocked: a second  *)
(* or more is longer than any step that needs no network.                  *)
(***************************************************************************)
EXTENDS Naturals

CONSTANTS
  MaxLines,       (* bound: lines the upstream sends                        *)
  IdleTimeout     (* streamIdleTimeout > 0                                  *)

ASSUME ConstantsAssumption == MaxLines \in Nat /\ IdleTimeout \in BOOLEAN

VARIABLES
  (* the producer: where it is, the error ReadBytes returned with the line,
     lines read, lines that changed Usage, lines to be relayed *)
  producer, readErr, lines, accounted, offered,
  (* the channels and the response body *)
  errClosed, dataClosed, bodyClosed,
  (* the consumer: where it is, clientDisconnected, finalErr # nil, data lines
     written, [DONE] written; the session of the attempt *)
  consumer, disconnected, finalErr, delivered, doneWritten, session,
  (* the handler and the drain goroutine; Close gave up waiting *)
  handler, drain, closeTimedOut,
  (* the client's context is done *)
  clientGone

producerVars == <<producer, readErr, lines, accounted, offered>>
channelVars == <<errClosed, dataClosed, bodyClosed>>
consumerVars == <<consumer, disconnected, finalErr, delivered, doneWritten, session>>
handlerVars == <<handler, drain, closeTimedOut>>
vars == <<producerVars, channelVars, consumerVars, handlerVars, clientGone>>

Init ==
  /\ producer = "read" /\ readErr = "none"
  /\ lines = 0 /\ accounted = 0 /\ offered = 0
  /\ errClosed = FALSE /\ dataClosed = FALSE /\ bodyClosed = FALSE
  /\ consumer = "select" /\ disconnected = FALSE /\ finalErr = FALSE
  /\ delivered = 0 /\ doneWritten = FALSE /\ session = "not_started"
  /\ handler = "wait" /\ drain = "off" /\ closeTimedOut = FALSE
  /\ clientGone = FALSE

(* A panic in the consumer's goroutine ends the process. *)
Running == consumer # "crashed"

-----------------------------------------------------------------------------
(* The producer: processLines, handleLine, HandlerChatStream. *)

LineKinds == {"data", "usage", "done", "failure", "ignored"}
ReadErrors == {"none", "eof", "broken"}

(* ReadBytes returns a line, an error, or both; the line is handled first. A
   data line is accounted before it is offered on DataChan; a line with the
   final usage alone is not relayed. *)
ReadLine(kind, e) ==
  /\ Running /\ producer = "read" /\ lines < MaxLines
  /\ lines' = lines + 1
  /\ readErr' = e
  /\ accounted' = IF kind \in {"data", "usage"} THEN accounted + 1 ELSE accounted
  /\ offered' = IF kind = "data" THEN offered + 1 ELSE offered
  /\ producer' = CASE kind = "data"    -> "sendData"
                   [] kind = "done"    -> "sendDone"
                   [] kind = "failure" -> "sendFailure"
                   [] OTHER            -> IF e = "none" THEN "read" ELSE "sendReadErr"
  /\ UNCHANGED <<channelVars, consumerVars, handlerVars, clientGone>>

(* The read ends without a line, at the latest because the body was closed. *)
ReadEnds(e) ==
  /\ Running /\ producer = "read"
  /\ readErr' = e
  /\ producer' = "sendReadErr"
  /\ UNCHANGED <<lines, accounted, offered, channelVars,
                 consumerVars, handlerVars, clientGone>>

(* Mutant: the timer is armed by the second line. *)
IdleFiresFromSecondLine ==
  /\ Running /\ IdleTimeout /\ producer = "read" /\ lines > 1
  /\ bodyClosed' = TRUE
  /\ readErr' = "broken"
  /\ producer' = "sendReadErr"
  /\ UNCHANGED <<lines, accounted, offered, errClosed, dataClosed,
                 consumerVars, handlerVars, clientGone>>

(* No data for streamIdleTimeout; the timer is armed by the first line. *)
IdleFires ==
  /\ Running /\ IdleTimeout /\ producer = "read" /\ lines > 0
  /\ bodyClosed' = TRUE
  /\ readErr' = "broken"
  /\ producer' = "sendReadErr"
  /\ UNCHANGED <<lines, accounted, offered, errClosed, dataClosed,
                 consumerVars, handlerVars, clientGone>>

(* The line handler panics: the deferred closes run, Recv recovers. *)
HandlerPanics ==
  /\ Running /\ producer = "read" /\ lines < MaxLines
  /\ lines' = lines + 1
  /\ accounted' \in {accounted, accounted + 1}
  /\ producer' = "closeErr"
  /\ UNCHANGED <<readErr, offered, channelVars,
                 consumerVars, handlerVars, clientGone>>

(* Nobody takes the read error for a second: the consumer is held up by a slow
   client, or the drain has given up. *)
ReadErrTimesOut ==
  /\ Running /\ producer = "sendReadErr"
  /\ consumer = "write" \/ drain = "expired"
  /\ producer' = "closeErr"
  /\ UNCHANGED <<readErr, lines, accounted, offered, channelVars,
                 consumerVars, handlerVars, clientGone>>

(* The deferred closes, last one first. *)
CloseErrChan ==
  /\ Running /\ producer = "closeErr"
  /\ errClosed' = TRUE
  /\ producer' = "closeData"
  /\ UNCHANGED <<readErr, lines, accounted, offered, dataClosed, bodyClosed,
                 consumerVars, handlerVars, clientGone>>

CloseDataChan ==
  /\ Running /\ producer = "closeData"
  /\ dataClosed' = TRUE
  /\ producer' = "exited"
  /\ UNCHANGED <<readErr, lines, accounted, offered, errClosed, bodyClosed,
                 consumerVars, handlerVars, clientGone>>

Sending == {"sendData", "sendFailure", "sendDone", "sendReadErr"}

(* What the producer does when its send has been received. *)
ProducerResumes ==
  /\ producer' = IF producer \in {"sendDone", "sendReadErr"} THEN "closeErr"
                 ELSE IF readErr # "none" THEN "sendReadErr" ELSE "read"
  /\ UNCHANGED <<readErr, lines, accounted, offered>>

-----------------------------------------------------------------------------
(* The consumer: the select loop of responseStreamClient. *)

Selecting == consumer = "select"

(* stream.Session.RecordData refuses a terminal session. *)
RecordData(state) == IF state = "terminal" THEN state ELSE "data_sent"

(* tryWrite records the output in the session, then writes; it does nothing
   once the client is known to be gone. *)
ReceiveData ==
  /\ Selecting /\ producer = "sendData"
  /\ ProducerResumes
  /\ IF disconnected
     THEN UNCHANGED <<consumer, session>>
     ELSE consumer' = "write" /\ session' = RecordData(session)
  /\ UNCHANGED <<disconnected, finalErr, delivered, doneWritten, channelVars,
                 handlerVars, clientGone>>

WriteSucceeds ==
  /\ Running /\ consumer = "write"
  /\ delivered' = delivered + 1
  /\ consumer' = "select"
  /\ UNCHANGED <<disconnected, finalErr, doneWritten, session, producerVars,
                 channelVars, handlerVars, clientGone>>

(* Mutant: the failed write is not remembered. *)
WriteFailsForgotten ==
  /\ Running /\ consumer = "write" /\ clientGone
  /\ session' = "terminal"
  /\ consumer' = "select"
  /\ UNCHANGED <<disconnected, finalErr, delivered, doneWritten, producerVars,
                 channelVars, handlerVars, clientGone>>

WriteFails ==
  /\ Running /\ consumer = "write" /\ clientGone
  /\ disconnected' = TRUE
  /\ session' = "terminal"
  /\ consumer' = "select"
  /\ UNCHANGED <<finalErr, delivered, doneWritten, producerVars, channelVars,
                 handlerVars, clientGone>>

AtEOF == producer = "sendDone" \/ (producer = "sendReadErr" /\ readErr = "eof")

(* Mutant: [DONE] is written past tryWrite. *)
ReceiveEOFUnchecked ==
  /\ Selecting /\ AtEOF
  /\ ProducerResumes
  /\ doneWritten' = TRUE
  /\ session' = "terminal"
  /\ consumer' = "returned"
  /\ UNCHANGED <<disconnected, finalErr, delivered, channelVars,
                 handlerVars, clientGone>>

(* io.EOF, from [DONE] or from the end of the body: tryWrite [DONE]. *)
ReceiveEOF ==
  /\ Selecting /\ AtEOF
  /\ ProducerResumes
  /\ \/ doneWritten' = ~disconnected /\ UNCHANGED disconnected
     \/ clientGone /\ disconnected' = TRUE /\ UNCHANGED doneWritten
  /\ session' = "terminal"
  /\ consumer' = "returned"
  /\ UNCHANGED <<finalErr, delivered, channelVars, handlerVars, clientGone>>

ReceiveError ==
  /\ Selecting
  /\ producer = "sendFailure" \/ (producer = "sendReadErr" /\ readErr # "eof")
  /\ ProducerResumes
  /\ finalErr' = TRUE
  /\ session' = "terminal"
  /\ consumer' = "returned"
  /\ UNCHANGED <<disconnected, delivered, doneWritten, channelVars,
                 handlerVars, clientGone>>

(* A closed DataChan ends the loop. *)
SeeDataClosed ==
  /\ Selecting /\ dataClosed
  /\ consumer' = "returned"
  /\ UNCHANGED <<disconnected, finalErr, delivered, doneWritten, session,
                 producerVars,
                 channelVars, handlerVars, clientGone>>

(* A closed ErrChan yields a nil error, and err.Error() is called on it. *)
SeeErrClosed ==
  /\ Selecting /\ errClosed
  /\ consumer' = "crashed"
  /\ UNCHANGED <<disconnected, finalErr, delivered, doneWritten, session,
                 producerVars,
                 channelVars, handlerVars, clientGone>>

(* ctxDone is set to nil after this case: it is taken once. *)
SeeClientGone ==
  /\ Selecting /\ clientGone /\ ~disconnected
  /\ disconnected' = TRUE
  /\ session' = "terminal"
  /\ UNCHANGED <<consumer, finalErr, delivered, doneWritten, producerVars,
                 channelVars,
                 handlerVars, clientGone>>

-----------------------------------------------------------------------------
(* The handler: <-done, then the deferred Close (DrainAndClose). *)

(* Mutant: the body is closed but nobody drains. *)
StartCloseWithoutDrain ==
  /\ Running /\ handler = "wait" /\ consumer = "returned"
  /\ handler' = "closing"
  /\ bodyClosed' = TRUE
  /\ UNCHANGED <<drain, closeTimedOut, errClosed, dataClosed, producerVars,
                 consumerVars, clientGone>>

StartClose ==
  /\ Running /\ handler = "wait" /\ consumer = "returned"
  /\ handler' = "closing"
  /\ drain' = "on"
  /\ bodyClosed' = TRUE
  /\ UNCHANGED <<closeTimedOut, errClosed, dataClosed, producerVars,
                 consumerVars, clientGone>>

(* Mutant: Close does not wait for the drain. *)
CloseReturnsAtOnce ==
  /\ handler = "closing"
  /\ handler' = "returned"
  /\ UNCHANGED <<drain, closeTimedOut, producerVars, channelVars, consumerVars,
                 clientGone>>

CloseReturns ==
  /\ handler = "closing" /\ drain = "done"
  /\ handler' = "returned"
  /\ UNCHANGED <<drain, closeTimedOut, producerVars, channelVars, consumerVars,
                 clientGone>>

(* streamCloseTimeout: the producer is stuck in a read that the close of the
   body has not ended. *)
CloseTimesOut ==
  /\ handler = "closing" /\ producer = "read"
  /\ handler' = "returned"
  /\ closeTimedOut' = TRUE
  /\ UNCHANGED <<drain, producerVars, channelVars, consumerVars, clientGone>>

DrainReceives ==
  /\ drain = "on" /\ producer \in Sending
  /\ ProducerResumes
  /\ UNCHANGED <<channelVars, consumerVars, handlerVars, clientGone>>

DrainEnds ==
  /\ drain = "on" /\ dataClosed /\ errClosed
  /\ drain' = "done"
  /\ UNCHANGED <<handler, closeTimedOut, producerVars, channelVars,
                 consumerVars, clientGone>>

(* streamDrainDeadline, longer than streamCloseTimeout. *)
DrainExpires ==
  /\ drain = "on" /\ closeTimedOut /\ producer = "read"
  /\ drain' = "expired"
  /\ UNCHANGED <<handler, closeTimedOut, producerVars, channelVars,
                 consumerVars, clientGone>>

ClientDisconnects ==
  /\ Running /\ handler # "returned" /\ ~clientGone
  /\ clientGone' = TRUE
  /\ UNCHANGED <<producerVars, channelVars, consumerVars, handlerVars>>

-----------------------------------------------------------------------------
Upstream ==
  \/ \E kind \in LineKinds, e \in ReadErrors : ReadLine(kind, e)
  \/ \E e \in ReadErrors \ {"none"} : ReadEnds(e)
  \/ HandlerPanics

ProducerStep == ReadErrTimesOut \/ CloseErrChan \/ CloseDataChan

ConsumerStep ==
  \/ ReceiveData \/ WriteSucceeds \/ WriteFails \/ ReceiveEOF \/ ReceiveError
  \/ SeeDataClosed \/ SeeErrClosed \/ SeeClientGone

HandlerStep == StartClose \/ CloseReturns \/ CloseTimesOut

DrainStep == DrainReceives \/ DrainEnds \/ DrainExpires

Next ==
  \/ Upstream \/ IdleFires \/ ProducerStep
  \/ ConsumerStep \/ HandlerStep \/ DrainStep \/ ClientDisconnects

Spec == Init /\ [][Next]_vars

(* The goroutines run and the timers fire; a write to the client succeeds or
   fails. The upstream owes nothing, not even that the read of a closed body
   returns: then Close and the drain time out. *)
Fairness ==
  /\ WF_vars(IdleFires)
  /\ WF_vars(ProducerStep)
  /\ WF_vars(ConsumerStep)
  /\ WF_vars(HandlerStep)
  /\ WF_vars(DrainStep)

FairSpec == Spec /\ Fairness

-----------------------------------------------------------------------------
(* Properties. *)

TypeOK ==
  /\ producer \in Sending \cup {"read", "closeErr", "closeData", "exited"}
  /\ readErr \in ReadErrors
  /\ lines \in 0..MaxLines
  /\ accounted \in 0..MaxLines
  /\ offered \in 0..MaxLines
  /\ errClosed \in BOOLEAN /\ dataClosed \in BOOLEAN /\ bodyClosed \in BOOLEAN
  /\ consumer \in {"select", "write", "returned", "crashed"}
  /\ disconnected \in BOOLEAN /\ finalErr \in BOOLEAN /\ doneWritten \in BOOLEAN
  /\ delivered \in 0..MaxLines
  /\ session \in {"not_started", "data_sent", "terminal"}
  /\ handler \in {"wait", "closing", "returned"}
  /\ drain \in {"off", "on", "done", "expired"}
  /\ closeTimedOut \in BOOLEAN
  /\ clientGone \in BOOLEAN

(* A client that was sent [DONE] was sent every line before it, and no error:
   none is lost to a write that failed, to a select that preferred another
   channel, or to the drain (responseStreamClient, HandlerChatStream). *)
DeliveredInFull == doneWritten => delivered = offered /\ ~finalErr

(* Once the attempt's session is terminal nothing more is put on the wire,
   although the consumer goes on reading for the bill (responseStreamClient
   tryWrite, terminateGatewayOutput). *)
SilentAfterTerminal ==
  [][session = "terminal" => UNCHANGED <<delivered, doneWritten, session>>]_vars

(* When the handler returns, the usage it is about to settle no longer changes
   under it, unless Close has given up on a stuck producer (DrainAndClose). *)
UsageIsFinal ==
  [][handler = "returned" /\ ~closeTimedOut => UNCHANGED accounted]_vars

(* After its first line a stream ends even if the upstream falls silent
   (processLinesWithIdleTimeout); a process that crashed has ended, too. *)
StreamEnds == lines > 0 ~> handler = "returned" \/ ~Running

(* Once the consumer has gone, the producer is never left blocked in a send
   (the deadlock DrainAndClose was written against): it exits, unless Close has
   given up on its read. *)
ProducerExits == consumer = "returned" ~> producer = "exited" \/ closeTimedOut

(* http_stream_reader.go Recv: after a panic of the line handler the consumer
   reads ok=false from the closed channel and ends by itself. *)
ConsumerNeverCrashes == consumer # "crashed"
=============================================================================
