-------------------------- MODULE StreamRelayProofs --------------------------
(***************************************************************************)
(* Proofs about StreamRelay, for any number of lines, with and without the *)
(* idle timeout.                                                           *)
(***************************************************************************)
EXTENDS StreamRelay, TLAPS

Closing == {"closeErr", "closeData", "exited"}

(* How the goroutines follow one another: the handler closes when the consumer
   has returned, the drain runs for the handler, the channels are closed by a
   producer that reads no more. *)
Handover ==
  /\ consumer # "returned" => handler = "wait"
  /\ handler = "wait" => drain = "off"
  /\ drain = "done" => dataClosed
  /\ dataClosed => producer = "exited"
  /\ handler = "returned" /\ ~closeTimedOut => drain = "done"

InFlight == IF producer = "sendData" THEN 1 ELSE 0

(* Where the lines are while the client is there; what follows the last. *)
Lines ==
  /\ consumer = "select" /\ ~disconnected => offered = delivered + InFlight
  /\ consumer = "write" => offered = delivered + 1 + InFlight
  /\ doneWritten => /\ delivered = offered
                    /\ consumer = "returned"
                    /\ producer \in Closing
  /\ finalErr => consumer = "returned" /\ ~doneWritten

(* Who may still write. *)
Terminated ==
  /\ consumer = "write" => ~disconnected
  /\ session = "terminal" => disconnected \/ consumer = "returned"

(* MaxLines bounds the runs only: numbers are enough here. *)
Typed ==
  /\ producer \in Sending \cup Closing \cup {"read"}
  /\ offered \in Nat /\ delivered \in Nat
  /\ consumer \in {"select", "write", "returned", "crashed"}
  /\ handler \in {"wait", "closing", "returned"}
  /\ drain \in {"off", "on", "done", "expired"}
  /\ disconnected \in BOOLEAN /\ doneWritten \in BOOLEAN /\ finalErr \in BOOLEAN
  /\ dataClosed \in BOOLEAN /\ closeTimedOut \in BOOLEAN

IInv == Typed /\ Handover /\ Lines /\ Terminated

(* The invariant holds initially. *)
LEMMA InitHolds == Init => IInv
<1> SUFFICES ASSUME Init PROVE IInv
  OBVIOUS
<1>1. Typed
  BY DEF Init, Typed, Sending, Closing
<1>2. Handover
  BY Zenon DEF Init, Handover
<1>3. Lines
  BY DEF Init, Lines, InFlight
<1>4. Terminated
  BY Zenon DEF Init, Terminated
<1> QED BY <1>1, <1>2, <1>3, <1>4 DEF IInv

(* Every step preserves the invariant. *)
LEMMA StepPreserves == IInv /\ [Next]_vars => IInv'
<1> SUFFICES ASSUME IInv, [Next]_vars PROVE IInv'
  OBVIOUS
<1> USE DEF IInv, Typed, Handover, Lines, InFlight, Terminated, Sending, Closing,
            producerVars, channelVars, consumerVars, handlerVars, Running
<1>1. ASSUME NEW kind \in LineKinds, NEW e \in ReadErrors, ReadLine(kind, e)
      PROVE  IInv'
  BY <1>1 DEF ReadLine, LineKinds
<1>2. ASSUME NEW e \in ReadErrors, ReadEnds(e) PROVE IInv'
  BY <1>2 DEF ReadEnds
<1>3. CASE HandlerPanics
  BY <1>3 DEF HandlerPanics
<1>4. CASE IdleFires
  BY <1>4 DEF IdleFires
<1>5. CASE ReadErrTimesOut
  BY <1>5 DEF ReadErrTimesOut
<1>6. CASE CloseErrChan
  BY <1>6 DEF CloseErrChan
<1>7. CASE CloseDataChan
  BY <1>7 DEF CloseDataChan
<1>8. CASE ReceiveData
  BY <1>8 DEF ReceiveData, ProducerResumes, Selecting, RecordData
<1>9. CASE WriteSucceeds
  BY <1>9 DEF WriteSucceeds
<1>10. CASE WriteFails
  BY <1>10 DEF WriteFails
<1>11. CASE ReceiveEOF
  <2>1. /\ consumer = "select" /\ consumer' = "returned" /\ session' = "terminal"
        /\ AtEOF /\ ProducerResumes
        /\ UNCHANGED <<finalErr, delivered, channelVars, handlerVars, clientGone>>
    BY Zenon, <1>11 DEF ReceiveEOF, Selecting
  <2>2. producer # "sendData" /\ producer # "exited" /\ producer' = "closeErr"
    BY <2>1 DEF AtEOF, ProducerResumes
  <2>3. \/ doneWritten' = ~disconnected /\ disconnected' = disconnected
        \/ disconnected' = TRUE /\ doneWritten' = doneWritten
    BY Zenon, <1>11 DEF ReceiveEOF
  <2>4. ~doneWritten
    BY <2>1
  <2>5. doneWritten' \in BOOLEAN /\ disconnected' \in BOOLEAN
    BY Zenon, <2>3
  <2>6. doneWritten' => ~disconnected
    BY Zenon, <2>3, <2>4
  <2>7. offered' = offered /\ delivered' = delivered /\ finalErr' = finalErr
    BY <2>1 DEF ProducerResumes
  <2>8. Typed'
    BY Zenon, <2>1, <2>2, <2>5, <2>7
  <2>9. Handover'
    BY <2>1, <2>2
  <2>10. Lines'
    BY <2>1, <2>2, <2>6, <2>7
  <2>11. Terminated'
    BY <2>1
  <2> QED BY <2>8, <2>9, <2>10, <2>11
<1>12. CASE ReceiveError
  BY <1>12 DEF ReceiveError, ProducerResumes, Selecting
<1>13. CASE SeeDataClosed
  BY <1>13 DEF SeeDataClosed, Selecting
<1>14. CASE SeeErrClosed
  BY <1>14 DEF SeeErrClosed, Selecting
<1>15. CASE SeeClientGone
  BY <1>15 DEF SeeClientGone, Selecting
<1>16. CASE StartClose
  BY <1>16 DEF StartClose
<1>17. CASE CloseReturns
  BY <1>17 DEF CloseReturns
<1>18. CASE CloseTimesOut
  BY <1>18 DEF CloseTimesOut
<1>19. CASE DrainReceives
  BY <1>19 DEF DrainReceives, ProducerResumes
<1>20. CASE DrainEnds
  BY <1>20 DEF DrainEnds
<1>21. CASE DrainExpires
  BY <1>21 DEF DrainExpires
<1>22. CASE ClientDisconnects
  BY <1>22 DEF ClientDisconnects
<1>23. CASE UNCHANGED vars
  BY <1>23 DEF vars
<1> QED
  BY <1>1, <1>2, <1>3, <1>4, <1>5, <1>6, <1>7, <1>8, <1>9, <1>10, <1>11, <1>12,
     <1>13, <1>14, <1>15, <1>16, <1>17, <1>18, <1>19, <1>20, <1>21, <1>22, <1>23
  DEF Next, Upstream, ProducerStep, ConsumerStep, HandlerStep, DrainStep

(* The invariant holds throughout. *)
LEMMA InvariantHolds == Spec => []IInv
BY InitHolds, StepPreserves, PTL DEF Spec

(* A client that was sent [DONE] was sent every line and no error. *)
THEOREM DeliveryIsComplete == Spec => []DeliveredInFull
<1>1. IInv => DeliveredInFull
  BY DEF IInv, Lines, DeliveredInFull
<1> QED BY <1>1, InvariantHolds, PTL

(* No byte follows the end of the attempt's stream session. *)
THEOREM TerminalIsSilent == Spec => SilentAfterTerminal
<1>1. IInv /\ [Next]_vars =>
        [session = "terminal" => UNCHANGED <<delivered, doneWritten, session>>]_vars
  <2> SUFFICES ASSUME IInv, Next, session = "terminal"
               PROVE  UNCHANGED <<delivered, doneWritten, session>>
    OBVIOUS
  <2>1. CASE ReceiveData
    BY <2>1 DEF IInv, Typed, Terminated, ReceiveData, Selecting, RecordData
  <2>2. CASE ReceiveEOF
    <3>1. disconnected /\ ~doneWritten /\ UNCHANGED <<delivered, session>>
      BY <2>2 DEF IInv, Terminated, Lines, ReceiveEOF, Selecting
    <3>2. doneWritten' = doneWritten
      BY Zenon, <2>2, <3>1 DEF IInv, Typed, ReceiveEOF
    <3> QED BY <3>1, <3>2
  <2>3. CASE WriteSucceeds \/ WriteFails
    BY <2>3 DEF IInv, Terminated, WriteSucceeds, WriteFails
  <2>4. CASE ReceiveError \/ SeeDataClosed \/ SeeErrClosed \/ SeeClientGone
    BY <2>4 DEF ReceiveError, SeeDataClosed, SeeErrClosed, SeeClientGone
  <2>5. CASE Upstream \/ IdleFires \/ ProducerStep
    BY <2>5 DEF Upstream, ReadLine, ReadEnds, HandlerPanics, IdleFires, ProducerStep,
                ReadErrTimesOut, CloseErrChan, CloseDataChan, consumerVars
  <2>6. CASE HandlerStep \/ DrainStep \/ ClientDisconnects
    BY <2>6 DEF HandlerStep, StartClose, CloseReturns, CloseTimesOut, DrainStep,
                DrainReceives, DrainEnds, DrainExpires, ClientDisconnects, consumerVars
  <2> QED BY <2>1, <2>2, <2>3, <2>4, <2>5, <2>6 DEF Next, ConsumerStep
<1> QED BY <1>1, InvariantHolds, PTL DEF Spec, SilentAfterTerminal

(* The usage the handler settles is final, unless Close gave up waiting. *)
THEOREM SettledUsageIsFinal == Spec => UsageIsFinal
<1>1. IInv /\ [Next]_vars =>
        [handler = "returned" /\ ~closeTimedOut => UNCHANGED accounted]_vars
  <2> SUFFICES ASSUME IInv, Next, handler = "returned", ~closeTimedOut
               PROVE  UNCHANGED accounted
    OBVIOUS
  <2>1. producer = "exited"
    BY DEF IInv, Handover
  <2>2. CASE Upstream \/ IdleFires \/ ProducerStep
    BY <2>1, <2>2 DEF Upstream, ReadLine, ReadEnds, HandlerPanics, IdleFires,
                      ProducerStep, ReadErrTimesOut, CloseErrChan, CloseDataChan
  <2>3. CASE ConsumerStep
    BY <2>3 DEF ConsumerStep, ReceiveData, WriteSucceeds, WriteFails, ReceiveEOF,
                ReceiveError, SeeDataClosed, SeeErrClosed, SeeClientGone,
                ProducerResumes, producerVars
  <2>4. CASE HandlerStep \/ DrainStep \/ ClientDisconnects
    BY <2>4 DEF HandlerStep, StartClose, CloseReturns, CloseTimesOut, DrainStep,
                DrainReceives, DrainEnds, DrainExpires, ClientDisconnects,
                ProducerResumes, producerVars
  <2> QED BY <2>2, <2>3, <2>4 DEF Next
<1> QED BY <1>1, InvariantHolds, PTL DEF Spec, UsageIsFinal
=============================================================================
