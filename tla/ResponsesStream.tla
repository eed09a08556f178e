--------------------------- MODULE ResponsesStream ---------------------------
(***************************************************************************)
(* A chat stream answered as a Responses stream: chatToResponseStreamClient *)
(* (relay/responses.go) and OpenAIResponsesStreamConverter (relay/relay_-  *)
(* util/responses_stream.go). The deltas of a chunk, one per choice, come   *)
(* one by one. A delta may bring several pieces: text, reasoning, arguments *)
(* of tool calls; the converter takes one of them. A piece that is taken is *)
(* told by its delta's place in the history of what has come; statuses and *)
(* usage are left out.                                                     *)
(***************************************************************************)
EXTENDS Naturals, Sequences, FiniteSets

CONSTANT MaxDeltas       (* bound: the deltas of a stream *)

ASSUME ResponsesAssumption == MaxDeltas \in Nat

Piece(kind, choice, tool) == [kind |-> kind, choice |-> choice, tool |-> tool]
Pieces ==
  {Piece("message", 0, 0), Piece("message", 1, 0), Piece("reasoning", 0, 0),
   Piece("tool", 0, 0), Piece("tool", 0, 1)}

(* A delta is what it brings, in the order in which GetResponseType and
   ToolCalls[0] prefer it: calls, reasoning, text. *)
UpstreamDeltas ==
  {<<p>> : p \in Pieces} \cup
  {<<Piece("tool", 0, 0), Piece("tool", 0, 1)>>, <<Piece("tool", 0, 1), Piece("message", 0, 0)>>,
   <<Piece("reasoning", 0, 0), Piece("message", 0, 0)>>}

VARIABLES
  received,         (* history: the deltas the client was there for *)
  resp,             (* the converter's variables *)
  events,           (* the events it has written *)
  source,           (* the upstream: "sends", "ended", "failed" *)
  listening         (* the client is connected *)

responsesVars == <<received, resp, events, source, listening>>

Nothing == "nothing"

(* lastChoiceIndex, lastResponseType, lastToolCallIndex, outputIndex; item
   (its kind, with the call it was made for), part, functionArgsBuf, content
   and summary; responses.Output; isFirstResponse. A text is the sequence of
   the numbers of its pieces; part is the one text that is open, or empty. *)
FreshConverter ==
  [choice |-> 2, kind |-> Nothing, tool |-> 0, at |-> 0,
   item |-> Nothing, call |-> 0, part |-> <<>>, buffer |-> <<>>,
   content |-> <<>>, summary |-> <<>>,
   output |-> <<>>, first |-> TRUE]

ResponsesInit ==
  /\ received = <<>> /\ resp = FreshConverter /\ events = <<>>
  /\ source = "sends" /\ listening = TRUE

(* Only the events of an item that is there carry its output_index. *)
Unplaced(ev) == [ev |-> ev, at |-> 0, piece |-> 0]
Told(ev, r) == [ev |-> ev, at |-> r.at, piece |-> 0]
ToldPiece(ev, r, n) == [ev |-> ev, at |-> r.at, piece |-> n]

-----------------------------------------------------------------------------
(* Ends. A part that is done goes to the content or to the summary. *)

PartDone(r) ==
  IF r.kind = "message" THEN [r EXCEPT !.content = @ \o r.part, !.part = <<>>]
  ELSE [r EXCEPT !.summary = @ \o r.part, !.part = <<>>]
PartDoneEvents(r) == IF r.part = <<>> THEN <<>> ELSE <<Told("part_done", r)>>

(* Mutant: the texts of an item are not cleared behind it. *)
ItemDoneKeepingTexts(r) ==
  LET d == IF r.kind = "tool" THEN r ELSE PartDone(r)
      texts == CASE r.item = "tool"      -> <<r.buffer>>
                 [] r.item = "reasoning" -> d.summary
                 [] OTHER                -> d.content
  IN [d EXCEPT
       !.output = Append(@, [kind |-> r.item, call |-> r.call, texts |-> texts]),
       !.item = Nothing, !.at = @ + 1]

(* done *)
ItemDone(r) ==
  LET d == IF r.kind = "tool" THEN r ELSE PartDone(r)
      texts == CASE r.item = "tool"      -> <<r.buffer>>
                 [] r.item = "reasoning" -> d.summary
                 [] OTHER                -> d.content
  IN [d EXCEPT
       !.output = Append(@, [kind |-> r.item, call |-> r.call, texts |-> texts]),
       !.item = Nothing, !.content = <<>>, !.summary = <<>>, !.at = @ + 1]
ItemDoneEvents(r) ==
  (IF r.kind = "tool" THEN <<Told("arguments_done", r)>> ELSE PartDoneEvents(r))
  \o <<Told("item_done", r)>>

-----------------------------------------------------------------------------
(* processChoices for one piece. *)

NeedsItem(r, p) == r.kind # p.kind \/ (p.kind = "tool" /\ r.tool # p.tool)

(* createNewItem *)
Opened(r, p) ==
  IF ~NeedsItem(r, p) THEN r
  ELSE LET d == IF r.item = Nothing THEN r ELSE ItemDone(r)
       IN [d EXCEPT !.item = p.kind, !.call = p.tool,
                    !.tool = IF p.kind = "tool" THEN p.tool ELSE @,
                    !.buffer = IF p.kind = "tool" THEN <<>> ELSE @]
OpenedEvents(r, p) ==
  IF ~NeedsItem(r, p) THEN <<>>
  ELSE (IF r.item = Nothing THEN <<>> ELSE ItemDoneEvents(r)) \o <<Unplaced("item_added")>>

(* processMessage and processReasoning: another choice takes another part;
   doneMessagePart and doneReasoningPart belong to the kind of the piece. *)
PartFor(r, p) ==
  LET d == IF r.choice # p.choice THEN PartDone([r EXCEPT !.kind = p.kind]) ELSE r
  IN IF d.part = <<>> THEN [d EXCEPT !.part = << <<>> >>] ELSE d
PartForEvents(r, p) ==
  (IF r.choice # p.choice THEN PartDoneEvents(r) ELSE <<>>)
  \o (IF r.choice # p.choice \/ r.part = <<>> THEN <<Told("part_added", r)>> ELSE <<>>)

Added(r, p, n) ==
  IF p.kind = "tool" THEN [r EXCEPT !.buffer = Append(@, n)]
  ELSE [PartFor(r, p) EXCEPT !.part[1] = Append(@, n)]
AddedEvents(r, p, n) ==
  (IF p.kind = "tool" THEN <<>> ELSE PartForEvents(r, p)) \o <<ToldPiece("delta", r, n)>>

Processed(r, p, n) ==
  [Added(Opened(r, p), p, n) EXCEPT !.choice = p.choice, !.kind = p.kind, !.first = FALSE]
ProcessedEvents(r, p, n) ==
  OpenedEvents(r, p) \o AddedEvents(Opened(r, p), p, n)

CreatedEvents(r) == IF r.first THEN <<Unplaced("created"), Unplaced("in_progress")>> ELSE <<>>

(* finalizeStream *)
Final(r) == IF r.item = Nothing THEN r ELSE ItemDone(r)
FinalEvents(r) ==
  (IF r.item = Nothing THEN <<>> ELSE ItemDoneEvents(r)) \o <<Unplaced("response_ends")>>

-----------------------------------------------------------------------------
(* The goroutine: behind a client that has gone it only drains. *)

(* Of the pieces of a delta the first is converted: the others are lost. *)
ReceiveDelta ==
  /\ source = "sends" /\ Len(received) < MaxDeltas
  /\ \E d \in UpstreamDeltas :
       LET p == Head(d)
           n == Len(received) + 1
       IN IF listening
          THEN /\ received' = Append(received, d)
               /\ resp' = Processed(resp, p, n)
               /\ events' = events \o CreatedEvents(resp) \o ProcessedEvents(resp, p, n)
          ELSE UNCHANGED <<received, resp, events>>
  /\ UNCHANGED <<source, listening>>

(* A delta with a role or a finish reason only. *)
ReceiveNoPiece ==
  /\ source = "sends"
  /\ IF listening
     THEN resp' = [resp EXCEPT !.first = FALSE] /\ events' = events \o CreatedEvents(resp)
     ELSE UNCHANGED <<resp, events>>
  /\ UNCHANGED <<received, source, listening>>

(* [DONE] is processed whether the client is there or not. *)
ReceiveEOF ==
  /\ source = "sends" /\ source' = "ended"
  /\ resp' = Final(resp) /\ events' = events \o FinalEvents(resp)
  /\ UNCHANGED <<received, listening>>

ReceiveError ==
  /\ source = "sends" /\ source' = "failed"
  /\ events' = IF listening THEN Append(events, Unplaced("error")) ELSE events
  /\ UNCHANGED <<received, resp, listening>>

ListenerLeaves ==
  /\ source = "sends" /\ listening /\ listening' = FALSE
  /\ UNCHANGED <<received, resp, events, source>>

ResponsesNext ==
  ReceiveDelta \/ ReceiveNoPiece \/ ReceiveEOF \/ ReceiveError \/ ListenerLeaves

ResponsesSpec == ResponsesInit /\ [][ResponsesNext]_responsesVars

-----------------------------------------------------------------------------
(* Properties. *)

(* Where pieces are in an output: item, text, position; from first to last. *)
Places(output) ==
  UNION {UNION {{<<i, t, k>> : k \in DOMAIN output[i].texts[t]} : t \in DOMAIN output[i].texts}
         : i \in DOMAIN output}
PieceAt(output, a) == output[a[1]].texts[a[2]][a[3]]
Precedes(a, b) ==
  \/ a[1] < b[1]
  \/ a[1] = b[1] /\ a[2] < b[2]
  \/ a[1] = b[1] /\ a[2] = b[2] /\ a[3] < b[3]

(* Every one of some pieces is in an output, once and in its order: text in
   messages, reasoning in reasoning items, the arguments of one call in one
   item, the text of one choice in one part. *)
HoldsAll(output, pieces) ==
  /\ {PieceAt(output, a) : a \in Places(output)} = DOMAIN pieces
  /\ \A a, b \in Places(output) :
       Precedes(a, b) => PieceAt(output, a) < PieceAt(output, b)
  /\ \A a \in Places(output) :
       LET p == pieces[PieceAt(output, a)]
           o == output[a[1]]
       IN p.kind = o.kind /\ p.tool = o.call /\ p.choice = pieces[o.texts[a[2]][1]].choice

(* The response that ends the stream holds so, of every delta that came, the
   first call, or else the reasoning, or else the text, and nothing more. *)
Taken == [n \in DOMAIN received |-> Head(received[n])]
OutputHoldsConverted == source = "ended" => HoldsAll(resp.output, Taken)

HowMany(ev, n) == Cardinality({k \in 1..n : events[k].ev = ev})

(* What a reader of the events alone makes of them: between the added and the
   done of an item there is nothing of another, a delta is in an item and,
   unless it is of a call, in a part, every converted piece is told once, and
   nothing follows the end. *)
EventsNest ==
  \A n \in DOMAIN events : LET e == events[n] IN
    /\ e.ev \in {"delta", "part_added", "part_done", "arguments_done", "item_done"} =>
         HowMany("item_added", n - 1) = e.at + 1 /\ HowMany("item_done", n - 1) = e.at
    /\ e.ev = "item_added" => HowMany("item_added", n - 1) = HowMany("item_done", n - 1)
    /\ e.ev = "delta" =>
         /\ HowMany("delta", n) = e.piece
         /\ Taken[e.piece].kind = "tool"
            \/ HowMany("part_added", n) = HowMany("part_done", n) + 1
    /\ e.ev = "item_done" => HowMany("part_added", n) = HowMany("part_done", n)
    /\ e.ev = "response_ends" =>
         n = Len(events) /\ HowMany("item_done", n) = HowMany("item_added", n)

(* The items of the response, and the events on the way to it. *)
ConvertedInOrder == OutputHoldsConverted /\ EventsNest
=============================================================================
