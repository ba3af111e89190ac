----------------------------- MODULE ApiStream -----------------------------
(***************************************************************************)
(* How one answer of a turn reaches an HTTP client: response_stream and    *)
(* CancelOnDropStream (src/daemon/src/server/handler.rs) turn the frames   *)
(* of the turn stream into chunks, and an adapter turns the chunks into    *)
(* the protocol of its client, as server-sent events or as one JSON        *)
(* document: to_sse_stream and the collecting loops of                     *)
(* src/daemon/src/server/openai.rs, to_sse_stream and                      *)
(* collect_non_streaming of src/daemon/src/server/anthropic.rs.            *)
(*                                                                         *)
(* The client is a reader of the protocol: it puts the answer together     *)
(* from the events in the order they come.  What text and arguments say is *)
(* left out: a text chunk is "text", a call carries its number.            *)
(***************************************************************************)
EXTENDS Naturals, Sequences, Sieve

CONSTANT MaxChunks     (* bound: frames of one answer                      *)

\* The four ways to answer; a streaming one sends events as chunks come.
Adapters == {"openai-sse", "openai-json", "anthropic-sse", "anthropic-json"}

Streaming(a) == a \in {"openai-sse", "anthropic-sse"}

VARIABLES
  adapter,     (* how this request is answered                             *)
  frames,      (* history: the frames of the answer, in order              *)
  scan,        (* state of the adapter                                     *)
  client,      (* what the client has put together                         *)
  wire,        (* "open", "closed" by the server, "refused", "dropped"     *)
  finished,    (* CancelOnDropStream.finished                              *)
  cancelSent   (* a chat:cancel was dispatched                             *)

streamVars == <<adapter, frames, scan, client, wire, finished, cancelSent>>

-----------------------------------------------------------------------------
(* Frames to chunks.                                                       *)

\* An empty text and a frame of another type give no chunk; a call without
\* id or name, an error frame and 120 s of silence give an Error.
FrameTypes == {"text", "blank", "call", "broken", "done", "error", "silence"}

response_stream(f) ==
  CASE f \in {"broken", "error", "silence"} -> "error"
    [] f = "blank" -> "none"
    [] OTHER -> f

-----------------------------------------------------------------------------
(* The clients.  parts is the answer so far: texts, adjacent ones joined,  *)
(* and calls by number.                                                    *)

AddText(parts) ==
  IF parts # <<>> /\ parts[Len(parts)] = "text" THEN parts ELSE Append(parts, "text")

CallsOf(parts) == Sift(parts, {"call"})

NewClient == [parts |-> <<>>, open |-> "none", stop |-> "none", whole |-> TRUE]

\* A client of the Messages API keeps one content block open at a time and
\* expects the next block at the next index; anything else garbles it.
Garbled(c) == [c EXCEPT !.whole = FALSE]

BlockStart(c, index, type) ==
  IF c.open = "none" /\ index = Len(c.parts)
  THEN [c EXCEPT !.open = type, !.parts = Append(@, type)] ELSE Garbled(c)

BlockDelta(c, index, type) ==
  IF c.open = type /\ index + 1 = Len(c.parts) THEN c ELSE Garbled(c)

BlockStop(c, index) ==
  IF c.open # "none" /\ index + 1 = Len(c.parts) THEN [c EXCEPT !.open = "none"] ELSE Garbled(c)

MessageStop(c, reason) ==
  IF c.open = "none" THEN [c EXCEPT !.stop = reason] ELSE Garbled(c)

\* A client of chat completions joins the content and files the calls under
\* their index, whatever came between.
FileCall(c, index) ==
  IF index = Len(CallsOf(c.parts))
  THEN [c EXCEPT !.parts = Append(@, "call")] ELSE Garbled(c)

-----------------------------------------------------------------------------
(* to_sse_stream of anthropic.rs: (block_index, has_tool_use,              *)
(* text_block_open).                                                       *)

CloseText(c, s) == IF s.open THEN BlockStop(c, s.index) ELSE c

\* Mutant (AnswerIsWhole): the text block stays open when a call comes.
ToolUseUnclosed(c, s) ==
  <<BlockStop(BlockDelta(BlockStart(c, s.index, "call"), s.index, "call"), s.index),
    [index |-> s.index + 1, tools |-> TRUE, open |-> s.open]>>

\* A call closes the text block, and is a block of its own.
ToolUse(c, s) ==
  LET i == IF s.open THEN s.index + 1 ELSE s.index
      started == BlockStart(CloseText(c, s), i, "call")
  IN  <<BlockStop(BlockDelta(started, i, "call"), i),
        [index |-> i + 1, tools |-> TRUE, open |-> FALSE]>>

AnthropicEvent(c, s, chunk) ==
  CASE chunk = "text" ->
         LET started == IF s.open THEN c ELSE BlockStart(c, s.index, "text")
         IN  <<BlockDelta(started, s.index, "text"), [s EXCEPT !.open = TRUE]>>
    [] chunk = "call" -> ToolUse(c, s)
    [] chunk = "done" ->
         <<MessageStop(CloseText(c, s), IF s.tools THEN "tool_use" ELSE "end_turn"),
           [s EXCEPT !.open = FALSE]>>
    [] chunk = "error" -> <<[c EXCEPT !.stop = "error"], s>>

(* to_sse_stream of openai.rs: (sent_role, tool_call_index); its stream    *)
(* ends at a Done after calls, and after every stream comes [DONE].        *)
OpenAiEvent(c, s, chunk) ==
  CASE chunk = "text" -> <<[c EXCEPT !.parts = AddText(@)], s>>
    [] chunk = "call" ->
         <<[FileCall(c, s.index) EXCEPT !.stop = "tool_calls"], [s EXCEPT !.index = @ + 1]>>
    [] chunk = "done" ->
         <<IF s.index > 0 THEN c ELSE [c EXCEPT !.stop = "stop"], s>>
    [] chunk = "error" -> <<[c EXCEPT !.stop = "error"], s>>

(* The collecting loops: the whole document at the Done.  The one of       *)
(* anthropic.rs puts a text block before the call that ends it (the empty  *)
(* text block of an empty answer counts as no text); the one of openai.rs, *)
(* written twice, sends the text or the calls.                             *)
Collected(a, s) ==
  LET calls == CallsOf(s.parts)
      texts == Sift(s.parts, {"text"})
      tools == calls # <<>>
      body  == CASE a = "anthropic-json" -> s.parts
                 [] a = "openai-json" /\ tools -> calls
                 [] a = "openai-json" /\ ~tools -> texts
  IN  [NewClient EXCEPT
         !.parts = body,
         !.stop = CASE tools /\ a = "openai-json" -> "tool_calls"
                    [] tools /\ a = "anthropic-json" -> "tool_use"
                    [] ~tools /\ a = "openai-json" -> "stop"
                    [] ~tools /\ a = "anthropic-json" -> "end_turn"]

Collect(s, chunk) ==
  [s EXCEPT !.parts = IF chunk = "text" THEN AddText(@) ELSE Append(@, "call")]

-----------------------------------------------------------------------------

StreamInit ==
  /\ adapter \in Adapters
  /\ frames = <<>>
  /\ scan = [index |-> 0, tools |-> FALSE, open |-> FALSE, parts |-> <<>>]
  /\ client = NewClient
  /\ wire = "open"
  /\ finished = FALSE
  /\ cancelSent = FALSE

\* What comes after the done of a turn, if anything, is not part of it.
Ended == \E i \in 1 .. Len(frames) : frames[i] = "done"

Stream(chunk) ==
  LET step == IF adapter = "openai-sse" THEN OpenAiEvent(client, scan, chunk)
              ELSE AnthropicEvent(client, [index |-> scan.index, tools |-> scan.tools,
                                           open |-> scan.open], chunk)
  IN  /\ client' = step[1]
      /\ scan' = [index |-> step[2].index, tools |-> step[2].tools,
                  open |-> step[2].open, parts |-> scan.parts]
      \* Only a Done after calls ends the scan of openai.rs before the stream.
      /\ wire' = IF adapter = "openai-sse" /\ chunk = "done" /\ scan.index > 0
                 THEN "closed" ELSE "open"

\* The collecting loop leaves at a Done and, with an error answer, at an Error.
Gather(chunk) ==
  /\ client' = CASE chunk = "done" -> Collected(adapter, scan)
                 [] chunk = "error" -> [client EXCEPT !.stop = "error"]
                 [] OTHER -> client
  /\ scan' = IF chunk \in {"text", "call"} THEN Collect(scan, chunk) ELSE scan
  /\ wire' = CASE chunk = "done" -> "closed" [] chunk = "error" -> "refused" [] OTHER -> "open"

\* poll_next: the next frame of the turn stream, or 120 s without one.
Poll(f) ==
  /\ wire = "open" /\ ~Ended /\ Len(frames) < MaxChunks
  /\ frames' = Append(frames, f)
  /\ LET chunk == response_stream(f)
     IN  /\ finished' = (finished \/ chunk \in {"done", "error"})
         /\ CASE chunk = "none" -> UNCHANGED <<client, scan, wire>>
              [] chunk # "none" /\ Streaming(adapter) -> Stream(chunk)
              [] chunk # "none" /\ ~Streaming(adapter) -> Gather(chunk)
  /\ UNCHANGED <<adapter, cancelSent>>

\* The turn stream ends: the hub closed it after the done, or replaced it.  A
\* collecting loop answers with what it has.
StreamEnds ==
  /\ wire = "open"
  /\ wire' = "closed" /\ finished' = TRUE
  /\ client' = IF Streaming(adapter) THEN client ELSE Collected(adapter, scan)
  /\ UNCHANGED <<adapter, frames, scan, cancelSent>>

\* The client goes away: the stream is dropped.
Leave ==
  /\ wire = "open"
  /\ wire' = "dropped"
  /\ cancelSent' = ~finished
  /\ UNCHANGED <<adapter, frames, scan, client, finished>>

StreamNext ==
  \/ \E f \in FrameTypes : Poll(f)
  \/ StreamEnds
  \/ Leave

StreamSpec == StreamInit /\ [][StreamNext]_streamVars

-----------------------------------------------------------------------------
(* Properties.                                                             *)

\* The answer of the turn, read off its frames: after each of them.
Telling(fs) ==
  LET said[i \in 0 .. Len(fs)] ==
        IF i = 0 THEN <<>>
        ELSE CASE response_stream(fs[i]) = "text" -> AddText(said[i - 1])
               [] response_stream(fs[i]) = "call" -> Append(said[i - 1], "call")
               [] OTHER -> said[i - 1]
  IN  said

Said(fs) == Telling(fs)[Len(fs)]

\* An answer that came to its done without an error is put together by the
\* client as the turn said it: every text and every call in its place, every
\* content block opened once, closed once and at its own index, and the stop
\* reason says whether calls wait for their results.  The one exception is the
\* JSON document of chat completions, which leaves out the text of an answer
\* with calls (openai.rs:939).
AnswerIsWhole ==
  (Ended /\ ~\E i \in 1 .. Len(frames) : response_stream(frames[i]) = "error") =>
    LET said == Said(frames)
        kept == IF adapter = "openai-json" /\ CallsOf(said) # <<>> THEN CallsOf(said) ELSE said
    IN  wire # "dropped" =>
          /\ client.whole /\ client.open = "none"
          /\ client.parts = kept
          /\ client.stop \in (IF CallsOf(said) # <<>> THEN {"tool_calls", "tool_use"}
                              ELSE {"stop", "end_turn"})
=============================================================================
