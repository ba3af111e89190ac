------------------------------ MODULE LlmCall -------------------------------
(***************************************************************************)
(* A call of chat:llm (src/daemon/src/syscalls/llm/chat.rs) on its way to  *)
(* a provider and back: the attempts of the harness                        *)
(* (runtime/llm_harness.rs), the two clients (hal/llm/openai_compat.rs,    *)
(* hal/llm/anthropic.rs behind hal/llm/client.rs), the frames the call     *)
(* sends, and the caller that puts the answer together again               *)
(* (runtime/llm_util.rs, call_llm of runtime/room/runner.rs).  When a call *)
(* waits for a recovery and comes back is module SafeMode.                 *)
(*                                                                         *)
(* An answer is a sequence of blocks: text, which may hold thinking, and   *)
(* tool calls, of which one may lack its id.                               *)
(***************************************************************************)
EXTENDS Naturals, Sequences, SequencesExt, Sieve

CONSTANTS max_attempts, (* of RetryPolicy (5)                               *)
          SafeAttempts, (* turns of the loop of execute (4)                 *)
          Answers       (* what a provider may answer: sequences of blocks  *)

\* What can go wrong with a request.
Errors == {"overloaded", "denied", "transport", "decode", "timeout"}

is_retryable(kind) == kind # "denied"

VARIABLES
  llm,      (* the call: its API, its model and what is in the request      *)
  stage,    (* where it is                                                  *)
  turn,     (* turns of execute's loop taken                                *)
  attempt,  (* attempts the harness has made in this one                    *)
  endpoint, (* what is asked: "chat", "chat+mct" or "completions"           *)
  noted,    (* the client knows that the model wants max_completion_tokens  *)
  verdict,  (* what the harness returns                                     *)
  tosend,   (* frames of an answer still to be sent                         *)
  notes,    (* tasks that have an llm:retry frame to send                   *)
  frames,   (* the stream of the call                                       *)
  heard,    (* what the caller has put together: text and tool calls        *)
  cancel,   (* the token of the call                                        *)
  answer    (* history: the answer the provider gave                        *)

llmVars == <<llm, stage, turn, attempt, endpoint, noted, verdict, tosend, notes, frames, heard,
             cancel, answer>>

Deaf == [text |-> <<>>, calls |-> <<>>, end |-> "no"]

LlmInit ==
  /\ llm \in [api : {"openai", "anthropic"}, model : {"chat", "mct", "base"},
              max_tokens : BOOLEAN, tools : BOOLEAN]
  /\ llm.api = "anthropic" => llm.model = "chat" /\ llm.max_tokens
  /\ stage = "check" /\ turn = 0 /\ attempt = 0
  /\ endpoint = "chat" /\ noted = FALSE
  /\ verdict = "none" /\ tosend = <<>> /\ notes = 0
  /\ frames = <<>> /\ heard = Deaf /\ cancel = FALSE /\ answer = <<>>

-----------------------------------------------------------------------------
(* The client: one attempt is one request, or two.                         *)

\* chat_with_tools: what the caller gets of the blocks.  Of Anthropic's text
\* blocks the last is kept.
Blocks == UNION {ToSet(a) : a \in Answers}

TextBlocks == {b \in Blocks : b.type = "text"}

Content(blocks) ==
  LET texts == Sift(blocks, TextBlocks)
  IN IF llm.api = "anthropic" /\ texts # <<>> THEN <<texts[Len(texts)]>> ELSE texts

ToolCalls(blocks) == Sift(blocks, Blocks \ TextBlocks)

\* can_fallback_to_completions, when no tool results are among the messages.
FallsBack == llm.api = "openai" /\ llm.model = "base" /\ ~llm.tools

\* The first request fails in a way the client knows about, and it asks again:
\* with the other name of max_tokens, which it remembers of the model, or with
\* the conversation as one prompt, when it is no chat model.
AskMaxCompletionTokens ==
  /\ llm.model = "mct" /\ llm.max_tokens /\ ~noted
  /\ endpoint' = "chat+mct"
  /\ noted' = TRUE

AskCompletions ==
  /\ FallsBack
  /\ endpoint' = "completions"
  /\ UNCHANGED noted

Redirect ==
  /\ stage = "http" /\ endpoint = "chat"
  /\ AskMaxCompletionTokens \/ AskCompletions
  /\ UNCHANGED <<llm, stage, turn, attempt, verdict, tosend, notes, frames, heard, cancel, answer>>

\* What the model takes: the wrong request gets HTTP 400 or 404.
Accepts ==
  CASE llm.model = "mct"  -> ~llm.max_tokens \/ noted
    [] llm.model = "base" -> endpoint = "completions"
    [] OTHER -> TRUE

-----------------------------------------------------------------------------
(* chat_with_tools_retry and the loop of execute.                          *)

\* check_cancelled, then the configuration, the client and llm:begin.
Begin ==
  /\ stage = "check"
  /\ IF cancel
     THEN /\ stage' = "end"
          /\ frames' = Append(frames, [type |-> "error"])
          /\ UNCHANGED <<attempt, endpoint, noted>>
     ELSE /\ stage' = "attempt"
          /\ frames' = Append(frames, [type |-> "begin"])
          /\ attempt' = 0
          /\ endpoint' = "chat"
          /\ noted' = FALSE
  /\ UNCHANGED <<llm, turn, verdict, tosend, notes, heard, cancel, answer>>

Attempt ==
  /\ stage = "attempt"
  /\ IF cancel
     THEN verdict' = "cancelled" /\ stage' = "failed" /\ UNCHANGED <<attempt, endpoint>>
     ELSE /\ stage' = "http"
          /\ attempt' = attempt + 1
          /\ endpoint' = IF noted THEN "chat+mct" ELSE "chat"
          /\ UNCHANGED verdict
  /\ UNCHANGED <<llm, turn, noted, tosend, notes, frames, heard, cancel, answer>>

\* A token that is raised while the request is out wins.
Interrupted ==
  /\ stage \in {"http", "backoff"} /\ cancel
  /\ verdict' = "cancelled"
  /\ stage' = "failed"
  /\ UNCHANGED <<llm, turn, attempt, endpoint, noted, tosend, notes, frames, heard, cancel, answer>>

\* A failed attempt: once more after a pause, unless it makes no sense.
Fail(kind) ==
  IF is_retryable(kind) /\ attempt < max_attempts
  THEN stage' = "backoff" /\ notes' = notes + 1 /\ UNCHANGED verdict
  ELSE stage' = "failed" /\ verdict' = kind /\ UNCHANGED notes

Response ==
  /\ stage = "http"
  /\ \/ /\ Accepts
        /\ \E blocks \in Answers :
             /\ answer' = [text |-> Content(blocks), calls |-> ToolCalls(blocks)]
             /\ tosend' = Content(blocks) \o ToolCalls(blocks)
        /\ verdict' = "ok"
        /\ stage' = "send"
        /\ UNCHANGED notes
     \/ /\ \E kind \in Errors : Fail(kind)
        /\ UNCHANGED <<tosend, answer>>
     \/ /\ ~Accepts /\ ~ENABLED Redirect
        /\ Fail("denied")
        /\ UNCHANGED <<tosend, answer>>
  /\ UNCHANGED <<llm, turn, attempt, endpoint, noted, frames, heard, cancel>>

Backoff ==
  /\ stage = "backoff"
  /\ stage' = "attempt"
  /\ UNCHANGED <<llm, turn, attempt, endpoint, noted, verdict, tosend, notes, frames, heard, cancel,
                 answer>>

\* A failure is reported; in safe mode the call waits and tries again.
Failed ==
  /\ stage = "failed"
  /\ \/ /\ stage' = "end"
        /\ frames' = Append(frames, [type |-> "error"])
        /\ UNCHANGED turn
     \/ /\ turn + 1 < SafeAttempts
        /\ turn' = turn + 1
        /\ stage' = "check"
        /\ UNCHANGED frames
  /\ UNCHANGED <<llm, attempt, endpoint, noted, verdict, tosend, notes, heard, cancel, answer>>

-----------------------------------------------------------------------------
(* The frames.                                                             *)

\* Thinking, text, tool calls one by one, llm:result, done.
Send ==
  /\ stage = "send"
  /\ IF tosend # <<>>
     THEN /\ frames' = Append(frames, Head(tosend))
          /\ tosend' = Tail(tosend)
          /\ UNCHANGED stage
     ELSE /\ frames' = Append(frames, [type |-> "done"])
          /\ stage' = "end"
          /\ UNCHANGED tosend
  /\ UNCHANGED <<llm, turn, attempt, endpoint, noted, verdict, notes, heard, cancel, answer>>

\* on_retry: the frame is sent by a task of its own, in its own time.
NoteRetry ==
  /\ notes > 0
  /\ notes' = notes - 1
  /\ frames' = Append(frames, [type |-> "retry"])
  /\ UNCHANGED <<llm, stage, turn, attempt, endpoint, noted, verdict, tosend, heard, cancel, answer>>

\* Mutant: a tool call without an id is kept.
PushAny(f) == Append(heard.calls, f)

\* push_tool_call drops what has no id or no name.
push_tool_call(f) == IF f.id = "" THEN heard.calls ELSE Append(heard.calls, f)

\* process_frame.
Hear ==
  /\ frames # <<>> /\ heard.end = "no"
  /\ frames' = Tail(frames)
  /\ LET f == Head(frames) IN
       heard' = CASE f.type = "text" -> [heard EXCEPT !.text = Append(@, f)]
                  [] f.type = "call" -> [heard EXCEPT !.calls = push_tool_call(f)]
                  [] f.type \in {"done", "error"} -> [heard EXCEPT !.end = f.type]
                  [] OTHER -> heard
  /\ UNCHANGED <<llm, stage, turn, attempt, endpoint, noted, verdict, tosend, notes, cancel, answer>>

Cancel ==
  /\ ~cancel /\ stage # "end"
  /\ cancel' = TRUE
  /\ UNCHANGED <<llm, stage, turn, attempt, endpoint, noted, verdict, tosend, notes, frames, heard,
                 answer>>

LlmNext ==
  \/ Begin \/ Attempt \/ Redirect \/ Response \/ Interrupted \/ Backoff \/ Failed
  \/ Send \/ NoteRetry \/ Hear \/ Cancel

LlmSpec == LlmInit /\ [][LlmNext]_llmVars

-----------------------------------------------------------------------------
Answerable == {c \in Blocks \ TextBlocks : c.id # ""}

\* The caller ends with the answer of the attempt that succeeded, whole and in
\* order and nothing of it twice, however many attempts, turns and late notes
\* there were; only tool calls it could not answer are missing.
AnswerIsHeard ==
  heard.end = "done" =>
    /\ verdict = "ok"
    /\ heard.text = answer.text
    /\ heard.calls = Sift(answer.calls, Answerable)
=============================================================================
