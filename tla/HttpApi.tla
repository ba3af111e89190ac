------------------------------ MODULE HttpApi ------------------------------
(***************************************************************************)
(* What a chat request does before its answer streams (module ApiStream):  *)
(* messages (src/daemon/src/server/anthropic.rs) and chat_completions      *)
(* (src/daemon/src/server/openai.rs) find the room, register the client's  *)
(* tools, cache its system prompt and hand a message or tool results to    *)
(* IngressHub and ChatHandler.  Around them the state several requests     *)
(* share: the tool registry (tool:register, ExternalToolManager), the      *)
(* snapshot the rooms' doors are built from (runtime/snapshot.rs), the     *)
(* prompt cache, and the active thread of each room.                       *)
(*                                                                         *)
(* Requests run concurrently, each await of the code is a step.  A room    *)
(* name is the digest of (token, working directory): two pairs never share *)
(* one.  The turn itself is module ChatTurn; here it is running, asks for  *)
(* tools, and may be cancelled.                                            *)
(***************************************************************************)
EXTENDS Naturals, FiniteSets

CONSTANTS Requests, Tools, Prompts,
          Tokens, Cwds,   (* what requests carry to find their room         *)
          None            (* no token, no directory, no turn, no request    *)

ASSUME HttpApiAssumption == None \notin Requests

Main == <<"main", "main">>

Rooms == {Main} \cup (Tokens \X (Cwds \cup {"unknown"}))

\* What the last message brings: words, or results of tool calls.
Kinds == {"message", "results"}

\* marker: the system prompt says it is opencode's; what an
\* adapter does not read of a request is left at its default.
Shapes ==
  {s \in [api : {"openai", "anthropic"}, marker : BOOLEAN, token : Tokens \cup {None},
          cwd : Cwds \cup {None}, tools : SUBSET Tools, prompt : Prompts,
          kind : Kinds] :
     /\ s.api = "anthropic" => ~s.marker
     /\ s.api = "openai" /\ ~s.marker => s.token = None
     /\ s.token = None => s.cwd = None}

VARIABLES
  allow_main,   (* config: loopback requests may use the main room          *)
  shape,        (* the requests                                             *)
  hpc,          (* where each one is                                        *)
  registry,     (* SQLite: tools of each room                               *)
  tools_by_room,(* ExternalToolManager: tools of each room                  *)
  snapshot,     (* external_tools of the RuntimeSnapshot                    *)
  blind,        (* history: the listing it was built from failed            *)
  refresh_lock, (* the request whose tool:register holds it                 *)
  built,        (* what it read from the registry, if it could              *)
  prompt_cache, room_prompt,
  active,       (* active thread of each room                               *)
  holder,       (* turn -> the request its stream goes to                   *)
  given,        (* turn -> the external tools its head is given             *)
  pending,      (* turns that wait for a tool result                        *)
  cancelled     (* turns cancelled                                          *)

regVars == <<registry, tools_by_room, snapshot, blind, refresh_lock, built>>

promptVars == <<prompt_cache, room_prompt>>

turnVars == <<active, holder, given, pending, cancelled>>

httpVars == <<allow_main, shape, hpc, regVars, promptVars, turnVars>>

HttpInit ==
  /\ allow_main \in BOOLEAN
  /\ shape \in [Requests -> Shapes]
  /\ hpc = [q \in Requests |-> "new"]
  /\ registry = [r \in Rooms |-> {}]
  /\ tools_by_room = [r \in Rooms |-> {}]
  /\ snapshot = {} /\ blind = FALSE /\ refresh_lock = None
  /\ built = [listed |-> TRUE, tools |-> {}]
  /\ prompt_cache = {}
  /\ room_prompt = [r \in Rooms |-> None]
  /\ active = [r \in Rooms |-> None]
  /\ holder = [t \in Requests |-> None]
  /\ given = [t \in Requests |-> {}]
  /\ pending = {} /\ cancelled = {}

Goes(q, from, to) == hpc[q] = from /\ hpc' = [hpc EXCEPT ![q] = to]

-----------------------------------------------------------------------------
(* The room.                                                               *)

openai_room(s) ==
  IF allow_main /\ ~s.marker THEN Main
  ELSE IF s.marker /\ s.token # None /\ s.cwd # None THEN <<s.token, s.cwd>> ELSE None

anthropic_room(s) ==
  IF s.token = None THEN Main
  ELSE <<s.token, IF s.cwd = None THEN "unknown" ELSE s.cwd>>

Room(q) == IF shape[q].api = "openai" THEN openai_room(shape[q]) ELSE anthropic_room(shape[q])

\* The order of the phases is not the same: anthropic.rs caches the prompt
\* first, for every request, and registers tools only if there are some;
\* openai.rs registers always and caches the prompt of messages only.
AfterPrompt(q) ==
  IF shape[q].api = "anthropic" /\ shape[q].tools # {} THEN "register" ELSE shape[q].kind

AfterRegister(q) ==
  IF shape[q].api = "openai" /\ shape[q].kind = "message" THEN "prompt" ELSE shape[q].kind

Admit(q) ==
  /\ Goes(q, "new", CASE Room(q) = None -> "refused"
                      [] Room(q) # None /\ shape[q].api = "openai" -> "register"
                      [] Room(q) # None /\ shape[q].api = "anthropic" -> "prompt")
  /\ UNCHANGED <<allow_main, shape, regVars, promptVars, turnVars>>

-----------------------------------------------------------------------------
(* tool:register.                                                          *)

\* The catalog of the room is replaced in one transaction.
Persist(q) ==
  /\ Goes(q, "register", "cache")
  /\ registry' = [registry EXCEPT ![Room(q)] = shape[q].tools]
  /\ UNCHANGED <<allow_main, shape, tools_by_room, snapshot, blind, refresh_lock, built, promptVars,
                 turnVars>>

\* A catalog that does not pass the validation changes nothing; the adapter
\* does not look at the answer.
Reject(q) ==
  /\ shape[q].tools # {}
  /\ Goes(q, "register", AfterRegister(q))
  /\ UNCHANGED <<allow_main, shape, regVars, promptVars, turnVars>>

CacheTools(q) ==
  /\ Goes(q, "cache", "refresh")
  /\ tools_by_room' = [tools_by_room EXCEPT ![Room(q)] = shape[q].tools]
  /\ UNCHANGED <<allow_main, shape, registry, snapshot, blind, refresh_lock, built, promptVars, turnVars>>

\* Mutant (SnapshotIsCurrent): a refresh under way is taken to be enough.
LockIfFree(q) ==
  /\ \/ Goes(q, "refresh", "read") /\ refresh_lock = None /\ refresh_lock' = q
     \/ Goes(q, "refresh", AfterRegister(q)) /\ refresh_lock # None /\ UNCHANGED refresh_lock
  /\ UNCHANGED <<allow_main, shape, registry, tools_by_room, snapshot, blind, built, promptVars, turnVars>>

Lock(q) ==
  /\ Goes(q, "refresh", "read")
  /\ refresh_lock = None /\ refresh_lock' = q
  /\ UNCHANGED <<allow_main, shape, registry, tools_by_room, snapshot, blind, built, promptVars, turnVars>>

\* RuntimeSnapshot::build reads the catalog of the main room, whichever room
\* was registered.  A listing that fails is taken for an empty one.
Build(q) ==
  /\ Goes(q, "read", "swap")
  /\ built' \in {[listed |-> TRUE, tools |-> registry[Main]], [listed |-> FALSE, tools |-> {}]}
  /\ UNCHANGED <<allow_main, shape, registry, tools_by_room, snapshot, blind, refresh_lock, promptVars,
                 turnVars>>

Swap(q) ==
  /\ Goes(q, "swap", AfterRegister(q))
  /\ snapshot' = built.tools /\ blind' = ~built.listed /\ refresh_lock' = None
  /\ UNCHANGED <<allow_main, shape, registry, tools_by_room, built, promptVars, turnVars>>

-----------------------------------------------------------------------------
(* process_user_system_prompt.                                             *)

\* A prompt of nothing but instructions and environment, or one the minifier
\* cannot rewrite, is not cached.
SkipPrompt(q) ==
  /\ \/ Goes(q, "prompt", AfterPrompt(q))
     \/ Goes(q, "minify", AfterPrompt(q))
  /\ UNCHANGED <<allow_main, shape, regVars, promptVars, turnVars>>

LookUpPrompt(q) ==
  /\ Goes(q, "prompt", IF shape[q].prompt \in prompt_cache THEN "bind" ELSE "minify")
  /\ UNCHANGED <<allow_main, shape, regVars, promptVars, turnVars>>

PutPrompt(q) ==
  /\ Goes(q, "minify", "bind")
  /\ prompt_cache' = prompt_cache \cup {shape[q].prompt}
  /\ UNCHANGED <<allow_main, shape, regVars, room_prompt, turnVars>>

BindPrompt(q) ==
  /\ Goes(q, "bind", AfterPrompt(q))
  /\ room_prompt' = [room_prompt EXCEPT ![Room(q)] = shape[q].prompt]
  /\ UNCHANGED <<allow_main, shape, regVars, prompt_cache, turnVars>>

-----------------------------------------------------------------------------
(* handle_chat: a message starts a turn, named after its request.          *)

OpenTurn(q) ==
  /\ Goes(q, "message", "activate")
  /\ holder' = [holder EXCEPT ![q] = q]
  /\ UNCHANGED <<allow_main, shape, regVars, promptVars, active, given, pending, cancelled>>

NoUserMessage(q) ==
  /\ Goes(q, "message", "refused")
  /\ UNCHANGED <<allow_main, shape, regVars, promptVars, turnVars>>

Activate(q) ==
  /\ Goes(q, "activate", "dispatch")
  /\ active' = [active EXCEPT ![Room(q)] = q]
  /\ UNCHANGED <<allow_main, shape, regVars, promptVars, holder, given, pending, cancelled>>

\* chat:message builds the door of the turn from the snapshot, and attaching
\* it gives the room's agents its external tools.
ChatMessage(q) ==
  /\ Goes(q, "dispatch", "reading")
  /\ given' = [given EXCEPT ![q] = snapshot]
  /\ UNCHANGED <<allow_main, shape, regVars, promptVars, active, holder, pending, cancelled>>

\* The head calls one of its external tools; the calls shown end the segment.
AskTool(t) ==
  /\ holder[t] # None /\ Goes(holder[t], "reading", "answered")
  /\ given[t] # {} /\ t \notin cancelled
  /\ pending' = pending \cup {t}
  /\ UNCHANGED <<allow_main, shape, regVars, promptVars, active, holder, given, cancelled>>

\* submit_tool_results: the stream of the active thread is opened for this
\* request, then each result goes to the call it names in that thread.  At the
\* first call the thread does not know the request fails, and the stream,
\* dropped before its end, cancels the turn.
SubmitResults(q) ==
  /\ hpc[q] = "results"
  /\ LET t == active[Room(q)]
     IN  \/ /\ t = None
            /\ Goes(q, "results", "refused")
            /\ UNCHANGED turnVars
         \/ /\ t # None /\ t \in pending
            /\ Goes(q, "results", "reading")
            /\ holder' = [holder EXCEPT ![t] = q]
            /\ pending' = pending \ {t}
            /\ UNCHANGED <<active, given, cancelled>>
         \/ /\ t # None
            /\ Goes(q, "results", "refused")
            /\ holder' = [holder EXCEPT ![t] = None]
            /\ cancelled' = cancelled \cup {t}
            /\ pending' \in {pending, pending \ {t}}
            /\ UNCHANGED <<active, given>>
  /\ UNCHANGED <<allow_main, shape, regVars, promptVars>>

Finish(q) ==
  /\ Goes(q, "reading", "answered")
  /\ UNCHANGED <<allow_main, shape, regVars, promptVars, turnVars>>

HttpNext ==
  \E q \in Requests :
    \/ Admit(q)
    \/ Persist(q) \/ Reject(q) \/ CacheTools(q) \/ Lock(q) \/ Build(q) \/ Swap(q)
    \/ SkipPrompt(q) \/ LookUpPrompt(q) \/ PutPrompt(q) \/ BindPrompt(q)
    \/ OpenTurn(q) \/ NoUserMessage(q) \/ Activate(q) \/ ChatMessage(q)
    \/ AskTool(q) \/ SubmitResults(q) \/ Finish(q)

HttpSpec == HttpInit /\ [][HttpNext]_httpVars

-----------------------------------------------------------------------------
(* Properties.                                                             *)

Registering(q) == hpc[q] \in {"cache", "refresh", "read", "swap"}

\* The snapshot the doors are built from never stays behind the registry, but
\* for a listing that failed: when no tool:register is under way, it has exactly
\* the tools last committed for the main room, however the registrations came
\* between each other; if the last of them to list the tools could not, it has
\* none, until the next one.
SnapshotIsCurrent ==
  (\A q \in Requests : ~Registering(q)) => snapshot = IF blind THEN {} ELSE registry[Main]
=============================================================================
