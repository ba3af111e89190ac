------------------------------- MODULE Files -------------------------------
(***************************************************************************)
(* The file tools of agents: the internal tool calls of an agent round     *)
(* (src/daemon/src/runtime/room/runner.rs) and of a hand                   *)
(* (src/daemon/src/runtime/hand/mod.rs), fs:* and patch:apply              *)
(* (src/daemon/src/syscalls), and the virtual file system below them       *)
(* (src/daemon/src/vfs): configured mounts, /tmp in memory, the sandbox    *)
(* directory for everything else.                                          *)
(*                                                                         *)
(* A path is a sequence of names and a text a sequence of lines; sizes are *)
(* counted in lines.  The host's file system and the patch program are     *)
(* external.  The actor of a call is its agent's role and name, which says *)
(* whether require_mutation lets it through; a call has no deadline and a  *)
(* token nobody cancels.  A hand is one hand:run.                          *)
(***************************************************************************)
EXTENDS Naturals, FiniteSets, SequencesExt

CONSTANTS
  FileAgents,  (* agents in rooms                                          *)
  Hands,       (* runs of a hand                                           *)
  Role,        (* the role of each agent: head, mind, hand or another      *)
  RoomOf,      (* the room of each agent                                   *)
  DoorRooms,   (* rooms with a door (chat:message), one agent in each      *)
  Mounts,      (* the configurations of [[vfs.mounts]] considered          *)
  NameRest,    (* names that start with another one, and what then follows *)
  Offers,      (* the calls the model of each agent or hand may make       *)
  MaxLines,    (* max_bytes of fs:read                                     *)
  MaxResults,  (* max_results of fs:list and fs:grep                       *)
  MaxIters,    (* max_iters of hand:run                                    *)
  MaxCalls,    (* bound: calls in one answer of a hand's model             *)
  MaxFailures, (* failed calls in a row that end a hand (5)                *)
  MaxFileCalls (* bound: calls of each agent                               *)

VARIABLES
  fsMounts,  (* the mount table                                            *)
  fsMem,     (* MemoryFs: path -> entry                                    *)
  fsHost,    (* the host's files: <<root>> \o path -> entry                *)
  fsCwd,     (* vfs_cwd of each agent                                      *)
  fsStep,    (* where each agent's call is                                 *)
  fsCall,    (* the call                                                   *)
  fsAnswer,  (* what it was answered                                       *)
  fsLocks,   (* rooms whose write lock is held                             *)
  fsHand,    (* each hand's loop: its end, iterations, calls of this       *)
             (* response left, calls failed in a row                       *)
  fsMade,    (* history: calls made                                        *)
  fsAlone,   (* history: agents whose call has met no other at its place   *)
  fsKept     (* history: writes answered ok that nobody has touched since  *)

fsVars == <<fsMounts, fsMem, fsHost, fsCwd, fsStep, fsCall, fsAnswer, fsLocks, fsHand,
            fsMade, fsAlone, fsKept>>

FileCallers == FileAgents \cup Hands

FileCalls == UNION {Offers[a] : a \in FileCallers}

\* The call of an agent that makes none.
NoCall == CHOOSE call \in FileCalls : TRUE

Dir == [dir |-> TRUE, text |-> <<>>]
File(text) == [dir |-> FALSE, text |-> text]
Above(path) == {SubSeq(path, 1, n) : n \in 0 .. Len(path) - 1}

\* An entry put in its place; directories made where there is nothing.
Put(files, path, entry) ==
  [p \in DOMAIN files \cup {path} |-> IF p = path THEN entry ELSE files[p]]

AddDirs(files, paths) ==
  [p \in DOMAIN files \cup paths |-> IF p \in DOMAIN files THEN files[p] ELSE Dir]

-----------------------------------------------------------------------------
(* Paths and mounts.  A set of at most one element is a result that may be *)
(* an error.                                                               *)

\* ".." folds the name before it and is refused where there is none.
normalize_path(names) ==
  LET out[n \in 0..Len(names)] ==
        IF n = 0 THEN {<<>>}
        ELSE IF names[n] = ".." THEN {Front(p) : p \in out[n - 1] \ {<<>>}}
        ELSE {Append(p, names[n]) : p \in out[n - 1]}
  IN  out[Len(names)]

resolve_vfs_path(path, cwd) ==
  CASE path.abs -> normalize_path(path.names)
    [] ~path.abs /\ path.names # <<>> -> normalize_path(cwd \o path.names)
    [] OTHER -> {}

expand_host_path(host) == IF host.abs THEN {host.root} ELSE {}

\* A relative host, the root as a prefix or a prefix twice: no table.
from_config(entries) ==
  LET Prefix(n) == normalize_path(entries[n].prefix) \ {<<>>}
      Host(n)   == expand_host_path(entries[n].host)
  IN IF \A n \in DOMAIN entries :
          /\ Prefix(n) # {} /\ Host(n) # {}
          /\ \A k \in DOMAIN entries : Prefix(k) = Prefix(n) => k = n
     THEN {UNION {{[prefix |-> p, host |-> h, ro |-> entries[n].ro] : p \in Prefix(n), h \in Host(n)} :
                    n \in DOMAIN entries}}
     ELSE {}

\* starts_with compares texts: /wr/f starts with the prefix /w.
NameStarts(name, start) ==
  name = start \/ (name \in DOMAIN NameRest /\ start \in DOMAIN NameRest[name])

Starts(path, prefix) ==
  /\ Len(prefix) <= Len(path)
  /\ Front(prefix) = SubSeq(path, 1, Len(prefix) - 1)
  /\ NameStarts(path[Len(prefix)], Last(prefix))

Suffix(path, prefix) ==
  LET n == Len(prefix)
  IN (IF path[n] = prefix[n] THEN <<>> ELSE <<NameRest[path[n]][prefix[n]]>>)
     \o SubSeq(path, n + 1, Len(path))

\* The longest prefix wins, then /tmp, then the sandbox.
resolve(path) ==
  LET fits == {m \in fsMounts : Starts(path, m.prefix)}
      m    == CHOOSE m \in fits : \A k \in fits : Starts(m.prefix, k.prefix)
  IN CASE fits # {} ->
            [on |-> "host", path |-> <<m.host>> \o Suffix(path, m.prefix), ro |-> m.ro]
       [] fits = {} /\ path # <<>> /\ Head(path) = "tmp" ->
            [on |-> "memory", path |-> path, ro |-> FALSE]
       [] OTHER -> [on |-> "host", path |-> <<"sandbox">> \o path, ro |-> FALSE]

\* Where the call of an agent leads.
Place(a) == {resolve(p) : p \in resolve_vfs_path(fsCall[a].path, fsCwd[a])}

-----------------------------------------------------------------------------
(* MemoryFs.                                                               *)

\* A bug: the parents are inserted whether or not there is an entry.
MemoryWriteOver(path, text) ==
  Put([q \in DOMAIN fsMem \cup Above(path) |-> IF q \in Above(path) THEN Dir ELSE fsMem[q]],
      path, File(text))

MemoryWrite(path, text) == AddDirs(Put(fsMem, path, File(text)), Above(path))

\* mkdir: with parents what is there stays, without it is replaced.
MemoryMkdir(path, parents) ==
  IF parents THEN AddDirs(fsMem, Above(path) \cup {path}) ELSE Put(fsMem, path, Dir)

Names(paths, base) == {SubSeq(p, Len(base) + 1, Len(p)) : p \in paths}
Below(files, base) == {p \in DOMAIN files \ {base} : IsPrefix(base, p)}
Children(files, base) == {p \in Below(files, base) : Len(p) = Len(base) + 1}

\* search: the files at or below a directory with such a line.
search(files, base, line) ==
  {p \in Below(files, base) \cup ({base} \cap DOMAIN files) :
     ~files[p].dir /\ Contains(files[p].text, line)}

-----------------------------------------------------------------------------
(* The host.                                                               *)

IsDirectory(path) == path \in DOMAIN fsHost /\ fsHost[path].dir
CanMakeDirs(path) == \A q \in Above(path) \cup {path} : q \in DOMAIN fsHost => fsHost[q].dir
MakeDirs(path) == AddDirs(fsHost, (Above(path) \cup {path}) \ {<<>>})

\* Bytes written from the start of a file that has others already.
Overlay(new, old) ==
  IF Len(new) >= Len(old) THEN new ELSE new \o SubSeq(old, Len(new) + 1, Len(old))

-----------------------------------------------------------------------------
(* The syscalls.  The answer ends the call: the agent's loop goes on.      *)

\* head/<name> and mind/<name> may change things; hand/<name>, the hand/<pid>
\* of a hand:run and any other actor may not.
can_mutate(a) == a \in FileAgents /\ Role[a] \in {"head", "mind"}

Ok(what) == [ok |-> TRUE, what |-> what]
Err(code) == [ok |-> FALSE, what |-> {code}]

Goes(a, step) == fsStep' = [fsStep EXCEPT ![a] = step]

Replies(a, answer) ==
  /\ Goes(a, "told")
  /\ fsAnswer' = [fsAnswer EXCEPT ![a] = answer]

Unanswered == UNCHANGED fsAnswer

Refused(a) == Place(a) = {} /\ Replies(a, Err("E_FORBIDDEN")) /\ UNCHANGED <<fsMem, fsHost>>

\* fs:write asks the mount's mode before it asks who writes.
Write(a, at) ==
  \/ /\ at.ro \/ ~can_mutate(a)
     /\ Replies(a, Err(IF at.ro THEN "E_READONLY" ELSE "E_FORBIDDEN")) /\ UNCHANGED <<fsMem, fsHost>>
  \/ /\ can_mutate(a) /\ at.on = "memory" /\ fsMem' = MemoryWrite(at.path, fsCall[a].text)
     /\ Replies(a, Ok({})) /\ UNCHANGED fsHost
  \/ /\ can_mutate(a) /\ at.on = "host" /\ ~at.ro /\ UNCHANGED fsMem
     /\ \/ Front(at.path) \in DOMAIN fsHost
           /\ Goes(a, "open") /\ Unanswered /\ UNCHANGED fsHost
        \/ Front(at.path) \notin DOMAIN fsHost
           /\ \/ fsCall[a].parents /\ CanMakeDirs(Front(at.path))
                 /\ fsHost' = MakeDirs(Front(at.path)) /\ Goes(a, "open") /\ Unanswered
              \/ fsCall[a].parents /\ ~CanMakeDirs(Front(at.path))
                 /\ Replies(a, Err("E_IO")) /\ UNCHANGED fsHost
              \/ ~fsCall[a].parents /\ Replies(a, Err("E_NOT_FOUND")) /\ UNCHANGED fsHost

\* fs::write: the file is opened and emptied, then written.
Open(a) ==
  /\ fsStep[a] = "open"
  /\ \E at \in Place(a) :
       IF IsDirectory(Front(at.path)) /\ ~IsDirectory(at.path)
       THEN fsHost' = Put(fsHost, at.path, File(<<>>)) /\ Goes(a, "fill") /\ Unanswered
       ELSE Replies(a, Err("E_IO")) /\ UNCHANGED fsHost
  /\ UNCHANGED <<fsMounts, fsMem, fsCwd, fsCall, fsLocks, fsHand, fsMade, fsAlone, fsKept>>

\* What an answered write may be expected to leave.
Keep(a, at) ==
  fsKept' = IF a \notin fsAlone THEN fsKept
            ELSE fsKept \cup {[on |-> at.on, path |-> at.path, text |-> fsCall[a].text]}

Fill(a) ==
  /\ fsStep[a] \in {"fill", "unlinked"}
  /\ \E at \in Place(a) :
       IF fsStep[a] = "fill"
       THEN /\ fsHost' = [fsHost EXCEPT ![at.path].text = Overlay(fsCall[a].text, @)]
            /\ Keep(a, at)
       ELSE UNCHANGED <<fsHost, fsKept>>
  /\ Replies(a, Ok({}))
  /\ UNCHANGED <<fsMounts, fsMem, fsCwd, fsCall, fsLocks, fsHand, fsMade, fsAlone>>

\* fs:mkdir asks who makes it, then looks; a mount's mode is not asked.
Mkdir(a, at) ==
  LET there == \/ at.on = "host" /\ at.path \in DOMAIN fsHost
               \/ at.on = "memory" /\ at.path \in DOMAIN fsMem /\ fsMem[at.path].dir
  IN /\ UNCHANGED <<fsMem, fsHost>>
     /\ \/ ~can_mutate(a) /\ Replies(a, Err("E_FORBIDDEN"))
        \/ can_mutate(a) /\ there /\ Replies(a, Ok({"exists"}))
        \/ can_mutate(a) /\ ~there /\ Goes(a, "make") /\ Unanswered

Make(a) ==
  /\ fsStep[a] = "make"
  /\ \E at \in Place(a) :
       \/ at.on = "memory" /\ UNCHANGED fsHost
          /\ IF fsCall[a].parents \/ Front(at.path) \in DOMAIN fsMem
             THEN fsMem' = MemoryMkdir(at.path, fsCall[a].parents) /\ Replies(a, Ok({"created"}))
             ELSE UNCHANGED fsMem /\ Replies(a, Err("E_NOT_FOUND"))
       \/ at.on = "host" /\ UNCHANGED fsMem
          /\ IF /\ CanMakeDirs(at.path)
                /\ fsCall[a].parents \/ (IsDirectory(Front(at.path)) /\ at.path \notin DOMAIN fsHost)
             THEN fsHost' = MakeDirs(at.path) /\ Replies(a, Ok({"created"}))
             ELSE UNCHANGED fsHost /\ Replies(a, Err("E_IO"))
  /\ UNCHANGED <<fsMounts, fsCwd, fsCall, fsLocks, fsHand, fsMade, fsAlone, fsKept>>

\* slice_lines, with its blank lines: none is kept before the first other one.
slice_lines(text, offset) ==
  IF offset = {} THEN text
  ELSE LET n == CHOOSE n \in offset : TRUE
           rest == SubSeq(text, n + 1, Len(text))
           blank == {k \in DOMAIN rest : \A j \in 1 .. k : rest[j] = ""}
       IN SubSeq(rest, Cardinality(blank) + 1, Len(rest))

\* fs:read cuts the text before it takes the lines asked for.
Read(a, at) ==
  LET files == IF at.on = "host" THEN fsHost ELSE fsMem
      code  == IF at.on = "host" THEN "E_IO" ELSE "E_INVALID_ARGS"
      text  == files[at.path].text
      cut   == IF Len(text) > MaxLines THEN SubSeq(text, 1, MaxLines) ELSE text
  IN Replies(a, CASE at.path \notin DOMAIN files -> Err("E_NOT_FOUND")
                  [] at.path \in DOMAIN files /\ files[at.path].dir -> Err(code)
                  [] OTHER -> Ok({slice_lines(cut, fsCall[a].offset)}))

\* fs:cd, to a directory that is there now.
Cd(a, at) ==
  LET files == IF at.on = "host" THEN fsHost ELSE fsMem
      there == at.path \in DOMAIN files
  IN Replies(a,
       CASE there /\ files[at.path].dir -> Ok(resolve_vfs_path(fsCall[a].path, fsCwd[a]))
         [] there /\ ~files[at.path].dir /\ at.on = "host" -> Err("E_INVALID_ARGS")
         [] OTHER -> Err("E_NOT_FOUND"))

\* Any MaxResults of what was found: a walk has no order.
Some(found) ==
  {s \in SUBSET found : Cardinality(s) = (IF Cardinality(found) > MaxResults
                                          THEN MaxResults ELSE Cardinality(found))}

\* fs:list: names below the mount's root, or below a directory in memory;
\* the root shows the mounts too.
List(a, at) ==
  LET shown == {<<Head(m.prefix)>> : m \in {m \in fsMounts : resolve_vfs_path(fsCall[a].path, fsCwd[a]) = {<<>>}}}
      root  == CHOOSE r \in DOMAIN fsHost : Len(r) = 1 /\ r[1] = at.path[1]
      found == IF fsCall[a].recursive THEN Below(fsHost, at.path) ELSE Children(fsHost, at.path)
  IN CASE at.on = "host" /\ at.path \notin DOMAIN fsHost -> Replies(a, Err("E_NOT_FOUND"))
       [] at.on = "host" /\ at.path \in DOMAIN fsHost ->
            \E s \in Some(Names(found, root) \cup shown) : Replies(a, Ok(s))
       [] at.on = "memory" /\ at.path \notin DOMAIN fsMem -> Replies(a, Err("E_NOT_FOUND"))
       [] at.on = "memory" /\ at.path \in DOMAIN fsMem ->
            IF fsMem[at.path].dir
            THEN \E s \in Some(Names(Children(fsMem, at.path), at.path)) : Replies(a, Ok(s))
            ELSE Replies(a, Err("E_INVALID_ARGS"))

\* fs:grep: a directory in memory need not be there.
Grep(a, at) ==
  CASE at.on = "host" /\ at.path \notin DOMAIN fsHost -> Replies(a, Err("E_NOT_FOUND"))
    [] at.on = "host" /\ at.path \in DOMAIN fsHost ->
         \E s \in Some(Names(search(fsHost, at.path, fsCall[a].line), <<at.path[1]>>)) : Replies(a, Ok(s))
    [] OTHER -> \E s \in Some(search(fsMem, at.path, fsCall[a].line)) : Replies(a, Ok(s))

\* patch:apply looks the header's path up and runs patch -p1 in the sandbox.
Stripped(names) == IF Head(names) \in {"a", "b"} THEN Tail(names) ELSE names

CheckPatch(a) ==
  /\ UNCHANGED <<fsMem, fsHost>>
  /\ IF ~can_mutate(a) \/ normalize_path(Stripped(fsCall[a].path.names)) = {}
     THEN Replies(a, Err("E_FORBIDDEN")) ELSE Goes(a, "patch") /\ Unanswered

\* The program reads the file, and leaves a new one in its place.
Patched(a) == <<"sandbox">> \o Tail(fsCall[a].path.names)

Patch(a) ==
  /\ fsStep[a] = "patch"
  /\ IF /\ ".." \notin ToSet(fsCall[a].path.names) /\ Len(Patched(a)) > 1
        /\ Patched(a) \in DOMAIN fsHost /\ fsHost[Patched(a)] = File(fsCall[a].old)
     THEN Goes(a, "rename") /\ Unanswered ELSE Replies(a, Err("E_IO"))
  /\ UNCHANGED <<fsMounts, fsMem, fsHost, fsCwd, fsCall, fsLocks, fsHand, fsMade, fsAlone, fsKept>>

\* A write that has the old file open goes on with that.
Rename(a) ==
  /\ fsStep[a] = "rename"
  /\ fsHost' = [fsHost EXCEPT ![Patched(a)].text = fsCall[a].text]
  /\ fsStep' = [b \in FileCallers |->
       CASE b = a -> "told"
         [] b # a /\ fsStep[b] = "fill" /\ (\E at \in Place(b) : at.path = Patched(a)) -> "unlinked"
         [] OTHER -> fsStep[b]]
  /\ fsAnswer' = [fsAnswer EXCEPT ![a] = Ok({})]
  /\ UNCHANGED <<fsMounts, fsMem, fsCwd, fsCall, fsLocks, fsHand, fsMade, fsAlone, fsKept>>

-----------------------------------------------------------------------------
(* An agent's calls, one after the other.                                  *)

tool_effect(tool) == IF tool \in {"fs_write", "fs_mkdir", "patch_apply"} THEN "Mutating" ELSE "ReadOnly"

\* The places a call of an agent may change.
Touched(a, call, cwd) ==
  CASE can_mutate(a) /\ call.tool = "patch_apply" -> {<<"host", <<"sandbox">> \o Tail(call.path.names)>>}
    [] can_mutate(a) /\ call.tool \in {"fs_write", "fs_mkdir"} ->
         {<<resolve(p).on, resolve(p).path>> : p \in resolve_vfs_path(call.path, cwd)}
    [] OTHER -> {}

\* The next call of a response.  A hand in its loop has some left to make; an
\* agent of a room, as many as its rounds give it.
HasCall(a) == IF a \in Hands THEN fsHand[a].end = "none" /\ fsHand[a].left > 0
                             ELSE fsMade[a] < MaxFileCalls[a]

TakesLock(a, tool) == a \in FileAgents /\ RoomOf[a] \in DoorRooms /\ tool_effect(tool) = "Mutating"

\* In a room with a door a mutating call takes the room's write lock.
Act(a) ==
  /\ fsStep[a] = "idle" /\ HasCall(a)
  /\ \E call \in Offers[a] :
       /\ fsCall' = [fsCall EXCEPT ![a] = call]
       /\ Goes(a, IF TakesLock(a, call.tool) THEN "lock" ELSE "run")
       /\ fsKept' = {w \in fsKept : <<w.on, w.path>> \notin Touched(a, call, fsCwd[a])}
       /\ LET met == {b \in FileCallers \ {a} :
                        /\ fsStep[b] \notin {"idle", "told"}
                        /\ Touched(b, fsCall[b], fsCwd[b]) \cap Touched(a, call, fsCwd[a]) # {}}
          IN fsAlone' = (IF met = {} THEN fsAlone \cup {a} ELSE fsAlone \ {a}) \ met
  /\ fsMade' = IF a \in Hands THEN fsMade ELSE [fsMade EXCEPT ![a] = @ + 1]
  /\ UNCHANGED <<fsMounts, fsMem, fsHost, fsCwd, fsAnswer, fsLocks, fsHand>>

acquire(a) ==
  /\ a \in FileAgents /\ fsStep[a] = "lock" /\ RoomOf[a] \notin fsLocks
  /\ fsLocks' = fsLocks \cup {RoomOf[a]}
  /\ Goes(a, "run")
  /\ UNCHANGED <<fsMounts, fsMem, fsHost, fsCwd, fsCall, fsAnswer, fsHand, fsMade, fsAlone, fsKept>>

dispatch_tool(a) ==
  /\ fsStep[a] = "run"
  /\ \/ fsCall[a].tool = "patch_apply" /\ CheckPatch(a)
     \/ fsCall[a].tool # "patch_apply" /\ Refused(a)
     \/ \E at \in Place(a) :
          \/ fsCall[a].tool = "fs_write" /\ Write(a, at)
          \/ fsCall[a].tool = "fs_mkdir" /\ Mkdir(a, at)
          \/ /\ UNCHANGED <<fsMem, fsHost>>
             /\ \/ fsCall[a].tool = "fs_read" /\ Read(a, at)
                \/ fsCall[a].tool = "fs_cd" /\ Cd(a, at)
                \/ fsCall[a].tool = "fs_list" /\ List(a, at)
                \/ fsCall[a].tool = "fs_grep" /\ Grep(a, at)
  /\ IF fsCall[a].tool = "fs_write" /\ can_mutate(a) /\ \E at \in Place(a) : at.on = "memory"
     THEN \E at \in Place(a) : Keep(a, at) ELSE UNCHANGED fsKept
  /\ UNCHANGED <<fsMounts, fsCwd, fsCall, fsLocks, fsHand, fsMade, fsAlone>>

\* What a hand makes of an answer: a response whose last calls all failed,
\* MaxFailures of them or more, is its last.
Streak(h) ==
  LET failed == IF fsAnswer[h].ok THEN 0 ELSE fsHand[h].failed + 1
      gives_up == fsHand[h].left = 1 /\ failed >= MaxFailures
  IN IF fsHand[h].end = "none"
     THEN [fsHand[h] EXCEPT !.left = @ - 1, !.failed = failed, !.end = IF gives_up THEN "failed" ELSE @]
     ELSE fsHand[h]

\* The answer of fs:cd is the new directory; the guard is dropped.
Learn(a) ==
  /\ fsStep[a] = "told"
  /\ fsCwd' = IF fsCall[a].tool = "fs_cd" /\ fsAnswer[a].ok
              THEN [fsCwd EXCEPT ![a] = CHOOSE p \in fsAnswer[a].what : TRUE] ELSE fsCwd
  /\ fsLocks' = IF TakesLock(a, fsCall[a].tool) THEN fsLocks \ {RoomOf[a]} ELSE fsLocks
  /\ fsHand' = IF a \in Hands THEN [fsHand EXCEPT ![a] = Streak(a)] ELSE fsHand
  /\ Goes(a, "idle")
  /\ fsAnswer' = [fsAnswer EXCEPT ![a] = Ok({})]
  /\ fsCall' = [fsCall EXCEPT ![a] = NoCall]
  /\ fsAlone' = fsAlone \ {a}
  /\ UNCHANGED <<fsMounts, fsMem, fsHost, fsMade, fsKept>>

\* What the model answers a hand: a last word; none, or an error; calls.
call_hand_llm ==
  [end : {"ok", "failed"}, calls : {0}] \cup [end : {"none"}, calls : 1 .. MaxCalls]

\* A hand's turn of the model, unless it has had too many.
execute_hand_loop(h) ==
  /\ fsHand[h].end = "none" /\ fsHand[h].left = 0 /\ fsStep[h] = "idle"
  /\ \/ fsHand[h].iters = MaxIters /\ fsHand' = [fsHand EXCEPT ![h].end = "failed"]
     \/ /\ fsHand[h].iters < MaxIters
        /\ \E got \in call_hand_llm : fsHand' =
             [fsHand EXCEPT ![h] = [@ EXCEPT !.end = got.end, !.left = got.calls,
                                    !.iters = IF got.calls = 0 THEN @ ELSE @ + 1]]
  /\ UNCHANGED <<fsMounts, fsMem, fsHost, fsCwd, fsStep, fsCall, fsAnswer, fsLocks, fsMade, fsAlone, fsKept>>

\* hand:run is cancelled: its loop is gone, and a call it has dispatched goes on.
CancelHand(h) ==
  /\ fsHand[h].end = "none"
  /\ fsHand' = [fsHand EXCEPT ![h].end = "gone", ![h].left = 0]
  /\ UNCHANGED <<fsMounts, fsMem, fsHost, fsCwd, fsStep, fsCall, fsAnswer, fsLocks, fsMade, fsAlone, fsKept>>

FilesInit ==
  /\ fsMounts \in UNION {from_config(entries) : entries \in Mounts}
  /\ fsMem = (<<>> :> Dir)
  /\ fsHost = [p \in {<<h>> : h \in {"sandbox"} \cup {m.host : m \in fsMounts}} |-> Dir]
              @@ [p \in {<<h, "f">> : h \in {"sandbox"} \cup {m.host : m \in fsMounts}} |-> File(<<"x">>)]
  /\ fsCwd = [a \in FileCallers |-> <<>>]
  /\ fsStep = [a \in FileCallers |-> "idle"]
  /\ fsCall = [a \in FileCallers |-> NoCall]
  /\ fsAnswer = [a \in FileCallers |-> Ok({})]
  /\ fsHand = [h \in Hands |-> [end |-> "none", iters |-> 0, left |-> 0, failed |-> 0]]
  /\ fsLocks = {} /\ fsMade = [a \in FileCallers |-> 0]
  /\ fsAlone = {} /\ fsKept = {}

FilesNext ==
  \/ \E a \in FileCallers :
       Act(a) \/ acquire(a) \/ dispatch_tool(a) \/ Open(a) \/ Fill(a) \/ Make(a) \/ Patch(a)
       \/ Rename(a) \/ Learn(a)
  \/ \E h \in Hands : execute_hand_loop(h) \/ CancelHand(h)

FilesSpec == FilesInit /\ [][FilesNext]_fsVars

-----------------------------------------------------------------------------
\* What fs:write has reported written is in the file, text for text, until a
\* head or a mind names that file again: no call on another path -- a directory
\* made on the way, a file below, the same place under another mount's name --
\* and no call of a hand, whatever it names, takes it away (memory.rs:88,
\* mount.rs:160, syscall.rs:110).
WrittenIsKept ==
  \A w \in fsKept :
    LET files == IF w.on = "host" THEN fsHost ELSE fsMem
    IN w.path \in DOMAIN files /\ files[w.path] = File(w.text)
=============================================================================
