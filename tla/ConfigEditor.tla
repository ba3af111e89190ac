---------------------------- MODULE ConfigEditor ----------------------------
(***************************************************************************)
(* The monitor's configuration editor (src/monitor/src/config.rs, and the  *)
(* keys, requests and answers of it in main.rs): the fields of the         *)
(* daemon's configuration are loaded, edited in a dialog and saved as a    *)
(* whole over the admin API, while requests are under way and others write *)
(* the same configuration.                                                 *)
(*                                                                         *)
(* A configuration gives every field a value, or leaves it out (Absent):   *)
(* nested objects, JSON kinds and number widths are a field's own matter.  *)
(* Bad is a text that will not do for the field's kind.                    *)
(***************************************************************************)
EXTENDS Naturals, Sequences, SequencesExt

CONSTANTS
  Fields,      (* <<field, ...>> in the order of the screen                *)
  Values,      (* values of a field                                        *)
  Absent, Bad, (* no value; a value that cannot be saved                   *)
  NoDialog,
  MaxRequests, (* bound: requests to the admin API                         *)
  MaxEdits     (* bound: edits, here and by others                         *)

FieldSet == {Fields[i] : i \in DOMAIN Fields}
Configs == [FieldSet -> Values \cup {Absent}]

VARIABLES
  edServer,   (* the daemon's configuration                                *)
  edTasks,    (* requests under way: [kind, body, answer]                  *)
  edView,     (* [now, last]: is the view the editor, and was it           *)
  edShown,    (* fields shown, in order                                    *)
  edValue,    (* ConfigField.value                                         *)
  edOriginal, (* ConfigField.original                                      *)
  edBase,     (* base_json                                                 *)
  edCursor,   (* the selected field's place in edShown                     *)
  edDialog,   (* the field the dialog was opened for                       *)
  edFlags,    (* [loading, confirm]                                        *)
  edKnown,    (* history: what the last answer said the daemon has         *)
  edTouched,  (* history: a change of the fields while a save was under way*)
  edCount     (* history: [requests, edits]                                *)

edVars == <<edServer, edTasks, edView, edShown, edValue, edOriginal, edBase, edCursor, edDialog,
            edFlags, edKnown, edTouched, edCount>>

requestVars == <<edServer, edTasks, edKnown, edTouched, edCount>>
fieldVars == <<edShown, edValue, edOriginal, edBase>>

Nothing == [f \in FieldSet |-> Absent]

EditorInit ==
  /\ edServer \in Configs
  /\ edTasks = <<>> /\ edView = [now |-> FALSE, last |-> FALSE]
  /\ edShown = <<>> /\ edValue = Nothing /\ edOriginal = Nothing /\ edBase = Nothing
  /\ edCursor = 1 /\ edDialog = NoDialog /\ edFlags = [loading |-> FALSE, confirm |-> FALSE]
  /\ edKnown = Nothing /\ edTouched = FALSE /\ edCount = [requests |-> 0, edits |-> 0]

-----------------------------------------------------------------------------
(* The fields.                                                             *)

is_dirty(f) == edValue[f] # edOriginal[f]
is_any_dirty == \E i \in DOMAIN edShown : is_dirty(edShown[i])

\* to_json: what is shown, over the JSON it was loaded from; a field without a
\* value is taken out.  validate_for_save goes through the same fields.
to_json == [f \in FieldSet |-> IF f \in ToSet(edShown) THEN edValue[f] ELSE edBase[f]]
Savable == \A i \in DOMAIN edShown : edValue[edShown[i]] # Bad

Saving == \E i \in DOMAIN edTasks : edTasks[i].kind = "put"

Spawn(kind, body) ==
  /\ edCount.requests < MaxRequests
  /\ edTasks' = Append(edTasks, [kind |-> kind, body |-> body, answer |-> "none"])
  /\ edCount' = [edCount EXCEPT !.requests = @ + 1]

-----------------------------------------------------------------------------
(* Keys.  The dialog and the question whether to save take every other key.*)

Typing == edView.now /\ edDialog = NoDialog /\ ~edFlags.confirm

\* The view picker is open to the user at any time.
SwitchView ==
  /\ edView' = [edView EXCEPT !.now = ~@]
  /\ UNCHANGED <<requestVars, fieldVars, edCursor, edDialog, edFlags>>

\* The loop sees that the view has changed, and loads what nobody has edited.
Notice ==
  /\ edView.now # edView.last
  /\ edView' = [edView EXCEPT !.last = edView.now]
  /\ IF edView.now /\ ~is_any_dirty /\ ~edFlags.loading
     THEN /\ Spawn("get", Nothing) /\ edFlags' = [edFlags EXCEPT !.loading = TRUE]
          /\ UNCHANGED <<edServer, edKnown, edTouched>>
     ELSE UNCHANGED <<requestVars, edFlags>>
  /\ UNCHANGED <<fieldVars, edCursor, edDialog>>

Select ==
  /\ Typing /\ edCursor' \in DOMAIN edShown
  /\ UNCHANGED <<requestVars, fieldVars, edView, edDialog, edFlags>>

OpenDialog ==
  /\ Typing /\ edCursor \in DOMAIN edShown
  /\ edDialog' = edShown[edCursor]
  /\ UNCHANGED <<requestVars, fieldVars, edView, edCursor, edFlags>>

\* Enter gives the value to the field that is selected now.
Enter ==
  /\ edView.now /\ edDialog # NoDialog /\ ~edFlags.confirm /\ edCount.edits < MaxEdits
  /\ \E v \in Values \cup {Absent, Bad} :
       edValue' = IF edCursor \in DOMAIN edShown
                  THEN [edValue EXCEPT ![edShown[edCursor]] = v] ELSE edValue
  /\ edDialog' = NoDialog
  /\ edCount' = [edCount EXCEPT !.edits = @ + 1]
  /\ edTouched' = (edTouched \/ Saving)
  /\ UNCHANGED <<edServer, edTasks, edKnown, edShown, edOriginal, edBase, edView, edCursor, edFlags>>

Escape ==
  /\ edView.now /\ edDialog # NoDialog /\ ~edFlags.confirm
  /\ edDialog' = NoDialog
  /\ UNCHANGED <<requestVars, fieldVars, edView, edCursor, edFlags>>

Reload ==
  /\ Typing /\ Spawn("get", Nothing)
  /\ edFlags' = [edFlags EXCEPT !.loading = TRUE]
  /\ UNCHANGED <<edServer, edKnown, edTouched, fieldVars, edView, edCursor, edDialog>>

AskToSave ==
  /\ Typing /\ is_any_dirty /\ Savable
  /\ edFlags' = [edFlags EXCEPT !.confirm = TRUE]
  /\ UNCHANGED <<requestVars, fieldVars, edView, edCursor, edDialog>>

\* Mutant (CleanMeansSaved): the fields are clean as soon as they are sent.
ConfirmMarks ==
  /\ edView.now /\ edFlags.confirm
  /\ edFlags' = [edFlags EXCEPT !.confirm = FALSE]
  /\ IF Savable THEN Spawn("put", to_json) /\ edTouched' = (edTouched \/ Saving) /\ edOriginal' = edValue
     ELSE UNCHANGED <<edTasks, edCount, edTouched, edOriginal>>
  /\ UNCHANGED <<edServer, edKnown, edShown, edValue, edBase, edView, edCursor, edDialog>>

Confirm ==
  /\ edView.now /\ edFlags.confirm
  /\ edFlags' = [edFlags EXCEPT !.confirm = FALSE]
  /\ IF Savable THEN Spawn("put", to_json) /\ edTouched' = (edTouched \/ Saving)
     ELSE UNCHANGED <<edTasks, edCount, edTouched>>
  /\ UNCHANGED <<edServer, edKnown, fieldVars, edView, edCursor, edDialog>>

Decline ==
  /\ edView.now /\ edFlags.confirm
  /\ edFlags' = [edFlags EXCEPT !.confirm = FALSE]
  /\ UNCHANGED <<requestVars, fieldVars, edView, edCursor, edDialog>>

-----------------------------------------------------------------------------
(* The daemon, and its answers.                                            *)

Answers(i, answer) == edTasks' = [edTasks EXCEPT ![i].answer = answer]

get_config(i) ==
  /\ edTasks[i].kind = "get"
  /\ edTasks' = [edTasks EXCEPT ![i] = [@ EXCEPT !.answer = "loaded", !.body = edServer]]
  /\ UNCHANGED edServer

\* The answer to a save may be lost on the way back.
put_config(i) ==
  /\ edTasks[i].kind = "put" /\ edServer' = edTasks[i].body
  /\ \E a \in {"saved", "error"} : Answers(i, a)

\* A request fails on the way there, or is served.
Serve ==
  /\ \E i \in DOMAIN edTasks :
       /\ edTasks[i].answer = "none"
       /\ \/ get_config(i) \/ put_config(i)
          \/ Answers(i, "error") /\ UNCHANGED edServer
  /\ UNCHANGED <<edKnown, edTouched, edCount, fieldVars, edView, edCursor, edDialog, edFlags>>

\* Somebody else changes the configuration.
Others ==
  /\ edCount.edits < MaxEdits /\ edCount' = [edCount EXCEPT !.edits = @ + 1]
  /\ edServer' \in Configs \ {edServer}
  /\ UNCHANGED <<edTasks, edKnown, edTouched, fieldVars, edView, edCursor, edDialog, edFlags>>

Answered(i, answer) ==
  /\ edTasks[i].answer = answer /\ edTasks' = RemoveAt(edTasks, i)
  /\ UNCHANGED <<edServer, edCount>>

\* load_from_json replaces the fields and the selection, not the dialog.
Loaded ==
  /\ \E i \in DOMAIN edTasks :
       /\ Answered(i, "loaded")
       /\ LET json == edTasks[i].body
          IN  /\ edShown' = SelectSeq(Fields, LAMBDA f : json[f] # Absent)
              /\ edValue' = json /\ edOriginal' = json /\ edBase' = json /\ edKnown' = json
  /\ edCursor' = 1 /\ edFlags' = [edFlags EXCEPT !.loading = FALSE]
  /\ edTouched' = (edTouched \/ Saving)
  /\ UNCHANGED <<edView, edDialog>>

Saved ==
  /\ \E i \in DOMAIN edTasks :
       /\ Answered(i, "saved")
       /\ edKnown' = edTasks[i].body
  /\ edOriginal' = edValue
  /\ UNCHANGED <<edTouched, edShown, edValue, edBase, edView, edCursor, edDialog, edFlags>>

Failed ==
  /\ \E i \in DOMAIN edTasks : Answered(i, "error")
  /\ edFlags' = [edFlags EXCEPT !.loading = FALSE]
  /\ UNCHANGED <<edKnown, edTouched, fieldVars, edView, edCursor, edDialog>>

EditorNext ==
  \/ SwitchView \/ Notice \/ Select \/ OpenDialog \/ Enter \/ Escape \/ Reload
  \/ AskToSave \/ Confirm \/ Decline
  \/ Serve \/ Others \/ Loaded \/ Saved \/ Failed

EditorSpec == EditorInit /\ [][EditorNext]_edVars

-----------------------------------------------------------------------------
\* A field without the mark of an unsaved change holds what the daemon last
\* said it has, failed and repeated requests included, as long as nothing is
\* typed or loaded between a save and its answer (Saved takes the fields as
\* they are by then, not as they were sent).
CleanMeansSaved ==
  ~edTouched => \A i \in DOMAIN edShown :
    ~is_dirty(edShown[i]) => edValue[edShown[i]] = edKnown[edShown[i]]
=============================================================================
