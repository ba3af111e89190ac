------------------------------ MODULE Entities ------------------------------
(***************************************************************************)
(* The entity store of the daemon (EmsService, src/daemon/src/ems/): the   *)
(* one table behind tasks, needs, wants and memories, its migrations, the  *)
(* where clauses, the ems:* calls (src/daemon/src/syscalls/ems/mod.rs) and *)
(* the want:* calls made of them.                                          *)
(*                                                                         *)
(* Callers hand in and get back JSON objects.  A row has columns for the   *)
(* keys all entities have and one column, data, with a JSON object of the  *)
(* others; the store is one connection behind a mutex, so that a call's    *)
(* statement is one step.  Of SQLite this uses: NOT NULL, a statement that *)
(* fails changes nothing, json_extract of a missing key is NULL,           *)
(* json_patch is RFC 7396's merge, of a column assigned twice an INSERT    *)
(* takes the first and an UPDATE the last, and JSON functions fail on      *)
(* malformed JSON.  Timestamps, priorities, limits and orders are left out.*)
(***************************************************************************)
EXTENDS Naturals, FiniteSets, Sequences, Functions

CONSTANTS
  Ids,         (* entities' ids                                            *)
  Values,      (* JSON values but null                                     *)
  Null,
  None,        (* no row, no key                                           *)
  MaxWrites,   (* bound: calls that write                                  *)
  MaxCrashes   (* bound: restarts of the daemon                            *)

FixedColumns == {"status", "prompt"}
Extras == {"context", "reply_to"}
Keys == FixedColumns \cup Extras
Kinds == {"need", "want"}

\* The argument of an insert or an update: some of the keys, and possibly the
\* name of the column behind the extras.
Objects == UNION {[K -> Values \cup {Null}] : K \in {K \in SUBSET (Keys \cup {"data"}) :
                                                       Cardinality(K) \in 1 .. 2}}

\* What is no JSON object.
Text == [text |-> "text"]

VARIABLES
  entTable,    (* the rows: id -> [kind, column, data]                     *)
  entLegacy,   (* rows of the tables before migration 2: id -> kind        *)
  entVersion,  (* the migrations recorded                                  *)
  entTx,       (* what an open migration has done, or <<>>                 *)
  entPromoting,(* wants want:promote has read and not yet updated          *)
  entDoc,      (* history: the object each id was given, all calls merged  *)
  entRaw,      (* history: ids whose data column was written as a key      *)
  entCount     (* history: [writes, crashes]                               *)

entVars == <<entTable, entLegacy, entVersion, entTx, entPromoting, entDoc, entRaw, entCount>>

Default == [status |-> "pending", prompt |-> ""]

EntInit ==
  /\ entTable = [i \in Ids |-> None]
  /\ entLegacy \in [Ids -> Kinds \cup {None}]
  /\ entVersion = 1 /\ entTx = <<>> /\ entPromoting = {}
  /\ entDoc = [i \in Ids |-> None] /\ entRaw = {}
  /\ entCount = [writes |-> 0, crashes |-> 0]

-----------------------------------------------------------------------------
(* Migration 2 copies the rows of the old tables and drops those.          *)

Copied == [i \in Ids |-> IF entLegacy[i] = None THEN None
                         ELSE [kind |-> entLegacy[i], column |-> Default, data |-> <<>>]]

\* Mutant (MigratesOnce): the statements commit one by one.
MigrateAutocommit ==
  /\ entVersion = 1
  /\ \/ entTx = <<>> /\ entTx' = <<"copied">> /\ entTable' = Copied /\ UNCHANGED <<entLegacy, entVersion>>
     \/ /\ entTx # <<>> /\ entTx' = <<>> /\ entVersion' = 2
        /\ entLegacy' = [i \in Ids |-> None] /\ UNCHANGED entTable
  /\ UNCHANGED <<entPromoting, entDoc, entRaw, entCount>>

\* In one transaction with the record of the version.
Migrate ==
  /\ entVersion = 1
  /\ \/ entTx = <<>> /\ entTx' = <<"copied">> /\ UNCHANGED <<entTable, entLegacy, entVersion>>
     \/ entTx = <<"copied">> /\ entTx' = <<"copied", "dropped">> /\ UNCHANGED <<entTable, entLegacy, entVersion>>
     \/ /\ entTx = <<"copied", "dropped">> /\ entTx' = <<>> /\ entVersion' = 2
        /\ entTable' = Copied /\ entLegacy' = [i \in Ids |-> None]
  /\ UNCHANGED <<entPromoting, entRaw, entCount>>
  /\ entDoc' = IF entVersion' = 1 THEN entDoc
               ELSE [i \in Ids |-> IF entLegacy[i] = None THEN None
                                   ELSE [kind |-> entLegacy[i], val |-> [k \in Keys |->
                                           IF k \in FixedColumns THEN Default[k] ELSE Null]]]

\* A daemon that dies has the connection roll its transaction back.
Crash ==
  /\ entCount.crashes < MaxCrashes /\ entCount' = [entCount EXCEPT !.crashes = @ + 1]
  /\ entTx' = <<>> /\ entPromoting' = {}
  /\ UNCHANGED <<entTable, entLegacy, entVersion, entDoc, entRaw>>

-----------------------------------------------------------------------------
(* Where clauses.  A condition is [key, op, val]; "eq" with null is IS     *)
(* NULL, "ne" with null is IS NOT NULL.                                    *)

Conditions == [key : Keys, op : {"eq", "ne"}, val : Values \cup {Null}]

Compare(c, v) ==
  CASE c.val = Null -> (v = Null) = (c.op = "eq")
    [] v = Null -> FALSE
    [] OTHER -> (v = c.val) = (c.op = "eq")

\* col_ref: the column, or json_extract of data.
col_ref(row, key) ==
  IF key \in FixedColumns THEN row.column[key]
  ELSE IF key \in DOMAIN row.data THEN row.data[key] ELSE Null

Rows(kind) == {i \in Ids : entTable[i] # None /\ entTable[i].kind = kind}
Selected(kind, where) ==
  {i \in Rows(kind) : \A c \in where : Compare(c, col_ref(entTable[i], c.key))}

\* A condition on an extra cannot be evaluated for a row whose data is no JSON.
Malformed == {i \in entRaw : entTable[i] # None /\ entTable[i].data = Text}
Fails(kind, where) ==
  LET onColumns == {c \in where : c.key \in FixedColumns}
  IN  onColumns # where /\ Malformed \cap Selected(kind, onColumns) # {}

\* unpack_row: the columns, and the extras under their own names.
unpack_row(row) == [k \in Keys |-> col_ref(row, k)]

-----------------------------------------------------------------------------
(* Writes.  A null for a column fails.                                     *)

Writes == /\ entVersion = 2 /\ entCount.writes < MaxWrites
          /\ entCount' = [entCount EXCEPT !.writes = @ + 1]

Refused(obj) == \E k \in DOMAIN obj : k \notin Extras /\ obj[k] = Null

\* The extras of obj over the object they are merged into; null takes away.
json_patch(data, obj) ==
  [k \in {k \in (DOMAIN data \cup DOMAIN obj) \cap Extras : k \in DOMAIN obj => obj[k] # Null} |->
     IF k \in DOMAIN obj THEN obj[k] ELSE data[k]]

Merged(fields, obj) == [k \in DOMAIN fields |-> IF k \in DOMAIN obj THEN obj[k] ELSE fields[k]]

InsertRow(i, kind, obj) ==
  /\ entTable[i] = None /\ ~Refused(obj)
  /\ entTable' = [entTable EXCEPT ![i] =
       [kind |-> kind, column |-> Merged(Default, obj),
        data |-> IF "data" \in DOMAIN obj THEN Text ELSE Restrict(obj, DOMAIN obj \cap Extras)]]
  /\ entDoc' = [entDoc EXCEPT ![i] =
       [kind |-> kind, val |-> [k \in Keys |-> IF k \in DOMAIN obj THEN obj[k]
                                               ELSE IF k \in FixedColumns THEN Default[k] ELSE Null]]]
  /\ entRaw' = IF "data" \in DOMAIN obj THEN entRaw \cup {i} ELSE entRaw

\* Mutant (AnswersAreOfDocuments): data = ? instead of json_patch.
NewDataReplaced(data, obj) == IF DOMAIN obj \cap Extras = {} THEN data ELSE json_patch(<<>>, obj)

NewData(data, obj) == IF DOMAIN obj \cap Extras = {} THEN data ELSE json_patch(data, obj)

UpdateRows(rows, obj) ==
  /\ ~Refused(obj) /\ (DOMAIN obj \cap Extras # {} => rows \cap Malformed = {})
  /\ entTable' = [i \in Ids |-> IF i \notin rows THEN entTable[i]
       ELSE [kind |-> entTable[i].kind, column |-> Merged(entTable[i].column, obj),
             data |-> IF "data" \in DOMAIN obj /\ DOMAIN obj \cap Extras = {} THEN Text
                      ELSE NewData(entTable[i].data, obj)]]
  /\ entDoc' = [i \in Ids |-> IF i \notin rows THEN entDoc[i]
                              ELSE [entDoc[i] EXCEPT !.val = Merged(@, obj)]]
  /\ entRaw' = IF "data" \in DOMAIN obj /\ DOMAIN obj \cap Extras = {} THEN entRaw \cup rows ELSE entRaw

Insert ==
  /\ Writes /\ \E i \in Ids, kind \in Kinds, obj \in Objects : InsertRow(i, kind, obj)
  /\ UNCHANGED <<entLegacy, entVersion, entTx, entPromoting>>

Update ==
  /\ Writes
  /\ \E kind \in Kinds, c \in Conditions, obj \in Objects :
       ~Fails(kind, {c}) /\ UpdateRows(Selected(kind, {c}), obj)
  /\ UNCHANGED <<entLegacy, entVersion, entTx, entPromoting>>

Delete ==
  /\ Writes
  /\ \E i \in Ids :
       /\ entTable[i] # None
       /\ entTable' = [entTable EXCEPT ![i] = None] /\ entDoc' = [entDoc EXCEPT ![i] = None]
       /\ entRaw' = entRaw \ {i}
  /\ UNCHANGED <<entLegacy, entVersion, entTx, entPromoting>>

\* claim_one of need:lease: find, change and read again under the mutex.
Claim ==
  LET where == {[key |-> "status", op |-> "eq", val |-> "pending"],
                [key |-> "reply_to", op |-> "eq", val |-> Null]}
  IN  /\ Writes /\ ~Fails("need", where)
      /\ \E i \in Selected("need", where) : UpdateRows({i}, [status |-> "running"])
      /\ UNCHANGED <<entLegacy, entVersion, entTx, entPromoting>>

WantCreate ==
  /\ Writes
  /\ \E i \in Ids, v \in Values : InsertRow(i, "want", [prompt |-> v, context |-> v])
  /\ UNCHANGED <<entLegacy, entVersion, entTx, entPromoting>>

Pending(i) == i \in Selected("want", {[key |-> "status", op |-> "eq", val |-> "pending"]})

WantRemove ==
  /\ Writes
  /\ \E i \in Ids : Pending(i) /\ UpdateRows({i}, [status |-> "removed"])
  /\ UNCHANGED <<entLegacy, entVersion, entTx, entPromoting>>

\* want:promote reads a pending want, and then updates it by its id.
WantPromote ==
  \/ /\ entVersion = 2
     /\ \E i \in Ids : Pending(i) /\ i \notin entPromoting /\ entPromoting' = entPromoting \cup {i}
     /\ UNCHANGED <<entTable, entLegacy, entVersion, entTx, entDoc, entRaw, entCount>>
  \/ /\ Writes
     /\ \E i \in entPromoting :
          /\ UpdateRows(Rows("want") \cap {i}, [status |-> "promoted"])
          /\ entPromoting' = entPromoting \ {i}
     /\ UNCHANGED <<entLegacy, entVersion, entTx>>

EntNext == \/ Migrate \/ Crash \/ Insert \/ Update \/ Delete \/ Claim
           \/ WantCreate \/ WantRemove \/ WantPromote

EntSpec == EntInit /\ [][EntNext]_entVars

-----------------------------------------------------------------------------
\* What select gives back, for every condition and through all that was merged
\* into a row, is what a store of whole JSON objects would: null and a missing
\* key are the same, columns and extras are asked for alike.
AnswersAreOfDocuments ==
  /\ \A i \in Ids \ entRaw :
       /\ (entTable[i] = None) = (entDoc[i] = None)
       /\ entTable[i] # None => unpack_row(entTable[i]) = entDoc[i].val
  /\ \A kind \in Kinds, c \in Conditions :
       Selected(kind, {c}) \ entRaw =
         {i \in Ids \ entRaw : entDoc[i] # None /\ entDoc[i].kind = kind /\ Compare(c, entDoc[i].val[c.key])}

\* Through crashes at any statement of the migration, an entity of the old
\* tables is in them or in the new one, and never in both, where the copy
\* would meet its id again at the next start and the store would not open.
MigratesOnce ==
  [][\A i \in Ids : entLegacy[i] # None => (entLegacy'[i] # None) # (entTable'[i] # None)]_entVars

=============================================================================
