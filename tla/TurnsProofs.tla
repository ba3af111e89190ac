---------------------------- MODULE TurnsProofs ----------------------------
(***************************************************************************)
(* Theorems about module Turns, for every number of heads, tool calls and  *)
(* results and every order of the calls of TurnRuntime's methods.          *)
(***************************************************************************)
EXTENDS Turns, TLAPS

\* The steps a proof about Next has to look at.
LEMMA TurnsNextCases ==
  ASSUME [Next]_vars
  PROVE  \/ cancel
         \/ finish
         \/ \E id \in ToolIds : register_external_tool(id)
         \/ \E id \in ToolIds, r \in Results : deliver_external_tool_result(id, r)
         \/ \E h \in Heads, id \in ToolIds : TakeBegin(h, id)
         \/ \E h \in Heads : TakeCheck(h) \/ TakeListen(h) \/ TakeRemove(h) \/ TakeEnd(h)
         \/ UNCHANGED vars
BY DEF Next, TakeStep

LEMMA TurnsTypeStep ==
  ASSUME TypeOK, [Next]_vars
  PROVE  TypeOK'
<1> USE DEF TypeOK, Places, turnVars, waitVars
<1>1. cancel => TypeOK'
  BY DEF cancel, Wake
<1>2. finish => TypeOK'
  BY DEF finish
<1>3. ASSUME NEW id \in ToolIds, register_external_tool(id) PROVE TypeOK'
  BY <1>3 DEF register_external_tool
<1>4. ASSUME NEW id \in ToolIds, NEW r \in Results,
             deliver_external_tool_result(id, r)
      PROVE  TypeOK'
  BY <1>4 DEF deliver_external_tool_result, Wake
<1>5. ASSUME NEW h \in Heads, NEW id \in ToolIds, TakeBegin(h, id) PROVE TypeOK'
  BY <1>5 DEF TakeBegin
<1>6. ASSUME NEW h \in Heads, TakeCheck(h) PROVE TypeOK'
  BY <1>6 DEF TakeCheck
<1>7. ASSUME NEW h \in Heads, TakeListen(h) PROVE TypeOK'
  BY <1>7 DEF TakeListen
<1>8. ASSUME NEW h \in Heads, TakeRemove(h) PROVE TypeOK'
  BY <1>8 DEF TakeRemove
<1>9. ASSUME NEW h \in Heads, TakeEnd(h) PROVE TypeOK'
  BY <1>9 DEF TakeEnd
<1>10. UNCHANGED vars => TypeOK'
  BY DEF vars
<1>11. QED
  BY <1>1, <1>2, <1>3, <1>4, <1>5, <1>6, <1>7, <1>8, <1>9, <1>10, TurnsNextCases

\* Every state has the types the code declares.
THEOREM TurnsTypeCorrect == Spec => []TypeOK
<1>1. Init => TypeOK
  <2> SUFFICES ASSUME Init PROVE TypeOK
    OBVIOUS
  <2>1. present \in BOOLEAN /\ cancelled \in BOOLEAN
    BY DEF Init
  <2>2. result \in [ToolIds -> Results \cup {NoResult}] /\ notify \in [ToolIds -> Nat]
        /\ notifies \in Nat /\ delivered \in [ToolIds -> SUBSET Results]
    BY DEF Init
  <2>3. at \in [Heads -> Places] /\ on \in [Heads -> Nat]
        /\ got \in [Heads -> Results \cup {NoResult}]
    BY DEF Init, Places
  <2> QED
    BY <2>1, <2>2, <2>3 DEF Init, TypeOK
<1>2. TypeOK /\ [Next]_vars => TypeOK'
  BY TurnsTypeStep
<1>3. QED
  BY <1>1, <1>2, PTL DEF Spec

-----------------------------------------------------------------------------
(* Correlation.  CorrectHead speaks of a head's local copy of a result.     *)
(* What makes it inductive is where the copy comes from: a result that is   *)
(* kept was delivered under its own id.                                     *)

KeptWasDelivered ==
  \A id \in ToolIds : result[id] # NoResult => result[id] \in delivered[id]

Correlated == TypeOK /\ KeptWasDelivered /\ CorrectHead

LEMMA CorrelatedStep ==
  ASSUME Correlated, TypeOK', [Next]_vars
  PROVE  KeptWasDelivered' /\ CorrectHead'
<1> DEFINE Goal == KeptWasDelivered' /\ CorrectHead'
<1> USE DEF Correlated, TypeOK, KeptWasDelivered, CorrectHead, turnVars, waitVars
<1>1. cancel => Goal
  BY DEF cancel, Wake
<1>2. finish => Goal
  BY DEF finish
<1>3. ASSUME NEW id \in ToolIds, register_external_tool(id) PROVE Goal
  BY <1>3 DEF register_external_tool
<1>4. ASSUME NEW id \in ToolIds, NEW r \in Results,
             deliver_external_tool_result(id, r)
      PROVE  Goal
  <2>1. CASE id \in pending
    <3>1. KeptWasDelivered'
      BY <1>4, <2>1 DEF deliver_external_tool_result
    <3>2. \A h \in Heads : at'[h] \in {"removing", "ok"} => at[h] \in {"removing", "ok"}
      BY <1>4, <2>1 DEF deliver_external_tool_result, Wake
    <3>3. \A i \in ToolIds : delivered[i] \subseteq delivered'[i]
      BY <1>4, <2>1 DEF deliver_external_tool_result
    <3>4. got' = got /\ tool' = tool
      BY <1>4 DEF deliver_external_tool_result
    <3> QED BY <3>1, <3>2, <3>3, <3>4
  <2>2. CASE id \notin pending
    BY <1>4, <2>2 DEF deliver_external_tool_result
  <2> QED BY <2>1, <2>2
<1>5. ASSUME NEW h \in Heads, NEW id \in ToolIds, TakeBegin(h, id) PROVE Goal
  BY <1>5 DEF TakeBegin
<1>6. ASSUME NEW h \in Heads, TakeCheck(h) PROVE Goal
  BY <1>6 DEF TakeCheck
<1>7. ASSUME NEW h \in Heads, TakeListen(h) PROVE Goal
  BY <1>7 DEF TakeListen
<1>8. ASSUME NEW h \in Heads, TakeRemove(h) PROVE Goal
  BY <1>8 DEF TakeRemove
<1>9. ASSUME NEW h \in Heads, TakeEnd(h) PROVE Goal
  BY <1>9 DEF TakeEnd
<1>10. UNCHANGED vars => Goal
  BY DEF vars
<1> HIDE DEF Goal
<1>11. Goal
  BY <1>1, <1>2, <1>3, <1>4, <1>5, <1>6, <1>7, <1>8, <1>9, <1>10, TurnsNextCases
<1> QED BY <1>11 DEF Goal

\* Whatever calls, deliveries, cancels and ends of turns cross while a head
\* waits, the result it takes was delivered under the id it waits for.
THEOREM TurnsCorrectHead == Spec => []CorrectHead
<1>1. Init => KeptWasDelivered /\ CorrectHead
  BY DEF Init, KeptWasDelivered, CorrectHead
<1>2. Correlated /\ TypeOK' /\ [Next]_vars => (KeptWasDelivered /\ CorrectHead)'
  BY CorrelatedStep
<1>3. Spec => []TypeOK
  BY TurnsTypeCorrect
<1>4. QED
  BY <1>1, <1>2, <1>3, PTL DEF Spec, Correlated

-----------------------------------------------------------------------------
(* The shape of the turn's entry.                                          *)

Shaped == TypeOK /\ EntryWhole /\ NotifyUnshared

LEMMA ShapedStep ==
  ASSUME Shaped, TypeOK', [Next]_vars
  PROVE  EntryWhole' /\ NotifyUnshared'
<1> DEFINE Goal == EntryWhole' /\ NotifyUnshared'
<1> USE DEF Shaped, TypeOK, EntryWhole, NotifyUnshared, turnVars, waitVars
<1>1. cancel => Goal
  BY DEF cancel
<1>2. finish => Goal
  BY DEF finish
<1>3. ASSUME NEW id \in ToolIds, register_external_tool(id) PROVE Goal
  <2>1. CASE id \in pending
    BY <1>3, <2>1 DEF register_external_tool
  <2>2. CASE id \notin pending
    <3>1. EntryWhole'
      BY <1>3, <2>2 DEF register_external_tool
    <3>2. /\ notifies' = notifies + 1
          /\ pending' = pending \cup {id}
          /\ notify' = [notify EXCEPT ![id] = notifies + 1]
      BY <1>3, <2>2 DEF register_external_tool
    <3>3. NotifyUnshared'
      BY <3>2, <2>2
    <3> QED BY <3>1, <3>3
  <2> QED BY <2>1, <2>2
<1>4. ASSUME NEW id \in ToolIds, NEW r \in Results,
             deliver_external_tool_result(id, r)
      PROVE  Goal
  BY <1>4 DEF deliver_external_tool_result
<1>5. ASSUME NEW h \in Heads, NEW id \in ToolIds, TakeBegin(h, id) PROVE Goal
  BY <1>5 DEF TakeBegin
<1>6. ASSUME NEW h \in Heads, TakeCheck(h) PROVE Goal
  BY <1>6 DEF TakeCheck
<1>7. ASSUME NEW h \in Heads, TakeListen(h) PROVE Goal
  BY <1>7 DEF TakeListen
<1>8. ASSUME NEW h \in Heads, TakeRemove(h) PROVE Goal
  BY <1>8 DEF TakeRemove
<1>9. ASSUME NEW h \in Heads, TakeEnd(h) PROVE Goal
  BY <1>9 DEF TakeEnd
<1>10. UNCHANGED vars => Goal
  BY DEF vars
<1> HIDE DEF Goal
<1>11. Goal
  BY <1>1, <1>2, <1>3, <1>4, <1>5, <1>6, <1>7, <1>8, <1>9, <1>10, TurnsNextCases
<1> QED BY <1>11 DEF Goal

\* A turn is either wholly in the map or wholly out of it, and two pending
\* calls never share a Notify: a delivery wakes the head of its own call only.
THEOREM TurnsShape == Spec => [](EntryWhole /\ NotifyUnshared)
<1>1. Init => EntryWhole /\ NotifyUnshared
  BY DEF Init, EntryWhole, NotifyUnshared
<1>2. Shaped /\ TypeOK' /\ [Next]_vars => (EntryWhole /\ NotifyUnshared)'
  BY ShapedStep
<1>3. Spec => []TypeOK
  BY TurnsTypeCorrect
<1>4. QED
  BY <1>1, <1>2, <1>3, PTL DEF Spec, Shaped
=============================================================================
