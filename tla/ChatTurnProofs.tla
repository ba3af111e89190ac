--------------------------- MODULE ChatTurnProofs ---------------------------
(***************************************************************************)
(* Theorems about module ChatTurn, for any number of requests, tool calls, *)
(* iterations and results: the head, the handlers and late requests use    *)
(* the turn's state as module Turns says, so that what TurnsProofs proves  *)
(* of every client of TurnRuntime holds here; a cancelled turn stops       *)
(* calling the model; a result the client was told is delivered is kept.   *)
(***************************************************************************)
EXTENDS ChatTurn, TLAPS

\* The theorems about TurnRuntime, for this turn's one head.
P == INSTANCE TurnsProofs WITH Heads <- {Head0}, MaxNotifies <- MaxBatch * MAX_INNER_LOOPS

-----------------------------------------------------------------------------
(* The steps.                                                              *)

\* The steps a proof about Next has to look at.
LEMMA ChatNextCases ==
  ASSUME [Next]_vars
  PROVE  \/ ChatMessage \/ HeadCheck \/ HeadLlm \/ HeadError \/ HeadCall \/ HeadShow
         \/ HeadAwaiting \/ HeadTake \/ HeadTaken \/ HeadEnd \/ HeadFinish
         \/ Dispatched \/ ChatCancel
         \/ \E s \in Segments : \/ Submit(s) \/ Lookup(s) \/ ToolResultCheck(s)
                                \/ ToolResultDeliver(s) \/ ToolResultAnswer(s)
                                \/ Read(s) \/ Timeout(s) \/ Disconnect(s)
         \/ UNCHANGED vars
<1>1. CASE HeadNext
  BY <1>1 DEF HeadNext
<1>2. ASSUME NEW s \in Segments,
             Submit(s) \/ Serve(s) \/ Read(s) \/ Timeout(s) \/ Disconnect(s)
      PROVE  \/ Submit(s) \/ Lookup(s) \/ ToolResultCheck(s)
             \/ ToolResultDeliver(s) \/ ToolResultAnswer(s)
             \/ Read(s) \/ Timeout(s) \/ Disconnect(s)
  BY <1>2 DEF Serve
<1> QED BY <1>1, <1>2 DEF Next

\* The steps of the requests that leave the turn and the head alone.
RequestStep ==
  \/ Dispatched
  \/ \E s \in Segments : \/ Submit(s) \/ Lookup(s) \/ ToolResultCheck(s)
                         \/ ToolResultAnswer(s)
                         \/ Read(s) \/ Timeout(s) \/ Disconnect(s)

LEMMA RequestsLeaveTheTurn ==
  ASSUME RequestStep
  PROVE  ClientOnly
<1>1. CASE Dispatched
  BY <1>1 DEF Dispatched
<1>2. ASSUME NEW s \in Segments, Submit(s) PROVE ClientOnly
  BY <1>2 DEF Submit
<1>3. ASSUME NEW s \in Segments, Lookup(s) PROVE ClientOnly
  BY <1>3 DEF Lookup
<1>4. ASSUME NEW s \in Segments, ToolResultCheck(s) PROVE ClientOnly
  BY <1>4 DEF ToolResultCheck
<1>5. ASSUME NEW s \in Segments, ToolResultAnswer(s) PROVE ClientOnly
  BY <1>5 DEF ToolResultAnswer
<1>6. ASSUME NEW s \in Segments, Read(s) PROVE ClientOnly
  BY <1>6 DEF Read
<1>7. ASSUME NEW s \in Segments, Timeout(s) PROVE ClientOnly
  BY <1>7 DEF Timeout
<1>8. ASSUME NEW s \in Segments, Disconnect(s) PROVE ClientOnly
  BY <1>8 DEF Disconnect
<1> QED BY <1>1, <1>2, <1>3, <1>4, <1>5, <1>6, <1>7, <1>8 DEF RequestStep

\* The steps of the head that leave the turn alone.
TalkStep ==
  ChatMessage \/ HeadCheck \/ HeadLlm \/ HeadError \/ HeadShow \/ HeadAwaiting \/ HeadEnd

TurnIdle == UNCHANGED <<turnVars, waitVars, delivered>>

LEMMA TalkLeavesTheTurn ==
  ASSUME TalkStep
  PROVE  TurnIdle /\ UNCHANGED <<todo, seg, rpc, accepted>>
<1> USE DEF TurnIdle, clientVars
<1>1. CASE ChatMessage
  BY <1>1 DEF ChatMessage
<1>2. CASE HeadCheck
  BY <1>2 DEF HeadCheck
<1>3. CASE HeadLlm
  BY <1>3 DEF HeadLlm
<1>4. CASE HeadError
  BY <1>4 DEF HeadError, Speak
<1>5. CASE HeadShow
  BY <1>5 DEF HeadShow, Speak
<1>6. CASE HeadAwaiting
  BY <1>6 DEF HeadAwaiting, Speak
<1>7. CASE HeadEnd
  BY <1>7 DEF HeadEnd, Speak
<1> QED BY <1>1, <1>2, <1>3, <1>4, <1>5, <1>6, <1>7 DEF TalkStep

-----------------------------------------------------------------------------
(* What the steps take for granted: the calls of a response and of a       *)
(* request are tool calls, a head that calls, shows or waits has one at    *)
(* hand, and so has a request that submits.                                *)

CallPlaces == {"call", "show", "await_done", "await_close", "take", "taking"}

CallAtHand ==
  /\ calls \in Seq(ToolIds)
  /\ hpc \in CallPlaces => calls # <<>>

ResultAtHand ==
  /\ seg \in [Segments -> Live \cup {"unused", "finished", "dropped"}]
  /\ rpc \in [Segments -> {"idle", "check", "deliver", "ok", "failed"}]
  /\ todo \in [Segments -> Seq(ToolIds)]
  /\ \A s \in Segments : seg[s] = "submit" \/ rpc[s] # "idle" => todo[s] # <<>>

AtHand == CallAtHand /\ ResultAtHand

LEMMA BatchSeq ==
  ASSUME NEW b \in Batches
  PROVE  b \in Seq(ToolIds) /\ b # <<>>
<1>1. PICK n \in 1 .. MaxBatch : b \in [1 .. n -> ToolIds]
  BY DEF Batches
<1>2. n \in Nat /\ n >= 1
  BY ChatTurnAssumption
<1>3. b \in Seq(ToolIds) /\ Len(b) = n
  BY <1>1, <1>2
<1> QED BY <1>2, <1>3

LEMMA TailSeq ==
  ASSUME NEW q \in Seq(ToolIds), q # <<>>
  PROVE  Tail(q) \in Seq(ToolIds) /\ (Tail(q) = <<>> => Len(q) = 1)
<1>1. Len(q) \in Nat /\ Len(q) # 0
  OBVIOUS
<1>2. Tail(q) \in Seq(ToolIds) /\ Len(Tail(q)) = Len(q) - 1
  BY <1>1
<1>3. Len(<<>>) = 0
  OBVIOUS
<1>4. Tail(q) = <<>> => Len(Tail(q)) = 0
  BY <1>3, Zenon
<1> QED BY <1>1, <1>2, <1>4

LEMMA CallAtHandStep ==
  ASSUME CallAtHand, [Next]_vars
  PROVE  CallAtHand'
<1> USE DEF CallAtHand, CallPlaces, HeadGoes
<1>1. CASE ChatMessage
  BY <1>1 DEF ChatMessage
<1>2. CASE HeadCheck
  BY <1>2 DEF HeadCheck
<1>3. CASE HeadLlm
  BY <1>3, BatchSeq DEF HeadLlm
<1>4. CASE HeadError
  BY <1>4 DEF HeadError, Speak
<1>5. CASE HeadCall
  BY <1>5 DEF HeadCall
<1>6. CASE HeadShow
  BY <1>6 DEF HeadShow, Speak
<1>7. CASE HeadAwaiting
  BY <1>7 DEF HeadAwaiting, Speak
<1>8. CASE HeadTake
  BY <1>8 DEF HeadTake
<1>9. CASE HeadTaken
  <2>1. CASE at[Head0] = "cancelled"
    BY <1>9, <2>1 DEF HeadTaken
  <2>2. CASE at[Head0] # "cancelled"
    <3>1. calls # <<>>
      BY <1>9 DEF HeadTaken
    <3>2. Tail(calls) \in Seq(ToolIds)
      BY <3>1
    <3>3. /\ calls' = Tail(calls)
          /\ hpc' = IF Tail(calls) = <<>> THEN "check" ELSE "call"
      BY <1>9, <2>2 DEF HeadTaken
    <3> QED BY <3>2, <3>3
  <2> QED BY <2>1, <2>2
<1>10. CASE HeadEnd
  BY <1>10 DEF HeadEnd, Speak
<1>11. CASE HeadFinish
  BY <1>11 DEF HeadFinish
<1>12. CASE UNCHANGED <<calls, hpc>>
  BY <1>12
<1>13. CASE RequestStep
  BY <1>13, <1>12, RequestsLeaveTheTurn DEF ClientOnly, headVars
<1>14. CASE ChatCancel
  BY <1>14, <1>12 DEF ChatCancel, headVars
<1>15. ASSUME NEW s \in Segments, ToolResultDeliver(s) PROVE CallAtHand'
  BY <1>15, <1>12 DEF ToolResultDeliver, headVars
<1>16. CASE UNCHANGED vars
  BY <1>16, <1>12 DEF vars, headVars
<1> HIDE DEF CallAtHand
<1> QED
  BY <1>1, <1>2, <1>3, <1>4, <1>5, <1>6, <1>7, <1>8, <1>9, <1>10, <1>11, <1>13, <1>14, <1>15,
     <1>16, ChatNextCases DEF RequestStep

LEMMA ResultAtHandStep ==
  ASSUME ResultAtHand, [Next]_vars
  PROVE  ResultAtHand'
<1> USE DEF ResultAtHand, Live
<1>1. CASE UNCHANGED <<seg, rpc, todo>>
  BY <1>1
<1>2. CASE TalkStep
  BY <1>1, <1>2, TalkLeavesTheTurn
<1>3. CASE HeadCall \/ HeadTake \/ HeadTaken \/ HeadFinish \/ ChatCancel \/ UNCHANGED vars
  BY <1>1, <1>3 DEF HeadCall, HeadTake, HeadTaken, HeadFinish, ChatCancel, vars, clientVars
<1>4. CASE Dispatched
  BY <1>4 DEF Dispatched
<1>5. ASSUME NEW s \in Segments, Submit(s) PROVE ResultAtHand'
  <2>1. PICK batch \in Batches : todo' = [todo EXCEPT ![s] = batch]
    BY <1>5 DEF Submit
  <2> QED BY <1>5, <2>1, BatchSeq DEF Submit
<1>6. ASSUME NEW s \in Segments, Lookup(s) PROVE ResultAtHand'
  BY <1>6 DEF Lookup, Drop
<1>7. ASSUME NEW s \in Segments, ToolResultCheck(s) PROVE ResultAtHand'
  BY <1>7 DEF ToolResultCheck
<1>8. ASSUME NEW s \in Segments, ToolResultDeliver(s) PROVE ResultAtHand'
  BY <1>8 DEF ToolResultDeliver
<1>9. ASSUME NEW s \in Segments, ToolResultAnswer(s) PROVE ResultAtHand'
  <2>1. todo[s] \in Seq(ToolIds) /\ todo[s] # <<>>
    BY <1>9 DEF ToolResultAnswer
  <2>2. Tail(todo[s]) \in Seq(ToolIds) /\ (Tail(todo[s]) = <<>> => Len(todo[s]) = 1)
    BY <2>1, TailSeq
  <2>3. CASE rpc[s] = "ok"
    BY <1>9, <2>2, <2>3 DEF ToolResultAnswer
  <2>4. CASE rpc[s] = "failed"
    BY <1>9, <2>4 DEF ToolResultAnswer, Drop
  <2> QED BY <1>9, <2>3, <2>4 DEF ToolResultAnswer
<1>10. ASSUME NEW s \in Segments, Read(s) PROVE ResultAtHand'
  BY <1>10 DEF Read, Finish
<1>11. ASSUME NEW s \in Segments, Timeout(s) PROVE ResultAtHand'
  BY <1>11 DEF Timeout, Finish
<1>12. ASSUME NEW s \in Segments, Disconnect(s) PROVE ResultAtHand'
  BY <1>12 DEF Disconnect, Drop
<1> HIDE DEF ResultAtHand
<1> QED
  BY <1>2, <1>3, <1>4, <1>5, <1>6, <1>7, <1>8, <1>9, <1>10, <1>11, <1>12, ChatNextCases
     DEF TalkStep

LEMMA AtHandInit ==
  ASSUME Init
  PROVE  AtHand
BY DEF Init, AtHand, CallAtHand, ResultAtHand, CallPlaces, Live

\* What every state has at hand.
LEMMA AlwaysAtHand == Spec => []AtHand
<1>1. Init => AtHand
  BY AtHandInit
<1>2. AtHand /\ [Next]_vars => AtHand'
  BY CallAtHandStep, ResultAtHandStep DEF AtHand
<1> QED BY <1>1, <1>2, PTL DEF Spec

-----------------------------------------------------------------------------
(* The refinement.                                                         *)

LEMMA TurnIdleStutters ==
  ASSUME TurnIdle
  PROVE  UNCHANGED T!vars
BY DEF TurnIdle, turnVars, waitVars, T!vars, T!turnVars, T!waitVars

LEMMA TurnStep ==
  ASSUME AtHand, [Next]_vars
  PROVE  [T!Next]_(T!vars)
<1>1. CASE TalkStep
  BY <1>1, TalkLeavesTheTurn, TurnIdleStutters
<1>2. CASE RequestStep
  BY <1>2, RequestsLeaveTheTurn, TurnIdleStutters DEF ClientOnly, TurnIdle
<1>3. CASE HeadCall
  <2>1. Head(calls) \in ToolIds
    BY <1>3 DEF HeadCall, HeadGoes, AtHand, CallAtHand, CallPlaces
  <2>2. T!register_external_tool(Head(calls))
    BY <1>3 DEF HeadCall
  <2> QED BY <2>1, <2>2 DEF T!Next
<1>4. CASE HeadTake
  <2>1. Head(calls) \in ToolIds
    BY <1>4 DEF HeadTake, HeadGoes, AtHand, CallAtHand, CallPlaces
  <2>2. T!TakeBegin(Head0, Head(calls)) \/ T!TakeStep(Head0)
    BY <1>4 DEF HeadTake
  <2> QED BY <2>1, <2>2 DEF T!Next
<1>5. CASE HeadTaken
  BY <1>5 DEF HeadTaken, T!Next
<1>6. CASE HeadFinish
  BY <1>6 DEF HeadFinish, T!Next
<1>7. CASE ChatCancel
  BY <1>7 DEF ChatCancel, T!Next
<1>8. ASSUME NEW s \in Segments, ToolResultDeliver(s) PROVE [T!Next]_(T!vars)
  <2>1. Head(todo[s]) \in ToolIds
    BY <1>8 DEF ToolResultDeliver, AtHand, ResultAtHand
  <2>2. \E r \in Results : T!deliver_external_tool_result(Head(todo[s]), r)
    BY <1>8 DEF ToolResultDeliver
  <2> QED BY <2>1, <2>2 DEF T!Next
<1>9. CASE UNCHANGED vars
  BY <1>9, TurnIdleStutters DEF vars, TurnIdle
<1> QED
  BY <1>1, <1>2, <1>3, <1>4, <1>5, <1>6, <1>7, <1>8, <1>9, ChatNextCases
     DEF TalkStep, RequestStep

\* Whatever the head, the handlers and a request that was dropped do, they do
\* to the turn's state what TurnRuntime lets its callers do: chat:tool
\* registers, chat:tool_result delivers, chat:cancel and chat:done end.
THEOREM ChatUsesTurns == Spec => UsesTurnRuntime
<1>1. Init => T!Init
  BY DEF Init
<1>2. AtHand /\ [Next]_vars => [T!Next]_(T!vars)
  BY TurnStep
<1> QED BY <1>1, <1>2, AlwaysAtHand, PTL DEF Spec, UsesTurnRuntime

-----------------------------------------------------------------------------
(* What TurnsProofs proves of TurnRuntime's clients, of this turn.          *)

LEMMA SameTurns == [T!Next]_(T!vars) => [P!Next]_(P!vars)
<1>1. UNCHANGED T!vars <=> UNCHANGED P!vars
  BY DEF T!vars, P!vars, T!turnVars, P!turnVars, T!waitVars, P!waitVars
<1>2. T!cancel <=> P!cancel
  BY DEF T!cancel, P!cancel, T!Wake, P!Wake
<1>3. T!finish <=> P!finish
  BY DEF T!finish, P!finish, T!waitVars, P!waitVars
<1>4. \A id \in ToolIds : T!register_external_tool(id) <=> P!register_external_tool(id)
  BY DEF T!register_external_tool, P!register_external_tool, T!waitVars, P!waitVars
<1>5. \A id \in ToolIds, r \in Results :
        T!deliver_external_tool_result(id, r) <=> P!deliver_external_tool_result(id, r)
  BY DEF T!deliver_external_tool_result, P!deliver_external_tool_result, T!Wake, P!Wake
<1>6. \A h \in {Head0}, id \in ToolIds : T!TakeBegin(h, id) <=> P!TakeBegin(h, id)
  BY DEF T!TakeBegin, P!TakeBegin, T!turnVars, P!turnVars
<1>7. \A h \in {Head0} : T!TakeStep(h) <=> P!TakeStep(h)
  BY DEF T!TakeStep, P!TakeStep, T!TakeCheck, P!TakeCheck, T!TakeListen, P!TakeListen,
         T!TakeRemove, P!TakeRemove, T!turnVars, P!turnVars
<1>8. \A h \in {Head0} : T!TakeEnd(h) <=> P!TakeEnd(h)
  BY DEF T!TakeEnd, P!TakeEnd, T!turnVars, P!turnVars
<1> QED BY <1>1, <1>2, <1>3, <1>4, <1>5, <1>6, <1>7, <1>8 DEF T!Next, P!Next

TurnSound == T!TypeOK /\ T!CorrectHead /\ T!EntryWhole /\ T!NotifyUnshared

\* The same conjuncts, with what makes them inductive.
TurnInv == P!Correlated /\ P!Shaped

LEMMA TurnInvSound ==
  ASSUME TurnInv
  PROVE  TurnSound
<1>1. P!TypeOK /\ P!CorrectHead /\ P!EntryWhole /\ P!NotifyUnshared
  BY DEF TurnInv, P!Correlated, P!Shaped
<1>2. T!TypeOK <=> P!TypeOK
  BY DEF T!TypeOK, P!TypeOK, T!Places, P!Places
<1>3. T!CorrectHead <=> P!CorrectHead
  BY DEF T!CorrectHead, P!CorrectHead
<1>4. (T!EntryWhole <=> P!EntryWhole) /\ (T!NotifyUnshared <=> P!NotifyUnshared)
  BY DEF T!EntryWhole, P!EntryWhole, T!NotifyUnshared, P!NotifyUnshared
<1> QED BY <1>1, <1>2, <1>3, <1>4 DEF TurnSound

LEMMA TurnInvStep ==
  ASSUME TurnInv, [T!Next]_(T!vars)
  PROVE  TurnInv'
<1>1. [P!Next]_(P!vars)
  BY SameTurns
<1>2. P!TypeOK'
  BY <1>1, P!TurnsTypeStep DEF TurnInv, P!Correlated
<1>3. P!KeptWasDelivered' /\ P!CorrectHead'
  BY <1>1, <1>2, P!CorrelatedStep DEF TurnInv
<1>4. P!EntryWhole' /\ P!NotifyUnshared'
  BY <1>1, <1>2, P!ShapedStep DEF TurnInv
<1> QED BY <1>2, <1>3, <1>4 DEF TurnInv, P!Correlated, P!Shaped

LEMMA TurnInvInit ==
  ASSUME T!Init
  PROVE  TurnInv
<1>1. P!TypeOK
  <2>1. present \in BOOLEAN /\ cancelled \in BOOLEAN /\ pending \in SUBSET ToolIds
    BY DEF T!Init
  <2>2. result \in [ToolIds -> Results \cup {NoResult}] /\ notify \in [ToolIds -> Nat]
        /\ notifies \in Nat /\ delivered \in [ToolIds -> SUBSET Results]
    BY DEF T!Init
  <2>3. at \in [{Head0} -> P!Places] /\ tool \in [{Head0} -> ToolIds] /\ on \in [{Head0} -> Nat]
        /\ got \in [{Head0} -> Results \cup {NoResult}]
    BY DEF T!Init, P!Places
  <2> QED BY <2>1, <2>2, <2>3 DEF P!TypeOK
<1>2. P!KeptWasDelivered /\ P!CorrectHead
  BY DEF T!Init, P!KeptWasDelivered, P!CorrectHead
<1>3. P!EntryWhole /\ P!NotifyUnshared
  BY DEF T!Init, P!EntryWhole, P!NotifyUnshared
<1> QED BY <1>1, <1>2, <1>3 DEF TurnInv, P!Correlated, P!Shaped

\* In a turn as it is really served, results sent twice, late and after a
\* disconnect included, a head takes only what was delivered for its call, the
\* turn's entry is whole, and no two calls share a Notify.
THEOREM ChatTurnSound == Spec => []TurnSound
<1>1. Init => TurnInv
  BY TurnInvInit DEF Init
<1>2. TurnInv /\ AtHand /\ [Next]_vars => TurnInv'
  BY TurnStep, TurnInvStep
<1>3. TurnInv => TurnSound
  BY TurnInvSound
<1> QED BY <1>1, <1>2, <1>3, AlwaysAtHand, PTL DEF Spec

-----------------------------------------------------------------------------
(* Cancel.  One late answer is possible: the call that was under way.  The  *)
(* next would need a head that calls the model again, which it does only    *)
(* after it read the turn as not cancelled; and nothing makes a cancelled   *)
(* turn anything else but the end of it.                                    *)

LateOnce ==
  /\ llmLate \in {0, 1}
  /\ llmLate = 1 => \/ cancelled /\ hpc # "llm"
                    \/ hpc = "ended"

LEMMA LateOnceStep ==
  ASSUME LateOnce, [Next]_vars
  PROVE  LateOnce'
<1> USE DEF LateOnce, HeadGoes
<1>1. CASE UNCHANGED <<cancelled, hpc, llmLate>>
  BY <1>1
<1>2. CASE UNCHANGED <<cancelled, llmLate>> /\ hpc # "ended" /\ hpc' # "llm"
  BY <1>2
<1>3. CASE TalkStep
  <2> USE DEF TurnIdle, turnVars
  <2>1. UNCHANGED cancelled
    BY <1>3, TalkLeavesTheTurn
  <2>2. CASE HeadCheck
    BY <2>1, <2>2 DEF HeadCheck
  <2>3. CASE HeadLlm
    BY <2>1, <2>3 DEF HeadLlm
  <2>4. CASE ChatMessage
    BY <2>1, <2>4, <1>2 DEF ChatMessage
  <2>5. CASE HeadError \/ HeadShow \/ HeadAwaiting \/ HeadEnd
    BY <2>1, <2>5, <1>2 DEF HeadError, HeadShow, HeadAwaiting, HeadEnd, Speak
  <2> QED BY <1>3, <2>2, <2>3, <2>4, <2>5 DEF TalkStep
<1>4. CASE HeadCall
  BY <1>4, <1>2 DEF HeadCall, T!register_external_tool
<1>5. CASE HeadTake
  BY <1>5, <1>2 DEF HeadTake, T!TakeBegin, T!TakeStep, T!TakeCheck, T!TakeListen, T!TakeRemove,
     T!turnVars
<1>6. CASE HeadTaken
  BY <1>6, <1>2 DEF HeadTaken, T!TakeEnd, T!turnVars
<1>7. CASE HeadFinish
  BY <1>7 DEF HeadFinish
<1>8. CASE RequestStep
  BY <1>8, <1>1, RequestsLeaveTheTurn DEF ClientOnly, turnVars, headVars
<1>9. CASE ChatCancel
  BY <1>9 DEF ChatCancel, T!cancel, headVars
<1>10. ASSUME NEW s \in Segments, ToolResultDeliver(s) PROVE LateOnce'
  BY <1>10, <1>1 DEF ToolResultDeliver, T!deliver_external_tool_result, headVars
<1>11. CASE UNCHANGED vars
  BY <1>11, <1>1 DEF vars, turnVars, headVars
<1> HIDE DEF LateOnce
<1> QED
  BY <1>3, <1>4, <1>5, <1>6, <1>7, <1>8, <1>9, <1>10, <1>11, ChatNextCases
     DEF TalkStep, RequestStep

\* However many requests are dropped and cancels sent, a cancelled turn costs
\* at most the answer of the model that was under way (runner.rs checks the
\* turn before every call).
THEOREM ChatCancelStopsLlm == Spec => []CancelStopsLlm
<1>1. Init => LateOnce
  BY DEF Init, LateOnce
<1>2. LateOnce /\ [Next]_vars => LateOnce'
  BY LateOnceStep
<1>3. LateOnce => CancelStopsLlm
  BY DEF LateOnce, CancelStopsLlm
<1> QED BY <1>1, <1>2, <1>3, PTL DEF Spec

-----------------------------------------------------------------------------
(* Results that were acknowledged.                                         *)

\* A turn that is over stays over: only its last act clears the mark.
LEMMA OverStays ==
  ASSUME [Next]_vars, TurnOver
  PROVE  TurnOver'
<1> USE DEF TurnOver, HeadGoes
<1>1. CASE UNCHANGED <<cancelled, hpc>>
  BY <1>1
<1>2. CASE UNCHANGED cancelled /\ hpc # "ended"
  BY <1>2
<1>3. CASE TalkStep
  <2>1. UNCHANGED cancelled
    BY <1>3, TalkLeavesTheTurn DEF TurnIdle, turnVars
  <2>2. hpc # "ended"
    BY <1>3 DEF TalkStep, ChatMessage, HeadCheck, HeadLlm, HeadError, HeadShow, HeadAwaiting,
       HeadEnd, Speak
  <2> QED BY <2>1, <2>2, <1>2
<1>4. CASE HeadCall
  BY <1>4, <1>2 DEF HeadCall, T!register_external_tool
<1>5. CASE HeadTake
  BY <1>5, <1>2 DEF HeadTake, T!TakeBegin, T!TakeStep, T!TakeCheck, T!TakeListen, T!TakeRemove,
     T!turnVars
<1>6. CASE HeadTaken
  BY <1>6, <1>2 DEF HeadTaken, T!TakeEnd, T!turnVars
<1>7. CASE HeadFinish
  BY <1>7 DEF HeadFinish
<1>8. CASE RequestStep
  BY <1>8, <1>1, RequestsLeaveTheTurn DEF ClientOnly, turnVars, headVars
<1>9. CASE ChatCancel
  BY <1>9 DEF ChatCancel, T!cancel, headVars
<1>10. ASSUME NEW s \in Segments, ToolResultDeliver(s) PROVE TurnOver'
  BY <1>10, <1>1 DEF ToolResultDeliver, T!deliver_external_tool_result, headVars
<1>11. CASE UNCHANGED vars
  BY <1>11, <1>1 DEF vars, turnVars, headVars
<1> HIDE DEF TurnOver
<1> QED
  BY <1>3, <1>4, <1>5, <1>6, <1>7, <1>8, <1>9, <1>10, <1>11, ChatNextCases
     DEF TalkStep, RequestStep

\* What AcceptedResultKept says of one result.
Kept(n) ==
  \/ n \in taken
  \/ \E id \in ToolIds : Pending(id, n) /\ result[id] # NoResult
  \/ TurnOver

\* The parts of a state Kept reads, with their types.
ResultsTyped ==
  /\ pending \in SUBSET ToolIds
  /\ result \in [ToolIds -> Results \cup {NoResult}]
  /\ notify \in [ToolIds -> Nat]
  /\ tool \in [{Head0} -> ToolIds]

LEMMA KeptStep ==
  ASSUME ResultsTyped, AtHand, AcceptedResultKept, [Next]_vars
  PROVE  AcceptedResultKept'
<1>0. \A n \in accepted : Kept(n)
  BY DEF AcceptedResultKept, Kept
<1>1. ASSUME UNCHANGED <<pending, result, notify>>, taken \subseteq taken',
             accepted' = accepted
      PROVE  AcceptedResultKept'
  BY <1>0, <1>1, OverStays DEF AcceptedResultKept, Kept, Pending
<1>2. CASE TalkStep
  <2>1. UNCHANGED <<pending, result, notify, accepted>>
    BY <1>2, TalkLeavesTheTurn DEF TurnIdle, turnVars
  <2>2. UNCHANGED taken
    BY <1>2 DEF TalkStep, ChatMessage, HeadCheck, HeadLlm, HeadError, HeadShow, HeadAwaiting,
       HeadEnd, Speak
  <2> QED BY <2>1, <2>2, <1>1
<1>3. CASE HeadCall
  <2> DEFINE c == Head(calls)
  <2>1. c \in ToolIds
    BY <1>3 DEF HeadCall, HeadGoes, AtHand, CallAtHand, CallPlaces
  <2>2. UNCHANGED <<taken, accepted>> /\ T!register_external_tool(c)
    BY <1>3 DEF HeadCall, clientVars
  <2>3. CASE c \in pending
    BY <2>2, <2>3, <1>1 DEF T!register_external_tool
  <2>4. CASE c \notin pending
    <3>1. \A id \in pending : /\ id \in pending'
                              /\ notify'[id] = notify[id] /\ result'[id] = result[id]
      BY <2>1, <2>2, <2>4 DEF T!register_external_tool, ResultsTyped
    <3>2. ASSUME NEW n \in accepted PROVE Kept(n)'
      BY <3>1, <2>2, <1>0, OverStays DEF Kept, Pending
    <3> QED BY <3>2, <2>2 DEF AcceptedResultKept, Kept
  <2> QED BY <2>3, <2>4
<1>4. CASE HeadTake
  <2>1. UNCHANGED accepted
    BY <1>4 DEF HeadTake, clientVars
  <2>2. taken' = IF at[Head0] = "removing" THEN taken \cup {notify[tool[Head0]]} ELSE taken
    BY <1>4 DEF HeadTake
  <2>3. CASE UNCHANGED T!turnVars
    BY <2>1, <2>2, <2>3, <1>1 DEF T!turnVars
  <2>4. CASE T!TakeRemove(Head0)
    <3>1. /\ at[Head0] = "removing" /\ notify' = notify
          /\ pending' = pending \ {tool[Head0]}
          /\ result' = [result EXCEPT ![tool[Head0]] = NoResult]
      BY <2>4 DEF T!TakeRemove
    <3>2. \A id \in pending : /\ notify'[id] = notify[id]
                              /\ \/ id = tool[Head0]
                                 \/ id \in pending' /\ result'[id] = result[id]
      BY <3>1 DEF ResultsTyped
    <3>3. ASSUME NEW n \in accepted PROVE Kept(n)'
      BY <3>1, <3>2, <2>2, <1>0, OverStays DEF Kept, Pending
    <3> QED BY <3>3, <2>1 DEF AcceptedResultKept, Kept
  <2> QED
    BY <1>4, <2>3, <2>4 DEF HeadTake, T!TakeBegin, T!TakeStep, T!TakeCheck, T!TakeListen
<1>5. CASE HeadTaken
  BY <1>5, <1>1 DEF HeadTaken, T!TakeEnd, T!turnVars, clientVars
<1>6. CASE HeadFinish
  <2>1. TurnOver'
    BY <1>6 DEF HeadFinish, HeadGoes, TurnOver
  <2> QED BY <2>1 DEF AcceptedResultKept
<1>7. CASE RequestStep
  <2>1. UNCHANGED <<pending, result, notify, taken>>
    BY <1>7, RequestsLeaveTheTurn DEF ClientOnly, turnVars, headVars
  <2>2. UNCHANGED accepted
    BY <1>7 DEF RequestStep, Dispatched, Submit, Lookup, ToolResultCheck, ToolResultAnswer,
       Read, Timeout, Disconnect
  <2> QED BY <2>1, <2>2, <1>1
<1>8. CASE ChatCancel
  BY <1>8, <1>1 DEF ChatCancel, T!cancel, headVars
<1>9. ASSUME NEW s \in Segments, ToolResultDeliver(s) PROVE AcceptedResultKept'
  <2> DEFINE c == Head(todo[s])
  <2>1. c \in ToolIds
    BY <1>9 DEF ToolResultDeliver, AtHand, ResultAtHand
  <2>2. UNCHANGED taken
    BY <1>9 DEF ToolResultDeliver, headVars
  <2>3. accepted' = IF c \in pending /\ ~sawCancel[s]
                    THEN accepted \cup {notify[c]} ELSE accepted
    BY <1>9 DEF ToolResultDeliver
  <2>4. PICK r \in Results : T!deliver_external_tool_result(c, r)
    BY <1>9 DEF ToolResultDeliver
  <2>5. r # NoResult
    BY ChatTurnAssumption
  <2>6. CASE c \in pending
    <3>1. /\ UNCHANGED <<pending, notify>>
          /\ result' = [result EXCEPT ![c] = r]
      BY <2>4, <2>6 DEF T!deliver_external_tool_result
    <3>2. result'[c] # NoResult /\ \A id \in ToolIds : id # c => result'[id] = result[id]
      BY <3>1, <2>1, <2>5 DEF ResultsTyped
    <3>3. ASSUME NEW n, n = notify[c] PROVE Kept(n)'
      <4>1. c \in pending' /\ notify'[c] = n
        BY <3>1, <3>3, <2>6
      <4> QED BY <4>1, <3>2, <2>1 DEF Kept, Pending
    <3>4. ASSUME NEW n \in accepted PROVE Kept(n)'
      BY <3>1, <3>2, <2>2, <1>0, OverStays DEF Kept, Pending
    <3> QED BY <3>3, <3>4, <2>3 DEF AcceptedResultKept, Kept
  <2>7. CASE c \notin pending
    <3>1. UNCHANGED <<pending, notify, result>>
      BY <2>4, <2>7 DEF T!deliver_external_tool_result
    <3> QED BY <3>1, <2>2, <2>3, <2>7, <1>1
  <2> QED BY <2>6, <2>7
<1>10. CASE UNCHANGED vars
  BY <1>10, <1>1 DEF vars, turnVars, headVars, clientVars
<1> QED
  BY <1>2, <1>3, <1>4, <1>5, <1>6, <1>7, <1>8, <1>9, <1>10, ChatNextCases
     DEF TalkStep, RequestStep

\* A client that was told "delivered" may forget the result: sent twice, sent
\* by a request that was dropped since, or crossed by a cancel, it waits for
\* the head, or the head took it, or the turn is over.
THEOREM ChatKeepsAccepted == Spec => []AcceptedResultKept
<1>1. Init => AcceptedResultKept
  BY DEF Init, AcceptedResultKept
<1>2. TurnSound => ResultsTyped
  BY DEF TurnSound, T!TypeOK, ResultsTyped
<1>3. TurnSound /\ AtHand /\ AcceptedResultKept /\ [Next]_vars => AcceptedResultKept'
  BY <1>2, KeptStep
<1> QED BY <1>1, <1>3, AlwaysAtHand, ChatTurnSound, PTL DEF Spec

=============================================================================
