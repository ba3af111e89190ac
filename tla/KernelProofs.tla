---------------------------- MODULE KernelProofs ----------------------------
(***************************************************************************)
(* Proofs about the kernel, for every size: the channels, watermarks and   *)
(* frames of a call of the dispatcher; the emitters, observers, failures,  *)
(* restarts, channels and pages of the frame log (both of MCKernel); and   *)
(* the lanes, for any number of calls, nested to any depth, cancelled and  *)
(* timed out at any moment.                                                *)
(***************************************************************************)
EXTENDS MCKernel, Lanes, TLAPS

-----------------------------------------------------------------------------
(* The dispatcher.                                                         *)

\* Every action of Next, one step of a case split each.
LEMMA NextCases ==
  ASSUME Next, NEW P,
         AuditRequest => P, HandlerEmit => P, HandlerOk => P, HandlerErr => P,
         CancelObserved => P, EmitError => P, PumpCheck => P, PumpPaused => P,
         PumpPinged => P, PumpAbandon => P, PumpStall => P, PumpRecv => P,
         PumpDrained => P, PumpSend => P, PumpCount => P, CallerRecv => P,
         CallerAck => P, CallerEnd => P, CallerDrop => P, CallerCancel => P,
         Terminated => P
  PROVE  P
BY DEF Next, Exec, Pump, Caller

-----------------------------------------------------------------------------
(* Type correctness.                                                       *)

\* What a send on the inner channel leaves well typed.
LEMMA SendInnerType ==
  ASSUME emitted \in Nat, inner \in Seq(Nat), SendInner
  PROVE  emitted' \in Nat /\ inner' \in Seq(Nat)
<1>1. emitted' = emitted + 1 /\ emitted + 1 \in Nat
  BY DEF SendInner
<1>2. CASE inner' = inner
  BY <1>1, <1>2
<1>3. CASE inner' = Append(inner, emitted + 1)
  BY <1>1, <1>3
<1> QED BY <1>1, <1>2, <1>3 DEF SendInner

\* Every reachable state is well typed: in particular the counter `queued`,
\* a usize that ack decrements and the pump increments, never goes below 0.
THEOREM DispatcherTypeCorrect == Spec => []TypeOK
<1>1. Init => TypeOK
  <2> SUFFICES ASSUME Init PROVE TypeOK
    OBVIOUS
  <2>1. outer \in Seq(Nat)
    <3>1. CASE outer = <<>>  BY <3>1
    <3>2. CASE outer = <<1>>  BY <3>2
    <3> QED BY <3>1, <3>2 DEF Init, Accepted, Rejected
  <2>2. exec \in {"audit", "done"} /\ pump \in {"check", "drained"}
        /\ emitted \in Nat /\ queued \in Nat
    BY DEF Init, Accepted, Rejected
  <2>3. inner \in Seq(Nat) /\ received \in Seq(Nat) /\ audited \in Seq(Nat)
    BY DEF Init
  <2>4. ping \in BOOLEAN /\ cancelled \in BOOLEAN
    BY DEF Init
  <2> QED
    BY <2>1, <2>2, <2>3, <2>4 DEF Init, TypeOK, Exits
<1>2. TypeOK /\ [Next]_vars => TypeOK'
  <2> SUFFICES ASSUME TypeOK, [Next]_vars PROVE TypeOK'
    OBVIOUS
  <2> USE DEF TypeOK, Exits
  <2>1. CASE Next
    <3>1. AuditRequest => TypeOK'     BY DEF AuditRequest, REQ
    <3>2. HandlerEmit => TypeOK'
      BY SendInnerType DEF HandlerEmit, SendInner
    <3>3. HandlerOk => TypeOK'        BY DEF HandlerOk, EndRun
    <3>4. HandlerErr => TypeOK'       BY DEF HandlerErr, EndRun
    <3>5. CancelObserved => TypeOK'   BY DEF CancelObserved, EndRun
    <3>6. EmitError => TypeOK'
      <4> SUFFICES ASSUME EmitError PROVE TypeOK'
        OBVIOUS
      <4>1. emitted' \in Nat /\ inner' \in Seq(Nat)
        BY SendInnerType DEF EmitError
      <4> QED
        BY <4>1 DEF EmitError, SendInner
    <3>7. PumpCheck => TypeOK'        BY DEF PumpCheck
    <3>8. PumpPaused => TypeOK'       BY DEF PumpPaused
    <3>9. PumpPinged => TypeOK'       BY DEF PumpPinged
    <3>10. PumpAbandon => TypeOK'     BY DEF PumpAbandon
    <3>11. PumpStall => TypeOK'       BY DEF PumpStall
    <3>12. PumpRecv => TypeOK'        BY DEF PumpRecv
    <3>13. PumpDrained => TypeOK'     BY DEF PumpDrained
    <3>14. PumpSend => TypeOK'
      <4> SUFFICES ASSUME PumpSend PROVE TypeOK'
        OBVIOUS
      <4>1. inner' \in Seq(Nat) /\ outer' \in Seq(Nat)
        <5>1. CASE inner' = <<>> /\ outer' = outer  BY <5>1
        <5>2. CASE inner' = inner /\ outer' = Append(outer, held)  BY <5>2
        <5> QED BY <5>1, <5>2 DEF PumpSend
      <4>2. held' \in Nat /\ pump' \in {"abandoned", "count"}
        BY DEF PumpSend
      <4> QED
        BY <4>1, <4>2 DEF PumpSend
    <3>15. PumpCount => TypeOK'       BY DEF PumpCount
    <3>16. CallerRecv => TypeOK'      BY DEF CallerRecv
    <3>17. CallerAck => TypeOK'
      <4> SUFFICES ASSUME CallerAck PROVE TypeOK'
        OBVIOUS
      <4>1. queued' \in Nat
        BY DEF CallerAck
      <4>2. ping' \in BOOLEAN
        <5>1. CASE queued = 0 BY <5>1 DEF CallerAck
        <5>2. CASE queued > 0 BY <5>2 DEF CallerAck
        <5> QED BY <5>1, <5>2
      <4> QED
        BY <4>1, <4>2 DEF CallerAck
    <3>18. CallerEnd => TypeOK'       BY DEF CallerEnd
    <3>19. CallerDrop => TypeOK'      BY DEF CallerDrop
    <3>20. CallerCancel => TypeOK'    BY DEF CallerCancel
    <3>21. Terminated => TypeOK'      BY DEF Terminated, vars
    <3> QED
      BY <2>1, <3>1, <3>2, <3>3, <3>4, <3>5, <3>6, <3>7, <3>8, <3>9, <3>10,
         <3>11, <3>12, <3>13, <3>14, <3>15, <3>16, <3>17, <3>18, <3>19, <3>20,
         <3>21, NextCases
  <2>2. CASE UNCHANGED vars
    BY <2>2 DEF vars
  <2> QED BY <2>1, <2>2
<1> QED BY <1>1, <1>2, PTL DEF Spec

-----------------------------------------------------------------------------
(* Backpressure.                                                           *)

\* The strengthening: what the pump knows of `queued` at each point of its
\* loop.  Between its check and its send the counter can only fall; while it
\* waits without a ping the counter is above the low watermark.
BackpressureInv ==
  /\ QueuedTracksOutstanding
  /\ CallerGone => outer = <<>>
  /\ Len(outer) <= High
  /\ pump \in {"recv", "send"} => queued < High
  /\ pump = "waiting" /\ ~ping => queued > Low

LEMMA BackpressureStep ==
  ASSUME TypeOK, BackpressureInv, [Next]_vars
  PROVE  BackpressureInv'
<1> USE WatermarkAssumption
    DEF TypeOK, BackpressureInv, QueuedTracksOutstanding, Outstanding,
        Uncounted, CallerGone, Exits
<1>1. CASE Next
  <2>1. AuditRequest => BackpressureInv'    BY DEF AuditRequest
  <2>2. HandlerEmit => BackpressureInv'     BY DEF HandlerEmit, SendInner
  <2>3. HandlerOk => BackpressureInv'       BY DEF HandlerOk, EndRun
  <2>4. HandlerErr => BackpressureInv'      BY DEF HandlerErr, EndRun
  <2>5. CancelObserved => BackpressureInv'  BY DEF CancelObserved, EndRun
  <2>6. EmitError => BackpressureInv'       BY DEF EmitError, SendInner
  <2>7. PumpCheck => BackpressureInv'       BY DEF PumpCheck
  <2>8. PumpPaused => BackpressureInv'      BY DEF PumpPaused
  <2>9. PumpPinged => BackpressureInv'      BY DEF PumpPinged
  <2>10. PumpAbandon => BackpressureInv'    BY DEF PumpAbandon
  <2>11. PumpStall => BackpressureInv'      BY DEF PumpStall
  <2>12. PumpRecv => BackpressureInv'       BY DEF PumpRecv
  <2>13. PumpDrained => BackpressureInv'    BY DEF PumpDrained
  <2>14. PumpSend => BackpressureInv'
    <3> SUFFICES ASSUME PumpSend PROVE BackpressureInv'
      OBVIOUS
    <3>1. pump = "send" /\ UNCHANGED <<queued, ping, receiver>>
      BY DEF PumpSend
    <3>2. CASE CallerGone /\ pump' = "abandoned" /\ outer' = outer
      BY <3>1, <3>2
    <3>3. CASE ~CallerGone /\ outer' = Append(outer, held) /\ pump' = "count"
      <4>1. Len(outer') = Len(outer) + 1 /\ Len(outer) \in Nat
        BY <3>3
      <4>2. Outstanding <= queued /\ queued <= Outstanding + 1 /\ queued < High
        BY <3>1, <3>3
      <4> QED BY <3>1, <3>3, <4>1, <4>2
    <3> QED BY <3>2, <3>3 DEF PumpSend
  <2>15. PumpCount => BackpressureInv'      BY DEF PumpCount
  <2>16. CallerRecv => BackpressureInv'     BY DEF CallerRecv
  <2>17. CallerAck => BackpressureInv'
    <3> SUFFICES ASSUME CallerAck PROVE BackpressureInv'
      OBVIOUS
    <3>1. /\ receiver = "acking" /\ receiver' = "idle"
          /\ pump' = pump /\ outer' = outer
      BY DEF CallerAck
    <3>2. CASE queued = 0 /\ UNCHANGED <<queued, ping>>
      BY <3>1, <3>2
    <3>3. CASE /\ queued > 0
               /\ queued' = queued - 1
               /\ \/ queued - 1 <= Low /\ ping' = TRUE
                  \/ queued - 1 > Low /\ UNCHANGED ping
      BY <3>1, <3>3
    <3> QED
      BY <3>2, <3>3 DEF CallerAck
  <2>18. CallerEnd => BackpressureInv'      BY DEF CallerEnd
  <2>19. CallerDrop => BackpressureInv'     BY DEF CallerDrop
  <2>20. CallerCancel => BackpressureInv'   BY DEF CallerCancel
  <2>21. Terminated => BackpressureInv'     BY DEF Terminated, vars
  <2> QED
    BY <1>1, <2>1, <2>2, <2>3, <2>4, <2>5, <2>6, <2>7, <2>8, <2>9, <2>10,
       <2>11, <2>12, <2>13, <2>14, <2>15, <2>16, <2>17, <2>18, <2>19, <2>20,
       <2>21, NextCases
<1>2. CASE UNCHANGED vars
  BY <1>2 DEF vars
<1> QED BY <1>1, <1>2

LEMMA BackpressureInvariant == Spec => []BackpressureInv
<1>1. Init => BackpressureInv
  <2> SUFFICES ASSUME Init PROVE BackpressureInv
    OBVIOUS
  <2>1. /\ receiver = "idle"
        /\ \/ pump = "check" /\ outer = <<>> /\ queued = 0
           \/ pump = "drained" /\ outer = <<1>> /\ queued = 1
    BY DEF Init, Accepted, Rejected
  <2> QED
    BY <2>1, Len(<<>>) = 0, Len(<<1>>) = 1, WatermarkAssumption
       DEF BackpressureInv, QueuedTracksOutstanding, Outstanding, Uncounted,
           CallerGone
<1> QED
  BY <1>1, BackpressureStep, DispatcherTypeCorrect, PTL DEF Spec

\* The counter is exact up to one frame, however the pump's send and count
\* interleave with the caller's take and ack.
THEOREM CounterAccuracy == Spec => []QueuedTracksOutstanding
<1>1. BackpressureInv => QueuedTracksOutstanding
  BY DEF BackpressureInv
<1> QED BY <1>1, BackpressureInvariant, PTL

\* The pump never waits for a slot in the caller's channel, so no wait of the
\* pump escapes the stall timeout.
THEOREM PumpNeverBlocksOnSend == Spec => []OuterNeverFull
<1>1. TypeOK /\ BackpressureInv => OuterNeverFull
  BY WatermarkAssumption
     DEF TypeOK, BackpressureInv, QueuedTracksOutstanding, Outstanding,
         Uncounted, CallerGone, OuterNeverFull
<1> QED BY <1>1, BackpressureInvariant, DispatcherTypeCorrect, PTL

\* With a low watermark of at least 1 (the code's default is 8), the stall
\* timeout cancels only calls whose caller is behind.
THEOREM StallOnlyWhenBehind ==
  ASSUME Low >= 1
  PROVE  Spec => StallMeansBehind
<1>1. TypeOK /\ BackpressureInv /\ [Next]_vars =>
        [pump' = "stalled" /\ pump # "stalled" => Outstanding > 0]_vars
  <2> SUFFICES ASSUME TypeOK, BackpressureInv, Next,
                      pump' = "stalled", pump # "stalled"
               PROVE  Outstanding > 0
    OBVIOUS
  <2>1. PumpStall
    BY DEF Next, Exec, Pump, Caller, AuditRequest, HandlerEmit, SendInner,
           HandlerOk, HandlerErr, CancelObserved, EndRun, EmitError,
           PumpCheck, PumpPaused, PumpPinged, PumpAbandon, PumpRecv,
           PumpDrained, PumpSend, PumpCount, CallerRecv, CallerAck, CallerEnd,
           CallerDrop, CallerCancel, Terminated, vars
  <2> QED
    BY <2>1, WatermarkAssumption
       DEF PumpStall, TypeOK, BackpressureInv, QueuedTracksOutstanding,
           Outstanding, Uncounted, CallerGone
<1> QED
  BY <1>1, BackpressureInvariant, DispatcherTypeCorrect, PTL
     DEF Spec, StallMeansBehind

-----------------------------------------------------------------------------
(* Order and loss.                                                         *)

\* Frames the pump has taken from the inner channel for a caller that is
\* still there.
Relayed == Len(received) + Len(outer) + (IF pump = "send" THEN 1 ELSE 0)

\* The strengthening: the caller's frames, the caller's channel, the frame in
\* the pump's hands and the inner channel are consecutive, and end with the
\* last frame emitted as long as the pump has not given up.
OrderInv ==
  /\ \A i \in 1 .. Len(received) : received[i] = i
  /\ \A i \in 1 .. Len(outer) : outer[i] = Len(received) + i
  /\ Len(received) + Len(outer) <= emitted
  /\ CallerGone => outer = <<>>
  /\ ~CallerGone =>
       /\ pump = "send" => held = Relayed
       /\ \A i \in 1 .. Len(inner) : inner[i] = Relayed + i
       /\ ~PumpExited => Relayed + Len(inner) = emitted
       /\ pump = "drained" => Relayed = emitted
  /\ pump = "drained" => exec = "done"
  /\ receiver = "ended" => PumpExited /\ outer = <<>>

\* A send on the inner channel appends the next frame or, once the pump has
\* gone, loses it.
LEMMA SendInnerOrder ==
  ASSUME TypeOK, OrderInv, SendInner, exec # "done"
  PROVE  OrderInv'
<1> USE DEF TypeOK, OrderInv, Relayed, CallerGone, PumpExited, Exits
<1>1. /\ UNCHANGED <<pump, held, outer, receiver, received>>
      /\ emitted' = emitted + 1
      /\ pump # "drained"
  BY DEF SendInner
<1>2. CASE PumpExited /\ inner' = inner
  BY <1>1, <1>2
<1>3. CASE ~PumpExited /\ inner' = Append(inner, emitted + 1)
  <2>1. /\ Len(inner') = Len(inner) + 1
        /\ inner'[Len(inner) + 1] = emitted + 1
        /\ \A i \in 1 .. Len(inner) : inner'[i] = inner[i]
    BY <1>3
  <2>2. ~CallerGone => \A i \in 1 .. Len(inner') : inner'[i] = Relayed + i
    <3> SUFFICES ASSUME ~CallerGone, NEW i \in 1 .. Len(inner')
                 PROVE  inner'[i] = Relayed + i
      OBVIOUS
    <3>1. CASE i = Len(inner) + 1
      <4>1. Relayed + Len(inner) = emitted /\ Relayed \in Nat
        BY <1>3
      <4>2. inner'[i] = emitted + 1
        BY <2>1, <3>1
      <4>3. Relayed + (Len(inner) + 1) = emitted + 1
        <5>1. Len(inner) \in Nat
          OBVIOUS
        <5> HIDE DEF TypeOK, OrderInv, Relayed
        <5> QED BY <4>1, <5>1
      <4> QED BY <3>1, <4>2, <4>3
    <3>2. CASE i \in 1 .. Len(inner)
      BY <2>1, <3>2
    <3> QED BY <2>1, <3>1, <3>2
  <2>3. Relayed' = Relayed /\ Relayed \in Nat
    BY <1>1
  <2>4. ~CallerGone => Relayed + Len(inner') = emitted'
    <3>1. Len(inner) \in Nat
      OBVIOUS
    <3>2. ~CallerGone => Relayed + Len(inner) = emitted
      BY <1>3
    <3>3. emitted' = emitted + 1 /\ UNCHANGED receiver
      BY <1>1
    <3> HIDE DEF TypeOK, OrderInv, Relayed
    <3> QED BY <2>1, <2>3, <3>1, <3>2, <3>3
  <2>5. Len(received) + Len(outer) <= emitted'
    <3>1. Len(received) + Len(outer) <= emitted /\ emitted \in Nat
      OBVIOUS
    <3>2. Len(received) + Len(outer) \in Nat
      OBVIOUS
    <3> HIDE DEF TypeOK, OrderInv
    <3> QED BY <1>1, <3>1, <3>2
  <2> QED BY <1>1, <1>3, <2>2, <2>3, <2>4, <2>5
<1> QED BY <1>2, <1>3 DEF SendInner

LEMMA OrderStep ==
  ASSUME TypeOK, OrderInv, [Next]_vars
  PROVE  OrderInv'
<1> USE DEF TypeOK, OrderInv, Relayed, CallerGone, PumpExited, Exits
<1>1. CASE Next
  <2>1. AuditRequest => OrderInv'
    BY DEF AuditRequest
  <2>2. HandlerEmit => OrderInv'
    BY SendInnerOrder DEF HandlerEmit
  <2>3. HandlerOk => OrderInv'
    BY DEF HandlerOk, EndRun
  <2>4. HandlerErr => OrderInv'
    BY DEF HandlerErr, EndRun
  <2>5. CancelObserved => OrderInv'
    BY DEF CancelObserved, EndRun
  <2>6. EmitError => OrderInv'
    BY SendInnerOrder DEF EmitError
  <2>7. PumpCheck => OrderInv'
    BY DEF PumpCheck
  <2>8. PumpPaused => OrderInv'
    BY DEF PumpPaused
  <2>9. PumpPinged => OrderInv'
    BY DEF PumpPinged
  <2>10. PumpAbandon => OrderInv'
    BY DEF PumpAbandon
  <2>11. PumpStall => OrderInv'
    BY DEF PumpStall
  <2>12. PumpRecv => OrderInv'
    <3> SUFFICES ASSUME PumpRecv PROVE OrderInv'
      OBVIOUS
    <3>1. /\ UNCHANGED <<exec, emitted, outer, receiver, received>>
          /\ pump = "recv" /\ pump' = "send"
          /\ inner # <<>> /\ inner' = Tail(inner) /\ held' = inner[1]
      BY DEF PumpRecv
    <3>2. /\ Len(inner) \in Nat \ {0}
          /\ Len(inner') = Len(inner) - 1
          /\ \A i \in 1 .. Len(inner') : inner'[i] = inner[i + 1]
      BY <3>1
    <3>3. ~CallerGone => held' = Relayed'
      BY <3>1, <3>2
    <3>4. ~CallerGone => \A i \in 1 .. Len(inner') : inner'[i] = Relayed' + i
      BY <3>1, <3>2
    <3>5. ~CallerGone => Relayed' + Len(inner') = emitted'
      <4>1. Relayed' = Relayed + 1 /\ Relayed \in Nat
        BY <3>1
      <4>2. ~CallerGone => Relayed + Len(inner) = emitted
        BY <3>1
      <4>3. emitted' = emitted
        BY <3>1
      <4> HIDE DEF TypeOK, OrderInv, Relayed
      <4> QED BY <3>1, <3>2, <4>1, <4>2, <4>3
    <3> HIDE DEF Relayed
    <3> QED BY <3>1, <3>3, <3>4, <3>5
  <2>13. PumpDrained => OrderInv'
    BY DEF PumpDrained
  <2>14. PumpSend => OrderInv'
    <3> SUFFICES ASSUME PumpSend PROVE OrderInv'
      OBVIOUS
    <3>1. /\ UNCHANGED <<exec, emitted, receiver, received>>
          /\ pump = "send"
      BY DEF PumpSend
    <3>2. CASE CallerGone
      BY <3>1, <3>2 DEF PumpSend
    <3>3. CASE ~CallerGone
      <4>1. /\ outer' = Append(outer, held)
            /\ pump' = "count" /\ UNCHANGED inner
        BY <3>3 DEF PumpSend
      <4>2. /\ Len(outer') = Len(outer) + 1
            /\ outer'[Len(outer) + 1] = held
            /\ \A i \in 1 .. Len(outer) : outer'[i] = outer[i]
        BY <4>1
      <4>3. \A i \in 1 .. Len(outer') : outer'[i] = Len(received') + i
        <5> SUFFICES ASSUME NEW i \in 1 .. Len(outer')
                     PROVE  outer'[i] = Len(received) + i
          BY <3>1
        <5>1. CASE i = Len(outer) + 1
          BY <3>1, <3>3, <4>2, <5>1
        <5>2. CASE i \in 1 .. Len(outer)
          BY <4>2, <5>2
        <5> QED BY <4>2, <5>1, <5>2
      <4>4. Relayed' = Relayed
        BY <3>1, <4>1, <4>2
      <4>5. Relayed + Len(inner) = emitted
            /\ \A i \in 1 .. Len(inner) : inner[i] = Relayed + i
        BY <3>1, <3>3
      <4>6. Len(received') + Len(outer') <= emitted'
        BY <3>1, <3>3, <4>2
      <4> HIDE DEF Relayed
      <4> QED BY <3>1, <3>3, <4>1, <4>3, <4>4, <4>5, <4>6
    <3> QED BY <3>2, <3>3
  <2>15. PumpCount => OrderInv'
    BY DEF PumpCount
  <2>16. CallerRecv => OrderInv'
    <3> SUFFICES ASSUME CallerRecv PROVE OrderInv'
      OBVIOUS
    <3>1. /\ UNCHANGED <<exec, emitted, inner, pump, held>>
          /\ receiver = "idle" /\ receiver' = "acking" /\ outer # <<>>
      BY DEF CallerRecv
    <3>2. /\ Len(outer) \in Nat \ {0}
          /\ Len(outer') = Len(outer) - 1
          /\ \A i \in 1 .. Len(outer') : outer'[i] = outer[i + 1]
      BY DEF CallerRecv
    <3>3. /\ Len(received') = Len(received) + 1
          /\ received'[Len(received) + 1] = outer[1]
          /\ \A i \in 1 .. Len(received) : received'[i] = received[i]
      BY <3>2 DEF CallerRecv
    <3>4. \A i \in 1 .. Len(received') : received'[i] = i
      <4> SUFFICES ASSUME NEW i \in 1 .. Len(received')
                   PROVE  received'[i] = i
        OBVIOUS
      <4>1. CASE i = Len(received) + 1
        BY <3>2, <3>3, <4>1
      <4>2. CASE i \in 1 .. Len(received)
        BY <3>3, <4>2
      <4> QED BY <3>3, <4>1, <4>2
    <3>5. \A i \in 1 .. Len(outer') : outer'[i] = Len(received') + i
      BY <3>2, <3>3
    <3>6. Relayed' = Relayed
      BY <3>1, <3>2, <3>3
    <3>7. Len(received') + Len(outer') <= emitted'
      BY <3>1, <3>2, <3>3
    <3> HIDE DEF Relayed
    <3> QED BY <3>1, <3>4, <3>5, <3>6, <3>7
  <2>17. CallerAck => OrderInv'
    BY DEF CallerAck
  <2>18. CallerEnd => OrderInv'
    BY DEF CallerEnd
  <2>19. CallerDrop => OrderInv'
    BY DEF CallerDrop
  <2>20. CallerCancel => OrderInv'
    BY DEF CallerCancel
  <2>21. Terminated => OrderInv'
    BY DEF Terminated, vars
  <2> QED
    BY <1>1, <2>1, <2>2, <2>3, <2>4, <2>5, <2>6, <2>7, <2>8, <2>9, <2>10, <2>11, <2>12, <2>13, <2>14, <2>15, <2>16, <2>17, <2>18, <2>19, <2>20, <2>21, NextCases
<1>2. CASE UNCHANGED vars
  BY <1>2 DEF vars
<1> QED BY <1>1, <1>2

LEMMA OrderInvariant == Spec => []OrderInv
<1>1. Init => OrderInv
  <2> SUFFICES ASSUME Init PROVE OrderInv
    OBVIOUS
  <2>1. /\ receiver = "idle" /\ received = <<>> /\ inner = <<>>
        /\ \/ /\ exec = "audit" /\ pump = "check"
              /\ outer = <<>> /\ emitted = 0
           \/ /\ exec = "done" /\ pump = "drained"
              /\ outer = <<1>> /\ emitted = 1
    BY DEF Init, Accepted, Rejected
  <2>2. /\ Len(received) = 0 /\ Len(inner) = 0 /\ Len(outer) = emitted
        /\ \A i \in 1 .. Len(outer) : outer[i] = i
    BY <2>1, Len(<<>>) = 0, Len(<<1>>) = 1, <<1>>[1] = 1
  <2>3. emitted \in Nat /\ pump # "send" /\ ~CallerGone
    BY <2>1 DEF CallerGone
  <2>4. Relayed = emitted
    BY <2>2, <2>3 DEF Relayed
  <2> QED
    BY <2>1, <2>2, <2>3, <2>4 DEF OrderInv, PumpExited, Exits
<1> QED
  BY <1>1, OrderStep, DispatcherTypeCorrect, PTL DEF Spec

\* A caller that reads to the end of a stream which was not given up has all
\* that was emitted, for streams of every length.
THEOREM NothingLostSilently == Spec => []NoSilentLoss
<1>1. TypeOK /\ OrderInv => NoSilentLoss
  <2> SUFFICES ASSUME TypeOK, OrderInv, receiver = "ended", pump = "drained"
               PROVE  received = [i \in 1 .. emitted |-> i]
    BY DEF NoSilentLoss
  <2>1. Len(received) = emitted
    <3>1. outer = <<>> /\ Relayed = emitted
      BY DEF OrderInv, CallerGone
    <3> QED BY <3>1 DEF TypeOK, Relayed
  <2>2. received = [i \in 1 .. Len(received) |-> received[i]]
    BY DEF TypeOK
  <2>3. \A i \in 1 .. Len(received) : received[i] = i
    BY DEF OrderInv
  <2> QED BY <2>1, <2>2, <2>3
<1> QED BY <1>1, OrderInvariant, DispatcherTypeCorrect, PTL

-----------------------------------------------------------------------------
(* The audit log.                                                          *)

\* The strengthening: the log is empty before the request is audited, and for
\* a call that is rejected; else it begins with the request and the frames
\* the caller can see, and while the pump works for a caller it holds exactly
\* these and the frame in the pump's hands.
AuditInv ==
  /\ exec = "audit" => audited = <<>> /\ emitted = 0 /\ inner = <<>>
  /\ audited = <<>> => exec = "audit" \/ (exec = "done" /\ pump = "drained")
  /\ audited # <<>> =>
       /\ Len(received) + Len(outer) < Len(audited)
       /\ \A i \in 1 .. Len(received) + Len(outer) + 1 : audited[i] = i - 1
       /\ ~CallerGone /\ ~PumpExited =>
            /\ Len(audited) = Relayed + 1
            /\ pump = "send" => audited[Len(audited)] = Relayed

LEMMA AuditStep ==
  ASSUME TypeOK, OrderInv, AuditInv, [Next]_vars
  PROVE  AuditInv'
<1> USE DEF TypeOK, AuditInv, Relayed, CallerGone, PumpExited, Exits, REQ
<1>1. CASE Next
  <2>1. AuditRequest => AuditInv'
    BY DEF AuditRequest, OrderInv
  <2>2. HandlerEmit => AuditInv'
    BY DEF HandlerEmit, SendInner
  <2>3. HandlerOk => AuditInv'
    BY DEF HandlerOk, EndRun
  <2>4. HandlerErr => AuditInv'
    BY DEF HandlerErr, EndRun
  <2>5. CancelObserved => AuditInv'
    BY DEF CancelObserved, EndRun
  <2>6. EmitError => AuditInv'
    BY DEF EmitError, SendInner
  <2>7. PumpCheck => AuditInv'
    BY DEF PumpCheck
  <2>8. PumpPaused => AuditInv'
    BY DEF PumpPaused
  <2>9. PumpPinged => AuditInv'
    BY DEF PumpPinged
  <2>10. PumpAbandon => AuditInv'
    BY DEF PumpAbandon
  <2>11. PumpStall => AuditInv'
    BY DEF PumpStall
  <2>12. PumpRecv => AuditInv'
    <3> SUFFICES ASSUME PumpRecv PROVE AuditInv'
      OBVIOUS
    <3>1. /\ UNCHANGED <<exec, emitted, outer, receiver, received>>
          /\ pump = "recv" /\ pump' = "send"
          /\ inner # <<>> /\ audited' = Append(audited, Head(inner))
      BY DEF PumpRecv
    <3>2. audited # <<>> /\ exec # "audit"
      BY <3>1
    <3>3. /\ audited' # <<>>
          /\ Len(audited') = Len(audited) + 1
          /\ audited'[Len(audited) + 1] = inner[1]
          /\ \A i \in 1 .. Len(audited) : audited'[i] = audited[i]
      <4>1. inner[1] \in Nat /\ Head(inner) = inner[1]
        BY <3>1
      <4> HIDE DEF AuditInv
      <4> QED BY <3>1, <4>1
    <3>4. \A i \in 1 .. Len(received) + Len(outer) + 1 : audited'[i] = i - 1
      BY <3>2, <3>3
    <3>5. ~CallerGone => /\ Len(audited') = Relayed' + 1
                         /\ audited'[Len(audited')] = Relayed'
      <4> SUFFICES ASSUME ~CallerGone
                   PROVE  /\ Len(audited') = Relayed' + 1
                          /\ audited'[Len(audited')] = Relayed'
        OBVIOUS
      <4>1. Len(audited) = Relayed + 1 /\ Relayed' = Relayed + 1
            /\ Relayed \in Nat
        BY <3>1, <3>2
      <4>2. inner[1] = Relayed + 1
        <5>1. 1 \in 1 .. Len(inner)
          BY <3>1
        <5>2. \A i \in 1 .. Len(inner) : inner[i] = Relayed + i
          BY DEF OrderInv
        <5> QED BY <5>1, <5>2
      <4> HIDE DEF Relayed, AuditInv, TypeOK
      <4> QED BY <3>3, <4>1, <4>2
    <3>6. Len(received) + Len(outer) < Len(audited')
      <4>1. Len(received) + Len(outer) < Len(audited)
        BY <3>2
      <4>2. Len(received) \in Nat /\ Len(outer) \in Nat /\ Len(audited) \in Nat
        OBVIOUS
      <4> HIDE DEF AuditInv, TypeOK
      <4> QED BY <3>3, <4>1, <4>2
    <3> QED BY <3>1, <3>2, <3>3, <3>4, <3>5, <3>6
  <2>13. PumpDrained => AuditInv'
    BY DEF PumpDrained
  <2>14. PumpSend => AuditInv'
    <3> SUFFICES ASSUME PumpSend PROVE AuditInv'
      OBVIOUS
    <3>1. /\ UNCHANGED <<exec, emitted, receiver, received, audited>>
          /\ pump = "send"
      BY DEF PumpSend
    <3>2. CASE CallerGone
      BY <3>1, <3>2 DEF PumpSend
    <3>3. CASE ~CallerGone
      <4>1. /\ Len(outer') = Len(outer) + 1
            /\ pump' = "count" /\ UNCHANGED inner
        BY <3>3 DEF PumpSend
      <4>2. Relayed <= emitted /\ Relayed \in Nat \ {0}
        <5>1. Relayed + Len(inner) = emitted
          BY <3>1, <3>3 DEF OrderInv
        <5>2. Relayed \in Nat \ {0} /\ Len(inner) \in Nat
          BY <3>1
        <5> HIDE DEF TypeOK, AuditInv, Relayed
        <5> QED BY <5>1, <5>2
      <4>3. audited # <<>> /\ exec # "audit"
        BY <3>1, <4>2
      <4>4. /\ Len(audited) = Relayed + 1
            /\ audited[Len(audited)] = Relayed
            /\ Relayed = Len(received) + Len(outer) + 1
            /\ Relayed' = Relayed
        BY <3>1, <3>3, <4>1, <4>3
      <4>5. \A i \in 1 .. Len(received) + Len(outer') + 1 :
              audited[i] = i - 1
        <5> SUFFICES ASSUME NEW i \in 1 .. Len(received) + Len(outer') + 1
                     PROVE  audited[i] = i - 1
          OBVIOUS
        <5>1. CASE i = Relayed + 1
          <6> HIDE DEF Relayed, AuditInv, TypeOK
          <6>1. audited[i] = Relayed
            BY <4>4, <5>1
          <6>2. i - 1 = Relayed
            BY <4>2, <5>1
          <6> QED BY <6>1, <6>2
        <5>2. CASE i \in 1 .. Len(received) + Len(outer) + 1
          BY <4>3, <5>2
        <5>3. i = Relayed + 1 \/ i \in 1 .. Len(received) + Len(outer) + 1
          <6>1. Len(received) \in Nat /\ Len(outer) \in Nat
            OBVIOUS
          <6> HIDE DEF Relayed, AuditInv, TypeOK
          <6> QED BY <4>1, <4>4, <6>1
        <5> QED BY <5>1, <5>2, <5>3
      <4> QED BY <3>1, <3>3, <4>1, <4>3, <4>4, <4>5
    <3> QED BY <3>2, <3>3
  <2>15. PumpCount => AuditInv'
    BY DEF PumpCount
  <2>16. CallerRecv => AuditInv'
    BY DEF CallerRecv
  <2>17. CallerAck => AuditInv'
    BY DEF CallerAck
  <2>18. CallerEnd => AuditInv'
    BY DEF CallerEnd
  <2>19. CallerDrop => AuditInv'
    BY DEF CallerDrop
  <2>20. CallerCancel => AuditInv'
    BY DEF CallerCancel
  <2>21. Terminated => AuditInv'
    BY DEF Terminated, vars
  <2> QED
    BY <1>1, <2>1, <2>2, <2>3, <2>4, <2>5, <2>6, <2>7, <2>8, <2>9, <2>10, <2>11, <2>12, <2>13, <2>14, <2>15, <2>16, <2>17, <2>18, <2>19, <2>20, <2>21, NextCases
<1>2. CASE UNCHANGED vars
  BY <1>2 DEF vars
<1> QED BY <1>1, <1>2

\* "All frames are logged before delivery", for every order of the steps.
THEOREM LoggedBeforeDelivery == Spec => []AuditedBeforeDelivery
<1>1. Init => AuditInv
  BY DEF Init, Accepted, Rejected, AuditInv
<1>2. TypeOK /\ OrderInv /\ AuditInv => AuditedBeforeDelivery
  <2> SUFFICES ASSUME TypeOK, OrderInv, AuditInv, audited # <<>>
               PROVE  /\ Len(received \o outer) < Len(audited)
                      /\ audited[1] = REQ
                      /\ \A i \in 1 .. Len(received \o outer) :
                           audited[i + 1] = (received \o outer)[i]
    BY DEF AuditedBeforeDelivery
  <2>1. /\ Len(received \o outer) = Len(received) + Len(outer)
        /\ \A i \in 1 .. Len(received) : (received \o outer)[i] = received[i]
        /\ \A i \in Len(received) + 1 .. Len(received) + Len(outer) :
             (received \o outer)[i] = outer[i - Len(received)]
    BY DEF TypeOK
  <2>2. \A i \in 1 .. Len(received) + Len(outer) : (received \o outer)[i] = i
    <3> SUFFICES ASSUME NEW i \in 1 .. Len(received) + Len(outer)
                 PROVE  (received \o outer)[i] = i
      OBVIOUS
    <3>1. CASE i <= Len(received)
      BY <2>1, <3>1 DEF TypeOK, OrderInv
    <3>2. CASE i > Len(received)
      BY <2>1, <3>2 DEF TypeOK, OrderInv
    <3> QED BY <3>1, <3>2 DEF TypeOK
  <2>3. /\ Len(received) + Len(outer) < Len(audited)
        /\ \A i \in 1 .. Len(received) + Len(outer) + 1 : audited[i] = i - 1
    BY DEF AuditInv
  <2>4. Len(received) \in Nat /\ Len(outer) \in Nat
    BY DEF TypeOK
  <2>5. audited[1] = REQ
    BY <2>3, <2>4 DEF REQ
  <2>6. \A i \in 1 .. Len(received) + Len(outer) :
          audited[i + 1] = (received \o outer)[i]
    BY <2>2, <2>3, <2>4
  <2> QED BY <2>1, <2>3, <2>5, <2>6
<1> QED
  BY <1>1, <1>2, AuditStep, OrderInvariant, DispatcherTypeCorrect, PTL DEF Spec

-----------------------------------------------------------------------------
(* The refinement.                                                         *)

\* An action that neither emits nor touches what the caller sees.
LEMMA Unseen ==
  ASSUME OrderInv,
         UNCHANGED <<emitted, received, receiver>>,
         receiver = "ended" => pump' = pump
  PROVE  UNCHANGED Stream!vars
BY DEF OrderInv, Stream!vars, StreamStatus, CallerGone

\* Emitting after the stream is complete is impossible, as only the end of
\* the exec task completes it.
LEMMA EmitIsProduce ==
  ASSUME TypeOK, OrderInv, SendInner, exec # "done"
  PROVE  Stream!Produce
<1>1. StreamStatus # "complete"
  BY DEF StreamStatus, OrderInv, CallerGone
<1>2. StreamStatus' = StreamStatus
  BY DEF SendInner, StreamStatus, CallerGone
<1> QED BY <1>1, <1>2 DEF SendInner, Stream!Produce

LEMMA TakeIsDeliver ==
  ASSUME TypeOK, OrderInv, CallerRecv
  PROVE  Stream!Deliver
<1>1. StreamStatus = "open" /\ StreamStatus' = "open"
  BY DEF CallerRecv, StreamStatus, CallerGone
<1>2. Len(outer) \in Nat \ {0} /\ Head(outer) = outer[1]
  BY DEF CallerRecv, TypeOK
<1>3. outer[1] = Len(received) + 1 /\ Len(received) < emitted
  BY <1>2 DEF OrderInv, TypeOK
<1> QED BY <1>1, <1>2, <1>3 DEF CallerRecv, Stream!Deliver

LEMMA EndIsEnding ==
  ASSUME TypeOK, OrderInv, CallerEnd
  PROVE  Stream!Complete \/ Stream!Abort
<1>1. StreamStatus = "open"
  BY DEF CallerEnd, StreamStatus, CallerGone
<1>2. CASE pump = "drained"
  <2>1. StreamStatus' = "complete"
    BY <1>2 DEF CallerEnd, StreamStatus, CallerGone
  <2>2. Len(received) = emitted
    BY <1>2 DEF CallerEnd, OrderInv, TypeOK, Relayed, CallerGone
  <2> QED BY <1>1, <2>1, <2>2 DEF CallerEnd, Stream!Complete
<1>3. CASE pump # "drained"
  <2>1. StreamStatus' = "aborted"
    BY <1>3 DEF CallerEnd, StreamStatus, CallerGone
  <2> QED BY <1>1, <2>1 DEF CallerEnd, Stream!Abort
<1> QED BY <1>2, <1>3

LEMMA DropIsAbort ==
  ASSUME CallerDrop
  PROVE  Stream!Abort
BY DEF CallerDrop, Stream!Abort, StreamStatus, CallerGone

\* What the caller sees is the contract of FrameStream: frames in the order
\* of emission, none twice and none skipped, and "complete" only after all.
THEOREM DispatcherImplementsStream == Spec => ImplementsStream
<1>1. Init => Stream!Init
  BY DEF Init, Accepted, Rejected, Stream!Init, StreamStatus, CallerGone
<1>2. TypeOK /\ OrderInv /\ [Next]_vars => [Stream!Next]_(Stream!vars)
  <2> SUFFICES ASSUME TypeOK, OrderInv, [Next]_vars
               PROVE  Stream!Next \/ UNCHANGED Stream!vars
    OBVIOUS
  <2> DEFINE Goal == Stream!Next \/ UNCHANGED Stream!vars
  <2>1. UNCHANGED Stream!vars => Goal
    OBVIOUS
  <2>2. Stream!Produce \/ Stream!Deliver \/ Stream!Complete \/ Stream!Abort
          => Goal
    BY DEF Stream!Next
  <2>3. receiver = "ended" => pump \in Exits
    BY DEF OrderInv, PumpExited
  <2> HIDE DEF Goal
  <2>4. ASSUME Next PROVE Goal
    <3>1. AuditRequest => Goal
      BY <2>1, Unseen DEF AuditRequest
    <3>2. HandlerEmit => Goal
      BY EmitIsProduce, <2>2 DEF HandlerEmit
    <3>3. HandlerOk => Goal
      BY <2>1, Unseen DEF HandlerOk, EndRun
    <3>4. HandlerErr => Goal
      BY <2>1, Unseen DEF HandlerErr, EndRun
    <3>5. CancelObserved => Goal
      BY <2>1, Unseen DEF CancelObserved, EndRun
    <3>6. EmitError => Goal
      BY EmitIsProduce, <2>2 DEF EmitError
    <3>7. PumpCheck => Goal
      BY <2>1, <2>3, Unseen DEF PumpCheck, Exits
    <3>8. PumpPaused => Goal
      BY <2>1, <2>3, Unseen DEF PumpPaused, Exits
    <3>9. PumpPinged => Goal
      BY <2>1, <2>3, Unseen DEF PumpPinged, Exits
    <3>10. PumpAbandon => Goal
      BY <2>1, <2>3, Unseen DEF PumpAbandon, Exits
    <3>11. PumpStall => Goal
      BY <2>1, <2>3, Unseen DEF PumpStall, Exits
    <3>12. PumpRecv => Goal
      BY <2>1, <2>3, Unseen DEF PumpRecv, Exits
    <3>13. PumpDrained => Goal
      BY <2>1, <2>3, Unseen DEF PumpDrained, Exits
    <3>14. PumpSend => Goal
      BY <2>1, <2>3, Unseen DEF PumpSend, Exits
    <3>15. PumpCount => Goal
      BY <2>1, <2>3, Unseen DEF PumpCount, Exits
    <3>16. CallerRecv => Goal
      BY TakeIsDeliver, <2>2
    <3>17. CallerAck => Goal
      BY <2>1 DEF CallerAck, Stream!vars, StreamStatus, CallerGone
    <3>18. CallerEnd => Goal
      BY EndIsEnding, <2>2
    <3>19. CallerDrop => Goal
      BY DropIsAbort, <2>2
    <3>20. CallerCancel => Goal
      BY <2>1, Unseen DEF CallerCancel
    <3>21. Terminated => Goal
      BY <2>1, Unseen DEF Terminated, vars
    <3> QED
      BY <2>4, <3>1, <3>2, <3>3, <3>4, <3>5, <3>6, <3>7, <3>8, <3>9, <3>10, <3>11, <3>12, <3>13, <3>14, <3>15, <3>16, <3>17, <3>18, <3>19, <3>20, <3>21, NextCases
  <2>5. ASSUME UNCHANGED vars PROVE Goal
    BY <2>1, <2>5, Unseen DEF vars
  <2>6. Goal
    BY <2>4, <2>5
  <2> QED BY <2>6 DEF Goal
<1> QED
  BY <1>1, <1>2, OrderInvariant, DispatcherTypeCorrect, PTL
     DEF Spec, ImplementsStream

-----------------------------------------------------------------------------
(* The frame log.                                                          *)

LEMMA FrameNextCases ==
  ASSUME [LogNext]_logVars
  PROVE  \/ \E e \in Emitters : Emit(e) \/ AppendFrame(e) \/ Broadcast(e)
         \/ WriterRecv \/ WriterSkip \/ WriterInsert \/ WriterInsertFails
         \/ \E o \in Observers : ReadRecent(o) \/ Subscribe(o) \/ Observe(o) \/ ObserveLagged(o)
         \/ SelectPage \/ Restart \/ UNCHANGED logVars
BY DEF LogNext

-----------------------------------------------------------------------------
(* What append, tail and the like do to the elements of a sequence.        *)

LEMMA AppendElements ==
  ASSUME NEW S, NEW s \in Seq(S), NEW x
  PROVE  ToSet(Append(s, x)) = ToSet(s) \union {x}
<1>1. DOMAIN s = 1 .. Len(s) /\ DOMAIN Append(s, x) = 1 .. Len(s) + 1 /\ Len(s) \in Nat
  OBVIOUS
<1>2. \A i \in 1 .. Len(s) : Append(s, x)[i] = s[i]
  OBVIOUS
<1>3. Append(s, x)[Len(s) + 1] = x
  OBVIOUS
<1>4. ToSet(Append(s, x)) \subseteq ToSet(s) \union {x}
  BY <1>1, <1>2, <1>3 DEF ToSet
<1>5. ToSet(s) \subseteq ToSet(Append(s, x))
  BY <1>1, <1>2 DEF ToSet
<1>6. x \in ToSet(Append(s, x))
  BY <1>1, <1>3 DEF ToSet
<1> QED
  BY <1>4, <1>5, <1>6

LEMMA HeadTailElements ==
  ASSUME NEW S, NEW s \in Seq(S), s # <<>>
  PROVE  ToSet(s) = {Head(s)} \union ToSet(Tail(s))
<1>1. DOMAIN s = 1 .. Len(s) /\ DOMAIN Tail(s) = 1 .. Len(s) - 1 /\ Len(s) \in Nat \ {0}
  OBVIOUS
<1>2. \A i \in 1 .. Len(s) - 1 : Tail(s)[i] = s[i + 1]
  OBVIOUS
<1>3. Head(s) = s[1]
  OBVIOUS
<1>4. ASSUME NEW i \in 1 .. Len(s) PROVE s[i] \in {Head(s)} \union ToSet(Tail(s))
  <2>1. CASE i = 1
    BY <2>1, <1>3
  <2>2. CASE i # 1
    <3>1. i - 1 \in 1 .. Len(s) - 1 /\ s[i] = Tail(s)[i - 1]
      BY <2>2, <1>1, <1>2
    <3> QED
      BY <3>1, <1>1 DEF ToSet
  <2> QED
    BY <2>1, <2>2
<1>5. ASSUME NEW i \in 1 .. Len(s) - 1 PROVE Tail(s)[i] \in ToSet(s)
  BY <1>1, <1>2 DEF ToSet
<1>6. Head(s) \in ToSet(s)
  BY <1>1, <1>3 DEF ToSet
<1> QED
  BY <1>1, <1>4, <1>5, <1>6 DEF ToSet

-----------------------------------------------------------------------------
(* The invariant: types, frames that passed append are recorded, pages     *)
(* leave no gap.                                                           *)

\* An emitter in the midst of a frame has one.
HandFull == \A e \in Emitters : at[e] # "idle" => frame[e] # NoFrame

LogTypes == LogTypeOK /\ HandFull

\* A frame in an emitter's hands is recorded once append has returned.
HandIsRecorded == \A e \in Emitters : at[e] = "broadcast" => frame[e] \in Recorded

LogInv == LogTypes /\ HandIsRecorded /\ BroadcastIsRecorded

\* Where a page ends.
LEMMA PageEndRange ==
  ASSUME LogTypeOK
  PROVE  PageEnd(since) \in since .. Len(rows) /\ NextSince(since) \in 0 .. Len(rows)
<1>1. /\ Len(rows) \in Nat /\ since \in Nat /\ since <= Len(rows)
      /\ PageLimit \in Nat /\ PageLimit > 0
  BY FrameLogAssumption DEF LogTypeOK
<1>2. PageEnd(since) \in since .. Len(rows)
  BY <1>1 DEF PageEnd
<1> QED BY <1>1, <1>2 DEF NextSince

LEMMA LogTypesStep ==
  ASSUME LogTypes, [LogNext]_logVars
  PROVE  LogTypes'
<1> USE DEF LogTypes, LogTypeOK, HandFull
<1>0. NoFrame \notin Frames
  BY DEF Frames, NoFrame
<1>1. ASSUME NEW e \in Emitters, Emit(e) PROVE LogTypes'
  <2>0. MaxFrames \in Nat
    BY FrameLogAssumption
  <2>1. made' \in Frames /\ made' # NoFrame /\ made' \in 0 .. MaxFrames
    <3>1. made \in 0 .. MaxFrames /\ made < MaxFrames /\ made' = made + 1
      BY <1>1 DEF Emit
    <3> HIDE DEF LogTypes
    <3> QED BY <2>0, <3>1 DEF Frames, NoFrame
  <2>2. made' \in 0 .. MaxFrames /\ ticks' \subseteq Frames
    <3>1. ticks \subseteq Frames /\ ticks' \in {ticks, ticks \union {made'}}
      BY <1>1 DEF Emit
    <3> HIDE DEF LogTypes
    <3> QED BY <2>1, <3>1
  <2>3. at' \in [Emitters -> {"idle", "append", "broadcast"}]
        /\ frame' \in [Emitters -> Frames \union {NoFrame}]
    BY <1>1, <2>1 DEF Emit
  <2>4. HandFull'
    BY <1>1, <2>1 DEF Emit
  <2> QED
    BY <1>1, <2>2, <2>3, <2>4 DEF Emit, storeVars, viewVars, pageVars
<1>2. ASSUME NEW e \in Emitters, AppendFrame(e) PROVE LogTypes'
  <2>1. inbox' \in Seq(Frames) /\ Len(inbox') <= InboxCap
    BY <1>2, FrameLogAssumption DEF AppendFrame
  <2>2. at' \in [Emitters -> {"idle", "append", "broadcast"}]
    BY <1>2 DEF AppendFrame
  <2> QED
    BY <1>2, <2>1, <2>2 DEF AppendFrame, viewVars, pageVars
<1>3. ASSUME NEW e \in Emitters, Broadcast(e) PROVE LogTypes'
  <2>1. cast' \in Seq(Frames)
    BY <1>3 DEF Broadcast
  <2> QED
    BY <1>3, <2>1 DEF Broadcast, storeVars, viewVars, pageVars
<1>4. ASSUME WriterRecv PROVE LogTypes'
  <2>1. inbox' \in Seq(Frames) /\ Len(inbox') <= InboxCap /\ writing' \in Frames
    <3>1. inbox \in Seq(Frames) /\ inbox # <<>> /\ Len(inbox) <= InboxCap /\ InboxCap \in Nat
      BY <1>4, FrameLogAssumption DEF WriterRecv
    <3>2. Head(inbox) \in Frames /\ Tail(inbox) \in Seq(Frames)
          /\ Len(Tail(inbox)) = Len(inbox) - 1 /\ Len(inbox) \in Nat
      BY <3>1
    <3> QED
      BY <1>4, <3>1, <3>2 DEF WriterRecv
  <2> QED
    BY <1>4, <2>1 DEF WriterRecv, emitVars, viewVars, pageVars
<1>5. ASSUME WriterSkip PROVE LogTypes'
  BY <1>5 DEF WriterSkip, emitVars, viewVars, pageVars
<1>6. ASSUME WriterInsert PROVE LogTypes'
  <2>1. rows' \in Seq(Frames) /\ Len(rows') = Len(rows) + 1
    BY <1>6 DEF WriterInsert
  <2> QED
    BY <1>6, <2>1 DEF WriterInsert, emitVars, viewVars, pageVars
<1>7. ASSUME WriterInsertFails PROVE LogTypes'
  BY <1>7 DEF WriterInsertFails, emitVars, viewVars, pageVars
<1>8. ASSUME NEW o \in Observers, ReadRecent(o) PROVE LogTypes'
  <2>1. {rows[i] : i \in {j \in 1 .. Len(rows) : j + RecentLimit > Len(rows)}} \subseteq Frames
    <3>1. \A i \in 1 .. Len(rows) : rows[i] \in Frames
      OBVIOUS
    <3> QED
      BY <3>1
  <2>2. seen' \in [Observers -> SUBSET Frames]
    BY <1>8, <2>1 DEF ReadRecent
  <2>3. view' \in [Observers -> {"off", "recent", "live"}]
    BY <1>8 DEF ReadRecent
  <2> QED
    BY <1>8, <2>2, <2>3 DEF ReadRecent, emitVars, storeVars, pageVars
<1>9. ASSUME NEW o \in Observers, Subscribe(o) PROVE LogTypes'
  BY <1>9 DEF Subscribe, emitVars, storeVars, pageVars
<1>10. ASSUME NEW o \in Observers, Observe(o) PROVE LogTypes'
  <2>1. cast[next[o] + 1] \in Frames /\ next[o] \in Nat
    <3>1. next[o] \in Nat /\ next[o] < Len(cast) /\ cast \in Seq(Frames)
      BY <1>10 DEF Observe
    <3> QED
      BY <3>1
  <2>2. seen' \in [Observers -> SUBSET Frames] /\ next' \in [Observers -> Nat]
    BY <1>10, <2>1 DEF Observe
  <2> QED
    BY <1>10, <2>2 DEF Observe, emitVars, storeVars, pageVars
<1>11. ASSUME NEW o \in Observers, ObserveLagged(o) PROVE LogTypes'
  <2>1. Len(cast) - BroadcastCap \in Nat
    <3>1. next[o] \in Nat /\ Len(cast) \in Nat /\ BroadcastCap \in Nat
      BY FrameLogAssumption
    <3>2. next[o] + BroadcastCap < Len(cast)
      BY <1>11 DEF ObserveLagged, Lags
    <3> QED
      BY <3>1, <3>2
  <2>2. next' \in [Observers -> Nat]
    BY <1>11, <2>1 DEF ObserveLagged
  <2> QED
    BY <1>11, <2>2 DEF ObserveLagged, emitVars, storeVars, pageVars
<1>12. ASSUME SelectPage PROVE LogTypes'
  <2>1. \A i \in since + 1 .. PageEnd(since) : rows[i] \in Frames
    <3>1. since \in 0 .. Len(rows) /\ rows \in Seq(Frames) /\ PageEnd(since) \in since .. Len(rows)
      BY PageEndRange
    <3> QED
      BY <3>1
  <2>2. paged' \subseteq Frames
    BY <1>12, <2>1 DEF SelectPage
  <2>3. since' \in 0 .. Len(rows)
    BY <1>12, PageEndRange DEF SelectPage
  <2> QED
    BY <1>12, <2>2, <2>3 DEF SelectPage, emitVars, storeVars, viewVars
<1>13. ASSUME Restart PROVE LogTypes'
  <2>1. inbox' \in Seq(Frames) /\ Len(inbox') <= InboxCap /\ cast' \in Seq(Frames)
    BY <1>13, FrameLogAssumption DEF Restart
  <2>2. writing' \in Frames \union {NoFrame} /\ restarts' \in 0 .. MaxRestarts
    BY <1>13, FrameLogAssumption DEF Restart
  <2>3. HandFull'
    BY <1>13 DEF Restart
  <2> QED
    BY <1>13, <2>1, <2>2, <2>3 DEF Restart, pageVars
<1>14. ASSUME UNCHANGED logVars PROVE LogTypes'
  BY <1>14 DEF logVars, emitVars, storeVars, viewVars, pageVars
<1> QED
  BY <1>1, <1>2, <1>3, <1>4, <1>5, <1>6, <1>7, <1>8, <1>9, <1>10, <1>11, <1>12, <1>13, <1>14,
     FrameNextCases

\* No step but a restart makes a recorded frame unrecorded.
LEMMA RecordedStays ==
  ASSUME LogTypes, [LogNext]_logVars, ~Restart
  PROVE  Recorded \ {NoFrame} \subseteq Recorded'
<1> USE DEF Recorded
<1>1. ASSUME NEW e \in Emitters, AppendFrame(e) PROVE Recorded \subseteq Recorded'
  <2>1. ToSet(inbox') = ToSet(inbox) \union {frame[e]}
    BY <1>1, AppendElements DEF AppendFrame, LogTypes, LogTypeOK
  <2> QED
    BY <1>1, <2>1 DEF AppendFrame
<1>2. ASSUME WriterRecv PROVE Recorded \ {NoFrame} \subseteq Recorded'
  <2>1. ToSet(inbox) = {writing'} \union ToSet(inbox')
    BY <1>2, HeadTailElements DEF WriterRecv, LogTypes, LogTypeOK
  <2> QED
    BY <1>2, <2>1 DEF WriterRecv, emitVars
<1>3. ASSUME WriterInsert PROVE Recorded \subseteq Recorded'
  <2>1. ToSet(rows') = ToSet(rows) \union {writing}
    BY <1>3, AppendElements DEF WriterInsert, LogTypes, LogTypeOK
  <2> QED
    BY <1>3, <2>1 DEF WriterInsert, emitVars
<1>4. ASSUME NEW e \in Emitters, Emit(e) \/ Broadcast(e) PROVE Recorded \subseteq Recorded'
  BY <1>4 DEF Emit, Broadcast, storeVars
<1>5. ASSUME WriterSkip \/ WriterInsertFails PROVE Recorded \ {NoFrame} \subseteq Recorded'
  BY <1>5 DEF WriterSkip, WriterInsertFails, emitVars
<1>6. ASSUME NEW o \in Observers, ReadRecent(o) \/ Subscribe(o) \/ Observe(o) \/ ObserveLagged(o)
      PROVE  Recorded \subseteq Recorded'
  BY <1>6 DEF ReadRecent, Subscribe, Observe, ObserveLagged, emitVars, storeVars
<1>7. ASSUME SelectPage \/ UNCHANGED logVars PROVE Recorded \subseteq Recorded'
  BY <1>7 DEF SelectPage, emitVars, storeVars, logVars
<1> HIDE DEF Recorded
<1> QED
  BY <1>1, <1>2, <1>3, <1>4, <1>5, <1>6, <1>7, FrameNextCases

-----------------------------------------------------------------------------
(* The log has what is broadcast.                                          *)

LEMMA LogInvStep ==
  ASSUME LogInv, [LogNext]_logVars
  PROVE  LogInv'
<1>1. LogTypes /\ LogTypes'
  BY LogTypesStep DEF LogInv
<1>2. CASE Restart
  BY <1>1, <1>2 DEF Restart, LogInv, HandIsRecorded, BroadcastIsRecorded
<1>3. CASE ~Restart
  <2>1. \A f \in Frames : f \in Recorded => f \in Recorded'
    BY <1>1, <1>3, RecordedStays DEF Frames, NoFrame
  <2>2. at \in [Emitters -> {"idle", "append", "broadcast"}]
        /\ frame \in [Emitters -> Frames \union {NoFrame}] /\ cast \in Seq(Frames)
    BY <1>1 DEF LogTypes, LogTypeOK
  <2>3. ASSUME NEW e \in Emitters, at'[e] = "broadcast" PROVE frame'[e] \in Recorded'
    <3>1. CASE at[e] = "broadcast" /\ frame'[e] = frame[e]
      BY <3>1, <1>1, <2>1, <2>2 DEF LogInv, HandIsRecorded, LogTypes, HandFull
    <3>2. CASE AppendFrame(e)
      <4>1. ToSet(inbox') = ToSet(inbox) \union {frame[e]} /\ frame' = frame
        BY <3>2, <1>1, AppendElements DEF AppendFrame, LogTypes, LogTypeOK
      <4> QED
        BY <4>1 DEF Recorded
    <3>3. ASSUME NEW d \in Emitters, Emit(d) \/ AppendFrame(d) \/ Broadcast(d)
          PROVE  (at[e] = "broadcast" /\ frame'[e] = frame[e]) \/ AppendFrame(e)
      BY <2>2, <2>3, <3>3 DEF Emit, AppendFrame, Broadcast
    <3>4. ASSUME UNCHANGED emitVars
          PROVE  at[e] = "broadcast" /\ frame'[e] = frame[e]
      BY <3>4, <2>3 DEF emitVars
    <3> QED
      BY <3>1, <3>2, <3>3, <3>4, <1>3, FrameNextCases
         DEF WriterRecv, WriterSkip, WriterInsert, WriterInsertFails, ReadRecent, Subscribe,
             Observe, ObserveLagged, SelectPage, logVars
  <2>4. ASSUME NEW i \in 1 .. Len(cast') PROVE cast'[i] \in Recorded'
    <3>1. CASE cast' = cast
      <4>1. cast[i] \in Frames /\ cast[i] \in Recorded
        BY <3>1, <2>2, <2>4 DEF LogInv, BroadcastIsRecorded
      <4> QED
        BY <4>1, <2>1, <3>1
    <3>2. ASSUME NEW e \in Emitters, Broadcast(e) PROVE cast'[i] \in Recorded'
      <4>1. cast' = Append(cast, frame[e]) /\ frame[e] \in Frames /\ frame[e] \in Recorded
        BY <3>2, <2>2, <1>1 DEF Broadcast, LogInv, HandIsRecorded, LogTypes, HandFull
      <4>2. CASE i \in 1 .. Len(cast)
        <5>1. cast'[i] = cast[i] /\ cast[i] \in Frames /\ cast[i] \in Recorded
          BY <4>1, <4>2, <2>2 DEF LogInv, BroadcastIsRecorded
        <5> QED
          BY <5>1, <2>1
      <4>3. CASE i = Len(cast) + 1
        <5>1. cast'[i] = frame[e]
          BY <4>1, <4>3, <2>2
        <5> QED
          BY <5>1, <4>1, <2>1
      <4>4. i \in 1 .. Len(cast) + 1 /\ Len(cast) \in Nat
        BY <4>1, <2>2, <2>4
      <4> QED
        BY <4>2, <4>3, <4>4
    <3> QED
      BY <3>1, <3>2, <1>3, FrameNextCases
         DEF Emit, AppendFrame, WriterRecv, WriterSkip, WriterInsert, WriterInsertFails,
             ReadRecent, Subscribe, Observe, ObserveLagged, SelectPage, logVars
  <2> QED
    BY <1>1, <2>3, <2>4 DEF LogInv, HandIsRecorded, BroadcastIsRecorded
<1> QED
  BY <1>2, <1>3

LEMMA LogInvInit ==
  ASSUME LogInit
  PROVE  LogInv
BY FrameLogAssumption DEF LogInit, LogInv, LogTypes, LogTypeOK, HandFull, HandIsRecorded,
   BroadcastIsRecorded, Frames, NoFrame

(* Every reachable state of the log is well typed, its channel is bounded, *)
(* and the cursor of frames:select is within the log.                      *)
THEOREM FrameLogTypeCorrect == LogSpec => []LogTypeOK
<1>1. LogInv => LogTypeOK
  BY DEF LogInv, LogTypes
<1> QED
  BY <1>1, LogInvInit, LogInvStep, PTL DEF LogSpec

(* For any sizes, and however appends, inserts, failures and restarts      *)
(* interleave, what was broadcast is recorded.                             *)
THEOREM BroadcastsAreRecorded == LogSpec => []BroadcastIsRecorded
<1>1. LogInv => BroadcastIsRecorded
  BY DEF LogInv
<1> QED
  BY <1>1, LogInvInit, LogInvStep, PTL DEF LogSpec

-----------------------------------------------------------------------------
(* Pages of frames:select.                                                 *)

LEMMA RowsGrow ==
  ASSUME LogTypeOK, [LogNext]_logVars
  PROVE  \A i \in 1 .. Len(rows) : i \in 1 .. Len(rows') /\ rows'[i] = rows[i]
<1>1. CASE rows' = rows
  BY <1>1
<1>2. CASE WriterInsert
  BY <1>2 DEF WriterInsert, LogTypeOK
<1> QED
  BY <1>1, <1>2, FrameNextCases
     DEF Emit, AppendFrame, Broadcast, WriterRecv, WriterSkip, WriterInsertFails,
         ReadRecent, Subscribe, Observe, ObserveLagged, SelectPage, Restart, logVars, storeVars

LEMMA PagesStep ==
  ASSUME LogTypeOK, PagesLeaveNoGap, [LogNext]_logVars
  PROVE  PagesLeaveNoGap'
<1>1. since \in 0 .. Len(rows) /\ Len(rows) \in Nat
  BY DEF LogTypeOK
<1>2. CASE UNCHANGED pageVars
  BY <1>1, <1>2, RowsGrow DEF pageVars, PagesLeaveNoGap
<1>3. CASE SelectPage
  <2> SUFFICES ASSUME NEW i \in 1 .. since' PROVE rows'[i] \in paged'
    BY DEF PagesLeaveNoGap
  <2>1. rows' = rows /\ since' \in 0 .. Len(rows)
    BY <1>3, PageEndRange DEF SelectPage, storeVars
  <2>2. i <= PageEnd(since)
    BY <1>3, <2>1, PageEndRange, <1>1 DEF SelectPage, NextSince
  <2>3. CASE i <= since
    BY <2>1, <2>3, <1>1, <1>3 DEF SelectPage, PagesLeaveNoGap
  <2>4. CASE i > since
    <3>1. i \in since + 1 .. PageEnd(since)
      BY <2>2, <2>4, <1>1, PageEndRange
    <3> QED
      BY <3>1, <2>1, <1>3 DEF SelectPage
  <2> QED
    BY <2>3, <2>4, <1>1, <2>1
<1> QED
  BY <1>2, <1>3, FrameNextCases
     DEF Emit, AppendFrame, Broadcast, WriterRecv, WriterSkip, WriterInsert, WriterInsertFails,
         ReadRecent, Subscribe, Observe, ObserveLagged, Restart, logVars

(* For any page size, whatever is inserted between two pages, the caller   *)
(* has got every row up to his cursor.                                     *)
THEOREM PagesAreComplete == LogSpec => []PagesLeaveNoGap
<1>1. LogInit => PagesLeaveNoGap
  BY DEF LogInit, PagesLeaveNoGap
<1>2. LogTypeOK /\ PagesLeaveNoGap /\ [LogNext]_logVars => PagesLeaveNoGap'
  BY PagesStep
<1> QED
  BY <1>1, <1>2, FrameLogTypeCorrect, PTL DEF LogSpec

-----------------------------------------------------------------------------
(* The concurrency lanes.                                                  *)

\* A syscall's lane is one of the two, or none.
LEMMA LaneType == \A n \in Names : lane_for(n) \in SerialLanes \cup {"Immediate"}
BY DEF lane_for, SerialLanes

\* What is left of a queue that loses its i-th element.
LEMMA DropAtShape ==
  ASSUME NEW S, NEW s \in Seq(S), NEW i \in 1 .. Len(s)
  PROVE  /\ DropAt(s, i) \in Seq(S)
         /\ Len(DropAt(s, i)) = Len(s) - 1
         /\ \A j \in 1 .. Len(s) - 1 :
              DropAt(s, i)[j] = IF j < i THEN s[j] ELSE s[j + 1]
<1> DEFINE t == DropAt(s, i)
<1>1. Len(s) \in Nat /\ Len(s) - 1 \in Nat
  OBVIOUS
<1>2. t = [j \in 1 .. Len(s) - 1 |-> IF j < i THEN s[j] ELSE s[j + 1]]
  BY DEF DropAt
<1>3. \A j \in 1 .. Len(s) - 1 : (IF j < i THEN s[j] ELSE s[j + 1]) \in S
  BY <1>1
<1>4. t \in [1 .. Len(s) - 1 -> S]
  BY <1>2, <1>3
<1>5. t \in Seq(S) /\ Len(t) = Len(s) - 1
  BY <1>1, <1>4
<1> QED
  BY <1>2, <1>5

\* The steps a proof about LanesNext has to look at.
LEMMA LanesNextCases ==
  ASSUME [LanesNext]_lanesVars
  PROVE  \/ \E c \in Calls, n \in Names, p \in Calls \cup {NoCall} : Spawn(c, n, p)
         \/ \E c \in Calls : LaneExec(c) \/ Return(c) \/ Interrupt(c)
         \/ UNCHANGED lanesVars
<1>1. ASSUME NEW c \in Calls, DispatchRoot(c) PROVE \E n \in Names : Spawn(c, n, NoCall)
  BY <1>1, LanesAssumption DEF DispatchRoot
<1>2. ASSUME NEW c \in Calls, DispatchNested(c)
      PROVE  \E n \in Names, p \in Calls : Spawn(c, n, p)
  <2>1. PICK p \in Calls : \E n \in Nested(name[p]) : Spawn(c, n, p)
    BY <1>2 DEF DispatchNested
  <2>2. Nested(name[p]) \subseteq Names
    BY DEF Nested, Names, NeedNames, RoomNames
  <2> QED BY <2>1, <2>2
<1> QED BY <1>1, <1>2 DEF LanesNext

-----------------------------------------------------------------------------
(* Type correctness.                                                       *)

LEMMA SpawnType ==
  ASSUME LanesTypeOK, NEW c \in Calls, NEW n \in Names, NEW p \in Calls \cup {NoCall},
         Spawn(c, n, p)
  PROVE  LanesTypeOK'
BY DEF Spawn, LanesTypeOK, Live

LEMMA ReleaseType ==
  ASSUME LanesTypeOK, NEW c \in Calls, ReleaseLane(c)
  PROVE  /\ state' \in [Calls -> {"unused", "ended"} \cup Live]
         /\ holder' \in [SerialLanes -> Calls \cup {NoCall}]
         /\ waiters' \in [SerialLanes -> Seq(Calls)]
<1> USE DEF LanesTypeOK, Live
<1>1. CASE Lane(c) = "Immediate" \/ waiters[Lane(c)] = <<>>
  <2>1. /\ state' = [state EXCEPT ![c] = "ended"]
        /\ holder' = [l \in SerialLanes |-> IF l = Lane(c) THEN NoCall ELSE holder[l]]
        /\ waiters' = waiters
    BY <1>1 DEF ReleaseLane
  <2> QED BY <2>1
<1>2. CASE ~(Lane(c) = "Immediate" \/ waiters[Lane(c)] = <<>>)
  <2>1. Lane(c) \in SerialLanes
    BY <1>2, LaneType DEF Lane
  <2>2. waiters[Lane(c)] \in Seq(Calls) /\ waiters[Lane(c)] # <<>>
    BY <1>2, <2>1
  <2>3. Head(waiters[Lane(c)]) \in Calls /\ Tail(waiters[Lane(c)]) \in Seq(Calls)
    BY <2>2
  <2>4. /\ state' = [state EXCEPT ![c] = "ended",
                                  ![Head(waiters[Lane(c)])] = "running"]
        /\ holder' = [holder EXCEPT ![Lane(c)] = Head(waiters[Lane(c)])]
        /\ waiters' = [waiters EXCEPT ![Lane(c)] = Tail(waiters[Lane(c)])]
    BY <1>2 DEF ReleaseLane
  <2> QED BY <2>1, <2>3, <2>4
<1> QED BY <1>1, <1>2

LEMMA ExecType ==
  ASSUME LanesTypeOK, NEW c \in Calls, LaneExec(c)
  PROVE  LanesTypeOK'
<1> USE DEF LanesTypeOK, Live
<1>1. CASE Lane(c) = "Immediate"
  BY <1>1 DEF LaneExec
<1>2. CASE Lane(c) # "Immediate" /\ holder[Lane(c)] = NoCall
  BY <1>2 DEF LaneExec
<1>3. CASE Lane(c) # "Immediate" /\ holder[Lane(c)] # NoCall
  <2>1. Lane(c) \in SerialLanes
    BY <1>3, LaneType DEF Lane
  <2>2. Append(waiters[Lane(c)], c) \in Seq(Calls)
    BY <2>1
  <2>3. waiters' = [waiters EXCEPT ![Lane(c)] = Append(waiters[Lane(c)], c)]
    BY <1>3 DEF LaneExec
  <2>4. waiters' \in [SerialLanes -> Seq(Calls)]
    BY <2>1, <2>2, <2>3
  <2> QED BY <1>3, <2>4 DEF LaneExec
<1> QED BY <1>1, <1>2, <1>3

LEMMA ReturnType ==
  ASSUME LanesTypeOK, NEW c \in Calls, Return(c)
  PROVE  LanesTypeOK'
<1>1. pending' \in Nat
  <2>1. CASE name[c] = "need:lease"
    BY <2>1 DEF Return, LanesTypeOK
  <2>2. CASE name[c] = "need:enqueue"
    BY <2>2 DEF Return, LanesTypeOK
  <2>3. CASE name[c] # "need:lease" /\ name[c] # "need:enqueue"
    BY <2>3 DEF Return, LanesTypeOK
  <2> QED BY <2>1, <2>2, <2>3
<1> QED BY <1>1, ReleaseType DEF Return, LanesTypeOK

\* What an interrupted waiter leaves: the queue without it.
LEMMA InterruptWaiting ==
  ASSUME LanesTypeOK, NEW c \in Calls, Interrupt(c), state[c] = "waiting",
         Lane(c) \in SerialLanes
  PROVE  \E i \in 1 .. Len(waiters[Lane(c)]) :
           /\ waiters[Lane(c)][i] = c
           /\ waiters' = [waiters EXCEPT ![Lane(c)] = DropAt(waiters[Lane(c)], i)]
BY DEF Interrupt

LEMMA InterruptType ==
  ASSUME LanesTypeOK, NEW c \in Calls, Interrupt(c),
         state[c] = "waiting" => Lane(c) \in SerialLanes
  PROVE  LanesTypeOK'
<1>1. CASE state[c] = "running"
  BY <1>1, ReleaseType DEF Interrupt, LanesTypeOK
<1>2. CASE state[c] = "waiting"
  <2>1. PICK i \in 1 .. Len(waiters[Lane(c)]) :
          waiters' = [waiters EXCEPT ![Lane(c)] = DropAt(waiters[Lane(c)], i)]
    BY <1>2, InterruptWaiting
  <2>2. DropAt(waiters[Lane(c)], i) \in Seq(Calls)
    BY <1>2, DropAtShape DEF LanesTypeOK
  <2>3. waiters' \in [SerialLanes -> Seq(Calls)]
    BY <1>2, <2>1, <2>2 DEF LanesTypeOK
  <2>4. state' \in [Calls -> {"unused", "ended"} \cup Live]
    BY <1>2 DEF Interrupt, LanesTypeOK
  <2> QED BY <1>2, <2>3, <2>4 DEF Interrupt, LanesTypeOK
<1> QED BY <1>1, <1>2 DEF Interrupt

-----------------------------------------------------------------------------
(* The inductive invariant.  LaneNeverLost says what a lane's fields say of *)
(* the calls; induction also needs the way back, from the calls to the      *)
(* lanes.                                                                   *)

WaitersHaveLanes ==
  \A c \in Calls : state[c] = "waiting" => Lane(c) \in SerialLanes

RunnersHold ==
  \A c \in Calls :
    state[c] = "running" /\ Lane(c) \in SerialLanes => holder[Lane(c)] = c

Ownership == WaitersHaveLanes /\ RunnersHold /\ LaneNeverLost

LanesInv == LanesTypeOK /\ Ownership

LEMMA SpawnOwnership ==
  ASSUME LanesInv, NEW c \in Calls, NEW n \in Names, NEW p \in Calls \cup {NoCall},
         Spawn(c, n, p)
  PROVE  Ownership'
<1> USE DEF LanesInv, Ownership, LanesTypeOK, Live
<1>1. /\ state[c] = "unused" /\ state'[c] = "spawned"
      /\ \A d \in Calls \ {c} : state'[d] = state[d] /\ name'[d] = name[d]
      /\ holder' = holder /\ waiters' = waiters
  BY DEF Spawn
<1>2. \A d \in Calls \ {c} : Lane(d)' = Lane(d)
  BY <1>1 DEF Lane
<1>3. WaitersHaveLanes'
  BY <1>1, <1>2 DEF WaitersHaveLanes
<1>4. RunnersHold'
  BY <1>1, <1>2 DEF RunnersHold
<1>5. ASSUME NEW l \in SerialLanes
      PROVE  /\ holder[l] # c
             /\ \A i \in 1 .. Len(waiters[l]) : waiters[l][i] \in Calls \ {c}
  BY <1>1, LanesAssumption DEF LaneNeverLost
<1>6. LaneNeverLost'
  BY <1>1, <1>2, <1>5 DEF LaneNeverLost
<1> QED BY <1>3, <1>4, <1>6

LEMMA ExecOwnership ==
  ASSUME LanesInv, NEW c \in Calls, LaneExec(c)
  PROVE  Ownership'
<1> USE DEF LanesInv, Ownership, LanesTypeOK, Live
<1> DEFINE L == Lane(c)
<1>1. /\ state[c] = "spawned" /\ \A d \in Calls \ {c} : state'[d] = state[d]
      /\ \A d \in Calls : Lane(d)' = Lane(d)
      /\ name' = name
  BY DEF LaneExec, Lane
<1>2. ASSUME NEW l \in SerialLanes
      PROVE  /\ holder[l] # c
             /\ \A i \in 1 .. Len(waiters[l]) : waiters[l][i] \in Calls \ {c}
  BY <1>1, LanesAssumption DEF LaneNeverLost
<1>3. CASE L = "Immediate"
  <2>1. state'[c] = "running" /\ holder' = holder /\ waiters' = waiters
    BY <1>3 DEF LaneExec
  <2>2. L \notin SerialLanes
    BY <1>3 DEF SerialLanes
  <2>3. WaitersHaveLanes' /\ RunnersHold'
    BY <1>1, <2>1, <2>2 DEF WaitersHaveLanes, RunnersHold
  <2>4. LaneNeverLost'
    BY <1>1, <1>2, <2>1 DEF LaneNeverLost
  <2> QED BY <2>3, <2>4
<1>4. CASE L # "Immediate" /\ holder[L] = NoCall
  <2>1. L \in SerialLanes
    BY <1>4, LaneType DEF Lane
  <2>2. state'[c] = "running" /\ holder' = [holder EXCEPT ![L] = c] /\ waiters' = waiters
    BY <1>4 DEF LaneExec
  <2>3. WaitersHaveLanes'
    BY <1>1, <2>2 DEF WaitersHaveLanes
  <2>4. \A d \in Calls : state[d] = "running" => Lane(d) # L
    BY <1>4, <2>1, LanesAssumption DEF RunnersHold
  <2>5. RunnersHold'
    BY <1>1, <2>1, <2>2, <2>4 DEF RunnersHold
  <2>6. LaneNeverLost'
    BY <1>1, <1>2, <2>1, <2>2, LanesAssumption DEF LaneNeverLost
  <2> QED BY <2>3, <2>5, <2>6
<1>5. CASE L # "Immediate" /\ holder[L] # NoCall
  <2>1. L \in SerialLanes
    BY <1>5, LaneType DEF Lane
  <2>2. /\ state'[c] = "waiting" /\ holder' = holder
        /\ waiters' = [waiters EXCEPT ![L] = Append(waiters[L], c)]
    BY <1>5 DEF LaneExec
  <2>3. WaitersHaveLanes' /\ RunnersHold'
    BY <1>1, <2>1, <2>2 DEF WaitersHaveLanes, RunnersHold
  <2>4. ASSUME NEW l \in SerialLanes, l # L
        PROVE  waiters'[l] = waiters[l]
    BY <2>2, <2>4
  <2>5. /\ waiters[L] \in Seq(Calls)
        /\ waiters'[L] = Append(waiters[L], c)
        /\ Len(waiters'[L]) = Len(waiters[L]) + 1
        /\ waiters'[L][Len(waiters[L]) + 1] = c
        /\ \A i \in 1 .. Len(waiters[L]) : waiters'[L][i] = waiters[L][i]
    BY <2>1, <2>2
  <2>6. ASSUME NEW l \in SerialLanes
        PROVE  /\ holder'[l] # NoCall => state'[holder'[l]] = "running"
                                         /\ Lane(holder'[l]) = l
               /\ holder'[l] = NoCall => waiters'[l] = <<>>
    BY <1>1, <1>2, <1>5, <2>2, <2>4 DEF LaneNeverLost
  <2>7. ASSUME NEW l \in SerialLanes, NEW i \in 1 .. Len(waiters'[l])
        PROVE  /\ state'[waiters'[l][i]] = "waiting" /\ Lane(waiters'[l][i]) = l
               /\ \A j \in 1 .. Len(waiters'[l]) :
                    waiters'[l][i] = waiters'[l][j] => i = j
    <3>1. CASE l # L
      <4>1. waiters'[l] = waiters[l] /\ i \in 1 .. Len(waiters[l])
        BY <2>4, <3>1
      <4>2. waiters[l][i] \in Calls \ {c}
        BY <1>2, <4>1
      <4>3. /\ state[waiters[l][i]] = "waiting" /\ Lane(waiters[l][i]) = l
            /\ \A j \in 1 .. Len(waiters[l]) : waiters[l][i] = waiters[l][j] => i = j
        BY <4>1 DEF LaneNeverLost
      <4> QED BY <1>1, <4>1, <4>2, <4>3
    <3>2. CASE l = L
      <4>1. CASE i = Len(waiters[L]) + 1
        BY <1>1, <1>2, <2>1, <2>2, <2>5, <3>2, <4>1
      <4>2. CASE i # Len(waiters[L]) + 1
        <5>1. i \in 1 .. Len(waiters[L])
          BY <2>1, <2>5, <3>2, <4>2
        <5>2. waiters'[L][i] = waiters[L][i] /\ waiters[L][i] \in Calls \ {c}
          BY <1>2, <2>1, <2>5, <5>1
        <5>3. /\ state[waiters[L][i]] = "waiting" /\ Lane(waiters[L][i]) = L
              /\ \A j \in 1 .. Len(waiters[L]) : waiters[L][i] = waiters[L][j] => i = j
          BY <2>1, <5>1 DEF LaneNeverLost
        <5>4. ASSUME NEW j \in 1 .. Len(waiters'[L]), waiters'[L][i] = waiters'[L][j]
              PROVE  i = j
          <6>1. j # Len(waiters[L]) + 1
            BY <2>5, <5>2, <5>4
          <6>2. j \in 1 .. Len(waiters[L])
            BY <2>1, <2>5, <6>1
          <6> QED BY <2>5, <5>2, <5>3, <5>4, <6>2
        <5> QED
          BY <1>1, <3>2, <5>2, <5>3, <5>4
      <4> QED BY <4>1, <4>2
    <3> QED BY <3>1, <3>2
  <2>8. LaneNeverLost'
    BY <1>1, <2>6, <2>7 DEF LaneNeverLost, Lane
  <2> QED BY <2>3, <2>8
<1> QED BY <1>3, <1>4, <1>5

\* Dropping the guard of a running call, or having none.
LEMMA ReleaseOwnership ==
  ASSUME LanesInv, NEW c \in Calls, state[c] = "running", ReleaseLane(c), name' = name
  PROVE  Ownership'
<1> USE DEF LanesInv, Ownership, LanesTypeOK, Live
<1> DEFINE L == Lane(c)
<1>1. \A d : Lane(d)' = Lane(d)
  BY DEF Lane
<1>2. ASSUME NEW l \in SerialLanes, NEW i \in 1 .. Len(waiters[l])
      PROVE  /\ waiters[l][i] \in Calls \ {c}
             /\ state[waiters[l][i]] = "waiting" /\ Lane(waiters[l][i]) = l
             /\ \A j \in 1 .. Len(waiters[l]) : waiters[l][i] = waiters[l][j] => i = j
  BY DEF LaneNeverLost
<1>3. ASSUME NEW l \in SerialLanes, l # L PROVE holder[l] # c
  BY <1>3, LanesAssumption DEF LaneNeverLost
<1>4. CASE L = "Immediate" \/ waiters[L] = <<>>
  <2>1. /\ state' = [state EXCEPT ![c] = "ended"]
        /\ holder' = [l \in SerialLanes |-> IF l = L THEN NoCall ELSE holder[l]]
        /\ waiters' = waiters
    BY <1>4 DEF ReleaseLane
  <2>2. WaitersHaveLanes'
    BY <1>1, <2>1 DEF WaitersHaveLanes
  <2>3. ASSUME NEW d \in Calls, state'[d] = "running", Lane(d) \in SerialLanes
        PROVE  holder'[Lane(d)] = d
    <3>1. d # c /\ holder[Lane(d)] = d
      BY <2>1, <2>3 DEF RunnersHold
    <3>2. L \in SerialLanes => holder[L] = c
      BY DEF RunnersHold
    <3> QED BY <2>1, <2>3, <3>1, <3>2
  <2>4. RunnersHold'
    BY <1>1, <2>3 DEF RunnersHold
  <2>5. ASSUME NEW l \in SerialLanes
        PROVE  /\ holder'[l] # NoCall => /\ state'[holder'[l]] = "running"
                                         /\ Lane(holder'[l]) = l
               /\ holder'[l] = NoCall => waiters'[l] = <<>>
    <3>1. CASE l = L
      <4>1. L # "Immediate"
        BY <3>1 DEF SerialLanes
      <4> QED BY <1>4, <2>1, <3>1, <4>1
    <3>2. CASE l # L
      <4>1. holder'[l] = holder[l] /\ holder[l] # c
        BY <1>3, <2>1, <3>2
      <4> QED BY <2>1, <4>1 DEF LaneNeverLost
    <3> QED BY <3>1, <3>2
  <2>6. LaneNeverLost'
    BY <1>1, <1>2, <2>1, <2>5 DEF LaneNeverLost
  <2> QED BY <2>2, <2>4, <2>6
<1>5. CASE ~(L = "Immediate" \/ waiters[L] = <<>>)
  <2> DEFINE n == Head(waiters[L])
  <2>1. L \in SerialLanes
    BY <1>5, LaneType DEF Lane
  <2>2. /\ waiters[L] \in Seq(Calls) /\ waiters[L] # <<>>
        /\ 1 \in 1 .. Len(waiters[L]) /\ n = waiters[L][1]
    BY <1>5, <2>1
  <2>3. /\ n \in Calls \ {c} /\ state[n] = "waiting" /\ Lane(n) = L
        /\ \A j \in 1 .. Len(waiters[L]) : waiters[L][j] = n => j = 1
    BY <1>2, <2>1, <2>2
  <2>4. /\ state' = [state EXCEPT ![c] = "ended", ![n] = "running"]
        /\ holder' = [holder EXCEPT ![L] = n]
        /\ waiters' = [waiters EXCEPT ![L] = Tail(waiters[L])]
    BY <1>5 DEF ReleaseLane
  <2>5. /\ state'[c] = "ended" /\ state'[n] = "running"
        /\ \A d \in Calls \ {c, n} : state'[d] = state[d]
    BY <2>3, <2>4
  <2>6. WaitersHaveLanes'
    BY <1>1, <2>5 DEF WaitersHaveLanes
  <2>7. ASSUME NEW d \in Calls, state'[d] = "running", Lane(d) \in SerialLanes
        PROVE  holder'[Lane(d)] = d
    <3>1. CASE d = n
      BY <2>1, <2>3, <2>4, <3>1
    <3>2. CASE d # n
      <4>1. d # c /\ state[d] = "running"
        BY <2>5, <2>7, <3>2
      <4>2. holder[Lane(d)] = d /\ holder[L] = c
        BY <2>1, <2>7, <4>1 DEF RunnersHold
      <4> QED BY <2>4, <4>1, <4>2
    <3> QED BY <3>1, <3>2
  <2>8. RunnersHold'
    BY <1>1, <2>7 DEF RunnersHold
  <2>9. ASSUME NEW l \in SerialLanes
        PROVE  /\ holder'[l] # NoCall => /\ state'[holder'[l]] = "running"
                                         /\ Lane(holder'[l]) = l
               /\ holder'[l] = NoCall => waiters'[l] = <<>>
    <3>1. CASE l = L
      BY <2>1, <2>3, <2>4, <2>5, <3>1, LanesAssumption
    <3>2. CASE l # L
      <4>1. holder'[l] = holder[l] /\ waiters'[l] = waiters[l]
        BY <2>4, <3>2
      <4>2. holder[l] # NoCall => /\ state[holder[l]] = "running"
                                  /\ Lane(holder[l]) = l /\ holder[l] \in Calls
        BY DEF LaneNeverLost
      <4>3. holder[l] # c
        BY <1>3, <3>2, <4>2, LanesAssumption
      <4>4. holder[l] # n
        BY <2>3, <4>2, LanesAssumption
      <4>5. holder[l] = NoCall => waiters[l] = <<>>
        BY DEF LaneNeverLost
      <4>6. holder[l] # NoCall => state'[holder[l]] = "running"
        BY <2>5, <4>2, <4>3, <4>4
      <4> QED BY <4>1, <4>2, <4>5, <4>6
    <3> QED BY <3>1, <3>2
  <2>10. ASSUME NEW l \in SerialLanes, NEW i \in 1 .. Len(waiters'[l])
         PROVE  /\ state'[waiters'[l][i]] = "waiting" /\ Lane(waiters'[l][i]) = l
                /\ \A j \in 1 .. Len(waiters'[l]) :
                     waiters'[l][i] = waiters'[l][j] => i = j
    <3>1. CASE l = L
      <4>1. waiters'[L] = Tail(waiters[L])
        BY <2>1, <2>4
      <4>2. /\ Len(waiters'[L]) = Len(waiters[L]) - 1
            /\ \A j \in 1 .. Len(waiters[L]) - 1 :
                 j + 1 \in 1 .. Len(waiters[L]) /\ waiters'[L][j] = waiters[L][j + 1]
        BY <2>2, <4>1
      <4>3. /\ i \in 1 .. Len(waiters[L]) - 1 /\ i + 1 \in 1 .. Len(waiters[L])
            /\ waiters'[L][i] = waiters[L][i + 1] /\ i + 1 # 1
        BY <3>1, <4>2
      <4>4. /\ waiters[L][i + 1] \in Calls \ {c, n}
            /\ state[waiters[L][i + 1]] = "waiting" /\ Lane(waiters[L][i + 1]) = L
        BY <1>2, <2>1, <2>3, <4>3
      <4>5. ASSUME NEW j \in 1 .. Len(waiters'[L]), waiters'[L][i] = waiters'[L][j]
            PROVE  i = j
        <5>1. j + 1 \in 1 .. Len(waiters[L]) /\ waiters'[L][j] = waiters[L][j + 1]
          BY <4>2
        <5>2. waiters[L][i + 1] = waiters[L][j + 1]
          BY <4>3, <4>5, <5>1
        <5>3. \A p, q \in 1 .. Len(waiters[L]) :
                waiters[L][p] = waiters[L][q] => p = q
          BY <2>1 DEF LaneNeverLost
        <5>4. i + 1 = j + 1
          BY <4>3, <5>1, <5>2, <5>3
        <5> QED BY <4>3, <5>1, <5>4
      <4> QED BY <2>5, <3>1, <4>3, <4>4, <4>5
    <3>2. CASE l # L
      <4>1. waiters'[l] = waiters[l] /\ i \in 1 .. Len(waiters[l])
        BY <2>4, <3>2
      <4>2. waiters[l][i] \in Calls \ {c, n}
        BY <1>2, <2>3, <3>2, <4>1
      <4> QED BY <1>2, <2>5, <4>1, <4>2
    <3> QED BY <3>1, <3>2
  <2>11. LaneNeverLost'
    BY <1>1, <2>9, <2>10 DEF LaneNeverLost, Lane
  <2> QED BY <2>6, <2>8, <2>11
<1> QED BY <1>4, <1>5

\* Leaving the queue of a lane: the others keep their order.
LEMMA LeaveOwnership ==
  ASSUME LanesInv, NEW c \in Calls, state[c] = "waiting", Interrupt(c)
  PROVE  Ownership'
<1> USE DEF LanesInv, Ownership, LanesTypeOK, Live
<1> DEFINE L == Lane(c)
<1>1. /\ name' = name /\ holder' = holder
      /\ state' = [state EXCEPT ![c] = "ended"]
      /\ L \in SerialLanes
  BY DEF Interrupt, WaitersHaveLanes
<1>2. \A d : Lane(d)' = Lane(d)
  BY <1>1 DEF Lane
<1>3. ASSUME NEW l \in SerialLanes, NEW i \in 1 .. Len(waiters[l])
      PROVE  /\ waiters[l][i] \in Calls
             /\ state[waiters[l][i]] = "waiting" /\ Lane(waiters[l][i]) = l
             /\ \A j \in 1 .. Len(waiters[l]) : waiters[l][i] = waiters[l][j] => i = j
  BY DEF LaneNeverLost
<1>4. PICK k \in 1 .. Len(waiters[L]) :
        /\ waiters[L][k] = c
        /\ waiters' = [waiters EXCEPT ![L] = DropAt(waiters[L], k)]
  BY <1>1, InterruptWaiting
<1>5. /\ waiters[L] \in Seq(Calls)
      /\ waiters'[L] = DropAt(waiters[L], k)
      /\ \A l \in SerialLanes \ {L} : waiters'[l] = waiters[l]
  BY <1>1, <1>4
<1>6. /\ Len(waiters'[L]) = Len(waiters[L]) - 1
      /\ \A j \in 1 .. Len(waiters[L]) - 1 :
           waiters'[L][j] = IF j < k THEN waiters[L][j] ELSE waiters[L][j + 1]
  BY <1>5, DropAtShape
<1>7. WaitersHaveLanes' /\ RunnersHold'
  BY <1>1, <1>2 DEF WaitersHaveLanes, RunnersHold
<1>8. ASSUME NEW l \in SerialLanes
      PROVE  /\ holder[l] # NoCall => state'[holder[l]] = "running" /\ Lane(holder[l]) = l
             /\ holder[l] = NoCall => waiters'[l] = <<>>
  <2>1. holder[L] # NoCall
    BY <1>1, <1>4, <1>5 DEF LaneNeverLost
  <2>2. holder[l] # c
    BY LanesAssumption DEF LaneNeverLost
  <2> QED BY <1>1, <1>5, <2>1, <2>2 DEF LaneNeverLost
<1>9. ASSUME NEW l \in SerialLanes, NEW i \in 1 .. Len(waiters'[l])
      PROVE  /\ state'[waiters'[l][i]] = "waiting" /\ Lane(waiters'[l][i]) = l
             /\ \A j \in 1 .. Len(waiters'[l]) : waiters'[l][i] = waiters'[l][j] => i = j
  <2>1. CASE l # L
    <3>1. waiters'[l] = waiters[l] /\ i \in 1 .. Len(waiters[l])
      BY <1>5, <2>1
    <3>2. waiters[l][i] # c
      BY <1>3, <2>1, <3>1
    <3> QED BY <1>1, <1>3, <3>1, <3>2
  <2>2. CASE l = L
    <3> DEFINE Old(j) == IF j < k THEN j ELSE j + 1
    <3>1. ASSUME NEW j \in 1 .. Len(waiters'[L])
          PROVE  /\ Old(j) \in 1 .. Len(waiters[L]) /\ Old(j) # k
                 /\ waiters'[L][j] = waiters[L][Old(j)]
      BY <1>5, <1>6
    <3>2. ASSUME NEW j \in 1 .. Len(waiters'[L]), Old(i) = Old(j)
          PROVE  i = j
      BY <1>5, <1>6, <2>2, <3>2
    <3> HIDE DEF Old
    <3>3. Old(i) \in 1 .. Len(waiters[L]) /\ Old(i) # k
          /\ waiters'[L][i] = waiters[L][Old(i)]
      BY <2>2, <3>1
    <3>4. /\ waiters[L][Old(i)] \in Calls \ {c}
          /\ state[waiters[L][Old(i)]] = "waiting" /\ Lane(waiters[L][Old(i)]) = L
      BY <1>1, <1>3, <1>4, <3>3
    <3>5. ASSUME NEW j \in 1 .. Len(waiters'[L]), waiters'[L][i] = waiters'[L][j]
          PROVE  i = j
      <4>1. \A p, q \in 1 .. Len(waiters[L]) :
              waiters[L][p] = waiters[L][q] => p = q
        BY <1>1 DEF LaneNeverLost
      <4>2. Old(j) \in 1 .. Len(waiters[L]) /\ waiters'[L][j] = waiters[L][Old(j)]
        BY <3>1
      <4>3. waiters[L][Old(i)] = waiters[L][Old(j)]
        BY <3>3, <3>5, <4>2
      <4>4. Old(i) = Old(j)
        BY <3>3, <4>1, <4>2, <4>3
      <4> QED BY <3>2, <4>4
    <3> QED BY <1>1, <2>2, <3>3, <3>4, <3>5
  <2> QED BY <2>1, <2>2
<1>10. LaneNeverLost'
  BY <1>1, <1>8, <1>9 DEF LaneNeverLost, Lane
<1> QED BY <1>7, <1>10

-----------------------------------------------------------------------------
(* The theorems.                                                           *)

LEMMA LanesInvariant == LanesSpec => []LanesInv
<1>1. LanesInit => LanesInv
  BY LanesAssumption
  DEF LanesInit, LanesInv, LanesTypeOK, Names, NeedNames, RoomNames, Ownership,
      WaitersHaveLanes, RunnersHold, LaneNeverLost
<1>2. LanesInv /\ [LanesNext]_lanesVars => LanesInv'
  <2> SUFFICES ASSUME LanesInv, [LanesNext]_lanesVars PROVE LanesTypeOK' /\ Ownership'
    BY DEF LanesInv
  <2>1. ASSUME NEW c \in Calls, NEW n \in Names, NEW p \in Calls \cup {NoCall},
               Spawn(c, n, p)
        PROVE  LanesTypeOK' /\ Ownership'
    BY <2>1, SpawnType, SpawnOwnership DEF LanesInv
  <2>2. ASSUME NEW c \in Calls, LaneExec(c) PROVE LanesTypeOK' /\ Ownership'
    BY <2>2, ExecType, ExecOwnership DEF LanesInv
  <2>3. ASSUME NEW c \in Calls, Return(c) PROVE LanesTypeOK' /\ Ownership'
    <3>1. state[c] = "running" /\ ReleaseLane(c) /\ name' = name
      BY <2>3 DEF Return
    <3> QED BY <2>3, <3>1, ReturnType, ReleaseOwnership DEF LanesInv
  <2>4. ASSUME NEW c \in Calls, Interrupt(c) PROVE LanesTypeOK' /\ Ownership'
    <3>1. state[c] = "waiting" => Lane(c) \in SerialLanes
      BY DEF LanesInv, Ownership, WaitersHaveLanes
    <3>2. LanesTypeOK'
      BY <2>4, <3>1, InterruptType DEF LanesInv
    <3>3. CASE state[c] = "running"
      <4>1. ReleaseLane(c) /\ name' = name
        BY <2>4, <3>3 DEF Interrupt
      <4> QED BY <3>2, <3>3, <4>1, ReleaseOwnership
    <3>4. CASE state[c] = "waiting"
      BY <2>4, <3>2, <3>4, LeaveOwnership
    <3> QED BY <2>4, <3>3, <3>4 DEF Interrupt
  <2>5. UNCHANGED lanesVars => LanesTypeOK' /\ Ownership'
    BY DEF lanesVars, LanesInv, LanesTypeOK, Ownership, WaitersHaveLanes, RunnersHold,
           LaneNeverLost, Lane
  <2> QED BY <2>1, <2>2, <2>3, <2>4, <2>5, LanesNextCases
<1> QED BY <1>1, <1>2, PTL DEF LanesSpec

\* Every reachable state is well typed; the count of pending needs never goes
\* below zero.
THEOREM LanesTypeCorrect == LanesSpec => []LanesTypeOK
BY LanesInvariant, PTL DEF LanesInv

\* Handlers of one serial lane never overlap, however calls nest and whenever
\* they are cancelled or time out.
THEOREM LanesExclusive == LanesSpec => []LaneExclusive
<1>1. LanesInv => LaneExclusive
  BY DEF LanesInv, Ownership, RunnersHold, LaneExclusive
<1> QED BY <1>1, LanesInvariant, PTL

\* A lane is held by a call that runs in it, its queue holds each waiting call
\* once, and it is never idle while somebody waits.
THEOREM LanesNeverLost == LanesSpec => []LaneNeverLost
BY LanesInvariant, PTL DEF LanesInv, Ownership
=============================================================================
