--------------------------- MODULE UartLinkProofs ---------------------------
(***************************************************************************)
(* Proofs about UartLink, for every number of frames, pieces, sequence     *)
(* numbers and results, and every rate of injected failures: LinkInv is    *)
(* inductive, and the link implements FrameStream.                         *)
(***************************************************************************)
EXTENDS UartLink, SequenceTheorems, TLAPS

\* Sequence numbers stay within their type.
LEMMA SequenceRange ==
  ASSUME NEW n \in 0 .. SEQUENCES - 1
  PROVE  NextSequence(n) \in 0 .. SEQUENCES - 1
BY LinkAssumption DEF NextSequence

\* The two modules agree on the next sequence number.
LEMMA SameSuccession ==
  ASSUME NEW n
  PROVE  Stream!NextSequence(n) = NextSequence(n)
BY DEF NextSequence, Stream!NextSequence

\* Types once telemetry_task has started.
LEMMA TypeInit == Init => TypeOK
<1>1. NoFrame \in Frames
  BY LinkAssumption DEF NoFrame, Frames
<1>2. <<>> \in Seq(Frames) /\ Len(<<>>) = 0
  BY EmptySeq
<1>. SUFFICES ASSUME Init
             PROVE  TypeOK
  OBVIOUS
<1>3. /\ frame \in 0 .. FRAMES - 1 /\ sequence \in 0 .. SEQUENCES - 1
      /\ telemetry_result \in Nat /\ frames_attempted \in Nat
      /\ notified \in Nat
  BY LinkAssumption DEF Init
<1>4. /\ handedOver \subseteq 0 .. FRAMES - 1
      /\ sticky_status \subseteq {"UART_BACKPRESSURE", "FAULT_INJECTED"}
  BY DEF Init
<1>5. /\ telemetry_frame \in Frames /\ accepted \in Frames
      /\ delivered \in Frames
  BY <1>1 DEF Init
<1>6. sent \in Seq(Frames) /\ Len(sent) <= PIECES
  BY <1>2, LinkAssumption DEF Init
<1>7. /\ pc = "delay" /\ completed = FALSE /\ voted = FALSE
      /\ uart_waiter = FALSE /\ gState = "READY" /\ torn = FALSE
  BY DEF Init
<1>. QED
  BY <1>3, <1>4, <1>5, <1>6, <1>7 DEF TypeOK

\* Reading a piece of the buffer.
LEMMA Reading ==
  ASSUME TypeOK, UartReads
  PROVE  /\ sent' \in Seq(Frames)
         /\ Len(sent) \in Nat
         /\ Len(sent') = Len(sent) + 1
         /\ Len(sent') <= PIECES
         /\ \A i \in 1 .. Len(sent') :
              sent'[i] = IF i = Len(sent) + 1 THEN telemetry_frame
                                              ELSE sent[i]
BY AppendProperties, LenProperties, LinkAssumption DEF TypeOK, UartReads

\* A whole transfer has a first piece, and all the others equal it.
LEMMA Completing ==
  ASSUME TypeOK, UartCompletes
  PROVE  /\ Len(sent) = PIECES /\ 1 \in 1 .. Len(sent)
         /\ sent[1] \in Frames
         /\ \/ delivered' = delivered
            \/ delivered' = sent[1]
         /\ ~torn' => delivered' = accepted
<1>1. Len(sent) = PIECES /\ 1 \in 1 .. Len(sent)
  BY LinkAssumption DEF UartCompletes
<1>2. sent[1] \in Frames
  BY <1>1 DEF TypeOK
<1>3. delivered' = delivered \/ delivered' = sent[1]
  BY DEF UartCompletes
<1>4. ~torn' => \A i \in 1 .. PIECES : sent[i] = accepted
  BY DEF UartCompletes, TypeOK
<1>5. ~torn' => delivered' = accepted
  BY <1>1, <1>4 DEF UartCompletes
<1>. QED
  BY <1>1, <1>2, <1>3, <1>5

\* Every step preserves the types.
LEMMA TypeStep ==
  ASSUME TypeOK, WaiterInv, [Next]_vars
  PROVE  TypeOK'
<1>. USE LinkAssumption DEF TypeOK
<1>1. CASE TelReceive
  <2>1. /\ pc' = "encode" /\ telemetry_result' \in Nat /\ voted' = FALSE
        /\ frame' \in 0 .. FRAMES - 1 /\ handedOver' = {}
        /\ UNCHANGED <<sequence, frames_attempted, telemetry_frame, completed,
                       sticky_status, uart_waiter, notified, gState, sent,
                       accepted, torn, delivered>>
    BY <1>1 DEF TelReceive, halVars
  <2>. QED
    BY <2>1
<1>2. CASE TelNoResult \/ UNCHANGED vars
  BY <1>2, ZenonT(60) DEF TelNoResult, vars, taskVars, halVars, history
<1>3. CASE TelEncode
  BY <1>3, SMTT(60) DEF TelEncode, Encode, halVars, history, Frames
<1>4. CASE TelInjectFailure
  <2>1. /\ pc' = "delay" /\ telemetry_frame' \in Frames
        /\ frames_attempted' \in Nat
        /\ UNCHANGED <<telemetry_result, frame, sequence, completed, voted,
                       uart_waiter, notified, gState, sent, handedOver,
                       accepted, torn, delivered>>
    BY <1>4, SMTT(60) DEF TelInjectFailure, Encode, halVars, history, Frames
  <2>2. sticky_status' \subseteq {"UART_BACKPRESSURE", "FAULT_INJECTED"}
    BY <1>4 DEF TelInjectFailure
  <2>. QED
    BY <2>1, <2>2
<1>5. CASE TelRegister
  BY <1>5 DEF TelRegister, RegisterWaiter, history
<1>6. CASE TelTransmit
  BY <1>6, EmptySeq DEF TelTransmit
<1>7. CASE TelBusy
  BY <1>7 DEF TelBusy, GiveUp, history
<1>8. CASE TelNotified
  BY <1>8 DEF TelNotified, history
<1>9. CASE TelTimeout
  BY <1>9 DEF TelTimeout, halVars, history
<1>10. CASE TelUnregister
  BY <1>10 DEF TelUnregister, history
<1>11. CASE TelAbort
  BY <1>11, EmptySeq DEF TelAbort, GiveUp, history
<1>12. CASE TelNextFrame
  <2>1. /\ pc' \in {"encode", "delay"} /\ voted' \in BOOLEAN
        /\ sequence' \in 0 .. SEQUENCES - 1
        /\ UNCHANGED <<telemetry_result, frames_attempted, telemetry_frame,
                       completed, sticky_status, uart_waiter, notified, gState,
                       sent, handedOver, accepted, torn, delivered>>
    BY <1>12, SequenceRange DEF TelNextFrame, halVars, history
  <2>2. frame' \in 0 .. FRAMES - 1
    BY <1>12 DEF TelNextFrame, LastFrame, Increment
  <2>. QED
    BY <2>1, <2>2
<1>13. CASE UartReads
  BY <1>13, Reading DEF UartReads, taskVars, history
<1>14. CASE UartCompletes
  BY <1>14, Completing DEF UartCompletes, taskVars
<1>. QED
  BY <1>1, <1>2, <1>3, <1>4, <1>5, <1>6, <1>7, <1>8, <1>9, <1>10, <1>11,
     <1>12, <1>13, <1>14
     DEF Next, Telemetry, Uart

-----------------------------------------------------------------------------
\* Every step keeps the waiter registered while it waits, and votes earned.
LEMMA WaiterInvStep ==
  ASSUME TypeOK, WaiterInv, CompletionWakes, VoteMeansHandedOver, [Next]_vars
  PROVE  WaiterInv' /\ CompletionWakes' /\ VoteMeansHandedOver'
<1>. USE LinkAssumption
         DEF TypeOK, WaiterInv, CompletionWakes, VoteMeansHandedOver,
             InTransfer
<1>1. CASE TelReceive
  BY <1>1 DEF TelReceive, halVars
<1>2. CASE TelNoResult \/ UNCHANGED vars
  BY <1>2 DEF TelNoResult, vars, taskVars, halVars, history
<1>3. CASE TelEncode
  BY <1>3 DEF TelEncode, Encode, halVars, history
<1>4. CASE TelInjectFailure
  BY <1>4 DEF TelInjectFailure, Encode, halVars, history
<1>5. CASE TelRegister
  BY <1>5 DEF TelRegister, RegisterWaiter, history
<1>6. CASE TelTransmit
  BY <1>6 DEF TelTransmit
<1>7. CASE TelBusy
  BY <1>7 DEF TelBusy, GiveUp, history
<1>8. CASE TelNotified
  BY <1>8 DEF TelNotified, history
<1>9. CASE TelTimeout
  BY <1>9 DEF TelTimeout, halVars, history
<1>10. CASE TelUnregister
  BY <1>10 DEF TelUnregister, history
<1>11. CASE TelAbort
  BY <1>11 DEF TelAbort, GiveUp, history
<1>12. CASE TelNextFrame
  BY <1>12 DEF TelNextFrame, LastFrame, Increment, halVars, history
<1>13. CASE UartReads
  BY <1>13 DEF UartReads, taskVars, history
<1>14. CASE UartCompletes
  BY <1>14 DEF UartCompletes, taskVars
<1>. QED
  BY <1>1, <1>2, <1>3, <1>4, <1>5, <1>6, <1>7, <1>8, <1>9, <1>10, <1>11,
     <1>12, <1>13, <1>14
     DEF Next, Telemetry, Uart

\* Every step keeps the buffer in step with the frame in hand.
LEMMA BufferInvStep ==
  ASSUME TypeOK, BufferInv, [Next]_vars
  PROVE  BufferInv'
<1>. USE LinkAssumption
         DEF TypeOK, BufferInv, Current, Frames, Stream!Later
<1>1. CASE TelReceive
  BY <1>1, SMTT(60) DEF TelReceive, halVars
<1>2. CASE TelNoResult \/ UNCHANGED vars
  BY <1>2 DEF TelNoResult, vars, taskVars, halVars, history
<1>3. CASE TelEncode
  BY <1>3 DEF TelEncode, Encode, halVars, history
<1>4. CASE TelInjectFailure
  BY <1>4 DEF TelInjectFailure, Encode, halVars, history
<1>5. CASE TelRegister
  BY <1>5 DEF TelRegister, history
<1>6. CASE TelTransmit
  BY <1>6 DEF TelTransmit
<1>7. CASE TelBusy
  BY <1>7 DEF TelBusy, GiveUp, history
<1>8. CASE TelNotified \/ TelTimeout \/ TelUnregister
  BY <1>8 DEF TelNotified, TelTimeout, TelUnregister, halVars, history
<1>9. CASE TelAbort
  BY <1>9 DEF TelAbort, GiveUp, history
<1>10. CASE TelNextFrame
  BY <1>10 DEF TelNextFrame, LastFrame, Increment, halVars, history
<1>11. CASE UartReads \/ UartCompletes
  BY <1>11 DEF UartReads, UartCompletes, taskVars, history
<1>. QED
  BY <1>1, <1>2, <1>3, <1>4, <1>5, <1>6, <1>7, <1>8, <1>9, <1>10, <1>11
     DEF Next, Telemetry, Uart

-----------------------------------------------------------------------------
\* "Not before" is transitive.
LEMMA NotBeforeTransitive ==
  ASSUME NEW f \in Frames, NEW g \in Frames, NEW h \in Frames,
         NotBefore(f, g), NotBefore(g, h)
  PROVE  NotBefore(f, h)
BY DEF NotBefore, Stream!Later, Frames

\* Encoding replaces the buffer's frame by a later one.
LEMMA EncodesLater ==
  ASSUME TypeOK, BufferInv, Encode
  PROVE  NotBefore(telemetry_frame, telemetry_frame')
BY DEF Encode, BufferInv, Current, NotBefore

\* Every step keeps what is sent in order.
LEMMA OrderInvStep ==
  ASSUME TypeOK, BufferInv, OrderInv, TypeOK', [Next]_vars
  PROVE  OrderInv'
<1>. USE DEF OrderInv
<1>1. CASE TelEncode \/ TelInjectFailure
  <2>1. /\ Encode
        /\ UNCHANGED <<delivered, gState, sent>>
        /\ NotBefore(telemetry_frame, telemetry_frame')
    BY <1>1, EncodesLater
       DEF TelEncode, TelInjectFailure, Encode, halVars, history
  <2>2. /\ delivered \in Frames /\ telemetry_frame \in Frames
        /\ telemetry_frame' \in Frames
        /\ \A i \in 1 .. Len(sent) : sent[i] \in Frames
    BY DEF TypeOK
  <2>3. ASSUME NEW f \in Frames, NotBefore(f, telemetry_frame)
        PROVE  NotBefore(f, telemetry_frame')
    BY <2>1, <2>2, <2>3, NotBeforeTransitive
  <2>. QED
    BY <2>1, <2>2, <2>3 DEF NotBefore
<1>2. CASE TelTransmit
  <2>1. /\ UNCHANGED <<delivered, telemetry_frame>>
        /\ Len(sent') = 0
    BY <1>2, EmptySeq DEF TelTransmit
  <2>. QED
    BY <2>1 DEF NotBefore
<1>3. CASE TelAbort
  BY <1>3 DEF TelAbort, GiveUp, history, NotBefore
<1>4. CASE UartReads
  <2>1. /\ UNCHANGED <<delivered, telemetry_frame, gState>>
        /\ gState = "BUSY"
    BY <1>4 DEF UartReads, taskVars, history
  <2>2. \A i \in 1 .. Len(sent') :
          \/ sent'[i] = telemetry_frame
          \/ i \in 1 .. Len(sent) /\ sent'[i] = sent[i]
    BY <1>4, Reading
  <2>. QED
    BY <2>1, <2>2 DEF NotBefore
<1>5. CASE UartCompletes
  <2>1. /\ UNCHANGED telemetry_frame
        /\ gState = "BUSY" /\ gState' = "READY"
        /\ \/ delivered' = delivered
           \/ delivered' = sent[1]
        /\ 1 \in 1 .. Len(sent)
    BY <1>5, Completing DEF UartCompletes, taskVars
  <2>. QED
    BY <2>1 DEF NotBefore
<1>6. CASE UNCHANGED <<delivered, telemetry_frame, gState, sent>>
  BY <1>6 DEF NotBefore
<1>. QED
  BY <1>1, <1>2, <1>3, <1>4, <1>5, <1>6
     DEF Next, Telemetry, Uart, vars, taskVars, halVars, history, TelReceive,
         TelNoResult, TelRegister, TelBusy, GiveUp, TelNotified, TelTimeout,
         TelUnregister, TelNextFrame

-----------------------------------------------------------------------------
\* Every step keeps the sequence number at most one transfer ahead.
LEMMA SequenceInvStep ==
  ASSUME TypeOK, BufferInv, SequenceInv, [Next]_vars
  PROVE  SequenceInv'
<1>. USE DEF SequenceInv, Follows, InTransfer
<1>1. CASE TelReceive \/ TelNoResult \/ UNCHANGED vars
  BY <1>1 DEF TelReceive, TelNoResult, vars, taskVars, halVars, history
<1>2. CASE TelEncode \/ TelInjectFailure
  BY <1>2 DEF TelEncode, TelInjectFailure, Encode, halVars, history
<1>3. CASE TelRegister
  BY <1>3 DEF TelRegister, history
<1>4. CASE TelTransmit
  <2>1. accepted'.sequence = sequence
    BY <1>4 DEF TelTransmit, BufferInv, Current
  <2>. QED
    BY <1>4, <2>1 DEF TelTransmit
<1>5. CASE TelBusy
  BY <1>5 DEF TelBusy, GiveUp, history
<1>6. CASE TelNotified \/ TelTimeout \/ TelUnregister
  BY <1>6 DEF TelNotified, TelTimeout, TelUnregister, halVars, history
<1>7. CASE TelAbort
  BY <1>7 DEF TelAbort, GiveUp, history, TypeOK
<1>8. CASE TelNextFrame
  <2>1. /\ sequence' = NextSequence(sequence)
        /\ UNCHANGED <<gState, torn, delivered, accepted>>
        /\ pc = "return" /\ pc' \in {"encode", "delay"}
    BY <1>8 DEF TelNextFrame, halVars, history
  <2>. QED
    BY <2>1 DEF TypeOK
<1>9. CASE UartReads
  BY <1>9 DEF UartReads, taskVars, history
<1>10. CASE UartCompletes
  <2>1. /\ UNCHANGED <<sequence, pc, accepted>>
        /\ gState = "BUSY" /\ gState' = "READY"
        /\ ~torn' => ~torn /\ delivered' = accepted
    BY <1>10, Completing DEF UartCompletes, taskVars
  <2>. QED
    BY <2>1
<1>. QED
  BY <1>1, <1>2, <1>3, <1>4, <1>5, <1>6, <1>7, <1>8, <1>9, <1>10
     DEF Next, Telemetry, Uart

\* A successor is a frame of its own, never the empty one.
LEMMA CurrentIsFrame ==
  ASSUME TypeOK, BufferInv, pc # "delay"
  PROVE  Current \in Frames /\ Current # NoFrame
BY DEF TypeOK, BufferInv, Current, Frames, NoFrame

\* What the task goes on with after a frame that went out.
LEMMA NextOfCurrent ==
  ASSUME TypeOK, BufferInv, pc # "delay"
  PROVE  Stream!Successor(Current) =
           [sequence |-> NextSequence(sequence),
            result |-> IF LastFrame THEN telemetry_result + 1
                       ELSE telemetry_result,
            index |-> IF LastFrame THEN 0 ELSE frame + 1]
<1>1. Current # NoFrame
  BY CurrentIsFrame
<1>2. /\ Current.sequence = sequence /\ Current.result = telemetry_result
      /\ Current.index = frame
  BY DEF Current
<1>. QED
  BY <1>1, <1>2, SameSuccession DEF Stream!Successor, LastFrame

\* Every step but those that flag backpressure preserves UnflaggedInv.
LEMMA UnflaggedInvStep ==
  ASSUME TypeOK, BufferInv, WaiterInv, CompletionWakes, UnflaggedInv,
         [Next]_vars
  PROVE  UnflaggedInv'
<1>. USE DEF UnflaggedInv, InTransfer, Flagged
<1>1. CASE TelReceive
  <2>1. /\ pc = "delay" /\ pc' = "encode"
        /\ telemetry_result' = telemetry_result + 1 /\ frame' = 0
        /\ UNCHANGED <<sequence, sticky_status, torn, notified, gState,
                       delivered, accepted, telemetry_frame, sent>>
    BY <1>1 DEF TelReceive, halVars
  <2>2. Current' = [sequence |-> sequence, result |-> telemetry_result + 1,
                    index |-> 0]
    BY <2>1 DEF Current
  <2>. QED
    BY <2>1, <2>2 DEF TypeOK
<1>2. CASE TelNoResult \/ UNCHANGED vars
  BY <1>2 DEF TelNoResult, vars, taskVars, halVars, history, Current
<1>3. CASE TelEncode
  <2>1. /\ pc = "encode" /\ pc' = "register"
        /\ UNCHANGED <<sequence, telemetry_result, frame, sticky_status, torn,
                       notified, gState, delivered>>
    BY <1>3 DEF TelEncode, Encode, halVars, history
  <2>. QED
    BY <2>1 DEF Current, TypeOK
<1>4. CASE TelInjectFailure \/ TelBusy \/ TelAbort
  BY <1>4 DEF TelInjectFailure, TelBusy, TelAbort, GiveUp
<1>5. CASE TelRegister
  <2>1. /\ pc = "register" /\ pc' = "transmit"
        /\ UNCHANGED <<sequence, telemetry_result, frame, sticky_status, torn,
                       notified, gState, delivered>>
    BY <1>5 DEF TelRegister, history
  <2>. QED
    BY <2>1 DEF Current, TypeOK
<1>6. CASE TelTransmit
  <2>1. /\ pc = "transmit" /\ pc' = "wait"
        /\ gState = "READY" /\ gState' = "BUSY"
        /\ accepted' = telemetry_frame /\ Len(sent') = 0
        /\ UNCHANGED <<telemetry_frame, delivered, sticky_status, torn,
                       notified>>
    BY <1>6, EmptySeq DEF TelTransmit
  <2>2. telemetry_frame = Current
    BY <2>1 DEF BufferInv
  <2>3. ~Flagged => notified = 0
    BY <2>1 DEF TypeOK
  <2>. QED
    BY <2>1, <2>2, <2>3
<1>7. CASE TelNotified
  <2>1. /\ pc = "wait" /\ pc' = "unregister"
        /\ notified > 0 /\ notified' = 0
        /\ UNCHANGED <<telemetry_frame, delivered, sticky_status, torn,
                       gState, accepted, sent>>
    BY <1>7 DEF TelNotified, history
  <2>. QED
    BY <2>1 DEF TypeOK
<1>8. CASE TelTimeout
  <2>1. /\ pc = "wait" /\ pc' = "unregister" /\ ~completed'
        /\ UNCHANGED <<telemetry_frame, delivered, sticky_status, torn,
                       notified, gState, accepted, sent>>
    BY <1>8 DEF TelTimeout, halVars, history
  <2>. QED
    BY <2>1
<1>9. CASE TelUnregister
  <2>1. /\ pc = "unregister" /\ pc' = "return"
        /\ UNCHANGED <<telemetry_frame, delivered, sticky_status, torn,
                       completed, notified, gState, accepted, sent>>
    BY <1>9 DEF TelUnregister, history
  <2>. QED
    BY <2>1
<1>10. CASE TelNextFrame
  <2>1. /\ pc = "return" /\ completed
        /\ pc' = IF LastFrame THEN "delay" ELSE "encode"
        /\ frame' = IF LastFrame THEN frame ELSE frame + 1
        /\ sequence' = NextSequence(sequence)
        /\ UNCHANGED <<telemetry_frame, telemetry_result, delivered,
                       sticky_status, torn, notified, gState>>
    BY <1>10 DEF TelNextFrame, Increment, halVars, history
  <2>2. ~Flagged => gState = "READY" /\ delivered = Current
    BY <2>1 DEF BufferInv, TypeOK
  <2>3. /\ ~LastFrame => Current' = Stream!Successor(Current)
        /\ LastFrame => Stream!Successor(Current) =
             [sequence |-> sequence', result |-> telemetry_result' + 1,
              index |-> 0]
    BY <2>1, NextOfCurrent DEF Current
  <2>. QED
    BY <2>1, <2>2, <2>3
<1>11. CASE UartReads
  <2>1. /\ UNCHANGED <<pc, completed, telemetry_frame, delivered, sticky_status,
                       torn, notified, gState, accepted>>
        /\ gState = "BUSY"
    BY <1>11 DEF UartReads, taskVars, history
  <2>2. \A i \in 1 .. Len(sent') :
          \/ sent'[i] = telemetry_frame
          \/ i \in 1 .. Len(sent) /\ sent'[i] = sent[i]
    BY <1>11, Reading
  <2>. QED
    BY <2>1, <2>2
<1>12. CASE UartCompletes
  <2>1. /\ UNCHANGED <<pc, completed, telemetry_frame, sticky_status, accepted>>
        /\ gState = "BUSY" /\ gState' = "READY"
        /\ ~torn' => delivered' = accepted
        /\ Len(sent) = PIECES
    BY <1>12, Completing DEF UartCompletes, taskVars
  <2>2. ~Flagged => ~torn'
    BY <1>12, <2>1 DEF UartCompletes
  <2>. QED
    BY <2>1, <2>2
<1>. QED
  BY <1>1, <1>2, <1>3, <1>4, <1>5, <1>6, <1>7, <1>8, <1>9, <1>10, <1>11,
     <1>12
     DEF Next, Telemetry, Uart

-----------------------------------------------------------------------------
\* The invariant holds at the start ...
LEMMA LinkInvInit == Init => LinkInv
<1>. SUFFICES ASSUME Init
             PROVE  LinkInv
  OBVIOUS
<1>1. TypeOK
  BY TypeInit
<1>2. /\ pc = "delay" /\ telemetry_result = 0 /\ sequence = 0
      /\ telemetry_frame = NoFrame /\ delivered = NoFrame
      /\ gState = "READY" /\ notified = 0 /\ torn = FALSE /\ voted = FALSE
  BY DEF Init
<1>3. BufferInv /\ OrderInv
  BY <1>2 DEF BufferInv, OrderInv, NotBefore, NoFrame
<1>4. SequenceInv
  BY <1>2 DEF SequenceInv, Follows, InTransfer
<1>5. UnflaggedInv
  BY <1>2 DEF UnflaggedInv, InTransfer, Stream!Successor
<1>6. WaiterInv /\ CompletionWakes /\ VoteMeansHandedOver
  BY <1>2 DEF WaiterInv, CompletionWakes, VoteMeansHandedOver
<1>. QED
  BY <1>1, <1>3, <1>4, <1>5, <1>6 DEF LinkInv

\* ... and every step preserves it.
LEMMA LinkInvStep == LinkInv /\ [Next]_vars => LinkInv'
<1>. SUFFICES ASSUME LinkInv, [Next]_vars
             PROVE  LinkInv'
  OBVIOUS
<1>. USE DEF LinkInv
<1>1. TypeOK'
  BY TypeStep
<1>2. BufferInv'
  BY BufferInvStep
<1>3. OrderInv'
  BY <1>1, OrderInvStep
<1>4. SequenceInv'
  BY SequenceInvStep
<1>5. UnflaggedInv'
  BY UnflaggedInvStep
<1>6. WaiterInv' /\ CompletionWakes' /\ VoteMeansHandedOver'
  BY WaiterInvStep
<1>. QED
  BY <1>1, <1>2, <1>3, <1>4, <1>5, <1>6

\* LinkInv holds in every state of every instance of the link.
THEOREM LinkInductive == Spec => []LinkInv
BY LinkInvInit, LinkInvStep, PTL DEF Spec

\* The variables keep their types: the sequence number wraps within its width,
\* and the frame index stays within the result.
THEOREM LinkTypeCorrect == Spec => []TypeOK
<1>1. LinkInv => TypeOK
  BY DEF LinkInv
<1>. QED
  BY <1>1, LinkInductive, PTL

\* The wire carries what the HAL was given until backpressure is flagged.
THEOREM TearsAreFlagged == Spec => []TornOnlyAfterBackpressure
<1>1. LinkInv => TornOnlyAfterBackpressure
  BY DEF LinkInv, UnflaggedInv, Flagged, TornOnlyAfterBackpressure
<1>. QED
  BY <1>1, LinkInductive, PTL

\* A vote of telemetry_task is for a result the UART has taken in full.
THEOREM VotesEarned == Spec => []VoteMeansHandedOver
<1>1. LinkInv => VoteMeansHandedOver
  BY DEF LinkInv
<1>. QED
  BY <1>1, LinkInductive, PTL

\* No completion interrupt is lost on a task that waits for it.
THEOREM NoLostWakeup == Spec => []CompletionWakes
<1>1. LinkInv => CompletionWakes
  BY DEF LinkInv
<1>. QED
  BY <1>1, LinkInductive, PTL

-----------------------------------------------------------------------------
\* A transfer that ends delivers a frame, tears, or is the last one again.
LEMMA CompletionImplements ==
  ASSUME LinkInv, UartCompletes
  PROVE  \/ Stream!Deliver
         \/ Stream!Tear
         \/ UNCHANGED <<delivered, torn, Flagged>>
<1>. USE DEF LinkInv
<1>1. /\ gState = "BUSY" /\ UNCHANGED sticky_status
      /\ Len(sent) = PIECES /\ 1 \in 1 .. Len(sent)
      /\ delivered' = delivered \/ delivered' = sent[1]
      /\ ~torn' => ~torn /\ delivered' = accepted
  BY Completing DEF UartCompletes, taskVars
<1>2. delivered' = delivered \/ Stream!Later(delivered, delivered')
  BY <1>1 DEF OrderInv, NotBefore
<1>3. UNCHANGED Flagged
  BY <1>1 DEF Flagged
<1>4. CASE torn'
  <2>1. Flagged
    BY <1>1, <1>4 DEF UnflaggedInv, UartCompletes
  <2>2. torn' = TRUE
    BY <1>4, TypeStep DEF UartCompletes, TypeOK
  <2>3. Stream!Tear
    BY <1>2, <1>3, <2>1, <2>2 DEF Stream!Tear, Flagged
  <2>. QED
    BY <2>3
<1>5. CASE ~torn'
  <2>1. torn' = torn /\ ~torn /\ delivered' = accepted
    BY <1>1, <1>5 DEF UartCompletes, TypeOK
  <2>2. CASE delivered' = delivered
    BY <2>1, <2>2, <1>3
  <2>3. CASE delivered' # delivered
    <3>1. Stream!Later(delivered, delivered')
      BY <1>2, <2>3
    <3>2. ~Flagged => delivered' = Stream!Successor(delivered)
      BY <1>1, <2>1 DEF UnflaggedInv
    <3>3. delivered # NoFrame => Stream!InSequence(delivered, delivered')
      BY <1>1, <2>1, SameSuccession
         DEF SequenceInv, Follows, Stream!InSequence
    <3>. QED
      BY <3>1, <3>2, <3>3, <2>1, <1>3 DEF Stream!Deliver, Flagged
  <2>. QED
    BY <2>2, <2>3
<1>. QED
  BY <1>4, <1>5

\* Every step of the link is a step of the stream or none.
LEMMA LinkStepImplements ==
  LinkInv /\ [Next]_vars => [Stream!Next]_<<delivered, torn, Flagged>>
<1>. SUFFICES ASSUME LinkInv, [Next]_vars
             PROVE  [Stream!Next]_<<delivered, torn, Flagged>>
  OBVIOUS
<1>1. CASE UartCompletes
  BY <1>1, CompletionImplements DEF Stream!Next
<1>2. CASE TelInjectFailure \/ TelBusy \/ TelAbort
  <2>1. Flagged' = TRUE /\ UNCHANGED <<delivered, torn>>
    BY <1>2 DEF TelInjectFailure, Encode, TelBusy, TelAbort, GiveUp, history,
                Flagged
  <2>. QED
    BY <2>1 DEF Stream!Next, Stream!Flag, Flagged
<1>3. CASE UNCHANGED <<delivered, torn, sticky_status>>
  BY <1>3 DEF Flagged
<1>. QED
  BY <1>1, <1>2, <1>3
     DEF Next, Telemetry, Uart, vars, taskVars, halVars, history, TelReceive,
         TelNoResult, TelEncode, Encode, TelRegister, TelTransmit, TelNotified,
         TelTimeout, TelUnregister, TelNextFrame, UartReads

\* The link implements the abstract stream: the host may rely on FrameStream.
THEOREM LinkImplementsFrameStream == Spec => ImplementsFrameStream
<1>1. Init => Stream!Init
  BY DEF Init, Stream!Init
<1>. QED
  BY <1>1, LinkStepImplements, LinkInductive, PTL
     DEF Spec, ImplementsFrameStream, Stream!Spec, Flagged

=============================================================================
