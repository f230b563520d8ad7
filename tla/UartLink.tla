------------------------------ MODULE UartLink ------------------------------
(***************************************************************************)
(* How telemetry_task sends a result: the frames of one result go one by   *)
(* one through the single buffer telemetry_frame to the UART's DMA, which  *)
(* reads the buffer while the task waits for a notification from the       *)
(* completion interrupt, or gives up (app/tasks.c, telemetry_task, and     *)
(* platform_uart_write_dma in platform/stm32f446/board_skeleton.c).        *)
(*                                                                         *)
(* A frame is abstracted to what tells two frames apart: its sequence      *)
(* number, its result and its place in the result.  The DMA reads it in    *)
(* PIECES parts.  The HAL (HAL_UART_Transmit_DMA, HAL_UART_AbortTransmit   *)
(* and the handle's state) is external.                                    *)
(***************************************************************************)
EXTENDS Integers, Sequences

CONSTANTS
    FRAMES,        \* frames per result: channels times chunks per channel
    PIECES,        \* parts in which the DMA reads a frame
    SEQUENCES,     \* size of the sequence number's type, 2^16 in the code
    FAULT_INJECT_UART_FAIL_EVERY_N_FRAMES,      \* 0: not built in
    MaxResults     \* bound: results to send

ASSUME LinkAssumption ==
    /\ FRAMES \in Nat \ {0}
    /\ PIECES \in Nat \ {0}
    /\ SEQUENCES \in Nat \ {0, 1}
    /\ FAULT_INJECT_UART_FAIL_EVERY_N_FRAMES \in Nat
    /\ MaxResults \in Nat

VARIABLES
    (* telemetry_task *)
    pc, telemetry_result, frame, sequence, frames_attempted, telemetry_frame,
    completed,        \* what ulTaskNotifyTake returned
    sticky_status, voted,
    (* board_skeleton.c and the HAL *)
    uart_waiter,      \* the waiter is registered
    notified,         \* the task's notification value
    gState,           \* "READY" or "BUSY"
    sent,             \* the parts of the current transfer read so far
    (* history *)
    handedOver,       \* frames of this result the HAL has accepted
    accepted,         \* the frame the HAL was given for this transfer
    torn,             \* some transfer did not send what the HAL was given
    delivered         \* the last frame transmitted whole

taskVars == <<pc, telemetry_result, frame, sequence, frames_attempted,
              telemetry_frame, completed, sticky_status, voted>>
halVars == <<uart_waiter, notified, gState, sent>>
history == <<handedOver, accepted, torn, delivered>>
vars == <<taskVars, halVars, history>>

Frames == [sequence : 0 .. SEQUENCES - 1, result : Nat,
           index : 0 .. FRAMES - 1]
NoFrame == [sequence |-> 0, result |-> 0, index |-> 0]

TypeOK ==
    /\ pc \in {"delay", "encode", "register", "transmit", "wait", "unregister",
               "return"}
    /\ telemetry_result \in Nat
    /\ frame \in 0 .. FRAMES - 1
    /\ sequence \in 0 .. SEQUENCES - 1
    /\ frames_attempted \in Nat
    /\ telemetry_frame \in Frames
    /\ completed \in BOOLEAN
    /\ sticky_status \subseteq {"UART_BACKPRESSURE", "FAULT_INJECTED"}
    /\ voted \in BOOLEAN
    /\ uart_waiter \in BOOLEAN
    /\ notified \in Nat
    /\ gState \in {"READY", "BUSY"}
    /\ sent \in Seq(Frames) /\ Len(sent) <= PIECES
    /\ handedOver \subseteq 0 .. FRAMES - 1
    /\ accepted \in Frames
    /\ torn \in BOOLEAN
    /\ delivered \in Frames

Init ==
    /\ pc = "delay" /\ telemetry_result = 0 /\ frame = 0 /\ sequence = 0
    /\ frames_attempted = 0 /\ telemetry_frame = NoFrame /\ completed = FALSE
    /\ sticky_status = {} /\ voted = FALSE
    /\ uart_waiter = FALSE /\ notified = 0 /\ gState = "READY" /\ sent = <<>>
    /\ handedOver = {} /\ accepted = NoFrame /\ torn = FALSE /\ delivered = NoFrame

-----------------------------------------------------------------------------
(* telemetry_task.                                                         *)

\* vTaskDelayUntil returned and result_queue holds a result.
TelReceive ==
    /\ pc = "delay" /\ telemetry_result < MaxResults
    /\ telemetry_result' = telemetry_result + 1
    /\ frame' = 0
    /\ handedOver' = {}
    /\ voted' = FALSE
    /\ pc' = "encode"
    /\ UNCHANGED <<sequence, frames_attempted, telemetry_frame, completed,
                   sticky_status, halVars, accepted, torn, delivered>>

\* ... or it is empty: no progress, no vote.
TelNoResult == pc = "delay" /\ UNCHANGED vars

\* mutant: the failure is not reported
GiveUp_Silent == /\ pc' = "delay"
                 /\ UNCHANGED <<sequence, sticky_status>>

\* The frame failed: the result is given up (both loops end), the sequence
\* number is kept for the next frame and the task does not vote.
GiveUp == /\ sticky_status' = sticky_status \cup {"UART_BACKPRESSURE"}
          /\ pc' = "delay"
          /\ UNCHANGED sequence

InjectedFailure ==
    /\ FAULT_INJECT_UART_FAIL_EVERY_N_FRAMES > 0
    /\ (frames_attempted + 1) % FAULT_INJECT_UART_FAIL_EVERY_N_FRAMES = 0

\* telemetry_encode_spectrum_chunk; the capacity is that of the longest frame,
\* so the encoder never returns 0.
Encode ==
    /\ pc = "encode"
    /\ telemetry_frame' = [sequence |-> sequence, result |-> telemetry_result,
                           index |-> frame]
    /\ IF FAULT_INJECT_UART_FAIL_EVERY_N_FRAMES > 0
       THEN frames_attempted' = frames_attempted + 1
       ELSE UNCHANGED frames_attempted
    /\ UNCHANGED <<telemetry_result, frame, completed, voted, halVars,
                   history>>

TelEncode ==
    /\ Encode
    /\ ~InjectedFailure
    /\ pc' = "register"
    /\ UNCHANGED <<sequence, sticky_status>>

TelInjectFailure ==
    /\ Encode
    /\ InjectedFailure
    /\ sticky_status' = sticky_status
                          \cup {"FAULT_INJECTED", "UART_BACKPRESSURE"}
    /\ pc' = "delay"
    /\ UNCHANGED sequence

\* mutant: the wait never times out
TelTimeout_Never == FALSE /\ UNCHANGED vars

-----------------------------------------------------------------------------
(* platform_uart_write_dma.                                                *)

\* mutant: the waiter is left unregistered
RegisterWaiter_Forgotten == UNCHANGED uart_waiter
RegisterWaiter == uart_waiter' = TRUE

TelRegister ==
    /\ pc = "register"
    /\ RegisterWaiter
    /\ pc' = "transmit"
    /\ UNCHANGED <<telemetry_result, frame, sequence, frames_attempted,
                   telemetry_frame, completed, sticky_status, voted, notified,
                   gState, sent, history>>

TelTransmit ==
    /\ pc = "transmit" /\ gState = "READY"
    /\ gState' = "BUSY"
    /\ sent' = <<>>
    /\ handedOver' = handedOver \cup {frame}
    /\ accepted' = telemetry_frame
    /\ pc' = "wait"
    /\ UNCHANGED <<telemetry_result, frame, sequence, frames_attempted,
                   telemetry_frame, completed, sticky_status, voted,
                   uart_waiter, notified, torn, delivered>>

\* HAL_BUSY: the transfer before is still running.
TelBusy ==
    /\ pc = "transmit" /\ gState = "BUSY"
    /\ uart_waiter' = FALSE
    /\ GiveUp
    /\ UNCHANGED <<telemetry_result, frame, frames_attempted, telemetry_frame,
                   completed, voted, notified, gState, sent, history>>

TelNotified ==
    /\ pc = "wait" /\ notified > 0
    /\ notified' = 0
    /\ completed' = TRUE
    /\ pc' = "unregister"
    /\ UNCHANGED <<telemetry_result, frame, sequence, frames_attempted,
                   telemetry_frame, sticky_status, voted, uart_waiter, gState,
                   sent, history>>

\* The 8 ms are over: a slow or stopped UART, or one that ends just now.
TelTimeout ==
    /\ pc = "wait" /\ notified = 0
    /\ completed' = FALSE
    /\ pc' = "unregister"
    /\ UNCHANGED <<telemetry_result, frame, sequence, frames_attempted,
                   telemetry_frame, sticky_status, voted, halVars, history>>

TelUnregister ==
    /\ pc = "unregister"
    /\ uart_waiter' = FALSE
    /\ pc' = "return"
    /\ UNCHANGED <<telemetry_result, frame, sequence, frames_attempted,
                   telemetry_frame, completed, sticky_status, voted, notified,
                   gState, sent, history>>

\* HAL_UART_AbortTransmit cuts the transfer off, if it has not ended by itself.
TelAbort ==
    /\ pc = "return" /\ ~completed
    /\ gState' = "READY"
    /\ sent' = <<>>
    /\ GiveUp
    /\ UNCHANGED <<telemetry_result, frame, frames_attempted, telemetry_frame,
                   completed, voted, uart_waiter, notified, history>>

\* mutants: one frame too many, one too few, the same one again
LastFrame_OffByOne == frame = FRAMES
LastFrame_Early == frame = FRAMES - 2
LastFrame == frame = FRAMES - 1
Increment_Missing(index) == index
Increment(index) == index + 1

NextSequence(number) == (number + 1) % SEQUENCES

\* The frame went out: on to the next one, or the task votes.
TelNextFrame ==
    /\ pc = "return" /\ completed
    /\ sequence' = NextSequence(sequence)
    /\ IF ~LastFrame
       THEN frame' = Increment(frame) /\ pc' = "encode" /\ UNCHANGED voted
       ELSE voted' = TRUE /\ pc' = "delay" /\ UNCHANGED frame
    /\ UNCHANGED <<telemetry_result, frames_attempted, telemetry_frame,
                   completed, sticky_status, halVars, history>>

-----------------------------------------------------------------------------
(* The UART.                                                               *)

UartReads ==
    /\ gState = "BUSY" /\ Len(sent) < PIECES
    /\ sent' = Append(sent, telemetry_frame)
    /\ UNCHANGED <<taskVars, uart_waiter, notified, gState, history>>

\* The transfer ends: HAL_UART_TxCpltCallback notifies whoever is registered.
UartCompletes ==
    /\ gState = "BUSY" /\ Len(sent) = PIECES
    /\ gState' = "READY"
    /\ notified' = notified + (IF uart_waiter THEN 1 ELSE 0)
    /\ delivered' = IF \A i \in 1 .. PIECES : sent[i] = sent[1]
                    THEN sent[1] ELSE delivered
    /\ torn' = (torn \/ \E i \in 1 .. PIECES : sent[i] # accepted)
    /\ UNCHANGED <<taskVars, uart_waiter, sent, handedOver, accepted>>

-----------------------------------------------------------------------------
Telemetry ==
    \/ TelReceive \/ TelNoResult \/ TelEncode \/ TelInjectFailure
    \/ TelRegister \/ TelTransmit \/ TelBusy \/ TelNotified \/ TelTimeout
    \/ TelUnregister \/ TelAbort \/ TelNextFrame

Uart == UartReads \/ UartCompletes

Next == Telemetry \/ Uart

Spec == Init /\ [][Next]_vars

\* The task is scheduled and its delays and timeouts end; the UART may stop.
TaskSpec == Spec /\ WF_vars(Telemetry)

-----------------------------------------------------------------------------
(* Properties.                                                             *)

\* The wire carries what the HAL was given unless a status bit has said so
\* before: the task rewrites its only buffer under a running transfer
\* at most after a timeout (tasks.c:225-231, board_skeleton.c:182-186).
TornOnlyAfterBackpressure == torn => "UART_BACKPRESSURE" \in sticky_status

\* The host may take what it receives for the stream of FrameStream: exactly the
\* next frame until backpressure is flagged, in order after that, and with a gap
\* in the sequence numbers only where a transfer was torn or replaced - whatever
\* times out, is aborted or completes late (tasks.c:209-233).
Stream == INSTANCE FrameStream WITH
              last <- delivered,
              flagged <- "UART_BACKPRESSURE" \in sticky_status

ImplementsFrameStream == Stream!Spec

\* The task votes only for a result all of whose frames the UART has accepted
\* (tasks.c:208-210, 235).
VoteMeansHandedOver == voted => handedOver = 0 .. FRAMES - 1

\* Whatever the UART does the task gets out of its wait and back to its period
\* (board_skeleton.c:182-183).
TransmissionEnds == pc = "wait" ~> pc = "delay"

\* No completion is lost on a task that waits: a transfer that has ended, however
\* soon after its start, has left its notification, because the waiter is
\* registered first (board_skeleton.c:176-183, 189-197).
CompletionWakes == pc = "wait" /\ gState = "READY" => notified > 0

\* docs/timing_budget.md:27: telemetry "blocks on DMA completion", so the buffer
\* is never rewritten while the DMA reads it.  The notification of a transfer
\* that completes between the timeout and uart_waiter = NULL stays behind and
\* ends the next wait at once.
BufferStable == [][telemetry_frame' # telemetry_frame => gState = "READY"]_vars

-----------------------------------------------------------------------------
(* The inductive invariant behind the safety properties and the refinement. *)

\* The task is in its call of platform_uart_write_dma, past the HAL's start.
InTransfer == pc \in {"wait", "unregister", "return"}

Flagged == "UART_BACKPRESSURE" \in sticky_status

\* What the task encodes in its place in the result.
Current == [sequence |-> sequence, result |-> telemetry_result, index |-> frame]

\* Where the buffer stands against the frame in hand.
BufferInv ==
    /\ pc # "delay" => telemetry_result > 0
    /\ pc = "delay" => telemetry_frame.result <= telemetry_result
    /\ pc = "encode" => Stream!Later(telemetry_frame, Current)
    /\ pc \notin {"delay", "encode"} => telemetry_frame = Current

NotBefore(f, g) == f = g \/ Stream!Later(f, g)

\* The buffer is only ever rewritten with later frames, so that what a running
\* transfer has read lies between the last whole frame and the buffer.
OrderInv ==
    /\ NotBefore(delivered, telemetry_frame)
    /\ gState = "BUSY" =>
         \A i \in 1 .. Len(sent) : /\ NotBefore(delivered, sent[i])
                                   /\ NotBefore(sent[i], telemetry_frame)

Follows(number) == delivered # NoFrame =>
    number \in {delivered.sequence, NextSequence(delivered.sequence)}

\* The sequence number against the last whole frame: counted up at most once
\* per transfer, before or after the transfer ended.
SequenceInv ==
    ~torn =>
      /\ gState = "READY" /\ InTransfer => delivered.sequence = sequence
      /\ gState = "READY" /\ ~InTransfer => Follows(sequence)
      /\ gState = "BUSY" =>
           /\ Follows(accepted.sequence)
           /\ sequence = IF InTransfer THEN accepted.sequence
                         ELSE NextSequence(accepted.sequence)

\* Until backpressure is flagged nothing goes wrong: no notification is left
\* over, no transfer outlives its call, and the frames are handed on one by one.
UnflaggedInv ==
    ~Flagged =>
      /\ ~torn
      /\ notified > 0 \/ gState = "BUSY" =>
           \/ pc = "wait"
           \/ pc \in {"unregister", "return"} /\ ~completed
      /\ notified > 0 => gState = "READY"
      /\ gState = "BUSY" => /\ accepted = telemetry_frame
                            /\ telemetry_frame = Stream!Successor(delivered)
                            /\ \A i \in 1 .. Len(sent) : sent[i] = accepted
      /\ gState = "READY" =>
           /\ InTransfer => delivered = telemetry_frame
           /\ pc \in {"encode", "register", "transmit"} =>
                Current = Stream!Successor(delivered)
           /\ pc = "delay" =>
                Stream!Successor(delivered) =
                  [sequence |-> sequence, result |-> telemetry_result + 1,
                   index |-> 0]

\* The waiter is registered while it waits, and votes are earned.
WaiterInv ==
    /\ pc \in {"transmit", "wait", "unregister"} => uart_waiter
    /\ pc # "delay" =>
         /\ ~voted
         /\ handedOver = 0 .. (IF InTransfer THEN frame ELSE frame - 1)

LinkInv == /\ TypeOK /\ BufferInv /\ OrderInv /\ SequenceInv /\ UnflaggedInv
           /\ WaiterInv /\ CompletionWakes /\ VoteMeansHandedOver

=============================================================================
