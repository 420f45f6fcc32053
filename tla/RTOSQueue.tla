----------------------------- MODULE RTOSQueue -----------------------------
(***************************************************************************)
(* The FreeRTOS queues through which the tasks of the firmware exchange    *)
(* messages.  The queue itself is library code; the firmware always posts  *)
(* with a block time of 0 and never looks at the result, so a message that *)
(* finds the queue full is silently dropped.                               *)
(***************************************************************************)
EXTENDS Naturals, Sequences

\* xQueueSendToBack(queue, &msg, 0) on a queue created for `capacity' items.
SendToBack(queue, msg, capacity) ==
    IF Len(queue) < capacity THEN Append(queue, msg) ELSE queue

=============================================================================
