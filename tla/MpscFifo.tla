------------------------------ MODULE MpscFifo ------------------------------
(***************************************************************************)
(* What base::srt_queue promises its callers: a bounded FIFO into which    *)
(* any thread may push.  A push takes its place in the order when it       *)
(* reserves a cell and becomes visible when the cell is filled; pop takes  *)
(* the oldest cell, and only once that cell is filled.                     *)
(***************************************************************************)
EXTENDS Naturals, Sequences

CONSTANTS Message,      \* what may be pushed
          Capacity      \* the most cells that may be reserved at once

VARIABLES queue,        \* sequence of [msg, ready], oldest first
          out           \* everything pop has returned, in order

fifoVars == <<queue, out>>

FifoInit == queue = <<>> /\ out = <<>>

Reserve(m) ==
    /\ Len(queue) < Capacity
    /\ queue' = Append(queue, [msg |-> m, ready |-> FALSE])
    /\ out' = out

Fill(j) ==
    /\ j \in DOMAIN queue
    /\ ~queue[j].ready
    /\ queue' = [queue EXCEPT ![j].ready = TRUE]
    /\ out' = out

Deliver ==
    /\ queue # <<>>
    /\ Head(queue).ready
    /\ out' = Append(out, Head(queue).msg)
    /\ queue' = Tail(queue)

FifoNext ==
    \/ \E m \in Message : Reserve(m)
    \/ \E j \in DOMAIN queue : Fill(j)
    \/ Deliver

FifoSpec == FifoInit /\ [][FifoNext]_fifoVars
=============================================================================
