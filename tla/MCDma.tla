------------------------------- MODULE MCDma -------------------------------
(* Two tasks that want the same channel, by turns for single transfers and *)
(* for streams                                                             *)
EXTENDS Dma

(***************************************************************************)
(* States that differ only in what nobody reads any more are the same: the *)
(* call a task has returned from, the stream it has stopped or not started *)
(* (start resets what is left of it), the transfer it has completed.       *)
(***************************************************************************)
Streams(t) == on[t] \in Channels /\ session[on[t]].is_loop

LiveView ==
    <<tokens, used, lock, slot, pc, file, index, handle, open, lost, fatal,
      [t \in Tasks |-> IF pc[t] = "idle" THEN None ELSE job[t]],
      work, on, engine, irq, isr, ipc, blocks, finished,
      IF isr = None THEN FALSE ELSE last,
      [t \in Tasks |-> work[t] = "waiting" /\ t \in fresh],
      [t \in Tasks |-> IF Streams(t)
                       THEN <<inUse[t], nextFree[t], stages[t], t \in stopping>>
                       ELSE <<>>],
      [c \in Channels |->
          IF \E t \in Tasks : on[t] = c
          THEN session[c]
          ELSE [session[c] EXCEPT !.is_loop = FALSE, !.client = None,
                                  !.narrow = FALSE, !.next = 0]]>>
=============================================================================
