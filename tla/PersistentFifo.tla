--------------------------- MODULE PersistentFifo ---------------------------
(***************************************************************************)
(* What the event queue of audisp-remote promises, without saying how: a   *)
(* FIFO with a copy that outlives the process.                             *)
(*                                                                         *)
(*   vis     the queue the process that has it open works on               *)
(*   dur     the queue another process would find in the file              *)
(*   backed  the open queue was opened with Q_IN_FILE                      *)
(*                                                                         *)
(* An operation changes vis first and dur afterwards, in one Persist step, *)
(* and none starts before the one before it is durable: a crash undoes at  *)
(* most one operation, as a whole.                                         *)
(***************************************************************************)
EXTENDS Naturals, Sequences

CONSTANTS Data, MaxLen

VARIABLES isopen, backed, vis, dur
vars == <<isopen, backed, vis, dur>>

Init ==
    /\ isopen = FALSE
    /\ backed = FALSE
    /\ vis = <<>>
    /\ dur = <<>>

\* Opening a queue file shows what the last Persist left in it.
OpenFile ==
    /\ ~isopen
    /\ isopen' = TRUE
    /\ backed' = TRUE
    /\ vis' = dur
    /\ UNCHANGED dur

\* A queue without Q_IN_FILE starts empty and never touches the file.
OpenMemory ==
    /\ ~isopen
    /\ isopen' = TRUE
    /\ backed' = FALSE
    /\ vis' = <<>>
    /\ UNCHANGED dur

\* The file has every operation so far.
Settled == backed => dur = vis

Enqueue(d) ==
    /\ isopen
    /\ Settled
    /\ Len(vis) < MaxLen
    /\ vis' = Append(vis, d)
    /\ UNCHANGED <<isopen, backed, dur>>

Dequeue ==
    /\ isopen
    /\ Settled
    /\ vis # <<>>
    /\ vis' = Tail(vis)
    /\ UNCHANGED <<isopen, backed, dur>>

Persist ==
    /\ isopen
    /\ backed
    /\ dur' = vis
    /\ UNCHANGED <<isopen, backed, vis>>

\* q_close, or the end of the process at any point.
Leave ==
    /\ isopen
    /\ isopen' = FALSE
    /\ backed' = FALSE
    /\ vis' = <<>>
    /\ UNCHANGED dur

Next ==
    \/ OpenFile
    \/ OpenMemory
    \/ \E d \in Data : Enqueue(d)
    \/ Dequeue
    \/ Persist
    \/ Leave

Spec == Init /\ [][Next]_vars
=============================================================================
