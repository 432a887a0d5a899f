---------------------------- MODULE EventChannel ----------------------------
(***************************************************************************)
(* What the dispatcher's queue promises while its size stays the same: a   *)
(* bounded FIFO between the thread that receives events and the one that   *)
(* passes them to the plugins.  Events are numbered as they are received.  *)
(* One that finds no room may be lost; one that is accepted is neither     *)
(* lost nor repeated nor overtaken.                                        *)
(***************************************************************************)
EXTENDS Naturals, Sequences

CONSTANT Cap    \* room in the queue

VARIABLES
    seen,   \* number of events received
    chan,   \* events on their way
    out     \* events handed over
vars == <<seen, chan, out>>

Init == seen = 0 /\ chan = <<>> /\ out = <<>>

\* The next event is received, to be accepted or not.
Receive == seen' = seen + 1 /\ UNCHANGED <<chan, out>>

\* The event last received is accepted.
Accept ==
    /\ Len(chan) < Cap
    /\ \A i \in 1 .. Len(chan) : chan[i] < seen
    /\ \A i \in 1 .. Len(out) : out[i] < seen
    /\ chan' = Append(chan, seen)
    /\ UNCHANGED <<seen, out>>

HandOver ==
    /\ chan # <<>>
    /\ out' = Append(out, Head(chan))
    /\ chan' = Tail(chan)
    /\ UNCHANGED seen

Next == Receive \/ Accept \/ HandOver

Spec == Init /\ [][Next]_vars
=============================================================================
