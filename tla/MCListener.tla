------------------------------ MODULE MCListener ------------------------------
(***************************************************************************)
(* Three connections, two of them from one address, the third from another *)
(* and from a port that may be outside the range: enough to unlink a       *)
(* client from the front, the middle and the end of the list.              *)
(***************************************************************************)
EXTENDS Listener

ThreeConns == 1 .. 3
AddrOf == <<"a", "a", "b">>
PortOf == <<60, 60, 61>>
DeniedAddrs == {"b"}

Event(n) == [kind |-> "event", len |-> n]
Token(n) == [kind |-> "token", len |-> n]
Heartbeat == [kind |-> "heartbeat", len |-> 0]
Line == [kind |-> "line", len |-> 1]

Plain == [max_per_addr |-> 2, max_idle |-> 1, ports |-> {60, 61}, use_libwrap |-> FALSE]

\* Three messages of one client, in any pieces; some do not fit.
Framing ==
    <<[transport |-> "T_TCP", configs |-> {Plain}, conns |-> {1},
       messages |-> {Event(1), Event(3), Heartbeat}, sent |-> 3,
       ticks |-> 0, hups |-> 0],
      [transport |-> "T_KRB5", configs |-> {Plain}, conns |-> {1},
       messages |-> {Token(1), Token(6)}, sent |-> 2, ticks |-> 0, hups |-> 0],
      [transport |-> "T_TCP", configs |-> {Plain}, conns |-> {1},
       messages |-> {Event(1), Heartbeat, Line}, sent |-> 2, ticks |-> 2, hups |-> 0]>>

\* Three clients come and go; the limits change.
Crowd ==
    <<[transport |-> "T_TCP",
       configs |-> {Plain, [Plain EXCEPT !.max_per_addr = 1, !.ports = {60}, !.use_libwrap = TRUE]},
       conns |-> ThreeConns, messages |-> {}, sent |-> 0, ticks |-> 2, hups |-> 1]>>

SomeWorlds == Framing \o Crowd
=============================================================================
