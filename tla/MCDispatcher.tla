---------------------------- MODULE MCDispatcher ----------------------------
(* Dispatcher on small instances. *)
EXTENDS Dispatcher

AllOverflowActions == {"O_IGNORE", "O_SYSLOG", "O_SUSPEND", "O_SINGLE", "O_HALT"}

\* Plugins that read, a ring that keeps its size, every overflow action.
Steady == [depths |-> {2}, actions |-> AllOverflowActions, go |-> FALSE, spurious |-> FALSE,
           reading |-> TRUE, events |-> 5, hups |-> 0]

\* SIGHUPs enlarge the ring and may take the plugins away.
Hups == [depths |-> {2, 3}, actions |-> {"O_SUSPEND"}, go |-> TRUE, spurious |-> TRUE,
         reading |-> FALSE, events |-> 3, hups |-> 2]

SomeWorlds == {Steady, Hups}
=============================================================================
