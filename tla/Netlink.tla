------------------------------ MODULE Netlink -------------------------------
(***************************************************************************)
(* The audit netlink socket (netlink.c) and the part of the kernel behind  *)
(* it. The kernel answers a request while it is being sent: the            *)
(* acknowledgement is in the socket when sendto returns. What was asked    *)
(* for (a status, the list of rules) follows later, from a kernel thread   *)
(* per request.                                                            *)
(*                                                                         *)
(* A channel is [sock, coming]: the packets to be read and, per thread,    *)
(* those still to come. A packet is [t, e, seq, body].                     *)
(***************************************************************************)
EXTENDS Integers, Sequences, SequencesExt

Packet(t, e, seq, body) == [t |-> t, e |-> e, seq |-> seq, body |-> body]

\* A socket just opened.
audit_open == [sock |-> <<>>, coming |-> <<>>]

\* The kernel k is [rules, enabled, legacy, refuses]: rules in order; 2 is
\* locked; legacy knows no directories; refuses: the lists it does not take.
Verdict(k, req) ==
  LET locked  == k.enabled = 2 /\ req.t \in {"add", "del", "set", "other"}
      present == req.t \in {"add", "del"} /\ req.rule \in ToSet(k.rules)
      invalid == /\ req.t \in {"add", "del"}
                 /\ \/ req.rule.flags \in k.refuses
                    \/ k.legacy /\ \E i \in DOMAIN req.rule.fields : req.rule.fields[i].f = "dir"
  IN  CASE locked -> "EPERM" [] ~locked /\ invalid -> "EINVAL"
        [] ~locked /\ ~invalid /\ req.t = "add" /\ present -> "EEXIST"
        [] ~locked /\ ~invalid /\ req.t = "del" /\ ~present -> "ENOENT"
        [] OTHER -> "ok"

\* The kernel after a request it does not refuse.
Granted(k, req) ==
  CASE req.t = "add" -> [k EXCEPT !.rules = Append(@, req.rule)]
    [] req.t = "del" -> [k EXCEPT !.rules = SelectSeq(@, LAMBDA r : r # req.rule)]
    [] req.t = "set" -> [k EXCEPT !.enabled = IF req.what = "enabled" THEN req.n ELSE @]
    [] OTHER -> k
After(k, req) == IF Verdict(k, req) = "ok" THEN Granted(k, req) ELSE k

\* What a kernel thread will send, as things are when it is asked.
Replies(k, req, seq) ==
  CASE req.t = "list" -> [i \in 1..Len(k.rules) + 1 |->
                            IF i <= Len(k.rules) THEN Packet("rule", "ok", seq, k.rules[i])
                            ELSE Packet("done", "ok", seq, k.enabled)]
    [] req.t \in {"get", "feature"} -> <<Packet(req.t, "ok", seq, k.enabled)>>
    [] OTHER -> <<>>

\* Only the first packet is looked at: unless it is an acknowledgement it
\* stays, and all is well.
check_ack(sock) ==
  IF Head(sock).t = "error" THEN [rc |-> Head(sock).e, sock |-> Tail(sock)]
  ELSE [rc |-> "ok", sock |-> sock]

audit_send(k, ch, req, seq) ==
  LET ack == check_ack(Append(ch.sock, Packet("error", Verdict(k, req), seq, 0)))
      more == Replies(k, req, seq)
  IN  [k |-> After(k, req), rc |-> ack.rc,
       ch |-> [sock |-> ack.sock,
               coming |-> IF more = <<>> THEN ch.coming ELSE Append(ch.coming, more)]]

\* A thread sends its next packet.
Delivered(ch) ==
  {[sock |-> Append(ch.sock, Head(ch.coming[i])),
    coming |-> SelectSeq([ch.coming EXCEPT ![i] = Tail(@)], LAMBDA q : q # <<>>)] : i \in DOMAIN ch.coming}

Get(what)      == [t |-> what]
Set(what, n)   == [t |-> "set", what |-> what, n |-> n]
Change(t, r)   == [t |-> t, rule |-> r]
=============================================================================
