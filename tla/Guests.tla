------------------------------- MODULE Guests -------------------------------
(***************************************************************************)
(* auvirt: sessions, resources, denials and anomalies of virtual machines, *)
(* correlated by one pass over the log.  `events' is the program's list    *)
(* (auvirt-list.c, only ever appended to); an event read at position t has *)
(* time and serial t.  A missing or unusable field is "none" or -1.        *)
(***************************************************************************)
EXTENDS Integers, Sequences, FiniteSets, FiniteSetsExt

CONSTANTS VirtWorlds,  \* [guest, from, to, all, proof, apparmor, max]: options, and the bound on the log
          Machines, Controls, Resources, Denials, Anomalies   \* the records of each kind
PROOFS == 4            \* slots of struct event's proof

VARIABLES virtWorld, events, virtTime
virtVars == <<virtWorld, events, virtTime>>

VirtStart(w) == virtWorld = w /\ events = <<>> /\ virtTime = 0
VirtInit == \E w \in VirtWorlds : VirtStart(w)

----------------------------------------------------------------------------
Positions == DOMAIN events

(* A loop backwards over the list: what it does at each place until it     *)
(* breaks, and the place it breaks at, 0 at the head.                      *)
BreakAt(Breaks(_)) == Max({0} \cup {i \in Positions : Breaks(i)})
Visited(Breaks(_)) == (BreakAt(Breaks) + 1)..Len(events)

event_alloc(type, uuid, success, t) ==
  [type |-> type, uuid |-> uuid, success |-> success, start |-> t, end |-> 0, pid |-> -1,
   kind |-> "none", res |-> "none", level |-> "none", proof |-> <<>>]

add_proof(e, t) == IF virtWorld.proof /\ Len(e.proof) < PROOFS THEN [e EXCEPT !.proof = Append(@, t)] ELSE e
Ended(e, t) == add_proof([e EXCEPT !.end = t], t)
EndAt(list, places, t) == [i \in DOMAIN list |-> IF i \in places THEN Ended(list[i], t) ELSE list[i]]

(* filter_event: the time range, and the guest when the record names one.  *)
filter_event(uuid, t) ==
  /\ virtWorld.from = 0 \/ t >= virtWorld.from
  /\ virtWorld.to = 0 \/ t <= virtWorld.to
  /\ uuid = "none" \/ virtWorld.guest \in {"any", uuid}

Mine(i, uuid) == events[i].success /\ events[i].uuid = uuid
OpenResource(i) == events[i].type = "RES" /\ events[i].end = 0

----------------------------------------------------------------------------
process_machine_id_event(r, t) ==
  IF ~filter_event(r.uuid, t) \/ r.model = "dac" \/ ~r.whole THEN events
  ELSE Append(events, add_proof([event_alloc("MACHINE_ID", r.uuid, r.success, t) EXCEPT !.level = r.level], t))

(* A failed start ends the resources handed to the guest since its last    *)
(* machine id or stop.                                                     *)
OldSession_StopOnly(i, uuid) == Mine(i, uuid) /\ events[i].type = "STOP"
OldSession(i, uuid) == Mine(i, uuid) /\ events[i].type \in {"STOP", "MACHINE_ID"}
add_start_guest_event(r, t) ==
  LET freed == {i \in Visited(LAMBDA i : OldSession(i, r.uuid)) : Mine(i, r.uuid) /\ OpenResource(i)}
  IN Append(IF r.success THEN events ELSE EndAt(events, freed, t),
            add_proof([event_alloc("START", r.uuid, r.success, t) EXCEPT !.pid = r.pid], t))

(* A stop goes back to the start of the session, and on from there to the  *)
(* resources of before the start.                                          *)
StartsOf(uuid) == {i \in Positions : Mine(i, uuid) /\ events[i].type = "START"}
LaterStart(i, uuid) == \E j \in StartsOf(uuid) : j > i
StopBreaks(i, uuid) == OldSession(i, uuid) \/ (i \in StartsOf(uuid) /\ (events[i].end # 0 \/ LaterStart(i, uuid)))

add_stop_guest_event(r, t) ==
  LET seen == Visited(LAMBDA i : StopBreaks(i, r.uuid))
      freed == {i \in seen : Mine(i, r.uuid) /\ OpenResource(i)}
      start == seen \cap StartsOf(r.uuid)
      stop == add_proof([event_alloc("STOP", r.uuid, r.success, t) EXCEPT !.pid = r.pid], t)
  IN IF start = {} THEN EndAt(events, freed, t)
     ELSE Append(EndAt(events, freed \cup (IF r.success THEN start ELSE {}), t), stop)

process_control_event(r, t) ==
  IF ~filter_event(r.uuid, t) \/ ~r.whole THEN events
  ELSE IF r.op = "start" THEN add_start_guest_event(r, t)
  ELSE IF r.op = "stop" THEN add_stop_guest_event(r, t)
  ELSE events

----------------------------------------------------------------------------
(* Resources: the old value ends the latest assignment of it, the new one  *)
(* is an assignment.  A cgroup has no old value.                           *)
SameResource(i, r) == events[i].type = "RES" /\ Mine(i, r.uuid) /\ events[i].kind = r.kind /\ events[i].res = r.old
update_resource(r, t) ==
  IF r.old = "none" \/ ~r.success THEN events
  ELSE EndAt(events, {BreakAt(LAMBDA i : SameResource(i, r))} \cap Positions, t)

add_resource(list, r, t) ==
  IF r.new = "none" THEN list
  ELSE Append(list, add_proof([event_alloc("RES", r.uuid, r.success, t) EXCEPT !.kind = r.kind, !.res = r.new], t))

process_resource_event(r, t) ==
  IF ~filter_event(r.uuid, t) \/ ~r.whole \/ r.kind = "unknown" THEN events
  ELSE IF r.kind = "cgroup" THEN add_resource(events, r, t)
  ELSE add_resource(update_resource(r, t), r, t)

----------------------------------------------------------------------------
(* An AVC is the guest's that last got its security level (SELinux), that  *)
(* its profile names, or that holds the object denied (AppArmor).          *)
Blamed(list, type, i, pid, level, t) ==
  Append(list, add_proof([event_alloc(type, events[i].uuid, FALSE, t)
                            EXCEPT !.pid = pid, !.level = level, !.proof = events[i].proof], t))

get_machine_id_by_seclevel(level) ==
  BreakAt(LAMBDA i : events[i].type = "MACHINE_ID" /\ events[i].level # "none" /\ events[i].level = level)

process_avc_selinux(r, t) ==
  LET i == get_machine_id_by_seclevel(r.level)
  IN IF r.level = "none" \/ i = 0 THEN events ELSE Blamed(events, "AVC", i, -1, r.level, t)

process_avc_apparmor_target(r, t) ==
  LET i == BreakAt(LAMBDA i : OldSession(i, r.profile))
  IN IF r.profile = "none" \/ i = 0 THEN events
     ELSE IF events[i].type = "STOP" THEN events
     ELSE Blamed(events, "AVC", i, -1, "none", t)

process_avc_apparmor_source(list, r, t) ==
  LET i == BreakAt(LAMBDA i : events[i].success /\ OpenResource(i) /\ events[i].res = r.target)
  IN IF r.target = "none" \/ i = 0 THEN list ELSE Blamed(list, "AVC", i, -1, "none", t)

process_avc(r, t) ==
  IF ~virtWorld.all \/ ~filter_event("none", t) \/ ~r.whole THEN events
  ELSE IF r.by = "selinux" THEN process_avc_selinux(r, t)
  ELSE IF virtWorld.apparmor THEN process_avc_apparmor_source(process_avc_apparmor_target(r, t), r, t)
  ELSE events

(* An anomaly is the guest's whose process it is, or whose level.  Both    *)
(* loops begin at the tail and follow `next': only the last event of the   *)
(* list is looked at.                                                      *)
Running(i) == events[i].type = "START" /\ events[i].end = 0
LastIf(Fits(_)) == {i \in Positions : i = Len(events) /\ Fits(i)}

process_anom(r, t) ==
  LET byPid == LastIf(LAMBDA i : events[i].success /\ events[i].pid = r.pid /\ Running(i))
      m == get_machine_id_by_seclevel(r.level)
      byLevel == LastIf(LAMBDA i : m # 0 /\ Mine(i, events[m].uuid) /\ Running(i))
      start == IF r.pid >= 0 /\ byPid # {} THEN byPid ELSE IF r.level = "none" THEN {} ELSE byLevel
  IN IF ~virtWorld.all \/ ~filter_event("none", t) \/ start = {} \/ ~r.whole THEN events
     ELSE Blamed(events, "ANOM", Len(events), r.pid, "none", t)

----------------------------------------------------------------------------
VirtRead == virtTime < virtWorld.max /\ virtTime' = virtTime + 1 /\ UNCHANGED virtWorld

MachineId == VirtRead /\ \E r \in Machines : events' = process_machine_id_event(r, virtTime')
Control == VirtRead /\ \E r \in Controls : events' = process_control_event(r, virtTime')
Resource == VirtRead /\ \E r \in Resources : events' = process_resource_event(r, virtTime')
Denial == VirtRead /\ \E r \in Denials : events' = process_avc(r, virtTime')
Anomaly == VirtRead /\ \E r \in Anomalies : events' = process_anom(r, virtTime')

VirtNext == MachineId \/ Control \/ Resource \/ Denial \/ Anomaly
VirtSpec == VirtInit /\ [][VirtNext]_virtVars

(* print_summary: what --summary counts of each kind, failures left out.   *)
Failed(i) == ~events[i].success /\ events[i].type \in {"START", "STOP", "RES"}
Counted(type) == Cardinality({i \in Positions : events[i].type = type /\ ~Failed(i)})

----------------------------------------------------------------------------
Closes(j, uuid) == events[j].success /\ events[j].uuid = uuid /\ events[j].type \in {"START", "STOP", "MACHINE_ID"}
Adjacent(i, j, uuid) == i < j /\ ~\E k \in (i+1)..(j-1) : Closes(k, uuid)
IsStop(j) == events[j].type = "STOP"

(* The session of a guest that the list shows as ended was ended by the    *)
(* first successful stop of that guest after its start, with no other      *)
(* session of it begun in between, and every successful stop that is shown *)
(* ended exactly one.                                                      *)
VirtSpans ==
  /\ \A i \in Positions : events[i].type = "START" /\ events[i].end # 0 =>
       \E j \in Positions : IsStop(j) /\ events[j].success /\ events[j].start = events[i].end
                            /\ events[i].success /\ Adjacent(i, j, events[i].uuid) /\ events[j].uuid = events[i].uuid
  /\ \A j \in Positions : IsStop(j) /\ events[j].success =>
       Cardinality({i \in Positions : events[i].type = "START" /\ events[i].end = events[j].start}) = 1

(* A stop leaves no resource of that session assigned: what was assigned   *)
(* to the guest since it began has an end.                                 *)
VirtReleased ==
  \A j \in Positions, i \in Positions :
    IsStop(j) /\ i < j /\ events[i].type = "RES" /\ events[i].success /\ events[i].uuid = events[j].uuid
    /\ (\A k \in (i+1)..(j-1) : Closes(k, events[i].uuid) =>
          events[k].type = "START" /\ (Adjacent(i, k, events[i].uuid) /\ Adjacent(k, j, events[i].uuid)))
    => events[i].end # 0 /\ events[i].end <= virtTime

(* A denial or an anomaly is put on a guest the log knew by then, an       *)
(* anomaly on one that was running.                                        *)
VirtBlame ==
  \A k \in Positions :
    /\ events[k].type = "AVC" => \E i \in 1..(k-1) : events[i].uuid = events[k].uuid /\ events[i].type \in {"MACHINE_ID", "RES"}
    /\ events[k].type = "ANOM" => \E i \in 1..(k-1) : /\ events[i].uuid = events[k].uuid /\ events[i].type = "START"
                                                      /\ events[i].end = 0 \/ events[i].end > events[k].start

(* The summary never counts more stops than starts.                        *)
VirtCounts == Counted("STOP") <= Counted("START")

(* The record that ended a session or a resource is the last of its proof, *)
(* as long as there was room for it.                                       *)
VirtProof ==
  virtWorld.proof => \A i \in Positions : events[i].end # 0 /\ Len(events[i].proof) < PROOFS =>
     events[i].proof[Len(events[i].proof)] = events[i].end

\* auvirt's list says of each guest what the records say of it.
VirtTrue == VirtSpans /\ VirtReleased /\ VirtBlame /\ VirtCounts /\ VirtProof
=============================================================================
