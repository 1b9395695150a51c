--------------------------- MODULE NodeAgentProofs ---------------------------
(***************************************************************************)
(* What the agent of a node promises, for any number of revisions, events, *)
(* requests and failures.                                                  *)
(***************************************************************************)
EXTENDS NodeAgent, TLAPS

(***************************************************************************)
(* Types.                                                                  *)
(***************************************************************************)

Queues == {q \in Seq(Annotations) : Len(q) <= MaxQueue}

LEMMA RevisionTypes == Revisions \subseteq AnyRev /\ NoRev \in AnyRev /\ NoRev \notin Revisions
  BY RevisionsAssumption DEF AnyRev, NoRev

LEMMA NoEventType == NoEvent \in Annotations
  BY RevisionTypes DEF NoEvent, Annotations, AgentStates

\* The writes keep the shape of the annotations.
LEMMA WriteTypes ==
    ASSUME NEW a \in Annotations, NEW r \in AnyRev, NEW s \in AgentStates, NEW b \in BOOLEAN
    PROVE  /\ SetState(a, s) \in Annotations /\ SetDone(a, r) \in Annotations
           /\ [a EXCEPT !.pending = b] \in Annotations /\ [a EXCEPT !.force = b] \in Annotations
           /\ [a EXCEPT !.paused = b] \in Annotations /\ [a EXCEPT !.desired = r] \in Annotations
  BY DEF SetState, SetDone, Annotations, AgentStates

LEMMA OneEvent ==
    ASSUME NEW a \in Annotations
    PROVE  <<a>> \in Queues /\ <<>> \in Queues
  BY NodeAgentAssumption DEF Queues

LEMMA FrontIs ==
    ASSUME NEW q \in Seq(Annotations), Len(q) >= 1
    PROVE  /\ Front(q) \in Seq(Annotations) /\ Len(Front(q)) = Len(q) - 1
           /\ \A i \in 1..Len(q) - 1 : Front(q)[i] = q[i]
  <1>1. Len(q) \in Nat /\ Len(q) - 1 \in Nat
    OBVIOUS
  <1>2. Front(q) \in Seq(Annotations)
    BY <1>1 DEF Front
  <1>3. Len(Front(q)) = Len(q) - 1
    <2>1. CASE 1 <= Len(q) - 1
      BY <1>1, <2>1 DEF Front
    <2>2. CASE Len(q) - 1 = 0
      BY <1>1, <2>2 DEF Front
    <2>3. ASSUME NEW n \in Nat
          PROVE  1 <= n \/ n = 0
      OBVIOUS
    <2> QED
      BY <1>1, <2>1, <2>2, <2>3
  <1>4. ASSUME NEW i \in 1..Len(q) - 1
        PROVE  Front(q)[i] = q[i]
    BY <1>1, <1>4 DEF Front
  <1> QED
    BY <1>2, <1>3, <1>4

\* An event pushes the last one out of a full watch.
LEMMA PushesOut ==
    ASSUME NEW q \in Seq(Annotations), Len(q) >= 1, NEW e \in Annotations
    PROVE  LET r == Append(Front(q), e) IN
           /\ r \in Seq(Annotations) /\ Len(r) = Len(q) /\ r[Len(q)] = e
           /\ DOMAIN r = 1..Len(q)
           /\ \A i \in 1..Len(q) - 1 : r[i] = q[i]
  <1> DEFINE r == Append(Front(q), e)
  <1>1. /\ Front(q) \in Seq(Annotations) /\ Len(Front(q)) = Len(q) - 1
        /\ \A i \in 1..Len(q) - 1 : Front(q)[i] = q[i]
    BY FrontIs
  <1>2. /\ Len(r) = Len(q) /\ r[Len(q)] = e
        /\ \A i \in 1..Len(q) - 1 : r[i] = q[i]
    BY <1>1
  <1>3. r \in Seq(Annotations)
    BY <1>1
  <1> HIDE DEF r
  <1>4. DOMAIN r = 1..Len(q)
    BY <1>2, <1>3
  <1> QED
    BY <1>2, <1>3, <1>4 DEF r

\* The watch never holds more events than the API server buffers.
LEMMA DeliverType ==
    ASSUME NEW q \in Queues, NEW e \in Annotations
    PROVE  Deliver(q, e) \in Queues
  <1>1. CASE Len(q) < MaxQueue
    BY <1>1, NodeAgentAssumption DEF Deliver, Queues
  <1>2. CASE ~(Len(q) < MaxQueue)
    <2>1. Len(q) = MaxQueue /\ Len(q) \in Nat /\ Len(q) >= 1
      BY <1>2, NodeAgentAssumption DEF Queues
    <2> QED
      BY <1>2, <2>1, PushesOut DEF Deliver, Queues
  <1> QED
    BY <1>1, <1>2

LEMMA EventType ==
    ASSUME NEW q \in Queues, NEW old, NEW new \in Annotations
    PROVE  Event(q, old, new) \in Queues
  BY DeliverType DEF Event

LEMMA TypeParts ==
    TypeOK <=> /\ ann \in Annotations /\ queue \in Queues /\ pc \in PCs /\ ev \in Annotations
               /\ pendingRev \in AnyRev /\ lastReboot \in LastReboots
               /\ marker \in BOOLEAN /\ disk \in AnyRev
               /\ goingDown \in BOOLEAN /\ owed \in Owings
               /\ used \in [asks : Nat, admin : Nat, faults : Nat]
  BY DEF TypeOK, Queues

LEMMA TypePartsNext ==
    ASSUME ann' \in Annotations, queue' \in Queues, pc' \in PCs, ev' \in Annotations,
           pendingRev' \in AnyRev, lastReboot' \in LastReboots,
           marker' \in BOOLEAN, disk' \in AnyRev, goingDown' \in BOOLEAN, owed' \in Owings,
           used' \in [asks : Nat, admin : Nat, faults : Nat]
    PROVE  TypeOK'
  BY DEF TypeOK, Queues

LEMMA PatchType ==
    ASSUME TypeOK, NEW a \in Annotations, Patch(a)
    PROVE  ann' \in Annotations /\ queue' \in Queues
  BY TypeParts, EventType DEF Patch

LEMMA TryPatchType ==
    ASSUME TypeOK, NEW a \in Annotations, TryPatch(a)
    PROVE  ann' \in Annotations /\ queue' \in Queues
  <1>1. Stored("apiError", ann, a) \subseteq Annotations
    BY TypeParts DEF Stored
  <1> QED
    BY <1>1, PatchType DEF TryPatch

LEMMA UseType ==
    ASSUME TypeOK, NEW k \in {"asks", "admin", "faults"}, NEW max, Use(k, max)
    PROVE  used' \in [asks : Nat, admin : Nat, faults : Nat]
  BY TypeParts DEF Use

LEMMA FaultType ==
    ASSUME TypeOK, NEW k, FaultOf(k)
    PROVE  used' \in [asks : Nat, admin : Nat, faults : Nat]
  BY UseType DEF FaultOf

LEMMA MarkerType ==
    ASSUME TypeOK, WriteBootMarker
    PROVE  marker' \in BOOLEAN
  BY TypeParts DEF WriteBootMarker, Stored

LEMMA InitTypes ==
    ASSUME Init
    PROVE  TypeOK
  <1>1. NoEvent \in Annotations /\ NoRev \in AnyRev /\ <<>> \in Queues
    BY NoEventType, RevisionTypes, OneEvent
  <1>2. LastReboot0 \in LastReboots
    BY NodeAgentAssumption
  <1> QED
    BY <1>1, <1>2, TypeParts DEF Init, PCs, Owings

\* Every step of the agent keeps the types.
LEMMA RunTypes ==
    ASSUME TypeOK, AgentRuns
    PROVE  TypeOK'
  <1>1. /\ ann \in Annotations /\ queue \in Queues /\ pc \in PCs /\ ev \in Annotations
        /\ pendingRev \in AnyRev /\ lastReboot \in LastReboots
        /\ marker \in BOOLEAN /\ disk \in AnyRev /\ goingDown \in BOOLEAN /\ owed \in Owings
        /\ used \in [asks : Nat, admin : Nat, faults : Nat]
    BY TypeParts
  <1>2. /\ NoEvent \in Annotations /\ NoRev \in AnyRev /\ ev.desired \in AnyRev
        /\ ann.desired \in AnyRev
    BY <1>1, NoEventType, RevisionTypes DEF Annotations
  <1>f. ASSUME Finish
        PROVE  /\ ann' \in Annotations /\ queue' \in Queues /\ pc' \in PCs /\ ev' \in Annotations
               /\ pendingRev' \in AnyRev
    <2>1. SetDone(ann, ev.desired) \in Annotations
      BY <1>1, <1>2, WriteTypes DEF AgentStates
    <2> QED
      BY <1>f, <1>2, <2>1, TryPatchType DEF Finish, Return, PCs
  <1>3. CASE Boot
    BY <1>1, <1>3, TypePartsNext DEF Boot, NoPatch, Host, PCs
  <1>4. CASE CheckRebootNothing
    BY <1>1, <1>2, <1>4, TypePartsNext, MarkerType DEF CheckRebootNothing, NoPatch, PCs
  <1>5. CASE CheckRebootPendingOnStartup
    <2>1. ann' \in Annotations /\ queue' \in Queues
      <3>1. [ann EXCEPT !.pending = FALSE] \in Annotations
        BY <1>1 DEF Annotations
      <3> QED
        BY <1>5, <3>1, PatchType DEF CheckRebootPendingOnStartup
    <2> QED
      BY <1>1, <1>5, <2>1, TypePartsNext DEF CheckRebootPendingOnStartup, Host, PCs
  <1>6. CASE StartupSetDone
    <2>1. (IF ev.desired # NoRev THEN SetDone(ann, ev.desired) ELSE ann) \in Annotations
      BY <1>1, <1>2, WriteTypes DEF AgentStates
    <2>2. ann' \in Annotations /\ queue' \in Queues
      BY <1>6, <2>1, PatchType DEF StartupSetDone
    <2> QED
      BY <1>1, <1>2, <1>6, <2>2, TypePartsNext, MarkerType DEF StartupSetDone, PCs
  <1>7. CASE SetIdle
    <2>1. ann' \in Annotations
      BY <1>1, <1>2, <1>7, WriteTypes DEF SetIdle, Stored, AgentStates
    <2>2. queue' \in Queues
      BY <1>7, <2>1, OneEvent DEF SetIdle
    <2> QED
      BY <1>1, <1>7, <2>1, <2>2, TypePartsNext DEF SetIdle, Host, PCs
  <1>8. CASE ReadEvent
    <2>1. Head(queue) \in Annotations /\ Tail(queue) \in Queues
      <3>1. queue \in Seq(Annotations) /\ queue # <<>> /\ Len(queue) <= MaxQueue
        BY <1>1, <1>8 DEF ReadEvent, Queues
      <3>2. Head(queue) \in Annotations /\ Tail(queue) \in Seq(Annotations)
        BY <3>1
      <3>3. Len(Tail(queue)) = Len(queue) - 1 /\ Len(queue) \in Nat
        BY <3>1
      <3> QED
        BY <3>1, <3>2, <3>3, NodeAgentAssumption DEF Queues
    <2>2. pc' \in PCs /\ ev' \in Annotations
      BY <1>1, <1>8, <2>1 DEF ReadEvent, PCs
    <2> QED
      BY <1>1, <1>8, <2>1, <2>2, TypePartsNext DEF ReadEvent, Host
  <1>9. CASE SetApplying
    <2>1. SetState(ann, "applying") \in Annotations
      BY <1>1, <1>2, WriteTypes DEF AgentStates
    <2>2. ann' \in Annotations /\ queue' \in Queues
      BY <1>9, <2>1, PatchType DEF SetApplying
    <2> QED
      BY <1>1, <1>9, <2>2, TypePartsNext DEF SetApplying, Host, PCs
  <1>10. CASE ApplyUnchanged
    <2>1. owed' \in Owings /\ disk' \in AnyRev
      BY <1>1, <1>2, <1>10 DEF ApplyUnchanged, RebootOwed, Owings
    <2>2. /\ ann' \in Annotations /\ queue' \in Queues /\ pc' \in PCs /\ ev' \in Annotations
          /\ pendingRev' \in AnyRev
      BY <1>10, <1>f DEF ApplyUnchanged
    <2> QED
      BY <1>1, <1>10, <2>1, <2>2, TypePartsNext DEF ApplyUnchanged
  <1>11. CASE ApplyChanges
    <2>1. owed' \in Owings /\ disk' \in AnyRev
      BY <1>1, <1>2, <1>11 DEF ApplyChanges, RebootOwed, Owings
    <2> QED
      BY <1>1, <1>11, <2>1, TypePartsNext DEF ApplyChanges, NoPatch, PCs
  <1>12. CASE NoReboot
    <2>1. /\ ann' \in Annotations /\ queue' \in Queues /\ pc' \in PCs /\ ev' \in Annotations
          /\ pendingRev' \in AnyRev
      BY <1>1, <1>2, <1>12, <1>f DEF NoReboot, Return, NoPatch, PCs
    <2> QED
      BY <1>1, <1>12, <2>1, TypePartsNext DEF NoReboot, Host
  <1>13. CASE setPending
    <2>1. ann' \in Annotations /\ queue' \in Queues
      <3>1. [ann EXCEPT !.pending = TRUE] \in Annotations
        BY <1>1 DEF Annotations
      <3> QED
        BY <1>13, <3>1, PatchType DEF setPending
    <2>2. pendingRev' \in AnyRev /\ pc' \in PCs /\ ev' \in Annotations
      BY <1>1, <1>2, <1>13 DEF setPending, Remember, Return, PCs
    <2> QED
      BY <1>1, <1>13, <2>1, <2>2, TypePartsNext DEF setPending, Host
  <1>14. CASE executeReboot
    <2>1. PICK rebooting \in Stored("apiError", ann, SetState(ann, "rebooting")) :
          \E unforced \in Stored("apiError", rebooting, [rebooting EXCEPT !.force = FALSE]) :
          \E cleared \in Stored("apiError", unforced, [unforced EXCEPT !.pending = FALSE]) :
             /\ ann' = cleared
             /\ queue' = Event(Event(Event(queue, ann, rebooting), rebooting, unforced),
                               unforced, cleared)
      BY <1>14 DEF executeReboot
    <2>2. PICK unforced \in Stored("apiError", rebooting, [rebooting EXCEPT !.force = FALSE]) :
          \E cleared \in Stored("apiError", unforced, [unforced EXCEPT !.pending = FALSE]) :
             /\ ann' = cleared
             /\ queue' = Event(Event(Event(queue, ann, rebooting), rebooting, unforced),
                               unforced, cleared)
      BY <2>1
    <2>3. PICK cleared \in Stored("apiError", unforced, [unforced EXCEPT !.pending = FALSE]) :
             /\ ann' = cleared
             /\ queue' = Event(Event(Event(queue, ann, rebooting), rebooting, unforced),
                               unforced, cleared)
      BY <2>2
    <2>4. rebooting \in Annotations
      BY <1>1, <1>2, WriteTypes DEF Stored, AgentStates
    <2>5. unforced \in Annotations
      BY <2>4 DEF Stored, Annotations
    <2>6. cleared \in Annotations
      BY <2>5 DEF Stored, Annotations
    <2>7. queue' \in Queues
      BY <1>1, <2>3, <2>4, <2>5, <2>6, EventType
    <2>8. lastReboot' \in LastReboots /\ pc' \in PCs
      BY <1>1, <1>14 DEF executeReboot, Stored, LastReboots, PCs
    <2> QED
      BY <1>1, <1>14, <2>3, <2>6, <2>7, <2>8, TypePartsNext DEF executeReboot
  <1>15. CASE Execute
    <2>1. pendingRev' \in AnyRev /\ pc' \in PCs /\ ev' \in Annotations
      BY <1>1, <1>2, <1>15 DEF Execute, Remember, Return, PCs
    <2> QED
      BY <1>1, <1>15, <2>1, TypePartsNext DEF Execute, NoPatch
  <1> QED
    BY <1>3, <1>4, <1>5, <1>6, <1>7, <1>8, <1>9, <1>10, <1>11, <1>12, <1>13, <1>14, <1>15
    DEF AgentRuns

\* So does every failure.
LEMMA FailTypes ==
    ASSUME TypeOK, AgentFails
    PROVE  TypeOK'
  <1>1. /\ ann \in Annotations /\ queue \in Queues /\ pc \in PCs /\ ev \in Annotations
        /\ pendingRev \in AnyRev /\ lastReboot \in LastReboots
        /\ marker \in BOOLEAN /\ disk \in AnyRev /\ goingDown \in BOOLEAN /\ owed \in Owings
    BY TypeParts
  <1>2. /\ NoEvent \in Annotations /\ NoRev \in AnyRev /\ ev.desired \in AnyRev
        /\ <<>> \in Queues
    BY <1>1, NoEventType, RevisionTypes, OneEvent DEF Annotations
  <1>e. ASSUME SetError
        PROVE  ann' \in Annotations /\ queue' \in Queues
    <2>1. SetState(ann, "error") \in Annotations
      BY <1>1, <1>2, WriteTypes DEF AgentStates
    <2> QED
      BY <1>e, <2>1, TryPatchType DEF SetError
  <1>r. ASSUME Return
        PROVE  pc' \in PCs /\ ev' \in Annotations
    BY <1>r, <1>2 DEF Return, PCs
  <1>u. used' \in [asks : Nat, admin : Nat, faults : Nat]
    BY FaultType DEF AgentFails, StartupPatchFails, StartupGetFails, FetchFails,
       FetchPendingFails, SetApplyingFails, ApplyFails, OwnershipFails, setPendingFails,
       ExecuteFails, AgentRestarts, UnplannedReboot
  <1>3. CASE StartupPatchFails
    BY <1>1, <1>2, <1>3, <1>u, TypePartsNext, MarkerType DEF StartupPatchFails, NoPatch, PCs
  <1>4. CASE StartupGetFails
    BY <1>1, <1>2, <1>4, <1>u, TypePartsNext DEF StartupGetFails, NoPatch, Host, PCs
  <1>5. CASE FetchFails
    BY <1>1, <1>5, <1>e, <1>r, <1>u, TypePartsNext DEF FetchFails, Host
  <1>6. CASE FetchPendingFails \/ SetApplyingFails
    BY <1>1, <1>6, <1>r, <1>u, TypePartsNext
    DEF FetchPendingFails, SetApplyingFails, NoPatch, Host
  <1>7. CASE ApplyFails
    <2>1. disk' \in AnyRev /\ owed' \in Owings
      BY <1>1, <1>2, <1>7 DEF ApplyFails, Owings
    <2> QED
      BY <1>1, <1>7, <1>e, <1>r, <1>u, <2>1, TypePartsNext DEF ApplyFails
  <1>8. CASE OwnershipFails
    <2>1. disk' \in AnyRev /\ owed' \in Owings
      BY <1>1, <1>2, <1>8 DEF OwnershipFails, RebootOwed, Owings
    <2> QED
      BY <1>1, <1>8, <1>e, <1>r, <1>u, <2>1, TypePartsNext DEF OwnershipFails
  <1>9. CASE setPendingFails
    <2>1. ann' \in Annotations /\ queue' \in Queues
      BY <1>1, <1>9, <1>e DEF setPendingFails, NoPatch
    <2> QED
      BY <1>1, <1>9, <1>r, <1>u, <2>1, TypePartsNext DEF setPendingFails, Host
  <1>10. CASE ExecuteFails
    <2>1. ann' \in Annotations /\ queue' \in Queues
      BY <1>1, <1>10, <1>e DEF ExecuteFails, NoPatch
    <2> QED
      BY <1>1, <1>10, <1>r, <1>u, <2>1, TypePartsNext DEF ExecuteFails, Host
  <1>11. CASE AgentRestarts
    BY <1>1, <1>2, <1>11, <1>u, TypePartsNext DEF AgentRestarts, Stops, Host, PCs
  <1>12. CASE UnplannedReboot
    BY <1>1, <1>2, <1>12, <1>u, TypePartsNext DEF UnplannedReboot, HostRestarts, Stops, PCs, Owings
  <1> QED
    BY <1>3, <1>4, <1>5, <1>6, <1>7, <1>8, <1>9, <1>10, <1>11, <1>12 DEF AgentFails

\* And what happens around the agent.
LEMMA AroundTypes ==
    ASSUME TypeOK, Around
    PROVE  TypeOK'
  <1>1. /\ ann \in Annotations /\ queue \in Queues /\ pc \in PCs /\ ev \in Annotations
        /\ pendingRev \in AnyRev /\ lastReboot \in LastReboots
        /\ marker \in BOOLEAN /\ disk \in AnyRev /\ goingDown \in BOOLEAN /\ owed \in Owings
        /\ used \in [asks : Nat, admin : Nat, faults : Nat]
    BY TypeParts
  <1>2. NoEvent \in Annotations /\ NoRev \in AnyRev /\ <<>> \in Queues
    BY NoEventType, RevisionTypes, OneEvent
  <1>o. ASSUME NEW a \in Annotations, Outside(a),
               used' \in [asks : Nat, admin : Nat, faults : Nat]
        PROVE  TypeOK'
    <2>1. ann' \in Annotations /\ queue' \in Queues
      BY <1>o, PatchType DEF Outside
    <2> QED
      BY <1>1, <1>o, <2>1, TypePartsNext DEF Outside, Host
  <1>3. CASE HostReboots
    BY <1>1, <1>2, <1>3, TypePartsNext DEF HostReboots, HostRestarts, Stops, PCs, Owings
  <1>4. CASE IntervalElapses
    BY <1>1, <1>4, TypePartsNext DEF IntervalElapses, NoPatch, LastReboots
  <1>5. CASE Heartbeat
    BY <1>1, <1>5, OneEvent, TypePartsNext DEF Heartbeat, Host
  <1>6. ASSUME NEW r \in Revisions, ControllerAsks(r) PROVE TypeOK'
    <2>1. [ann EXCEPT !.desired = r] \in Annotations
      BY <1>1, RevisionTypes DEF Annotations
    <2> QED
      BY <1>6, <1>o, <2>1, UseType DEF ControllerAsks
  <1>7. CASE AdminPauses
    <2>1. [ann EXCEPT !.paused = ~@] \in Annotations
      BY <1>1 DEF Annotations
    <2> QED
      BY <1>7, <1>o, <2>1, UseType DEF AdminPauses
  <1>8. CASE AdminForcesReboot
    <2>1. [ann EXCEPT !.force = TRUE] \in Annotations
      BY <1>1 DEF Annotations
    <2> QED
      BY <1>8, <1>o, <2>1, UseType DEF AdminForcesReboot
  <1> QED
    BY <1>3, <1>4, <1>5, <1>6, <1>7, <1>8 DEF Around

LEMMA TypeStep ==
    ASSUME TypeOK, [Next]_agentVars
    PROVE  TypeOK'
  <1>1. CASE UNCHANGED agentVars
    BY <1>1 DEF agentVars, TypeOK
  <1> QED
    BY <1>1, RunTypes, FailTypes, AroundTypes DEF Next

\* Every reachable state of the agent has the declared shape, and the watch holds
\* no more events than the API server buffers.
THEOREM AgentTypes == Spec => []TypeOK
  <1>1. Init => TypeOK
    BY InitTypes
  <1>2. TypeOK /\ [Next]_agentVars => TypeOK'
    BY TypeStep
  <1> QED
    BY <1>1, <1>2, PTL DEF Spec

(***************************************************************************)
(* What the agent reports is on the host.                                  *)
(***************************************************************************)

\* The policy never puts a reboot off.  While one is pending, desired-revision may
\* change, and after the reboot the agent reports what it is asked for then, applied
\* or not (MCAgentPending).
Immediate == Strategy = "IfRequired" /\ MinInterval = 0

\* No reboot is ever pending, so that startup has nothing to report; and the config
\* that a reboot is decided for is on the host.
ReportInv ==
    /\ TypeOK
    /\ ~ann.pending
    /\ pc = "start" => ~ev.pending
    /\ pc # "done"
    /\ pc = "decide" => disk = ev.desired

\* A patch is stored or lost.
LEMMA TryPatchStores ==
    ASSUME NEW a, TryPatch(a)
    PROVE  ann' \in {ann, a}
  BY DEF TryPatch, Stored, Patch

\* What a write leaves alone.
LEMMA WriteKeeps ==
    ASSUME NEW a \in Annotations, NEW r \in AnyRev, NEW s \in AgentStates
    PROVE  /\ SetState(a, s).pending = a.pending /\ SetState(a, s).current = a.current
           /\ SetState(a, s).state = s
           /\ SetDone(a, r).pending = a.pending /\ SetDone(a, r).current = r
  BY DEF SetState, SetDone, Annotations

LEMMA ErrorKeeps ==
    ASSUME ann \in Annotations, SetError
    PROVE  ann'.pending = ann.pending /\ ann'.current = ann.current
           /\ ann'.state \in {ann.state, "error"}
  <1>1. ann' \in {ann, SetState(ann, "error")}
    BY TryPatchStores DEF SetError
  <1>2. "error" \in AgentStates /\ NoRev \in AnyRev
    BY RevisionTypes DEF AgentStates
  <1>3. /\ SetState(ann, "error").pending = ann.pending
        /\ SetState(ann, "error").current = ann.current
        /\ SetState(ann, "error").state = "error"
    BY <1>2, WriteKeeps
  <1> QED
    BY <1>1, <1>3

\* The three patches before a reboot.
LEMMA RebootPatches ==
    ASSUME ann \in Annotations, executeReboot
    PROVE  /\ ~ann.pending => ~ann'.pending
           /\ ann'.current = ann.current
           /\ ann'.state \in {ann.state, "rebooting"}
  <1>1. PICK rebooting \in Stored("apiError", ann, SetState(ann, "rebooting")) :
        \E unforced \in Stored("apiError", rebooting, [rebooting EXCEPT !.force = FALSE]) :
        \E cleared \in Stored("apiError", unforced, [unforced EXCEPT !.pending = FALSE]) :
           ann' = cleared
    BY DEF executeReboot
  <1>2. PICK unforced \in Stored("apiError", rebooting, [rebooting EXCEPT !.force = FALSE]) :
        \E cleared \in Stored("apiError", unforced, [unforced EXCEPT !.pending = FALSE]) :
           ann' = cleared
    BY <1>1
  <1>3. ann' \in {unforced, [unforced EXCEPT !.pending = FALSE]}
    BY <1>2 DEF Stored
  <1>4. rebooting \in {ann, SetState(ann, "rebooting")}
    BY DEF Stored
  <1>5. rebooting \in Annotations
    BY <1>4, WriteTypes, RevisionTypes DEF AgentStates
  <1>6. unforced \in {rebooting, [rebooting EXCEPT !.force = FALSE]}
    BY DEF Stored
  <1>7. /\ unforced \in Annotations /\ unforced.pending = rebooting.pending
        /\ unforced.current = rebooting.current /\ unforced.state = rebooting.state
    BY <1>5, <1>6 DEF Annotations
  <1>8. /\ rebooting.pending = ann.pending /\ rebooting.current = ann.current
        /\ rebooting.state \in {ann.state, "rebooting"}
    BY <1>4, WriteKeeps, RevisionTypes DEF AgentStates
  <1> QED
    BY <1>3, <1>7, <1>8 DEF Annotations

\* The steps of the agent that may report a revision, and what is on the host then.
LEMMA ReportRuns ==
    ASSUME Immediate, ReportInv, TypeOK', AgentRuns
    PROVE  ReportInv' /\ (ann'.current # ann.current => disk' = ann'.current)
  <1>1. ann \in Annotations /\ ev \in Annotations /\ TypeOK' /\ ~ann.pending
        /\ ev.desired \in AnyRev
    BY TypeParts DEF ReportInv, Annotations
  <1>f. ASSUME Finish, disk' = ev.desired
        PROVE  ReportInv' /\ (ann'.current # ann.current => disk' = ann'.current)
    <2>1. ann' \in {ann, SetDone(ann, ev.desired)} /\ pc' = "watch"
      BY <1>f, TryPatchStores DEF Finish, Return
    <2>2. ~ann'.pending /\ ann'.current \in {ann.current, ev.desired}
      <3>1. "idle" \in AgentStates
        BY DEF AgentStates
      <3>2. SetDone(ann, ev.desired).pending = ann.pending
            /\ SetDone(ann, ev.desired).current = ev.desired
        BY <1>1, <3>1, WriteKeeps
      <3> QED
        BY <1>1, <2>1, <3>2
    <2> QED
      BY <1>1, <1>f, <2>1, <2>2 DEF ReportInv
  <1>3. CASE Boot
    BY <1>1, <1>3 DEF Boot, NoPatch, ReportInv
  <1>4. CASE CheckRebootNothing
    BY <1>1, <1>4 DEF CheckRebootNothing, NoPatch, ReportInv
  <1>5. ~CheckRebootPendingOnStartup /\ ~StartupSetDone
    BY DEF CheckRebootPendingOnStartup, StartupSetDone, RebootDetected, ReportInv
  <1>6. CASE SetIdle
    <2>1. ann' \in {ann, SetState(ann, "idle")} /\ pc' = "watch"
      BY <1>6 DEF SetIdle, Stored
    <2>2. ~ann'.pending /\ ann'.current = ann.current
      <3>1. "idle" \in AgentStates
        BY DEF AgentStates
      <3>2. /\ SetState(ann, "idle").pending = ann.pending
            /\ SetState(ann, "idle").current = ann.current
            /\ SetState(ann, "idle").state = "idle"
        BY <1>1, <3>1, RevisionTypes, WriteKeeps
      <3> QED
        BY <1>1, <2>1, <3>2
    <2> QED
      BY <1>1, <2>1, <2>2 DEF ReportInv
  <1>7. CASE ReadEvent
    BY <1>1, <1>7 DEF ReadEvent, ReportInv
  <1>8. CASE SetApplying
    <2>1. ann' = SetState(ann, "applying") /\ pc' = "apply"
      BY <1>8 DEF SetApplying, Patch
    <2>2. ~ann'.pending /\ ann'.current = ann.current
      <3>1. "applying" \in AgentStates
        BY DEF AgentStates
      <3>2. /\ SetState(ann, "applying").pending = ann.pending
            /\ SetState(ann, "applying").current = ann.current
            /\ SetState(ann, "applying").state = "applying"
        BY <1>1, <3>1, RevisionTypes, WriteKeeps
      <3> QED
        BY <1>1, <2>1, <3>2
    <2> QED
      BY <1>1, <2>1, <2>2 DEF ReportInv
  <1>9. CASE ApplyUnchanged
    BY <1>9, <1>f DEF ApplyUnchanged
  <1>10. CASE ApplyChanges
    BY <1>1, <1>10 DEF ApplyChanges, NoPatch, ReportInv
  <1>11. CASE NoReboot
    <2>1. CASE pc = "decide"
      BY <1>11, <1>f, <2>1 DEF NoReboot, Host, ReportInv
    <2>2. CASE pc # "decide"
      BY <1>1, <1>11, <2>2 DEF NoReboot, Return, NoPatch, ReportInv
    <2> QED
      BY <2>1, <2>2
  <1>12. ~setPending
    BY DEF setPending, MayReboot, Immediate
  <1>13. CASE executeReboot
    <2>1. pc' \in {"execute", "executePending"}
      BY <1>13 DEF executeReboot
    <2> QED
      BY <1>1, <1>13, <2>1, RebootPatches DEF ReportInv
  <1>14. CASE Execute
    BY <1>1, <1>14 DEF Execute, Return, NoPatch, ReportInv
  <1> QED
    BY <1>3, <1>4, <1>5, <1>6, <1>7, <1>8, <1>9, <1>10, <1>11, <1>12, <1>13, <1>14
    DEF AgentRuns

\* Nothing else writes current-revision.
LEMMA ReportOthers ==
    ASSUME Immediate, ReportInv, TypeOK', AgentFails \/ Around
    PROVE  /\ ReportInv' /\ ann'.current = ann.current
           /\ ann'.state \in {ann.state, "error"}
  <1>1. ann \in Annotations /\ ev \in Annotations /\ TypeOK' /\ ~ann.pending
    BY TypeParts DEF ReportInv
  <1>2. CASE StartupPatchFails \/ StartupGetFails
    BY <1>1, <1>2 DEF StartupPatchFails, StartupGetFails, NoPatch, ReportInv
  <1>3. CASE FetchFails \/ ApplyFails \/ OwnershipFails
    BY <1>1, <1>3, ErrorKeeps DEF FetchFails, ApplyFails, OwnershipFails, Return, ReportInv
  <1>4. CASE FetchPendingFails \/ SetApplyingFails
    BY <1>1, <1>4 DEF FetchPendingFails, SetApplyingFails, NoPatch, Return, ReportInv
  <1>5. CASE setPendingFails \/ ExecuteFails
    <2>1. SetError \/ NoPatch
      BY <1>5 DEF setPendingFails, ExecuteFails
    <2>2. pc' = "watch"
      BY <1>5 DEF setPendingFails, ExecuteFails, Return
    <2> QED
      BY <1>1, <2>1, <2>2, ErrorKeeps DEF NoPatch, ReportInv
  <1>6. CASE AgentRestarts \/ UnplannedReboot \/ HostReboots
    BY <1>1, <1>6 DEF AgentRestarts, UnplannedReboot, HostReboots, HostRestarts, Stops, ReportInv
  <1>7. CASE IntervalElapses \/ Heartbeat
    BY <1>1, <1>7 DEF IntervalElapses, Heartbeat, NoPatch, Host, ReportInv
  <1>8. CASE (\E r \in Revisions : ControllerAsks(r)) \/ AdminPauses \/ AdminForcesReboot
    <2>1. /\ ann'.pending = ann.pending /\ ann'.current = ann.current /\ ann'.state = ann.state
      BY <1>1, <1>8
      DEF ControllerAsks, AdminPauses, AdminForcesReboot, Outside, Patch, Annotations
    <2>2. UNCHANGED <<pc, ev, disk>>
      BY <1>8 DEF ControllerAsks, AdminPauses, AdminForcesReboot, Outside, Host
    <2> QED
      BY <1>1, <2>1, <2>2 DEF ReportInv
  <1> QED
    BY <1>2, <1>3, <1>4, <1>5, <1>6, <1>7, <1>8 DEF AgentFails, Around

LEMMA ReportStep ==
    ASSUME Immediate, ReportInv, [Next]_agentVars
    PROVE  ReportInv' /\ (ann'.current # ann.current => disk' = ann'.current)
  <1>1. TypeOK'
    BY TypeStep DEF ReportInv
  <1>2. CASE UNCHANGED agentVars
    BY <1>1, <1>2 DEF agentVars, ReportInv
  <1> QED
    BY <1>1, <1>2, ReportRuns, ReportOthers DEF Next

LEMMA InitReport ==
    ASSUME Init
    PROVE  ReportInv
  BY InitTypes DEF Init, ReportInv, NoEvent

\* A revision that the agent reports as current is the one it has put on the host
\* (nodewriter.go:89), if reboots are not put off: through lost patches and state
\* files, failed applies, restarts and reboots.
THEOREM ReportsApplied ==
    ASSUME Immediate
    PROVE  Spec => ReportsWhatItApplied
  <1>1. Init => ReportInv
    BY InitReport
  <1>2. ReportInv /\ [Next]_agentVars => ReportInv'
    BY ReportStep
  <1>3. ReportInv /\ [Next]_agentVars
           => [ann'.current # ann.current => disk' = ann'.current]_agentVars
    BY ReportStep
  <1> QED
    BY <1>1, <1>2, <1>3, PTL DEF Spec, ReportsWhatItApplied

(***************************************************************************)
(* A change that requires a reboot is not reported before it.              *)
(***************************************************************************)

\* Every change of the configuration requires a reboot and shows on the host, the
\* reboot command works, and the agent is stopped only together with its host.
\* The other runs of NodeAgent show what each of these is needed for.
EveryChangeReboots ==
    /\ Immediate
    /\ Required = Revisions
    /\ \A c, r \in Revisions : c # r => <<c, r>> \in DiffRequires
    /\ Drops = {}
    /\ AgentEnv \cap {"agentRestart", "ownerError", "rebootError"} = {}

\* A config that is on the host and waits for its reboot is the one the agent
\* works on or the one it remembers, and that one it does not apply again.
OwedInv ==
    /\ ReportInv
    /\ pc \in {"fetch", "apply", "decide", "execute"} => ev.desired \notin {NoRev, ev.current}
    /\ pc \in {"fetch", "apply"} => ev.desired # pendingRev
    /\ pc = "execute" => disk = ev.desired
    /\ owed = "yes" /\ pc \notin {"decide", "execute"} => pendingRev = disk /\ disk # NoRev

\* Every apply that changes the host ends with a reboot.
LEMMA AlwaysRequired ==
    ASSUME EveryChangeReboots, NEW c \in AnyRev, NEW r \in Revisions, c # r, NEW found \in BOOLEAN
    PROVE  DetermineReboot(c, r, found)
  BY DEF EveryChangeReboots, DetermineReboot, AnyRev

\* The steps of the agent, and that it reports "done" only when nothing is owed.
LEMMA OwedRuns ==
    ASSUME EveryChangeReboots, OwedInv, ReportInv', AgentRuns
    PROVE  OwedInv' /\ (ann'.state = "done" /\ ann.state # "done" => owed' # "yes")
  <1>1. /\ ReportInv /\ TypeOK /\ ann \in Annotations /\ ev \in Annotations
        /\ Immediate /\ ev.desired \in AnyRev /\ ev.current \in AnyRev
    BY TypeParts DEF OwedInv, ReportInv, Annotations, EveryChangeReboots
  <1>3. CASE Boot
    BY <1>1, <1>3 DEF Boot, NoPatch, Host, OwedInv
  <1>4. CASE CheckRebootNothing
    BY <1>1, <1>4 DEF CheckRebootNothing, NoPatch, OwedInv
  <1>5. ~CheckRebootPendingOnStartup /\ ~StartupSetDone
    BY <1>1 DEF CheckRebootPendingOnStartup, StartupSetDone, RebootDetected, ReportInv
  <1>6. CASE SetIdle
    <2>1. ann' \in {ann, SetState(ann, "idle")} /\ pc' = "watch" /\ pc = "idle"
      BY <1>6 DEF SetIdle, Stored
    <2>2. ann'.state \in {ann.state, "idle"}
      <3>1. "idle" \in AgentStates
        BY DEF AgentStates
      <3>2. /\ SetState(ann, "idle").pending = ann.pending
            /\ SetState(ann, "idle").current = ann.current
            /\ SetState(ann, "idle").state = "idle"
        BY <1>1, <3>1, RevisionTypes, WriteKeeps
      <3> QED
        BY <1>1, <2>1, <3>2
    <2> QED
      BY <1>6, <2>1, <2>2 DEF SetIdle, Host, OwedInv
  <1>7. CASE ReadEvent
    <2>1. UNCHANGED <<ann, pendingRev, disk, owed>> /\ pc = "watch"
      BY <1>7 DEF ReadEvent, Host
    <2>2. \/ pc' = "watch"
          \/ pc' = "fetchPending"
          \/ /\ pc' = "fetch" /\ ev'.desired \notin {NoRev, ev'.current}
             /\ ev'.desired # pendingRev
      BY <1>7 DEF ReadEvent, NothingToDo
    <2> QED
      BY <2>1, <2>2 DEF OwedInv
  <1>8. CASE SetApplying
    <2>1. ann' = SetState(ann, "applying") /\ pc' = "apply" /\ pc = "fetch"
          /\ UNCHANGED <<ev, pendingRev, disk, owed>>
      BY <1>8 DEF SetApplying, Patch, Host
    <2>2. ann'.state = "applying"
      <3>1. "applying" \in AgentStates
        BY DEF AgentStates
      <3>2. /\ SetState(ann, "applying").pending = ann.pending
            /\ SetState(ann, "applying").current = ann.current
            /\ SetState(ann, "applying").state = "applying"
        BY <1>1, <3>1, RevisionTypes, WriteKeeps
      <3> QED
        BY <1>1, <2>1, <3>2
    <2> QED
      BY <2>1, <2>2 DEF OwedInv
  <1>9. CASE ApplyUnchanged
    <2>1. pc = "apply" /\ disk \in {NoRev, ev.desired}
      BY <1>9 DEF ApplyUnchanged, ChangesHost, EveryChangeReboots
    <2>2. owed # "yes"
      BY <2>1 DEF OwedInv
    <2>3. owed' # "yes" /\ pc' = "watch"
      BY <1>9, <2>1, <2>2 DEF ApplyUnchanged, RebootOwed, Finish, Return
    <2> QED
      BY <2>3 DEF OwedInv
  <1>10. CASE ApplyChanges
    BY <1>1, <1>10 DEF ApplyChanges, NoPatch, OwedInv
  <1>11. CASE NoReboot
    <2>1. pc # "decide"
      <3> SUFFICES ASSUME pc = "decide"
                   PROVE  FALSE
        OBVIOUS
      <3>1. \E found \in BOOLEAN : ~DetermineReboot(ev.current, ev.desired, found)
        BY <1>11 DEF NoReboot, RebootNotRequired
      <3>2. ev.desired \in Revisions /\ ev.current # ev.desired
        BY <1>1 DEF OwedInv, AnyRev
      <3> QED
        BY <1>1, <3>1, <3>2, AlwaysRequired
    <2>2. /\ pc = "fetchPending" /\ pc' = "watch"
          /\ UNCHANGED <<ann, pendingRev, disk, owed>>
      BY <1>11, <2>1 DEF NoReboot, RebootNotRequired, Return, NoPatch, Host
    <2> QED
      BY <2>2 DEF OwedInv
  <1>12. ~setPending
    BY <1>1 DEF setPending, MayReboot, Immediate
  <1>13. CASE executeReboot
    <2>1. /\ \/ pc = "decide" /\ pc' = "execute"
             \/ pc = "fetchPending" /\ pc' = "executePending"
          /\ UNCHANGED <<ev, pendingRev, disk, owed>>
      BY <1>13 DEF executeReboot, RebootRequired
    <2>2. ann'.state \in {ann.state, "rebooting"}
      BY <1>1, <1>13, RebootPatches
    <2>3. OwedInv'
      BY <1>1, <2>1 DEF OwedInv, ReportInv
    <2> QED
      BY <2>2, <2>3
  <1>14. CASE Execute
    <2>1. /\ pc \in {"execute", "executePending"} /\ pc' = "watch"
          /\ UNCHANGED <<ann, disk, owed>>
          /\ pendingRev' = IF pc = "execute" THEN ev.desired ELSE pendingRev
      BY <1>14 DEF Execute, Return, NoPatch, Remember
    <2> QED
      BY <2>1 DEF OwedInv
  <1> QED
    BY <1>3, <1>4, <1>5, <1>6, <1>7, <1>8, <1>9, <1>10, <1>11, <1>12, <1>13, <1>14
    DEF AgentRuns

\* A failure leaves a mix on the host, or what was there.
LEMMA OwedOthers ==
    ASSUME EveryChangeReboots, OwedInv, ReportInv', AgentFails \/ Around
    PROVE  OwedInv'
  <1>1. ReportInv /\ Immediate
    BY DEF OwedInv, EveryChangeReboots
  <1>2. CASE StartupPatchFails \/ StartupGetFails
    BY <1>1, <1>2 DEF StartupPatchFails, StartupGetFails, Host, OwedInv, ReportInv
  <1>3. CASE FetchFails \/ FetchPendingFails \/ SetApplyingFails
    BY <1>3 DEF FetchFails, FetchPendingFails, SetApplyingFails, Return, Host, OwedInv
  <1>4. CASE ApplyFails
    <2>1. pc = "apply" /\ pc' = "watch" /\ pendingRev' = pendingRev
          /\ (owed' = "unknown" \/ UNCHANGED <<disk, owed>>)
      BY <1>4 DEF ApplyFails, Return
    <2> QED
      BY <2>1 DEF OwedInv
  <1>5. ~OwnershipFails /\ ~ExecuteFails /\ ~AgentRestarts
    BY DEF OwnershipFails, ExecuteFails, AgentRestarts, FaultOf, EveryChangeReboots
  <1>6. ~setPendingFails
    BY <1>1 DEF setPendingFails, MayReboot, Immediate
  <1>7. CASE UnplannedReboot \/ HostReboots
    BY <1>7 DEF UnplannedReboot, HostReboots, HostRestarts, Stops, OwedInv
  <1>8. CASE IntervalElapses \/ Heartbeat
    BY <1>8 DEF IntervalElapses, Heartbeat, Host, OwedInv
  <1>9. CASE (\E r \in Revisions : ControllerAsks(r)) \/ AdminPauses \/ AdminForcesReboot
    <2>1. UNCHANGED <<pc, ev, pendingRev, disk, owed>>
      BY <1>9 DEF ControllerAsks, AdminPauses, AdminForcesReboot, Outside, Host
    <2> QED
      BY <2>1 DEF OwedInv
  <1> QED
    BY <1>2, <1>3, <1>4, <1>5, <1>6, <1>7, <1>8, <1>9 DEF AgentFails, Around

LEMMA OwedStep ==
    ASSUME EveryChangeReboots, OwedInv, [Next]_agentVars
    PROVE  OwedInv' /\ (ann'.state = "done" /\ ann.state # "done" => owed' # "yes")
  <1>1. Immediate /\ ReportInv
    BY DEF EveryChangeReboots, OwedInv
  <1>2. ReportInv' /\ TypeOK'
    BY <1>1, ReportStep, TypeStep DEF ReportInv
  <1>3. CASE AgentRuns
    BY <1>2, <1>3, OwedRuns
  <1>4. CASE AgentFails \/ Around
    <2>1. ann'.state \in {ann.state, "error"}
      BY <1>1, <1>2, <1>4, ReportOthers
    <2> QED
      BY <1>2, <1>4, <2>1, OwedOthers
  <1>5. CASE UNCHANGED agentVars
    BY <1>2, <1>5 DEF agentVars, OwedInv
  <1> QED
    BY <1>3, <1>4, <1>5 DEF Next

\* Where every change requires a reboot, the agent reports none as done before the
\* host has rebooted: not when a patch or a state file is lost, not when a fetch
\* fails, and not when the agent goes on reading events after the reboot was ordered
\* (agent.go:411).  After an apply that failed half-way it is open until the next
\* reboot (owed = "unknown"); without "applyError" there is none.
THEOREM RebootsBeforeDone ==
    ASSUME EveryChangeReboots
    PROVE  Spec => RebootBeforeDone
  <1>1. Init => OwedInv
    <2> SUFFICES ASSUME Init PROVE OwedInv
      OBVIOUS
    <2>1. ReportInv
      BY InitReport
    <2> QED
      BY <2>1 DEF Init, OwedInv
  <1>2. OwedInv /\ [Next]_agentVars => OwedInv'
    BY OwedStep
  <1>3. OwedInv /\ [Next]_agentVars
           => [ann'.state = "done" /\ ann.state # "done" => owed' # "yes"]_agentVars
    BY OwedStep
  <1> QED
    BY <1>1, <1>2, <1>3, PTL DEF Spec, RebootBeforeDone

(***************************************************************************)
(* The agent keeps the contract that the controller counts on.             *)
(***************************************************************************)

Handles == {"fetch", "fetchPending", "apply", "decide", "execute", "executePending"}

\* A watch that has events ends with the revision the node asks for now.
EndsWith(q, d) == \A i \in DOMAIN q : i = Len(q) => q[i].desired = d

\* Outside a watch there are no events; between two events nothing is worked on.
ContractInv ==
    /\ TypeOK
    /\ pc \in {"down", "start", "done", "idle"} => queue = <<>>
    /\ pc \in {"down", "idle", "watch"} => ev.desired = NoRev
    /\ pc \in Handles => ev.desired # NoRev
    /\ EndsWith(queue, ann.desired)

\* r is q with some more events that ask for d.
Grows(q, r, d) ==
    /\ Len(q) <= Len(r)
    /\ \A i \in DOMAIN q : r[i].desired = q[i].desired
    /\ \A i \in DOMAIN r : i > Len(q) => r[i].desired = d

LEMMA GrowsTwice ==
    ASSUME NEW q \in Queues, NEW r \in Queues, NEW s \in Queues, NEW d,
           Grows(q, r, d), Grows(r, s, d)
    PROVE  Grows(q, s, d)
  BY DEF Grows, Queues

\* A patch that asks for nothing new adds at most an event that asks for the same;
\* one that pushes an event out of a full watch replaces it with its like.
LEMMA EventGrows ==
    ASSUME NEW q \in Queues, NEW old, NEW new \in Annotations, EndsWith(q, new.desired)
    PROVE  /\ Grows(q, Event(q, old, new), new.desired)
           /\ EndsWith(Event(q, old, new), new.desired)
  <1>1. CASE Event(q, old, new) = q
    BY <1>1 DEF Grows, Queues
  <1>2. CASE Len(q) < MaxQueue /\ Event(q, old, new) = Append(q, new)
    BY <1>2 DEF Grows, EndsWith, Queues
  <1>3. CASE Len(q) >= MaxQueue /\ Event(q, old, new) = Append(Front(q), new)
    <2> DEFINE r == Append(Front(q), new)
    <2>1. Len(q) \in Nat /\ Len(q) >= 1 /\ q \in Seq(Annotations)
      BY <1>3, NodeAgentAssumption DEF Queues
    <2>3. /\ r \in Seq(Annotations) /\ Len(r) = Len(q) /\ r[Len(q)] = new
          /\ \A i \in 1..Len(q) - 1 : r[i] = q[i]
      BY <2>1, PushesOut
    <2> HIDE DEF r
    <2>5. Grows(q, r, new.desired) /\ EndsWith(r, new.desired)
      BY <2>1, <2>3 DEF Grows, EndsWith
    <2> QED
      BY <1>3, <2>5 DEF r
  <1> QED
    <2>1. Len(q) \in Nat /\ MaxQueue \in Nat
      BY NodeAgentAssumption DEF Queues
    <2> QED
      BY <1>1, <1>2, <1>3, <2>1 DEF Event, Deliver

AsksOf(e, q, a) ==
    [i \in 1..Len(q) + 2 |->
        IF i = 1 THEN e.desired ELSE IF i < Len(q) + 2 THEN q[i - 1].desired ELSE a.desired]

LEMMA AsksShape ==
    ASSUME NEW e \in Annotations, NEW q \in Queues, NEW a \in Annotations
    PROVE  LET s == AsksOf(e, q, a) IN
           /\ Len(q) \in Nat /\ DOMAIN q = 1..Len(q)
           /\ DOMAIN s = 1..Len(q) + 2 /\ Len(s) = Len(q) + 2 /\ s # <<>>
           /\ Head(s) = e.desired /\ s[1] = e.desired /\ s[Len(q) + 2] = a.desired
           /\ \A i \in 1..Len(q) : s[i + 1] = q[i].desired
  <1> DEFINE s == AsksOf(e, q, a)
  <1> HIDE DEF s
  <1>1. Len(q) \in Nat /\ DOMAIN q = 1..Len(q)
    BY DEF Queues
  <1>2. ASSUME NEW i \in 1..Len(q)
        PROVE  s[i + 1] = q[i].desired /\ q[i].desired \in AnyRev
    <2>1. i + 1 \in 1..Len(q) + 2 /\ i + 1 # 1 /\ i + 1 < Len(q) + 2 /\ (i + 1) - 1 = i
      BY <1>1, <1>2
    <2>2. s[i + 1] = q[i].desired
      BY <2>1 DEF s, AsksOf
    <2>3. q \in Seq(Annotations) /\ i \in DOMAIN q
      BY <1>1, <1>2 DEF Queues
    <2>4. q[i] \in Annotations
      BY <2>3
    <2> QED
      BY <2>2, <2>4 DEF Annotations
  <1>3. /\ s[1] = e.desired /\ s[Len(q) + 2] = a.desired
        /\ e.desired \in AnyRev /\ a.desired \in AnyRev
    BY <1>1 DEF s, AsksOf, Annotations
  <1>4. ASSUME NEW i \in 1..Len(q) + 2
        PROVE  s[i] \in AnyRev
    <2>1. CASE i = 1 \/ i = Len(q) + 2
      BY <1>3, <2>1
    <2>2. CASE i # 1 /\ i # Len(q) + 2
      <3>1. i - 1 \in 1..Len(q) /\ (i - 1) + 1 = i
        BY <1>1, <1>4, <2>2
      <3> QED
        BY <1>2, <3>1
    <2> QED
      BY <2>1, <2>2
  <1>5. DOMAIN s = 1..Len(q) + 2 /\ Len(q) + 2 \in Nat
    BY <1>1 DEF s, AsksOf
  <1>6. s \in [1..Len(q) + 2 -> AnyRev]
    <2>1. s = [i \in 1..Len(q) + 2 |-> s[i]]
      BY DEF s, AsksOf
    <2> QED
      BY <1>4, <2>1
  <1>7. s \in Seq(AnyRev)
    BY <1>5, <1>6
  <1>8. Len(s) = Len(q) + 2
    BY <1>5, <1>7
  <1>9. Head(s) = s[1] /\ s # <<>>
    BY <1>1, <1>7, <1>8
  <1> QED
    BY <1>1, <1>2, <1>3, <1>5, <1>8, <1>9 DEF s

LEMMA AsksAre ==
    Asks = AsksOf(ev, queue, ann) /\ Asks' = AsksOf(ev', queue', ann')
  BY DEF Asks, AsksOf

LEMMA TypePartsOfNext ==
    ASSUME TypeOK'
    PROVE  ann' \in Annotations /\ queue' \in Queues /\ ev' \in Annotations
  BY DEF TypeOK, Queues

LEMMA AsksNow ==
    ASSUME TypeOK
    PROVE  /\ Len(queue) \in Nat /\ DOMAIN queue = 1..Len(queue)
           /\ Len(Asks) = Len(queue) + 2 /\ Head(Asks) = ev.desired
           /\ Asks[1] = ev.desired /\ Asks[Len(queue) + 2] = ann.desired
           /\ \A i \in 1..Len(queue) : Asks[i + 1] = queue[i].desired
  BY AsksShape, AsksAre, TypeParts

LEMMA AsksNext ==
    ASSUME TypeOK'
    PROVE  /\ Len(queue') \in Nat /\ DOMAIN queue' = 1..Len(queue')
           /\ Len(Asks') = Len(queue') + 2 /\ DOMAIN Asks' = 1..Len(queue') + 2 /\ Asks' # <<>>
           /\ Asks'[1] = ev'.desired /\ Asks'[Len(queue') + 2] = ann'.desired
           /\ \A i \in 1..Len(queue') : Asks'[i + 1] = queue'[i].desired
  BY AsksShape, AsksAre, TypePartsOfNext

\* The agent may drop what it works on, and may read what the node asks for again.
LEMMA GrowsKeeps ==
    ASSUME TypeOK, TypeOK', ann'.desired = ann.desired, ev'.desired \in {NoRev, ev.desired},
           Grows(queue, queue', ann.desired)
    PROVE  Contract!Keeps
  <1> DEFINE n == Len(queue) + 2
             m == Len(queue') + 2
  <1>1. /\ Len(queue) \in Nat /\ Len(Asks) = n /\ Asks[1] = ev.desired /\ Asks[n] = ann.desired
        /\ \A i \in 1..Len(queue) : Asks[i + 1] = queue[i].desired
        /\ DOMAIN queue = 1..Len(queue)
    BY AsksNow
  <1>2. /\ Len(queue') \in Nat /\ Len(Asks') = m /\ DOMAIN Asks' = 1..m /\ Asks' # <<>>
        /\ Asks'[1] = ev'.desired /\ Asks'[m] = ann'.desired
        /\ \A i \in 1..Len(queue') : Asks'[i + 1] = queue'[i].desired
        /\ DOMAIN queue' = 1..Len(queue')
    BY AsksNext
  <1>3. ASSUME NEW i \in 1..m
        PROVE  Asks'[i] \in {NoRev, Asks[IF i + 0 < n THEN i + 0 ELSE n]}
    <2>1. CASE i = 1
      BY <1>1, <1>2, <2>1
    <2>2. CASE i # 1 /\ i < n
      <3>1. i - 1 \in 1..Len(queue) /\ i - 1 \in 1..Len(queue') /\ (i - 1) + 1 = i
        BY <1>1, <1>2, <1>3, <2>2 DEF Grows
      <3>2. Asks'[i] = queue'[i - 1].desired /\ Asks[i] = queue[i - 1].desired
        BY <1>1, <1>2, <3>1
      <3>3. queue'[i - 1].desired = queue[i - 1].desired
        BY <1>1, <3>1 DEF Grows
      <3> QED
        BY <1>3, <2>2, <3>2, <3>3
    <2>3. CASE i # 1 /\ i >= n /\ i < m
      <3>1. i - 1 \in 1..Len(queue') /\ (i - 1) + 1 = i /\ i - 1 > Len(queue) /\ ~(i + 0 < n)
        BY <1>1, <1>2, <1>3, <2>3
      <3>2. Asks'[i] = queue'[i - 1].desired /\ queue'[i - 1].desired = ann.desired
        BY <1>2, <3>1 DEF Grows
      <3> QED
        BY <1>1, <3>1, <3>2
    <2>4. CASE i = m
      <3>1. ~(i + 0 < n)
        BY <1>1, <1>2, <2>4 DEF Grows
      <3> QED
        BY <1>1, <1>2, <2>4, <3>1
    <2>5. i = 1 \/ (i # 1 /\ i < n) \/ (i # 1 /\ i >= n /\ i < m) \/ i = m
      BY <1>1, <1>2, <1>3
    <2> QED
      BY <2>1, <2>2, <2>3, <2>4, <2>5
  <1>4. 0 \in 0..Len(Asks) - 1
    BY <1>1
  <1> QED
    BY <1>1, <1>2, <1>3, <1>4 DEF Contract!Keeps, Contract!NoRev, NoRev

\* An agent that starts forgets all requests but the last.
LEMMA RestartKeeps ==
    ASSUME TypeOK, TypeOK', ann'.desired = ann.desired, ev'.desired \in {NoRev, ann.desired},
           \A i \in DOMAIN queue' : queue'[i].desired = ann.desired
    PROVE  Contract!Keeps
  <1> DEFINE n == Len(queue) + 2
             m == Len(queue') + 2
  <1>1. Len(queue) \in Nat /\ Len(Asks) = n /\ Asks[n] = ann.desired
    BY AsksNow
  <1>2. /\ Len(queue') \in Nat /\ Len(Asks') = m /\ DOMAIN Asks' = 1..m /\ Asks' # <<>>
        /\ Asks'[1] = ev'.desired /\ Asks'[m] = ann'.desired
        /\ \A i \in 1..Len(queue') : Asks'[i + 1] = queue'[i].desired
        /\ DOMAIN queue' = 1..Len(queue')
    BY AsksNext
  <1>3. ASSUME NEW i \in 1..m
        PROVE  Asks'[i] \in {NoRev, Asks[IF i + (n - 1) < n THEN i + (n - 1) ELSE n]}
    <2>1. ~(i + (n - 1) < n)
      BY <1>1, <1>3
    <2>2. Asks'[i] \in {NoRev, ann.desired}
      <3>1. CASE i = 1 \/ i = m
        BY <1>2, <3>1
      <3>2. CASE i # 1 /\ i # m
        <4>1. i - 1 \in 1..Len(queue') /\ (i - 1) + 1 = i
          BY <1>2, <1>3, <3>2
        <4> QED
          BY <1>2, <4>1
      <3> QED
        BY <3>1, <3>2
    <2> QED
      BY <1>1, <2>1, <2>2
  <1>4. n - 1 \in 0..Len(Asks) - 1
    BY <1>1
  <1>5. \A i \in DOMAIN Asks' :
           Asks'[i] \in {NoRev, Asks[IF i + (n - 1) < Len(Asks) THEN i + (n - 1) ELSE Len(Asks)]}
    BY <1>1, <1>2, <1>3
  <1>6. \E passed \in 0..Len(Asks) - 1 : \A i \in DOMAIN Asks' :
           Asks'[i] \in {NoRev, Asks[IF i + passed < Len(Asks) THEN i + passed ELSE Len(Asks)]}
    BY <1>4, <1>5, Zenon
  <1> QED
    BY <1>1, <1>2, <1>6 DEF Contract!Keeps, Contract!NoRev, NoRev

\* An event is read: it is what the agent works on now, or nothing is.
LEMMA ReadKeeps ==
    ASSUME TypeOK, TypeOK', ann'.desired = ann.desired, queue # <<>>, queue' = Tail(queue),
           ev'.desired \in {NoRev, Head(queue).desired}
    PROVE  Contract!Keeps
  <1> DEFINE n == Len(queue) + 2
             m == Len(queue') + 2
  <1>1. /\ Len(queue) \in Nat /\ Len(Asks) = n /\ Asks[n] = ann.desired
        /\ \A i \in 1..Len(queue) : Asks[i + 1] = queue[i].desired
    BY AsksNow
  <1>2. /\ Len(queue') \in Nat /\ Len(Asks') = m /\ DOMAIN Asks' = 1..m /\ Asks' # <<>>
        /\ Asks'[1] = ev'.desired /\ Asks'[m] = ann'.desired
        /\ \A i \in 1..Len(queue') : Asks'[i + 1] = queue'[i].desired
    BY AsksNext
  <1>3. /\ Len(queue) >= 1 /\ Len(queue') = Len(queue) - 1 /\ Head(queue) = queue[1]
        /\ \A i \in 1..Len(queue') : queue'[i] = queue[i + 1]
    <2>1. queue \in Seq(Annotations)
      BY TypeParts DEF Queues
    <2> QED
      BY <2>1
  <1>4. ASSUME NEW i \in 1..m
        PROVE  Asks'[i] \in {NoRev, Asks[IF i + 1 < n THEN i + 1 ELSE n]}
    <2>1. CASE i = 1
      <3>1. 1 \in 1..Len(queue) /\ i + 1 < n
        BY <1>1, <1>3, <2>1
      <3>2. Asks[i + 1] = queue[1].desired
        BY <1>1, <2>1, <3>1
      <3> QED
        BY <1>2, <1>3, <2>1, <3>1, <3>2
    <2>2. CASE i # 1 /\ i < m
      <3>1. /\ i - 1 \in 1..Len(queue') /\ (i - 1) + 1 = i
            /\ i \in 1..Len(queue) /\ i + 1 < n
        BY <1>1, <1>2, <1>3, <1>4, <2>2
      <3>2. Asks'[i] = queue'[i - 1].desired /\ queue'[i - 1] = queue[i]
        BY <1>2, <1>3, <3>1
      <3>3. Asks[i + 1] = queue[i].desired
        BY <1>1, <3>1
      <3> QED
        BY <3>1, <3>2, <3>3
    <2>3. CASE i = m
      <3>1. ~(i + 1 < n)
        BY <1>1, <1>2, <1>3, <2>3
      <3> QED
        BY <1>1, <1>2, <2>3, <3>1
    <2>4. i = 1 \/ (i # 1 /\ i < m) \/ i = m
      BY <1>2, <1>4
    <2> QED
      BY <2>1, <2>2, <2>3, <2>4
  <1>5. 1 \in 0..Len(Asks) - 1
    BY <1>1
  <1>6. \A i \in DOMAIN Asks' :
           Asks'[i] \in {NoRev, Asks[IF i + 1 < Len(Asks) THEN i + 1 ELSE Len(Asks)]}
    BY <1>1, <1>2, <1>4
  <1>7. \E passed \in 0..Len(Asks) - 1 : \A i \in DOMAIN Asks' :
           Asks'[i] \in {NoRev, Asks[IF i + passed < Len(Asks) THEN i + passed ELSE Len(Asks)]}
    BY <1>5, <1>6, Zenon
  <1> QED
    BY <1>1, <1>2, <1>7 DEF Contract!Keeps, Contract!NoRev, NoRev

\* The controller's request comes last, in the watch and on the node.
LEMMA AskKeeps ==
    ASSUME TypeOK, TypeOK', NEW r, ev' = ev, ann'.desired = r,
           NEW k \in {Len(queue), Len(queue) - 1}, k \in Nat, k <= Len(queue'),
           \A i \in DOMAIN queue' : queue'[i].desired = IF i <= k THEN queue[i].desired ELSE r
    PROVE  \E kept \in {Len(Asks) - 1, Len(Asks) - 2} :
              /\ kept < Len(Asks')
              /\ \A i \in DOMAIN Asks' : Asks'[i] = IF i <= kept THEN Asks[i] ELSE r
  <1>1. /\ Len(queue) \in Nat /\ Len(Asks) = Len(queue) + 2 /\ Asks[1] = ev.desired
        /\ \A i \in 1..Len(queue) : Asks[i + 1] = queue[i].desired
    BY AsksNow
  <1>2. /\ Len(queue') \in Nat /\ DOMAIN queue' = 1..Len(queue')
        /\ Len(Asks') = Len(queue') + 2 /\ DOMAIN Asks' = 1..Len(queue') + 2
        /\ Asks'[1] = ev'.desired /\ Asks'[Len(queue') + 2] = ann'.desired
        /\ \A i \in 1..Len(queue') : Asks'[i + 1] = queue'[i].desired
    BY AsksNext
  <1>3. ASSUME NEW i \in DOMAIN Asks'
        PROVE  Asks'[i] = IF i <= k + 1 THEN Asks[i] ELSE r
    <2>1. CASE i = 1
      BY <1>1, <1>2, <2>1
    <2>2. CASE i = Len(queue') + 2
      <3>1. ~(i <= k + 1)
        BY <1>2, <2>2
      <3> QED
        BY <1>2, <2>2, <3>1
    <2>3. CASE i # 1 /\ i # Len(queue') + 2
      <3>1. i - 1 \in 1..Len(queue') /\ (i - 1) + 1 = i
        BY <1>2, <1>3, <2>3
      <3>2. Asks'[i] = IF i - 1 <= k THEN queue[i - 1].desired ELSE r
        BY <1>2, <3>1
      <3>3. CASE i - 1 <= k
        <4>1. i - 1 \in 1..Len(queue) /\ i <= k + 1
          BY <1>1, <3>1, <3>3
        <4>2. Asks[i] = queue[i - 1].desired
          BY <1>1, <3>1, <4>1
        <4> QED
          BY <3>2, <3>3, <4>1, <4>2
      <3>4. CASE ~(i - 1 <= k)
        <4>1. ~(i <= k + 1)
          BY <3>1, <3>4
        <4> QED
          BY <3>2, <3>4, <4>1
      <3> QED
        BY <3>3, <3>4
    <2> QED
      BY <2>1, <2>2, <2>3
  <1>4. k + 1 \in {Len(Asks) - 1, Len(Asks) - 2} /\ k + 1 < Len(Asks')
    BY <1>1, <1>2
  <1> QED
    BY <1>3, <1>4

\* A patch that leaves desired-revision alone.
LEMMA PatchTold ==
    ASSUME ContractInv, NEW a \in Annotations, a.desired = ann.desired, Patch(a)
    PROVE  /\ ann' = a /\ Grows(queue, queue', ann.desired) /\ EndsWith(queue', ann'.desired)
           /\ ~Watching => queue' = queue
  <1>1. queue \in Queues /\ EndsWith(queue, a.desired)
    BY TypeParts DEF ContractInv
  <1> QED
    BY <1>1, EventGrows DEF Patch, Event

LEMMA TryPatchTold ==
    ASSUME ContractInv, NEW a \in Annotations, a.desired = ann.desired, TryPatch(a)
    PROVE  /\ ann' \in {ann, a} /\ Grows(queue, queue', ann.desired)
           /\ EndsWith(queue', ann'.desired)
           /\ ~Watching => queue' = queue
  <1>1. PICK b \in {ann, a} : Patch(b)
    BY DEF TryPatch, Stored
  <1>2. b \in Annotations /\ b.desired = ann.desired
    BY TypeParts DEF ContractInv
  <1> QED
    BY <1>1, <1>2, PatchTold

LEMMA NoPatchTold ==
    ASSUME ContractInv, NoPatch
    PROVE  /\ ann' = ann /\ queue' = queue /\ Grows(queue, queue', ann.desired)
           /\ EndsWith(queue', ann'.desired)
  BY TypeParts DEF ContractInv, NoPatch, Grows, Queues

\* What the writes of the agent leave alone.
LEMMA Told ==
    ASSUME NEW a \in Annotations, NEW s \in AgentStates, NEW r \in AnyRev, NEW b \in BOOLEAN
    PROVE  /\ SetState(a, s).desired = a.desired /\ SetState(a, s).current = a.current
           /\ SetState(a, s).state = s
           /\ SetDone(a, r).desired = a.desired /\ SetDone(a, r).current = r
           /\ SetDone(a, r).state = "done"
           /\ [a EXCEPT !.pending = b].desired = a.desired
           /\ [a EXCEPT !.pending = b].current = a.current
           /\ [a EXCEPT !.pending = b].state = a.state
           /\ [a EXCEPT !.force = b].desired = a.desired
           /\ [a EXCEPT !.force = b].current = a.current
           /\ [a EXCEPT !.force = b].state = a.state
           /\ [a EXCEPT !.paused = b].desired = a.desired
           /\ [a EXCEPT !.paused = b].current = a.current
           /\ [a EXCEPT !.paused = b].state = a.state
  BY DEF SetState, SetDone, Annotations

\* The states the agent writes.
LEMMA WrittenStates == {"idle", "applying", "error", "rebooting", "done"} \subseteq AgentStates
  BY DEF AgentStates

\* A step on the event that is handled.
LEMMA WorkStep ==
    ASSUME ContractInv, TypeOK', pc \in Handles,
           ann'.desired = ann.desired, ann'.current = ann.current,
           ann'.state \in {ann.state, "applying", "error", "rebooting"},
           ev'.desired \in {NoRev, ev.desired}, Grows(queue, queue', ann.desired)
    PROVE  Contract!Next
  <1>1. Contract!Keeps
    BY GrowsKeeps DEF ContractInv
  <1>2. Head(Asks) # NoRev
    BY AsksNow DEF ContractInv
  <1>3. Contract!Forgets \/ Contract!Works
    BY <1>1, <1>2 DEF Contract!Forgets, Contract!Works, Contract!NoRev, NoRev
  <1> QED
    BY <1>3 DEF Contract!Next

\* What was asked for is done, or its report is lost.
LEMMA DoneStep ==
    ASSUME ContractInv, TypeOK', ev.desired # NoRev,
           \/ ann' = ann
           \/ ann'.desired = ann.desired /\ ann'.current = ev.desired /\ ann'.state = "done",
           ev'.desired \in {NoRev, ev.desired}, Grows(queue, queue', ann.desired)
    PROVE  Contract!Next
  <1>1. Contract!Keeps
    BY GrowsKeeps DEF ContractInv
  <1>2. Head(Asks) = ev.desired
    BY AsksNow DEF ContractInv
  <1>3. Contract!Forgets \/ Contract!Reports
    BY <1>1, <1>2 DEF Contract!Forgets, Contract!Reports, Contract!NoRev, NoRev
  <1> QED
    BY <1>3 DEF Contract!Next

\* The agent loses its watch and what it works on.
LEMMA RestartStep ==
    ASSUME ContractInv, TypeOK', ann' = ann, queue' = <<>>, ev'.desired \in {NoRev, ann.desired}
    PROVE  Contract!Next /\ EndsWith(queue', ann'.desired)
  <1>1. Contract!Keeps
    BY RestartKeeps DEF ContractInv
  <1>2. Contract!Forgets
    BY <1>1 DEF Contract!Forgets
  <1> QED
    BY <1>2 DEF Contract!Next, EndsWith

\* The starting agent: it drops what it has read.
LEMMA StartStep ==
    ASSUME ContractInv, TypeOK', ann'.desired = ann.desired, ann'.current = ann.current,
           ann'.state = ann.state, ev'.desired \in {NoRev, ev.desired},
           Grows(queue, queue', ann.desired)
    PROVE  Contract!Next
  <1>1. Contract!Keeps
    BY GrowsKeeps DEF ContractInv
  <1>2. Contract!Forgets
    BY <1>1 DEF Contract!Forgets
  <1> QED
    BY <1>2 DEF Contract!Next

LEMMA NoEventAsks == NoEvent.desired = NoRev
  BY DEF NoEvent

\* The steps of Run before the watch.
LEMMA ContractStarts ==
    ASSUME ContractInv, TypeOK',
           \/ Boot \/ CheckRebootNothing \/ CheckRebootPendingOnStartup \/ StartupSetDone \/ SetIdle
           \/ StartupPatchFails \/ StartupGetFails
    PROVE  ContractInv' /\ Contract!Next
  <1>1. ann \in Annotations /\ ev \in Annotations /\ ev.desired \in AnyRev
    BY TypeParts DEF ContractInv, Annotations
  <1>2. CASE Boot
    <2>1. /\ ann' = ann /\ queue' = <<>> /\ ev'.desired = ann.desired /\ pc' = "start"
      BY <1>2 DEF Boot, NoPatch, ContractInv
    <2>2. Contract!Next /\ EndsWith(queue', ann'.desired)
      BY <2>1, RestartStep
    <2> QED
      BY <2>1, <2>2 DEF ContractInv, Handles
  <1>3. CASE CheckRebootNothing \/ StartupPatchFails \/ StartupGetFails
    <2>1. /\ NoPatch /\ ev'.desired = NoRev /\ pc' = "idle" /\ pc \in {"start", "done"}
      BY <1>3, NoEventAsks DEF CheckRebootNothing, StartupPatchFails, StartupGetFails
    <2>2. /\ ann' = ann /\ queue' = queue /\ Grows(queue, queue', ann.desired)
          /\ EndsWith(queue', ann'.desired)
      BY <2>1, NoPatchTold
    <2>3. Contract!Next
      BY <2>1, <2>2, StartStep
    <2> QED
      BY <2>1, <2>2, <2>3 DEF ContractInv, Handles
  <1>4. CASE CheckRebootPendingOnStartup
    <2> DEFINE a == [ann EXCEPT !.pending = FALSE]
    <2>1. /\ a \in Annotations /\ a.desired = ann.desired
          /\ a.current = ann.current /\ a.state = ann.state
      BY <1>1, Told, WriteTypes, WrittenStates
    <2>2. Patch(a) /\ pc = "start" /\ pc' = "done" /\ ev' = ev
      BY <1>4 DEF CheckRebootPendingOnStartup
    <2> HIDE DEF a
    <2>3. /\ ann' = a /\ Grows(queue, queue', ann.desired) /\ EndsWith(queue', ann'.desired)
          /\ ~Watching => queue' = queue
      BY <2>1, <2>2, PatchTold
    <2>4. Contract!Next
      BY <2>1, <2>2, <2>3, StartStep
    <2> QED
      BY <2>2, <2>3, <2>4 DEF ContractInv, Handles, Watching
  <1>5. CASE StartupSetDone
    <2> DEFINE a == IF ev.desired # NoRev THEN SetDone(ann, ev.desired) ELSE ann
    <2>1. /\ a \in Annotations /\ a.desired = ann.desired
      BY <1>1, Told, WriteTypes, WrittenStates
    <2>2. ev.desired # NoRev => a.current = ev.desired /\ a.state = "done"
      BY <1>1 DEF SetDone, Annotations
    <2>3. ev.desired = NoRev => a = ann
      OBVIOUS
    <2>4. Patch(a) /\ pc = "done" /\ pc' = "idle" /\ ev'.desired = NoRev
      BY <1>5, NoEventAsks DEF StartupSetDone
    <2> HIDE DEF a
    <2>5. /\ ann' = a /\ Grows(queue, queue', ann.desired) /\ EndsWith(queue', ann'.desired)
          /\ ~Watching => queue' = queue
      BY <2>1, <2>4, PatchTold
    <2>6. CASE ev.desired # NoRev
      <3>1. Contract!Next
        BY <2>1, <2>2, <2>4, <2>5, <2>6, DoneStep
      <3> QED
        BY <2>4, <2>5, <3>1 DEF ContractInv, Handles, Watching
    <2>7. CASE ev.desired = NoRev
      <3>1. Contract!Next
        BY <2>3, <2>4, <2>5, <2>7, StartStep
      <3> QED
        BY <2>4, <2>5, <3>1 DEF ContractInv, Handles, Watching
    <2> QED
      BY <2>6, <2>7
  <1>6. CASE SetIdle
    <2>1. /\ ann' \in {ann, SetState(ann, "idle")} /\ pc = "idle" /\ pc' = "watch" /\ ev' = ev
          /\ queue' = <<ann'>>
      BY <1>6 DEF SetIdle, Stored
    <2>2. /\ ann'.desired = ann.desired /\ ann'.current = ann.current
          /\ ann'.state \in {ann.state, "idle"}
      <3>1. /\ SetState(ann, "idle").desired = ann.desired
            /\ SetState(ann, "idle").current = ann.current
            /\ SetState(ann, "idle").state = "idle"
        BY <1>1, Told, WrittenStates
      <3> QED
        BY <2>1, <3>1
    <2>3. \A i \in DOMAIN queue' : queue'[i].desired = ann.desired
      BY <2>1, <2>2
    <2>4. Contract!Keeps
      BY <2>1, <2>2, <2>3, RestartKeeps DEF ContractInv
    <2>5. Contract!Forgets \/ Contract!Starts
      BY <2>2, <2>4 DEF Contract!Forgets, Contract!Starts
    <2>6. EndsWith(queue', ann'.desired)
      BY <2>2, <2>3 DEF EndsWith
    <2> QED
      BY <2>1, <2>5, <2>6 DEF ContractInv, Handles, Contract!Next
  <1> QED
    BY <1>2, <1>3, <1>4, <1>5, <1>6

LEMMA ContractReads ==
    ASSUME ContractInv, TypeOK', ReadEvent
    PROVE  ContractInv' /\ Contract!Next
  <1>1. /\ ann' = ann /\ pc = "watch" /\ queue # <<>> /\ queue' = Tail(queue)
    BY DEF ReadEvent
  <1>2. \/ pc' = "watch" /\ ev' = ev
        \/ /\ pc' \in {"fetch", "fetchPending"}
           /\ ev' = Head(queue) /\ Head(queue).desired # NoRev
    BY DEF ReadEvent, NothingToDo
  <1>3. ev'.desired \in {NoRev, Head(queue).desired}
    BY <1>1, <1>2 DEF ContractInv
  <1>4. Contract!Keeps
    BY <1>1, <1>3, ReadKeeps DEF ContractInv
  <1>5. Contract!Forgets
    BY <1>1, <1>4 DEF Contract!Forgets
  <1>6. EndsWith(queue', ann'.desired)
    <2>1. queue \in Seq(Annotations)
      BY TypeParts DEF Queues, ContractInv
    <2>2. \A i \in DOMAIN queue' : i = Len(queue') => i + 1 \in DOMAIN queue /\ i + 1 = Len(queue)
                                                      /\ queue'[i] = queue[i + 1]
      BY <1>1, <2>1
    <2> QED
      BY <1>1, <2>2 DEF EndsWith, ContractInv
  <1> QED
    BY <1>1, <1>2, <1>5, <1>6 DEF ContractInv, Handles, Contract!Next

\* What SetDone, or its loss, leaves behind.
LEMMA FinishTold ==
    ASSUME ContractInv, Finish
    PROVE  /\ \/ ann' = ann
              \/ ann'.desired = ann.desired /\ ann'.current = ev.desired /\ ann'.state = "done"
           /\ ann'.desired = ann.desired
           /\ Grows(queue, queue', ann.desired) /\ EndsWith(queue', ann'.desired)
           /\ pc' = "watch" /\ ev'.desired = NoRev
  <1>1. ann \in Annotations /\ ev.desired \in AnyRev
    BY TypeParts DEF ContractInv, Annotations
  <1>2. /\ SetDone(ann, ev.desired) \in Annotations
        /\ SetDone(ann, ev.desired).desired = ann.desired
    BY <1>1, Told, WriteTypes, WrittenStates
  <1>3. /\ SetDone(ann, ev.desired).current = ev.desired
        /\ SetDone(ann, ev.desired).state = "done"
    BY <1>1 DEF SetDone, Annotations
  <1>4. TryPatch(SetDone(ann, ev.desired)) /\ pc' = "watch" /\ ev'.desired = NoRev
    BY NoEventAsks DEF Finish, Return
  <1>5. /\ ann' \in {ann, SetDone(ann, ev.desired)} /\ Grows(queue, queue', ann.desired)
        /\ EndsWith(queue', ann'.desired)
    BY <1>2, <1>4, TryPatchTold
  <1> QED
    BY <1>2, <1>3, <1>4, <1>5

\* What a patch of the state, or its loss, leaves behind.
LEMMA StateTold ==
    ASSUME ContractInv, NEW s \in {"applying", "error"},
           TryPatch(SetState(ann, s)) \/ Patch(SetState(ann, s))
    PROVE  /\ ann'.desired = ann.desired /\ ann'.current = ann.current
           /\ ann'.state \in {ann.state, s}
           /\ Grows(queue, queue', ann.desired) /\ EndsWith(queue', ann'.desired)
  <1>1. ann \in Annotations /\ s \in AgentStates
    BY TypeParts, WrittenStates DEF ContractInv
  <1>2. SetState(ann, s) \in Annotations
    BY <1>1, WriteTypes, RevisionTypes
  <1>3. /\ SetState(ann, s).desired = ann.desired /\ SetState(ann, s).current = ann.current
        /\ SetState(ann, s).state = s
    BY <1>1, Told, RevisionTypes
  <1>4. /\ ann' \in {ann, SetState(ann, s)} /\ Grows(queue, queue', ann.desired)
        /\ EndsWith(queue', ann'.desired)
    BY <1>2, <1>3, TryPatchTold, PatchTold
  <1> QED
    BY <1>3, <1>4

\* The three patches before a reboot.
LEMMA RebootTold ==
    ASSUME ContractInv, executeReboot
    PROVE  /\ ann'.desired = ann.desired /\ ann'.current = ann.current
           /\ ann'.state \in {ann.state, "rebooting"}
           /\ Grows(queue, queue', ann.desired) /\ EndsWith(queue', ann'.desired)
  <1>0. ann \in Annotations /\ queue \in Queues
    BY TypeParts DEF ContractInv
  <1>1. PICK rebooting \in Stored("apiError", ann, SetState(ann, "rebooting")) :
           \E unforced \in Stored("apiError", rebooting, [rebooting EXCEPT !.force = FALSE]) :
           \E cleared \in Stored("apiError", unforced, [unforced EXCEPT !.pending = FALSE]) :
              /\ ann' = cleared
              /\ queue' = Event(Event(Event(queue, ann, rebooting), rebooting, unforced),
                                unforced, cleared)
    BY DEF executeReboot
  <1>2. PICK unforced \in Stored("apiError", rebooting, [rebooting EXCEPT !.force = FALSE]) :
           \E cleared \in Stored("apiError", unforced, [unforced EXCEPT !.pending = FALSE]) :
              /\ ann' = cleared
              /\ queue' = Event(Event(Event(queue, ann, rebooting), rebooting, unforced),
                                unforced, cleared)
    BY <1>1
  <1>3. /\ ann' \in {unforced, [unforced EXCEPT !.pending = FALSE]}
        /\ queue' = Event(Event(Event(queue, ann, rebooting), rebooting, unforced),
                          unforced, ann')
    BY <1>2 DEF Stored
  <1>4. /\ rebooting \in Annotations /\ rebooting.desired = ann.desired
        /\ rebooting.current = ann.current /\ rebooting.state \in {ann.state, "rebooting"}
    <2>1. rebooting \in {ann, SetState(ann, "rebooting")}
      BY DEF Stored
    <2>2. /\ SetState(ann, "rebooting") \in Annotations
          /\ SetState(ann, "rebooting").desired = ann.desired
          /\ SetState(ann, "rebooting").current = ann.current
          /\ SetState(ann, "rebooting").state = "rebooting"
      BY <1>0, WriteTypes, Told, RevisionTypes, WrittenStates
    <2> QED
      BY <1>0, <2>1, <2>2
  <1>5. /\ unforced \in Annotations /\ unforced.desired = ann.desired
        /\ unforced.current = ann.current /\ unforced.state \in {ann.state, "rebooting"}
    <2>1. unforced \in {rebooting, [rebooting EXCEPT !.force = FALSE]}
      BY DEF Stored
    <2> QED
      BY <1>4, <2>1 DEF Annotations
  <1>6. /\ ann' \in Annotations /\ ann'.desired = ann.desired
        /\ ann'.current = ann.current /\ ann'.state \in {ann.state, "rebooting"}
    BY <1>3, <1>5 DEF Annotations
  <1> DEFINE q1 == Event(queue, ann, rebooting)
             q2 == Event(q1, rebooting, unforced)
             q3 == Event(q2, unforced, ann')
  <1> HIDE DEF q1, q2, q3
  <1>7. q1 \in Queues /\ Grows(queue, q1, ann.desired) /\ EndsWith(q1, ann.desired)
    BY <1>0, <1>4, EventType, EventGrows DEF q1, ContractInv
  <1>8. q2 \in Queues /\ Grows(q1, q2, ann.desired) /\ EndsWith(q2, ann.desired)
    BY <1>5, <1>7, EventType, EventGrows DEF q2
  <1>9. q3 \in Queues /\ Grows(q2, q3, ann.desired) /\ EndsWith(q3, ann.desired)
    BY <1>6, <1>8, EventType, EventGrows DEF q3
  <1>10. Grows(queue, q3, ann.desired)
    <2>1. Grows(queue, q2, ann.desired)
      BY <1>0, <1>7, <1>8, GrowsTwice
    <2> QED
      BY <1>0, <1>8, <1>9, <2>1, GrowsTwice
  <1>11. queue' = q3
    BY <1>3 DEF q1, q2, q3
  <1> QED
    BY <1>6, <1>9, <1>10, <1>11

\* After a step on an event the agent goes on with it or waits for the next.
GoesOn == (pc' = "watch" /\ ev'.desired = NoRev) \/ (pc' \in Handles /\ ev' = ev)

LEMMA HandlesStep ==
    ASSUME ContractInv, TypeOK', pc \in Handles, GoesOn,
           ann'.desired = ann.desired, ann'.current = ann.current,
           ann'.state \in {ann.state, "applying", "error", "rebooting"},
           Grows(queue, queue', ann.desired), EndsWith(queue', ann'.desired)
    PROVE  ContractInv' /\ Contract!Next
  <1>1. ev'.desired \in {NoRev, ev.desired}
    BY DEF GoesOn
  <1>2. Contract!Next
    BY <1>1, WorkStep
  <1> QED
    BY <1>2 DEF ContractInv, GoesOn, Handles

LEMMA FinishStep ==
    ASSUME ContractInv, TypeOK', pc \in Handles, Finish
    PROVE  ContractInv' /\ Contract!Next
  <1>1. /\ \/ ann' = ann
           \/ ann'.desired = ann.desired /\ ann'.current = ev.desired /\ ann'.state = "done"
        /\ ann'.desired = ann.desired
        /\ Grows(queue, queue', ann.desired) /\ EndsWith(queue', ann'.desired)
        /\ pc' = "watch" /\ ev'.desired = NoRev
    BY FinishTold
  <1>2. ev.desired # NoRev
    BY DEF ContractInv
  <1>3. Contract!Next
    BY <1>1, <1>2, DoneStep
  <1> QED
    BY <1>1, <1>3 DEF ContractInv, Handles

\* The steps of handleNodeUpdate.
LEMMA ContractHandles ==
    ASSUME ContractInv, TypeOK',
           \/ FetchFails \/ FetchPendingFails \/ SetApplying \/ SetApplyingFails
           \/ ApplyUnchanged \/ ApplyChanges \/ ApplyFails \/ OwnershipFails
           \/ NoReboot \/ setPending \/ setPendingFails \/ executeReboot \/ Execute \/ ExecuteFails
    PROVE  ContractInv' /\ Contract!Next
  <1>1. pc \in Handles
    BY DEF FetchFails, FetchPendingFails, SetApplying, SetApplyingFails, ApplyUnchanged,
       ApplyChanges, ApplyFails, OwnershipFails, NoReboot, setPending, setPendingFails,
       executeReboot, Execute, ExecuteFails, RebootRequired, RebootNotRequired, Handles
  <1>r. Return => GoesOn
    BY NoEventAsks DEF Return, GoesOn
  <1>n. ASSUME NoPatch, GoesOn
        PROVE  ContractInv' /\ Contract!Next
    BY <1>1, <1>n, NoPatchTold, HandlesStep
  <1>e. ASSUME SetError, GoesOn
        PROVE  ContractInv' /\ Contract!Next
    <2>1. /\ ann'.desired = ann.desired /\ ann'.current = ann.current
          /\ ann'.state \in {ann.state, "error"}
          /\ Grows(queue, queue', ann.desired) /\ EndsWith(queue', ann'.desired)
      BY <1>e, StateTold DEF SetError
    <2> QED
      BY <1>1, <1>e, <2>1, HandlesStep
  <1>2. CASE FetchFails \/ ApplyFails \/ OwnershipFails
    BY <1>2, <1>r, <1>e DEF FetchFails, ApplyFails, OwnershipFails
  <1>3. CASE FetchPendingFails \/ SetApplyingFails \/ Execute
    BY <1>3, <1>r, <1>n DEF FetchPendingFails, SetApplyingFails, Execute
  <1>4. CASE setPendingFails \/ ExecuteFails
    BY <1>4, <1>r, <1>n, <1>e DEF setPendingFails, ExecuteFails
  <1>5. CASE ApplyUnchanged
    BY <1>1, <1>5, FinishStep DEF ApplyUnchanged
  <1>6. CASE NoReboot
    BY <1>1, <1>6, <1>r, <1>n, FinishStep DEF NoReboot
  <1>7. CASE ApplyChanges
    <2>1. NoPatch /\ GoesOn
      BY <1>7 DEF ApplyChanges, GoesOn, Handles
    <2> QED
      BY <2>1, <1>n
  <1>8. CASE SetApplying
    <2>1. Patch(SetState(ann, "applying")) /\ GoesOn
      BY <1>8 DEF SetApplying, GoesOn, Handles
    <2>2. /\ ann'.desired = ann.desired /\ ann'.current = ann.current
          /\ ann'.state \in {ann.state, "applying"}
          /\ Grows(queue, queue', ann.desired) /\ EndsWith(queue', ann'.desired)
      BY <2>1, StateTold
    <2> QED
      BY <1>1, <2>1, <2>2, HandlesStep
  <1>9. CASE setPending
    <2> DEFINE a == [ann EXCEPT !.pending = TRUE]
    <2>1. /\ a \in Annotations /\ a.desired = ann.desired
          /\ a.current = ann.current /\ a.state = ann.state
      BY TypeParts DEF ContractInv, Annotations
    <2>2. Patch(a) /\ GoesOn
      BY <1>9, <1>r DEF setPending
    <2> HIDE DEF a
    <2>3. /\ ann' = a /\ Grows(queue, queue', ann.desired) /\ EndsWith(queue', ann'.desired)
      BY <2>1, <2>2, PatchTold
    <2> QED
      BY <1>1, <2>1, <2>2, <2>3, HandlesStep
  <1>10. CASE executeReboot
    <2>1. GoesOn
      BY <1>10 DEF executeReboot, GoesOn, Handles
    <2> QED
      BY <1>1, <1>10, <2>1, RebootTold, HandlesStep
  <1> QED
    BY <1>2, <1>3, <1>4, <1>5, <1>6, <1>7, <1>8, <1>9, <1>10

\* The controller's request reaches the agent after all the others; a full watch
\* loses the one before it.
LEMMA ContractAsks ==
    ASSUME ContractInv, TypeOK', NEW r \in Revisions, ControllerAsks(r)
    PROVE  ContractInv' /\ Contract!Next
  <1> DEFINE a == [ann EXCEPT !.desired = r]
  <1>1. /\ a \in Annotations /\ a.desired = r /\ a.current = ann.current /\ a.state = ann.state
    BY TypeParts, RevisionTypes DEF ContractInv, Annotations
  <1>2. /\ ann' = a /\ queue' = Event(queue, ann, a) /\ r # ann.desired /\ pc' = pc /\ ev' = ev
    BY DEF ControllerAsks, Outside, Patch
  <1>3. queue \in Queues /\ Len(queue) \in Nat /\ DOMAIN queue = 1..Len(queue)
    BY TypeParts DEF ContractInv, Queues
  <1>4. a # ann
    BY <1>1, <1>2
  <1> HIDE DEF a
  <1>5. ASSUME NEW k \in {Len(queue), Len(queue) - 1}, k \in Nat, k <= Len(queue'),
               \A i \in DOMAIN queue' :
                  queue'[i].desired = IF i <= k THEN queue[i].desired ELSE r
        PROVE  Contract!Next
    <2>1. \E kept \in {Len(Asks) - 1, Len(Asks) - 2} :
             /\ kept < Len(Asks')
             /\ \A i \in DOMAIN Asks' : Asks'[i] = IF i <= kept THEN Asks[i] ELSE r
      BY <1>1, <1>2, <1>5, AskKeeps DEF ContractInv
    <2>2. Contract!Ask(r)
      BY <1>1, <1>2, <2>1 DEF Contract!Ask
    <2> QED
      BY <2>2 DEF Contract!Next
  <1>6. CASE ~Watching
    <2>1. queue = <<>> /\ queue' = queue
      BY <1>2, <1>6 DEF ContractInv, Watching, Event
    <2>2. Contract!Next
      BY <1>3, <1>5, <2>1
    <2>3. EndsWith(queue', ann'.desired)
      BY <2>1 DEF EndsWith
    <2> QED
      BY <1>2, <2>1, <2>2, <2>3 DEF ContractInv
  <1>7. CASE Watching /\ Len(queue) < MaxQueue
    <2>1. queue' = Append(queue, a)
      BY <1>2, <1>4, <1>7 DEF Event, Deliver
    <2>2. /\ Len(queue') = Len(queue) + 1 /\ DOMAIN queue' = 1..Len(queue) + 1
          /\ queue'[Len(queue) + 1] = a
          /\ \A i \in 1..Len(queue) : queue'[i] = queue[i]
      BY <1>1, <1>3, <2>1 DEF Queues
    <2>3. \A i \in DOMAIN queue' :
             queue'[i].desired = IF i <= Len(queue) THEN queue[i].desired ELSE r
      BY <1>1, <1>3, <2>2
    <2>4. Contract!Next
      BY <1>3, <1>5, <2>2, <2>3
    <2>5. EndsWith(queue', ann'.desired)
      BY <1>1, <1>2, <2>2 DEF EndsWith
    <2> QED
      BY <1>2, <1>7, <2>4, <2>5 DEF ContractInv, Watching
  <1>8. CASE Watching /\ ~(Len(queue) < MaxQueue)
    <2>1. queue' = Append(Front(queue), a)
      BY <1>2, <1>4, <1>8 DEF Event, Deliver
    <2>2. Len(queue) >= 1
      BY <1>3, <1>8, NodeAgentAssumption
    <2>4. /\ Len(queue') = Len(queue) /\ DOMAIN queue' = 1..Len(queue)
          /\ queue'[Len(queue)] = a
          /\ \A i \in 1..Len(queue) - 1 : queue'[i] = queue[i]
      BY <1>1, <1>3, <2>1, <2>2, PushesOut DEF Queues
    <2>5. \A i \in DOMAIN queue' :
             queue'[i].desired = IF i <= Len(queue) - 1 THEN queue[i].desired ELSE r
      BY <1>1, <1>3, <2>4
    <2>6. Len(queue) - 1 \in Nat /\ Len(queue) - 1 <= Len(queue')
      BY <1>3, <2>2, <2>4
    <2>7. Contract!Next
      BY <1>5, <2>5, <2>6
    <2>8. EndsWith(queue', ann'.desired)
      BY <1>1, <1>2, <2>4 DEF EndsWith
    <2> QED
      BY <1>2, <1>8, <2>7, <2>8 DEF ContractInv, Watching
  <1> QED
    BY <1>6, <1>7, <1>8

\* Restarts, reboots, and what kubelet and the admin do.
LEMMA ContractAround ==
    ASSUME ContractInv, TypeOK',
           \/ HostReboots \/ UnplannedReboot \/ AgentRestarts \/ IntervalElapses \/ Heartbeat
           \/ AdminPauses \/ AdminForcesReboot
    PROVE  ContractInv' /\ Contract!Next
  <1>1. ann \in Annotations /\ queue \in Queues
    BY TypeParts DEF ContractInv
  <1>2. CASE HostReboots \/ UnplannedReboot \/ AgentRestarts
    <2>1. /\ ann' = ann /\ queue' = <<>>
          /\ \/ pc' = "down" /\ ev'.desired = NoRev
             \/ pc' = "start" /\ ev'.desired = ann.desired
      BY <1>2, NoEventAsks DEF HostReboots, UnplannedReboot, AgentRestarts, HostRestarts, Stops
    <2>2. Contract!Next /\ EndsWith(queue', ann'.desired)
      BY <2>1, RestartStep
    <2> QED
      BY <2>1, <2>2 DEF ContractInv, Handles
  <1>3. CASE IntervalElapses
    <2>1. NoPatch /\ pc' = pc /\ ev' = ev
      BY <1>3 DEF IntervalElapses
    <2>2. /\ ann' = ann /\ queue' = queue /\ Grows(queue, queue', ann.desired)
          /\ EndsWith(queue', ann'.desired)
      BY <2>1, NoPatchTold
    <2>3. Contract!Next
      BY <2>1, <2>2, StartStep
    <2> QED
      BY <2>1, <2>2, <2>3 DEF ContractInv
  <1>4. CASE Heartbeat
    <2>1. ann' = ann /\ queue = <<>> /\ queue' = <<ann>> /\ pc' = pc /\ ev' = ev /\ Watching
      BY <1>4 DEF Heartbeat
    <2>2. Grows(queue, queue', ann.desired) /\ EndsWith(queue', ann'.desired)
      BY <2>1 DEF Grows, EndsWith
    <2>3. Contract!Next
      BY <2>1, <2>2, StartStep
    <2> QED
      BY <2>1, <2>2, <2>3 DEF ContractInv, Watching
  <1>o. ASSUME NEW a \in Annotations, a.desired = ann.desired, a.current = ann.current,
               a.state = ann.state, Outside(a)
        PROVE  ContractInv' /\ Contract!Next
    <2>1. /\ ann' = a /\ Grows(queue, queue', ann.desired) /\ EndsWith(queue', ann'.desired)
          /\ ~Watching => queue' = queue
      BY <1>o, PatchTold DEF Outside
    <2>2. pc' = pc /\ ev' = ev
      BY <1>o DEF Outside
    <2>3. Contract!Next
      BY <1>o, <2>1, <2>2, StartStep
    <2> QED
      BY <2>1, <2>2, <2>3 DEF ContractInv, Watching
  <1>5. CASE AdminPauses
    <2> DEFINE a == [ann EXCEPT !.paused = ~@]
    <2>1. /\ a \in Annotations /\ a.desired = ann.desired
          /\ a.current = ann.current /\ a.state = ann.state
      BY <1>1 DEF Annotations
    <2>2. Outside(a)
      BY <1>5 DEF AdminPauses
    <2> QED
      BY <1>o, <2>1, <2>2
  <1>6. CASE AdminForcesReboot
    <2> DEFINE a == [ann EXCEPT !.force = TRUE]
    <2>1. /\ a \in Annotations /\ a.desired = ann.desired
          /\ a.current = ann.current /\ a.state = ann.state
      BY <1>1 DEF Annotations
    <2>2. Outside(a)
      BY <1>6 DEF AdminForcesReboot
    <2> QED
      BY <1>o, <2>1, <2>2
  <1> QED
    BY <1>2, <1>3, <1>4, <1>5, <1>6

LEMMA InitContract ==
    ASSUME Init
    PROVE  ContractInv /\ Contract!Init
  <1>1. TypeOK
    BY InitTypes
  <1>2. ann = NoEvent /\ ev = NoEvent /\ queue = <<>> /\ pc = "down"
    BY DEF Init
  <1>3. ContractInv
    BY <1>1, <1>2, NoEventAsks DEF ContractInv, EndsWith, Handles
  <1>4. Asks # <<>> /\ DOMAIN Asks = 1..2 /\ Asks[1] = NoRev /\ Asks[2] = NoRev
    <2>1. Len(queue) = 0
      BY <1>2
    <2>2. /\ DOMAIN Asks = 1..Len(queue) + 2 /\ Asks # <<>>
          /\ Asks[1] = ev.desired /\ Asks[Len(queue) + 2] = ann.desired
      BY <1>1, AsksShape, AsksAre, TypeParts
    <2> QED
      BY <1>2, <2>1, <2>2, NoEventAsks
  <1>5. \A i \in DOMAIN Asks : Asks[i] = NoRev
    BY <1>4
  <1>6. ann.desired = NoRev /\ ann.current = NoRev /\ ann.state = ""
    BY <1>2 DEF NoEvent
  <1> QED
    BY <1>3, <1>4, <1>5, <1>6 DEF Contract!Init, Contract!NoRev, NoRev

LEMMA ContractStep ==
    ASSUME ContractInv, [Next]_agentVars
    PROVE  ContractInv' /\ [Contract!Next]_(Contract!contractVars)
  <1>1. TypeOK'
    BY TypeStep DEF ContractInv
  <1>2. CASE UNCHANGED agentVars
    <2>1. UNCHANGED <<ann, queue, ev, pc>>
      BY <1>2 DEF agentVars
    <2>2. UNCHANGED Contract!contractVars
      BY <2>1 DEF Contract!contractVars, Asks
    <2> QED
      BY <1>1, <2>1, <2>2 DEF ContractInv
  <1>3. CASE Next
    BY <1>1, <1>3, ContractStarts, ContractReads, ContractHandles, ContractAsks, ContractAround
    DEF Next, AgentRuns, AgentFails, Around
  <1> QED
    BY <1>2, <1>3

\* The agent, with the bounded watch whose events it reads one at a time, its
\* restarts, its reboots and the patches that it loses, is an agent as the
\* controller knows it: it takes what it is asked for in the order of asking,
\* reports only what it worked on, and never what it has passed.
THEOREM AgentKeepsContract == Spec => KeepsContract
  <1>1. Init => ContractInv /\ Contract!Init
    BY InitContract
  <1>2. ContractInv /\ [Next]_agentVars
           => ContractInv' /\ [Contract!Next]_(Contract!contractVars)
    BY ContractStep
  <1> QED
    BY <1>1, <1>2, PTL DEF Spec, KeepsContract, Contract!Spec
=============================================================================
