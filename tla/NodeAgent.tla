------------------------------ MODULE NodeAgent ------------------------------
(***************************************************************************)
(* The agent of one node in detail: its watch with the events it has not   *)
(* read yet, the patches it makes, the reboot handler, and what survives a *)
(* restart of the agent (annotations, files on the host) or of the host    *)
(* (the same without /run).                                                *)
(*                                                                         *)
(* watchNode handles one event at a time and to the end, on the copy of    *)
(* the node that the event carries.                                        *)
(***************************************************************************)
EXTENDS NodeState, SequencesExt

CONSTANTS
    Required,       \* configs with spec.reboot.required
    DiffRequires,   \* <<old, new>> whose difference requires a reboot
    Drops,          \* <<old, new>> where new only leaves out entries of old
    Restarts,       \* configs with a unit in state "restarted" or "reloaded"
    Strategy,       \* spec.reboot.strategy
    MinInterval,    \* spec.reboot.minIntervalSeconds
    LastReboot0,    \* last-reboot file at the start
    AgentEnv,       \* what the environment may do, a subset of AgentEnvActions
    MaxQueue,       \* bound: events the API server buffers for a watcher
    MaxAsks,        \* bound: desired revisions the controller sets
    MaxAdmin,       \* bound: interventions of an admin
    MaxFaults       \* bound: failures, restarts and unplanned reboots

AgentEnvActions ==
    {"revert",                                           \* controller
     "pause", "force",                                   \* admin
     "fetchError", "applyError", "ownerError", "apiError", "rebootError", "rmcGone",
     "stateFileError", "agentRestart", "hostReboot"}

\* last-reboot: absent, younger than minIntervalSeconds, or older.
LastReboots == {"none", "recent", "old"}

ASSUME NodeAgentAssumption ==
    /\ Required \subseteq Revisions /\ Restarts \subseteq Revisions
    /\ DiffRequires \subseteq Revisions \X Revisions
    /\ Drops \subseteq Revisions \X Revisions
    /\ Strategy \in {"Never", "IfRequired"}
    /\ MinInterval \in Nat
    /\ LastReboot0 \in LastReboots
    /\ AgentEnv \subseteq AgentEnvActions
    /\ MaxQueue \in Nat \ {0}
    /\ MaxAsks \in Nat /\ MaxAdmin \in Nat /\ MaxFaults \in Nat

VARIABLES
    ann,         \* the node's annotations in the API server
    queue,       \* events on the watch, oldest first
    pc,          \* where the agent is
    ev,          \* the copy of the node it works on
    pendingRev,  \* Agent.pendingRebootRevision
    lastReboot,  \* /var/lib/mco/last-reboot
    marker,      \* /run/mco/boot-marker exists
    disk,        \* the config that was written to the host; NoRev: none yet, or some
                 \* part of one over another
    goingDown,   \* systemctl reboot was accepted
    owed,        \* history: the changes since the last reboot require one
    used         \* bounds: asks, interventions and faults so far

agentVars == <<ann, queue, pc, ev, pendingRev, lastReboot, marker, disk, goingDown, owed, used>>

Annotations == [desired : AnyRev, current : AnyRev, state : AgentStates,
                pending : BOOLEAN, force : BOOLEAN, paused : BOOLEAN]

NoEvent == [desired |-> NoRev, current |-> NoRev, state |-> "",
            pending |-> FALSE, force |-> FALSE, paused |-> FALSE]

\* "start": Run has read the node; "done", "idle": Run is about to make the patch
\* of that name; "watch": watchNode reads events; the others are inside
\* handleNodeUpdate.
PCs == {"down", "start", "done", "idle", "watch", "fetch", "fetchPending",
        "apply", "decide", "execute", "executePending"}

\* "unknown": an apply failed half-way since the last reboot.
Owings == {"no", "yes", "unknown"}

Init ==
    /\ ann = NoEvent
    /\ queue = <<>>
    /\ pc = "down"
    /\ ev = NoEvent
    /\ pendingRev = NoRev
    /\ lastReboot = LastReboot0
    /\ marker = FALSE
    /\ disk = NoRev
    /\ goingDown = FALSE
    /\ owed = "no"
    /\ used = [asks |-> 0, admin |-> 0, faults |-> 0]

Watching == pc \notin {"down", "start", "done", "idle"}

\* Mutant: nothing bounds the events that wait.
DeliverLate(q, e) == Append(q, e)

\* A watcher that is too slow is closed by the API server; it reads what it has,
\* connects again, and gets the node as it is then.
Deliver(q, e) == IF Len(q) < MaxQueue THEN Append(q, e) ELSE Append(Front(q), e)

\* The events after a patch from old to new; one that changes nothing makes none.
Event(q, old, new) == IF Watching /\ new # old THEN Deliver(q, new) ELSE q

Patch(a) == ann' = a /\ queue' = Event(queue, ann, a)

NoPatch == UNCHANGED <<ann, queue>>

\* What may be stored after a write whose error is logged or returned to the watch
\* loop: nothing is undone and nothing is tried again.
Stored(kind, old, new) == IF kind \in AgentEnv THEN {old, new} ELSE {new}

TryPatch(a) == \E b \in Stored("apiError", ann, a) : Patch(b)

Use(kind, max) == used[kind] < max /\ used' = [used EXCEPT ![kind] = @ + 1]
FaultOf(kind) == kind \in AgentEnv /\ Use("faults", MaxFaults)

WriteBootMarker == marker' \in Stored("stateFileError", marker, TRUE)

Host == <<lastReboot, marker, disk, goingDown, owed>>

(***************************************************************************)
(* Run: startup.                                                           *)
(***************************************************************************)

\* The agent starts and reads its node.
Boot ==
    /\ pc = "down"
    /\ pc' = "start" /\ ev' = ann
    /\ NoPatch /\ UNCHANGED <<pendingRev, Host, used>>

\* The host has rebooted since reboot-pending was set.
RebootDetected == ev.pending /\ lastReboot # "none" /\ ~marker

\* CheckRebootPendingOnStartup with nothing to do but the boot marker.
CheckRebootNothing ==
    /\ pc = "start" /\ ~RebootDetected
    /\ pc' = "idle" /\ ev' = NoEvent /\ WriteBootMarker
    /\ NoPatch /\ UNCHANGED <<pendingRev, lastReboot, disk, goingDown, owed, used>>

\* It has found a reboot and clears reboot-pending.
CheckRebootPendingOnStartup ==
    /\ pc = "start" /\ RebootDetected
    /\ Patch([ann EXCEPT !.pending = FALSE])
    /\ pc' = "done"
    /\ UNCHANGED <<ev, pendingRev, Host, used>>

\* It then reports the desired revision it has read as done.
StartupSetDone ==
    /\ pc = "done"
    /\ Patch(IF ev.desired # NoRev THEN SetDone(ann, ev.desired) ELSE ann)
    /\ pc' = "idle" /\ ev' = NoEvent /\ WriteBootMarker
    /\ UNCHANGED <<pendingRev, lastReboot, disk, goingDown, owed, used>>

\* A patch of the check fails: it ends there.
StartupPatchFails ==
    /\ \/ pc = "start" /\ RebootDetected
       \/ pc = "done" /\ ev.desired # NoRev
    /\ FaultOf("apiError")
    /\ pc' = "idle" /\ ev' = NoEvent /\ WriteBootMarker
    /\ NoPatch /\ UNCHANGED <<pendingRev, lastReboot, disk, goingDown, owed>>

\* The API server cannot be reached for two minutes; the check is left out.
StartupGetFails ==
    /\ pc = "start" /\ FaultOf("apiError")
    /\ pc' = "idle" /\ ev' = NoEvent
    /\ NoPatch /\ UNCHANGED <<pendingRev, Host>>

\* The initial state is set, whatever the state was, and the watch begins with
\* the node as it is.
SetIdle ==
    /\ pc = "idle"
    /\ ann' \in Stored("apiError", ann, SetState(ann, "idle"))
    /\ queue' = <<ann'>>
    /\ pc' = "watch"
    /\ UNCHANGED <<ev, pendingRev, Host, used>>

(***************************************************************************)
(* handleNodeUpdate.                                                       *)
(***************************************************************************)

NothingToDo(e) == e.paused \/ e.desired \in {NoRev, e.current}

\* The agent takes the next event, and is done with one that asks for nothing.
ReadEvent ==
    /\ pc = "watch" /\ queue # <<>>
    /\ LET e == Head(queue) IN
          IF NothingToDo(e)
          THEN UNCHANGED <<pc, ev>>
          ELSE /\ pc' = IF pendingRev = e.desired \/ e.pending THEN "fetchPending" ELSE "fetch"
               /\ ev' = e
    /\ queue' = Tail(queue)
    /\ UNCHANGED <<ann, pendingRev, Host, used>>

\* The event is handled.
Return == pc' = "watch" /\ ev' = NoEvent

SetError == TryPatch(SetState(ann, "error"))

FetchFails ==
    /\ pc = "fetch" /\ FaultOf("fetchError")
    /\ SetError /\ Return
    /\ UNCHANGED <<pendingRev, Host>>

FetchPendingFails ==
    /\ pc = "fetchPending" /\ FaultOf("fetchError")
    /\ Return
    /\ NoPatch /\ UNCHANGED <<pendingRev, Host>>

\* applyConfig
SetApplying ==
    /\ pc = "fetch"
    /\ Patch(SetState(ann, "applying"))
    /\ pc' = "apply"
    /\ UNCHANGED <<ev, pendingRev, Host, used>>

\* The patch fails, and the event is given up.
SetApplyingFails ==
    /\ pc = "fetch" /\ FaultOf("apiError")
    /\ Return
    /\ NoPatch /\ UNCHANGED <<pendingRev, Host>>

\* Whether an apply of r can end with FilesApplied and UnitsApplied not both 0.
\* Contents are compared, not names: a host that holds no config, or parts of
\* several, may have all that r asks for already.
ChangesHost(r) ==
    IF r \in Restarts THEN {TRUE}
    ELSE IF disk = NoRev THEN BOOLEAN ELSE {disk # r /\ <<disk, r>> \notin Drops}

DetermineReboot(current, r, found) ==
    IF current = NoRev THEN r \in Required
    ELSE current # r /\ IF found THEN <<current, r>> \in DiffRequires ELSE r \in Required

\* What the change from the config the node runs to r really asks for.
RebootOwed(r) ==
    IF owed = "no" /\ disk # r /\ DetermineReboot(ann.current, r, TRUE) THEN "yes" ELSE owed

\* Mutant: the revision is read again after it was applied.
FinishWithLatest == TryPatch(SetDone(ann, ann.desired)) /\ pendingRev' = NoRev /\ Return

Finish == TryPatch(SetDone(ann, ev.desired)) /\ pendingRev' = NoRev /\ Return

\* Mutant: nothing was done, so nothing is reported.
ApplyUnchangedSilently ==
    /\ pc = "apply" /\ FALSE \in ChangesHost(ev.desired)
    /\ Return
    /\ NoPatch /\ UNCHANGED <<pendingRev, Host, used>>

\* Apply without a change on the host: no reboot check.
ApplyUnchanged ==
    /\ pc = "apply" /\ FALSE \in ChangesHost(ev.desired)
    /\ Finish
    /\ owed' = IF disk = NoRev THEN owed ELSE RebootOwed(ev.desired)
    /\ disk' = ev.desired
    /\ UNCHANGED <<lastReboot, marker, goingDown, used>>

ApplyChanges ==
    /\ pc = "apply" /\ TRUE \in ChangesHost(ev.desired)
    /\ owed' = RebootOwed(ev.desired)
    /\ disk' = ev.desired
    /\ pc' = "decide"
    /\ NoPatch /\ UNCHANGED <<ev, pendingRev, lastReboot, marker, goingDown, used>>

\* A file or unit fails, after some were written or none.
ApplyFails ==
    /\ pc = "apply" /\ FaultOf("applyError")
    /\ \/ UNCHANGED <<disk, owed>>
       \/ /\ TRUE \in ChangesHost(ev.desired) /\ disk # ev.desired
          /\ disk' = NoRev /\ owed' = "unknown"
    /\ SetError /\ Return
    /\ UNCHANGED <<pendingRev, lastReboot, marker, goingDown>>

\* The last file that had to be written was replaced, but its owner could not be
\* set: to the next apply nothing is left to do.
OwnershipFails ==
    /\ pc = "apply" /\ FaultOf("ownerError")
    /\ TRUE \in ChangesHost(ev.desired) /\ disk # ev.desired
    /\ disk' = ev.desired
    /\ owed' = RebootOwed(ev.desired)
    /\ SetError /\ Return
    /\ UNCHANGED <<pendingRev, lastReboot, marker, goingDown>>

(***************************************************************************)
(* HandleReboot, from applyConfig ("decide") and from a later event that   *)
(* finds the reboot pending ("fetchPending").                              *)
(***************************************************************************)

\* The policy lets the node reboot now.
MayReboot ==
    \/ ev.force
    \/ /\ Strategy = "IfRequired"
       /\ lastReboot = "none" \/ MinInterval = 0 \/ lastReboot = "old"

RebootRequired ==
    \/ pc = "fetchPending" /\ ev.desired \in Required
    \/ /\ pc = "decide"
       /\ \E found \in IF "rmcGone" \in AgentEnv THEN BOOLEAN ELSE {TRUE} :
             DetermineReboot(ev.current, ev.desired, found)

RebootNotRequired ==
    \/ pc = "fetchPending" /\ ev.desired \notin Required
    \/ /\ pc = "decide"
       /\ \E found \in IF "rmcGone" \in AgentEnv THEN BOOLEAN ELSE {TRUE} :
             ~DetermineReboot(ev.current, ev.desired, found)

NoReboot ==
    /\ RebootNotRequired
    /\ IF pc = "decide" THEN Finish ELSE Return /\ NoPatch /\ UNCHANGED pendingRev
    /\ UNCHANGED <<Host, used>>

\* After applyConfig the agent remembers which revision waits for a reboot.
Remember == pendingRev' = IF pc \in {"decide", "execute"} THEN ev.desired ELSE pendingRev

setPending ==
    /\ RebootRequired /\ ~MayReboot
    /\ Patch([ann EXCEPT !.pending = TRUE])
    /\ Remember /\ Return
    /\ UNCHANGED <<Host, used>>

setPendingFails ==
    /\ RebootRequired /\ ~MayReboot /\ FaultOf("apiError")
    /\ IF pc = "decide" THEN SetError ELSE NoPatch
    /\ Return
    /\ UNCHANGED <<pendingRev, Host>>

\* executeReboot up to the executor: the file and three patches, none of which
\* has to succeed.
executeReboot ==
    /\ RebootRequired /\ MayReboot
    /\ lastReboot' \in Stored("stateFileError", lastReboot, "recent")
    /\ \E rebooting \in Stored("apiError", ann, SetState(ann, "rebooting")) :
       \E unforced \in Stored("apiError", rebooting, [rebooting EXCEPT !.force = FALSE]) :
       \E cleared \in Stored("apiError", unforced, [unforced EXCEPT !.pending = FALSE]) :
          /\ ann' = cleared
          /\ queue' = Event(Event(Event(queue, ann, rebooting), rebooting, unforced),
                            unforced, cleared)
    /\ pc' = IF pc = "decide" THEN "execute" ELSE "executePending"
    /\ UNCHANGED <<ev, pendingRev, marker, disk, goingDown, owed, used>>

\* Mutant: applyConfig falls through to SetDone once the reboot is under way.
ExecuteAndFinish ==
    /\ pc \in {"execute", "executePending"}
    /\ goingDown' = TRUE
    /\ Finish
    /\ UNCHANGED <<lastReboot, marker, disk, owed, used>>

\* systemctl reboot returns at once; the agent goes on until the host stops it.
Execute ==
    /\ pc \in {"execute", "executePending"}
    /\ goingDown' = TRUE
    /\ Remember /\ Return
    /\ NoPatch /\ UNCHANGED <<lastReboot, marker, disk, owed, used>>

ExecuteFails ==
    /\ pc \in {"execute", "executePending"} /\ FaultOf("rebootError")
    /\ IF pc = "execute" THEN SetError ELSE NoPatch
    /\ Return
    /\ UNCHANGED <<pendingRev, Host>>

(***************************************************************************)
(* The node around the agent.                                              *)
(***************************************************************************)

\* The agent loses its memory and its watch.
Stops(next) ==
    /\ pc' = next /\ ev' = (IF next = "start" THEN ann ELSE NoEvent)
    /\ queue' = <<>> /\ pendingRev' = NoRev
    /\ UNCHANGED ann

\* The host starts with what is on its disk; /run is empty.
HostRestarts ==
    /\ Stops("down")
    /\ marker' = FALSE /\ goingDown' = FALSE /\ owed' = "no"
    /\ UNCHANGED <<lastReboot, disk>>

HostReboots == goingDown /\ HostRestarts /\ UNCHANGED used

\* A person, or a power failure, reboots the host.
UnplannedReboot == pc # "down" /\ FaultOf("hostReboot") /\ HostRestarts

AgentRestarts == pc # "down" /\ FaultOf("agentRestart") /\ Stops("start") /\ UNCHANGED Host

IntervalElapses ==
    /\ lastReboot = "recent" /\ MinInterval > 0
    /\ lastReboot' = "old"
    /\ NoPatch /\ UNCHANGED <<pc, ev, pendingRev, marker, disk, goingDown, owed, used>>

\* kubelet updates the node's status every few minutes, which is an event too.
Heartbeat ==
    /\ Watching /\ queue = <<>>
    /\ queue' = <<ann>>
    /\ UNCHANGED <<ann, pc, ev, pendingRev, Host, used>>

Outside(a) == Patch(a) /\ UNCHANGED <<pc, ev, pendingRev, Host>>

\* The controller sets desired-revision; without "revert", to something new.
ControllerAsks(r) ==
    /\ r # ann.desired
    /\ "revert" \notin AgentEnv => r > ann.desired
    /\ Use("asks", MaxAsks)
    /\ Outside([ann EXCEPT !.desired = r])

AdminPauses ==
    /\ "pause" \in AgentEnv /\ Use("admin", MaxAdmin)
    /\ Outside([ann EXCEPT !.paused = ~@])

AdminForcesReboot ==
    /\ "force" \in AgentEnv /\ ~ann.force /\ Use("admin", MaxAdmin)
    /\ Outside([ann EXCEPT !.force = TRUE])

AgentRuns ==
    \/ Boot \/ CheckRebootNothing \/ CheckRebootPendingOnStartup \/ StartupSetDone \/ SetIdle
    \/ ReadEvent \/ SetApplying \/ ApplyUnchanged \/ ApplyChanges
    \/ NoReboot \/ setPending \/ executeReboot \/ Execute

AgentFails ==
    \/ StartupPatchFails \/ StartupGetFails \/ FetchFails \/ FetchPendingFails
    \/ SetApplyingFails
    \/ ApplyFails \/ OwnershipFails \/ setPendingFails \/ ExecuteFails \/ AgentRestarts \/ UnplannedReboot

Around ==
    \/ HostReboots \/ IntervalElapses \/ Heartbeat
    \/ \E r \in Revisions : ControllerAsks(r)
    \/ AdminPauses \/ AdminForcesReboot

Next == AgentRuns \/ AgentFails \/ Around

Spec == Init /\ [][Next]_agentVars

\* The agent runs, a host that goes down does so, time passes, kubelet reports.
FairSpec ==
    /\ Spec
    /\ WF_agentVars(AgentRuns) /\ WF_agentVars(HostReboots)
    /\ WF_agentVars(IntervalElapses) /\ WF_agentVars(Heartbeat)

(***************************************************************************)
(* Properties.                                                             *)
(***************************************************************************)

TypeOK ==
    /\ ann \in Annotations
    /\ queue \in Seq(Annotations) /\ Len(queue) <= MaxQueue
    /\ pc \in PCs
    /\ ev \in Annotations
    /\ pendingRev \in AnyRev
    /\ lastReboot \in LastReboots
    /\ marker \in BOOLEAN
    /\ disk \in AnyRev
    /\ goingDown \in BOOLEAN
    /\ owed \in Owings
    /\ used \in [asks : Nat, admin : Nat, faults : Nat]

\* "CurrentRevision is the last successfully applied RMC name": when the agent
\* reports a revision as current, it is the one on the host.
ReportsWhatItApplied == [][ann'.current # ann.current => disk' = ann'.current]_agentVars

\* A configuration that requires a reboot is reported as done only after one,
\* unless an apply has failed half-way since the last reboot: then a later apply may
\* find nothing left to write, and the agent knows of no change.
RebootBeforeDone == [][ann'.state = "done" /\ ann.state # "done" => owed' # "yes"]_agentVars

\* What the agent works on, what waits in its watch, and what the node asks for now.
Asks ==
    [i \in 1..Len(queue) + 2 |->
        IF i = 1 THEN ev.desired
        ELSE IF i < Len(queue) + 2 THEN queue[i - 1].desired
        ELSE ann.desired]

\* The agent as the controller sees it.
Contract ==
    INSTANCE AgentContract WITH
        desired <- ann.desired,
        current <- ann.current,
        state   <- ann.state,
        asks    <- Asks

\* The agent takes requests in the order in which they were made and never
\* reports one that it has passed, through overflows of the watch, lost patches,
\* restarts and reboots.
KeepsContract == Contract!Spec

\* "Removing a reboot-requiring file also requires reboot": a node goes from one
\* configuration to another whose difference requires a reboot only with one.
DiffRebootBeforeDone ==
    [][ann.current # NoRev /\ <<ann.current, ann'.current>> \in DiffRequires
          => owed' # "yes"]_agentVars

\* A node that has what it was asked for, and whose agent has read all there is
\* to read, is in the state in which ShouldUncordon lets it go.
NotStranded ==
    /\ pc = "watch" /\ queue = <<>> /\ ~goingDown
    /\ ann.desired # NoRev /\ ann.current = ann.desired
    => ann.state = "done"

\* The node ends up with the revision it was asked for, and says so.
Converges == <>[](ann.desired # NoRev => ann.current = ann.desired /\ ann.state = "done")
=============================================================================
