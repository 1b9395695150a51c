----------------------------- MODULE HostConfig -----------------------------
(***************************************************************************)
(* How the agent brings a rendered config onto its host: file by file,     *)
(* then unit by unit and setting by setting, until all is done or one step *)
(* fails, and which of these changes make it reboot.  NodeAgent sees all   *)
(* of this as one step; here an apply can fail or the agent can die        *)
(* between any two of its effects, and the next apply starts from what is  *)
(* on the host.                                                            *)
(*                                                                         *)
(* The file system and systemd are modelled as the agent uses them.        *)
(***************************************************************************)
EXTENDS Naturals, Functions

CONSTANTS
    Paths, Units,    \* numbers: their order is the order of the names
    Config,          \* the rendered configs
    HostFaults,      \* what may fail, a subset of HostFaultKinds
    MaxHostFaults    \* bound: failures

HostFaultKinds ==
    {"write", "owner", "read", "call", "job", "rmcGone", "crash", "hostReboot"}

NoRev == 0
NoContent == 0    \* of a file that is absent
Revs == DOMAIN Config

FileSpecs == [state : {"present", "absent"}, content : Nat, mode : Nat, owner : Nat]
UnitSpecs == [mask : BOOLEAN, enabled : {"", "yes", "no"},
              state : {"", "started", "stopped", "restarted", "reloaded"}]

ASSUME HostConfigAssumption ==
    /\ Paths \subseteq Nat /\ Units \subseteq Nat
    /\ NoRev \notin Revs
    /\ \A r \in Revs :
          /\ DOMAIN Config[r].files \subseteq Paths
          /\ \A p \in DOMAIN Config[r].files :
                /\ Config[r].files[p] \in FileSpecs
                /\ (Config[r].files[p].content = NoContent) = (Config[r].files[p].state = "absent")
          /\ DOMAIN Config[r].units \subseteq Units
          /\ \A u \in DOMAIN Config[r].units : Config[r].units[u] \in UnitSpecs
          /\ Config[r].needs \subseteq ({"file"} \X Paths) \cup ({"unit"} \X Units)
    /\ HostFaults \subseteq HostFaultKinds
    /\ MaxHostFaults \in Nat

VARIABLES
    file,         \* the files of the host: content, mode and owner, or Absent
    unit,         \* its units: masked, enabled, active
    current,      \* current-revision, NoRev at first
    target,       \* the config that is being applied
    pc,           \* "idle", "apply", "reboot"
    todo,         \* steps of the apply that are left
    applied,      \* FilesApplied + UnitsApplied > 0
    done,         \* the config named by current was reported as done
    owed,         \* history: changed entries that require a reboot, since the last
    interrupted,  \* history: an apply was cut short or not reported, and since then no
                  \* reboot came when all was applied
    faults        \* bound: failures so far

hostVars == <<file, unit, current, target, pc, todo, applied, done, owed, interrupted, faults>>

\* A file that is not the agent's: its content may agree with a config.  Number 0
\* stands for the mode and the owner that no config asks for.
Foreign(c) == [content |-> c, mode |-> 0, owner |-> 0]

Absent == Foreign(NoContent)

Contents == {f.content : f \in UNION {Range(Config[r].files) : r \in Revs}} \ {NoContent}

Init ==
    /\ file \in [Paths -> {Foreign(c) : c \in Contents \cup {NoContent}}]
    /\ unit \in [Units -> {[masked |-> m, enabled |-> e, active |-> e] : m, e \in BOOLEAN}]
    /\ current = NoRev /\ target = NoRev
    /\ pc = "idle" /\ todo = {}
    /\ applied = FALSE /\ done = FALSE
    /\ owed = {} /\ interrupted = FALSE
    /\ faults = 0

Fault(kind) ==
    kind \in HostFaults /\ faults < MaxHostFaults /\ faults' = faults + 1

(***************************************************************************)
(* The apply.                                                              *)
(***************************************************************************)

\* mask, and enabled and state if they are given
UnitSteps(r, u) ==
    LET spec == Config[r].units[u] IN
    {<<"mask", u>>} \cup {<<"enabled", u>> : e \in {spec.enabled} \ {""}}
                    \cup {<<"state", u>> : e \in {spec.state} \ {""}}

\* What the apply of r does to the host.
Steps(r) ==
    {<<"file", p>> : p \in DOMAIN Config[r].files}
        \cup UNION {UnitSteps(r, u) : u \in DOMAIN Config[r].units}

Position == [mask |-> 1, enabled |-> 2, state |-> 3]

\* Files by path (sortFilesByPath), then units by name (sortUnitsByName), and of a
\* unit the mask first.
Before(s, t) ==
    \/ s[1] = "file" /\ t[1] # "file"
    \/ s[1] = "file" /\ t[1] = "file" /\ s[2] < t[2]
    \/ s[1] # "file" /\ t[1] # "file" /\ s[2] < t[2]
    \/ s[1] # "file" /\ t[1] # "file" /\ s[2] = t[2] /\ Position[s[1]] < Position[t[1]]

\* The node asks for another config than its own, or for one whose apply failed.
StartApply(r) ==
    /\ pc = "idle" /\ r # current
    /\ pc' = "apply" /\ target' = r /\ todo' = Steps(r)
    /\ applied' = FALSE /\ done' = FALSE
    /\ UNCHANGED <<file, unit, current, owed, interrupted, faults>>

\* The step of that kind for that name comes next.
At(kind, name) ==
    /\ pc = "apply" /\ <<kind, name>> \in todo
    /\ \A s \in todo \ {<<kind, name>>} : Before(<<kind, name>>, s)

FileSpec(p) == Config[target].files[p]
UnitSpec(u) == Config[target].units[u]

\* The step is over.
Past(kind, name) == todo' = todo \ {<<kind, name>>}

\* The step had nothing to do.
Skip(kind, name) ==
    /\ Past(kind, name)
    /\ UNCHANGED <<file, unit, current, target, pc, applied, done, owed, interrupted, faults>>

\* The step counts as a change of entry e, and was one if the host has changed.
Owe(e) ==
    owed' = IF file' = file /\ unit' = unit THEN owed ELSE owed \cup ({e} \cap Config[target].needs)

Changed(kind, name, e) ==
    /\ Past(kind, name) /\ applied' = TRUE /\ Owe(e)
    /\ UNCHANGED <<current, target, pc, done, interrupted>>

\* Mutant: the errors are collected, and the rest is applied.
FailAndGoOn ==
    /\ \E s \in todo : (\A t \in todo \ {s} : Before(s, t)) /\ todo' = todo \ {s}
    /\ interrupted' = TRUE
    /\ UNCHANGED <<current, target, pc, applied, done>>

\* Mutant: the steps that are left wait for the next apply.
FailAndWait ==
    /\ pc' = "idle" /\ interrupted' = TRUE
    /\ UNCHANGED <<current, target, todo, applied, done>>

\* The apply stops at the first error.
Fail ==
    /\ pc' = "idle" /\ todo' = {} /\ interrupted' = TRUE
    /\ UNCHANGED <<current, target, applied, done>>

\* Only the content is compared.
needsUpdate(p, spec) == file[p].content # spec.content

ToDelete(p) == FileSpec(p).state = "absent" /\ file[p] # Absent
ToWrite(p) == FileSpec(p).state = "present" /\ needsUpdate(p, FileSpec(p))

SkipFile(p) == At("file", p) /\ ~ToDelete(p) /\ ~ToWrite(p) /\ Skip("file", p)

deleteFile(p) ==
    /\ At("file", p) /\ ToDelete(p)
    /\ file' = [file EXCEPT ![p] = Absent] /\ UNCHANGED unit
    /\ Changed("file", p, <<"file", p>>) /\ UNCHANGED faults

Written(spec, owner) == [content |-> spec.content, mode |-> spec.mode, owner |-> owner]

writeFile(p) ==
    /\ At("file", p) /\ ToWrite(p)
    /\ file' = [file EXCEPT ![p] = Written(FileSpec(p), FileSpec(p).owner)] /\ UNCHANGED unit
    /\ Changed("file", p, <<"file", p>>) /\ UNCHANGED faults

\* Nothing is changed before the file is replaced.
FileFails(p) ==
    /\ At("file", p) /\ (ToDelete(p) \/ ToWrite(p)) /\ Fault("write")
    /\ Fail /\ UNCHANGED <<file, unit, owed>>

\* The file was replaced and belongs to the agent's user.
setOwnershipFails(p) ==
    /\ At("file", p) /\ ToWrite(p) /\ Fault("owner")
    /\ file' = [file EXCEPT ![p] = Written(FileSpec(p), 0)] /\ UNCHANGED unit
    /\ Owe(<<"file", p>>)
    /\ Fail

\* What the agent reads of a unit; an error leaves it with "".
Reads(s) == {s} \cup (IF "read" \in HostFaults THEN {""} ELSE {})

getUnitFileState(u) ==
    Reads(IF unit[u].masked THEN "masked"
          ELSE IF unit[u].enabled THEN "enabled" ELSE "disabled")
getActiveState(u) == Reads(IF unit[u].active THEN "active" ELSE "inactive")

\* A call to systemd changes the unit as told; or the job it starts fails, and the
\* agent does not look at its result.
Outcomes(u, setting, value) ==
    {value} \cup (IF setting = "active" /\ "job" \in HostFaults THEN {unit[u].active} ELSE {})

Call(kind, u, setting, value) ==
    /\ \E v \in Outcomes(u, setting, value) : unit' = [unit EXCEPT ![u][setting] = v]
    /\ UNCHANGED <<file, faults>>
    /\ Changed(kind, u, <<"unit", u>>)

applyMask(u) ==
    /\ At("mask", u)
    /\ \E state \in getUnitFileState(u) :
          IF UnitSpec(u).mask = (state = "masked") THEN Skip("mask", u)
          ELSE Call("mask", u, "masked", UnitSpec(u).mask)

ToEnable(u, state) == UnitSpec(u).enabled = "yes" /\ state # "enabled"

\* Mutant: a masked unit counts as disabled.
ToDisableEnabled(u, state) == UnitSpec(u).enabled = "no" /\ state = "enabled"

\* A masked unit can be disabled, and is again by every apply.
ToDisable(u, state) == UnitSpec(u).enabled = "no" /\ state \notin {"disabled", ""}

applyEnabled(u) ==
    /\ At("enabled", u)
    /\ \E state \in getUnitFileState(u) :
          \/ ~ToEnable(u, state) /\ ~ToDisable(u, state) /\ Skip("enabled", u)
          \/ ToEnable(u, state) /\ ~unit[u].masked /\ Call("enabled", u, "enabled", TRUE)
          \/ ToDisable(u, state) /\ Call("enabled", u, "enabled", FALSE)

\* restarted and reloaded are not idempotent: they always execute.
ToStart(u, state) ==
    \/ UnitSpec(u).state = "restarted"
    \/ UnitSpec(u).state = "started" /\ state # "active"
ToStop(u, state) == UnitSpec(u).state = "stopped" /\ state \notin {"inactive", ""}
ToReload(u) == UnitSpec(u).state = "reloaded"

applyState(u) ==
    /\ At("state", u)
    /\ \E state \in getActiveState(u) :
          \/ ~ToStart(u, state) /\ ~ToStop(u, state) /\ ~ToReload(u) /\ Skip("state", u)
          \/ ToStart(u, state) /\ ~unit[u].masked /\ Call("state", u, "active", TRUE)
          \/ ToStop(u, state) /\ Call("state", u, "active", FALSE)
          \/ ToReload(u) /\ Call("state", u, "active", unit[u].active)

\* systemd refuses to enable or to start a masked unit.
Refused(u) ==
    \/ At("enabled", u) /\ unit[u].masked /\ UnitSpec(u).enabled = "yes"
    \/ /\ At("state", u) /\ unit[u].masked
       /\ \E state \in getActiveState(u) : ToStart(u, state)

UnitRefused(u) ==
    /\ Refused(u)
    /\ Fail /\ UNCHANGED <<file, unit, owed, faults>>

UnitFails(u) ==
    /\ At("mask", u) \/ At("enabled", u) \/ At("state", u)
    /\ Fault("call")
    /\ Fail /\ UNCHANGED <<file, unit, owed>>

(***************************************************************************)
(* The reboot decision and the end of the apply.                           *)
(***************************************************************************)

\* Entries of new that old lacks or has otherwise; modes and owners count.
Added(old, new) == {e \in DOMAIN new : e \notin DOMAIN old}
Modified(old, new) == {e \in DOMAIN new \cap DOMAIN old : old[e] # new[e]}
Removed(old, new) == DOMAIN old \ DOMAIN new

Entries(kind, names) == {kind} \X names

\* Mutant: an added entry changes nothing that was there.
diffBasedRebootOfModified(old, new) ==
    \/ Entries("file", Modified(old.files, new.files)) \cap new.needs # {}
    \/ Entries("unit", Modified(old.units, new.units)) \cap new.needs # {}

\* Of what is added or modified the new config knows whether it requires a
\* reboot, of what is removed the old one.
diffBasedReboot(old, new) ==
    \/ (Entries("file", Added(old.files, new.files) \cup Modified(old.files, new.files))
          \cup Entries("unit", Added(old.units, new.units) \cup Modified(old.units, new.units)))
         \cap new.needs # {}
    \/ (Entries("file", Removed(old.files, new.files))
          \cup Entries("unit", Removed(old.units, new.units))) \cap old.needs # {}

\* spec.reboot.required of a config
RequiredOf(r) == Config[r].needs # {}

\* The old config may be gone.  Without requirements in either config the answer
\* is spec.reboot.required, which is then FALSE, as is the difference.
DetermineReboot(found) ==
    IF current # NoRev /\ found
    THEN diffBasedReboot(Config[current], Config[target])
    ELSE RequiredOf(target)

SetDone ==
    /\ pc' = "idle" /\ current' = target /\ done' = TRUE
    /\ UNCHANGED <<file, unit, target, todo, applied, owed, interrupted, faults>>

\* Without a change there is no reboot check.
ApplyEnds ==
    /\ pc = "apply" /\ todo = {}
    /\ \/ ~applied /\ SetDone
       \/ /\ applied
          /\ \E found \in IF "rmcGone" \in HostFaults THEN BOOLEAN ELSE {TRUE} :
                IF DetermineReboot(found)
                THEN /\ pc' = "reboot"
                     /\ UNCHANGED <<file, unit, current, target, todo, applied, done, owed,
                                    interrupted, faults>>
                ELSE SetDone

\* What is enabled comes up again.
UnitsAfterBoot == [u \in Units |->
    [unit[u] EXCEPT !.active = unit[u].enabled /\ ~unit[u].masked]]

Reboot ==
    /\ pc = "reboot"
    /\ unit' = UnitsAfterBoot /\ owed' = {}
    /\ UNCHANGED <<file, target, faults>>

\* reboot-pending is removed before a reboot: the agent that starts after it knows
\* nothing of the apply, and applies the config again.
RebootAppliesAgain ==
    /\ Reboot /\ interrupted' = FALSE
    /\ pc' = "apply" /\ todo' = Steps(target) /\ applied' = FALSE
    /\ UNCHANGED <<current, done>>

\* The removal was lost: the agent reports the config and does not apply it again.
RebootReports ==
    /\ Reboot /\ interrupted' = FALSE
    /\ pc' = "idle" /\ current' = target /\ done' = TRUE
    /\ UNCHANGED <<todo, applied>>

\* The node is asked for another config by then: the host has one that was never
\* reported, as after an apply that was cut short.
RebootOvertaken ==
    /\ Reboot /\ interrupted' = TRUE
    /\ pc' = "idle"
    /\ UNCHANGED <<current, todo, applied, done>>

\* The host reboots by itself while nothing is applied.  What an interrupted apply
\* has left on it stays.
HostReboot ==
    /\ pc = "idle" /\ Fault("hostReboot")
    /\ unit' = UnitsAfterBoot /\ owed' = {} /\ interrupted' = (interrupted /\ ~done)
    /\ UNCHANGED <<file, current, target, pc, todo, applied, done>>

\* The agent is stopped in the middle of an apply.
Crash ==
    /\ pc = "apply" /\ Fault("crash")
    /\ Fail /\ UNCHANGED <<file, unit, owed>>

Next ==
    \/ \E r \in Revs : StartApply(r)
    \/ \E p \in Paths :
          SkipFile(p) \/ deleteFile(p) \/ writeFile(p) \/ FileFails(p) \/ setOwnershipFails(p)
    \/ \E u \in Units :
          applyMask(u) \/ applyEnabled(u) \/ applyState(u) \/ UnitRefused(u) \/ UnitFails(u)
    \/ ApplyEnds \/ RebootAppliesAgain \/ RebootReports \/ RebootOvertaken
    \/ HostReboot \/ Crash

Spec == Init /\ [][Next]_hostVars

(***************************************************************************)
(* Properties.                                                             *)
(***************************************************************************)

Files == [content : Contents \cup {NoContent}, mode : Nat, owner : Nat]

\* Files and units are what they can be, and steps are left only during an apply.
TypeOK ==
    /\ file \in [Paths -> Files]
    /\ unit \in [Units -> [masked : BOOLEAN, enabled : BOOLEAN, active : BOOLEAN]]
    /\ {current, target} \subseteq Revs \cup {NoRev}
    /\ pc \in {"idle", "apply", "reboot"}
    /\ pc # "apply" => todo = {}
    /\ faults \in 0..MaxHostFaults

FileMatches(r, p) ==
    LET spec == Config[r].files[p] IN
    IF spec.state = "absent" THEN file[p] = Absent ELSE file[p].content = spec.content

FilesMatch(r) == \A p \in DOMAIN Config[r].files : FileMatches(r, p)

UnitMatches(r, u) ==
    LET spec == Config[r].units[u] IN
    /\ unit[u].masked = spec.mask
    /\ spec.enabled # "" => unit[u].enabled = (spec.enabled = "yes")
    /\ spec.state \in {"started", "restarted"} => unit[u].active
    /\ spec.state = "stopped" => ~unit[u].active

\* A node that reports a config as done has the contents of all its files and
\* the settings of all its units, however many applies of whatever configs were
\* cut short before, and after every reboot.
DoneMeansApplied ==
    done => FilesMatch(current) /\ \A u \in DOMAIN Config[current].units : UnitMatches(current, u)

\* "files first, then systemd units; on any error, it stops immediately"
\* (apply.go:38): a unit is started, restarted, reloaded or stopped only when
\* all files of its config are in place, also when the apply goes on from what a
\* failed one left.
StartedWithFiles ==
    [][\A u \in Units : At("state", u) /\ Past("state", u) /\ pc' = "apply"
          => FilesMatch(target)]_hostVars

\* The decision is made from the two configs, the changes from the host: if no
\* apply was cut short since the last reboot of a node that was done, and no config
\* was taken back before it was reported, a node is not done while a change that
\* requires a reboot waits for it.
RebootWhenNeeded == done /\ ~interrupted => owed = {}

\* "Set mode and owner" (docs/concepts/architecture.md:174): it does not hold,
\* since a file whose content agrees is not looked at further.
AttributesMatch ==
    done => \A p \in DOMAIN Config[current].files :
       LET spec == Config[current].files[p] IN
       spec.state = "present" => file[p].mode = spec.mode /\ file[p].owner = spec.owner
=============================================================================
