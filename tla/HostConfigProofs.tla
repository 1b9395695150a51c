-------------------------- MODULE HostConfigProofs --------------------------
(***************************************************************************)
(* What HostConfig promises, for all configs, paths and units and for any  *)
(* number of faults.  The invariants say of the apply that is under way    *)
(* which of its steps are done, in terms of the host and not of what the   *)
(* agent remembers.                                                        *)
(***************************************************************************)
EXTENDS HostConfig, TLAPS

UnitStates == [masked : BOOLEAN, enabled : BOOLEAN, active : BOOLEAN]

(***************************************************************************)
(* The steps of an apply.                                                  *)
(***************************************************************************)

\* The steps of a config, kind by kind (apply.go:78, systemd.go:83).
LEMMA StepKinds ==
    ASSUME NEW r \in Revs, NEW x
    PROVE  /\ <<"file", x>> \in Steps(r) <=> x \in DOMAIN Config[r].files
           /\ <<"mask", x>> \in Steps(r) <=> x \in DOMAIN Config[r].units
           /\ <<"enabled", x>> \in Steps(r)
                <=> x \in DOMAIN Config[r].units /\ Config[r].units[x].enabled # ""
           /\ <<"state", x>> \in Steps(r)
                <=> x \in DOMAIN Config[r].units /\ Config[r].units[x].state # ""
  <1>1. <<"file", x>> \in Steps(r) <=> x \in DOMAIN Config[r].files
    BY DEF Steps, UnitSteps
  <1>2. <<"mask", x>> \in Steps(r) <=> x \in DOMAIN Config[r].units
    BY DEF Steps, UnitSteps
  <1>3. <<"enabled", x>> \in Steps(r)
           <=> x \in DOMAIN Config[r].units /\ Config[r].units[x].enabled # ""
    <2>1. ASSUME NEW u
          PROVE  <<"enabled", x>> \in UnitSteps(r, u) <=> x = u /\ Config[r].units[u].enabled # ""
      BY DEF UnitSteps
    <2>2. <<"enabled", x>> \in Steps(r)
             <=> \E u \in DOMAIN Config[r].units : <<"enabled", x>> \in UnitSteps(r, u)
      BY DEF Steps
    <2> QED
      BY <2>1, <2>2
  <1>4. <<"state", x>> \in Steps(r)
           <=> x \in DOMAIN Config[r].units /\ Config[r].units[x].state # ""
    <2>1. ASSUME NEW u
          PROVE  <<"state", x>> \in UnitSteps(r, u) <=> x = u /\ Config[r].units[u].state # ""
      BY DEF UnitSteps
    <2>2. <<"state", x>> \in Steps(r)
             <=> \E u \in DOMAIN Config[r].units : <<"state", x>> \in UnitSteps(r, u)
      BY DEF Steps
    <2> QED
      BY <2>1, <2>2
  <1> QED
    BY <1>1, <1>2, <1>3, <1>4

\* While a unit is brought to its state no file of the config is left to apply.
LEMMA FilesFirst ==
    ASSUME NEW u, NEW p, At("state", u)
    PROVE  <<"file", p>> \notin todo
  BY DEF At, Before

\* A unit is masked or unmasked before it is enabled.
LEMMA MaskFirst ==
    ASSUME NEW u \in Units, At("enabled", u)
    PROVE  <<"mask", u>> \notin todo
  <1>1. Position["mask"] = 1 /\ Position["enabled"] = 2
    BY DEF Position
  <1>2. u \in Nat
    BY HostConfigAssumption
  <1> QED
    BY <1>1, <1>2 DEF At, Before

\* The configs are what HostConfigAssumption says of them.
LEMMA ConfigTypes ==
    ASSUME NEW r \in Revs
    PROVE  /\ \A p \in DOMAIN Config[r].files :
                 /\ p \in Paths
                 /\ Config[r].files[p] \in FileSpecs
                 /\ Config[r].files[p].content \in Contents \cup {NoContent}
                 /\ (Config[r].files[p].content = NoContent) <=> (Config[r].files[p].state = "absent")
           /\ \A u \in DOMAIN Config[r].units : u \in Units /\ Config[r].units[u] \in UnitSpecs
  <1>1. \A p \in DOMAIN Config[r].files : Config[r].files[p] \in Range(Config[r].files)
    BY DEF Range
  <1>2. \A p \in DOMAIN Config[r].files : Config[r].files[p].content \in Contents \cup {NoContent}
    BY <1>1 DEF Contents
  <1>3. \A p \in DOMAIN Config[r].files :
           (Config[r].files[p].content = NoContent) = (Config[r].files[p].state = "absent")
    BY HostConfigAssumption
  <1> QED
    BY <1>2, <1>3, HostConfigAssumption

(***************************************************************************)
(* Types, and the files of the apply that is under way.                    *)
(***************************************************************************)

\* Of the files of r those whose step is not in T are in place.
FilesDone(r, T) ==
    \A p \in DOMAIN Config[r].files : <<"file", p>> \notin T => FileMatches(r, p)

\* The files that the apply has passed are in place.
FilesInv ==
    /\ TypeOK
    /\ pc # "idle" => target \in Revs
    /\ pc = "apply" => todo \subseteq Steps(target) /\ FilesDone(target, todo)

LEMMA InitFiles ==
    ASSUME Init
    PROVE  FilesInv
  <1>1. file \in [Paths -> Files]
    BY DEF Init, Foreign, Files
  <1>2. unit \in [Units -> UnitStates]
    BY DEF Init, UnitStates
  <1> QED
    BY <1>1, <1>2, HostConfigAssumption DEF Init, FilesInv, TypeOK, UnitStates

\* A step that touches no file and ends or leaves the apply.
LEMMA FilesKept ==
    ASSUME FilesInv, UNCHANGED file, unit' \in [Units -> UnitStates],
           current' \in Revs \cup {NoRev}, UNCHANGED target,
           faults' \in 0..MaxHostFaults,
           \/ pc' = "idle" /\ todo' = {}
           \/ pc' = "reboot" /\ todo' = {} /\ target \in Revs
           \/ /\ pc = "apply" /\ pc' = "apply"
              /\ \E k \in {"mask", "enabled", "state"}, u \in Units : todo' = todo \ {<<k, u>>}
    PROVE  FilesInv'
  BY DEF FilesInv, TypeOK, UnitStates, FilesDone, FileMatches

\* A file is replaced or removed.
LEMMA FileWritten ==
    ASSUME FilesInv, NEW p, At("file", p),
           NEW f \in Files, file' = [file EXCEPT ![p] = f],
           unit' = unit, current' = current, target' = target,
           faults' \in 0..MaxHostFaults,
           \/ pc' = "idle" /\ todo' = {}
           \/ /\ pc' = "apply" /\ todo' = todo \ {<<"file", p>>}
              /\ IF FileSpec(p).state = "absent" THEN f = Absent ELSE f.content = FileSpec(p).content
    PROVE  FilesInv'
  <1>1. target \in Revs /\ p \in DOMAIN Config[target].files /\ p \in Paths
    BY StepKinds, ConfigTypes DEF At, FilesInv
  <1>2. TypeOK'
    BY <1>1 DEF FilesInv, TypeOK
  <1>3. CASE pc' = "apply"
    <2>1. FileMatches(target, p)'
      BY <1>1, <1>3 DEF FileMatches, FileSpec, FilesInv, TypeOK
    <2>2. ASSUME NEW q \in DOMAIN Config[target].files, <<"file", q>> \notin todo', q # p
          PROVE  FileMatches(target, q)'
      BY <1>1, <1>3, <2>2, ConfigTypes DEF FileMatches, FilesInv, TypeOK, FilesDone, At
    <2> QED
      BY <1>1, <1>2, <1>3, <2>1, <2>2 DEF FilesInv, FilesDone, At
  <1> QED
    BY <1>2, <1>3 DEF FilesInv

\* A call changes one setting of one unit.
LEMMA CallEffect ==
    ASSUME TypeOK, NEW u \in Units, NEW k, NEW setting \in {"masked", "enabled", "active"},
           NEW value \in BOOLEAN, Call(k, u, setting, value)
    PROVE  /\ unit' \in [Units -> UnitStates]
           /\ \A v \in Units \ {u} : unit'[v] = unit[v]
           /\ todo' = todo \ {<<k, u>>}
           /\ UNCHANGED <<file, current, target, pc, done, interrupted, faults>>
  <1>1. unit \in [Units -> UnitStates]
    BY DEF TypeOK, UnitStates
  <1>2. PICK v \in Outcomes(u, setting, value) : unit' = [unit EXCEPT ![u][setting] = v]
    BY DEF Call
  <1>3. v \in BOOLEAN
    BY <1>1 DEF Outcomes, UnitStates
  <1>4. unit' \in [Units -> UnitStates] /\ \A w \in Units \ {u} : unit'[w] = unit[w]
    <2>1. CASE setting = "masked"
      BY <1>1, <1>2, <1>3, <2>1 DEF UnitStates
    <2>2. CASE setting = "enabled"
      BY <1>1, <1>2, <1>3, <2>2 DEF UnitStates
    <2>3. CASE setting = "active"
      BY <1>1, <1>2, <1>3, <2>3 DEF UnitStates
    <2> QED
      BY <2>1, <2>2, <2>3
  <1> QED
    BY <1>4 DEF Call, Changed, Past

LEMMA SkipEffect ==
    ASSUME TypeOK, NEW k, NEW u, Skip(k, u)
    PROVE  /\ unit' \in [Units -> UnitStates] /\ unit' = unit
           /\ todo' = todo \ {<<k, u>>}
           /\ UNCHANGED <<file, current, target, pc, done, interrupted, faults>>
  BY DEF Skip, Past, TypeOK, UnitStates

\* What the three settings of a unit have in common (systemd.go:83): they change
\* that unit only and end their own step.
LEMMA UnitMoves ==
    ASSUME FilesInv, NEW u \in Units, applyMask(u) \/ applyEnabled(u) \/ applyState(u)
    PROVE  /\ unit' \in [Units -> UnitStates]
           /\ \A v \in Units \ {u} : unit'[v] = unit[v]
           /\ pc = "apply" /\ pc' = "apply"
           /\ \E k \in {"mask", "enabled", "state"} : At(k, u) /\ todo' = todo \ {<<k, u>>}
           /\ UNCHANGED <<file, current, target, done, interrupted, faults>>
  <1> USE DEF FilesInv
  <1>1. CASE applyMask(u)
    <2>1. At("mask", u) /\ pc = "apply"
      BY <1>1 DEF applyMask, At
    <2>2. UnitSpec(u).mask \in BOOLEAN
      BY <2>1, StepKinds, ConfigTypes DEF At, UnitSpec, UnitSpecs
    <2>3. Skip("mask", u) \/ Call("mask", u, "masked", UnitSpec(u).mask)
      BY <1>1 DEF applyMask
    <2> QED
      BY <2>1, <2>2, <2>3, CallEffect, SkipEffect
  <1>2. CASE applyEnabled(u)
    <2>1. At("enabled", u) /\ pc = "apply"
      BY <1>2 DEF applyEnabled, At
    <2>2. \/ Skip("enabled", u)
          \/ Call("enabled", u, "enabled", TRUE)
          \/ Call("enabled", u, "enabled", FALSE)
      BY <1>2 DEF applyEnabled
    <2> QED
      BY <2>1, <2>2, CallEffect, SkipEffect
  <1>3. CASE applyState(u)
    <2>1. At("state", u) /\ pc = "apply"
      BY <1>3 DEF applyState, At
    <2>2. unit[u].active \in BOOLEAN
      BY DEF TypeOK
    <2>3. \/ Skip("state", u)
          \/ \E v \in BOOLEAN : Call("state", u, "active", v)
      BY <1>3, <2>2 DEF applyState
    <2> QED
      BY <2>1, <2>3, CallEffect, SkipEffect
  <1> QED
    BY <1>1, <1>2, <1>3

LEMMA BootTypes ==
    ASSUME TypeOK
    PROVE  UnitsAfterBoot \in [Units -> UnitStates]
  BY DEF TypeOK, UnitsAfterBoot, UnitStates

LEMMA FaultCounts ==
    ASSUME TypeOK, NEW k, Fault(k)
    PROVE  faults' \in 0..MaxHostFaults
  BY HostConfigAssumption DEF TypeOK, Fault

\* Every step keeps the types and what is said of the files.
LEMMA FilesStep ==
    ASSUME FilesInv, [Next]_hostVars
    PROVE  FilesInv'
  <1>t. /\ TypeOK /\ file \in [Paths -> Files] /\ unit \in [Units -> UnitStates]
        /\ current \in Revs \cup {NoRev} /\ faults \in 0..MaxHostFaults
    BY DEF FilesInv, TypeOK, UnitStates
  <1>a. ASSUME NEW k, NEW x, At(k, x) PROVE pc = "apply"
    BY <1>a DEF At
  <1>f. ASSUME Fail, UNCHANGED <<file, unit>>, faults' \in 0..MaxHostFaults
        PROVE  FilesInv'
    BY <1>f, <1>t, FilesKept DEF Fail
  <1>1. ASSUME NEW r \in Revs, StartApply(r) PROVE FilesInv'
    <2>1. TypeOK'
      BY <1>1 DEF StartApply, FilesInv, TypeOK
    <2>2. FilesDone(r, Steps(r))'
      BY <1>1, StepKinds DEF FilesDone
    <2> QED
      BY <1>1, <2>1, <2>2 DEF StartApply, FilesInv, FilesDone, FileMatches
  <1>2. ASSUME NEW p \in Paths, SkipFile(p) PROVE FilesInv'
    <2>1. /\ pc = "apply" /\ target \in Revs /\ p \in DOMAIN Config[target].files
          /\ ~ToDelete(p) /\ ~ToWrite(p) /\ FileSpec(p) \in FileSpecs
      BY <1>2, StepKinds, ConfigTypes DEF SkipFile, At, FilesInv, FileSpec
    <2>2. FileMatches(target, p)
      BY <2>1 DEF ToDelete, ToWrite, needsUpdate, FileMatches, FileSpec, FileSpecs
    <2> QED
      BY <1>2, <2>1, <2>2 DEF SkipFile, Skip, Past, FilesInv, TypeOK, FilesDone, FileMatches
  <1>3. ASSUME NEW p \in Paths, deleteFile(p) PROVE FilesInv'
    <2>1. Absent \in Files
      BY DEF Absent, Foreign, Files
    <2> QED
      BY <1>3, <1>a, <1>t, <2>1, FileWritten DEF deleteFile, Changed, Past, ToDelete
  <1>w. ASSUME NEW p \in Paths, At("file", p), NEW o \in Nat
        PROVE  Written(FileSpec(p), o) \in Files
    <2>1. target \in Revs /\ p \in DOMAIN Config[target].files
      BY <1>w, StepKinds DEF At, FilesInv
    <2>2. FileSpec(p) \in FileSpecs /\ FileSpec(p).content \in Contents \cup {NoContent}
      BY <2>1, ConfigTypes DEF FileSpec
    <2> QED
      BY <2>2 DEF Written, Files, FileSpecs
  <1>4. ASSUME NEW p \in Paths, writeFile(p) PROVE FilesInv'
    <2>1. At("file", p) /\ target \in Revs /\ p \in DOMAIN Config[target].files
      BY <1>4, StepKinds DEF writeFile, At, FilesInv
    <2>2. FileSpec(p).owner \in Nat
      BY <2>1, ConfigTypes DEF FileSpec, FileSpecs
    <2>3. Written(FileSpec(p), FileSpec(p).owner) \in Files
      BY <1>w, <2>1, <2>2
    <2>4. Written(FileSpec(p), FileSpec(p).owner).content = FileSpec(p).content
      BY DEF Written
    <2> QED
      BY <1>4, <1>a, <1>t, <2>1, <2>3, <2>4, FileWritten DEF writeFile, Changed, Past, ToWrite
  <1>5. ASSUME NEW p \in Paths, FileFails(p) PROVE FilesInv'
    BY <1>5, <1>f, <1>t, FaultCounts DEF FileFails
  <1>6. ASSUME NEW p \in Paths, setOwnershipFails(p) PROVE FilesInv'
    <2>1. Written(FileSpec(p), 0) \in Files /\ At("file", p)
      BY <1>6, <1>w DEF setOwnershipFails
    <2>2. faults' \in 0..MaxHostFaults
      BY <1>6, <1>t, FaultCounts DEF setOwnershipFails
    <2> QED
      BY <1>6, <2>1, <2>2, FileWritten DEF setOwnershipFails, Fail
  <1>7. ASSUME NEW u \in Units, applyMask(u) \/ applyEnabled(u) \/ applyState(u) PROVE FilesInv'
    <2>1. PICK k \in {"mask", "enabled", "state"} : todo' = todo \ {<<k, u>>}
      BY <1>7, UnitMoves
    <2> QED
      BY <1>7, <1>t, <2>1, UnitMoves, FilesKept
  <1>8. ASSUME NEW u \in Units, UnitRefused(u) \/ UnitFails(u) PROVE FilesInv'
    BY <1>8, <1>f, <1>t, FaultCounts DEF UnitRefused, UnitFails
  <1>9. CASE ApplyEnds
    <2>1. target \in Revs /\ pc = "apply" /\ todo = {}
      BY <1>9 DEF ApplyEnds, FilesInv
    <2> QED
      BY <1>9, <1>t, <2>1, FilesKept DEF ApplyEnds, SetDone
  <1>10. CASE RebootAppliesAgain \/ RebootReports \/ RebootOvertaken
    <2>1. CASE RebootAppliesAgain
      <3>1. /\ pc' = "apply" /\ todo' = Steps(target) /\ target \in Revs
            /\ UNCHANGED <<file, target, current, faults>>
        BY <2>1 DEF RebootAppliesAgain, Reboot, FilesInv
      <3>2. TypeOK'
        BY <2>1, <3>1, <1>t, BootTypes DEF RebootAppliesAgain, Reboot, TypeOK, UnitStates
      <3>3. FilesDone(target, Steps(target))'
        BY <3>1, StepKinds DEF FilesDone
      <3> QED
        BY <3>1, <3>2, <3>3 DEF FilesInv, FilesDone, FileMatches
    <2>2. CASE RebootReports \/ RebootOvertaken
      BY <2>2, <1>t, BootTypes, FilesKept DEF RebootReports, RebootOvertaken, Reboot, FilesInv, TypeOK
    <2> QED
      BY <1>10, <2>1, <2>2
  <1>11. CASE HostReboot
    BY <1>11, <1>t, BootTypes, FilesKept, FaultCounts DEF HostReboot, FilesInv, TypeOK
  <1>12. CASE Crash
    BY <1>12, <1>f, <1>t, FaultCounts DEF Crash
  <1>13. CASE UNCHANGED hostVars
    BY <1>13 DEF hostVars, FilesInv, TypeOK, FilesDone, FileMatches
  <1> QED
    BY <1>1, <1>2, <1>3, <1>4, <1>5, <1>6, <1>7, <1>8, <1>9, <1>10, <1>11, <1>12, <1>13 DEF Next

LEMMA FilesInvariant == Spec => []FilesInv
  <1>1. Init => FilesInv
    BY InitFiles
  <1>2. FilesInv /\ [Next]_hostVars => FilesInv'
    BY FilesStep
  <1> QED
    BY <1>1, <1>2, PTL DEF Spec

\* Files, units and the counters stay what they can be, and no steps are left
\* outside an apply.
THEOREM HostTypes == Spec => []TypeOK
  <1>1. FilesInv => TypeOK
    BY DEF FilesInv
  <1> QED
    BY <1>1, FilesInvariant, PTL

\* No unit is started, restarted, reloaded or stopped before all files of its
\* config are in place, whatever was cut short before (apply.go:78).
THEOREM UnitsAfterFiles == Spec => StartedWithFiles
  <1>1. ASSUME FilesInv, NEW u \in Units, At("state", u)
        PROVE  FilesMatch(target)
    BY <1>1, FilesFirst DEF FilesInv, FilesDone, FilesMatch, At
  <1>2. FilesInv =>
           [\A u \in Units : At("state", u) /\ Past("state", u) /\ pc' = "apply"
               => FilesMatch(target)]_hostVars
    BY <1>1
  <1> QED
    BY <1>2, FilesInvariant, PTL DEF StartedWithFiles

(***************************************************************************)
(* What a node that is done has on it.                                     *)
(***************************************************************************)

\* systemd reports what a unit is, and its jobs succeed: the agent takes an error of
\* the first for an answer (MCHostRead) and does not look at the result of the second.
Obedient == HostFaults \cap {"read", "job"} = {}

\* A unit that is to run is to be enabled, and one that is to stand still is
\* disabled or masked: else a reboot undoes its state (MCHostStarted).
Lasting ==
    \A r \in Revs : \A u \in DOMAIN Config[r].units :
       LET spec == Config[r].units[u] IN
       /\ spec.state \in {"started", "restarted"} => spec.enabled = "yes"
       /\ spec.state = "stopped" => spec.enabled = "no" \/ spec.mask

MaskDone(r, u) == unit[u].masked = Config[r].units[u].mask

\* A unit was enabled only if it was not masked.
EnabledDone(r, u) ==
    /\ Config[r].units[u].enabled = "yes" => unit[u].enabled /\ ~Config[r].units[u].mask
    /\ Config[r].units[u].enabled = "no" => ~unit[u].enabled

StateDone(r, u) ==
    /\ Config[r].units[u].state \in {"started", "restarted"} => unit[u].active
    /\ Config[r].units[u].state = "stopped" => ~unit[u].active

\* Of the settings of u in r those whose step is not in T are as told.
UnitDone(r, u, T) ==
    /\ <<"mask", u>> \notin T => MaskDone(r, u)
    /\ <<"enabled", u>> \notin T => EnabledDone(r, u)
    /\ <<"state", u>> \notin T => StateDone(r, u)

UnitsDone(r, T) == \A u \in DOMAIN Config[r].units : UnitDone(r, u, T)

\* The steps that the apply has passed are done; and so is the whole config when
\* it waits for its reboot, and when the node is done.
AppliedInv ==
    /\ FilesInv
    /\ pc = "apply" => ~done /\ UnitsDone(target, todo)
    /\ pc = "reboot" =>
          ~done /\ target \in Revs /\ FilesDone(target, {}) /\ UnitsDone(target, {})
    /\ done => current \in Revs /\ FilesDone(current, {}) /\ UnitsDone(current, {})

\* What an apply that is under way has of the unit, from FilesInv.
LEMMA UnitAt ==
    ASSUME FilesInv, NEW u \in Units, NEW k \in {"mask", "enabled", "state"}, At(k, u)
    PROVE  /\ pc = "apply" /\ target \in Revs /\ u \in DOMAIN Config[target].units
           /\ UnitSpec(u) = Config[target].units[u] /\ UnitSpec(u) \in UnitSpecs
           /\ unit \in [Units -> UnitStates]
  BY StepKinds, ConfigTypes DEF At, FilesInv, TypeOK, UnitStates, UnitSpec

\* The setting that a step is about is as told when the step is over, and the
\* others of the unit are as before.
LEMMA MaskStep ==
    ASSUME Obedient, FilesInv, NEW u \in Units, applyMask(u)
    PROVE  /\ unit'[u].masked = UnitSpec(u).mask
           /\ unit'[u].enabled = unit[u].enabled /\ unit'[u].active = unit[u].active
           /\ unit' # unit => unit[u].masked # UnitSpec(u).mask
           /\ todo' = todo \ {<<"mask", u>>}
  <1>1. /\ At("mask", u) /\ UnitSpec(u).mask \in BOOLEAN
        /\ unit \in [Units -> UnitStates]
    BY UnitAt DEF applyMask, UnitSpecs
  <1>2. \A state \in getUnitFileState(u) : (state = "masked") = unit[u].masked
    BY <1>1 DEF Obedient, getUnitFileState, Reads, UnitStates
  <1>3. \/ UnitSpec(u).mask = unit[u].masked /\ Skip("mask", u)
        \/ UnitSpec(u).mask # unit[u].masked /\ Call("mask", u, "masked", UnitSpec(u).mask)
    BY <1>2 DEF applyMask
  <1>4. CASE UnitSpec(u).mask = unit[u].masked /\ Skip("mask", u)
    BY <1>4 DEF Skip, Past
  <1>5. CASE UnitSpec(u).mask # unit[u].masked /\ Call("mask", u, "masked", UnitSpec(u).mask)
    BY <1>1, <1>5 DEF Call, Outcomes, Changed, Past, UnitStates
  <1> QED
    BY <1>3, <1>4, <1>5

LEMMA EnabledStep ==
    ASSUME Obedient, FilesInv, NEW u \in Units, applyEnabled(u)
    PROVE  /\ UnitSpec(u).enabled = "yes" => unit'[u].enabled /\ ~unit[u].masked
           /\ UnitSpec(u).enabled = "no" => ~unit'[u].enabled
           /\ unit'[u].masked = unit[u].masked /\ unit'[u].active = unit[u].active
           /\ unit' # unit =>
                 \/ UnitSpec(u).enabled = "yes" /\ ~unit[u].enabled
                 \/ UnitSpec(u).enabled = "no" /\ unit[u].enabled
           /\ todo' = todo \ {<<"enabled", u>>}
  <1>1. /\ At("enabled", u) /\ unit \in [Units -> UnitStates]
    BY UnitAt DEF applyEnabled
  <1>2. PICK state \in getUnitFileState(u) :
           \/ ~ToEnable(u, state) /\ ~ToDisable(u, state) /\ Skip("enabled", u)
           \/ ToEnable(u, state) /\ ~unit[u].masked /\ Call("enabled", u, "enabled", TRUE)
           \/ ToDisable(u, state) /\ Call("enabled", u, "enabled", FALSE)
    BY DEF applyEnabled
  <1>3. state = IF unit[u].masked THEN "masked"
                ELSE IF unit[u].enabled THEN "enabled" ELSE "disabled"
    BY DEF Obedient, getUnitFileState, Reads
  <1>4. CASE ~ToEnable(u, state) /\ ~ToDisable(u, state) /\ Skip("enabled", u)
    BY <1>1, <1>3, <1>4 DEF ToEnable, ToDisable, Skip, Past, UnitStates
  <1>5. CASE ToEnable(u, state) /\ ~unit[u].masked /\ Call("enabled", u, "enabled", TRUE)
    <2>1. unit' = [unit EXCEPT ![u].enabled = TRUE] /\ todo' = todo \ {<<"enabled", u>>}
      BY <1>5 DEF Call, Outcomes, Changed, Past
    <2>2. UnitSpec(u).enabled = "yes" /\ ~unit[u].masked /\ ~unit[u].enabled
      BY <1>1, <1>3, <1>5 DEF ToEnable
    <2> QED
      BY <1>1, <2>1, <2>2 DEF UnitStates
  <1>6. CASE ToDisable(u, state) /\ Call("enabled", u, "enabled", FALSE)
    <2>1. unit' = [unit EXCEPT ![u].enabled = FALSE] /\ todo' = todo \ {<<"enabled", u>>}
      BY <1>6 DEF Call, Outcomes, Changed, Past
    <2>2. UnitSpec(u).enabled = "no"
      BY <1>6 DEF ToDisable
    <2> QED
      BY <1>1, <2>1, <2>2 DEF UnitStates
  <1> QED
    BY <1>2, <1>4, <1>5, <1>6

LEMMA StateStep ==
    ASSUME Obedient, FilesInv, NEW u \in Units, applyState(u)
    PROVE  /\ UnitSpec(u).state \in {"started", "restarted"} => unit'[u].active
           /\ UnitSpec(u).state = "stopped" => ~unit'[u].active
           /\ unit'[u].masked = unit[u].masked /\ unit'[u].enabled = unit[u].enabled
           /\ unit' # unit =>
                 \/ UnitSpec(u).state \in {"started", "restarted"} /\ ~unit[u].active
                 \/ UnitSpec(u).state = "stopped" /\ unit[u].active
           /\ todo' = todo \ {<<"state", u>>}
  <1>1. /\ At("state", u) /\ unit \in [Units -> UnitStates]
    BY UnitAt DEF applyState
  <1>2. PICK state \in getActiveState(u) :
           \/ ~ToStart(u, state) /\ ~ToStop(u, state) /\ ~ToReload(u) /\ Skip("state", u)
           \/ ToStart(u, state) /\ ~unit[u].masked /\ Call("state", u, "active", TRUE)
           \/ ToStop(u, state) /\ Call("state", u, "active", FALSE)
           \/ ToReload(u) /\ Call("state", u, "active", unit[u].active)
    BY DEF applyState
  <1>3. state = IF unit[u].active THEN "active" ELSE "inactive"
    BY DEF Obedient, getActiveState, Reads
  <1>4. CASE ~ToStart(u, state) /\ ~ToStop(u, state) /\ ~ToReload(u) /\ Skip("state", u)
    BY <1>1, <1>3, <1>4 DEF ToStart, ToStop, Skip, Past, UnitStates
  <1>c. ASSUME NEW v \in BOOLEAN, Call("state", u, "active", v)
        PROVE  unit' = [unit EXCEPT ![u].active = v] /\ todo' = todo \ {<<"state", u>>}
    BY <1>c DEF Call, Outcomes, Changed, Past, Obedient
  <1>5. CASE ToStart(u, state) /\ ~unit[u].masked /\ Call("state", u, "active", TRUE)
    <2>1. unit' = [unit EXCEPT ![u].active = TRUE] /\ todo' = todo \ {<<"state", u>>}
      BY <1>5, <1>c
    <2>2. UnitSpec(u).state \in {"started", "restarted"}
      BY <1>5 DEF ToStart
    <2> QED
      BY <1>1, <2>1, <2>2 DEF UnitStates
  <1>6. CASE ToStop(u, state) /\ Call("state", u, "active", FALSE)
    <2>1. unit' = [unit EXCEPT ![u].active = FALSE] /\ todo' = todo \ {<<"state", u>>}
      BY <1>6, <1>c
    <2>2. UnitSpec(u).state = "stopped"
      BY <1>6 DEF ToStop
    <2> QED
      BY <1>1, <2>1, <2>2 DEF UnitStates
  <1>7. CASE ToReload(u) /\ Call("state", u, "active", unit[u].active)
    <2>1. unit[u].active \in BOOLEAN
      BY <1>1 DEF UnitStates
    <2>2. unit' = [unit EXCEPT ![u].active = unit[u].active] /\ todo' = todo \ {<<"state", u>>}
      BY <1>7, <1>c, <2>1
    <2>3. UnitSpec(u).state = "reloaded"
      BY <1>7 DEF ToReload
    <2> QED
      BY <1>1, <2>2, <2>3 DEF UnitStates
  <1> QED
    BY <1>2, <1>4, <1>5, <1>6, <1>7

\* A step about unit u brings it closer to the config that is applied, and to
\* every config that has the same entry.
LEMMA UnitStepDone ==
    ASSUME Obedient, FilesInv, UnitsDone(target, todo), NEW u \in Units,
           applyMask(u) \/ applyEnabled(u) \/ applyState(u)
    PROVE  UnitsDone(target, todo)'
  <1>1. target' = target /\ \A v \in Units \ {u} : unit'[v] = unit[v]
    BY UnitMoves
  <1>2. /\ target \in Revs /\ u \in DOMAIN Config[target].units
        /\ UnitSpec(u) = Config[target].units[u]
    BY UnitAt DEF applyMask, applyEnabled, applyState
  <1>3. UnitDone(target, u, todo)
    BY <1>2 DEF UnitsDone
  <1>4. UnitDone(target, u, todo)'
    <2>1. CASE applyMask(u)
      BY <1>1, <1>2, <1>3, <2>1, MaskStep DEF UnitDone, MaskDone, EnabledDone, StateDone
    <2>2. CASE applyEnabled(u)
      <3>1. unit[u].masked = UnitSpec(u).mask
        BY <1>2, <1>3, <2>2, MaskFirst DEF UnitDone, MaskDone, applyEnabled
      <3> QED
        BY <1>1, <1>2, <1>3, <2>2, <3>1, EnabledStep
        DEF UnitDone, MaskDone, EnabledDone, StateDone
    <2>3. CASE applyState(u)
      BY <1>1, <1>2, <1>3, <2>3, StateStep DEF UnitDone, MaskDone, EnabledDone, StateDone
    <2> QED
      BY <2>1, <2>2, <2>3
  <1>5. ASSUME NEW v \in DOMAIN Config[target].units, v # u
        PROVE  UnitDone(target, v, todo)'
    <2>1. v \in Units /\ unit'[v] = unit[v]
      BY <1>1, <1>2, <1>5, ConfigTypes
    <2>2. \A k \in {"mask", "enabled", "state"} : <<k, v>> \in todo' <=> <<k, v>> \in todo
      BY <1>5, UnitMoves
    <2>3. UnitDone(target, v, todo)
      BY DEF UnitsDone
    <2> QED
      BY <1>1, <2>1, <2>2, <2>3 DEF UnitDone, MaskDone, EnabledDone, StateDone
  <1> QED
    BY <1>1, <1>4, <1>5 DEF UnitsDone

\* A reboot leaves a config that is done as it is, since what runs is enabled.
LEMMA BootKeeps ==
    ASSUME Lasting, TypeOK, NEW r \in Revs, UnitsDone(r, {}), unit' = UnitsAfterBoot
    PROVE  UnitsDone(r, {})'
  <1> SUFFICES ASSUME NEW u \in DOMAIN Config[r].units
               PROVE  UnitDone(r, u, {})'
    BY DEF UnitsDone
  <1>1. /\ u \in Units /\ Config[r].units[u] \in UnitSpecs
        /\ UnitDone(r, u, {})
    BY ConfigTypes DEF UnitsDone
  <1>2. /\ unit'[u].masked = unit[u].masked /\ unit'[u].enabled = unit[u].enabled
        /\ unit'[u].active = (unit[u].enabled /\ ~unit[u].masked)
    BY <1>1 DEF UnitsAfterBoot, TypeOK
  <1>3. /\ Config[r].units[u].state \in {"started", "restarted"} => Config[r].units[u].enabled = "yes"
        /\ Config[r].units[u].state = "stopped" =>
              Config[r].units[u].enabled = "no" \/ Config[r].units[u].mask
    BY DEF Lasting
  <1> QED
    BY <1>1, <1>2, <1>3 DEF UnitDone, MaskDone, EnabledDone, StateDone

\* A step that fails leaves nothing to say: the node is not done.
LEMMA FailKeepsApplied ==
    ASSUME FilesInv', AppliedInv, pc = "apply", Fail
    PROVE  AppliedInv'
  BY DEF AppliedInv, Fail

\* A step about a file, if it goes on, is over and leaves the units alone.
LEMMA FileMoves ==
    ASSUME NEW p \in Paths, SkipFile(p) \/ deleteFile(p) \/ writeFile(p)
    PROVE  /\ pc = "apply" /\ At("file", p) /\ todo' = todo \ {<<"file", p>>}
           /\ UNCHANGED <<unit, current, target, pc, done, interrupted, faults>>
  BY DEF SkipFile, deleteFile, writeFile, At, Skip, Changed, Past

LEMMA AppliedStep ==
    ASSUME Obedient, Lasting, AppliedInv, [Next]_hostVars
    PROVE  AppliedInv'
  <1>i. FilesInv /\ TypeOK /\ FilesInv'
    BY FilesStep DEF AppliedInv, FilesInv
  <1>1. ASSUME NEW r \in Revs, StartApply(r) PROVE AppliedInv'
    <2>1. ASSUME NEW u \in DOMAIN Config[r].units PROVE UnitDone(r, u, Steps(r))'
      BY StepKinds DEF UnitDone, EnabledDone, StateDone
    <2> QED
      BY <1>1, <1>i, <2>1 DEF StartApply, AppliedInv, UnitsDone
  <1>2. ASSUME NEW p \in Paths, SkipFile(p) \/ deleteFile(p) \/ writeFile(p) PROVE AppliedInv'
    <2>1. UnitsDone(target, todo)'
      BY <1>2, FileMoves
      DEF AppliedInv, UnitsDone, UnitDone, MaskDone, EnabledDone, StateDone
    <2> QED
      BY <1>2, <1>i, <2>1, FileMoves DEF AppliedInv
  <1>3. ASSUME NEW p \in Paths, FileFails(p) \/ setOwnershipFails(p) PROVE AppliedInv'
    BY <1>3, <1>i, FailKeepsApplied DEF FileFails, setOwnershipFails, At
  <1>4. ASSUME NEW u \in Units, applyMask(u) \/ applyEnabled(u) \/ applyState(u) PROVE AppliedInv'
    <2>1. /\ pc = "apply" /\ pc' = "apply" /\ done' = done
      BY <1>4, <1>i, UnitMoves
    <2>2. UnitsDone(target, todo)'
      BY <1>4, <1>i, <2>1, UnitStepDone DEF AppliedInv
    <2> QED
      BY <1>i, <2>1, <2>2 DEF AppliedInv
  <1>5. ASSUME NEW u \in Units, UnitRefused(u) \/ UnitFails(u) PROVE AppliedInv'
    BY <1>5, <1>i, FailKeepsApplied DEF UnitRefused, Refused, UnitFails, At
  <1>6. CASE ApplyEnds
    <2>1. /\ pc = "apply" /\ todo = {} /\ target \in Revs /\ ~done
          /\ FilesDone(target, {}) /\ UnitsDone(target, {})
      BY <1>6 DEF ApplyEnds, AppliedInv, FilesInv
    <2>2. UNCHANGED <<file, unit, target>>
      BY <1>6 DEF ApplyEnds, SetDone
    <2>3. FilesDone(target, {})' /\ UnitsDone(target, {})'
      BY <2>1, <2>2
      DEF FilesDone, FileMatches, UnitsDone, UnitDone, MaskDone, EnabledDone, StateDone
    <2>4. \/ pc' = "idle" /\ current' = target
          \/ pc' = "reboot" /\ done' = done
      BY <1>6 DEF ApplyEnds, SetDone
    <2> QED
      BY <1>i, <2>1, <2>2, <2>3, <2>4 DEF AppliedInv, FilesDone, FileMatches,
         UnitsDone, UnitDone, MaskDone, EnabledDone, StateDone
  <1>7. CASE RebootReports
    <2>1. target \in Revs /\ FilesDone(target, {}) /\ UnitsDone(target, {})
      BY <1>7 DEF RebootReports, Reboot, AppliedInv
    <2>2. unit' = UnitsAfterBoot /\ current' = target /\ target' = target /\ pc' = "idle"
          /\ file' = file
      BY <1>7 DEF RebootReports, Reboot
    <2>3. UnitsDone(target, {})' /\ FilesDone(target, {})'
      <3>1. \A u \in DOMAIN Config[target].units : UnitDone(target, u, {})'
        BY <1>i, <2>1, <2>2, BootKeeps DEF UnitsDone
      <3> QED
        BY <2>1, <2>2, <3>1 DEF UnitsDone, FilesDone, FileMatches
    <2> QED
      BY <1>i, <2>1, <2>2, <2>3 DEF AppliedInv, FilesDone, FileMatches,
         UnitsDone, UnitDone, MaskDone, EnabledDone, StateDone
  <1>11. CASE RebootAppliesAgain
    <2>1. pc' = "apply" /\ todo' = Steps(target) /\ target' = target /\ ~done' /\ target \in Revs
      BY <1>7, <1>11 DEF RebootAppliesAgain, Reboot, AppliedInv
    <2>2. ASSUME NEW u \in DOMAIN Config[target].units PROVE UnitDone(target, u, Steps(target))'
      BY <2>1, StepKinds DEF UnitDone, EnabledDone, StateDone
    <2> QED
      BY <1>i, <2>1, <2>2 DEF AppliedInv, UnitsDone
  <1>12. CASE RebootOvertaken
    BY <1>12, <1>i DEF RebootOvertaken, Reboot, AppliedInv
  <1>8. CASE HostReboot
    <2>1. /\ pc = "idle" /\ pc' = "idle" /\ unit' = UnitsAfterBoot
          /\ UNCHANGED <<file, current, done>>
      BY <1>8 DEF HostReboot
    <2>2. CASE done
      <3>1. current \in Revs /\ FilesDone(current, {}) /\ UnitsDone(current, {})
        BY <2>2 DEF AppliedInv
      <3>2. FilesDone(current, {})'
        BY <2>1, <3>1 DEF FilesDone, FileMatches
      <3>3. \A u \in DOMAIN Config[current].units : UnitDone(current, u, {})'
        BY <1>i, <2>1, <3>1, BootKeeps DEF UnitsDone
      <3> QED
        BY <1>i, <2>1, <3>1, <3>2, <3>3 DEF AppliedInv, UnitsDone
    <2> QED
      BY <1>i, <2>1, <2>2 DEF AppliedInv
  <1>9. CASE Crash
    BY <1>9, <1>i, FailKeepsApplied DEF Crash
  <1>10. CASE UNCHANGED hostVars
    BY <1>10, <1>i DEF hostVars, AppliedInv, FilesDone, FileMatches,
       UnitsDone, UnitDone, MaskDone, EnabledDone, StateDone
  <1> QED
    BY <1>1, <1>2, <1>3, <1>4, <1>5, <1>6, <1>7, <1>8, <1>9, <1>10, <1>11, <1>12 DEF Next

LEMMA AppliedInvariant ==
    ASSUME Obedient, Lasting
    PROVE  Spec => []AppliedInv
  <1>1. Init => AppliedInv
    <2>1. Init => FilesInv /\ pc = "idle" /\ done = FALSE
      <3>1. Init => pc = "idle" /\ done = FALSE
        BY DEF Init
      <3> QED
        BY <3>1, InitFiles
    <2> QED
      BY <2>1 DEF AppliedInv
  <1>2. AppliedInv /\ [Next]_hostVars => AppliedInv'
    BY AppliedStep
  <1> QED
    BY <1>1, <1>2, PTL DEF Spec

\* A node that reports a config as done has all of it, for every set of configs
\* whose units keep their state over a reboot, if systemd does as it is told.
THEOREM DoneIsApplied ==
    ASSUME Obedient, Lasting
    PROVE  Spec => []DoneMeansApplied
  <1>1. AppliedInv => DoneMeansApplied
    <2> SUFFICES ASSUME AppliedInv, done
                 PROVE  /\ FilesMatch(current)
                        /\ \A u \in DOMAIN Config[current].units : UnitMatches(current, u)
      BY DEF DoneMeansApplied
    <2>1. current \in Revs /\ FilesDone(current, {}) /\ UnitsDone(current, {})
      BY DEF AppliedInv
    <2>2. ASSUME NEW u \in DOMAIN Config[current].units
          PROVE  UnitMatches(current, u)
      <3>1. UnitDone(current, u, {}) /\ Config[current].units[u] \in UnitSpecs /\ u \in Units
        BY <2>1, ConfigTypes DEF UnitsDone
      <3>2. unit[u] \in UnitStates
        BY <3>1 DEF AppliedInv, FilesInv, TypeOK, UnitStates
      <3> QED
        BY <3>1, <3>2
        DEF UnitMatches, UnitDone, MaskDone, EnabledDone, StateDone, UnitSpecs, UnitStates
    <2> QED
      BY <2>1, <2>2 DEF FilesMatch, FilesDone
  <1>2. Spec => []AppliedInv
    BY AppliedInvariant
  <1> QED
    BY <1>1, <1>2, PTL

(***************************************************************************)
(* Which changes still wait for a reboot.                                  *)
(***************************************************************************)

\* What the reboot decision calls new in the config that is applied.
NewEntries(old, new) ==
    Entries("file", Added(old.files, new.files) \cup Modified(old.files, new.files))
       \cup Entries("unit", Added(old.units, new.units) \cup Modified(old.units, new.units))

\* What the two configs have in common is in place at every moment of the apply.
SharedDone ==
    /\ \A p \in DOMAIN Config[target].files :
          <<"file", p>> \notin NewEntries(Config[current], Config[target])
             => FileMatches(target, p)
    /\ \A u \in DOMAIN Config[target].units :
          <<"unit", u>> \notin NewEntries(Config[current], Config[target])
             => UnitDone(target, u, {})

\* Unless an apply was cut short, what waits for a reboot was changed by the apply
\* that is under way, is counted by it and is new in its config.
OwedInv ==
    /\ pc = "idle" /\ ~interrupted => owed = {} /\ (done \/ current = NoRev)
    /\ pc = "apply" /\ ~interrupted =>
          /\ owed \subseteq Config[target].needs
          /\ owed # {} => applied
          /\ current # NoRev =>
                SharedDone /\ owed \subseteq NewEntries(Config[current], Config[target])

RebootInv == AppliedInv /\ OwedInv

\* Entries that are not new are the same in both configs.
LEMMA NotNew ==
    ASSUME NEW old, NEW new
    PROVE  /\ \A p \in DOMAIN new.files : <<"file", p>> \notin NewEntries(old, new)
                 => p \in DOMAIN old.files /\ old.files[p] = new.files[p]
           /\ \A u \in DOMAIN new.units : <<"unit", u>> \notin NewEntries(old, new)
                 => u \in DOMAIN old.units /\ old.units[u] = new.units[u]
  BY DEF NewEntries, Entries, Added, Modified

\* What a call or a skipped step adds to what is owed, and that it is counted.
LEMMA UnitOwes ==
    ASSUME NEW u \in Units, applyMask(u) \/ applyEnabled(u) \/ applyState(u)
    PROVE  /\ unit' = unit => owed' = owed
           /\ owed' \subseteq owed \cup ({<<"unit", u>>} \cap Config[target].needs)
           /\ owed' # owed => applied'
           /\ applied => applied'
  <1>1. ASSUME NEW k, Skip(k, u) PROVE owed' = owed /\ applied' = applied
    BY <1>1 DEF Skip
  <1>2. ASSUME NEW k, NEW setting, NEW v, Call(k, u, setting, v)
        PROVE  /\ file' = file /\ applied' = TRUE /\ Owe(<<"unit", u>>)
    BY <1>2 DEF Call, Changed
  <1>3. \/ \E k : Skip(k, u)
        \/ \E k, setting, v : Call(k, u, setting, v)
    BY DEF applyMask, applyEnabled, applyState
  <1> QED
    BY <1>1, <1>2, <1>3 DEF Owe

\* A unit that is as the config asks is not changed by the apply of it.
LEMMA DoneUnitStays ==
    ASSUME Obedient, FilesInv, NEW u \in Units,
           applyMask(u) \/ applyEnabled(u) \/ applyState(u), UnitDone(target, u, {})
    PROVE  unit' = unit
  <1>1. UnitSpec(u) = Config[target].units[u]
    BY DEF UnitSpec
  <1>2. CASE applyMask(u)
    BY <1>1, <1>2, MaskStep DEF UnitDone, MaskDone
  <1>3. CASE applyEnabled(u)
    BY <1>1, <1>3, EnabledStep DEF UnitDone, EnabledDone
  <1>4. CASE applyState(u)
    BY <1>1, <1>4, StateStep DEF UnitDone, StateDone
  <1> QED
    BY <1>2, <1>3, <1>4

\* An apply that ends without a reboot has changed nothing that requires one.
LEMMA NothingOwed ==
    ASSUME RebootInv, ~interrupted, ApplyEnds, SetDone
    PROVE  owed = {}
  <1>1. /\ pc = "apply" /\ owed \subseteq Config[target].needs /\ (owed # {} => applied)
        /\ current # NoRev => owed \subseteq NewEntries(Config[current], Config[target])
    BY DEF RebootInv, OwedInv, ApplyEnds
  <1>2. \/ ~applied
        \/ \E found \in BOOLEAN : ~DetermineReboot(found)
    BY DEF ApplyEnds, SetDone
  <1>3. CASE \E found \in BOOLEAN : ~DetermineReboot(found)
    <2>1. \/ current # NoRev /\ ~diffBasedReboot(Config[current], Config[target])
          \/ ~RequiredOf(target)
      BY <1>3 DEF DetermineReboot
    <2>2. CASE current # NoRev /\ ~diffBasedReboot(Config[current], Config[target])
      <3>1. NewEntries(Config[current], Config[target]) \cap Config[target].needs = {}
        BY <2>2 DEF diffBasedReboot, NewEntries
      <3> QED
        BY <1>1, <2>2, <3>1
    <2>3. CASE ~RequiredOf(target)
      BY <1>1, <2>3 DEF RequiredOf
    <2> QED
      BY <2>1, <2>2, <2>3
  <1> QED
    BY <1>1, <1>2, <1>3

LEMMA OwedStep ==
    ASSUME Obedient, Lasting, RebootInv, [Next]_hostVars
    PROVE  OwedInv'
  <1>i. AppliedInv /\ OwedInv /\ FilesInv /\ AppliedInv' /\ FilesInv' /\ TypeOK
    BY AppliedStep DEF RebootInv, AppliedInv, FilesInv
  <1>f. ASSUME Fail PROVE OwedInv'
    BY <1>f DEF Fail, OwedInv
  <1>1. ASSUME NEW r \in Revs, StartApply(r) PROVE OwedInv'
    <2>1. /\ pc = "idle" /\ pc' = "apply" /\ target' = r
          /\ UNCHANGED <<file, unit, current, owed, interrupted>>
      BY <1>1 DEF StartApply
    <2> SUFFICES ASSUME ~interrupted, current # NoRev
                 PROVE  SharedDone'
      BY <1>i, <2>1 DEF OwedInv
    <2>2. current \in Revs /\ FilesDone(current, {}) /\ UnitsDone(current, {})
      BY <1>i, <2>1 DEF OwedInv, AppliedInv
    <2>3. ASSUME NEW p \in DOMAIN Config[r].files,
                 <<"file", p>> \notin NewEntries(Config[current], Config[r])
          PROVE  FileMatches(r, p)'
      <3>1. p \in DOMAIN Config[current].files /\ Config[current].files[p] = Config[r].files[p]
        BY <2>3, NotNew
      <3> QED
        BY <2>1, <2>2, <3>1 DEF FilesDone, FileMatches
    <2>4. ASSUME NEW u \in DOMAIN Config[r].units,
                 <<"unit", u>> \notin NewEntries(Config[current], Config[r])
          PROVE  UnitDone(r, u, {})'
      <3>1. u \in DOMAIN Config[current].units /\ Config[current].units[u] = Config[r].units[u]
        BY <2>4, NotNew
      <3> QED
        BY <2>1, <2>2, <3>1 DEF UnitsDone, UnitDone, MaskDone, EnabledDone, StateDone
    <2> QED
      BY <2>1, <2>3, <2>4 DEF SharedDone
  <1>2. ASSUME NEW p \in Paths, SkipFile(p) \/ deleteFile(p) \/ writeFile(p) PROVE OwedInv'
    <2>1. /\ pc = "apply" /\ pc' = "apply" /\ target \in Revs
          /\ p \in DOMAIN Config[target].files /\ FileSpec(p) \in FileSpecs
          /\ UNCHANGED <<unit, current, target, interrupted>>
      BY <1>2, <1>i, FileMoves, StepKinds, ConfigTypes DEF At, FilesInv, FileSpec
    <2>2. \/ file' = file /\ owed' = owed /\ applied' = applied
          \/ /\ ToDelete(p) \/ ToWrite(p)
             /\ applied' = TRUE
             /\ owed' \subseteq owed \cup ({<<"file", p>>} \cap Config[target].needs)
             /\ \A q \in Paths \ {p} : file'[q] = file[q]
      BY <1>2, <1>i DEF SkipFile, Skip, deleteFile, writeFile, Changed, Owe, TypeOK
    <2>3. FileMatches(target, p) => file' = file /\ owed' = owed
      <3>1. ToDelete(p) => ~FileMatches(target, p)
        BY DEF ToDelete, FileMatches, FileSpec
      <3>2. ToWrite(p) => ~FileMatches(target, p)
        BY DEF ToWrite, needsUpdate, FileMatches, FileSpec
      <3> QED
        BY <2>2, <3>1, <3>2
    <2> SUFFICES ASSUME ~interrupted
                 PROVE  /\ owed' \subseteq Config[target].needs
                        /\ owed' # {} => applied'
                        /\ current # NoRev => /\ SharedDone'
                                              /\ owed' \subseteq NewEntries(Config[current], Config[target])
      BY <2>1 DEF OwedInv
    <2>4. owed' \subseteq Config[target].needs /\ (owed' # {} => applied')
      BY <1>i, <2>1, <2>2 DEF OwedInv
    <2>5. CASE current # NoRev
      <3>1. SharedDone /\ owed \subseteq NewEntries(Config[current], Config[target])
        BY <1>i, <2>1, <2>5 DEF OwedInv
      <3>2. owed' \subseteq NewEntries(Config[current], Config[target])
        BY <2>1, <2>2, <2>3, <3>1 DEF SharedDone
      <3>3. ASSUME NEW q \in DOMAIN Config[target].files,
                   <<"file", q>> \notin NewEntries(Config[current], Config[target])
            PROVE  FileMatches(target, q)'
        <4>1. FileMatches(target, q) /\ q \in Paths
          BY <2>1, <3>1, <3>3, ConfigTypes DEF SharedDone
        <4>2. file'[q] = file[q]
          BY <2>2, <2>3, <4>1
        <4> QED
          BY <2>1, <4>1, <4>2 DEF FileMatches
      <3>4. ASSUME NEW u \in DOMAIN Config[target].units,
                   <<"unit", u>> \notin NewEntries(Config[current], Config[target])
            PROVE  UnitDone(target, u, {})'
        BY <2>1, <3>1, <3>4 DEF SharedDone, UnitDone, MaskDone, EnabledDone, StateDone
      <3> QED
        BY <2>1, <2>4, <3>2, <3>3, <3>4 DEF SharedDone
    <2> QED
      BY <2>4, <2>5
  <1>3. ASSUME NEW p \in Paths, FileFails(p) \/ setOwnershipFails(p) PROVE OwedInv'
    BY <1>3, <1>f DEF FileFails, setOwnershipFails
  <1>4. ASSUME NEW u \in Units, applyMask(u) \/ applyEnabled(u) \/ applyState(u) PROVE OwedInv'
    <2>1. /\ pc = "apply" /\ pc' = "apply"
          /\ UNCHANGED <<file, current, target, interrupted>>
          /\ \A v \in Units \ {u} : unit'[v] = unit[v]
      BY <1>4, <1>i, UnitMoves
    <2>2. target \in Revs /\ u \in DOMAIN Config[target].units
      BY <1>4, <1>i, UnitAt DEF applyMask, applyEnabled, applyState
    <2>3. /\ owed' \subseteq owed \cup ({<<"unit", u>>} \cap Config[target].needs)
          /\ owed' # owed => applied'
          /\ applied => applied'
          /\ unit' = unit => owed' = owed
      BY <1>4, UnitOwes
    <2>4. UnitDone(target, u, {}) => unit' = unit
      BY <1>4, <1>i, DoneUnitStays
    <2> SUFFICES ASSUME ~interrupted
                 PROVE  /\ owed' \subseteq Config[target].needs
                        /\ owed' # {} => applied'
                        /\ current # NoRev => /\ SharedDone'
                                              /\ owed' \subseteq NewEntries(Config[current], Config[target])
      BY <2>1 DEF OwedInv
    <2>5. owed' \subseteq Config[target].needs /\ (owed' # {} => applied')
      BY <1>i, <2>1, <2>3 DEF OwedInv
    <2>6. CASE current # NoRev
      <3>1. SharedDone /\ owed \subseteq NewEntries(Config[current], Config[target])
        BY <1>i, <2>1, <2>6 DEF OwedInv
      <3>2. owed' \subseteq NewEntries(Config[current], Config[target])
        BY <2>2, <2>3, <2>4, <3>1 DEF SharedDone
      <3>3. \A q \in DOMAIN Config[target].files :
               <<"file", q>> \notin NewEntries(Config[current], Config[target])
                  => FileMatches(target, q)'
        BY <2>1, <3>1 DEF SharedDone, FileMatches
      <3>4. ASSUME NEW v \in DOMAIN Config[target].units,
                   <<"unit", v>> \notin NewEntries(Config[current], Config[target])
            PROVE  UnitDone(target, v, {})'
        <4>1. UnitDone(target, v, {}) /\ v \in Units
          BY <2>2, <3>1, <3>4, ConfigTypes DEF SharedDone
        <4>2. unit'[v] = unit[v]
          BY <2>1, <2>4, <4>1
        <4> QED
          BY <2>1, <4>1, <4>2 DEF UnitDone, MaskDone, EnabledDone, StateDone
      <3> QED
        BY <2>1, <2>5, <3>2, <3>3, <3>4 DEF SharedDone
    <2> QED
      BY <2>5, <2>6
  <1>5. ASSUME NEW u \in Units, UnitRefused(u) \/ UnitFails(u) PROVE OwedInv'
    BY <1>5, <1>f DEF UnitRefused, UnitFails
  <1>6. CASE ApplyEnds
    <2>1. SetDone \/ pc' = "reboot"
      BY <1>6 DEF ApplyEnds
    <2>2. CASE SetDone
      BY <1>6, <2>2, NothingOwed DEF SetDone, OwedInv
    <2> QED
      BY <2>1, <2>2 DEF OwedInv
  <1>7. CASE RebootReports \/ RebootOvertaken
    BY <1>7 DEF RebootReports, RebootOvertaken, Reboot, OwedInv
  <1>11. CASE RebootAppliesAgain
    <2>1. /\ target \in Revs /\ FilesDone(target, {}) /\ UnitsDone(target, {})
          /\ unit' = UnitsAfterBoot /\ pc' = "apply" /\ owed' = {}
          /\ UNCHANGED <<file, current, target>>
      BY <1>11, <1>i DEF RebootAppliesAgain, Reboot, AppliedInv
    <2>2. \A u \in DOMAIN Config[target].units : UnitDone(target, u, {})'
      BY <1>i, <2>1, BootKeeps DEF UnitsDone
    <2>3. \A p \in DOMAIN Config[target].files : FileMatches(target, p)'
      BY <2>1 DEF FilesDone, FileMatches
    <2>4. SharedDone'
      BY <2>1, <2>2, <2>3 DEF SharedDone
    <2> QED
      BY <2>1, <2>4 DEF OwedInv
  <1>8. CASE HostReboot
    BY <1>8, <1>i DEF HostReboot, OwedInv
  <1>9. CASE Crash
    BY <1>9, <1>f DEF Crash
  <1>10. CASE UNCHANGED hostVars
    BY <1>10, <1>i DEF hostVars, OwedInv, SharedDone, FileMatches, UnitDone,
       MaskDone, EnabledDone, StateDone
  <1> QED
    BY <1>1, <1>2, <1>3, <1>4, <1>5, <1>6, <1>7, <1>8, <1>9, <1>10, <1>11 DEF Next

\* A node that is done waits for no reboot, unless an apply was cut short or a config
\* was taken back before it was reported: the
\* decision, taken from the two configs (reboot_decision.go:76), finds every change
\* that was made to the host.
THEOREM RebootsWhenNeeded ==
    ASSUME Obedient, Lasting
    PROVE  Spec => []RebootWhenNeeded
  <1>1. Init => OwedInv
    BY DEF Init, OwedInv
  <1>2. RebootInv /\ [Next]_hostVars => OwedInv'
    BY OwedStep
  <1>3. Spec => []AppliedInv
    BY AppliedInvariant
  <1>4. RebootInv <=> AppliedInv /\ OwedInv
    BY DEF RebootInv
  <1>5. RebootInv => RebootWhenNeeded
    BY DEF RebootInv, AppliedInv, OwedInv, RebootWhenNeeded, FilesInv, TypeOK
  <1> QED
    BY <1>1, <1>2, <1>3, <1>4, <1>5, PTL DEF Spec
=============================================================================
