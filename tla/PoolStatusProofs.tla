--------------------------- MODULE PoolStatusProofs ---------------------------
(***************************************************************************)
(* What the status of a pool promises, for any pool, any configurations    *)
(* and any number of events and failures.                                  *)
(***************************************************************************)
EXTENDS PoolStatus, FiniteSetTheorems, TLAPS

(***************************************************************************)
(* Conditions.                                                             *)
(***************************************************************************)

\* A condition that a pass has computed.
Said(b, r) == [status |-> b, reason |-> r]

Conditions == [Types -> [status : {"Unknown", "True", "False"}, reason : Reasons, fresh : BOOLEAN]]

\* Conditions as a pass computes them, some of the types or all of them.
Computed(new) ==
    /\ DOMAIN new \subseteq Types
    /\ \A t \in DOMAIN new : new[t].status \in {"True", "False"} /\ new[t].reason \in Reasons

LEMMA AgedType ==
    ASSUME conds \in Conditions
    PROVE  Aged \in Conditions /\ \A t \in Types : ~Aged[t].fresh
  BY DEF Aged, Conditions

\* What a pass may write: types, and no time without a transition but Degraded's.
Timely(c) ==
    /\ c \in Conditions
    /\ \A t \in Types \ {"Degraded"} : c[t].fresh => conds[t].fresh \/ c[t].status # conds[t].status

\* A merge marks a condition as changed only if its status is another one.
LEMMA MergeTimely ==
    ASSUME NEW c, Timely(c), NEW new, Computed(new),
           \A t \in DOMAIN new \ {"Degraded"} : c[t] = conds[t]
    PROVE  /\ Timely(mergeConditions(c, new))
           /\ \A t \in Types \ DOMAIN new : mergeConditions(c, new)[t] = c[t]
  <1> DEFINE m == mergeConditions(c, new)
  <1> HIDE DEF m
  <1>1. ASSUME NEW t \in Types
        PROVE  /\ m[t] \in [status : {"Unknown", "True", "False"}, reason : Reasons, fresh : BOOLEAN]
               /\ t \notin DOMAIN new => m[t] = c[t]
               /\ t # "Degraded"
                     => (m[t].fresh => conds[t].fresh \/ m[t].status # conds[t].status)
    <2>1. CASE t \notin DOMAIN new
      BY <1>1, <2>1 DEF m, mergeConditions, Conditions, Timely
    <2>2. CASE t \in DOMAIN new
      <3> DEFINE b == c[t].status # new[t].status \/ c[t].fresh
      <3>0. b \in BOOLEAN
        OBVIOUS
      <3>1. m[t] = [status |-> new[t].status, reason |-> new[t].reason, fresh |-> b]
        BY <1>1, <2>2 DEF m, mergeConditions
      <3>2. new[t].status \in {"True", "False"} /\ new[t].reason \in Reasons
        BY <2>2 DEF Computed
      <3> HIDE DEF b
      <3>3. /\ m[t] \in [status : {"Unknown", "True", "False"}, reason : Reasons, fresh : BOOLEAN]
            /\ m[t].fresh = b /\ m[t].status = new[t].status
        BY <3>0, <3>1, <3>2
      <3> QED
        BY <2>2, <3>3 DEF b
    <2> QED
      BY <2>1, <2>2
  <1>2. m = [t \in Types |-> m[t]]
    BY DEF m, mergeConditions
  <1>3. m \in Conditions
    BY <1>1, <1>2 DEF Conditions
  <1> QED
    BY <1>1, <1>3 DEF m, Timely

\* A reason outside the nodes makes the pool degraded and changes nothing else.
LEMMA DegradedTimely ==
    ASSUME NEW c, Timely(c), NEW why \in Reasons
    PROVE  /\ Timely(setDegradedFor(c, why))
           /\ \A t \in Types \ {"Degraded"} : setDegradedFor(c, why)[t] = c[t]
  BY DEF setDegradedFor, Conditions, Types, Timely

LEMMA OverlapComputed ==
    /\ Computed(ComputeOverlapCondition) /\ OverlapReason \in Reasons
    /\ DOMAIN ComputeOverlapCondition = {"PoolOverlap"}
  <1>1. /\ ComputeOverlapCondition["PoolOverlap"] \in
              {Said("True", "NodesInMultiplePools"), Said("False", "NoOverlap")}
        /\ DOMAIN ComputeOverlapCondition = {"PoolOverlap"}
    BY DEF ComputeOverlapCondition, Cond, Said
  <1> QED
    BY <1>1 DEF Said, Computed, OverlapReason, Types, Reasons

LEMMA StuckComputed ==
    ASSUME NEW stuck
    PROVE  /\ Computed(DrainStuckCondition(stuck)) /\ DrainStuckReason(stuck) \in Reasons
           /\ DOMAIN DrainStuckCondition(stuck) = {"DrainStuck"}
  <1>1. /\ DrainStuckCondition(stuck)["DrainStuck"] \in
              {Said("True", "DrainTimeout"), Said("False", "DrainComplete")}
        /\ DOMAIN DrainStuckCondition(stuck) = {"DrainStuck"}
    BY DEF DrainStuckCondition, Cond, Said
  <1> QED
    BY <1>1 DEF Said, Computed, DrainStuckReason, Types, Reasons

LEMMA NodesComputed ==
    ASSUME NEW s
    PROVE  /\ Computed(computeConditions(s))
           /\ DOMAIN computeConditions(s) = {"Ready", "Updating", "Degraded", "Draining"}
  <1> DEFINE c == computeConditions(s)
  <1>1. DOMAIN c = {"Ready", "Updating", "Degraded", "Draining"}
    BY DEF computeConditions
  <1>2. ReadyReason(s) \in Reasons
    BY DEF ReadyReason, Reasons
  <1>4. c["Ready"] \in {Said("True", ReadyReason(s)), Said("False", ReadyReason(s))}
    BY DEF computeConditions, Cond, Said
  <1>5. c["Updating"] \in {Said("True", "RolloutInProgress"), Said("False", "RolloutComplete")}
    BY DEF computeConditions, Cond, Said
  <1>6. c["Degraded"] \in {Said("True", "NodeErrors"), Said("False", "NoErrors")}
    BY DEF computeConditions, Cond, Said
  <1>7. c["Draining"] \in {Said("True", "DrainInProgress"), Said("False", "NoDrainsActive")}
    BY DEF computeConditions, Cond, Said
  <1> HIDE DEF c
  <1>8. c["Ready"].status \in {"True", "False"} /\ c["Ready"].reason \in Reasons
    BY <1>2, <1>4 DEF Said
  <1>9. c["Updating"].status \in {"True", "False"} /\ c["Updating"].reason \in Reasons
    BY <1>5 DEF Said, Reasons
  <1>10. c["Degraded"].status \in {"True", "False"} /\ c["Degraded"].reason \in Reasons
    BY <1>6 DEF Said, Reasons
  <1>11. c["Draining"].status \in {"True", "False"} /\ c["Draining"].reason \in Reasons
    BY <1>7 DEF Said, Reasons
  <1>12. Computed(c)
    BY <1>1, <1>8, <1>9, <1>10, <1>11 DEF Computed, Types
  <1> QED
    BY <1>1, <1>12 DEF c

LEMMA OverlapTimely ==
    ASSUME NEW c, Timely(c), c["PoolOverlap"] = conds["PoolOverlap"]
    PROVE  /\ Timely(ApplyOverlapCondition(c))
           /\ ApplyOverlapCondition(c)["DrainStuck"] = c["DrainStuck"]
  <1> DEFINE m == mergeConditions(c, ComputeOverlapCondition)
  <1> HIDE DEF m
  <1>1. Timely(m) /\ m["DrainStuck"] = c["DrainStuck"]
    BY MergeTimely, OverlapComputed DEF m, Types
  <1>2. Timely(setDegradedFor(m, OverlapReason))
        /\ setDegradedFor(m, OverlapReason)["DrainStuck"] = m["DrainStuck"]
    BY <1>1, DegradedTimely, OverlapComputed DEF Types
  <1> QED
    BY <1>1, <1>2 DEF ApplyOverlapCondition, m

LEMMA ApplyTimely ==
    ASSUME conds \in Conditions, NEW s, NEW stuck
    PROVE  /\ Timely(ApplyConditions(s, stuck))
           /\ Timely(ApplyOverlapCondition(conds))
           /\ Timely(SetRenderDegradedCondition)
           /\ Timely(conds)
  <1> DEFINE nodes    == mergeConditions(conds, computeConditions(s))
             overlaps == ApplyOverlapCondition(nodes)
             drain    == mergeConditions(overlaps, DrainStuckCondition(stuck))
             bad      == [Degraded |-> Cond(TRUE, "RenderFailed")]
  <1> HIDE DEF nodes, overlaps, drain, bad
  <1>1. Timely(conds)
    BY DEF Timely
  <1>2. Computed(bad) /\ DOMAIN bad = {"Degraded"}
    <2>1. bad["Degraded"] = Said("True", "RenderFailed") /\ DOMAIN bad = {"Degraded"}
      BY DEF bad, Cond, Said
    <2> QED
      BY <2>1 DEF Said, Computed, Types, Reasons
  <1>3. Timely(SetRenderDegradedCondition)
    BY <1>1, <1>2, MergeTimely DEF SetRenderDegradedCondition, bad
  <1>4. /\ Timely(nodes) /\ nodes["PoolOverlap"] = conds["PoolOverlap"]
        /\ nodes["DrainStuck"] = conds["DrainStuck"]
    <2>1. {"PoolOverlap", "DrainStuck"} \subseteq Types \ DOMAIN computeConditions(s)
      BY NodesComputed DEF Types
    <2> QED
      BY <1>1, <2>1, NodesComputed, MergeTimely DEF nodes
  <1>5. Timely(overlaps) /\ overlaps["DrainStuck"] = conds["DrainStuck"]
    BY <1>4, OverlapTimely DEF overlaps
  <1>6. Timely(drain)
    BY <1>5, StuckComputed, MergeTimely DEF drain
  <1>7. Timely(setDegradedFor(drain, DrainStuckReason(stuck)))
    BY <1>6, StuckComputed, DegradedTimely
  <1>8. Timely(ApplyConditions(s, stuck))
    BY <1>7 DEF ApplyConditions, nodes, overlaps, drain
  <1>9. Timely(ApplyOverlapCondition(conds))
    BY <1>1, OverlapTimely
  <1> QED
    BY <1>1, <1>3, <1>8, <1>9

(***************************************************************************)
(* Counts.                                                                 *)
(***************************************************************************)

AllCounts == DOMAIN NoCounts

\* No count exceeds the number of nodes.
Counted(s) ==
    /\ DOMAIN s = AllCounts
    /\ \A k \in AllCounts \ {"target"} : s[k] \in 0..Cardinality(Nodes)

LEMMA SomeNodes ==
    ASSUME NEW S \in SUBSET Nodes
    PROVE  Cardinality(S) \in 0..Cardinality(Nodes)
  <1>1. /\ IsFiniteSet(S) /\ Cardinality(S) <= Cardinality(Nodes)
    BY PoolStatusAssumption, FS_Subset
  <1> QED
    BY <1>1, PoolStatusAssumption, FS_CardinalityType

LEMMA AllCountsAre ==
    AllCounts = {"target", "machines", "ready", "updated", "updating", "degraded",
                 "unavailable", "draining"}
  BY DEF AllCounts, NoCounts

LEMMA AggregateCounted ==
    ASSUME NEW target
    PROVE  Counted(AggregateStatus(target))
  <1> DEFINE s == AggregateStatus(target)
  <1>1. DOMAIN s = AllCounts
    BY AllCountsAre DEF AggregateStatus
  <1>2. /\ s["machines"] \in 0..Cardinality(Nodes) /\ s["ready"] \in 0..Cardinality(Nodes)
        /\ s["updated"] \in 0..Cardinality(Nodes) /\ s["updating"] \in 0..Cardinality(Nodes)
        /\ s["degraded"] \in 0..Cardinality(Nodes) /\ s["unavailable"] \in 0..Cardinality(Nodes)
        /\ s["draining"] \in 0..Cardinality(Nodes)
    BY SomeNodes DEF AggregateStatus, Count
  <1> HIDE DEF s
  <1>3. Counted(s)
    BY <1>1, <1>2, AllCountsAre DEF Counted
  <1> QED
    BY <1>3 DEF s

LEMMA NoneCounted == Counted(NoCounts)
  <1>1. 0 \in 0..Cardinality(Nodes)
    BY SomeNodes, FS_EmptySet
  <1> QED
    BY <1>1, AllCountsAre DEF Counted, NoCounts

\* A pool without MachineConfigs counts all its nodes as ready and updated.
LEMMA ResetCounted ==
    ASSUME Counted(counts)
    PROVE  LET all == Cardinality(Nodes) IN
           Counted([counts EXCEPT !.target = NoConfig, !.machines = all, !.ready = all,
                                  !.updated = all])
  <1>1. Cardinality(Nodes) \in 0..Cardinality(Nodes)
    BY SomeNodes
  <1> QED
    BY <1>1, AllCountsAre DEF Counted

(***************************************************************************)
(* Steps.                                                                  *)
(***************************************************************************)

SomeConfig == Configs \cup {NoConfig}
Debounces == [hash : SomeConfig, quiet : BOOLEAN]
Spendings == [events : 0..MaxEvents, faults : 0..MaxFaults]

LEMMA TypeParts ==
    TypeOK <=> /\ node \in [Nodes -> NodeInfo]
               /\ conflicts \subseteq Nodes /\ overlap \subseteq Nodes
               /\ config \in SomeConfig /\ read \in SomeConfig
               /\ debounce \in Debounces
               /\ conds \in Conditions /\ Counted(counts)
               /\ pc \in {"idle", "pass"}
               /\ woken \in BOOLEAN /\ timer \in BOOLEAN /\ unseen \in BOOLEAN
               /\ spent \in Spendings
  BY DEF TypeOK, SomeConfig, Debounces, Conditions, Counted, AllCounts, Spendings

LEMMA TypePartsNext ==
    ASSUME node' \in [Nodes -> NodeInfo], conflicts' \subseteq Nodes, overlap' \subseteq Nodes,
           config' \in SomeConfig, read' \in SomeConfig, debounce' \in Debounces,
           conds' \in Conditions, Counted(counts'), pc' \in {"idle", "pass"},
           woken' \in BOOLEAN, timer' \in BOOLEAN, unseen' \in BOOLEAN, spent' \in Spendings
    PROVE  TypeOK'
  BY DEF TypeOK, SomeConfig, Debounces, Conditions, Counted, AllCounts, Spendings

LEMMA SpendType ==
    ASSUME TypeOK
    PROVE  /\ \A k : Fault(k) => spent' \in Spendings
           /\ Event => spent' \in Spendings
  BY TypeParts, PoolStatusAssumption DEF Fault, Event, Spend, Spendings

LEMMA WritesType ==
    ASSUME TypeOK, NEW c, NEW s, Writes(c, s)
    PROVE  conds' = c /\ counts' = s /\ woken' \in BOOLEAN
  BY TypeParts DEF Writes

LEMMA TriesType ==
    ASSUME TypeOK, NEW c, NEW s, Timely(c), Counted(s), TriesToWrite(c, s)
    PROVE  Timely(conds') /\ Counted(counts') /\ woken' \in BOOLEAN /\ spent' \in Spendings
  <1>1. CASE Writes(c, s) /\ UNCHANGED spent
    BY <1>1, WritesType, TypeParts
  <1>2. CASE Fault("update") /\ UNCHANGED <<conds, counts, woken>>
    <2>1. spent' \in Spendings
      BY <1>2, SpendType
    <2>2. Timely(conds) /\ Counted(counts) /\ woken \in BOOLEAN
      BY TypeParts DEF Timely
    <2> QED
      BY <1>2, <2>1, <2>2
  <1> QED
    BY <1>1, <1>2 DEF TriesToWrite

LEMMA EndsType ==
    ASSUME PassEnds
    PROVE  pc' \in {"idle", "pass"} /\ overlap' \subseteq Nodes /\ read' \in SomeConfig
  BY DEF PassEnds, SomeConfig

LEMMA ReportsStep ==
    ASSUME TypeOK, NEW stuck, Reports(stuck), spent' \in Spendings
    PROVE  TypeOK' /\ Timely(conds')
  <1> DEFINE s == AggregateStatus(read)
  <1> HIDE DEF s
  <1>1. Timely(ApplyConditions(s, stuck)) /\ Counted(s)
    BY TypeParts, ApplyTimely, AggregateCounted DEF s
  <1>2. Writes(ApplyConditions(s, stuck), s)
    BY DEF Reports, s
  <1>3. Timely(conds') /\ Counted(counts') /\ woken' \in BOOLEAN
    BY <1>1, <1>2, WritesType
  <1>4. timer' \in BOOLEAN
    BY TypeParts DEF Reports
  <1>5. /\ PassEnds /\ UNCHANGED <<node, conflicts, config, debounce, unseen>>
    BY DEF Reports, poolVars
  <1>6. TypeOK'
    BY <1>3, <1>4, <1>5, EndsType, TypeParts, TypePartsNext DEF Timely
  <1> QED
    BY <1>3, <1>6

\* A pass writes what has its type, and times that are those of transitions.
LEMMA PassStep ==
    ASSUME TypeOK, Pass
    PROVE  TypeOK' /\ Timely(conds')
  <1>1. /\ node \in [Nodes -> NodeInfo] /\ conflicts \subseteq Nodes /\ overlap \subseteq Nodes
        /\ config \in SomeConfig /\ read \in SomeConfig /\ debounce \in Debounces
        /\ conds \in Conditions /\ Counted(counts) /\ pc \in {"idle", "pass"}
        /\ woken \in BOOLEAN /\ timer \in BOOLEAN /\ unseen \in BOOLEAN /\ spent \in Spendings
    BY TypeParts
  <1>2. CASE PassStarts
    <2>1. conds' \in Conditions /\ Timely(conds')
      BY <1>1, <1>2, AgedType DEF PassStarts, Timely
    <2>2. TypeOK'
      BY <1>1, <1>2, <2>1, TypePartsNext DEF PassStarts, poolVars
    <2> QED
      BY <2>1, <2>2
  <1>3. CASE PassWithoutConfigs
    <2>1. Timely(ApplyOverlapCondition(conds))
      BY <1>1, ApplyTimely
    <2>2. Timely(conds') /\ Counted(counts') /\ woken' \in BOOLEAN /\ spent' \in Spendings
      BY <1>1, <1>3, <2>1, ResetCounted, TriesType DEF PassWithoutConfigs
    <2>3. TypeOK'
      BY <1>1, <1>3, <2>2, EndsType, TypePartsNext DEF PassWithoutConfigs, poolVars, Timely
    <2> QED
      BY <2>2, <2>3
  <1>4. CASE PassDebounces
    <2>1. Timely(ApplyOverlapCondition(conds))
      BY <1>1, ApplyTimely
    <2>2. Timely(conds') /\ Counted(counts') /\ woken' \in BOOLEAN /\ spent' \in Spendings
      BY <1>1, <1>4, <2>1, TriesType DEF PassDebounces
    <2>3. debounce' \in Debounces /\ timer' \in BOOLEAN
      BY <1>1, <1>4, PoolStatusAssumption DEF PassDebounces, CheckAndUpdate, Debounces
    <2>4. TypeOK'
      BY <1>1, <1>4, <2>2, <2>3, EndsType, TypePartsNext DEF PassDebounces, poolVars, Timely
    <2> QED
      BY <2>2, <2>4
  <1>5. CASE PassReports
    BY <1>1, <1>5, ReportsStep DEF PassReports
  <1> QED
    BY <1>2, <1>3, <1>4, <1>5 DEF Pass

LEMMA FailureStep ==
    ASSUME TypeOK, Failures
    PROVE  TypeOK' /\ Timely(conds')
  <1>1. /\ node \in [Nodes -> NodeInfo] /\ conflicts \subseteq Nodes /\ overlap \subseteq Nodes
        /\ config \in SomeConfig /\ read \in SomeConfig /\ debounce \in Debounces
        /\ conds \in Conditions /\ Counted(counts) /\ pc \in {"idle", "pass"}
        /\ woken \in BOOLEAN /\ timer \in BOOLEAN /\ unseen \in BOOLEAN /\ spent \in Spendings
    BY TypeParts
  <1>2. Timely(conds) /\ Timely(SetRenderDegradedCondition)
    BY <1>1, ApplyTimely
  <1>3. CASE DetectPoolOverlapFails
    <2>1. conds' \in Conditions /\ Timely(conds') /\ spent' \in Spendings
      BY <1>1, <1>3, AgedType, SpendType DEF DetectPoolOverlapFails, Timely
    <2>2. TypeOK'
      BY <1>1, <1>3, <2>1, TypePartsNext DEF DetectPoolOverlapFails, poolVars
    <2> QED
      BY <2>1, <2>2
  <1>4. CASE PassFailsToRender
    <2>1. Timely(conds') /\ conds' \in Conditions
      BY <1>2, <1>4 DEF PassFailsToRender, Timely
    <2>2. spent' \in Spendings
      BY <1>4, SpendType DEF PassFailsToRender
    <2>3. TypeOK'
      BY <1>1, <1>4, <2>1, <2>2, EndsType, TypePartsNext DEF PassFailsToRender, poolVars
    <2> QED
      BY <2>1, <2>3
  <1>5. CASE PassMissesDrain
    <2>1. spent' \in Spendings
      BY <1>5, SpendType DEF PassMissesDrain
    <2> QED
      BY <1>5, <2>1, ReportsStep DEF PassMissesDrain
  <1>6. CASE PassFailsToReport
    <2>1. spent' \in Spendings
      BY <1>6, SpendType DEF PassFailsToReport
    <2>2. TypeOK'
      BY <1>1, <1>6, <2>1, EndsType, TypePartsNext DEF PassFailsToReport, poolVars
    <2> QED
      BY <1>2, <1>6, <2>2 DEF PassFailsToReport
  <1>7. CASE ControllerRestarts
    <2>1. spent' \in Spendings
      BY <1>7, SpendType DEF ControllerRestarts
    <2>2. debounce' \in Debounces
      BY <1>7 DEF ControllerRestarts, Debounces, SomeConfig
    <2>3. TypeOK'
      BY <1>1, <1>7, <2>1, <2>2, EndsType, TypePartsNext DEF ControllerRestarts, poolVars
    <2> QED
      BY <1>2, <1>7, <2>3 DEF ControllerRestarts
  <1> QED
    BY <1>3, <1>4, <1>5, <1>6, <1>7 DEF Failures

\* What happens around a pass leaves the status alone.
Elsewhere ==
    \/ Events \/ TimerFires \/ DebounceElapses \/ Heartbeat
    \/ \E n \in Nodes : TimePasses(n)

LEMMA ElsewhereStep ==
    ASSUME TypeOK, Elsewhere
    PROVE  TypeOK' /\ Timely(conds')
  <1>1. /\ node \in [Nodes -> NodeInfo] /\ conflicts \subseteq Nodes /\ overlap \subseteq Nodes
        /\ config \in SomeConfig /\ read \in SomeConfig /\ debounce \in Debounces
        /\ conds \in Conditions /\ Counted(counts) /\ pc \in {"idle", "pass"}
        /\ woken \in BOOLEAN /\ timer \in BOOLEAN /\ unseen \in BOOLEAN /\ spent \in Spendings
        /\ Timely(conds)
    BY TypeParts DEF Timely
  <1>2. CASE TimerFires \/ Heartbeat
    BY <1>1, <1>2, TypePartsNext DEF TimerFires, Heartbeat, poolVars, passVars
  <1>3. CASE DebounceElapses
    <2>1. debounce' \in Debounces
      BY <1>1, <1>3 DEF DebounceElapses, Debounces
    <2> QED
      BY <1>1, <1>3, <2>1, TypePartsNext DEF DebounceElapses, poolVars, passVars, wakeVars
  <1>4. ASSUME NEW n \in Nodes, TimePasses(n)
        PROVE  TypeOK' /\ Timely(conds')
    <2>1. node' \in [Nodes -> NodeInfo]
      <3>1. /\ node[n] \in NodeInfo /\ DOMAIN node' = Nodes
            /\ node' = [m \in DOMAIN node' |-> node'[m]]
            /\ \A m \in Nodes \ {n} : node'[m] = node[m]
        BY <1>1, <1>4 DEF TimePasses
      <3>2. node'[n] = [rev      |-> node[n].rev,
                        agent    |-> IF node[n].agent = "applying" THEN "late" ELSE node[n].agent,
                        asked    |-> node[n].asked,
                        cordoned |-> node[n].cordoned,
                        drain    |-> IF node[n].drain = "refused" THEN "overdue" ELSE node[n].drain]
        BY <1>1, <1>4 DEF TimePasses, NodeInfo
      <3>3. node'[n] \in NodeInfo
        BY <3>1, <3>2 DEF NodeInfo
      <3> QED
        BY <1>1, <3>1, <3>3
    <2> QED
      BY <1>1, <1>4, <2>1, TypePartsNext DEF TimePasses, passVars, wakeVars
  <1>5. ASSUME NEW n \in Nodes, OtherPoolChanges(n)
        PROVE  TypeOK' /\ Timely(conds')
    <2>1. conflicts' \subseteq Nodes /\ spent' \in Spendings
      BY <1>1, <1>5, SpendType DEF OtherPoolChanges
    <2> QED
      BY <1>1, <1>5, <2>1, TypePartsNext DEF OtherPoolChanges, passVars
  <1>6. ASSUME NEW n \in Nodes, NEW nd \in NodeStates, NodeChanges(n, nd)
        PROVE  TypeOK' /\ Timely(conds')
    <2>1. node' \in [Nodes -> NodeInfo] /\ spent' \in Spendings
      BY <1>1, <1>6, SpendType, PoolStatusAssumption DEF NodeChanges
    <2> QED
      BY <1>1, <1>6, <2>1, TypePartsNext DEF NodeChanges, passVars
  <1>7. ASSUME NEW c \in Configs \cup {NoConfig}, ConfigChanges(c)
        PROVE  TypeOK' /\ Timely(conds')
    <2>1. config' \in SomeConfig /\ spent' \in Spendings
      BY <1>1, <1>7, SpendType DEF ConfigChanges, SomeConfig
    <2> QED
      BY <1>1, <1>7, <2>1, TypePartsNext DEF ConfigChanges, passVars
  <1> QED
    BY <1>2, <1>3, <1>4, <1>5, <1>6, <1>7 DEF Elsewhere, Events

LEMMA StatusStep ==
    ASSUME TypeOK, [Next]_statusVars
    PROVE  TypeOK' /\ Timely(conds')
  <1>1. CASE UNCHANGED statusVars
    <2>1. TypeOK'
      BY <1>1 DEF statusVars, poolVars, passVars, wakeVars, TypeOK
    <2>2. Timely(conds)
      BY TypeParts DEF Timely
    <2> QED
      BY <1>1, <2>1, <2>2 DEF statusVars
  <1>2. CASE Next
    BY <1>2, PassStep, FailureStep, ElsewhereStep DEF Next, Elsewhere
  <1> QED
    BY <1>1, <1>2

LEMMA InitTypes ==
    ASSUME Init
    PROVE  TypeOK
  <1>1. conds \in Conditions
    BY DEF Init, Conditions, NoCondition, Reasons
  <1>2. Counted(counts)
    BY NoneCounted DEF Init
  <1>3. debounce \in Debounces /\ read \in SomeConfig /\ config \in SomeConfig
    BY DEF Init, Debounces, SomeConfig
  <1>4. spent \in Spendings
    BY PoolStatusAssumption DEF Init, Spendings
  <1>5. node \in [Nodes -> NodeInfo]
    BY PoolStatusAssumption DEF Init
  <1> QED
    BY <1>1, <1>2, <1>3, <1>4, <1>5, TypeParts DEF Init

\* Whatever happens, every condition of a pool has a status and one of the reasons
\* the controller knows, and no machine count exceeds the number of nodes: the
\* counts are computed from one list of nodes, also in the pass that resets them
\* because there is no MachineConfig left (machineconfigpool_controller.go:166).
THEOREM StatusTypes == Spec => []TypeOK
  <1>1. Init => TypeOK
    BY InitTypes
  <1>2. TypeOK /\ [Next]_statusVars => TypeOK'
    BY StatusStep
  <1> QED
    BY <1>1, <1>2, PTL DEF Spec

\* lastTransitionTime of a condition other than Degraded moves only with its
\* status: on every way out of a pass, in whatever order the status of the nodes,
\* the overlap and the drain are merged (status.go:305), and when the status is
\* written again after a failure.
THEOREM TimesOfTransitions == Spec => TransitionTimesKept
  <1>1. Init => TypeOK
    BY InitTypes
  <1>2. TypeOK /\ [Next]_statusVars => TypeOK'
    BY StatusStep
  <1>3. TypeOK /\ [Next]_statusVars
           => [\A t \in Types \ {"Degraded"} :
                  Refreshed(t) => conds'[t].status # conds[t].status]_statusVars
    BY StatusStep DEF Timely, Refreshed
  <1> QED
    BY <1>1, <1>2, <1>3, PTL DEF Spec, TransitionTimesKept
=============================================================================
