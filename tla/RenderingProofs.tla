--------------------------- MODULE RenderingProofs ---------------------------
(***************************************************************************)
(* What the names of rendered configs promise a node, whatever the hashes  *)
(* collide on, however old the controller's cache is, and for any number   *)
(* of MachineConfigs and changes.                                          *)
(*                                                                         *)
(* A merge is a fold over any finite number of configs.  What it holds is  *)
(* proved by the least counterexample: the fold's equation has a solution, *)
(* the winners themselves, and a set of configs of the least size on which *)
(* another solution differs from the winners cannot exist.                 *)
(***************************************************************************)
EXTENDS Rendering, FiniteSetTheorems, TLAPS

(***************************************************************************)
(* The merge.                                                              *)
(***************************************************************************)

\* MachineConfigs as the pool selects them.
AreConfigs(cfgs) ==
    /\ IsFiniteSet(DOMAIN cfgs) /\ DOMAIN cfgs \subseteq Nat
    /\ \A n \in DOMAIN cfgs : /\ cfgs[n].prio \in Nat /\ cfgs[n].reboot \in BOOLEAN
                              /\ DOMAIN cfgs[n].entries \subseteq Keys

IsLast(cfgs, S, n) ==
    n \in S /\ \A m \in S : \/ cfgs[m].prio < cfgs[n].prio
                            \/ cfgs[m].prio = cfgs[n].prio /\ m <= n

Having(cfgs, S, k) == {n \in S : k \in DOMAIN cfgs[n].entries}

\* The keys that the configs of S have, and the config that wins each of them.
KeysOf(cfgs, S) == {k \in Keys : Having(cfgs, S, k) # {}}
Winner(cfgs, S, k) == lastByPriority(cfgs, Having(cfgs, S, k))

Winners(cfgs, S) ==
    [entries  |-> [k \in KeysOf(cfgs, S) |-> cfgs[Winner(cfgs, S, k)].entries[k]],
     requires |-> [k \in KeysOf(cfgs, S) |-> cfgs[Winner(cfgs, S, k)].reboot],
     reboot   |-> \E n \in S : cfgs[n].reboot]

LEMMA LeastNat ==
    ASSUME NEW T \in SUBSET Nat, T # {}
    PROVE  \E n \in T : \A m \in T : n <= m
  <1>1. IsWellFoundedOn(OpToRel(<, Nat), Nat)
    BY NatLessThanWellFounded
  <1>2. PICK n \in T : \A m \in T : <<m, n>> \notin OpToRel(<, Nat)
    BY <1>1, WFMin
  <1>3. \A m \in T : ~(m < n)
    BY <1>2 DEF OpToRel
  <1> QED
    BY <1>3

\* Of sets of configs, one is the smallest.
LEMMA SmallestSet ==
    ASSUME NEW D, IsFiniteSet(D), NEW Q \in SUBSET SUBSET D, Q # {}
    PROVE  \E S \in Q : \A x \in S : S \ {x} \notin Q
  <1> DEFINE sizes == {Cardinality(S) : S \in Q}
  <1>1. \A S \in Q : IsFiniteSet(S) /\ Cardinality(S) \in Nat
    BY FS_Subset, FS_CardinalityType
  <1>2. PICK n \in sizes : \A m \in sizes : n <= m
    <2>1. sizes \in SUBSET Nat /\ sizes # {}
      BY <1>1
    <2> QED
      BY <2>1, LeastNat
  <1>3. PICK S \in Q : n = Cardinality(S)
    BY <1>2
  <1>4. ASSUME NEW x \in S, S \ {x} \in Q
        PROVE  FALSE
    <2>1. Cardinality(S \ {x}) = Cardinality(S) - 1
      BY <1>1, FS_RemoveElement
    <2>2. Cardinality(S) <= Cardinality(S \ {x})
      BY <1>2, <1>3, <1>4
    <2> QED
      BY <1>1, <2>1, <2>2
  <1> QED
    BY <1>4

LEMMA LastIsUnique ==
    ASSUME NEW cfgs, AreConfigs(cfgs), NEW S \in SUBSET DOMAIN cfgs,
           NEW n, IsLast(cfgs, S, n)
    PROVE  lastByPriority(cfgs, S) = n
  <1> DEFINE x == lastByPriority(cfgs, S)
  <1>1. x \in S /\ \A m \in S : \/ cfgs[m].prio < cfgs[x].prio
                                \/ cfgs[m].prio = cfgs[x].prio /\ m <= x
    BY Zenon DEF IsLast, lastByPriority
  <1> HIDE DEF x
  <1>2. /\ \/ cfgs[n].prio < cfgs[x].prio
           \/ cfgs[n].prio = cfgs[x].prio /\ n <= x
        /\ \/ cfgs[x].prio < cfgs[n].prio
           \/ cfgs[x].prio = cfgs[n].prio /\ x <= n
    BY <1>1 DEF IsLast
  <1>3. x \in Nat /\ n \in Nat /\ cfgs[x].prio \in Nat /\ cfgs[n].prio \in Nat
    BY <1>1 DEF AreConfigs, IsLast
  <1>4. x = n
    BY <1>2, <1>3
  <1> QED
    BY <1>4 DEF x

\* Any selection of configs has a last one.
LEMMA LastExists ==
    ASSUME NEW cfgs, AreConfigs(cfgs), NEW S \in SUBSET DOMAIN cfgs, S # {}
    PROVE  IsLast(cfgs, S, lastByPriority(cfgs, S))
  <1> DEFINE Q == {U \in SUBSET DOMAIN cfgs : U # {} /\ ~\E n : IsLast(cfgs, U, n)}
  <1>1. Q = {}
    <2> SUFFICES ASSUME Q # {}
                 PROVE  FALSE
      OBVIOUS
    <2>1. Q \in SUBSET SUBSET DOMAIN cfgs /\ IsFiniteSet(DOMAIN cfgs)
      BY DEF AreConfigs
    <2>2. PICK U \in Q : \A x \in U : U \ {x} \notin Q
      BY <2>1, SmallestSet
    <2>3. PICK x : x \in U
      BY <2>2
    <2>4. x \in Nat /\ cfgs[x].prio \in Nat /\ U \subseteq DOMAIN cfgs
      BY <2>3 DEF AreConfigs
    <2>5. CASE U \ {x} = {}
      <3>1. U = {x}
        BY <2>3, <2>5
      <3>2. IsLast(cfgs, U, x)
        BY <2>4, <3>1 DEF IsLast
      <3> QED
        BY <3>2
    <2>6. CASE U \ {x} # {}
      <3>1. PICK y : IsLast(cfgs, U \ {x}, y)
        BY <2>2, <2>3, <2>6
      <3>2. y \in U /\ y # x /\ y \in Nat /\ cfgs[y].prio \in Nat
        BY <2>4, <3>1 DEF AreConfigs, IsLast
      <3>3. \A m \in U : m \in Nat /\ cfgs[m].prio \in Nat
        BY <2>4 DEF AreConfigs
      <3>4. \A m \in U : m = x \/ cfgs[m].prio < cfgs[y].prio
                               \/ (cfgs[m].prio = cfgs[y].prio /\ m <= y)
        BY <3>1 DEF IsLast
      <3> HIDE DEF Q
      <3>5. IsLast(cfgs, U, x) \/ IsLast(cfgs, U, y)
        <4>1. CASE cfgs[x].prio < cfgs[y].prio \/ (cfgs[x].prio = cfgs[y].prio /\ x <= y)
          BY <4>1, <3>2, <3>4 DEF IsLast
        <4>2. CASE ~(cfgs[x].prio < cfgs[y].prio \/ (cfgs[x].prio = cfgs[y].prio /\ x <= y))
          <5>1. cfgs[y].prio < cfgs[x].prio \/ (cfgs[x].prio = cfgs[y].prio /\ y < x)
            BY <4>2, <2>4, <3>2
          <5>2. \A m \in U : \/ cfgs[m].prio < cfgs[x].prio
                             \/ cfgs[m].prio = cfgs[x].prio /\ m <= x
            BY <5>1, <2>4, <3>2, <3>3, <3>4
          <5> QED
            BY <5>2, <2>3 DEF IsLast
        <4> QED
          BY <4>1, <4>2
      <3> QED
        BY <3>5 DEF Q
    <2> QED
      BY <2>5, <2>6
  <1>2. PICK n : IsLast(cfgs, S, n)
    BY <1>1
  <1> QED
    BY <1>2, LastIsUnique

LEMMA WinnersOfNone ==
    ASSUME NEW cfgs
    PROVE  Winners(cfgs, {}) = NoMerge
  BY DEF Winners, KeysOf, Having, NoMerge, NoEntries

\* The merge of the others, with the last config over it, is what the winners say.
LEMMA WinnersWithLast ==
    ASSUME NEW cfgs, AreConfigs(cfgs), NEW S \in SUBSET DOMAIN cfgs, S # {},
           NEW x, IsLast(cfgs, S, x)
    PROVE  Winners(cfgs, S) = MergeOne(Winners(cfgs, S \ {x}), cfgs[x])
  <1> DEFINE others == S \ {x}
             own == DOMAIN cfgs[x].entries
  <1>1. x \in S /\ own \subseteq Keys /\ cfgs[x].reboot \in BOOLEAN
    BY DEF IsLast, AreConfigs
  <1>2. ASSUME NEW k \in own
        PROVE  Winner(cfgs, S, k) = x /\ k \in KeysOf(cfgs, S)
    <2>1. IsLast(cfgs, Having(cfgs, S, k), x)
      BY <1>1 DEF IsLast, Having
    <2>2. Having(cfgs, S, k) \in SUBSET DOMAIN cfgs
      BY DEF Having
    <2>3. Winner(cfgs, S, k) = x
      BY <2>1, <2>2, LastIsUnique DEF Winner
    <2> QED
      BY <2>1, <2>3, <1>1 DEF IsLast, KeysOf
  <1>3. ASSUME NEW k, k \notin own
        PROVE  Having(cfgs, S, k) = Having(cfgs, others, k)
    BY <1>3 DEF Having
  <1>4. KeysOf(cfgs, S) = KeysOf(cfgs, others) \cup own
    <2>1. \A k \in KeysOf(cfgs, others) : k \in KeysOf(cfgs, S)
      BY DEF KeysOf, Having
    <2>2. \A k \in KeysOf(cfgs, S) : k \in own \/ k \in KeysOf(cfgs, others)
      BY <1>3 DEF KeysOf
    <2> QED
      BY <1>2, <2>1, <2>2
  <1>5. \A k \in KeysOf(cfgs, S) : k \notin own => Winner(cfgs, S, k) = Winner(cfgs, others, k)
    BY <1>3 DEF Winner
  <1>6. (\E n \in S : cfgs[n].reboot) = ((\E n \in others : cfgs[n].reboot) \/ cfgs[x].reboot)
    BY <1>1
  <1>7. Winners(cfgs, S).entries = Overwrite(Winners(cfgs, others).entries, cfgs[x].entries)
    BY <1>2, <1>4, <1>5 DEF Winners, Overwrite
  <1>8. Winners(cfgs, S).requires =
            Overwrite(Winners(cfgs, others).requires, [k \in own |-> cfgs[x].reboot])
    BY <1>2, <1>4, <1>5 DEF Winners, Overwrite
  <1>9. Winners(cfgs, S).reboot = (Winners(cfgs, others).reboot \/ cfgs[x].reboot)
    BY <1>6 DEF Winners
  <1>10. Winners(cfgs, S) =
            [entries |-> Winners(cfgs, S).entries, requires |-> Winners(cfgs, S).requires,
             reboot |-> Winners(cfgs, S).reboot]
    BY DEF Winners
  <1> QED
    BY <1>7, <1>8, <1>9, <1>10 DEF MergeOne

\* The equation that the merge of every selection of the configs solves.
Merged(cfgs, g) ==
    [S \in SUBSET DOMAIN cfgs |->
        IF S = {} THEN NoMerge
        ELSE MergeOne(g[S \ {lastByPriority(cfgs, S)}], cfgs[lastByPriority(cfgs, S)])]

\* Merge, one config after the other in the order of sortByPriority, ends with the
\* winners, for any finite number of configs.
LEMMA MergeWinners ==
    ASSUME NEW cfgs, AreConfigs(cfgs)
    PROVE  Merge(cfgs) = Winners(cfgs, DOMAIN cfgs)
  <1> DEFINE won == [S \in SUBSET DOMAIN cfgs |-> Winners(cfgs, S)]
             merged == CHOOSE g : g = Merged(cfgs, g)
  <1>1. Merge(cfgs) = merged[DOMAIN cfgs]
    BY Zenon DEF Merge, MapThenFoldSet, Merged
  <1>2. ASSUME NEW S \in SUBSET DOMAIN cfgs, S # {}
        PROVE  Winners(cfgs, S) =
                  MergeOne(Winners(cfgs, S \ {lastByPriority(cfgs, S)}),
                           cfgs[lastByPriority(cfgs, S)])
    <2>1. IsLast(cfgs, S, lastByPriority(cfgs, S))
      BY <1>2, LastExists
    <2> QED
      BY <1>2, <2>1, WinnersWithLast
  <1>3. won = Merged(cfgs, won)
    <2>1. \A S \in SUBSET DOMAIN cfgs : S \ {lastByPriority(cfgs, S)} \in SUBSET DOMAIN cfgs
      OBVIOUS
    <2> QED
      BY <1>2, <2>1, WinnersOfNone DEF Merged
  <1>4. merged = Merged(cfgs, merged)
    <2> HIDE DEF won
    <2> QED
      BY <1>3, Zenon
  <1> HIDE DEF merged
  <1>5. \A S \in SUBSET DOMAIN cfgs :
            merged[S] = IF S = {} THEN NoMerge
                        ELSE MergeOne(merged[S \ {lastByPriority(cfgs, S)}],
                                      cfgs[lastByPriority(cfgs, S)])
    BY <1>4 DEF Merged
  <1> DEFINE Q == {S \in SUBSET DOMAIN cfgs : merged[S] # Winners(cfgs, S)}
  <1>6. Q = {}
    <2> SUFFICES ASSUME Q # {}
                 PROVE  FALSE
      OBVIOUS
    <2>1. Q \in SUBSET SUBSET DOMAIN cfgs /\ IsFiniteSet(DOMAIN cfgs)
      BY DEF AreConfigs
    <2>2. PICK S \in Q : \A x \in S : S \ {x} \notin Q
      BY <2>1, SmallestSet
    <2>3. S # {}
      BY <1>5, WinnersOfNone
    <2>4. lastByPriority(cfgs, S) \in S
      BY <2>3, LastExists DEF IsLast
    <2>5. merged[S \ {lastByPriority(cfgs, S)}] = Winners(cfgs, S \ {lastByPriority(cfgs, S)})
      BY <2>2, <2>4
    <2> QED
      BY <1>2, <1>5, <2>3, <2>5
  <1>7. merged[DOMAIN cfgs] = Winners(cfgs, DOMAIN cfgs)
    BY <1>6
  <1> QED
    BY <1>1, <1>7

\* The MachineConfigs of the pool are finitely many of the templates.
ConfigInv ==
    /\ IsFiniteSet(DOMAIN mcs) /\ DOMAIN mcs \subseteq Names
    /\ \A n \in DOMAIN mcs : mcs[n] \in Templates

LEMMA InitConfigs ==
    ASSUME Init
    PROVE  ConfigInv
  <1>1. DOMAIN mcs = {}
    BY DEF Init
  <1> QED
    BY <1>1, FS_EmptySet DEF ConfigInv

LEMMA ConfigStep ==
    ASSUME ConfigInv, [Next]_renderVars
    PROVE  ConfigInv'
  <1>1. CASE \E n \in Names : \E t \in Templates : UserAppliesConfig(n, t)
    <2>1. PICK n \in Names, t \in Templates : mcs' = Put(mcs, n, t)
      BY <1>1 DEF UserAppliesConfig
    <2>2. DOMAIN mcs' = DOMAIN mcs \cup {n}
          /\ \A m \in DOMAIN mcs' : mcs'[m] = IF m = n THEN t ELSE mcs[m]
      BY <2>1 DEF Put
    <2>3. IsFiniteSet(DOMAIN mcs')
      BY <2>2, FS_AddElement DEF ConfigInv
    <2> QED
      BY <2>2, <2>3 DEF ConfigInv
  <1>2. CASE \E n \in Names : UserDeletesConfig(n)
    <2>1. PICK n \in Names : mcs' = Restrict(mcs, DOMAIN mcs \ {n})
      BY <1>2 DEF UserDeletesConfig
    <2>2. DOMAIN mcs' = DOMAIN mcs \ {n} /\ \A m \in DOMAIN mcs' : mcs'[m] = mcs[m]
      BY <2>1 DEF Restrict
    <2>3. IsFiniteSet(DOMAIN mcs')
      BY <2>2, FS_RemoveElement DEF ConfigInv
    <2> QED
      BY <2>2, <2>3 DEF ConfigInv
  <1>3. CASE UNCHANGED mcs
    BY <1>3 DEF ConfigInv
  <1>4. CASE Pass
    <2>1. UNCHANGED mcs
      BY <1>4 DEF Pass, ReconcileRenders, ReconcileNoConfigs, UseExisting, UseSuffixed,
                  EnsureFails, CreateRMC, UseWhatExists, GetFails, RenderFails, AskNode,
                  CleanupOldRMCs
    <2> QED
      BY <1>3, <2>1
  <1>5. CASE SyncCache \/ NodeFetches \/ NodeReports \/ (\E s \in Strategies : UserSetsStrategy(s))
             \/ UNCHANGED renderVars
    <2>1. UNCHANGED mcs
      BY <1>5 DEF SyncCache, NodeFetches, NodeReports, UserSetsStrategy, renderVars
    <2> QED
      BY <1>3, <2>1
  <1> QED
    BY <1>1, <1>2, <1>4, <1>5 DEF Next, User

LEMMA ConfigsOfPool ==
    ASSUME ConfigInv
    PROVE  AreConfigs(mcs)
  <1>1. \A t \in Templates : DOMAIN t.entries \subseteq Keys
    BY DEF Keys
  <1> QED
    BY <1>1, RenderingAssumption DEF ConfigInv, AreConfigs

\* Whatever MachineConfigs a pool has, and however many: every file and unit of their
\* merge, and its reboot requirement, is the one of the config that has it and comes
\* last by priority and name, and nothing else is in it (Merge and sortByPriority,
\* merge.go).
THEOREM MergeHoldsWinners == Spec => []MergeIsWinners
  <1>1. ConfigInv => MergeIsWinners
    <2> SUFFICES ASSUME ConfigInv
                 PROVE  MergeIsWinners
      OBVIOUS
    <2>1. Merge(mcs) = Winners(mcs, DOMAIN mcs)
      BY ConfigsOfPool, MergeWinners
    <2> QED
      BY <2>1, Zenon DEF MergeIsWinners, Winners, Winner, KeysOf, Having, lastByPriority
  <1> QED
    BY <1>1, InitConfigs, ConfigStep, PTL DEF Spec

LEMMA MergeType ==
    ASSUME ConfigInv
    PROVE  ComputeHash(Merge(mcs)) \in Hashes
  <1> DEFINE ks == KeysOf(mcs, DOMAIN mcs)
  <1>1. Merge(mcs) = Winners(mcs, DOMAIN mcs)
    BY ConfigsOfPool, MergeWinners
  <1>2. ks \in SUBSET Keys
    BY DEF KeysOf
  <1>3. ASSUME NEW k \in ks
        PROVE  mcs[Winner(mcs, DOMAIN mcs, k)].entries[k] \in Contents
    <2>1. Having(mcs, DOMAIN mcs, k) \in SUBSET DOMAIN mcs /\ Having(mcs, DOMAIN mcs, k) # {}
      BY DEF KeysOf, Having
    <2>2. Winner(mcs, DOMAIN mcs, k) \in Having(mcs, DOMAIN mcs, k)
      BY <2>1, ConfigsOfPool, LastExists DEF Winner, IsLast
    <2>3. PICK t \in Templates : t = mcs[Winner(mcs, DOMAIN mcs, k)] /\ k \in DOMAIN t.entries
      BY <2>2 DEF Having, ConfigInv
    <2> QED
      BY <2>3 DEF Contents, Range
  <1>4. Winners(mcs, DOMAIN mcs).entries \in [ks -> Contents]
    BY <1>3 DEF Winners
  <1>5. Winners(mcs, DOMAIN mcs).reboot \in BOOLEAN
    BY DEF Winners
  <1> QED
    BY <1>1, <1>2, <1>4, <1>5 DEF ComputeHash, Hashes

(***************************************************************************)
(* Names and nodes.                                                        *)
(***************************************************************************)

\* A rendered config, as BuildRMC makes it.
IsRMC(r) ==
    r = [hash |-> r.hash, required |-> r.required, requires |-> r.requires,
         strategy |-> r.strategy]

\* The API server holds rendered configs, and a pass that looks for a name has
\* built one.
Stored == /\ rmcs = [name \in DOMAIN rmcs |-> rmcs[name]]
          /\ \A name \in DOMAIN rmcs : IsRMC(rmcs[name])
          /\ pc = "ensure" => IsRMC(want)

IsRevision(c) == c = [name |-> c.name, hash |-> c.hash, held |-> c.held]

NodeShape(nd) ==
    /\ nd = [desired |-> nd.desired, work |-> nd.work, run |-> nd.run]
    /\ IsRevision(nd.work) /\ IsRevision(nd.run)

ShapeInv == Stored /\ NodeShape(node)

\* If the node was asked for c all the time, c is stored under its name.
Kept(c) == c.name # NoName /\ c.held => c.name \in DOMAIN rmcs /\ rmcs[c.name].hash = c.hash

\* What the node runs is stored under the name that the node reports.  This needs the
\* same of what the agent still works on, which it is asked for unless it was
\* overtaken; and that the cleanup of a pass keeps both, although the agent goes on
\* after the pass has listed the node.
NodeInv ==
    /\ ShapeInv
    /\ Kept(node.work) /\ Kept(node.run)
    /\ node.work.name # NoName /\ node.work.held => node.work.name = node.desired
    /\ pc = "cleanup" => /\ node.desired \in inUse
                         /\ node.run.name # NoName /\ node.run.held => node.run.name \in inUse

LEMMA BuildRMCStored ==
    ASSUME NEW m, NEW s
    PROVE  IsRMC(BuildRMC(m, s))
  BY DEF IsRMC, BuildRMC

\* A name is never given another content: ensureRMC writes only the strategy and the
\* requirement to a config that exists, and creates only under a name that is free
\* in the API server, whatever the cache says.
LEMMA EnsureKeeps ==
    ASSUME Stored, UseExisting \/ CreateRMC
    PROVE  /\ Stored'
           /\ \A name \in DOMAIN rmcs :
                 name \in DOMAIN rmcs' /\ rmcs'[name].hash = rmcs[name].hash
  <1>1. CASE UNCHANGED rmcs
    <2>1. pc' # "ensure"
      BY DEF UseExisting, CreateRMC, Rendered
    <2> QED
      BY <1>1, <2>1 DEF Stored
  <1>2. CASE UseExisting /\ rmcs' # rmcs
    <2>1. PICK name : /\ name \in DOMAIN rmcs
                      /\ rmcs' = [rmcs EXCEPT ![name].strategy = want.strategy,
                                              ![name].required = want.required]
                      /\ pc' = "rendered"
      BY <1>2 DEF UseExisting, Updatable, Rendered
    <2>2. IsRMC(rmcs[name])
      BY <2>1 DEF Stored
    <2>3. rmcs'[name] = [hash |-> rmcs[name].hash, required |-> want.required,
                         requires |-> rmcs[name].requires, strategy |-> want.strategy]
      BY <2>1, <2>2 DEF IsRMC
    <2>4. /\ DOMAIN rmcs' = DOMAIN rmcs /\ rmcs' = [n \in DOMAIN rmcs' |-> rmcs'[n]]
          /\ \A n \in DOMAIN rmcs \ {name} : rmcs'[n] = rmcs[n]
      BY <2>1 DEF Stored
    <2> QED
      BY <2>1, <2>3, <2>4 DEF Stored, IsRMC
  <1>3. CASE CreateRMC /\ rmcs' # rmcs
    <2>1. PICK name : /\ name \notin DOMAIN rmcs
                      /\ rmcs' = Put(rmcs, name, want)
                      /\ pc = "ensure" /\ pc' = "rendered"
      BY <1>3 DEF CreateRMC, Rendered
    <2> QED
      BY <2>1 DEF Stored, Put
  <1> QED
    BY <1>1, <1>2, <1>3

LEMMA CleanupRestricts ==
    ASSUME Stored, CleanupOldRMCs
    PROVE  /\ Stored' /\ pc' = "idle"
           /\ DOMAIN rmcs' \subseteq DOMAIN rmcs
           /\ \A name \in DOMAIN rmcs' : rmcs'[name] = rmcs[name]
           /\ \A name \in DOMAIN rmcs \cap inUse : name \in DOMAIN rmcs'
  <1>1. PICK old \in SUBSET (DOMAIN Cached \ inUse) :
           rmcs' = Restrict(rmcs, DOMAIN rmcs \ old)
    BY DEF CleanupOldRMCs
  <1>2. pc' = "idle"
    BY DEF CleanupOldRMCs
  <1> QED
    BY <1>1, <1>2 DEF Stored, Restrict

\* Being asked for d changes of the agent's work only if it was asked for all the time.
LEMMA AskedNode ==
    ASSUME NEW nd, NodeShape(nd), NEW d
    PROVE  /\ NodeShape(Asked(nd, d))
           /\ Asked(nd, d).desired = d /\ Asked(nd, d).run = nd.run
           /\ Asked(nd, d).work.name = nd.work.name /\ Asked(nd, d).work.hash = nd.work.hash
           /\ Asked(nd, d).work.held =>
                 nd.work.held /\ (nd.work.name = NoName \/ nd.work.name = d)
  <1> DEFINE h == nd.work.held /\ (nd.work.name = NoName \/ nd.work.name = d)
  <1>1. Asked(nd, d) = [nd EXCEPT !.desired = d, !.work = [nd.work EXCEPT !.held = h]]
    BY Zenon DEF Asked
  <1>2. h => nd.work.held /\ (nd.work.name = NoName \/ nd.work.name = d)
    BY Zenon
  <1> HIDE DEF h
  <1>3. [nd.work EXCEPT !.held = h] = [name |-> nd.work.name, hash |-> nd.work.hash, held |-> h]
    BY DEF NodeShape, IsRevision
  <1>4. Asked(nd, d) = [desired |-> d, run |-> nd.run,
                        work |-> [name |-> nd.work.name, hash |-> nd.work.hash, held |-> h]]
    BY <1>1, <1>3 DEF NodeShape
  <1>5. NodeShape(Asked(nd, d))
    BY <1>4 DEF NodeShape, IsRevision
  <1>6. /\ Asked(nd, d).desired = d /\ Asked(nd, d).run = nd.run
        /\ Asked(nd, d).work.name = nd.work.name /\ Asked(nd, d).work.hash = nd.work.hash
        /\ Asked(nd, d).work.held = h
    BY <1>4
  <1> QED
    BY <1>2, <1>5, <1>6, Zenon

LEMMA ShapeStep ==
    ASSUME ShapeInv, [Next]_renderVars
    PROVE  ShapeInv'
  <1>1. CASE ReconcileRenders
    <2>1. IsRMC(want')
      BY <1>1, BuildRMCStored DEF ReconcileRenders
    <2>2. UNCHANGED <<rmcs, node>>
      BY <1>1 DEF ReconcileRenders
    <2> QED
      BY <2>1, <2>2 DEF ShapeInv, Stored
  <1>2. CASE ReconcileNoConfigs \/ SyncCache \/ User \/ UNCHANGED renderVars
    <2>1. UNCHANGED <<rmcs, node, pc, want>>
      BY <1>2 DEF ReconcileNoConfigs, SyncCache, User, UserDeletesConfig, UserAppliesConfig,
                  UserSetsStrategy, renderVars, passVars
    <2> QED
      BY <2>1 DEF ShapeInv, Stored
  <1>3. CASE UseSuffixed \/ EnsureFails \/ UseWhatExists \/ GetFails
    <2>1. UNCHANGED <<rmcs, node>> /\ pc' # "ensure"
      BY <1>3 DEF UseSuffixed, EnsureFails, UseWhatExists, GetFails, RenderFails, Rendered
    <2> QED
      BY <2>1 DEF ShapeInv, Stored
  <1>4. CASE UseExisting \/ CreateRMC
    <2>1. node' = node
      BY <1>4 DEF UseExisting, CreateRMC
    <2> QED
      BY <1>4, <2>1, EnsureKeeps DEF ShapeInv
  <1>5. CASE AskNode
    <2>1. PICK d : node' = Asked(node, d)
      BY <1>5 DEF AskNode
    <2>2. rmcs' = rmcs /\ pc' # "ensure"
      BY <1>5 DEF AskNode
    <2>3. NodeShape(node')
      BY <2>1, AskedNode DEF ShapeInv
    <2> QED
      BY <2>2, <2>3 DEF ShapeInv, Stored
  <1>6. CASE CleanupOldRMCs
    <2>1. node' = node
      BY <1>6 DEF CleanupOldRMCs
    <2> QED
      BY <1>6, <2>1, CleanupRestricts DEF ShapeInv
  <1>7. CASE NodeFetches
    <2>1. node' = [desired |-> node.desired, run |-> node.run,
                   work |-> [name |-> node.desired, held |-> TRUE,
                             hash |-> rmcs[node.desired].hash]]
          /\ UNCHANGED <<rmcs, pc, want>>
      BY <1>7 DEF NodeFetches, ShapeInv, NodeShape, passVars
    <2> QED
      BY <2>1 DEF ShapeInv, Stored, NodeShape, IsRevision
  <1>8. CASE NodeReports
    <2>1. node' = [desired |-> node.desired, run |-> node.work, work |-> Nothing]
          /\ UNCHANGED <<rmcs, pc, want>>
      BY <1>8 DEF NodeReports, ShapeInv, NodeShape, passVars
    <2> QED
      BY <2>1 DEF ShapeInv, Stored, NodeShape, IsRevision, Nothing
  <1> QED
    BY <1>1, <1>2, <1>3, <1>4, <1>5, <1>6, <1>7, <1>8 DEF Next, Pass

LEMMA NodeStep ==
    ASSUME "nodes" \notin Lags, NodeInv, [Next]_renderVars
    PROVE  NodeInv'
  <1>0. ShapeInv'
    BY ShapeStep DEF NodeInv
  <1>1. CASE ReconcileRenders \/ UseSuffixed \/ EnsureFails \/ UseWhatExists \/ GetFails
    <2>1. UNCHANGED <<rmcs, node>> /\ pc' # "cleanup"
      BY <1>1 DEF ReconcileRenders, UseSuffixed, EnsureFails, UseWhatExists, GetFails,
                  RenderFails, Rendered
    <2> QED
      BY <1>0, <2>1 DEF NodeInv, Kept
  <1>2. CASE ReconcileNoConfigs \/ SyncCache \/ User \/ UNCHANGED renderVars
    <2>1. UNCHANGED <<rmcs, node, pc, inUse>>
      BY <1>2 DEF ReconcileNoConfigs, SyncCache, User, UserDeletesConfig, UserAppliesConfig,
                  UserSetsStrategy, renderVars, passVars
    <2> QED
      BY <1>0, <2>1 DEF NodeInv, Kept
  <1>3. CASE UseExisting \/ CreateRMC
    <2>1. node' = node /\ pc' # "cleanup"
      BY <1>3 DEF UseExisting, CreateRMC, Rendered
    <2>2. \A name \in DOMAIN rmcs : name \in DOMAIN rmcs' /\ rmcs'[name].hash = rmcs[name].hash
      BY <1>3, EnsureKeeps DEF NodeInv, ShapeInv
    <2> QED
      BY <1>0, <2>1, <2>2 DEF NodeInv, Kept
  <1>4. CASE AskNode
    <2>1. PICK d : node' = Asked(node, d)
      BY <1>4 DEF AskNode
    <2>2. rmcs' = rmcs /\ inUse' = getRevisionsInUse(node')
      BY <1>4 DEF AskNode
    <2>3. /\ node'.desired = d /\ node'.run = node.run
          /\ node'.work.name = node.work.name /\ node'.work.hash = node.work.hash
          /\ node'.work.held => node.work.held /\ (node.work.name = NoName \/ node.work.name = d)
      BY <2>1, AskedNode DEF NodeInv, ShapeInv
    <2>4. node'.desired \in inUse' /\ node'.run.name \in inUse'
      BY <2>2 DEF getRevisionsInUse
    <2> QED
      BY <1>0, <2>2, <2>3, <2>4 DEF NodeInv, Kept
  <1>5. CASE CleanupOldRMCs
    <2>1. node' = node /\ pc = "cleanup"
      BY <1>5 DEF CleanupOldRMCs
    <2>2. /\ pc' = "idle"
          /\ DOMAIN rmcs' \subseteq DOMAIN rmcs
          /\ \A name \in DOMAIN rmcs' : rmcs'[name] = rmcs[name]
          /\ \A name \in DOMAIN rmcs \cap inUse : name \in DOMAIN rmcs'
      BY <1>5, CleanupRestricts DEF NodeInv, ShapeInv
    <2> QED
      BY <1>0, <2>1, <2>2 DEF NodeInv, Kept
  <1>6. CASE NodeFetches
    <2>1. /\ node' = [desired |-> node.desired, run |-> node.run,
                      work |-> [name |-> node.desired, held |-> TRUE,
                                hash |-> rmcs[node.desired].hash]]
          /\ node.desired \in DOMAIN rmcs /\ UNCHANGED <<rmcs, pc, inUse>>
      BY <1>6 DEF NodeFetches, NodeInv, ShapeInv, NodeShape, passVars
    <2> QED
      BY <1>0, <2>1 DEF NodeInv, Kept
  <1>7. CASE NodeReports
    <2>1. /\ node' = [desired |-> node.desired, run |-> node.work, work |-> Nothing]
          /\ UNCHANGED <<rmcs, pc, inUse>> /\ node.work # Nothing
      BY <1>7 DEF NodeReports, NodeInv, ShapeInv, NodeShape, passVars
    <2>2. node'.work.name = NoName
      BY <2>1 DEF Nothing
    <2>3. pc = "cleanup" /\ node.work.name # NoName /\ node.work.held => node.work.name \in inUse
      BY <2>1 DEF NodeInv
    <2> QED
      BY <1>0, <2>1, <2>2, <2>3 DEF NodeInv, Kept
  <1> QED
    BY <1>1, <1>2, <1>3, <1>4, <1>5, <1>6, <1>7 DEF Next, Pass

LEMMA InitNode ==
    ASSUME Init
    PROVE  NodeInv
  <1>1. node = FreshNode /\ pc = "idle" /\ DOMAIN rmcs = {}
    BY DEF Init, NoEntries
  <1>2. ShapeInv
    BY <1>1 DEF Init, ShapeInv, Stored, NoEntries, NodeShape, IsRevision, FreshNode, Nothing
  <1> QED
    BY <1>1, <1>2 DEF NodeInv, Kept, FreshNode, Nothing

\* If the nodes' informer is up to date, a node's current revision exists for as long
\* as the node reports it and holds what is on the node's disk, unless it was taken
\* back while the agent worked on it: although two configs may have one short hash
\* (ensureRMC, machineconfigpool_controller.go), although the name may have been
\* looked up in an old cache, and although the agent fetches, applies and reports
\* between any two steps of a pass and its cleanup.  The agent's diff from such a
\* revision to the next one is therefore a diff from what the host has.
THEOREM CurrentIsApplied ==
    ASSUME "nodes" \notin Lags
    PROVE  Spec => []CurrentMeansApplied
  <1>1. Init => NodeInv
    BY InitNode
  <1>2. NodeInv /\ [Next]_renderVars => NodeInv'
    BY NodeStep
  <1>3. NodeInv => CurrentMeansApplied
    BY DEF NodeInv, Kept, CurrentMeansApplied, Has
  <1> QED
    BY <1>1, <1>2, <1>3, PTL DEF Spec

\* What a rendered config and its name look like.
Named(name, r) ==
    /\ r.hash \in Hashes /\ r.strategy \in Strategies
    /\ name[1] = Short(r.hash) /\ name[2] \in 0..MaxCollisionRetries

TypeInv ==
    /\ ConfigInv /\ ShapeInv /\ strategy \in Strategies
    /\ cache = [rmcs |-> cache.rmcs, node |-> cache.node]
    /\ \A name \in DOMAIN rmcs : Named(name, rmcs[name])
    /\ \A name \in DOMAIN cache.rmcs : Named(name, cache.rmcs[name])
    /\ pc \in {"idle", "ensure", "alreadyExists", "rendered", "cleanup"}
    /\ pc = "ensure" => want.hash \in Hashes /\ want.strategy \in Strategies
    /\ \A nd \in {node, cache.node} : nd.work.hash \in Hashes /\ nd.run.hash \in Hashes
    /\ changes \in 0..MaxChanges

\* A free name, as ensureRMC finds it, is made of the hash and a suffix in range.
LEMMA FreeName ==
    ASSUME NEW rmc, NEW c, Lookup(rmc, c).found = "free"
    PROVE  /\ Lookup(rmc, c).name[1] = Short(rmc.hash)
           /\ Lookup(rmc, c).name[2] \in 0..MaxCollisionRetries
  <1> DEFINE usable == {i \in 1..MaxCollisionRetries :
                           Suffixed(rmc, i) \notin DOMAIN c \/ Has(c, Suffixed(rmc, i), rmc)}
  <1>1. CASE RMCName(rmc) \notin DOMAIN c
    <2>1. Lookup(rmc, c).name = <<Short(rmc.hash), 0>>
      BY <1>1 DEF Lookup, RMCName
    <2>2. 0 \in 0..MaxCollisionRetries
      BY RenderingAssumption
    <2> QED
      BY <2>1, <2>2
  <1>2. CASE RMCName(rmc) \in DOMAIN c
    <2>1. usable # {} /\ Lookup(rmc, c).name = Suffixed(rmc, Min(usable))
      BY <1>2 DEF Lookup
    <2>2. \E n \in usable : \A m \in usable : n <= m
      <3>1. usable \in SUBSET Nat
        BY RenderingAssumption
      <3> QED
        BY <2>1, <3>1, LeastNat
    <2>3. Min(usable) \in usable
      BY <2>2, Zenon DEF Min
    <2>4. Min(usable) \in 0..MaxCollisionRetries
      BY <2>3, RenderingAssumption
    <2> QED
      BY <2>1, <2>4 DEF Suffixed
  <1> QED
    BY <1>1, <1>2

LEMMA NothingHash == ComputeHash(NoMerge) \in Hashes
  <1>1. NoEntries \in [{} -> Contents] /\ {} \in SUBSET Keys
    BY DEF NoEntries
  <1>2. ComputeHash(NoMerge) = [entries |-> NoEntries, reboot |-> FALSE]
    BY DEF ComputeHash, NoMerge
  <1> QED
    BY <1>1, <1>2 DEF Hashes

LEMMA InitType ==
    ASSUME Init
    PROVE  TypeInv
  <1>1. ShapeInv
    BY InitNode DEF NodeInv
  <1>2. DOMAIN rmcs = {} /\ DOMAIN cache.rmcs = {}
        /\ cache = [rmcs |-> cache.rmcs, node |-> cache.node]
    BY DEF Init, NoEntries
  <1>3. \A nd \in {node, cache.node} : nd.work.hash \in Hashes /\ nd.run.hash \in Hashes
    <2>4. node = FreshNode /\ cache.node = FreshNode
      BY DEF Init
    <2> QED
      BY <2>4, NothingHash DEF FreshNode, Nothing
  <1>4. changes \in 0..MaxChanges
    BY RenderingAssumption DEF Init
  <1> QED
    BY <1>1, <1>2, <1>3, <1>4, InitConfigs DEF Init, TypeInv

\* What a step may not do to the types of the rendered configs and of the rest.
LEMMA TypeStep ==
    ASSUME TypeInv, [Next]_renderVars
    PROVE  TypeInv'
  <1>0. ConfigInv' /\ ShapeInv'
    BY ConfigStep, ShapeStep DEF TypeInv
  <1>1. CASE ReconcileRenders
    <2>1. want' = BuildRMC(Merge(mcs), strategy) /\ pc' = "ensure"
          /\ UNCHANGED <<strategy, rmcs, cache, node, changes>>
      BY <1>1 DEF ReconcileRenders
    <2>2. want'.hash = ComputeHash(Merge(mcs)) /\ want'.strategy = strategy
      BY <2>1 DEF BuildRMC
    <2>3. want'.hash \in Hashes /\ want'.strategy \in Strategies
      BY <2>2, MergeType DEF TypeInv
    <2> QED
      BY <1>0, <2>1, <2>3 DEF TypeInv
  <1>2. CASE ReconcileNoConfigs \/ UNCHANGED renderVars
    <2>1. UNCHANGED <<strategy, rmcs, cache, pc, want, node, changes>>
      BY <1>2 DEF ReconcileNoConfigs, renderVars, passVars
    <2> QED
      BY <1>0, <2>1 DEF TypeInv
  <1>3. CASE UseSuffixed \/ EnsureFails \/ UseWhatExists \/ GetFails
    <2>1. pc' \in {"idle", "rendered"} /\ UNCHANGED <<strategy, rmcs, cache, node, changes>>
      BY <1>3 DEF UseSuffixed, EnsureFails, UseWhatExists, GetFails, RenderFails, Rendered
    <2> QED
      BY <1>0, <2>1 DEF TypeInv
  <1>4. CASE UseExisting
    <2>1. pc = "ensure" /\ pc' = "rendered" /\ UNCHANGED <<strategy, cache, node, changes>>
      BY <1>4 DEF UseExisting, Rendered
    <2>2. \A name \in DOMAIN rmcs' : Named(name, rmcs'[name])
      <3>1. CASE UNCHANGED rmcs
        BY <3>1 DEF TypeInv
      <3>2. CASE rmcs' # rmcs
        <4>1. PICK name : /\ name \in DOMAIN rmcs
                          /\ rmcs' = [rmcs EXCEPT ![name].strategy = want.strategy,
                                                  ![name].required = want.required]
          BY <1>4, <3>2 DEF UseExisting, Updatable
        <4>2. IsRMC(rmcs[name]) /\ Named(name, rmcs[name])
          BY <4>1 DEF TypeInv, ShapeInv, Stored
        <4>3. /\ DOMAIN rmcs' = DOMAIN rmcs
              /\ \A n \in DOMAIN rmcs \ {name} : rmcs'[n] = rmcs[n]
              /\ rmcs'[name].hash = rmcs[name].hash /\ rmcs'[name].strategy = want.strategy
          BY <4>1, <4>2 DEF IsRMC
        <4>4. Named(name, rmcs'[name])
          BY <2>1, <4>2, <4>3 DEF Named, TypeInv
        <4> QED
          BY <4>3, <4>4 DEF TypeInv
      <3> QED
        BY <3>1, <3>2
    <2> QED
      BY <1>0, <2>1, <2>2 DEF TypeInv
  <1>5. CASE CreateRMC
    <2>1. pc = "ensure" /\ pc' \in {"alreadyExists", "rendered"}
          /\ UNCHANGED <<strategy, cache, node, changes>>
      BY <1>5 DEF CreateRMC, Rendered
    <2>2. \A name \in DOMAIN rmcs' : Named(name, rmcs'[name])
      <3>1. CASE UNCHANGED rmcs
        BY <3>1 DEF TypeInv
      <3>2. CASE rmcs' # rmcs
        <4> DEFINE name == Lookup(want, Cached).name
        <4>1. Lookup(want, Cached).found = "free" /\ rmcs' = Put(rmcs, name, want)
          BY <1>5, <3>2 DEF CreateRMC
        <4>2. Named(name, want)
          BY <2>1, <4>1, FreeName DEF Named, TypeInv
        <4> HIDE DEF name
        <4> QED
          BY <4>1, <4>2 DEF Put, TypeInv
      <3> QED
        BY <3>1, <3>2
    <2> QED
      BY <1>0, <2>1, <2>2 DEF TypeInv
  <1>6. CASE AskNode
    <2>1. pc' = "cleanup" /\ UNCHANGED <<strategy, rmcs, cache, changes>>
      BY <1>6 DEF AskNode
    <2>2. PICK d : node' = Asked(node, d)
      BY <1>6 DEF AskNode
    <2>3. node'.run = node.run /\ node'.work.hash = node.work.hash
      BY <2>2, AskedNode DEF TypeInv, ShapeInv
    <2> QED
      BY <1>0, <2>1, <2>3 DEF TypeInv
  <1>7. CASE CleanupOldRMCs
    <2>1. PICK S \in SUBSET DOMAIN rmcs : rmcs' = Restrict(rmcs, S)
      BY <1>7 DEF CleanupOldRMCs
    <2>2. pc' = "idle" /\ UNCHANGED <<strategy, cache, node, changes>>
      BY <1>7 DEF CleanupOldRMCs
    <2>3. \A name \in DOMAIN rmcs' : Named(name, rmcs'[name])
      BY <2>1 DEF Restrict, TypeInv
    <2> QED
      BY <1>0, <2>2, <2>3 DEF TypeInv
  <1>8. CASE SyncCache
    <2>1. /\ cache' = [rmcs |-> cache'.rmcs, node |-> cache'.node]
          /\ cache'.rmcs \in {cache.rmcs, rmcs} /\ cache'.node \in {cache.node, node}
          /\ UNCHANGED <<strategy, rmcs, pc, want, node, changes>>
      BY <1>8 DEF SyncCache, passVars
    <2> QED
      BY <1>0, <2>1 DEF TypeInv
  <1>9. CASE NodeFetches \/ NodeReports
    <2>1. UNCHANGED <<strategy, rmcs, cache, pc, want, changes>>
      BY <1>9 DEF NodeFetches, NodeReports, passVars
    <2>2. CASE NodeFetches
      <3>1. node.desired \in DOMAIN rmcs /\ node'.run = node.run
            /\ node'.work.hash = rmcs[node.desired].hash
        BY <2>2 DEF NodeFetches, TypeInv, ShapeInv, NodeShape
      <3>2. node'.work.hash \in Hashes
        BY <3>1 DEF TypeInv, Named
      <3> QED
        BY <1>0, <2>1, <3>1, <3>2 DEF TypeInv
    <2>3. CASE NodeReports
      <3>1. node'.run = node.work /\ node'.work = Nothing
        BY <2>3 DEF NodeReports, TypeInv, ShapeInv, NodeShape
      <3>2. Nothing.hash \in Hashes
        BY NothingHash DEF Nothing
      <3> QED
        BY <1>0, <2>1, <3>1, <3>2 DEF TypeInv
    <2> QED
      BY <1>9, <2>2, <2>3
  <1>10. CASE User
    <2>1. UNCHANGED <<rmcs, cache, pc, want, node>> /\ strategy' \in Strategies /\ Change
      BY <1>10 DEF User, UserDeletesConfig, UserAppliesConfig, UserSetsStrategy, TypeInv, passVars
    <2>2. changes' \in 0..MaxChanges
      BY <2>1, RenderingAssumption DEF Change, TypeInv
    <2> QED
      BY <1>0, <2>1, <2>2 DEF TypeInv
  <1> QED
    BY <1>1, <1>2, <1>3, <1>4, <1>5, <1>6, <1>7, <1>8, <1>9, <1>10 DEF Next, Pass

\* Every rendered config, in the API server and in the controller's cache, is stored
\* under the short hash of what it holds and a suffix that ensureRMC tries, and what
\* it holds is made of the files and units of MachineConfigs.
THEOREM RenderingTypes == Spec => []TypeOK
  <1>1. TypeInv => TypeOK
    <2> SUFFICES ASSUME TypeInv
                 PROVE  TypeOK
      OBVIOUS
    <2>1. DOMAIN mcs \subseteq Names /\ Range(mcs) \subseteq Templates
      BY DEF TypeInv, ConfigInv, Range
    <2> QED
      BY <2>1 DEF TypeInv, TypeOK, Named
  <1> QED
    BY <1>1, InitType, TypeStep, PTL DEF Spec
=============================================================================
