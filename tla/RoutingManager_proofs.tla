------------------------ MODULE RoutingManager_proofs ------------------------
(* Proofs about RoutingManager, for any groups, rules, VPNs and addresses    *)
(* and any number of faults: types, that rules find the sets they match on,  *)
(* that a matched set changes whole; and, when listings work and the         *)
(* commands whose errors are ignored do not fail, that a call that returns   *)
(* nil leaves the state of the store, and that the second one in a row does  *)
(* return nil.                                                               *)
EXTENDS RoutingManager, RuleChains_proofs

\* The types, with the domains that the updates of the model keep.
StoredRule == {None} \cup [{1} -> Rules]
Content == {None} \cup [{1} -> SUBSET (Addrs \cup {"cidr"})]
StoreTypes ==
    /\ groups \in [Groups -> StoredRule]
    /\ resolved \in [Domains -> SUBSET Addrs]
    /\ prewarmed \in [DestinationSets -> SUBSET Addrs]
SetTypes == ipset \in [SetNames -> Content] /\ staged \in [SetNames -> Content]
DnsTypes == dnsFile \subseteq SetNames /\ dnsLive \subseteq SetNames
MPhases == {"idle", "plan", "set", "stage", "swap", "drop", "dnswrite", "dnsreload", "rules", "cleanup"}
CallTypes ==
    /\ mop \in {"none", "apply", "sets"}
    /\ mphase \in MPhases
    /\ DOMAIN plan \subseteq SetNames /\ left \subseteq DOMAIN plan
    /\ mresult \in {"none", "ok", "error", "crashed"}
    /\ clean \in 0..2
ManagerTypes == StoreTypes /\ vpns \subseteq VPNs /\ SetTypes /\ DnsTypes /\ CallTypes

\* Where the call is: RuleManager works only for the step "rules", the steps
\* after the sets are those of applyLocked.
LinkInv ==
    /\ mphase # "rules" => phase = "idle"
    /\ mphase \in {"dnswrite", "dnsreload", "rules", "cleanup"} => mop = "apply"
    /\ mphase = "plan" => mop # "none"

\* The loop over the planned sets: those it is done with have the planned
\* entries, the one it is at is as far as the step says.
Planned == IF mop = "apply" THEN ActiveSets ELSE DnsConf
PlanInv ==
    /\ DOMAIN plan = Planned
    /\ \A s \in DOMAIN plan : plan[s] = EntriesOf(s)
    /\ mop = "apply" \/ mop = "sets"
    /\ mop = "apply" => Persisted # {}
LoopSteps == {"set", "stage", "swap", "drop"}
LoopInv ==
    mphase \in LoopSteps =>
        /\ PlanInv
        /\ \A s \in DOMAIN plan \ left : ipset[s] = <<plan[s]>>
        /\ mphase # "set" => left # {} /\ ipset[First(left)] # None
        /\ mphase = "swap" => staged[First(left)] = <<plan[First(left)]>>
        /\ mphase = "drop" => ipset[First(left)] = <<plan[First(left)]>>

\* After the loop the sets and then the dnsmasq conf are those of the store.
SetsInv ==
    mphase \in {"dnswrite", "dnsreload", "rules", "cleanup"} =>
        \A s \in ActiveSets : ipset[s] = <<EntriesOf(s)>>
DnsInv ==
    /\ mphase = "dnsreload" => dnsFile = DnsConf
    /\ mphase \in {"rules", "cleanup"} /\ Persisted # {} => dnsLive = DnsConf

\* The bindings RuleManager works on are those of the store.
WantInv == mphase = "rules" /\ phase # "idle" => want \subseteq BindingsOfStore

SetInv == ManagerTypes /\ LinkInv /\ LoopInv /\ SetsInv /\ DnsInv /\ WantInv /\ RulesFindTheirSets

\* What RuleManager was asked and has done.
Asked == IF Persisted = {} THEN op = "flush" ELSE op = "apply" /\ want = BindingsOfStore
RequestInv ==
    /\ (mphase = "rules" /\ (phase # "idle" \/ result = "ok")) => Asked
    /\ mphase = "cleanup" => Asked /\ result = "ok"
    /\ (mphase \in {"dnswrite", "dnsreload"} /\ Persisted = {}) =>
          /\ Asked /\ result = "ok"
          /\ \A s \in SetNames : ipset[s] = None /\ staged[s] = None

\* The mark rules of generation g are those of the stored groups.
Holds(g) == g \in Generations /\ \A r \in MarkRoots : chain[r][g] = BindingsOfStore

\* After an undisturbed call the generation in use has the rules of the store;
\* the next call keeps it while it rebuilds the other one.
SettledInv ==
    (clean >= 1 /\ Persisted # {}) =>
        /\ mphase \notin {"rules", "cleanup"} => Holds(front[1])
        /\ (mphase = "cleanup" \/ (mphase = "rules" /\ (phase # "idle" \/ result = "ok"))) => Holds(active)

ApplyInv == RequestInv /\ SettledInv /\ AppliedMatchesStore /\ SecondApplySucceeds

-----------------------------------------------------------------------------
\* A set that is there.
LEMMA Present == ASSUME NEW x PROVE <<x>> # None
BY DEF None

LEMMA OneValue == ASSUME NEW S, NEW x \in S PROVE <<x>> \in [{1} -> S]
OBVIOUS

LEMMA StoredRules ==
    ASSUME StoreTypes, NEW g \in Persisted
    PROVE  g \in Groups /\ RuleOf(g) \in Rules
<1>1. g \in Groups /\ groups[g] \in StoredRule /\ groups[g] # None
  BY DEF Persisted, StoreTypes
<1>2. groups[g] \in [{1} -> Rules]
  BY <1>1 DEF StoredRule
<1> QED
  BY <1>1, <1>2 DEF RuleOf

LEMMA SetsOfNames == ASSUME NEW g \in Groups, NEW rule PROVE SetsOf(g, rule) \subseteq SetNames
BY DEF SetsOf, SetNames

LEMMA ActiveNames == ASSUME StoreTypes PROVE ActiveSets \subseteq SetNames /\ DnsConf \subseteq ActiveSets
BY StoredRules, SetsOfNames, Zenon DEF ActiveSets, DnsConf

\* What RuleManager is asked for, and the sets it needs.
LEMMA BindingsStored == ASSUME StoreTypes PROVE BindingsOfStore \in SUBSET Bindings
<1> SUFFICES ASSUME NEW b \in BindingsOfStore PROVE b \in Bindings
  OBVIOUS
<1>1. PICK g \in Persisted : RuleOf(g).kind # "comment" /\ b = BindingOf(g)
  BY Zenon DEF BindingsOfStore
<1>2. g \in Groups /\ RuleOf(g) \in Rules
  BY StoredRules
<1> QED
  BY <1>1, <1>2, StoreAssumption, Zenon DEF BindingOf

LEMMA BindingSets ==
    ASSUME NEW b \in BindingsOfStore
    PROVE  b.sets \subseteq ActiveSets
<1>1. PICK g \in Persisted : b = BindingOf(g)
  BY Zenon DEF BindingsOfStore
<1>2. b.sets = SetsOf(g, RuleOf(g))
  BY <1>1 DEF BindingOf, BindingFor
<1> QED
  BY <1>2, Zenon DEF ActiveSets

LEMMA EntriesType ==
    ASSUME StoreTypes, NEW s \in ActiveSets
    PROVE  EntriesOf(s) \in SUBSET (Addrs \cup {"cidr"})
<1>1. PICK g \in Persisted : s \in SetsOf(g, RuleOf(g))
  BY Zenon DEF ActiveSets
<1>2. g \in Groups /\ RuleOf(g) \in Rules
  BY StoredRules
<1>3. RuleOf(g).domain \in Domains
  BY <1>2, RulesAssumption
<1>4. CASE s = <<g, "s">>
  BY <1>4 DEF EntriesOf
<1>5. CASE s = <<g, "d">>
  <2>1. s \in DestinationSets
    BY <1>2, <1>5 DEF DestinationSets
  <2>2. resolved[RuleOf(g).domain] \in SUBSET Addrs /\ prewarmed[s] \in SUBSET Addrs
    BY <1>3, <2>1, Zenon DEF StoreTypes
  <2>3. s[1] = g /\ s[2] # "s"
    BY <1>5
  <2> QED
    BY <2>2, <2>3 DEF EntriesOf
<1> QED
  BY <1>1, <1>4, <1>5 DEF SetsOf

\* What is read from the store stays while the store does.
LEMMA SameGroups ==
    ASSUME UNCHANGED groups
    PROVE  /\ Persisted' = Persisted /\ ActiveSets' = ActiveSets
           /\ DnsConf' = DnsConf /\ BindingsOfStore' = BindingsOfStore
<1>1. Persisted' = Persisted
  BY DEF Persisted
<1>2. ASSUME NEW g PROVE RuleOf(g)' = RuleOf(g)
  BY DEF RuleOf
<1>3. ActiveSets' = ActiveSets
  BY <1>1, <1>2, Zenon DEF ActiveSets
<1>4. ASSUME NEW g PROVE BindingOf(g)' = BindingOf(g)
  BY <1>2, Zenon DEF BindingOf
<1>5. BindingsOfStore' = BindingsOfStore
  BY <1>1, <1>2, <1>4, Zenon DEF BindingsOfStore
<1>6. DnsConf' = DnsConf
  BY <1>3, Zenon DEF DnsConf
<1> QED
  BY <1>1, <1>3, <1>5, <1>6, Zenon

LEMMA SameStore ==
    ASSUME UNCHANGED storeVars
    PROVE  /\ Persisted' = Persisted /\ ActiveSets' = ActiveSets
           /\ DnsConf' = DnsConf /\ BindingsOfStore' = BindingsOfStore
           /\ \A s : EntriesOf(s)' = EntriesOf(s)
<1>1. UNCHANGED <<groups, resolved, prewarmed>>
  BY DEF storeVars
<1>2. ASSUME NEW s PROVE EntriesOf(s)' = EntriesOf(s)
  BY <1>1 DEF EntriesOf, RuleOf
<1> QED
  BY <1>1, <1>2, SameGroups, Zenon


-----------------------------------------------------------------------------
\* The rules and ip rules.  A step of the manager is a step of RuleManager, or
\* leaves its state alone, or only counts a fault.
Alone == UNCHANGED <<kernel, control, result>> /\ faults' \in 0..MaxFaults
RuleFrame == [RuleNext]_ruleVars \/ Alone

LEMMA AloneTypes == ASSUME TypeInv, Alone PROVE TypeInv'
<1>1. /\ UNCHANGED <<linked, jumps, front, chain, iprule, op, phase, at, active, want, todo, pairs, result>>
      /\ faults' \in 0..MaxFaults
  BY DEF Alone, kernel, control
<1>2. JumpsTypeOK'
  BY <1>1 DEF TypeInv, RuleTypeOK, JumpsTypeOK
<1>3. ChainTypeOK'
  BY <1>1 DEF TypeInv, RuleTypeOK, ChainTypeOK
<1>4. CallTypeOK'
  BY <1>1 DEF TypeInv, RuleTypeOK, CallTypeOK
<1> QED
  BY <1>1, <1>2, <1>3, <1>4 DEF TypeInv, RuleTypeOK, Working

LEMMA AloneKeeps == ASSUME CutoverInv, UNCHANGED <<kernel, control, result>> PROVE CutoverInv'
<1>1. UNCHANGED <<linked, jumps, front, chain, iprule>>
  BY DEF kernel
<1>2. UNCHANGED <<op, phase, at, active, want, todo, pairs, result>> /\ UNCHANGED Working
  BY DEF control, Working
<1>3. StepInv'
  BY <1>2 DEF CutoverInv, StepInv
<1>4. JumpInv'
  BY <1>1, <1>2, LayoutKept DEF CutoverInv, JumpInv, NoLegacy
<1>5. BuildInv'
  BY <1>1, <1>2, Zenon DEF CutoverInv, BuildInv, BuiltBeforeSwitched
<1>6. FlushInv' /\ ReconcileInv'
  BY <1>1, <1>2, Zenon DEF CutoverInv, FlushInv, ReconcileInv
<1>7. AppliedMeansInForce' /\ FlushedMeansGone'
  BY <1>1, <1>2, Zenon DEF CutoverInv, AppliedMeansInForce, FlushedMeansGone
<1> QED
  BY <1>3, <1>4, <1>5, <1>6, <1>7 DEF CutoverInv

LEMMA FrameTypes == ASSUME TypeInv, RuleFrame PROVE TypeInv'
BY TypeStep, AloneTypes, Zenon DEF RuleFrame

LEMMA FrameKeeps == ASSUME TypeInv, CutoverInv, Reliable, RuleFrame PROVE CutoverInv'
BY CutoverStep, AloneKeeps, Zenon DEF RuleFrame, Alone

LEMMA FaultAlone ==
    ASSUME TypeInv, Fault, UNCHANGED <<kernel, control, result>>
    PROVE  Alone /\ faults' # faults
<1>1. faults \in 0..MaxFaults
  BY DEF TypeInv, RuleTypeOK, CallTypeOK
<1> QED
  BY <1>1, FaultBound, BoundAssumption DEF Alone, Fault

\* A step of a call of RuleManager: the mark chains take up nothing but the
\* bindings of the call, which stay what they are until it fails.
LEMMA AbortRequest == ASSUME Abort PROVE phase' = "idle" /\ result' = "error" /\ op' = op
BY DEF Abort, GiveUp, Return

MarksFromWant == \A r \in MarkRoots : \A g \in Generations : chain'[r][g] \subseteq chain[r][g] \cup want

LEMMA MarksKept == ASSUME UNCHANGED chain PROVE MarksFromWant
BY DEF MarksFromWant

LEMMA AddRulesMarks ==
    ASSUME ChainTypeOK, NEW b \in want, NEW n \in 0..4, AddRules(b, n)
    PROVE  MarksFromWant
<1> SUFFICES ASSUME NEW r \in MarkRoots, NEW g \in Generations
             PROVE  chain'[r][g] \subseteq chain[r][g] \cup want
  BY DEF MarksFromWant
<1>1. r \in Roots /\ RulesOf(r, b) = {b}
  BY DEF MarkRoots, Roots, RulesOf, NATRoots
<1>2. chain[r] \in [Generations -> SUBSET RulesFor(r, Bindings)]
  BY <1>1, Zenon DEF ChainTypeOK
<1>3. \/ chain'[r] = chain[r]
      \/ chain'[r] = [chain[r] EXCEPT ![Working] = @ \cup {b}]
  BY <1>1, Zenon DEF AddRules
<1> QED
  BY <1>2, <1>3

LEMMA AddMSSMarks ==
    ASSUME NEW four, NEW six, AddMSSRules(four, six)
    PROVE  MarksFromWant
BY DEF MarksFromWant, AddMSSRules, MarkRoots, MSSRoots, Roots


\* What a step of a call does that the manager's invariant depends on.
RuleMove ==
    /\ op' = op
    /\ MarksFromWant
    /\ \/ UNCHANGED <<want, active>> /\ (phase' # "idle" \/ result' = "ok")
       \/ phase' = "idle" /\ result' = "error"

LEMMA RuleMoves == ASSUME TypeInv, phase # "idle", RuleStep PROVE RuleMove
<1>c. ChainTypeOK /\ at \in Roots /\ todo \in SUBSET want
  BY DEF TypeInv, RuleTypeOK, CallTypeOK
<1>a. ASSUME Abort, MarksFromWant PROVE RuleMove
  BY <1>a, AbortRequest, Zenon DEF RuleMove
<1>s. ASSUME UNCHANGED <<op, want, active>>, phase' # "idle", MarksFromWant PROVE RuleMove
  BY <1>s, Zenon DEF RuleMove
<1>n. ASSUME NEW after, after # "idle", NextRoot(after) PROVE UNCHANGED <<op, want, active>> /\ phase' # "idle"
  BY <1>n DEF NextRoot
<1>1. CASE PrepareGenerationChain
  <2>1. CASE UNCHANGED chain /\ Abort
    BY <2>1, <1>a, MarksKept, Zenon
  <2>2. CASE chain' = [chain EXCEPT ![at][Working] = {}] /\ NextRoot(IF active = "" THEN "migrate" ELSE "build")
    <3>1. \A r \in Roots : chain'[r] = chain[r] \/ chain'[r] = [chain[r] EXCEPT ![Working] = {}]
      BY <1>c, <2>2 DEF ChainTypeOK
    <3>2. MarkRoots \subseteq Roots /\ \A r \in Roots : chain[r] \in [Generations -> SUBSET RulesFor(r, Bindings)]
      BY <1>c DEF ChainTypeOK, MarkRoots, Roots
    <3>3. MarksFromWant
      BY <3>1, <3>2 DEF MarksFromWant
    <3> QED
      BY <2>2, <3>3, <1>n, <1>s
  <2> QED
    BY <1>1, <2>1, <2>2, Zenon DEF PrepareGenerationChain
<1>2. CASE BuildBinding
  <2>1. PICK b \in todo : \/ AddRules(b, 4) /\ UNCHANGED <<op, phase, active, want>>
                          \/ Abort /\ \E n \in 0..3 : AddRules(b, n)
                          \/ GiveUp("error") /\ UNCHANGED <<chain, op>>
    BY <1>2, Zenon DEF BuildBinding, Due
  <2>2. b \in want /\ 4 \in 0..4 /\ \A n \in 0..3 : n \in 0..4
    BY <1>c
  <2>3. CASE AddRules(b, 4) /\ UNCHANGED <<op, phase, active, want>>
    <3>1. MarksFromWant
      BY <1>c, <2>2, <2>3, AddRulesMarks, Zenon
    <3> QED
      BY <2>3, <3>1, <1>s, Zenon
  <2>4. CASE Abort /\ \E n \in 0..3 : AddRules(b, n)
    <3>1. MarksFromWant
      BY <1>c, <2>2, <2>4, AddRulesMarks, Zenon
    <3> QED
      BY <2>4, <3>1, <1>a, Zenon
  <2>5. CASE GiveUp("error") /\ UNCHANGED <<chain, op>>
    BY <2>5, MarksKept, Zenon DEF GiveUp, Return, RuleMove
  <2> QED
    BY <2>1, <2>3, <2>4, <2>5, Zenon
<1>3. CASE BuildMSS
  <2>1. MarksFromWant
    BY <1>3, AddMSSMarks, Zenon DEF BuildMSS
  <2>2. Abort \/ (UNCHANGED <<op, active, want>> /\ phase' = "insert")
    BY <1>3, Zenon DEF BuildMSS
  <2> QED
    BY <2>1, <2>2, <1>a, <1>s, Zenon
<1>4. CASE CleanupGenerations
  <2>1. PICK kept \in SUBSET Generations :
            chain' = [chain EXCEPT ![at] = [g \in Generations |-> IF g \in kept THEN chain[at][g] ELSE {}]]
    BY <1>4, Zenon DEF CleanupGenerations
  <2>2. MarkRoots \subseteq Roots
    BY DEF MarkRoots, Roots
  <2>3. \A r \in Roots : \A g \in Generations : chain'[r][g] \in {chain[r][g], {}}
    BY <1>c, <2>1 DEF ChainTypeOK
  <2>4. MarksFromWant
    BY <2>2, <2>3 DEF MarksFromWant
  <2>5. UNCHANGED <<op, want, active>> /\ phase' # "idle"
    BY <1>4, Zenon DEF CleanupGenerations
  <2> QED
    BY <2>4, <2>5, <1>s, Zenon
<1>5. CASE FlushLegacyRoot \/ InsertJump
  <2>1. UNCHANGED chain
    BY <1>5, Zenon DEF FlushLegacyRoot, InsertJump
  <2>2. Abort \/ (UNCHANGED <<op, active, want>> /\ phase' # "idle")
    BY <1>5, <1>n, Zenon DEF FlushLegacyRoot, InsertJump
  <2> QED
    BY <2>1, <2>2, <1>a, <1>s, MarksKept, Zenon
<1>6. CASE RemoveStaleJump \/ LoadManagedIPRules \/ CleanupRoot
  BY <1>6, <1>s, MarksKept, Zenon DEF RemoveStaleJump, LoadManagedIPRules, CleanupRoot, kernel
<1>7. CASE AddIPRule \/ ReaddIPRule
  <2>1. UNCHANGED chain
    BY <1>7, Zenon DEF AddIPRule, ReaddIPRule, SetIPRules, kernel
  <2>2. Abort \/ (UNCHANGED <<op, active, want>> /\ phase' # "idle")
    BY <1>7, Zenon DEF AddIPRule, ReaddIPRule, control
  <2> QED
    BY <2>1, <2>2, <1>a, <1>s, MarksKept, Zenon
<1>8. CASE DeleteIPRule \/ RefreshIPRule
  <2>1. UNCHANGED chain
    BY <1>8, Zenon DEF DeleteIPRule, RefreshIPRule, NextFamily, SetIPRules, kernel
  <2>2. UNCHANGED <<op, active, want>> /\ (phase' # "idle" \/ result' = "ok")
    BY <1>8, Zenon DEF DeleteIPRule, RefreshIPRule, NextFamily, Return
  <2> QED
    BY <2>1, <2>2, MarksKept, Zenon DEF RuleMove
<1> QED
  BY <1>1, <1>2, <1>3, <1>4, <1>5, <1>6, <1>7, <1>8 DEF RuleStep, ListedStep


-----------------------------------------------------------------------------
\* A call that has come in: it changed the store and goes on, or it failed.
Called ==
    /\ mphase = "idle" /\ mop' \in {"apply", "sets"} /\ plan' = <<>> /\ left' = {}
    /\ \/ mphase' = "plan" /\ mresult' = "none"
       \/ mphase' = "idle" /\ mresult' = "error"
    /\ clean' = 0 \/ (clean' = clean /\ UNCHANGED groups /\ mphase' = "plan")
    /\ StoreTypes'
    /\ Alone
    /\ UNCHANGED <<vpns, setVars, dnsVars>>

\* The changes of the store keep its type.
LEMMA SaveTypes ==
    ASSUME StoreTypes, NEW g \in Groups, NEW x \in StoredRule,
           groups' = [groups EXCEPT ![g] = x], UNCHANGED <<resolved, prewarmed>>
    PROVE  StoreTypes'
BY DEF StoreTypes

LEMMA CallIs ==
    ASSUME TypeInv, StoreTypes, NEW kind \in {"apply", "sets"}, NEW touched \in BOOLEAN,
           NEW ACTION change, change => StoreTypes', ~touched /\ change => UNCHANGED groups,
           Call(kind, change, touched)
    PROVE  Called
<1>1. /\ mphase = "idle" /\ mop' \in {"apply", "sets"} /\ plan' = <<>> /\ left' = {}
      /\ UNCHANGED <<kernel, control, result, vpns, setVars, dnsVars>>
      /\ clean' = IF touched \/ faults' # faults THEN 0 ELSE clean
  BY DEF Call
<1>2. CASE change /\ mphase' = "plan" /\ mresult' = "none" /\ faults' = faults
  <2>1. Alone
    BY <1>1, <1>2 DEF Alone, TypeInv, RuleTypeOK, CallTypeOK
  <2>2. clean' = 0 \/ (clean' = clean /\ UNCHANGED groups)
    BY <1>1, <1>2
  <2> QED
    BY <1>1, <1>2, <2>1, <2>2 DEF Called
<1>3. CASE Fault /\ mphase' = "idle" /\ mresult' = "error" /\ (UNCHANGED storeVars \/ change)
  <2>1. Alone /\ faults' # faults
    BY <1>1, <1>3, FaultAlone
  <2>2. StoreTypes'
    BY <1>3 DEF storeVars, StoreTypes
  <2> QED
    BY <1>1, <1>3, <2>1, <2>2 DEF Called
<1> QED
  BY <1>2, <1>3 DEF Call

\* The calls of Next.
StoreCall ==
    \/ \E g \in Groups : \E rule \in Rules : SaveGroup(g, rule)
    \/ \E g \in Groups : DeleteGroup(g)
    \/ Apply
    \/ \E rule \in Rules : \E found \in [Domains -> SUBSET Addrs] :
          ReplaceState([g \in Groups |-> <<rule>>], found)
    \/ ReplaceState([g \in Groups |-> None], [d \in Domains |-> {}])
    \/ \E d \in Domains : \E a \in Addrs : UpsertResolverSnapshot(d, {a})
    \/ \E g \in Groups : \E a \in Addrs : UpsertPrewarmSnapshot(g, {a})
    \/ ClearResolverCache
    \/ ClearPrewarmCache

LEMMA StoreCalls == ASSUME TypeInv, StoreTypes, StoreCall PROVE Called
<1>n. None \in StoredRule
  BY DEF StoredRule
<1>r. ASSUME NEW rule \in Rules PROVE <<rule>> \in StoredRule
  BY OneValue, Zenon DEF StoredRule
<1>b. "apply" \in {"apply", "sets"} /\ "sets" \in {"apply", "sets"} /\ TRUE \in BOOLEAN /\ FALSE \in BOOLEAN
  OBVIOUS
<1>1. ASSUME NEW g \in Groups, NEW rule \in Rules, SaveGroup(g, rule) PROVE Called
  <2> DEFINE change == groups' = [groups EXCEPT ![g] = <<rule>>] /\ UNCHANGED <<resolved, prewarmed>>
  <2>1. change => StoreTypes'
    BY <1>r, SaveTypes, Zenon
  <2>3. Call("apply", change, TRUE)
    BY <1>1, Zenon DEF SaveGroup
  <2> HIDE DEF change
  <2> QED
    BY <2>1, <2>3, <1>b, CallIs, Zenon
<1>2. ASSUME NEW g \in Groups, DeleteGroup(g) PROVE Called
  <2> DEFINE change == groups' = [groups EXCEPT ![g] = None] /\ UNCHANGED <<resolved, prewarmed>>
  <2>1. change => StoreTypes'
    BY <1>n, SaveTypes, Zenon
  <2>3. Call("apply", change, TRUE)
    BY <1>2, Zenon DEF DeleteGroup
  <2> HIDE DEF change
  <2> QED
    BY <2>1, <2>3, <1>b, CallIs, Zenon
<1>3. ASSUME Apply PROVE Called
  <2> DEFINE change == UNCHANGED storeVars
  <2>1. change => StoreTypes'
    BY DEF StoreTypes, storeVars
  <2>2. change => UNCHANGED groups
    BY Zenon DEF storeVars
  <2>3. Call("apply", change, FALSE)
    BY <1>3, Zenon DEF Apply
  <2> HIDE DEF change
  <2> QED
    BY <2>1, <2>2, <2>3, <1>b, CallIs, Zenon
<1>4. ASSUME NEW new \in [Groups -> StoredRule], NEW found \in [Domains -> SUBSET Addrs], ReplaceState(new, found)
      PROVE Called
  <2> DEFINE change == groups' = new /\ resolved' = found /\ prewarmed' = [s \in DestinationSets |-> {}]
  <2>1. change => StoreTypes'
    BY DEF StoreTypes
  <2>3. Call("apply", change, TRUE)
    BY <1>4, Zenon DEF ReplaceState
  <2> HIDE DEF change
  <2> QED
    BY <2>1, <2>3, <1>b, CallIs, Zenon
<1>5. ASSUME NEW d \in Domains, NEW a \in Addrs, UpsertResolverSnapshot(d, {a}) PROVE Called
  <2> DEFINE change == resolved' = [resolved EXCEPT ![d] = @ \cup {a}] /\ UNCHANGED <<groups, prewarmed>>
  <2>1. change => StoreTypes'
    BY DEF StoreTypes
  <2>2. change => UNCHANGED groups
    BY Zenon
  <2>3. Call("sets", change, FALSE)
    BY <1>5, Zenon DEF UpsertResolverSnapshot
  <2> HIDE DEF change
  <2> QED
    BY <2>1, <2>2, <2>3, <1>b, CallIs, Zenon
<1>6. ASSUME NEW g \in Groups, NEW a \in Addrs, UpsertPrewarmSnapshot(g, {a}) PROVE Called
  <2> DEFINE change == prewarmed' = [prewarmed EXCEPT ![<<g, "d">>] = @ \cup {a}] /\ UNCHANGED <<groups, resolved>>
  <2>1. change => StoreTypes'
    <3>1. <<g, "d">> \in DestinationSets
      BY DEF DestinationSets
    <3> QED
      BY <3>1 DEF StoreTypes
  <2>2. change => UNCHANGED groups
    BY Zenon
  <2>3. Call("sets", change, FALSE)
    BY <1>6, Zenon DEF UpsertPrewarmSnapshot
  <2> HIDE DEF change
  <2> QED
    BY <2>1, <2>2, <2>3, <1>b, CallIs, Zenon
<1>7. ASSUME ClearResolverCache PROVE Called
  <2> DEFINE change == resolved' = [d \in Domains |-> {}] /\ UNCHANGED <<groups, prewarmed>>
  <2>1. change => StoreTypes'
    BY DEF StoreTypes
  <2>2. change => UNCHANGED groups
    BY Zenon
  <2>3. Call("sets", change, FALSE)
    BY <1>7, Zenon DEF ClearResolverCache
  <2> HIDE DEF change
  <2> QED
    BY <2>1, <2>2, <2>3, <1>b, CallIs, Zenon
<1>8. ASSUME ClearPrewarmCache PROVE Called
  <2> DEFINE change == prewarmed' = [s \in DestinationSets |-> {}] /\ UNCHANGED <<groups, resolved>>
  <2>1. change => StoreTypes'
    BY DEF StoreTypes
  <2>2. change => UNCHANGED groups
    BY Zenon
  <2>3. Call("sets", change, FALSE)
    BY <1>8, Zenon DEF ClearPrewarmCache
  <2> HIDE DEF change
  <2> QED
    BY <2>1, <2>2, <2>3, <1>b, CallIs, Zenon
<1>9. ASSUME NEW rule \in Rules PROVE [g \in Groups |-> <<rule>>] \in [Groups -> StoredRule]
  BY <1>r
<1>10. /\ [g \in Groups |-> None] \in [Groups -> StoredRule]
       /\ [d \in Domains |-> {}] \in [Domains -> SUBSET Addrs]
  BY <1>n
<1> QED
  BY <1>1, <1>2, <1>3, <1>4, <1>5, <1>6, <1>7, <1>8, <1>9, <1>10, Zenon DEF StoreCall


-----------------------------------------------------------------------------
\* Parts of steps.
LEMMA EmptyPlan == DOMAIN <<>> \subseteq SetNames /\ {} \subseteq DOMAIN <<>>
OBVIOUS

LEMMA DoneTypes ==
    ASSUME CallTypes, NEW o \in {"ok", "error", "crashed"}, Done(o), clean' \in 0..2
    PROVE  CallTypes' /\ mphase' = "idle" /\ mresult' = o /\ mop' = mop
<1>1. /\ mphase' = "idle" /\ mresult' = o /\ mop' = mop /\ left' = {} /\ plan' = <<>>
  BY DEF Done
<1>2. DOMAIN plan' \subseteq SetNames /\ left' \subseteq DOMAIN plan'
  BY <1>1, EmptyPlan, Zenon
<1> QED
  BY <1>1, <1>2, Zenon DEF CallTypes, MPhases

LEMMA GotoTypes ==
    ASSUME CallTypes, NEW p \in MPhases, Goto(p)
    PROVE  CallTypes' /\ mphase' = p /\ UNCHANGED <<mop, plan, left, mresult, clean>>
BY DEF Goto, CallTypes

LEMMA FinishTypes ==
    ASSUME CallTypes, Finish
    PROVE  CallTypes' /\ mphase' = "idle" /\ mresult' = "ok" /\ mop' = mop
<1>1. clean' \in 0..2
  BY DEF Finish, CallTypes
<1> QED
  BY <1>1, DoneTypes DEF Finish

LEMMA MAborts ==
    ASSUME TypeInv, CallTypes, MAbort, UNCHANGED <<kernel, control, result>>
    PROVE  Alone /\ CallTypes' /\ mphase' = "idle" /\ mresult' = "error" /\ clean' = 0
<1>1. Fault /\ Done("error") /\ clean' = 0
  BY DEF MAbort
<1>2. clean' \in 0..2
  BY <1>1
<1> QED
  BY <1>1, <1>2, DoneTypes, FaultAlone

LEMMA SameTypes ==
    /\ UNCHANGED storeVars /\ StoreTypes => StoreTypes'
    /\ UNCHANGED setVars /\ SetTypes => SetTypes'
    /\ UNCHANGED dnsVars /\ DnsTypes => DnsTypes'
    /\ UNCHANGED callVars /\ CallTypes => CallTypes'
<1>1. UNCHANGED storeVars /\ StoreTypes => StoreTypes'
  BY Zenon DEF storeVars, StoreTypes
<1>2. UNCHANGED setVars /\ SetTypes => SetTypes'
  BY Zenon DEF setVars, SetTypes
<1>3. UNCHANGED dnsVars /\ DnsTypes => DnsTypes'
  BY Zenon DEF dnsVars, DnsTypes
<1>4. UNCHANGED callVars /\ CallTypes => CallTypes'
  BY Zenon DEF callVars, CallTypes
<1> QED
  BY <1>1, <1>2, <1>3, <1>4, Zenon

\* A call that is over has no more to show.
LEMMA Over ==
    ASSUME mphase' \in {"idle", "plan"}, phase' = "idle", mphase' = "idle" \/ mop' # "none"
    PROVE  LinkInv' /\ LoopInv' /\ SetsInv' /\ DnsInv' /\ WantInv'
BY DEF LinkInv, LoopInv, LoopSteps, SetsInv, DnsInv, WantInv

\* Neither a new rule nor one set less.
LEMMA StillFound ==
    ASSUME RulesFindTheirSets, UNCHANGED chain,
           phase' = "idle" \/ (UNCHANGED <<phase, want>>),
           \A s \in SetNames : ipset[s] # None => ipset'[s] # None
    PROVE  RulesFindTheirSets'
BY Zenon DEF RulesFindTheirSets, InUse

\* The state of RuleManager as far as the manager's invariant reads it.
LEMMA AloneSame ==
    ASSUME Alone
    PROVE  UNCHANGED <<linked, jumps, front, chain, iprule, op, phase, active, want, result>>
BY DEF Alone, kernel, control

\* FirstWorks does not depend on the state; it is proved at the end.
FirstWorks == \A S \in SUBSET SetNames : S # {} => First(S) \in S
BaseInv == FirstWorks /\ TypeInv /\ SetInv

LEMMA CalledKeeps == ASSUME BaseInv, Called PROVE SetInv'
<1>1. mphase' \in {"idle", "plan"} /\ mop' # "none" /\ phase' = "idle" /\ UNCHANGED <<chain, ipset>>
  BY AloneSame DEF BaseInv, SetInv, LinkInv, Called, setVars
<1>2. CallTypes'
  <2>1. DOMAIN plan' \subseteq SetNames /\ left' \subseteq DOMAIN plan'
    BY EmptyPlan, Zenon DEF Called
  <2>2. clean \in 0..2 /\ 0 \in 0..2
    BY DEF BaseInv, SetInv, ManagerTypes, CallTypes
  <2> QED
    BY <2>1, <2>2, Zenon DEF Called, CallTypes, MPhases
<1>3. ManagerTypes'
  BY <1>2, SameTypes, Zenon DEF Called, BaseInv, SetInv, ManagerTypes
<1>4. RulesFindTheirSets'
  BY <1>1, StillFound, Zenon DEF BaseInv, SetInv
<1> QED
  BY <1>1, <1>3, <1>4, Over, Zenon DEF SetInv

\* The call ends without a change of the kernel's sets, of the conf and of the rules.
LEMMA EndsKeeps ==
    ASSUME BaseInv, CallTypes', StoreTypes', mphase' = "idle", phase' = "idle",
           UNCHANGED <<vpns, dnsFile, chain, ipset>>, staged' \in [SetNames -> Content],
           dnsLive' \subseteq SetNames
    PROVE  SetInv'
<1>1. ManagerTypes'
  BY Zenon DEF BaseInv, SetInv, ManagerTypes, SetTypes, DnsTypes
<1>2. RulesFindTheirSets'
  BY StillFound, Zenon DEF BaseInv, SetInv
<1> QED
  BY <1>1, <1>2, Over, Zenon DEF SetInv

LEMMA AbortKeeps ==
    ASSUME BaseInv, MAbort, phase = "idle", UNCHANGED <<kernel, control, result, storeVars, vpns, ipset, dnsVars>>,
           staged' \in [SetNames -> Content]
    PROVE  SetInv'
<1>1. Alone /\ CallTypes' /\ mphase' = "idle"
  BY MAborts, Zenon DEF BaseInv, SetInv, ManagerTypes
<1>2. phase' = "idle" /\ UNCHANGED chain
  BY <1>1, AloneSame, Zenon
<1>3. StoreTypes' /\ DnsTypes' /\ UNCHANGED dnsFile
  BY SameTypes, Zenon DEF BaseInv, SetInv, ManagerTypes, dnsVars
<1> QED
  BY <1>1, <1>2, <1>3, EndsKeeps, Zenon DEF DnsTypes


-----------------------------------------------------------------------------
\* The steps up to the end of the loop over the sets.
LEMMA PurgeTypes == ASSUME StoreTypes, Purge PROVE StoreTypes' /\ UNCHANGED groups
<1>1. PICK dead \in SUBSET Addrs : /\ resolved' = [d \in Domains |-> resolved[d] \ dead]
                                   /\ prewarmed' = [s \in DestinationSets |-> prewarmed[s] \ dead]
                                   /\ UNCHANGED groups
  BY DEF Purge
<1> QED
  BY <1>1 DEF StoreTypes

LEMMA PlanEmptyKeeps == ASSUME BaseInv, PlanEmpty PROVE SetInv'
<1>1. /\ mphase = "plan" /\ mop = "apply" /\ Persisted = {} /\ StartFlush /\ Goto("rules")
      /\ UNCHANGED <<storeVars, vpns, setVars, dnsVars>>
  BY DEF PlanEmpty
<1>2. CallTypes' /\ mphase' = "rules" /\ mop' = "apply"
  BY <1>1, GotoTypes, Zenon DEF BaseInv, SetInv, ManagerTypes, MPhases
<1>3. ManagerTypes'
  BY <1>1, <1>2, SameTypes, Zenon DEF BaseInv, SetInv, ManagerTypes
<1>4. Persisted' = {} /\ ActiveSets' = {}
  BY <1>1, SameStore DEF ActiveSets
<1>5. want' = {} /\ UNCHANGED <<chain, ipset>>
  BY <1>1 DEF StartFlush, kernel, setVars
<1>6. RulesFindTheirSets'
  BY <1>5, Zenon DEF BaseInv, SetInv, RulesFindTheirSets, InUse
<1> QED
  BY <1>2, <1>3, <1>4, <1>5, <1>6 DEF SetInv, LinkInv, LoopInv, LoopSteps, SetsInv, DnsInv, WantInv

LEMMA PlanMissingKeeps == ASSUME BaseInv, PlanMissingVPN PROVE SetInv'
<1>1. /\ mphase = "plan" /\ Purge /\ Done("error") /\ clean' = 0
      /\ UNCHANGED <<ruleVars, vpns, setVars, dnsVars>>
  BY DEF PlanMissingVPN
<1>2. StoreTypes'
  BY <1>1, PurgeTypes, Zenon DEF BaseInv, SetInv, ManagerTypes
<1>3. CallTypes' /\ mphase' = "idle"
  <2>1. clean' \in 0..2
    BY <1>1
  <2> QED
    BY <1>1, <2>1, DoneTypes, Zenon DEF BaseInv, SetInv, ManagerTypes
<1>4. phase' = "idle" /\ UNCHANGED <<chain, ipset, staged, dnsFile, dnsLive>>
  BY <1>1 DEF ruleVars, control, kernel, setVars, dnsVars, BaseInv, SetInv, LinkInv
<1>5. staged' \in [SetNames -> Content] /\ dnsLive' \subseteq SetNames
  BY <1>4, Zenon DEF BaseInv, SetInv, ManagerTypes, SetTypes, DnsTypes
<1> QED
  BY <1>1, <1>2, <1>3, <1>4, <1>5, EndsKeeps, Zenon

\* Within the loop only the loop's own invariant and the rules' sets are open.
LEMMA InLoop ==
    ASSUME mphase' \in LoopSteps, phase' = "idle", ManagerTypes', LoopInv', RulesFindTheirSets'
    PROVE  SetInv'
BY DEF SetInv, LinkInv, LoopSteps, SetsInv, DnsInv, WantInv

LEMMA PlanSetsKeeps == ASSUME BaseInv, PlanSets PROVE SetInv'
<1>1. /\ mphase = "plan" /\ (Persisted # {} \/ mop = "sets")
      /\ Purge
      /\ plan' = [s \in Planned |-> EntriesOf(s)']
      /\ left' = DOMAIN plan' /\ mphase' = "set"
      /\ UNCHANGED <<ruleVars, vpns, setVars, dnsVars, mop, mresult, clean>>
  BY Zenon DEF PlanSets, Planned
<1>t. StoreTypes /\ CallTypes
  BY Zenon DEF BaseInv, SetInv, ManagerTypes
<1>2. StoreTypes' /\ UNCHANGED groups
  BY <1>1, <1>t, PurgeTypes, Zenon
<1>3. ActiveSets' = ActiveSets /\ DnsConf' = DnsConf /\ Persisted' = Persisted /\ Planned' = Planned
  BY <1>1, <1>2, SameGroups, Zenon DEF Planned
<1>4. DOMAIN plan' = Planned' /\ \A s \in Planned : plan'[s] = EntriesOf(s)'
  BY <1>1, <1>3, Zenon
<1>5. Planned \subseteq SetNames
  BY <1>t, ActiveNames, Zenon DEF Planned
<1>6. CallTypes'
  BY <1>1, <1>3, <1>4, <1>5, <1>t, Zenon DEF CallTypes, MPhases
<1>7. ManagerTypes'
  BY <1>1, <1>2, <1>6, SameTypes, Zenon DEF BaseInv, SetInv, ManagerTypes
<1>8. phase' = "idle" /\ UNCHANGED <<chain, ipset, phase, want>>
  BY <1>1 DEF ruleVars, control, kernel, setVars, BaseInv, SetInv, LinkInv
<1>9. RulesFindTheirSets'
  BY <1>8, StillFound, Zenon DEF BaseInv, SetInv
<1>10. LoopInv'
  <2>1. mop' = "apply" \/ mop' = "sets"
    BY <1>1, <1>t DEF CallTypes, BaseInv, SetInv, LinkInv
  <2>2. mop' = "apply" => Persisted' # {}
    BY <1>1, <1>3
  <2>3. PlanInv'
    BY <1>3, <1>4, <2>1, <2>2 DEF PlanInv
  <2> QED
    BY <1>1, <2>3 DEF LoopInv
<1> QED
  BY <1>1, <1>7, <1>8, <1>9, <1>10, InLoop DEF LoopSteps


LEMMA PlanKept ==
    ASSUME PlanInv, UNCHANGED storeVars, UNCHANGED <<mop, plan>>
    PROVE  PlanInv'
<1>1. /\ Persisted' = Persisted /\ ActiveSets' = ActiveSets /\ DnsConf' = DnsConf
      /\ \A s : EntriesOf(s)' = EntriesOf(s)
  BY SameStore, Zenon
<1>2. Planned' = Planned
  BY <1>1, Zenon DEF Planned
<1> QED
  BY <1>1, <1>2 DEF PlanInv

LEMMA LoopFacts ==
    ASSUME BaseInv, mphase \in LoopSteps, left # {}
    PROVE  /\ First(left) \in left /\ First(left) \in SetNames /\ First(left) \in DOMAIN plan
           /\ plan[First(left)] \in SUBSET (Addrs \cup {"cidr"})
           /\ <<plan[First(left)]>> \in Content
           /\ phase = "idle" /\ PlanInv
           /\ DOMAIN plan \subseteq SetNames
<1>1. left \subseteq DOMAIN plan /\ DOMAIN plan \subseteq SetNames /\ StoreTypes
  BY Zenon DEF BaseInv, SetInv, ManagerTypes, CallTypes
<1>2. First(left) \in left
  BY <1>1, Zenon DEF BaseInv, FirstWorks
<1>3. PlanInv
  BY Zenon DEF BaseInv, SetInv, LoopInv
<1>4. phase = "idle"
  BY DEF BaseInv, SetInv, LinkInv, LoopSteps
<1>5. First(left) \in Planned /\ plan[First(left)] = EntriesOf(First(left))
  BY <1>1, <1>2, <1>3, Zenon DEF PlanInv
<1>6. Planned \subseteq ActiveSets
  BY <1>1, ActiveNames, Zenon DEF Planned
<1>7. plan[First(left)] \in SUBSET (Addrs \cup {"cidr"})
  BY <1>1, <1>5, <1>6, EntriesType, Zenon
<1>8. <<plan[First(left)]>> \in Content
  BY <1>7, OneValue, Zenon DEF Content
<1> QED
  BY <1>1, <1>2, <1>3, <1>4, <1>7, <1>8, Zenon

\* One step of the loop on the set s it is at.
LEMMA LoopGoesOn ==
    ASSUME BaseInv, mphase \in LoopSteps, left # {}, NEW p \in {"stage", "swap", "drop"}, Goto(p),
           UNCHANGED <<kernel, control, result, storeVars, vpns, dnsVars>>, SetTypes',
           NEW s, s = First(left),
           \A t \in SetNames : t # s => ipset'[t] = ipset[t],
           ipset'[s] # None,
           p = "swap" => staged'[s] = <<plan[s]>>,
           p = "drop" => ipset'[s] = <<plan[s]>>
    PROVE  SetInv'
<1>1. s \in left /\ phase = "idle" /\ PlanInv /\ DOMAIN plan \subseteq SetNames
  BY LoopFacts, Zenon
<1>2. CallTypes' /\ mphase' = p /\ UNCHANGED <<mop, plan, left, mresult, clean>>
  <2>1. p \in MPhases
    BY DEF MPhases
  <2> QED
    BY <2>1, GotoTypes, Zenon DEF BaseInv, SetInv, ManagerTypes
<1>3. ManagerTypes'
  BY <1>2, SameTypes, Zenon DEF BaseInv, SetInv, ManagerTypes
<1>4. phase' = "idle" /\ UNCHANGED chain
  BY <1>1 DEF kernel, control
<1>5. RulesFindTheirSets'
  <2>1. \A t \in SetNames : ipset[t] # None => ipset'[t] # None
    BY Zenon
  <2> QED
    BY <1>4, <2>1, StillFound, Zenon DEF BaseInv, SetInv
<1>6. LoopInv'
  <2>1. PlanInv'
    BY <1>1, <1>2, PlanKept, Zenon
  <2>2. \A t \in DOMAIN plan \ left : ipset[t] = <<plan[t]>>
    BY Zenon DEF BaseInv, SetInv, LoopInv
  <2>3. \A t \in DOMAIN plan' \ left' : ipset'[t] = <<plan'[t]>>
    BY <1>1, <1>2, <2>2, Zenon
  <2>4. First(left') = s /\ plan' = plan /\ left' # {}
    BY <1>2, Zenon
  <2> QED
    BY <1>2, <2>1, <2>3, <2>4 DEF LoopInv
<1> QED
  BY <1>2, <1>3, <1>4, <1>5, <1>6, InLoop DEF LoopSteps

LEMMA EnsureKeeps == ASSUME BaseInv, EnsureSet PROVE SetInv'
<1>1. /\ mphase = "set" /\ left # {}
      /\ UNCHANGED <<kernel, control, result, storeVars, vpns, staged, dnsVars>>
  BY DEF EnsureSet
<1>2. First(left) \in SetNames /\ phase = "idle"
  BY <1>1, LoopFacts DEF LoopSteps
<1>3. SetTypes
  BY DEF BaseInv, SetInv, ManagerTypes
<1>4. CASE Goto("stage") /\ ipset' = [ipset EXCEPT ![First(left)] = IF @ = None THEN <<{}>> ELSE @]
  <2>1. <<{}>> \in Content /\ <<{}>> # None
    BY OneValue, Present DEF Content
  <2> DEFINE s == First(left)
  <2>2. s \in SetNames /\ s = First(left) /\ ipset' = [ipset EXCEPT ![s] = IF @ = None THEN <<{}>> ELSE @]
    BY <1>2, <1>4
  <2> HIDE DEF s
  <2>3. SetTypes' /\ ipset'[s] # None /\ \A t \in SetNames : t # s => ipset'[t] = ipset[t]
    BY <1>1, <1>3, <2>1, <2>2 DEF SetTypes
  <2> QED
    BY <1>1, <1>4, <2>2, <2>3, LoopGoesOn DEF LoopSteps
<1>5. CASE MAbort /\ UNCHANGED ipset
  BY <1>1, <1>2, <1>3, <1>5, AbortKeeps, Zenon DEF SetTypes
<1> QED
  BY <1>4, <1>5, Zenon DEF EnsureSet

LEMMA StageKeeps == ASSUME BaseInv, StageSet PROVE SetInv'
<1>1. /\ mphase = "stage" /\ left # {} /\ ipset[First(left)] # None
      /\ UNCHANGED <<kernel, control, result, storeVars, vpns, ipset, dnsVars>>
  BY DEF StageSet, BaseInv, SetInv, LoopInv, LoopSteps
<1> DEFINE s == First(left)
<1>2. s \in SetNames /\ phase = "idle" /\ <<plan[s]>> \in Content /\ plan[s] \in SUBSET (Addrs \cup {"cidr"})
  BY <1>1, LoopFacts DEF LoopSteps
<1>3. SetTypes
  BY DEF BaseInv, SetInv, ManagerTypes
<1>4. \/ Goto("swap") /\ staged' = [staged EXCEPT ![s] = <<plan[s]>>]
      \/ MAbort /\ \E some \in SUBSET plan[s] : staged' = [staged EXCEPT ![s] = <<some>>]
      \/ MAbort /\ UNCHANGED staged
  BY Zenon DEF StageSet
<1>s. s = First(left)
  OBVIOUS
<1> HIDE DEF s
<1>5. CASE Goto("swap") /\ staged' = [staged EXCEPT ![s] = <<plan[s]>>]
  <2>1. SetTypes' /\ staged'[s] = <<plan[s]>> /\ \A t \in SetNames : t # s => ipset'[t] = ipset[t]
    BY <1>1, <1>2, <1>3, <1>5 DEF SetTypes
  <2>2. ipset'[s] # None
    BY <1>1, <1>s
  <2> QED
    BY <1>1, <1>5, <1>s, <2>1, <2>2, LoopGoesOn DEF LoopSteps
<1>6. CASE MAbort /\ \E some \in SUBSET plan[s] : staged' = [staged EXCEPT ![s] = <<some>>]
  <2>1. PICK some \in SUBSET (Addrs \cup {"cidr"}) : staged' = [staged EXCEPT ![s] = <<some>>]
    BY <1>2, <1>6, Zenon
  <2>2. <<some>> \in Content
    BY OneValue, Zenon DEF Content
  <2>3. staged' \in [SetNames -> Content]
    BY <1>2, <1>3, <2>1, <2>2 DEF SetTypes
  <2> QED
    BY <1>1, <1>2, <1>6, <2>3, AbortKeeps, Zenon
<1>7. CASE MAbort /\ UNCHANGED staged
  BY <1>1, <1>2, <1>3, <1>7, AbortKeeps, Zenon DEF SetTypes
<1> QED
  BY <1>4, <1>5, <1>6, <1>7, Zenon


LEMMA SwapKeeps == ASSUME BaseInv, SwapSets PROVE SetInv'
<1> DEFINE s == First(left)
<1>1. /\ mphase = "swap" /\ left # {} /\ ipset[s] # None /\ staged[s] = <<plan[s]>>
      /\ UNCHANGED <<kernel, control, result, storeVars, vpns, dnsVars>>
  BY DEF SwapSets, BaseInv, SetInv, LoopInv, LoopSteps
<1>2. s \in SetNames /\ phase = "idle"
  BY <1>1, LoopFacts DEF LoopSteps
<1>3. SetTypes
  BY DEF BaseInv, SetInv, ManagerTypes
<1>4. \/ Goto("drop") /\ ipset' = [ipset EXCEPT ![s] = staged[s]] /\ staged' = [staged EXCEPT ![s] = ipset[s]]
      \/ MAbort /\ UNCHANGED setVars
  BY Zenon DEF SwapSets
<1>s. s = First(left)
  OBVIOUS
<1> HIDE DEF s
<1>5. CASE /\ Goto("drop")
           /\ ipset' = [ipset EXCEPT ![s] = staged[s]] /\ staged' = [staged EXCEPT ![s] = ipset[s]]
  <2>1. ipset[s] \in Content /\ staged[s] \in Content
    BY <1>2, <1>3, Zenon DEF SetTypes
  <2>2. /\ SetTypes' /\ ipset'[s] = staged[s]
        /\ \A t \in SetNames : t # s => ipset'[t] = ipset[t]
    BY <1>2, <1>3, <1>5, <2>1 DEF SetTypes
  <2>3. ipset'[s] = <<plan[s]>> /\ ipset'[s] # None
    BY <1>1, <2>2, Present, Zenon
  <2> QED
    BY <1>1, <1>5, <1>s, <2>2, <2>3, LoopGoesOn DEF LoopSteps
<1>6. CASE MAbort /\ UNCHANGED setVars
  BY <1>1, <1>2, <1>3, <1>6, AbortKeeps, Zenon DEF SetTypes, setVars
<1> QED
  BY <1>4, <1>5, <1>6, Zenon

LEMMA DropKeeps == ASSUME BaseInv, DestroyStaged PROVE SetInv'
<1> DEFINE s == First(left)
<1>1. /\ mphase = "drop" /\ left # {} /\ ipset[s] = <<plan[s]>>
      /\ UNCHANGED <<kernel, control, result, storeVars, vpns, ipset, dnsVars>>
      /\ \A t \in DOMAIN plan \ left : ipset[t] = <<plan[t]>>
  BY DEF DestroyStaged, BaseInv, SetInv, LoopInv, LoopSteps
<1>2. s \in left /\ s \in SetNames /\ phase = "idle" /\ PlanInv
  BY <1>1, LoopFacts DEF LoopSteps
<1>3. SetTypes /\ None \in Content /\ CallTypes
  BY DEF BaseInv, SetInv, ManagerTypes, Content
<1>4. \/ /\ staged' = [staged EXCEPT ![s] = None] /\ left' = left \ {s} /\ mphase' = "set"
         /\ UNCHANGED <<mop, plan, mresult, clean>>
      \/ MAbort /\ UNCHANGED staged
  BY Zenon DEF DestroyStaged
<1> HIDE DEF s
<1>5. CASE /\ staged' = [staged EXCEPT ![s] = None] /\ left' = left \ {s} /\ mphase' = "set"
           /\ UNCHANGED <<mop, plan, mresult, clean>>
  <2>1. SetTypes'
    BY <1>1, <1>2, <1>3, <1>5 DEF SetTypes
  <2>2. CallTypes'
    BY <1>3, <1>5 DEF CallTypes, MPhases
  <2>3. ManagerTypes'
    BY <1>1, <2>1, <2>2, SameTypes, Zenon DEF BaseInv, SetInv, ManagerTypes
  <2>4. phase' = "idle" /\ UNCHANGED chain
    BY <1>1, <1>2 DEF kernel, control
  <2>5. RulesFindTheirSets'
    BY <1>1, <2>4, StillFound, Zenon DEF BaseInv, SetInv
  <2>6. LoopInv'
    <3>1. PlanInv'
      BY <1>1, <1>2, <1>5, PlanKept, Zenon
    <3>2. \A t \in DOMAIN plan' \ left' : ipset'[t] = <<plan'[t]>>
      BY <1>1, <1>5, Zenon
    <3> QED
      BY <1>5, <3>1, <3>2 DEF LoopInv
  <2> QED
    BY <1>5, <2>3, <2>4, <2>5, <2>6, InLoop DEF LoopSteps
<1>6. CASE MAbort /\ UNCHANGED staged
  BY <1>1, <1>2, <1>3, <1>6, AbortKeeps, Zenon DEF SetTypes
<1> QED
  BY <1>4, <1>5, <1>6, Zenon

LEMMA SetsDoneKeeps == ASSUME BaseInv, SetsDone PROVE SetInv'
<1>1. /\ mphase = "set" /\ left = {}
      /\ UNCHANGED <<ruleVars, storeVars, vpns, setVars, dnsVars>>
  BY DEF SetsDone
<1>2. /\ phase' = "idle" /\ UNCHANGED <<chain, ipset, staged, dnsFile, dnsLive>>
  BY <1>1 DEF ruleVars, kernel, control, setVars, dnsVars, BaseInv, SetInv, LinkInv
<1>t. StoreTypes' /\ SetTypes' /\ DnsTypes' /\ CallTypes /\ vpns' \subseteq VPNs
  BY <1>1, SameTypes, Zenon DEF BaseInv, SetInv, ManagerTypes
<1>3. CASE mop = "sets" /\ Done("ok") /\ UNCHANGED clean
  <2>1. clean' \in 0..2
    BY <1>3, <1>t DEF CallTypes
  <2>2. CallTypes' /\ mphase' = "idle"
    BY <1>3, <1>t, <2>1, DoneTypes, Zenon
  <2> QED
    BY <1>1, <1>2, <1>t, <2>2, EndsKeeps, Zenon DEF SetTypes, DnsTypes
<1>4. CASE mop # "sets" /\ Goto("dnswrite")
  <2>1. CallTypes' /\ mphase' = "dnswrite" /\ mop' = mop
    BY <1>4, <1>t, GotoTypes, Zenon DEF MPhases
  <2>2. PlanInv /\ \A t \in DOMAIN plan : ipset[t] = <<plan[t]>>
    BY <1>1 DEF BaseInv, SetInv, LoopInv, LoopSteps
  <2>3. mop = "apply" /\ \A t \in ActiveSets : ipset[t] = <<EntriesOf(t)>>
    BY <1>4, <2>2, Zenon DEF PlanInv, Planned
  <2>4. SetsInv'
    BY <1>1, <1>2, <2>3, SameStore, Zenon DEF SetsInv
  <2>5. RulesFindTheirSets'
    BY <1>2, StillFound, Zenon DEF BaseInv, SetInv
  <2> QED
    BY <1>t, <1>2, <2>1, <2>3, <2>4, <2>5 DEF SetInv, ManagerTypes, LinkInv, LoopInv, LoopSteps, DnsInv, WantInv
<1> QED
  BY <1>3, <1>4, Zenon DEF SetsDone


-----------------------------------------------------------------------------
\* The steps after the loop.
LateSteps == {"dnswrite", "dnsreload", "rules", "cleanup"}

LEMMA Late ==
    ASSUME mphase' \in LateSteps, mop' = "apply", mphase' # "rules" => phase' = "idle",
           ManagerTypes', SetsInv', DnsInv', WantInv', RulesFindTheirSets'
    PROVE  SetInv'
BY DEF SetInv, LinkInv, LoopInv, LoopSteps, LateSteps

LEMMA SetsStay ==
    ASSUME SetsInv, mphase \in LateSteps, UNCHANGED storeVars,
           \A s \in ActiveSets : ipset'[s] = ipset[s]
    PROVE  SetsInv'
<1>1. \A s \in ActiveSets : ipset[s] = <<EntriesOf(s)>>
  BY Zenon DEF SetsInv, LateSteps
<1> QED
  BY <1>1, SameStore, Zenon DEF SetsInv

LEMMA WriteKeeps == ASSUME BaseInv, WriteDnsmasqConf PROVE SetInv'
<1>1. /\ mphase = "dnswrite"
      /\ UNCHANGED <<kernel, control, result, storeVars, vpns, setVars, dnsLive>>
  BY DEF WriteDnsmasqConf
<1>2. /\ phase = "idle" /\ phase' = "idle" /\ UNCHANGED <<chain, ipset, staged>> /\ mop = "apply"
  BY <1>1 DEF kernel, control, setVars, BaseInv, SetInv, LinkInv
<1>t. StoreTypes /\ SetTypes /\ DnsTypes /\ CallTypes /\ vpns \subseteq VPNs
  BY Zenon DEF BaseInv, SetInv, ManagerTypes
<1>3. CASE dnsFile' = DnsConf /\ Goto("dnsreload")
  <2>1. CallTypes' /\ mphase' = "dnsreload" /\ mop' = "apply"
    BY <1>2, <1>3, <1>t, GotoTypes, Zenon DEF MPhases
  <2>2. DnsTypes'
    BY <1>1, <1>3, <1>t, ActiveNames, Zenon DEF DnsTypes
  <2>3. ManagerTypes'
    BY <1>1, <1>t, <2>1, <2>2, SameTypes, Zenon DEF ManagerTypes
  <2>4. SetsInv'
    BY <1>1, <1>2, SetsStay DEF BaseInv, SetInv, LateSteps
  <2>5. DnsInv'
    BY <1>1, <1>3, <2>1, SameStore DEF DnsInv
  <2>6. RulesFindTheirSets'
    BY <1>2, StillFound, Zenon DEF BaseInv, SetInv
  <2> QED
    BY <1>2, <2>1, <2>3, <2>4, <2>5, <2>6, Late DEF LateSteps, WantInv
<1>4. CASE MAbort /\ UNCHANGED dnsFile
  BY <1>1, <1>2, <1>4, <1>t, AbortKeeps, Zenon DEF SetTypes, dnsVars
<1> QED
  BY <1>3, <1>4, Zenon DEF WriteDnsmasqConf

LEMMA ReloadKeeps == ASSUME BaseInv, ReloadDnsmasq PROVE SetInv'
<1>1. /\ mphase = "dnsreload"
      /\ UNCHANGED <<storeVars, vpns, setVars, dnsFile>>
  BY DEF ReloadDnsmasq
<1>2. /\ phase = "idle" /\ UNCHANGED <<ipset, staged>> /\ mop = "apply" /\ dnsFile = DnsConf
  BY <1>1 DEF setVars, BaseInv, SetInv, LinkInv, DnsInv
<1>t. StoreTypes /\ SetTypes /\ DnsTypes /\ CallTypes /\ vpns \subseteq VPNs
  BY Zenon DEF BaseInv, SetInv, ManagerTypes
<1>3. CASE dnsLive' = dnsFile /\ Finish /\ UNCHANGED <<kernel, control, result>>
  <2>1. CallTypes' /\ mphase' = "idle"
    BY <1>3, <1>t, FinishTypes, Zenon
  <2>2. phase' = "idle" /\ UNCHANGED chain
    BY <1>2, <1>3 DEF kernel, control
  <2>3. staged' \in [SetNames -> Content] /\ dnsLive' \subseteq SetNames /\ StoreTypes'
    BY <1>1, <1>2, <1>3, <1>t, SameTypes, Zenon DEF SetTypes, DnsTypes
  <2> QED
    BY <1>1, <1>2, <2>1, <2>2, <2>3, EndsKeeps, Zenon
<1>4. CASE dnsLive' = dnsFile /\ Persisted # {} /\ StartApply(BindingsOfStore) /\ Goto("rules")
  <2>1. CallTypes' /\ mphase' = "rules" /\ mop' = "apply"
    BY <1>2, <1>4, <1>t, GotoTypes, Zenon DEF MPhases
  <2>2. ManagerTypes'
    BY <1>1, <1>4, <1>t, <2>1, SameTypes, Zenon DEF ManagerTypes, DnsTypes
  <2>3. want' = BindingsOfStore /\ UNCHANGED chain
    BY <1>4 DEF StartApply, kernel
  <2>4. SetsInv'
    BY <1>1, <1>2, SetsStay DEF BaseInv, SetInv, LateSteps
  <2>5. DnsInv'
    BY <1>1, <1>2, <1>4, <2>1, SameStore DEF DnsInv
  <2>6. WantInv'
    BY <1>1, <2>3, SameStore, Zenon DEF WantInv
  <2>7. RulesFindTheirSets'
    <3>1. \A s \in ActiveSets : ipset[s] # None
      BY <1>1, Present DEF BaseInv, SetInv, SetsInv
    <3>2. \A b \in want' : \A s \in b.sets : ipset'[s] # None
      BY <1>2, <2>3, <3>1, BindingSets, Zenon
    <3>3. \A s \in SetNames : InUse(s)' => ipset'[s] # None
      BY <1>2, <2>3, Zenon DEF BaseInv, SetInv, RulesFindTheirSets, InUse
    <3> QED
      BY <3>2, <3>3, Zenon DEF RulesFindTheirSets
  <2> QED
    BY <2>1, <2>2, <2>4, <2>5, <2>6, <2>7, Late DEF LateSteps
<1>5. CASE MAbort /\ UNCHANGED <<dnsLive, kernel, control, result>>
  BY <1>1, <1>2, <1>5, <1>t, AbortKeeps, Zenon DEF SetTypes, dnsVars
<1> QED
  BY <1>3, <1>4, <1>5, Zenon DEF ReloadDnsmasq

LEMMA AtWorkKeeps == ASSUME BaseInv, RulesAtWork PROVE SetInv'
<1>1. /\ mphase = "rules" /\ phase # "idle" /\ RuleStep
      /\ UNCHANGED <<storeVars, vpns, setVars, dnsVars, callVars>>
  BY DEF RulesAtWork
<1>2. RuleMove
  BY <1>1, RuleMoves, Zenon DEF BaseInv
<1>3. mphase' = "rules" /\ mop' = "apply" /\ UNCHANGED ipset
  BY <1>1 DEF BaseInv, SetInv, LinkInv, callVars, setVars
<1>4. ManagerTypes'
  BY <1>1, SameTypes, Zenon DEF BaseInv, SetInv, ManagerTypes
<1>5. SetsInv'
  BY <1>1, <1>3, SetsStay DEF BaseInv, SetInv, LateSteps
<1>6. DnsInv'
  BY <1>1, <1>3, SameStore DEF BaseInv, SetInv, DnsInv, dnsVars
<1>7. phase' # "idle" => want' = want
  BY <1>2, Zenon DEF RuleMove
<1>8. WantInv'
  BY <1>1, <1>3, <1>7, SameStore DEF BaseInv, SetInv, WantInv
<1>9. RulesFindTheirSets'
  <2>1. ASSUME NEW s \in SetNames, InUse(s)' PROVE InUse(s) \/ \E b \in want : s \in b.sets
    BY <1>2, <2>1, Zenon DEF InUse, RuleMove, MarksFromWant
  <2> QED
    BY <1>1, <1>3, <1>7, <2>1, Zenon DEF BaseInv, SetInv, RulesFindTheirSets
<1> QED
  BY <1>3, <1>4, <1>5, <1>6, <1>8, <1>9, Late DEF LateSteps


LEMMA ReturnedKeeps == ASSUME BaseInv, RulesReturned PROVE SetInv'
<1>1. /\ mphase = "rules" /\ phase = "idle"
      /\ UNCHANGED <<ruleVars, storeVars, vpns, setVars, dnsVars>>
  BY DEF RulesReturned
<1>2. phase' = "idle" /\ mop = "apply" /\ UNCHANGED <<chain, ipset, staged, dnsFile, dnsLive>>
  BY <1>1 DEF ruleVars, kernel, control, setVars, dnsVars, BaseInv, SetInv, LinkInv
<1>t. StoreTypes' /\ SetTypes' /\ DnsTypes' /\ CallTypes /\ vpns' \subseteq VPNs
  BY <1>1, SameTypes, Zenon DEF BaseInv, SetInv, ManagerTypes
<1>3. CASE Goto("cleanup")
  <2>1. CallTypes' /\ mphase' = "cleanup" /\ mop' = "apply"
    BY <1>2, <1>3, <1>t, GotoTypes, Zenon DEF MPhases
  <2>2. SetsInv'
    BY <1>1, <1>2, SetsStay DEF BaseInv, SetInv, LateSteps
  <2>3. DnsInv'
    BY <1>1, <1>2, <2>1, SameStore DEF BaseInv, SetInv, DnsInv
  <2>4. RulesFindTheirSets'
    BY <1>2, StillFound, Zenon DEF BaseInv, SetInv
  <2> QED
    BY <1>2, <1>t, <2>1, <2>2, <2>3, <2>4, Late DEF LateSteps, WantInv, ManagerTypes
<1>4. CASE Done("error") /\ clean' = 0
  <2>1. clean' \in 0..2
    BY <1>4
  <2>2. CallTypes' /\ mphase' = "idle"
    BY <1>4, <1>t, <2>1, DoneTypes, Zenon
  <2> QED
    BY <1>1, <1>2, <1>t, <2>2, EndsKeeps, Zenon DEF SetTypes, DnsTypes
<1> QED
  BY <1>3, <1>4, Zenon DEF RulesReturned

\* What cleanupStaleSets does with the first stale set.
CleanupOf(s) ==
    \/ s \in StaleSets /\ ~InUse(s) /\ DestroyStaleSet(s) /\ UNCHANGED <<callVars, faults>>
    \/ /\ s \in StaleSets /\ InUse(s) /\ Done("error") /\ clean' = IF clean < 2 THEN clean + 1 ELSE 2
       /\ UNCHANGED <<setVars, faults>>
    \/ s \notin StaleSets /\ DestroyStaleStaged(s) /\ UNCHANGED <<callVars, faults>>
    \/ MAbort /\ UNCHANGED setVars

LEMMA CleanupIs ==
    ASSUME CleanupStaleSets
    PROVE  /\ mphase = "cleanup" /\ CleanupOf(First(StaleSets \cup StaleStaged))
           /\ UNCHANGED <<kernel, control, result, storeVars, vpns, dnsVars>>
BY Zenon DEF CleanupStaleSets, CleanupOf

LEMMA CleanupKeeps == ASSUME BaseInv, CleanupStaleSets PROVE SetInv'
<1>1. PICK s : CleanupOf(s)
  BY CleanupIs, Zenon
<1>2. /\ mphase = "cleanup" /\ UNCHANGED <<kernel, control, result, storeVars, vpns, dnsVars>>
  BY CleanupIs, Zenon
<1>3. /\ phase = "idle" /\ phase' = "idle" /\ mop = "apply" /\ UNCHANGED <<chain, want, dnsFile, dnsLive>>
  BY <1>2 DEF kernel, control, dnsVars, BaseInv, SetInv, LinkInv
<1>t. StoreTypes' /\ SetTypes /\ DnsTypes' /\ CallTypes /\ vpns' \subseteq VPNs /\ None \in Content
  BY <1>2, SameTypes, Zenon DEF BaseInv, SetInv, ManagerTypes, Content
<1>4. ASSUME UNCHANGED callVars, SetTypes', SetsInv', RulesFindTheirSets' PROVE SetInv'
  <2>1. ManagerTypes' /\ mphase' = "cleanup" /\ mop' = "apply"
    BY <1>2, <1>3, <1>4, <1>t, SameTypes, Zenon DEF ManagerTypes, callVars
  <2>2. DnsInv'
    BY <1>2, <1>3, <2>1, SameStore DEF BaseInv, SetInv, DnsInv
  <2> QED
    BY <1>3, <1>4, <2>1, <2>2, Late DEF LateSteps, WantInv
<1>5. CASE s \in StaleSets /\ ~InUse(s) /\ DestroyStaleSet(s) /\ UNCHANGED <<callVars, faults>>
  <2>1. ipset' = [ipset EXCEPT ![s] = None] /\ staged' = staged /\ s \in SetNames /\ s \notin ActiveSets
    BY <1>5, Zenon DEF DestroyStaleSet, StaleSets
  <2>2. SetTypes' /\ \A t \in SetNames : t # s => ipset'[t] = ipset[t]
    BY <1>t, <2>1 DEF SetTypes
  <2>3. SetsInv'
    <3>1. ActiveSets \subseteq SetNames
      BY ActiveNames, Zenon DEF BaseInv, SetInv, ManagerTypes
    <3>2. \A t \in ActiveSets : ipset'[t] = ipset[t]
      BY <2>1, <2>2, <3>1, Zenon
    <3> QED
      BY <1>2, <3>2, SetsStay DEF BaseInv, SetInv, LateSteps
  <2>4. RulesFindTheirSets'
    <3>1. \A t \in SetNames : InUse(t)' => InUse(t)
      BY <1>3, Zenon DEF InUse
    <3> QED
      BY <1>3, <1>5, <2>2, <3>1, Zenon DEF BaseInv, SetInv, RulesFindTheirSets
  <2> QED
    BY <1>4, <1>5, <2>2, <2>3, <2>4, Zenon
<1>6. CASE /\ s \in StaleSets /\ InUse(s) /\ Done("error") /\ clean' = IF clean < 2 THEN clean + 1 ELSE 2
           /\ UNCHANGED <<setVars, faults>>
  <2>1. clean' \in 0..2
    BY <1>6, <1>t DEF CallTypes
  <2>2. CallTypes' /\ mphase' = "idle"
    BY <1>6, <1>t, <2>1, DoneTypes, Zenon
  <2> QED
    BY <1>2, <1>3, <1>6, <1>t, <2>2, EndsKeeps, Zenon DEF SetTypes, DnsTypes, setVars
<1>7. CASE s \notin StaleSets /\ DestroyStaleStaged(s) /\ UNCHANGED <<callVars, faults>>
  <2>1. staged' = [staged EXCEPT ![s] = None] /\ UNCHANGED ipset
    BY <1>7, Zenon DEF DestroyStaleStaged
  <2>2. SetTypes'
    BY <1>t, <2>1, Zenon DEF SetTypes
  <2>3. SetsInv'
    BY <1>2, <2>1, SetsStay DEF BaseInv, SetInv, LateSteps
  <2>4. RulesFindTheirSets'
    BY <1>3, <2>1, StillFound, Zenon DEF BaseInv, SetInv
  <2> QED
    BY <1>4, <1>7, <2>2, <2>3, <2>4, Zenon
<1>8. CASE MAbort /\ UNCHANGED setVars
  BY <1>2, <1>3, <1>8, <1>t, AbortKeeps, Zenon DEF SetTypes, setVars
<1> QED
  BY <1>1, <1>5, <1>6, <1>7, <1>8, Zenon DEF CleanupOf


LEMMA CleanupDoneKeeps == ASSUME BaseInv, CleanupDone PROVE SetInv'
<1>1. /\ mphase = "cleanup" /\ UNCHANGED <<ruleVars, storeVars, vpns, setVars, dnsVars>>
  BY DEF CleanupDone
<1>2. phase' = "idle" /\ mop = "apply" /\ UNCHANGED <<chain, ipset, staged, dnsFile, dnsLive>>
  BY <1>1 DEF ruleVars, kernel, control, setVars, dnsVars, BaseInv, SetInv, LinkInv
<1>t. StoreTypes' /\ SetTypes' /\ DnsTypes' /\ CallTypes /\ vpns' \subseteq VPNs
  BY <1>1, SameTypes, Zenon DEF BaseInv, SetInv, ManagerTypes
<1>3. CASE Goto("dnswrite")
  <2>1. CallTypes' /\ mphase' = "dnswrite" /\ mop' = "apply"
    BY <1>2, <1>3, <1>t, GotoTypes, Zenon DEF MPhases
  <2>2. SetsInv'
    BY <1>1, <1>2, SetsStay DEF BaseInv, SetInv, LateSteps
  <2>3. RulesFindTheirSets'
    BY <1>2, StillFound, Zenon DEF BaseInv, SetInv
  <2> QED
    BY <1>2, <1>t, <2>1, <2>2, <2>3, Late DEF LateSteps, WantInv, DnsInv, ManagerTypes
<1>4. CASE Finish
  <2>1. CallTypes' /\ mphase' = "idle"
    BY <1>4, <1>t, FinishTypes, Zenon
  <2> QED
    BY <1>1, <1>2, <1>t, <2>1, EndsKeeps, Zenon DEF SetTypes, DnsTypes
<1> QED
  BY <1>3, <1>4, Zenon DEF CleanupDone

LEMMA ChangeVPNsKeeps == ASSUME BaseInv, ChangeVPNs PROVE SetInv'
<1>1. /\ mphase \in {"idle", "plan"} /\ vpns' \subseteq VPNs
      /\ UNCHANGED <<ruleVars, storeVars, setVars, dnsVars, callVars>>
  BY DEF ChangeVPNs, BaseInv, SetInv, ManagerTypes
<1>2. /\ mphase' \in {"idle", "plan"} /\ (mphase' = "idle" \/ mop' # "none")
      /\ phase' = "idle" /\ UNCHANGED <<chain, ipset>>
  BY <1>1 DEF ruleVars, kernel, control, setVars, callVars, BaseInv, SetInv, LinkInv
<1>3. ManagerTypes'
  BY <1>1, SameTypes, Zenon DEF BaseInv, SetInv, ManagerTypes
<1>4. RulesFindTheirSets'
  BY <1>2, StillFound, Zenon DEF BaseInv, SetInv
<1> QED
  BY <1>2, <1>3, <1>4, Over, Zenon DEF SetInv

LEMMA KillKeeps == ASSUME BaseInv, Kill PROVE SetInv'
<1>1. /\ Done("crashed") /\ clean' = 0 /\ UNCHANGED <<storeVars, vpns, setVars, dnsVars>>
  BY DEF Kill
<1>2. phase' = "idle" /\ UNCHANGED chain
  BY DEF Kill, Crash, GiveUp, Return, kernel, control
<1>t. StoreTypes' /\ SetTypes' /\ DnsTypes' /\ CallTypes /\ UNCHANGED <<ipset, dnsFile>>
  BY <1>1, SameTypes, Zenon DEF BaseInv, SetInv, ManagerTypes, setVars, dnsVars
<1>3. clean' \in 0..2
  BY <1>1
<1>4. CallTypes' /\ mphase' = "idle"
  BY <1>1, <1>3, <1>t, DoneTypes, Zenon
<1> QED
  BY <1>1, <1>2, <1>4, <1>t, EndsKeeps, Zenon DEF SetTypes, DnsTypes

LEMMA RestartKeeps == ASSUME BaseInv, Restart PROVE SetInv'
<1>1. /\ Reboot /\ Done("crashed") /\ clean' = 0
      /\ ipset' = [s \in SetNames |-> None] /\ staged' = [s \in SetNames |-> None]
      /\ dnsFile' = {} /\ dnsLive' = {}
      /\ UNCHANGED <<storeVars, vpns>>
  BY DEF Restart
<1>2. phase' = "idle" /\ chain' = [r \in Roots |-> [g \in Generations |-> {}]]
  BY <1>1, Zenon DEF Reboot, GiveUp, Return
<1>3. clean' \in 0..2
  BY <1>1
<1>4. CallTypes' /\ mphase' = "idle"
  BY <1>1, <1>3, DoneTypes, Zenon DEF BaseInv, SetInv, ManagerTypes
<1>5. SetTypes' /\ DnsTypes'
  BY <1>1 DEF SetTypes, DnsTypes, Content
<1>6. ManagerTypes'
  BY <1>1, <1>4, <1>5, SameTypes, Zenon DEF BaseInv, SetInv, ManagerTypes
<1>7. RulesFindTheirSets'
  <2>1. MarkRoots \subseteq Roots
    BY DEF MarkRoots, Roots
  <2>2. \A s : ~InUse(s)'
    BY <1>2, <2>1 DEF InUse
  <2> QED
    BY <1>2, <2>2, Zenon DEF RulesFindTheirSets
<1> QED
  BY <1>2, <1>4, <1>6, <1>7, Over, Zenon DEF SetInv

LEMMA StutterKeeps == ASSUME BaseInv, UNCHANGED vars PROVE SetInv'
<1>1. /\ UNCHANGED <<ruleVars, storeVars, vpns, setVars, dnsVars, callVars>>
  BY DEF vars
<1>2. /\ UNCHANGED <<chain, phase, want, ipset, staged, dnsFile, dnsLive, mphase, mop, plan, left>>
  BY <1>1 DEF ruleVars, kernel, control, setVars, dnsVars, callVars
<1>3. ManagerTypes'
  BY <1>1, SameTypes, Zenon DEF BaseInv, SetInv, ManagerTypes
<1>4. /\ Persisted' = Persisted /\ ActiveSets' = ActiveSets
      /\ DnsConf' = DnsConf /\ BindingsOfStore' = BindingsOfStore
      /\ \A s : EntriesOf(s)' = EntriesOf(s)
  BY <1>1, SameStore, Zenon
<1>5. RulesFindTheirSets'
  BY <1>2, StillFound, Zenon DEF BaseInv, SetInv
<1>6. LinkInv' /\ WantInv' /\ DnsInv'
  BY <1>2, <1>4 DEF BaseInv, SetInv, LinkInv, WantInv, DnsInv
<1>7. SetsInv'
  BY <1>2, <1>4, Zenon DEF BaseInv, SetInv, SetsInv
<1>8. LoopInv'
  <2>1. PlanInv => PlanInv'
    BY <1>1, <1>2, PlanKept, Zenon
  <2> QED
    BY <1>2, <2>1, Zenon DEF BaseInv, SetInv, LoopInv
<1> QED
  BY <1>3, <1>5, <1>6, <1>7, <1>8, Zenon DEF SetInv


LEMMA InitHolds == Init => TypeInv /\ SetInv
<1> SUFFICES ASSUME Init PROVE TypeInv /\ SetInv
  OBVIOUS
<1>1. TypeInv
  BY TypeInit DEF Init
<1>2. /\ phase = "idle" /\ chain = [r \in Roots |-> [g \in Generations |-> {}]]
  BY DEF Init, RuleInit
<1>3. StoreTypes
  BY DEF Init, StoreTypes, StoredRule
<1>4. SetTypes /\ DnsTypes
  BY DEF Init, SetTypes, DnsTypes, Content
<1>5. CallTypes
  BY EmptyPlan DEF Init, CallTypes, MPhases
<1>6. ManagerTypes
  BY <1>3, <1>4, <1>5 DEF Init, ManagerTypes
<1>7. RulesFindTheirSets
  <2>1. MarkRoots \subseteq Roots
    BY DEF MarkRoots, Roots
  <2>2. \A s : ~InUse(s)
    BY <1>2, <2>1 DEF InUse
  <2> QED
    BY <1>2, <2>2, Zenon DEF RulesFindTheirSets
<1>8. LinkInv /\ LoopInv /\ SetsInv /\ DnsInv /\ WantInv
  BY <1>2 DEF Init, LinkInv, LoopInv, LoopSteps, SetsInv, DnsInv, WantInv
<1> QED
  BY <1>1, <1>6, <1>7, <1>8, Zenon DEF SetInv

\* RuleManager's part in every step of the manager.
LEMMA RuleFrames == ASSUME BaseInv, [Next]_vars PROVE RuleFrame
<1>t. TypeInv /\ StoreTypes /\ faults \in 0..MaxFaults
  BY Zenon DEF BaseInv, SetInv, ManagerTypes, TypeInv, RuleTypeOK, CallTypeOK
<1>u. ASSUME UNCHANGED <<kernel, control, result, faults>> PROVE RuleFrame
  BY <1>t, <1>u, Zenon DEF RuleFrame, Alone
<1>f. ASSUME Fault, UNCHANGED <<kernel, control, result>> PROVE RuleFrame
  BY <1>t, <1>f, FaultAlone, Zenon DEF RuleFrame
<1>1. CASE StoreCall
  BY <1>1, <1>t, StoreCalls, Zenon DEF Called, RuleFrame
<1>2. CASE PlanEmpty
  BY <1>2, Zenon DEF PlanEmpty, RuleFrame, RuleNext
<1>3. CASE PlanMissingVPN \/ PlanSets \/ SetsDone \/ RulesReturned \/ CleanupDone \/ ChangeVPNs \/ UNCHANGED vars
  BY <1>3, Zenon DEF PlanMissingVPN, PlanSets, SetsDone, RulesReturned, CleanupDone, ChangeVPNs, vars, RuleFrame
<1>4. CASE EnsureSet \/ StageSet \/ SwapSets \/ DestroyStaged \/ WriteDnsmasqConf
  BY <1>4, <1>u, <1>f, Zenon DEF EnsureSet, StageSet, SwapSets, DestroyStaged, WriteDnsmasqConf, MAbort
<1>5. CASE CleanupStaleSets
  BY <1>5, <1>u, <1>f, CleanupIs, Zenon DEF CleanupOf, MAbort
<1>6. CASE ReloadDnsmasq
  <2>1. BindingsOfStore \in SUBSET Bindings
    BY <1>t, BindingsStored, Zenon
  <2>2. \/ UNCHANGED <<kernel, control, result, faults>>
        \/ StartApply(BindingsOfStore)
        \/ Fault /\ UNCHANGED <<kernel, control, result>>
    BY <1>6, Zenon DEF ReloadDnsmasq, MAbort
  <2> QED
    BY <2>1, <2>2, <1>u, <1>f, Zenon DEF RuleFrame, RuleNext
<1>7. CASE RulesAtWork
  BY <1>7, Zenon DEF RulesAtWork, RuleFrame, RuleNext
<1>8. CASE Kill
  BY <1>8, <1>f, Zenon DEF Kill, RuleFrame, RuleNext
<1>9. CASE Restart
  BY <1>9, Zenon DEF Restart, RuleFrame, RuleNext
<1> QED
  BY <1>1, <1>2, <1>3, <1>4, <1>5, <1>6, <1>7, <1>8, <1>9, Zenon DEF Next, StoreCall

LEMMA BaseStep == BaseInv /\ [Next]_vars => BaseInv'
<1> SUFFICES ASSUME BaseInv, [Next]_vars PROVE BaseInv'
  OBVIOUS
<1>1. TypeInv'
  BY RuleFrames, FrameTypes, Zenon DEF BaseInv
<1>2. StoreCall => SetInv'
  BY StoreCalls, CalledKeeps, Zenon DEF BaseInv, SetInv, ManagerTypes
<1>3. SetInv'
  BY <1>2, PlanEmptyKeeps, PlanMissingKeeps, PlanSetsKeeps, EnsureKeeps, StageKeeps, SwapKeeps, DropKeeps,
     SetsDoneKeeps, WriteKeeps, ReloadKeeps, AtWorkKeeps, ReturnedKeeps, CleanupKeeps, CleanupDoneKeeps,
     ChangeVPNsKeeps, KillKeeps, RestartKeeps, StutterKeeps, Zenon DEF Next, StoreCall
<1>4. FirstWorks'
  BY DEF BaseInv, FirstWorks, First, Before, SetNames
<1> QED
  BY <1>1, <1>3, <1>4, Zenon DEF BaseInv

-----------------------------------------------------------------------------
\* When listings work and ignored commands do not fail: the store in force.
FullInv == BaseInv /\ CutoverInv /\ ApplyInv

\* A call that failed has nothing to show.
LEMMA Failed ==
    ASSUME mphase' = "idle", mresult' # "ok", clean' = 0
    PROVE  ApplyInv'
BY DEF ApplyInv, RequestInv, SettledInv, AppliedMatchesStore, SecondApplySucceeds

\* A call on its way to the rules leaves the generation in use alone.
EarlySteps == {"idle", "plan", "set", "stage", "swap", "drop", "dnswrite", "dnsreload"}

LEMMA SettledStays ==
    ASSUME SettledInv, mphase \in EarlySteps, mphase' \in EarlySteps,
           UNCHANGED <<clean, groups, chain, front>>
    PROVE  SettledInv'
<1>1. mphase \notin {"rules", "cleanup"} /\ mphase' \notin {"rules", "cleanup"}
  BY DEF EarlySteps
<1>2. Persisted' = Persisted /\ BindingsOfStore' = BindingsOfStore
  BY SameGroups, Zenon
<1>3. clean >= 1 /\ Persisted # {} => Holds(front[1])
  BY <1>1, Zenon DEF SettledInv
<1>4. clean' >= 1 /\ Persisted' # {} => Holds(front[1])'
  BY <1>2, <1>3, Zenon DEF Holds
<1> QED
  BY <1>1, <1>4 DEF SettledInv

LEMMA OnItsWay ==
    ASSUME FullInv, mphase \in EarlySteps, mphase' \in {"plan", "set", "stage", "swap", "drop"},
           UNCHANGED <<clean, groups, chain, front>>
    PROVE  ApplyInv'
<1>1. SettledInv'
  BY SettledStays DEF FullInv, ApplyInv, EarlySteps
<1> QED
  BY <1>1 DEF ApplyInv, RequestInv, AppliedMatchesStore, SecondApplySucceeds

LEMMA KernelSame == ASSUME UNCHANGED <<kernel, control>> PROVE UNCHANGED <<chain, front, jumps, iprule, op, want, active, phase>>
BY DEF kernel, control

LEMMA CalledApplies == ASSUME FullInv, Called PROVE ApplyInv'
<1>1. CASE mphase' = "idle"
  BY <1>1, Failed DEF Called
<1>2. CASE mphase' = "plan"
  <2>1. UNCHANGED <<chain, front>> /\ mphase = "idle"
    BY AloneSame, Zenon DEF Called
  <2>2. SettledInv'
    <3>1. CASE clean' = 0
      BY <3>1 DEF SettledInv
    <3>2. CASE clean' = clean /\ UNCHANGED groups
      BY <1>2, <2>1, <3>2, SettledStays DEF EarlySteps, FullInv, ApplyInv
    <3> QED
      BY <3>1, <3>2, Zenon DEF Called
  <2> QED
    BY <1>2, <2>2 DEF ApplyInv, RequestInv, AppliedMatchesStore, SecondApplySucceeds
<1> QED
  BY <1>1, <1>2, Zenon DEF Called

LEMMA PlanEmptyApplies == ASSUME FullInv, PlanEmpty PROVE ApplyInv'
<1>1. Persisted' = {} /\ mphase' = "rules" /\ op' = "flush"
  BY SameStore DEF PlanEmpty, Goto, StartFlush
<1> QED
  BY <1>1 DEF ApplyInv, RequestInv, Asked, SettledInv, AppliedMatchesStore, SecondApplySucceeds

LEMMA PlanMissingApplies == ASSUME FullInv, PlanMissingVPN PROVE ApplyInv'
BY Failed DEF PlanMissingVPN, Done

LEMMA PlanSetsApplies == ASSUME FullInv, PlanSets PROVE ApplyInv'
<1>1. mphase = "plan" /\ mphase' = "set" /\ UNCHANGED <<clean, groups, chain, front>>
  BY DEF PlanSets, Purge, ruleVars, kernel
<1> QED
  BY <1>1, OnItsWay DEF EarlySteps

LEMMA MAbortApplies == ASSUME MAbort PROVE ApplyInv'
BY Failed DEF MAbort, Done

LEMMA LoopApplies ==
    ASSUME FullInv, EnsureSet \/ StageSet \/ SwapSets \/ DestroyStaged
    PROVE  ApplyInv'
<1>1. UNCHANGED <<kernel, control, storeVars>> /\ mphase \in {"set", "stage", "swap", "drop"}
  BY DEF EnsureSet, StageSet, SwapSets, DestroyStaged
<1>2. UNCHANGED <<chain, front, groups>>
  BY <1>1, KernelSame, Zenon DEF storeVars
<1>3. MAbort \/ (mphase' \in {"set", "stage", "swap", "drop"} /\ UNCHANGED clean)
  BY DEF EnsureSet, StageSet, SwapSets, DestroyStaged, Goto
<1> QED
  BY <1>1, <1>2, <1>3, MAbortApplies, OnItsWay DEF EarlySteps


LEMMA SetsDoneApplies == ASSUME FullInv, SetsDone PROVE ApplyInv'
<1>1. mphase = "set" /\ UNCHANGED <<ruleVars, storeVars>> /\ left = {}
  BY DEF SetsDone
<1>2. UNCHANGED <<chain, front, groups>>
  BY <1>1 DEF ruleVars, kernel, storeVars
<1>3. PlanInv
  BY <1>1 DEF FullInv, BaseInv, SetInv, LoopInv, LoopSteps
<1>4. CASE mop = "sets" /\ Done("ok") /\ UNCHANGED clean
  <2>1. mphase' = "idle" /\ mop' = "sets"
    BY <1>4 DEF Done
  <2>2. SettledInv'
    BY <1>1, <1>2, <1>4, <2>1, SettledStays DEF FullInv, ApplyInv, EarlySteps
  <2> QED
    BY <2>1, <2>2 DEF ApplyInv, RequestInv, AppliedMatchesStore, SecondApplySucceeds
<1>5. CASE mop # "sets" /\ Goto("dnswrite")
  <2>1. mphase' = "dnswrite" /\ UNCHANGED clean /\ Persisted' # {}
    BY <1>1, <1>3, <1>5, SameStore DEF Goto, PlanInv
  <2>2. SettledInv'
    BY <1>1, <1>2, <2>1, SettledStays DEF FullInv, ApplyInv, EarlySteps
  <2> QED
    BY <2>1, <2>2 DEF ApplyInv, RequestInv, AppliedMatchesStore, SecondApplySucceeds
<1> QED
  BY <1>4, <1>5, Zenon DEF SetsDone

LEMMA WriteApplies == ASSUME FullInv, WriteDnsmasqConf PROVE ApplyInv'
<1>1. mphase = "dnswrite" /\ UNCHANGED <<kernel, control, result, storeVars, setVars>>
  BY DEF WriteDnsmasqConf
<1>2. UNCHANGED <<chain, front, op, want, groups, ipset, staged>>
  BY <1>1, KernelSame, Zenon DEF storeVars, setVars
<1>3. CASE Goto("dnsreload")
  <2>1. mphase' = "dnsreload" /\ UNCHANGED clean
    BY <1>3 DEF Goto
  <2>2. SettledInv'
    BY <1>1, <1>2, <2>1, SettledStays DEF FullInv, ApplyInv, EarlySteps
  <2>3. Persisted' = Persisted /\ BindingsOfStore' = BindingsOfStore
    BY <1>2, SameGroups, Zenon
  <2>4. RequestInv'
    BY <1>1, <1>2, <2>1, <2>3 DEF FullInv, ApplyInv, RequestInv, Asked
  <2> QED
    BY <2>1, <2>2, <2>4 DEF ApplyInv, AppliedMatchesStore, SecondApplySucceeds
<1> QED
  BY <1>3, MAbortApplies, Zenon DEF WriteDnsmasqConf

\* Without groups nothing is wanted.
LEMMA NothingStored ==
    ASSUME Persisted = {}
    PROVE  BindingsOfStore = {} /\ ActiveSets = {} /\ DnsConf = {} /\ PairsFor(BindingsOfStore) = {}
<1>1. BindingsOfStore = {} /\ ActiveSets = {}
  BY DEF BindingsOfStore, ActiveSets
<1> QED
  BY <1>1 DEF DnsConf, PairsFor

LEMMA MatchesKept ==
    ASSUME MatchesStore, UNCHANGED <<chain, jumps, iprule, ipset, staged, dnsLive, storeVars>>
    PROVE  MatchesStore'
<1>1. /\ ActiveSets' = ActiveSets /\ DnsConf' = DnsConf /\ BindingsOfStore' = BindingsOfStore
      /\ \A s : EntriesOf(s)' = EntriesOf(s)
  BY SameStore, Zenon
<1>2. \A r \in MarkRoots : UNION {chain'[r][g] : g \in jumps'[r]} = BindingsOfStore'
  BY <1>1, ZenonT(60) DEF MatchesStore
<1>3. \A f \in Families : iprule'[f] = PairsFor(BindingsOfStore)'
  BY <1>1, Zenon DEF MatchesStore
<1>4. \A s \in SetNames : /\ ipset'[s] = IF s \in ActiveSets' THEN <<EntriesOf(s)'>> ELSE None
                          /\ staged'[s] = None
  BY <1>1, Zenon DEF MatchesStore
<1>5. dnsLive' = DnsConf'
  BY <1>1, Zenon DEF MatchesStore
<1> QED
  BY <1>2, <1>3, <1>4, <1>5, Zenon DEF MatchesStore

LEMMA FlushedMatches ==
    ASSUME CutoverInv, Persisted = {}, op = "flush", result = "ok",
           \A s \in SetNames : ipset[s] = None /\ staged[s] = None
    PROVE  /\ \A r \in MarkRoots : UNION {chain[r][g] : g \in jumps[r]} = BindingsOfStore
           /\ \A f \in Families : iprule[f] = PairsFor(BindingsOfStore)
           /\ \A s \in SetNames : /\ ipset[s] = IF s \in ActiveSets THEN <<EntriesOf(s)>> ELSE None
                                  /\ staged[s] = None
<1>1. /\ \A r \in Roots : jumps[r] = {}
      /\ \A f \in Families : iprule[f] = {}
  BY Zenon DEF CutoverInv, FlushedMeansGone
<1>2. MarkRoots \subseteq Roots
  BY DEF MarkRoots, Roots
<1> QED
  BY <1>1, <1>2, NothingStored

LEMMA ReloadApplies == ASSUME FullInv, Reliable, ReloadDnsmasq PROVE ApplyInv'
<1>1. mphase = "dnsreload" /\ UNCHANGED <<storeVars, setVars, dnsFile>> /\ dnsFile = DnsConf
  BY DEF ReloadDnsmasq, FullInv, BaseInv, SetInv, DnsInv
<1>2. /\ Persisted' = Persisted /\ BindingsOfStore' = BindingsOfStore /\ DnsConf' = DnsConf
      /\ ActiveSets' = ActiveSets /\ \A s : EntriesOf(s)' = EntriesOf(s)
  BY <1>1, SameStore, Zenon
<1>3. CASE Persisted = {} /\ dnsLive' = dnsFile /\ Finish /\ UNCHANGED <<kernel, control, result>>
  <2>1. UNCHANGED <<chain, jumps, iprule, ipset, staged>>
    BY <1>1, <1>3, KernelSame, Zenon DEF setVars
  <2>2. op = "flush" /\ result = "ok" /\ \A s \in SetNames : ipset[s] = None /\ staged[s] = None
    BY <1>1, <1>3 DEF FullInv, ApplyInv, RequestInv, Asked
  <2>3. /\ \A r \in MarkRoots : UNION {chain[r][g] : g \in jumps[r]} = BindingsOfStore
        /\ \A f \in Families : iprule[f] = PairsFor(BindingsOfStore)
        /\ \A s \in SetNames : /\ ipset[s] = IF s \in ActiveSets THEN <<EntriesOf(s)>> ELSE None
                               /\ staged[s] = None
    BY <1>3, <2>2, FlushedMatches, Zenon DEF FullInv
  <2>4. MatchesStore'
    <3>1. \A s \in SetNames : /\ ipset'[s] = IF s \in ActiveSets' THEN <<EntriesOf(s)'>> ELSE None
                              /\ staged'[s] = None
      BY <1>2, <2>1, <2>3, Zenon
    <3>2. /\ \A r \in MarkRoots : UNION {chain'[r][g] : g \in jumps'[r]} = BindingsOfStore'
          /\ \A f \in Families : iprule'[f] = PairsFor(BindingsOfStore)'
      BY <1>2, <2>1, <2>3, ZenonT(60)
    <3>3. dnsLive' = DnsConf'
      BY <1>1, <1>2, <1>3, Zenon
    <3> QED
      BY <3>1, <3>2, <3>3, Zenon DEF MatchesStore
  <2>5. mphase' = "idle" /\ mresult' = "ok"
    BY <1>3 DEF Finish, Done
  <2> QED
    BY <1>2, <1>3, <2>4, <2>5 DEF ApplyInv, RequestInv, SettledInv, AppliedMatchesStore, SecondApplySucceeds
<1>4. CASE Persisted # {} /\ StartApply(BindingsOfStore) /\ Goto("rules")
  <2>1. /\ mphase' = "rules" /\ op' = "apply" /\ want' = BindingsOfStore /\ phase' = "prepare"
        /\ UNCHANGED <<chain, clean>>
    BY <1>4 DEF StartApply, Goto, kernel
  <2>2. front[1] # "" => active' = front[1]
    BY <1>4 DEF StartApply, Reliable, DetectActiveVariant, MarkRoots
  <2>3. clean >= 1 => Holds(front[1])
    BY <1>1, <1>4 DEF FullInv, ApplyInv, SettledInv
  <2>4. ASSUME clean >= 1 PROVE Holds(active)'
    BY <1>2, <2>1, <2>2, <2>3, <2>4 DEF Holds, Generations
  <2>5. SettledInv'
    BY <2>1, <2>4 DEF SettledInv
  <2>6. Asked'
    BY <1>2, <1>4, <2>1 DEF Asked
  <2> QED
    BY <2>1, <2>5, <2>6 DEF ApplyInv, RequestInv, AppliedMatchesStore, SecondApplySucceeds
<1> QED
  BY <1>3, <1>4, MAbortApplies, Zenon DEF ReloadDnsmasq


\* ApplyRules leaves the generation that was in use when it began alone.
LEMMA ActiveKept ==
    ASSUME TypeInv, CutoverInv, phase # "idle", op = "apply", active \in Generations, RuleStep
    PROVE  \A r \in MarkRoots : chain'[r][active] = chain[r][active]
<1>c. ChainTypeOK /\ MarkRoots \subseteq Roots
  BY DEF TypeInv, RuleTypeOK, MarkRoots, Roots
<1>d. chain = [r \in Roots |-> chain[r]] /\ \A r \in Roots : chain[r] \in [Generations -> SUBSET RulesFor(r, Bindings)]
  BY <1>c, Zenon DEF ChainTypeOK
<1>w. Working # active
  BY DEF Working, Other, Generations
<1>k. ASSUME UNCHANGED chain PROVE \A r \in MarkRoots : chain'[r][active] = chain[r][active]
  BY <1>k
<1>1. CASE PrepareGenerationChain
  <2>1. UNCHANGED chain \/ chain' = [chain EXCEPT ![at][Working] = {}]
    BY <1>1, Zenon DEF PrepareGenerationChain
  <2>2. CASE chain' = [chain EXCEPT ![at][Working] = {}]
    <3>1. ASSUME NEW r \in Roots PROVE chain'[r][active] = chain[r][active]
      BY <2>2, <3>1, <1>d, <1>w, Zenon
    <3> QED
      BY <3>1, <1>c, Zenon
  <2> QED
    BY <2>1, <2>2, <1>k, Zenon
<1>2. CASE BuildBinding
  <2>1. UNCHANGED chain \/ \E b \in Bindings : \E n \in 0..4 : AddRules(b, n)
    <3>1. 4 \in 0..4 /\ \A n \in 0..3 : n \in 0..4
      OBVIOUS
    <3> QED
      BY <1>2, <3>1, Zenon DEF BuildBinding
  <2>2. ASSUME NEW b \in Bindings, NEW n \in 0..4, AddRules(b, n), NEW r \in Roots
        PROVE  chain'[r][active] = chain[r][active]
    BY <2>2, <1>d, <1>w, Zenon DEF AddRules
  <2> QED
    BY <2>1, <2>2, <1>c, <1>k, Zenon
<1>3. CASE BuildMSS
  <2>1. \E four, six : AddMSSRules(four, six)
    BY <1>3, Zenon DEF BuildMSS
  <2>2. ASSUME NEW r \in MarkRoots PROVE chain'[r] = chain[r]
    BY <1>c, <2>1 DEF AddMSSRules, MarkRoots, MSSRoots
  <2> QED
    BY <2>2, Zenon
<1>4. CASE CleanupGenerations
  BY <1>4 DEF CleanupGenerations, CutoverInv, StepInv, FlushPhases
<1>5. CASE FlushLegacyRoot \/ InsertJump \/ RemoveStaleJump \/ CleanupRoot
  BY <1>5, <1>k, Zenon DEF FlushLegacyRoot, InsertJump, RemoveStaleJump, CleanupRoot
<1>6. CASE LoadManagedIPRules \/ AddIPRule \/ DeleteIPRule \/ RefreshIPRule \/ ReaddIPRule
  BY <1>6, <1>k, Zenon DEF LoadManagedIPRules, AddIPRule, DeleteIPRule, RefreshIPRule, ReaddIPRule,
     NextFamily, SetIPRules, kernel
<1> QED
  BY <1>1, <1>2, <1>3, <1>4, <1>5, <1>6, Zenon DEF RuleStep, ListedStep

LEMMA AtWorkApplies == ASSUME FullInv, RulesAtWork PROVE ApplyInv'
<1>1. /\ mphase = "rules" /\ phase # "idle" /\ RuleStep /\ UNCHANGED <<storeVars, callVars>>
  BY DEF RulesAtWork
<1>2. RuleMove
  BY <1>1, RuleMoves, Zenon DEF FullInv, BaseInv
<1>3. mphase' = "rules" /\ UNCHANGED <<clean, groups>>
  BY <1>1 DEF callVars, storeVars
<1>4. Persisted' = Persisted /\ BindingsOfStore' = BindingsOfStore
  BY <1>3, SameGroups, Zenon
<1>5. Asked
  BY <1>1 DEF FullInv, ApplyInv, RequestInv
<1>6. CASE phase' = "idle" /\ result' = "error"
  BY <1>3, <1>6 DEF ApplyInv, RequestInv, SettledInv, AppliedMatchesStore, SecondApplySucceeds
<1>7. CASE op' = op /\ UNCHANGED <<want, active>>
  <2>1. Asked'
    BY <1>4, <1>5, <1>7 DEF Asked
  <2>2. ASSUME clean' >= 1, Persisted' # {} PROVE Holds(active)'
    <3>1. Holds(active) /\ op = "apply"
      BY <1>1, <1>3, <1>4, <1>5, <2>2 DEF FullInv, ApplyInv, SettledInv, Asked
    <3>2. \A r \in MarkRoots : chain'[r][active] = chain[r][active]
      BY <1>1, <3>1, ActiveKept, Zenon DEF FullInv, BaseInv, Holds
    <3> QED
      BY <1>4, <1>7, <3>1, <3>2, Zenon DEF Holds
  <2> QED
    BY <1>3, <2>1, <2>2 DEF ApplyInv, RequestInv, SettledInv, AppliedMatchesStore, SecondApplySucceeds
<1> QED
  BY <1>2, <1>6, <1>7, Zenon DEF RuleMove

LEMMA ReturnedApplies == ASSUME FullInv, RulesReturned PROVE ApplyInv'
<1>1. mphase = "rules" /\ phase = "idle" /\ UNCHANGED <<ruleVars, storeVars>>
  BY DEF RulesReturned
<1>2. UNCHANGED <<op, want, active, chain, result, groups>>
  BY <1>1 DEF ruleVars, control, kernel, storeVars
<1>3. Persisted' = Persisted /\ BindingsOfStore' = BindingsOfStore
  BY <1>2, SameGroups, Zenon
<1>4. CASE result = "ok" /\ Goto("cleanup")
  <2>1. mphase' = "cleanup" /\ UNCHANGED clean
    BY <1>4 DEF Goto
  <2>2. Asked' /\ result' = "ok"
    BY <1>1, <1>2, <1>3, <1>4 DEF FullInv, ApplyInv, RequestInv, Asked
  <2>3. clean >= 1 /\ Persisted # {} => Holds(active)
    BY <1>1, <1>4 DEF FullInv, ApplyInv, SettledInv
  <2>4. clean' >= 1 /\ Persisted' # {} => Holds(active)'
    BY <1>2, <1>3, <2>1, <2>3, Zenon DEF Holds
  <2> QED
    BY <2>1, <2>2, <2>4 DEF ApplyInv, RequestInv, SettledInv, AppliedMatchesStore, SecondApplySucceeds
<1>5. CASE Done("error") /\ clean' = 0
  BY <1>5, Failed DEF Done
<1> QED
  BY <1>4, <1>5, Zenon DEF RulesReturned


\* ApplyRules for the stored groups returned nil: the generation in use has
\* their rules, and the other one what was in use before.
LEMMA InForce ==
    ASSUME TypeInv, CutoverInv, op = "apply", result = "ok", want = BindingsOfStore
    PROVE  /\ Holds(front[1]) /\ Holds(Working)
           /\ \A r \in MarkRoots : jumps[r] = {Working}
           /\ \A f \in Families : iprule[f] = PairsFor(BindingsOfStore)
<1>1. /\ \A r \in Roots : jumps[r] = {Working} /\ chain[r][Working] = RulesFor(r, want)
      /\ \A f \in Families : iprule[f] = PairsFor(want)
  BY Zenon DEF CutoverInv, AppliedMeansInForce
<1>2. MarkRoots \subseteq Roots /\ 1 \in Roots
  BY DEF MarkRoots, Roots
<1>3. Holds(Working)
  BY <1>1, <1>2, WorkingFacts, MarkRulesArePolicy, Zenon DEF Holds
<1>4. front[1] = Working
  <2>1. (front[1] = "" => jumps[1] \subseteq {"L"}) /\ (front[1] # "" => front[1] \in jumps[1])
    BY <1>2, Zenon DEF TypeInv, RuleTypeOK, JumpsTypeOK
  <2>2. jumps[1] = {Working} /\ Working # "L"
    BY <1>1, <1>2, WorkingFacts, Zenon
  <2> QED
    BY <2>1, <2>2
<1> QED
  BY <1>1, <1>2, <1>3, <1>4, Zenon

\* The kernel refuses to destroy a stale set only to the first undisturbed call.
LEMMA RefusedOnce ==
    ASSUME FullInv, mphase = "cleanup", NEW s \in StaleSets, InUse(s)
    PROVE  clean = 0 /\ Persisted # {}
<1>1. Asked /\ result = "ok" /\ s \notin ActiveSets
  BY Zenon DEF FullInv, ApplyInv, RequestInv, StaleSets
<1>2. PICK r \in MarkRoots, g \in Generations : \E b \in chain[r][g] : s \in b.sets
  BY Zenon DEF InUse
<1>3. Persisted # {}
  <2> SUFFICES ASSUME Persisted = {} PROVE FALSE
    OBVIOUS
  <2>1. \A q \in Roots : \A h \in Generations : chain[q][h] = {}
    BY <1>1, Zenon DEF Asked, FullInv, CutoverInv, FlushedMeansGone
  <2>2. MarkRoots \subseteq Roots
    BY DEF MarkRoots, Roots
  <2> QED
    BY <1>2, <2>1, <2>2
<1>4. ASSUME clean >= 1 PROVE FALSE
  <2>1. Holds(active)
    BY <1>3, <1>4 DEF FullInv, ApplyInv, SettledInv
  <2>2. Holds(Working)
    BY <1>1, <1>3, InForce, Zenon DEF Asked, FullInv, BaseInv
  <2>3. g = active \/ g = Working
    BY <2>1 DEF Holds, Working, Other, Generations
  <2>4. chain[r][g] = BindingsOfStore
    BY <2>1, <2>2, <2>3, Zenon DEF Holds
  <2> QED
    BY <1>1, <1>2, <2>4, BindingSets, Zenon
<1>5. clean \in 0..2
  BY DEF FullInv, BaseInv, SetInv, ManagerTypes, CallTypes
<1> QED
  BY <1>3, <1>4, <1>5

LEMMA CleanupApplies == ASSUME FullInv, CleanupStaleSets PROVE ApplyInv'
<1>1. PICK s : CleanupOf(s)
  BY CleanupIs, Zenon
<1>2. /\ mphase = "cleanup" /\ UNCHANGED <<kernel, control, result, storeVars>>
  BY CleanupIs, Zenon
<1>3. UNCHANGED <<op, want, active, chain, front, groups>>
  BY <1>2, KernelSame, Zenon DEF storeVars
<1>4. Persisted' = Persisted /\ BindingsOfStore' = BindingsOfStore
  BY <1>3, SameGroups, Zenon
<1>5. CASE UNCHANGED callVars
  <2>1. mphase' = "cleanup" /\ UNCHANGED clean
    BY <1>2, <1>5 DEF callVars
  <2>2. Asked' /\ result' = "ok"
    BY <1>2, <1>3, <1>4 DEF FullInv, ApplyInv, RequestInv, Asked
  <2>3. clean >= 1 /\ Persisted # {} => Holds(active)
    BY <1>2 DEF FullInv, ApplyInv, SettledInv
  <2>4. clean' >= 1 /\ Persisted' # {} => Holds(active)'
    BY <1>3, <1>4, <2>1, <2>3, Zenon DEF Holds
  <2> QED
    BY <2>1, <2>2, <2>4 DEF ApplyInv, RequestInv, SettledInv, AppliedMatchesStore, SecondApplySucceeds
<1>6. CASE s \in StaleSets /\ InUse(s) /\ Done("error") /\ clean' = IF clean < 2 THEN clean + 1 ELSE 2
  <2>1. clean = 0 /\ Persisted # {}
    BY <1>2, <1>6, RefusedOnce, Zenon
  <2>2. clean' = 1 /\ mphase' = "idle" /\ mresult' = "error"
    BY <1>6, <2>1 DEF Done
  <2>3. Asked /\ result = "ok"
    BY <1>2 DEF FullInv, ApplyInv, RequestInv
  <2>4. Holds(front[1])
    BY <2>1, <2>3, InForce, Zenon DEF Asked, FullInv, BaseInv
  <2>5. Holds(front[1])'
    BY <1>3, <1>4, <2>4, Zenon DEF Holds
  <2> QED
    BY <2>2, <2>5 DEF ApplyInv, RequestInv, SettledInv, AppliedMatchesStore, SecondApplySucceeds
<1>7. CASE MAbort
  BY <1>7, MAbortApplies, Zenon
<1> QED
  BY <1>1, <1>5, <1>6, <1>7, Zenon DEF CleanupOf

LEMMA CleanupDoneApplies == ASSUME FullInv, CleanupDone PROVE ApplyInv'
<1>1. /\ mphase = "cleanup" /\ StaleSets \cup StaleStaged = {}
      /\ UNCHANGED <<ruleVars, storeVars, setVars, dnsVars>>
  BY DEF CleanupDone
<1>2. UNCHANGED <<op, want, active, chain, jumps, front, iprule, result, groups, ipset, staged, dnsLive>>
  BY <1>1 DEF ruleVars, control, kernel, storeVars, setVars, dnsVars
<1>3. Persisted' = Persisted /\ BindingsOfStore' = BindingsOfStore
  BY <1>2, SameGroups, Zenon
<1>4. Asked /\ result = "ok"
  BY <1>1 DEF FullInv, ApplyInv, RequestInv
<1>5. \A s \in SetNames : staged[s] = None /\ (s \notin ActiveSets => ipset[s] = None)
  BY <1>1 DEF StaleSets, StaleStaged
<1>6. CASE Persisted = {} /\ Goto("dnswrite")
  <2>1. mphase' = "dnswrite"
    BY <1>6 DEF Goto
  <2>2. \A s \in SetNames : ipset'[s] = None /\ staged'[s] = None
    BY <1>2, <1>5, <1>6, NothingStored
  <2>3. Asked' /\ result' = "ok" /\ Persisted' = {}
    BY <1>2, <1>3, <1>4, <1>6 DEF Asked
  <2> QED
    BY <2>1, <2>2, <2>3 DEF ApplyInv, RequestInv, SettledInv, AppliedMatchesStore, SecondApplySucceeds
<1>7. CASE Persisted # {} /\ Finish
  <2>1. mphase' = "idle" /\ mresult' = "ok"
    BY <1>7 DEF Finish, Done
  <2>2. op = "apply" /\ want = BindingsOfStore /\ TypeInv /\ CutoverInv
    BY <1>4, <1>7, Zenon DEF Asked, FullInv, BaseInv
  <2>3. /\ Holds(front[1]) /\ Holds(Working)
        /\ \A r \in MarkRoots : jumps[r] = {Working}
        /\ \A f \in Families : iprule[f] = PairsFor(BindingsOfStore)
    BY <1>4, <2>2, InForce, Zenon
  <2>4. Holds(front[1])'
    BY <1>2, <1>3, <2>3, Zenon DEF Holds
  <2>5. MatchesStore
    <3>1. \A r \in MarkRoots : UNION {chain[r][g] : g \in jumps[r]} = BindingsOfStore
      BY <2>3 DEF Holds
    <3>2. \A s \in ActiveSets : ipset[s] = <<EntriesOf(s)>>
      BY <1>1 DEF FullInv, BaseInv, SetInv, SetsInv
    <3>3. dnsLive = DnsConf
      BY <1>1, <1>7 DEF FullInv, BaseInv, SetInv, DnsInv
    <3>4. \A s \in SetNames : /\ ipset[s] = IF s \in ActiveSets THEN <<EntriesOf(s)>> ELSE None
                              /\ staged[s] = None
      BY <1>5, <3>2, Zenon
    <3> QED
      BY <2>3, <3>1, <3>3, <3>4, Zenon DEF MatchesStore
  <2>6. MatchesStore'
    BY <1>1, <1>2, <2>5, MatchesKept, Zenon
  <2> QED
    BY <2>1, <2>4, <2>6 DEF ApplyInv, RequestInv, SettledInv, AppliedMatchesStore, SecondApplySucceeds
<1> QED
  BY <1>6, <1>7, Zenon DEF CleanupDone


LEMMA QuietApplies ==
    ASSUME FullInv, UNCHANGED <<ruleVars, storeVars, setVars, dnsVars, callVars>>
    PROVE  ApplyInv'
<1>1. /\ UNCHANGED <<op, want, active, phase, chain, jumps, front, iprule, result>>
      /\ UNCHANGED <<groups, ipset, staged, dnsLive, mop, mphase, mresult, clean>>
  BY DEF ruleVars, control, kernel, storeVars, setVars, dnsVars, callVars
<1>2. Persisted' = Persisted /\ BindingsOfStore' = BindingsOfStore
  BY <1>1, SameGroups, Zenon
<1>3. RequestInv'
  BY <1>1, <1>2, Zenon DEF FullInv, ApplyInv, RequestInv, Asked
<1>4. SettledInv'
  BY <1>1, <1>2, Zenon DEF FullInv, ApplyInv, SettledInv, Holds
<1>5. AppliedMatchesStore'
  BY <1>1, MatchesKept, Zenon DEF FullInv, ApplyInv, AppliedMatchesStore
<1>6. SecondApplySucceeds'
  BY <1>1, Zenon DEF FullInv, ApplyInv, SecondApplySucceeds
<1> QED
  BY <1>3, <1>4, <1>5, <1>6, Zenon DEF ApplyInv

LEMMA FullStep == ASSUME Reliable PROVE FullInv /\ [Next]_vars => FullInv'
<1> SUFFICES ASSUME FullInv, [Next]_vars PROVE FullInv'
  OBVIOUS
<1>1. BaseInv'
  BY BaseStep, Zenon DEF FullInv
<1>2. CutoverInv'
  BY RuleFrames, FrameKeeps, Zenon DEF FullInv, BaseInv
<1>3. StoreCall => ApplyInv'
  BY StoreCalls, CalledApplies, Zenon DEF FullInv, BaseInv, SetInv, ManagerTypes
<1>4. Kill \/ Restart => ApplyInv'
  BY Failed DEF Kill, Restart, Done
<1>5. ChangeVPNs \/ UNCHANGED vars => ApplyInv'
  BY QuietApplies, Zenon DEF ChangeVPNs, vars
<1>6. ApplyInv'
  BY <1>3, <1>4, <1>5, PlanEmptyApplies, PlanMissingApplies, PlanSetsApplies, LoopApplies, SetsDoneApplies,
     WriteApplies, ReloadApplies, AtWorkApplies, ReturnedApplies, CleanupApplies, CleanupDoneApplies,
     Zenon DEF Next, StoreCall
<1> QED
  BY <1>1, <1>2, <1>6, Zenon DEF FullInv

-----------------------------------------------------------------------------
\* Groups are numbered, so every set of set names has a first one.
WellFounded == INSTANCE WellFoundedInduction

LEMMA FirstIn == ASSUME NEW S \in SUBSET SetNames, S # {} PROVE First(S) \in S
<1> DEFINE N == {s[1] : s \in S}
<1>1. N \in SUBSET Nat /\ N # {}
  <2>1. ASSUME NEW s \in S PROVE s[1] \in Groups
    BY DEF SetNames
  <2>2. Groups \subseteq Nat
    BY RulesAssumption
  <2> QED
    BY <2>1, <2>2, Zenon
<1>2. \E x \in N : \A y \in N : ~(<<y, x>> \in WellFounded!OpToRel(<, Nat))
  BY <1>1, WellFounded!NatLessThanWellFounded, WellFounded!WFMin, Zenon
<1>3. PICK n \in N : \A y \in N : ~(<<y, n>> \in WellFounded!OpToRel(<, Nat))
  BY <1>2, Zenon
<1>4. n \in Nat /\ \A t \in S : t[1] \in Nat /\ ~(t[1] < n)
  <2>1. ASSUME NEW x \in Nat, NEW y \in Nat, y < x PROVE <<y, x>> \in WellFounded!OpToRel(<, Nat)
    BY <2>1 DEF WellFounded!OpToRel
  <2>2. \A t \in S : t[1] \in N
    BY Zenon
  <2> HIDE DEF N
  <2> QED
    BY <1>1, <1>3, <2>1, <2>2, Zenon
<1>5. PICK s \in S : s[1] = n /\ ((\E t \in S : t[1] = n /\ t[2] = "d") => s[2] = "d")
  BY Zenon
<1>6. \A t \in S : t[2] \in {"s", "d"}
  BY Zenon DEF SetNames
<1>7. \A t \in S : Before(s, t)
  BY <1>4, <1>5, <1>6 DEF Before
<1> QED
  BY <1>5, <1>7, Zenon DEF First

LEMMA BaseInit == Init => BaseInv
BY InitHolds, FirstIn, Zenon DEF BaseInv, FirstWorks

LEMMA FullInit == Init => FullInv
<1> SUFFICES ASSUME Init PROVE FullInv
  OBVIOUS
<1>1. BaseInv /\ CutoverInv
  BY BaseInit, CutoverInit, Zenon DEF Init
<1>2. ApplyInv
  BY DEF Init, ApplyInv, RequestInv, SettledInv, AppliedMatchesStore, SecondApplySucceeds
<1> QED
  BY <1>1, <1>2, Zenon DEF FullInv

\* The store, the kernel's sets, the dnsmasq conf and the manager's call in
\* progress keep their type, for any groups, rules, VPNs and any faults.
THEOREM ManagerTypeCorrect == Spec => []TypeOK
<1>1. Init => BaseInv
  BY BaseInit
<1>2. BaseInv /\ [Next]_vars => BaseInv'
  BY BaseStep
<1>3. BaseInv => TypeOK
  <2> SUFFICES ASSUME BaseInv PROVE TypeOK
    OBVIOUS
  <2>1. StoreTypes /\ SetTypes /\ DnsTypes /\ CallTypes /\ vpns \subseteq VPNs
    BY Zenon DEF BaseInv, SetInv, ManagerTypes
  <2>2. \A g \in Groups : groups[g] = None \/ groups[g] \in [{1} -> Rules]
    BY <2>1 DEF StoreTypes, StoredRule
  <2>3. \A s \in SetNames : {ipset[s], staged[s]} \subseteq {None} \cup [{1} -> SUBSET (Addrs \cup {"cidr"})]
    <3>1. \A s \in SetNames : ipset[s] \in Content /\ staged[s] \in Content
      BY <2>1, Zenon DEF SetTypes
    <3> QED
      BY <3>1 DEF Content
  <2> QED
    BY <2>1, <2>2, <2>3, Zenon DEF TypeOK, StoreTypes, DnsTypes, CallTypes, MPhases
<1> QED
  BY <1>1, <1>2, <1>3, PTL DEF Spec

\* A mark rule in a chain, or one that ApplyRules is about to add, names only
\* ipsets that exist, whatever fails, is killed or restarted: the sets come
\* before the rules and go only when no chain has a rule for them.
THEOREM RulesAlwaysFindSets == Spec => []RulesFindTheirSets
<1>1. Init => BaseInv
  BY BaseInit
<1>2. BaseInv /\ [Next]_vars => BaseInv'
  BY BaseStep
<1>3. BaseInv => RulesFindTheirSets
  BY DEF BaseInv, SetInv
<1> QED
  BY <1>1, <1>2, <1>3, PTL DEF Spec

LEMMA ChangesWhole ==
    ASSUME BaseInv, [Next]_vars, NEW s \in SetNames, InUse(s), ipset'[s] # ipset[s], ipset'[s] # None
    PROVE  s \in DOMAIN plan /\ ipset'[s] = <<plan[s]>>
<1>0. ipset[s] # None /\ ipset \in [SetNames -> Content]
  BY Zenon DEF BaseInv, SetInv, RulesFindTheirSets, ManagerTypes, SetTypes
<1>1. CASE EnsureSet
  <2>1. ipset' = [ipset EXCEPT ![First(left)] = IF @ = None THEN <<{}>> ELSE @]
    BY <1>1, Zenon DEF EnsureSet
  <2> QED
    BY <1>0, <2>1
<1>2. CASE SwapSets
  <2>1. mphase = "swap" /\ ipset' = [ipset EXCEPT ![First(left)] = staged[First(left)]]
    BY <1>2, Zenon DEF SwapSets, setVars
  <2>2. left # {} /\ staged[First(left)] = <<plan[First(left)]>>
    BY <2>1 DEF BaseInv, SetInv, LoopInv, LoopSteps
  <2>3. First(left) \in DOMAIN plan
    BY <2>1, <2>2, LoopFacts DEF LoopSteps
  <2> DEFINE t == First(left)
  <2>4. t \in DOMAIN plan /\ ipset' = [ipset EXCEPT ![t] = <<plan[t]>>]
    BY <2>1, <2>2, <2>3, Zenon
  <2> HIDE DEF t
  <2>5. s = t /\ ipset'[t] = <<plan[t]>>
    BY <1>0, <2>4
  <2> QED
    BY <2>4, <2>5, Zenon
<1>3. CASE CleanupStaleSets
  <2>1. PICK t : CleanupOf(t)
    BY <1>3, CleanupIs, Zenon
  <2>2. UNCHANGED ipset \/ ipset' = [ipset EXCEPT ![t] = None]
    BY <2>1, Zenon DEF CleanupOf, DestroyStaleSet, DestroyStaleStaged, setVars
  <2> QED
    BY <1>0, <2>2
<1>4. CASE Restart
  BY <1>4 DEF Restart
<1>5. CASE StoreCall
  BY <1>5, StoreCalls, Zenon DEF Called, setVars, BaseInv, SetInv, ManagerTypes
<1>6. CASE PlanEmpty \/ PlanMissingVPN \/ PlanSets \/ StageSet \/ DestroyStaged \/ SetsDone \/ UNCHANGED vars
  BY <1>6, Zenon DEF PlanEmpty, PlanMissingVPN, PlanSets, StageSet, DestroyStaged, SetsDone, setVars, vars
<1>7. CASE WriteDnsmasqConf \/ ReloadDnsmasq \/ RulesAtWork \/ RulesReturned \/ CleanupDone \/ ChangeVPNs \/ Kill
  BY <1>7, Zenon DEF WriteDnsmasqConf, ReloadDnsmasq, RulesAtWork, RulesReturned, CleanupDone, ChangeVPNs,
     Kill, setVars
<1> QED
  BY <1>1, <1>2, <1>3, <1>4, <1>5, <1>6, <1>7, Zenon DEF Next, StoreCall

\* The staged swap: a set that a mark rule matches on is never created anew,
\* emptied or filled in part; it changes by taking the planned entries at once.
THEOREM SetsChangeWhole == Spec => MatchedSetsChangeWhole
<1>1. Init => BaseInv
  BY BaseInit
<1>2. BaseInv /\ [Next]_vars => BaseInv'
  BY BaseStep
<1>3. BaseInv /\ [Next]_vars =>
        [\A s \in SetNames :
            (InUse(s) /\ ipset'[s] # ipset[s] /\ ipset'[s] # None) =>
                s \in DOMAIN plan /\ ipset'[s] = <<plan[s]>>]_vars
  BY ChangesWhole, Zenon
<1> QED
  BY <1>1, <1>2, <1>3, PTL DEF Spec, MatchedSetsChangeWhole

\* "Apply makes runtime routing state match the persisted groups": whatever
\* failed, was killed or restarted before, a call that applies and returns nil
\* leaves the chains, the ip rules, the sets and the dnsmasq conf of the store.
THEOREM ApplyIsExact == ASSUME Reliable PROVE Spec => []AppliedMatchesStore
<1>1. Init => FullInv
  BY FullInit
<1>2. FullInv /\ [Next]_vars => FullInv'
  BY FullStep
<1>3. FullInv => AppliedMatchesStore
  BY DEF FullInv, ApplyInv
<1> QED
  BY <1>1, <1>2, <1>3, PTL DEF Spec

\* The kernel refuses to destroy a stale set while the generation that went out
\* of use matches on it, which fails the call; the next undisturbed call for the
\* same groups rebuilds that generation and returns nil.
THEOREM SecondApplyAlwaysSucceeds == ASSUME Reliable PROVE Spec => []SecondApplySucceeds
<1>1. Init => FullInv
  BY FullInit
<1>2. FullInv /\ [Next]_vars => FullInv'
  BY FullStep
<1>3. FullInv => SecondApplySucceeds
  BY DEF FullInv, ApplyInv
<1> QED
  BY <1>1, <1>2, <1>3, PTL DEF Spec
=============================================================================
