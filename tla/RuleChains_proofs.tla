-------------------------- MODULE RuleChains_proofs --------------------------
(* Proofs about RuleChains, for every set of bindings and every fault bound: *)
(* types; and, when listings work and the commands whose errors are ignored  *)
(* do not fail, that ApplyRules and FlushRules keep their promises, that a   *)
(* change of policy is atomic, that no mark loses its table and that active  *)
(* chains stay as they are.                                                  *)
EXTENDS RuleChains, TLAPS

RootPhases == {"idle", "prepare", "migrate", "build", "insert", "unroot", "ungen"}
IPPhases == {"ipload", "ipadd", "ipdel", "refresh", "readd"}

\* The type invariant and what makes it inductive: the ip rule phases loop over
\* the address families, not over the roots, and a stale jump is removed only
\* after the new one is there.
TypeInv ==
    /\ RuleTypeOK
    /\ phase \in IPPhases => at \in Families
    /\ phase = "remove" => Working \in jumps[at]

\* The rules of more bindings include those of fewer.
LEMMA RulesForMonotonic ==
    ASSUME NEW r, NEW Q, NEW P \in SUBSET Q
    PROVE  RulesFor(r, P) \subseteq RulesFor(r, Q)
BY DEF RulesFor

LEMMA RulesOfIncluded ==
    ASSUME NEW r, NEW Q, NEW b \in Q
    PROVE  RulesOf(r, b) \subseteq RulesFor(r, Q)
BY DEF RulesFor

LEMMA PairsForMonotonic ==
    ASSUME NEW Q, NEW P \in SUBSET Q
    PROVE  PairsFor(P) \subseteq PairsFor(Q)
BY DEF PairsFor

\* Replacing what one generation of one root holds keeps the chains' type.
LEMMA ChainUpdate ==
    ASSUME ChainTypeOK, NEW r \in Roots, NEW g \in Generations,
           NEW S \in SUBSET RulesFor(r, Bindings),
           chain' = [chain EXCEPT ![r][g] = S]
    PROVE  ChainTypeOK'
<1>1. \A q \in Roots : chain'[q] = IF q = r THEN [chain[r] EXCEPT ![g] = S] ELSE chain[q]
  BY DEF ChainTypeOK
<1>2. chain' = [q \in Roots |-> chain'[q]]
  BY Zenon DEF ChainTypeOK
<1>3. ASSUME NEW q \in Roots
      PROVE  chain'[q] \in [Generations -> SUBSET RulesFor(q, Bindings)]
  BY <1>1 DEF ChainTypeOK
<1> QED
  BY <1>2, <1>3 DEF ChainTypeOK

\* A fault keeps the count within its bound.
LEMMA FaultBound ==
    ASSUME faults \in 0..MaxFaults, Fault
    PROVE  faults' \in 0..MaxFaults
BY BoundAssumption DEF Fault

LEMMA TypeInit == RuleInit => TypeInv
<1> SUFFICES ASSUME RuleInit PROVE TypeInv
  OBVIOUS
<1>1. JumpsTypeOK
  BY DEF RuleInit, JumpsTypeOK, Roots
<1>2. ChainTypeOK
  BY DEF RuleInit, ChainTypeOK
<1>3. CallTypeOK
  <2>1. faults \in 0..MaxFaults /\ at \in Roots
    <3>1. faults = 0 /\ at = 1
      BY DEF RuleInit
    <3>2. MaxFaults \in Nat
      BY BoundAssumption
    <3> QED
      BY <3>1, <3>2 DEF Roots
  <2>2. phase \in Phases
    BY DEF RuleInit, Phases
  <2> QED
    BY <2>1, <2>2 DEF RuleInit, CallTypeOK
<1> QED
  BY <1>1, <1>2, <1>3 DEF RuleInit, TypeInv, RuleTypeOK, IPPhases, Families

\* Constants of the type that the provers need spelled out.
LEMMA RootFacts == 1 \in Roots /\ 4 \in Roots /\ 6 \in Roots /\ 4 \in Families /\ 6 \in Families
BY DEF Roots, Families

LEMMA NextInRoots == ASSUME NEW r \in Roots, r < 6 PROVE r + 1 \in Roots
BY DEF Roots

\* A call that gives up leaves the variables of the call with their type.
LEMMA GiveUpType ==
    ASSUME CallTypeOK, NEW o \in {"none", "error", "crashed"}, GiveUp(o),
           faults' \in 0..MaxFaults, op' \in {"none", "apply", "flush", "boot"}
    PROVE  CallTypeOK' /\ phase' = "idle"
BY RootFacts DEF GiveUp, Return, CallTypeOK, Phases

LEMMA AbortType == ASSUME CallTypeOK, Abort PROVE CallTypeOK' /\ phase' = "idle"
<1>1. faults' \in 0..MaxFaults
  BY FaultBound DEF CallTypeOK, Abort
<1>2. op' \in {"none", "apply", "flush", "boot"}
  BY DEF CallTypeOK, Abort
<1> QED
  BY <1>1, <1>2, GiveUpType DEF Abort

LEMMA NextRootType ==
    ASSUME CallTypeOK, NEW after \in RootPhases, NextRoot(after), phase \in RootPhases
    PROVE  CallTypeOK' /\ phase' \in RootPhases
<1>1. at' \in Roots
  BY RootFacts, NextInRoots DEF NextRoot, CallTypeOK
<1>2. phase' \in RootPhases /\ phase' \in Phases
  BY DEF NextRoot, CallTypeOK, RootPhases, Phases
<1> QED
  BY <1>1, <1>2 DEF NextRoot, CallTypeOK

LEMMA TypeStep == TypeInv /\ [RuleNext]_ruleVars => TypeInv'
<1> SUFFICES ASSUME TypeInv, [RuleNext]_ruleVars
             PROVE  TypeInv'
  OBVIOUS
<1>j. JumpsTypeOK
  BY DEF TypeInv, RuleTypeOK
<1>c. ChainTypeOK
  BY DEF TypeInv, RuleTypeOK
<1>i. iprule \in [Families -> SUBSET PairsFor(Bindings)]
  BY DEF TypeInv, RuleTypeOK
<1>t. CallTypeOK
  BY DEF TypeInv, RuleTypeOK
<1>f. phase \in IPPhases => at \in Families
  BY DEF TypeInv
<1>w. Working \in Generations
  BY DEF Working, Other, Generations
<1>q. ASSUME JumpsTypeOK', ChainTypeOK', iprule' \in [Families -> SUBSET PairsFor(Bindings)],
             CallTypeOK', phase' \in RootPhases
      PROVE  TypeInv'
  BY <1>q DEF TypeInv, RuleTypeOK, RootPhases, IPPhases
<1>g. ASSUME JumpsTypeOK', ChainTypeOK', iprule' \in [Families -> SUBSET PairsFor(Bindings)],
             CallTypeOK', phase' \in IPPhases, at' \in Families
      PROVE  TypeInv'
  BY <1>g DEF TypeInv, RuleTypeOK, IPPhases
<1>uj. UNCHANGED <<linked, jumps, front>> => JumpsTypeOK'
  BY <1>j DEF JumpsTypeOK
<1>uc. UNCHANGED chain => ChainTypeOK'
  BY <1>c DEF ChainTypeOK
<1>1. CASE \E P \in SUBSET Bindings : StartApply(P)
  <2>1. PICK P \in SUBSET Bindings : StartApply(P)
    BY <1>1
  <2>2. active' \in Generations \cup {""}
    <3>1. {front[1], front[4], ""} \subseteq Generations \cup {""}
      BY <1>j, RootFacts DEF JumpsTypeOK
    <3>2. \A seen : DetectActiveVariant(seen) \in {front[1], front[4], ""}
      BY DEF DetectActiveVariant
    <3> QED
      BY <2>1, <3>1, <3>2 DEF StartApply
  <2>3. faults' \in 0..MaxFaults
    BY <2>1, <1>t, FaultBound DEF StartApply, CallTypeOK
  <2>4. CallTypeOK' /\ phase' = "prepare"
    BY <2>1, <2>2, <2>3, RootFacts DEF StartApply, CallTypeOK, Phases
  <2>5. phase' \in RootPhases
    BY <2>4 DEF RootPhases
  <2> QED
    BY <2>1, <2>4, <2>5, <1>q, <1>uj, <1>uc, <1>i DEF StartApply, kernel
<1>2. CASE StartFlush
  <2>1. CallTypeOK' /\ phase' = "unroot"
    BY <1>2, <1>t, RootFacts DEF StartFlush, CallTypeOK, Phases
  <2>2. phase' \in RootPhases
    BY <2>1 DEF RootPhases
  <2> QED
    BY <1>2, <2>1, <2>2, <1>q, <1>uj, <1>uc, <1>i DEF StartFlush, kernel
<1>3. CASE PrepareGenerationChain
  <2>1. JumpsTypeOK'
    BY <1>3, <1>j DEF PrepareGenerationChain, JumpsTypeOK
  <2>2. ChainTypeOK'
    <3>1. CASE chain' = [chain EXCEPT ![at][Working] = {}]
      <4>1. at \in Roots /\ {} \in SUBSET RulesFor(at, Bindings)
        BY <1>t DEF CallTypeOK
      <4> QED
        BY <3>1, <4>1, <1>w, <1>c, ChainUpdate, Zenon
    <3>2. CASE UNCHANGED chain
      BY <3>2, <1>uc
    <3> QED
      BY <1>3, <3>1, <3>2 DEF PrepareGenerationChain
  <2>3. CallTypeOK' /\ phase' \in RootPhases
    <3>1. CASE NextRoot(IF active = "" THEN "migrate" ELSE "build")
      <4>1. (IF active = "" THEN "migrate" ELSE "build") \in RootPhases
        BY DEF Phases, RootPhases
      <4>2. phase \in RootPhases
        BY <1>3 DEF PrepareGenerationChain, RootPhases
      <4> QED
        BY <3>1, <4>1, <4>2, <1>t, NextRootType
    <3>2. CASE Abort
      BY <3>2, <1>t, AbortType DEF RootPhases
    <3> QED
      BY <1>3, <3>1, <3>2 DEF PrepareGenerationChain
  <2> QED
    BY <1>3, <2>1, <2>2, <2>3, <1>q, <1>i DEF PrepareGenerationChain
<1>4. CASE FlushLegacyRoot
  <2>1. JumpsTypeOK'
    BY <1>4, <1>j DEF FlushLegacyRoot, JumpsTypeOK
  <2>2. CallTypeOK' /\ phase' \in RootPhases
    <3>1. CASE NextRoot("build")
      <4>1. "build" \in RootPhases /\ phase \in RootPhases
        BY <1>4 DEF FlushLegacyRoot, Phases, RootPhases
      <4> QED
        BY <3>1, <4>1, <1>t, NextRootType
    <3>2. CASE Abort
      BY <3>2, <1>t, AbortType DEF RootPhases
    <3> QED
      BY <1>4, <3>1, <3>2 DEF FlushLegacyRoot
  <2> QED
    BY <1>4, <2>1, <2>2, <1>q, <1>i, <1>uc DEF FlushLegacyRoot
<1>5. CASE BuildBinding
  <2>1. PICK b \in Bindings :
           /\ Due(b)
           /\ LET clash == \E c \in want \ todo : c.mark = b.mark /\ c.table # b.table
              IN  \/ /\ ~clash
                     /\ AddRules(b, 4)
                     /\ todo' = todo \ {b}
                     /\ UNCHANGED <<op, phase, at, active, want, pairs, faults, result>>
                  \/ ~clash /\ Abort /\ \E n \in 0..3 : AddRules(b, n)
                  \/ /\ clash
                     /\ GiveUp("error")
                     /\ UNCHANGED <<chain, op, faults>>
    BY <1>5 DEF BuildBinding
  <2>2. ASSUME NEW n, AddRules(b, n) PROVE ChainTypeOK'
    <3>1. ASSUME NEW r \in Roots
          PROVE  [chain[r] EXCEPT ![Working] = @ \cup RulesOf(r, b)]
                     \in [Generations -> SUBSET RulesFor(r, Bindings)]
      BY <1>c, <1>w, RulesOfIncluded DEF ChainTypeOK
    <3> QED
      BY <2>2, <3>1, <1>c DEF AddRules, ChainTypeOK
  <2>3. ChainTypeOK'
    BY <2>1, <2>2, <1>uc
  <2>4. CallTypeOK' /\ phase' \in RootPhases
    <3>1. CASE todo' = todo \ {b} /\ UNCHANGED <<op, phase, at, active, want, pairs, faults, result>>
      BY <3>1, <1>5, <1>t DEF CallTypeOK, BuildBinding, RootPhases
    <3>2. CASE Abort
      BY <3>2, <1>t, AbortType DEF RootPhases
    <3>3. CASE GiveUp("error") /\ UNCHANGED <<chain, op, faults>>
      <4>1. faults' \in 0..MaxFaults /\ op' \in {"none", "apply", "flush", "boot"}
        BY <3>3, <1>t DEF CallTypeOK
      <4> QED
        BY <3>3, <4>1, <1>t, GiveUpType DEF RootPhases
    <3> QED
      BY <2>1, <3>1, <3>2, <3>3
  <2> QED
    BY <1>5, <2>3, <2>4, <1>q, <1>i, <1>uj DEF BuildBinding
<1>6. CASE BuildMSS
  <2>1. ChainTypeOK'
    <3>1. ASSUME NEW four \in SUBSET want, NEW six \in SUBSET want, AddMSSRules(four, six)
          PROVE  ChainTypeOK'
      <4>1. ASSUME NEW r \in Roots, NEW P \in SUBSET want
            PROVE  [chain[r] EXCEPT ![Working] = RulesFor(r, P)]
                       \in [Generations -> SUBSET RulesFor(r, Bindings)]
        BY <1>c, <1>w, <1>t, RulesForMonotonic DEF ChainTypeOK, CallTypeOK
      <4> QED
        BY <3>1, <4>1, <1>c, Zenon DEF AddMSSRules, ChainTypeOK
    <3> QED
      BY <1>6, <3>1 DEF BuildMSS
  <2>2. CallTypeOK' /\ phase' \in RootPhases
    <3>1. CASE phase' = "insert" /\ UNCHANGED <<op, at, active, want, todo, pairs, faults, result>>
      BY <3>1, <1>t DEF CallTypeOK, Phases, RootPhases
    <3>2. CASE Abort
      BY <3>2, <1>t, AbortType DEF RootPhases
    <3> QED
      BY <1>6, <3>1, <3>2 DEF BuildMSS
  <2> QED
    BY <1>6, <2>1, <2>2, <1>q, <1>i, <1>uj DEF BuildMSS
<1>7. CASE InsertJump
  <2>0. at \in Roots
    BY <1>t DEF CallTypeOK
  <2>1. JumpsTypeOK'
    <3>1. CASE /\ jumps' = [jumps EXCEPT ![at] = @ \cup {Working}]
               /\ front' = IF Working \in jumps[at] THEN front ELSE [front EXCEPT ![at] = Working]
               /\ UNCHANGED linked
      <4>1. jumps' \in [Roots -> SUBSET (Generations \cup {"L"})]
        BY <3>1, <1>j, <1>w, <2>0 DEF JumpsTypeOK
      <4>2. front' \in [Roots -> Generations \cup {""}]
        BY <3>1, <1>j, <1>w, <2>0 DEF JumpsTypeOK
      <4>3. ASSUME NEW r \in Roots
            PROVE  /\ front'[r] = "" => jumps'[r] \subseteq {"L"}
                   /\ front'[r] # "" => front'[r] \in jumps'[r]
        BY <3>1, <1>j, <1>w, <2>0 DEF JumpsTypeOK, Generations
      <4> QED
        BY <3>1, <4>1, <4>2, <4>3, <1>j DEF JumpsTypeOK
    <3>2. CASE UNCHANGED <<linked, jumps, front>>
      BY <3>2, <1>uj
    <3> QED
      BY <1>7, <3>1, <3>2 DEF InsertJump
  <2>2. CASE Abort
    <3>1. CallTypeOK' /\ phase' \in RootPhases
      BY <2>2, <1>t, AbortType DEF RootPhases
    <3> QED
      BY <1>7, <2>1, <3>1, <1>q, <1>i, <1>uc DEF InsertJump
  <2>3. CASE /\ jumps' = [jumps EXCEPT ![at] = @ \cup {Working}]
             /\ phase' = "remove"
             /\ UNCHANGED <<op, at, active, want, todo, pairs, faults, result>>
    <3>1. CallTypeOK'
      BY <2>3, <1>t DEF CallTypeOK, Phases
    <3>2. Working' \in jumps'[at']
      BY <2>3, <2>0, <1>j DEF Working, JumpsTypeOK
    <3>3. ChainTypeOK' /\ iprule' \in [Families -> SUBSET PairsFor(Bindings)]
      BY <1>7, <1>uc, <1>i DEF InsertJump
    <3> QED
      BY <2>1, <2>3, <3>1, <3>2, <3>3 DEF TypeInv, RuleTypeOK, IPPhases
  <2> QED
    BY <1>7, <2>2, <2>3 DEF InsertJump
<1>8. CASE RemoveStaleJump
  <2>0. at \in Roots /\ Working \in jumps[at] /\ Working # Other(Working)
    BY <1>8, <1>t, <1>w DEF RemoveStaleJump, CallTypeOK, TypeInv, Other, Generations
  <2>1. JumpsTypeOK'
    <3>1. CASE /\ jumps' = [jumps EXCEPT ![at] = @ \ {Other(Working)}]
               /\ front' = [front EXCEPT ![at] = Working]
               /\ UNCHANGED linked
      <4>1. jumps' \in [Roots -> SUBSET (Generations \cup {"L"})]
        BY <3>1, <1>j, <2>0 DEF JumpsTypeOK
      <4>2. front' \in [Roots -> Generations \cup {""}]
        BY <3>1, <1>j, <1>w, <2>0 DEF JumpsTypeOK
      <4>3. ASSUME NEW r \in Roots
            PROVE  /\ front'[r] = "" => jumps'[r] \subseteq {"L"}
                   /\ front'[r] # "" => front'[r] \in jumps'[r]
        BY <3>1, <1>j, <1>w, <2>0 DEF JumpsTypeOK, Generations
      <4> QED
        BY <3>1, <4>1, <4>2, <4>3, <1>j DEF JumpsTypeOK
    <3> QED
      BY <1>8, <3>1, <1>uj DEF RemoveStaleJump
  <2>2. faults' \in 0..MaxFaults
    BY <1>8, <1>t, FaultBound DEF RemoveStaleJump, CallTypeOK
  <2>3. ChainTypeOK' /\ iprule' \in [Families -> SUBSET PairsFor(Bindings)]
    BY <1>8, <1>uc, <1>i DEF RemoveStaleJump
  <2>4. CASE at < 6
    <3>1. at' \in Roots /\ phase' = "insert"
      BY <1>8, <2>0, <2>4, NextInRoots DEF RemoveStaleJump
    <3>2. CallTypeOK' /\ phase' \in RootPhases
      BY <1>8, <1>t, <2>2, <3>1 DEF RemoveStaleJump, CallTypeOK, Phases, RootPhases
    <3> QED
      BY <2>1, <2>3, <3>2, <1>q
  <2>5. CASE ~(at < 6)
    <3>1. at' = 4 /\ phase' = "ipload"
      BY <1>8, <2>5 DEF RemoveStaleJump
    <3>2. CallTypeOK' /\ phase' \in IPPhases /\ at' \in Families
      BY <1>8, <1>t, <2>2, <3>1, RootFacts DEF RemoveStaleJump, CallTypeOK, Phases, IPPhases
    <3> QED
      BY <2>1, <2>3, <3>2, <1>g
  <2> QED
    BY <2>4, <2>5
<1>9. CASE LoadManagedIPRules
  <2>1. at \in Families /\ PairsFor(want) \subseteq PairsFor(Bindings)
    BY <1>9, <1>f, <1>t, PairsForMonotonic DEF LoadManagedIPRules, IPPhases, CallTypeOK
  <2>2. faults' \in 0..MaxFaults
    BY <1>9, <1>t, FaultBound DEF LoadManagedIPRules, CallTypeOK
  <2>3. pairs' \in SUBSET PairsFor(Bindings) /\ phase' \in {"ipadd", "refresh"}
    BY <1>9, <1>i, <2>1 DEF LoadManagedIPRules
  <2>4. CallTypeOK' /\ phase' \in IPPhases
    BY <1>9, <1>t, <2>2, <2>3 DEF LoadManagedIPRules, CallTypeOK, Phases, IPPhases
  <2> QED
    BY <1>9, <2>1, <2>4, <1>g, <1>uj, <1>uc, <1>i DEF LoadManagedIPRules, kernel
<1>s. ASSUME NEW S \in SUBSET PairsFor(Bindings), SetIPRules(S), phase \in IPPhases
      PROVE  /\ iprule' \in [Families -> SUBSET PairsFor(Bindings)]
             /\ JumpsTypeOK' /\ ChainTypeOK'
  BY <1>s, <1>f, <1>i, <1>uj, <1>uc DEF SetIPRules
<1>n. ASSUME NextFamily, phase \in {"ipdel", "refresh"} PROVE TypeInv'
  <2>1. JumpsTypeOK' /\ ChainTypeOK' /\ iprule' \in [Families -> SUBSET PairsFor(Bindings)]
    BY <1>n, <1>uj, <1>uc, <1>i DEF NextFamily, kernel
  <2>2. CASE at = 4
    <3>1. CallTypeOK' /\ phase' \in IPPhases /\ at' \in Families
      BY <1>n, <2>2, <1>t, RootFacts DEF NextFamily, CallTypeOK, Phases, IPPhases
    <3> QED
      BY <2>1, <3>1, <1>g
  <2>3. CASE at # 4
    <3>1. CallTypeOK' /\ phase' \in RootPhases
      BY <1>n, <2>3, <1>t, RootFacts DEF NextFamily, Return, CallTypeOK, Phases, RootPhases
    <3> QED
      BY <2>1, <3>1, <1>q
  <2> QED
    BY <2>2, <2>3
<1>b. ASSUME Abort, UNCHANGED kernel PROVE TypeInv'
  <2>1. CallTypeOK' /\ phase' \in RootPhases
    BY <1>b, <1>t, AbortType DEF RootPhases
  <2> QED
    BY <1>b, <2>1, <1>q, <1>uj, <1>uc, <1>i DEF kernel
<1>10. CASE AddIPRule
  <2>0. phase \in IPPhases /\ at \in Families
    BY <1>10, <1>f DEF AddIPRule, IPPhases
  <2>1. CASE phase' = "ipdel" /\ UNCHANGED <<kernel, op, at, active, want, todo, pairs, faults, result>>
    <3>1. CallTypeOK' /\ phase' \in IPPhases /\ at' \in Families
      BY <2>0, <2>1, <1>t DEF CallTypeOK, Phases, IPPhases
    <3> QED
      BY <2>1, <3>1, <1>g, <1>uj, <1>uc, <1>i DEF kernel
  <2>2. ASSUME NEW p \in PairsFor(want) \ iprule[at], SetIPRules(iprule[at] \cup {p}),
               UNCHANGED <<control, faults, result>>
        PROVE  TypeInv'
    <3>1. iprule[at] \cup {p} \in SUBSET PairsFor(Bindings)
      BY <2>0, <2>2, <1>i, <1>t, PairsForMonotonic DEF CallTypeOK
    <3>2. CallTypeOK' /\ phase' \in IPPhases /\ at' \in Families
      BY <2>0, <2>2, <1>t DEF control, CallTypeOK
    <3> QED
      BY <2>0, <2>2, <3>1, <3>2, <1>g, <1>s
  <2> QED
    BY <1>10, <2>1, <2>2, <1>b, Zenon DEF AddIPRule
<1>11. CASE DeleteIPRule
  <2>0. phase \in IPPhases /\ at \in Families
    BY <1>11, <1>f DEF DeleteIPRule, IPPhases
  <2>1. CASE NextFamily
    BY <1>11, <2>1, <1>n DEF DeleteIPRule
  <2>2. ASSUME NEW p \in pairs, pairs' = pairs \ {p},
               \/ SetIPRules(iprule[at] \ {p}) /\ faults' = faults
               \/ SilentFaults /\ Fault /\ UNCHANGED kernel,
               UNCHANGED <<op, phase, at, active, want, todo, result>>
        PROVE  TypeInv'
    <3>1. iprule[at] \ {p} \in SUBSET PairsFor(Bindings)
      BY <2>0, <1>i
    <3>2. JumpsTypeOK' /\ ChainTypeOK' /\ iprule' \in [Families -> SUBSET PairsFor(Bindings)]
      BY <2>0, <2>2, <3>1, <1>s, <1>uj, <1>uc, <1>i DEF kernel
    <3>3. faults' \in 0..MaxFaults
      BY <2>2, <1>t, FaultBound DEF CallTypeOK
    <3>4. CallTypeOK' /\ phase' \in IPPhases /\ at' \in Families
      BY <2>0, <2>2, <3>3, <1>t DEF CallTypeOK
    <3> QED
      BY <3>2, <3>4, <1>g
  <2> QED
    <3> SUFFICES ASSUME ~NextFamily PROVE TypeInv'
      BY <2>1
    <3>1. PICK p \in pairs :
             /\ pairs' = pairs \ {p}
             /\ \/ SetIPRules(iprule[at] \ {p}) /\ faults' = faults
                \/ SilentFaults /\ Fault /\ UNCHANGED kernel
             /\ UNCHANGED <<op, phase, at, active, want, todo, result>>
      BY <1>11, Zenon DEF DeleteIPRule
    <3> QED
      BY <3>1, <2>2
<1>12. CASE RefreshIPRule
  <2>0. phase \in IPPhases /\ at \in Families
    BY <1>12, <1>f DEF RefreshIPRule, IPPhases
  <2>1. CASE NextFamily
    BY <1>12, <2>1, <1>n DEF RefreshIPRule
  <2>2. ASSUME NEW p \in pairs, SetIPRules(iprule[at] \ {p}), phase' = "readd",
               UNCHANGED <<op, at, active, want, todo, pairs, faults, result>>
        PROVE  TypeInv'
    <3>1. iprule[at] \ {p} \in SUBSET PairsFor(Bindings)
      BY <2>0, <1>i
    <3>2. CallTypeOK' /\ phase' \in IPPhases /\ at' \in Families
      BY <2>0, <2>2, <1>t DEF CallTypeOK, Phases, IPPhases
    <3> QED
      BY <2>0, <2>2, <3>1, <3>2, <1>g, <1>s
  <2> QED
    BY <1>12, <2>1, <2>2, Zenon DEF RefreshIPRule
<1>13. CASE ReaddIPRule
  <2>0. phase \in IPPhases /\ at \in Families
    BY <1>13, <1>f DEF ReaddIPRule, IPPhases
  <2>1. ASSUME NEW p \in pairs, SetIPRules(iprule[at] \cup {p}), pairs' = pairs \ {p},
               phase' = "refresh", UNCHANGED <<op, at, active, want, todo, faults, result>>
        PROVE  TypeInv'
    <3>1. iprule[at] \cup {p} \in SUBSET PairsFor(Bindings)
      BY <2>0, <1>i, <1>t DEF CallTypeOK
    <3>2. CallTypeOK' /\ phase' \in IPPhases /\ at' \in Families
      BY <2>0, <2>1, <1>t DEF CallTypeOK, Phases, IPPhases
    <3> QED
      BY <2>0, <2>1, <3>1, <3>2, <1>g, <1>s
  <2> QED
    BY <1>13, <2>1, <1>b DEF ReaddIPRule
<1>14. CASE CleanupRoot
  <2>0. at \in Roots
    BY <1>t DEF CallTypeOK
  <2>1. JumpsTypeOK'
    <3>1. PICK unlinks \in BOOLEAN, empties \in BOOLEAN :
             /\ linked' = [linked EXCEPT ![at] = @ /\ ~unlinks]
             /\ jumps' = [jumps EXCEPT ![at] = IF empties THEN {} ELSE @]
             /\ front' = [front EXCEPT ![at] = IF empties THEN "" ELSE @]
      BY <1>14 DEF CleanupRoot
    <3>2. linked' \in [Roots -> BOOLEAN]
      BY <3>1, <2>0, <1>j DEF JumpsTypeOK
    <3>3. jumps' \in [Roots -> SUBSET (Generations \cup {"L"})]
      BY <3>1, <2>0, <1>j DEF JumpsTypeOK
    <3>4. front' \in [Roots -> Generations \cup {""}]
      BY <3>1, <2>0, <1>j DEF JumpsTypeOK
    <3>5. ASSUME NEW r \in Roots
          PROVE  /\ front'[r] = "" => jumps'[r] \subseteq {"L"}
                 /\ front'[r] # "" => front'[r] \in jumps'[r]
      BY <3>1, <2>0, <1>j DEF JumpsTypeOK
    <3> QED
      BY <3>2, <3>3, <3>4, <3>5 DEF JumpsTypeOK
  <2>2. faults' \in 0..MaxFaults
    BY <1>14, <1>t, FaultBound DEF CleanupRoot, CallTypeOK
  <2>3. at' \in Roots /\ phase' \in {"unroot", "ungen"}
    BY <1>14, <2>0, NextInRoots, RootFacts DEF CleanupRoot
  <2>4. CallTypeOK' /\ phase' \in RootPhases
    BY <1>14, <2>2, <2>3, <1>t DEF CleanupRoot, CallTypeOK, Phases, RootPhases
  <2> QED
    BY <1>14, <2>1, <2>4, <1>q, <1>uc, <1>i DEF CleanupRoot
<1>15. CASE CleanupGenerations
  <2>0. at \in Roots
    BY <1>t DEF CallTypeOK
  <2>1. ChainTypeOK'
    <3>1. PICK kept \in SUBSET Generations :
             chain' = [chain EXCEPT ![at] = [g \in Generations |->
                                               IF g \in kept THEN chain[at][g] ELSE {}]]
      BY <1>15, Zenon DEF CleanupGenerations
    <3>2. [g \in Generations |-> IF g \in kept THEN chain[at][g] ELSE {}]
             \in [Generations -> SUBSET RulesFor(at, Bindings)]
      BY <2>0, <1>c DEF ChainTypeOK
    <3> QED
      BY <3>1, <3>2, <2>0, <1>c, Zenon DEF ChainTypeOK
  <2>2. faults' \in 0..MaxFaults
    BY <1>15, <1>t, FaultBound DEF CleanupGenerations, CallTypeOK
  <2>3. JumpsTypeOK' /\ iprule' \in [Families -> SUBSET PairsFor(Bindings)]
    BY <1>15, <1>uj, <1>i DEF CleanupGenerations
  <2>4. CASE at < 6
    <3>1. CallTypeOK' /\ phase' \in RootPhases
      BY <1>15, <2>0, <2>2, <2>4, <1>t, NextInRoots
         DEF CleanupGenerations, CallTypeOK, Phases, RootPhases
    <3> QED
      BY <2>1, <2>3, <3>1, <1>q
  <2>5. CASE ~(at < 6)
    <3>1. CallTypeOK' /\ phase' \in IPPhases /\ at' \in Families
      BY <1>15, <2>2, <2>5, <1>t, RootFacts DEF CleanupGenerations, CallTypeOK, Phases, IPPhases
    <3> QED
      BY <2>1, <2>3, <3>1, <1>g
  <2> QED
    BY <2>4, <2>5
<1>16. CASE Crash
  <2>1. faults' \in 0..MaxFaults /\ op' \in {"none", "apply", "flush", "boot"}
    BY <1>16, <1>t, FaultBound DEF Crash, CallTypeOK
  <2>2. CallTypeOK' /\ phase' \in RootPhases
    BY <1>16, <2>1, <1>t, GiveUpType DEF Crash, RootPhases
  <2> QED
    BY <1>16, <2>2, <1>q, <1>uj, <1>uc, <1>i DEF Crash, kernel
<1>17. CASE Reboot
  <2>1. faults' \in 0..MaxFaults /\ op' \in {"none", "apply", "flush", "boot"}
    BY <1>17, <1>t, FaultBound DEF Reboot, CallTypeOK
  <2>2. CallTypeOK' /\ phase' \in RootPhases
    BY <1>17, <2>1, <1>t, GiveUpType DEF Reboot, RootPhases
  <2>3. JumpsTypeOK'
    BY <1>17 DEF Reboot, JumpsTypeOK
  <2>4. ChainTypeOK'
    BY <1>17 DEF Reboot, ChainTypeOK
  <2> QED
    BY <1>17, <2>2, <2>3, <2>4, <1>q DEF Reboot
<1>18. CASE UNCHANGED ruleVars
  BY <1>18 DEF ruleVars, kernel, control, TypeInv, RuleTypeOK, JumpsTypeOK, ChainTypeOK,
               CallTypeOK, Working
<1> QED
  BY <1>1, <1>2, <1>3, <1>4, <1>5, <1>6, <1>7, <1>8, <1>9, <1>10, <1>11, <1>12, <1>13,
     <1>14, <1>15, <1>16, <1>17, <1>18 DEF RuleNext, RuleStep, ListedStep

\* The kernel objects RuleManager handles and the call in progress keep their
\* type in every behaviour, for any bindings and any number of faults.
THEOREM RuleTypeCorrect == RuleSpec => []RuleTypeOK
<1>1. RuleInit => TypeInv
  BY TypeInit
<1>2. TypeInv /\ [RuleNext]_ruleVars => TypeInv'
  BY TypeStep
<1>3. TypeInv => RuleTypeOK
  BY DEF TypeInv
<1> QED
  BY <1>1, <1>2, <1>3, PTL DEF RuleSpec

-----------------------------------------------------------------------------
\* The commands whose failure the code cannot see do not fail.
Reliable == ~ListFaults /\ ~SilentFaults

LEMMA WorkingFacts ==
    /\ Working \in Generations
    /\ Working # "" /\ Working # "L"
    /\ Other(Working) # Working /\ Other(Working) \in Generations
    /\ Generations \ {Other(Working)} = {Working}
BY DEF Working, Other, Generations

\* Arithmetic of the root loops.
LEMMA Below ==
    ASSUME NEW a \in Roots, NEW r \in Roots
    PROVE  /\ r < a + 1 => r < a \/ r = a
           /\ ~(a < 6) => r < a \/ r = a
           /\ ~(r < 1)
BY DEF Roots

LEMMA CutoverInit == RuleInit => CutoverInv
<1> SUFFICES ASSUME RuleInit PROVE CutoverInv
  OBVIOUS
<1>1. phase = "idle" /\ result = "none"
  BY DEF RuleInit
<1>2. LayoutInv
  BY DEF RuleInit, LayoutInv, NoLegacy
<1> QED
  BY <1>1, <1>2 DEF CutoverInv, StepInv, JumpInv, BuildInv, FlushInv, ReconcileInv,
     AppliedMeansInForce, FlushedMeansGone, BuiltBeforeSwitched, ApplyPhases, FlushPhases,
     ReconcilePhases

\* A call that ended without a nil result leaves nothing to show but the layout.
LEMMA Ended == ASSUME phase' = "idle", result' # "ok", LayoutInv' PROVE CutoverInv'
BY Zenon DEF CutoverInv, StepInv, JumpInv, BuildInv, FlushInv, ReconcileInv,
     AppliedMeansInForce, FlushedMeansGone, BuiltBeforeSwitched, ApplyPhases, FlushPhases,
     ReconcilePhases

\* A call under way has promised nothing yet.
LEMMA UnderWay ==
    ASSUME phase' # "idle", StepInv', JumpInv', BuildInv', FlushInv', ReconcileInv'
    PROVE  CutoverInv'
BY DEF CutoverInv, StepInv, AppliedMeansInForce, FlushedMeansGone

LEMMA AbortEnds == ASSUME Abort PROVE phase' = "idle" /\ result' # "ok"
BY DEF Abort, GiveUp, Return

LEMMA LayoutKept ==
    ASSUME LayoutInv, UNCHANGED <<linked, jumps, front>>
    PROVE  LayoutInv'
BY DEF LayoutInv, NoLegacy

LEMMA StartApplyKeeps ==
    ASSUME TypeInv, CutoverInv, Reliable, NEW P \in SUBSET Bindings, StartApply(P)
    PROVE  CutoverInv'
<1>1. phase' = "prepare" /\ op' = "apply" /\ at' = 1 /\ result' = "none" /\ UNCHANGED kernel
  BY DEF StartApply
<1>2. active' = IF front[1] # "" THEN front[1] ELSE front[4]
  BY DEF StartApply, Reliable, DetectActiveVariant, MarkRoots
<1>3. front[1] \in Generations \cup {""} /\ front[4] \in Generations \cup {""}
  BY RootFacts DEF TypeInv, RuleTypeOK, JumpsTypeOK
<1>4. LayoutInv'
  BY <1>1, LayoutKept DEF CutoverInv, JumpInv, kernel
<1>5. front'[1] # Working'
  BY <1>1, <1>2, <1>3 DEF Working, Other, Generations, kernel
<1>6. active' # "" => NoLegacy'
  BY <1>1, <1>2, <1>4, RootFacts DEF LayoutInv, kernel
<1>7. JumpInv'
  BY <1>1, <1>2, <1>4, <1>5, <1>6 DEF JumpInv, kernel
<1>8. BuildInv'
  BY <1>1, Below, RootFacts DEF StartApply, BuildInv, BuiltBeforeSwitched, ReconcilePhases
<1> QED
  BY <1>1, <1>7, <1>8, UnderWay DEF StepInv, FlushInv, ReconcileInv, ApplyPhases, FlushPhases,
     ReconcilePhases

LEMMA StartFlushKeeps ==
    ASSUME TypeInv, CutoverInv, StartFlush
    PROVE  CutoverInv'
<1>1. /\ phase' = "unroot" /\ op' = "flush" /\ at' = 1 /\ result' = "none" /\ want' = {}
      /\ UNCHANGED kernel
  BY DEF StartFlush
<1>2. LayoutInv'
  BY <1>1, LayoutKept DEF CutoverInv, JumpInv, kernel
<1>3. FlushInv'
  BY <1>1, Below, RootFacts DEF FlushInv, ReconcilePhases
<1> QED
  BY <1>1, <1>2, <1>3, UnderWay DEF StepInv, JumpInv, BuildInv, BuiltBeforeSwitched, ReconcileInv,
     ApplyPhases, FlushPhases, ReconcilePhases

LEMMA PrepareKeeps ==
    ASSUME TypeInv, CutoverInv, PrepareGenerationChain
    PROVE  CutoverInv'
<1>0. /\ at \in Roots /\ linked \in [Roots -> BOOLEAN] /\ ChainTypeOK
      /\ op = "apply" /\ result = "none" /\ todo = want
  BY DEF TypeInv, RuleTypeOK, JumpsTypeOK, CallTypeOK, CutoverInv, StepInv, ApplyPhases, BuildInv,
         PrepareGenerationChain
<1>1. LayoutInv'
  <2>1. LayoutInv /\ UNCHANGED <<jumps, front>>
    BY DEF CutoverInv, JumpInv, PrepareGenerationChain
  <2>2. \A r \in Roots : linked[r] => linked'[r]
    BY <1>0 DEF PrepareGenerationChain
  <2> QED
    BY <2>1, <2>2 DEF LayoutInv, NoLegacy
<1>2. CASE Abort
  BY <1>1, <1>2, AbortEnds, Ended
<1>3. CASE /\ linked' = [linked EXCEPT ![at] = TRUE]
           /\ chain' = [chain EXCEPT ![at][Working] = {}]
           /\ NextRoot(IF active = "" THEN "migrate" ELSE "build")
  <2>1. UNCHANGED <<op, active, want, todo, result, jumps, front>> /\ UNCHANGED Working
    BY <1>3 DEF NextRoot, PrepareGenerationChain, Working
  <2>2. \A r \in Roots : r < at => linked[r] /\ chain[r][Working] = {}
    BY DEF CutoverInv, BuildInv, PrepareGenerationChain
  <2>3. \A r \in Roots : r < at \/ r = at => linked'[r] /\ chain'[r][Working] = {}
    BY <1>0, <1>3, <2>2, WorkingFacts DEF ChainTypeOK
  <2>4. /\ front'[1] # Working' /\ (active' # "" => NoLegacy')
        /\ active' = "" => front'[1] = ""
    BY <2>1 DEF CutoverInv, JumpInv, NoLegacy, PrepareGenerationChain
  <2>5. CASE at < 6
    <3>1. at' = at + 1 /\ phase' = "prepare"
      BY <1>3, <2>5 DEF NextRoot, PrepareGenerationChain
    <3>2. JumpInv'
      BY <1>1, <2>4, <3>1 DEF JumpInv
    <3>3. BuildInv'
      BY <1>0, <2>1, <2>3, <3>1, Below, Zenon DEF BuildInv, BuiltBeforeSwitched, ReconcilePhases
    <3> QED
      BY <1>0, <2>1, <3>1, <3>2, <3>3, UnderWay DEF StepInv, FlushInv, ReconcileInv, ApplyPhases,
         FlushPhases, ReconcilePhases
  <2>6. CASE ~(at < 6)
    <3>1. at' = 1 /\ phase' = IF active = "" THEN "migrate" ELSE "build"
      BY <1>3, <2>6 DEF NextRoot, PrepareGenerationChain
    <3>2. JumpInv'
      BY <1>1, <2>1, <2>4, <3>1 DEF JumpInv
    <3>3. \A r \in Roots : linked'[r] /\ chain'[r][Working'] = {}
      BY <1>0, <2>1, <2>3, <2>6, Below
    <3>4. BuildInv'
      <4>1. CASE active = ""
        BY <1>0, <2>1, <3>1, <3>3, <4>1, Below, RootFacts DEF BuildInv, BuiltBeforeSwitched, ReconcilePhases
      <4>2. CASE active # ""
        <5>1. \A r \in Roots : RulesFor(r, want' \ todo') = {}
          BY <1>0, <2>1 DEF RulesFor
        <5> QED
          BY <3>1, <3>3, <4>2, <5>1 DEF BuildInv, BuiltBeforeSwitched, ReconcilePhases
      <4> QED
        BY <4>1, <4>2
    <3> QED
      BY <1>0, <2>1, <3>1, <3>2, <3>4, UnderWay DEF StepInv, FlushInv, ReconcileInv, ApplyPhases,
         FlushPhases, ReconcilePhases
  <2> QED
    BY <2>5, <2>6
<1> QED
  BY <1>2, <1>3 DEF PrepareGenerationChain

LEMMA MigrateKeeps ==
    ASSUME TypeInv, CutoverInv, FlushLegacyRoot
    PROVE  CutoverInv'
<1>0. /\ at \in Roots /\ op = "apply" /\ result = "none" /\ active = "" /\ todo = want
      /\ jumps \in [Roots -> SUBSET (Generations \cup {"L"})]
      /\ front \in [Roots -> Generations \cup {""}]
      /\ LayoutInv /\ front[1] = ""
  BY DEF TypeInv, RuleTypeOK, JumpsTypeOK, CallTypeOK, CutoverInv, StepInv, ApplyPhases, JumpInv,
         BuildInv, FlushLegacyRoot
<1>1. LayoutInv'
  <2>1. \A r \in Roots : /\ linked'[r] = linked[r]
                         /\ jumps'[r] \in {jumps[r], {}}
                         /\ front'[r] \in {front[r], ""}
    BY <1>0 DEF FlushLegacyRoot
  <2> QED
    BY <1>0, <2>1 DEF LayoutInv, NoLegacy
<1>2. CASE Abort
  BY <1>1, <1>2, AbortEnds, Ended
<1>3. CASE /\ jumps' = [jumps EXCEPT ![at] = {}]
           /\ front' = [front EXCEPT ![at] = ""]
           /\ NextRoot("build")
  <2>1. UNCHANGED <<op, active, want, todo, result, linked, chain>> /\ UNCHANGED Working
    BY <1>3 DEF NextRoot, FlushLegacyRoot, Working
  <2>2. \A r \in Roots : linked[r] /\ chain[r][Working] = {} /\ (r < at => jumps[r] = {})
    BY DEF CutoverInv, BuildInv, FlushLegacyRoot
  <2>3. \A r \in Roots : r < at \/ r = at => jumps'[r] = {}
    BY <1>0, <1>3, <2>2
  <2>4. front'[1] = "" /\ front'[1] # Working'
    BY <1>0, <1>3, <2>1, WorkingFacts, RootFacts
  <2>5. CASE at < 6
    <3>1. at' = at + 1 /\ phase' = "migrate"
      BY <1>3, <2>5 DEF NextRoot, FlushLegacyRoot
    <3>2. JumpInv'
      BY <1>0, <1>1, <2>1, <2>4, <3>1 DEF JumpInv
    <3>3. BuildInv'
      BY <1>0, <2>1, <2>2, <2>3, <3>1, Below DEF BuildInv, BuiltBeforeSwitched, ReconcilePhases
    <3> QED
      BY <1>0, <2>1, <3>1, <3>2, <3>3, UnderWay DEF StepInv, FlushInv, ReconcileInv, ApplyPhases,
         FlushPhases, ReconcilePhases
  <2>6. CASE ~(at < 6)
    <3>1. at' = 1 /\ phase' = "build"
      BY <1>3, <2>6 DEF NextRoot
    <3>2. \A r \in Roots : jumps'[r] = {}
      BY <1>0, <2>3, <2>6, Below
    <3>3. JumpInv'
      BY <1>1, <2>4, <3>1, <3>2 DEF JumpInv, NoLegacy
    <3>4. \A r \in Roots : RulesFor(r, want' \ todo') = {}
      BY <1>0, <2>1 DEF RulesFor
    <3>5. BuildInv'
      BY <2>1, <2>2, <3>1, <3>4, SMTT(30) DEF BuildInv, BuiltBeforeSwitched, ReconcilePhases
    <3> QED
      BY <1>0, <2>1, <3>1, <3>3, <3>5, UnderWay DEF StepInv, FlushInv, ReconcileInv, ApplyPhases,
         FlushPhases, ReconcilePhases
  <2> QED
    BY <2>5, <2>6
<1> QED
  BY <1>2, <1>3 DEF FlushLegacyRoot

\* One more binding's rules.
LEMMA RulesForOneMore ==
    ASSUME NEW r, NEW P, NEW b
    PROVE  RulesFor(r, P \cup {b}) = RulesFor(r, P) \cup RulesOf(r, b)
BY DEF RulesFor

LEMMA BuildBindingKeeps ==
    ASSUME TypeInv, CutoverInv, BuildBinding
    PROVE  CutoverInv'
<1>0. /\ op = "apply" /\ result = "none" /\ ChainTypeOK /\ LayoutInv /\ todo \subseteq want
      /\ phase = "build" /\ NoLegacy /\ front[1] # Working /\ at = 1
  BY DEF TypeInv, RuleTypeOK, CallTypeOK, CutoverInv, StepInv, ApplyPhases, JumpInv, BuildInv,
         BuildBinding
<1>1. LayoutInv'
  BY <1>0, LayoutKept DEF BuildBinding
<1>2. PICK b \in Bindings :
         /\ Due(b)
         /\ \/ /\ AddRules(b, 4)
               /\ todo' = todo \ {b}
               /\ UNCHANGED <<op, phase, at, active, want, pairs, faults, result>>
            \/ Abort
            \/ GiveUp("error")
  BY DEF BuildBinding
<1>3. CASE Abort \/ GiveUp("error")
  BY <1>1, <1>3, AbortEnds, Ended DEF GiveUp, Return
<1>4. CASE /\ AddRules(b, 4)
           /\ todo' = todo \ {b}
           /\ UNCHANGED <<op, phase, at, active, want, pairs, faults, result>>
  <2>1. UNCHANGED Working /\ UNCHANGED <<linked, jumps, front>>
    BY <1>4 DEF Working, BuildBinding
  <2>2. \A r \in Roots : (\E i \in 1..4 : BuildOrder[i] = r) <=> r \notin MSSRoots
    BY DEF BuildOrder, Roots, MSSRoots
  <2>3. \A r \in Roots : chain'[r][Working] =
            IF r \in MSSRoots THEN chain[r][Working] ELSE chain[r][Working] \cup RulesOf(r, b)
    BY <1>0, <1>4, <2>2, WorkingFacts DEF AddRules, ChainTypeOK
  <2>4. \A r \in Roots : /\ linked[r]
                         /\ chain[r][Working] =
                               IF r \in MSSRoots THEN {} ELSE RulesFor(r, want \ todo)
    BY <1>0, Zenon DEF CutoverInv, BuildInv
  <2>5. \A r \in Roots : RulesFor(r, want \ (todo \ {b})) = RulesFor(r, want \ todo) \cup RulesOf(r, b)
    <3>1. want \ (todo \ {b}) = (want \ todo) \cup {b}
      BY <1>0, <1>2 DEF Due
    <3> QED
      BY <3>1, RulesForOneMore
  <2>6. \A r \in Roots : /\ linked'[r]
                         /\ chain'[r][Working'] =
                               IF r \in MSSRoots THEN {} ELSE RulesFor(r, want' \ todo')
    BY <1>4, <2>1, <2>3, <2>4, <2>5, Zenon
  <2>7. BuildInv'
    BY <1>0, <1>4, <2>6, Zenon DEF BuildInv, BuiltBeforeSwitched, ReconcilePhases
  <2>8. JumpInv'
    BY <1>0, <1>1, <1>4, <2>1 DEF JumpInv, NoLegacy
  <2> QED
    BY <1>0, <1>4, <2>7, <2>8, UnderWay DEF StepInv, FlushInv, ReconcileInv, ApplyPhases,
         FlushPhases, ReconcilePhases
<1> QED
  BY <1>2, <1>3, <1>4
LEMMA BuildMSSKeeps ==
    ASSUME TypeInv, CutoverInv, BuildMSS
    PROVE  CutoverInv'
<1>0. /\ op = "apply" /\ result = "none" /\ ChainTypeOK /\ LayoutInv /\ todo = {}
      /\ phase = "build" /\ NoLegacy /\ front[1] # Working /\ at = 1
      /\ UNCHANGED <<linked, jumps, front>>
  BY DEF TypeInv, RuleTypeOK, CallTypeOK, CutoverInv, StepInv, ApplyPhases, JumpInv, BuildInv,
         BuildMSS
<1>1. LayoutInv'
  BY <1>0, LayoutKept
<1>2. CASE Abort
  BY <1>1, <1>2, AbortEnds, Ended
<1>3. CASE /\ AddMSSRules(want, want)
           /\ phase' = "insert"
           /\ UNCHANGED <<op, at, active, want, todo, pairs, faults, result>>
  <2>1. UNCHANGED Working
    BY <1>3 DEF Working
  <2>2. \A r \in Roots : chain'[r][Working] =
            IF r \in MSSRoots THEN RulesFor(r, want) ELSE chain[r][Working]
    BY <1>0, <1>3, WorkingFacts DEF AddMSSRules, ChainTypeOK
  <2>3. \A r \in Roots : /\ linked[r]
                         /\ r \notin MSSRoots => chain[r][Working] = RulesFor(r, want \ todo)
    BY <1>0 DEF CutoverInv, BuildInv
  <2>4. want \ todo = want
    BY <1>0, Zenon
  <2>5. \A r \in Roots : linked'[r] /\ chain'[r][Working'] = RulesFor(r, want')
    BY <1>0, <1>3, <2>1, <2>2, <2>3, <2>4, Zenon
  <2>6. BuildInv'
    BY <1>0, <1>3, <2>5, Below, RootFacts, Zenon DEF BuildInv, BuiltBeforeSwitched, ReconcilePhases
  <2>7. JumpInv'
    BY <1>0, <1>1, <1>3, <2>1 DEF JumpInv, NoLegacy
  <2> QED
    BY <1>0, <1>3, <2>6, <2>7, UnderWay DEF StepInv, FlushInv, ReconcileInv, ApplyPhases,
         FlushPhases, ReconcilePhases
<1> QED
  BY <1>2, <1>3 DEF BuildMSS

LEMMA InsertKeeps ==
    ASSUME TypeInv, CutoverInv, InsertJump
    PROVE  CutoverInv'
<1>0. /\ op = "apply" /\ result = "none" /\ LayoutInv /\ NoLegacy /\ at \in Roots
      /\ jumps \in [Roots -> SUBSET (Generations \cup {"L"})]
      /\ front \in [Roots -> Generations \cup {""}]
      /\ UNCHANGED <<linked, chain>>
      /\ \A r \in Roots : /\ linked[r] /\ chain[r][Working] = RulesFor(r, want)
                          /\ r < at => jumps[r] = {Working}
  BY DEF TypeInv, RuleTypeOK, JumpsTypeOK, CallTypeOK, CutoverInv, StepInv, ApplyPhases, JumpInv,
         BuildInv, BuiltBeforeSwitched, InsertJump
<1>1. NoLegacy'
  <2>1. \A r \in Roots : jumps'[r] \in {jumps[r], jumps[r] \cup {Working}}
    BY <1>0 DEF InsertJump
  <2> QED
    BY <1>0, <2>1, WorkingFacts DEF NoLegacy
<1>2. LayoutInv'
  BY <1>0, <1>1 DEF LayoutInv
<1>3. CASE Abort
  BY <1>2, <1>3, AbortEnds, Ended
<1>4. CASE /\ jumps' = [jumps EXCEPT ![at] = @ \cup {Working}]
           /\ phase' = "remove"
           /\ UNCHANGED <<op, at, active, want, todo, pairs, faults, result>>
  <2>1. UNCHANGED Working
    BY <1>4 DEF Working
  <2>2. \A r \in Roots : r < at => jumps'[r] = {Working}
    BY <1>0, <1>4 DEF Roots
  <2>3. BuildInv'
    BY <1>0, <1>4, <2>1, <2>2 DEF BuildInv, BuiltBeforeSwitched, ReconcilePhases
  <2>4. JumpInv'
    BY <1>1, <1>2, <1>4 DEF JumpInv
  <2> QED
    BY <1>0, <1>4, <2>3, <2>4, UnderWay DEF StepInv, FlushInv, ReconcileInv, ApplyPhases,
         FlushPhases, ReconcilePhases
<1> QED
  BY <1>3, <1>4, Zenon DEF InsertJump

LEMMA RemoveKeeps ==
    ASSUME TypeInv, CutoverInv, Reliable, RemoveStaleJump
    PROVE  CutoverInv'
<1>0. /\ op = "apply" /\ result = "none" /\ LayoutInv /\ NoLegacy /\ at \in Roots
      /\ jumps \in [Roots -> SUBSET (Generations \cup {"L"})]
      /\ Working \in jumps[at]
      /\ UNCHANGED <<linked, chain, iprule, op, active, want, todo, pairs, result>>
      /\ jumps' = [jumps EXCEPT ![at] = @ \ {Other(Working)}]
  BY DEF TypeInv, RuleTypeOK, JumpsTypeOK, CallTypeOK, CutoverInv, StepInv, ApplyPhases, JumpInv,
         RemoveStaleJump, Reliable
<1>1. \A r \in Roots : /\ linked[r] /\ chain[r][Working] = RulesFor(r, want)
                       /\ r < at => jumps[r] = {Working}
  BY <1>0 DEF CutoverInv, BuildInv, BuiltBeforeSwitched, RemoveStaleJump
<1>2. UNCHANGED Working
  BY <1>0 DEF Working
<1>3. NoLegacy'
  BY <1>0, Zenon DEF NoLegacy
<1>4. LayoutInv'
  BY <1>0, <1>1, <1>3 DEF LayoutInv
<1>5. jumps'[at] = {Working}
  <2>1. jumps'[at] = jumps[at] \ {Other(Working)}
    BY <1>0
  <2>2. jumps[at] \subseteq Generations
    BY <1>0, Zenon DEF NoLegacy
  <2> QED
    BY <1>0, <2>1, <2>2, WorkingFacts
<1>6. \A r \in Roots : r < at \/ r = at => jumps'[r] = {Working}
  BY <1>0, <1>1, <1>5, Zenon
<1>7. CASE at < 6
  <2>1. at' = at + 1 /\ phase' = "insert"
    BY <1>7, Zenon DEF RemoveStaleJump
  <2>2. BuildInv'
    BY <1>0, <1>1, <1>2, <1>6, <2>1, Below DEF BuildInv, BuiltBeforeSwitched, ReconcilePhases
  <2>3. at' # 1
    BY <1>0, <2>1 DEF Roots
  <2>4. JumpInv'
    BY <1>3, <1>4, <2>1, <2>3, Zenon DEF JumpInv
  <2> QED
    BY <1>0, <2>1, <2>2, <2>4, UnderWay DEF StepInv, FlushInv, ReconcileInv, ApplyPhases,
         FlushPhases, ReconcilePhases
<1>8. CASE ~(at < 6)
  <2>1. at' = 4 /\ phase' = "ipload"
    BY <1>8 DEF RemoveStaleJump
  <2>2. \A r \in Roots : jumps'[r] = {Working}
    BY <1>0, <1>6, <1>8, Below, Zenon
  <2>3. BuildInv'
    BY <1>0, <1>1, <1>2, <2>1, <2>2 DEF BuildInv, BuiltBeforeSwitched, ReconcilePhases
  <2>4. JumpInv'
    BY <1>3, <1>4, <2>1 DEF JumpInv
  <2>5. ReconcileInv'
    BY <2>1 DEF ReconcileInv
  <2> QED
    BY <1>0, <2>1, <2>3, <2>4, <2>5, UnderWay DEF StepInv, FlushInv, ApplyPhases,
         FlushPhases, ReconcilePhases
<1> QED
  BY <1>7, <1>8, Zenon

LEMMA CleanupRootKeeps ==
    ASSUME TypeInv, CutoverInv, Reliable, CleanupRoot
    PROVE  CutoverInv'
<1>0. /\ op = "flush" /\ result = "none" /\ want = {} /\ LayoutInv /\ at \in Roots
      /\ linked \in [Roots -> BOOLEAN]
      /\ jumps \in [Roots -> SUBSET (Generations \cup {"L"})]
      /\ front \in [Roots -> Generations \cup {""}]
      /\ UNCHANGED <<op, want, result>>
      /\ linked' = [linked EXCEPT ![at] = FALSE]
      /\ jumps' = [jumps EXCEPT ![at] = {}]
      /\ front' = [front EXCEPT ![at] = ""]
  <2>1. PICK unlinks \in BOOLEAN, empties \in BOOLEAN :
           /\ linked' = [linked EXCEPT ![at] = @ /\ ~unlinks]
           /\ jumps' = [jumps EXCEPT ![at] = IF empties THEN {} ELSE @]
           /\ front' = [front EXCEPT ![at] = IF empties THEN "" ELSE @]
           /\ unlinks /\ empties
    BY DEF CleanupRoot, Reliable
  <2>2. /\ op = "flush" /\ result = "none" /\ want = {} /\ LayoutInv /\ at \in Roots
        /\ linked \in [Roots -> BOOLEAN]
        /\ jumps \in [Roots -> SUBSET (Generations \cup {"L"})]
        /\ front \in [Roots -> Generations \cup {""}]
        /\ UNCHANGED <<op, want, result>>
    BY DEF TypeInv, RuleTypeOK, JumpsTypeOK, CallTypeOK, CutoverInv, StepInv, FlushPhases, JumpInv,
           CleanupRoot
  <2>3. linked' = [linked EXCEPT ![at] = FALSE]
    BY <2>1, <2>2
  <2> QED
    BY <2>1, <2>2, <2>3
<1>1. LayoutInv'
  BY <1>0 DEF LayoutInv, NoLegacy
<1>2. \A r \in Roots : r < at => ~linked[r] /\ jumps[r] = {}
  BY DEF CutoverInv, FlushInv, CleanupRoot
<1>3. \A r \in Roots : r < at \/ r = at => ~linked'[r] /\ jumps'[r] = {}
  BY <1>0, <1>2
<1>4. CASE at < 6
  <2>1. at' = at + 1 /\ phase' = "unroot"
    BY <1>4 DEF CleanupRoot
  <2>2. FlushInv'
    BY <1>0, <1>3, <2>1, Below DEF FlushInv, ReconcilePhases
  <2> QED
    BY <1>0, <1>1, <2>1, <2>2, UnderWay DEF StepInv, JumpInv, BuildInv, BuiltBeforeSwitched,
         ReconcileInv, ApplyPhases, FlushPhases, ReconcilePhases
<1>5. CASE ~(at < 6)
  <2>1. at' = 1 /\ phase' = "ungen"
    BY <1>5 DEF CleanupRoot
  <2>2. FlushInv'
    BY <1>0, <1>3, <1>5, <2>1, Below, RootFacts DEF FlushInv, ReconcilePhases
  <2> QED
    BY <1>0, <1>1, <2>1, <2>2, UnderWay DEF StepInv, JumpInv, BuildInv, BuiltBeforeSwitched,
         ReconcileInv, ApplyPhases, FlushPhases, ReconcilePhases
<1> QED
  BY <1>4, <1>5

LEMMA CleanupGenerationsKeeps ==
    ASSUME TypeInv, CutoverInv, Reliable, CleanupGenerations
    PROVE  CutoverInv'
<1>0. /\ op = "flush" /\ result = "none" /\ want = {} /\ LayoutInv /\ at \in Roots
      /\ UNCHANGED <<linked, jumps, front, op, want, result>>
      /\ \A r \in Roots : ~linked[r] /\ jumps[r] = {}
  BY DEF TypeInv, RuleTypeOK, CallTypeOK, CutoverInv, StepInv, FlushPhases, JumpInv, FlushInv,
         CleanupGenerations
<1>1. LayoutInv'
  BY <1>0, LayoutKept
<1>2. chain' = [chain EXCEPT ![at] = [g \in Generations |-> {}]]
  <2>1. PICK kept \in SUBSET Generations :
          /\ chain' = [chain EXCEPT ![at] = [g \in Generations |->
                                               IF g \in kept THEN chain[at][g] ELSE {}]]
          /\ kept = {}
    BY Zenon DEF CleanupGenerations, Reliable
  <2> QED
    BY <2>1
<1>3. \A r \in Roots : r < at => \A g \in Generations : chain[r][g] = {}
  BY DEF CutoverInv, FlushInv, CleanupGenerations
<1>4. \A r \in Roots : r < at \/ r = at => \A g \in Generations : chain'[r][g] = {}
  BY <1>0, <1>2, <1>3, Zenon DEF TypeInv, RuleTypeOK, ChainTypeOK
<1>5. CASE at < 6
  <2>1. at' = at + 1 /\ phase' = "ungen"
    BY <1>5, Zenon DEF CleanupGenerations
  <2>2. FlushInv'
    BY <1>0, <1>4, <2>1, Below, Zenon DEF FlushInv, ReconcilePhases
  <2> QED
    BY <1>0, <1>1, <2>1, <2>2, UnderWay, Zenon DEF StepInv, JumpInv, BuildInv, BuiltBeforeSwitched,
         ReconcileInv, ApplyPhases, FlushPhases, ReconcilePhases
<1>6. CASE ~(at < 6)
  <2>1. at' = 4 /\ phase' = "ipload"
    BY <1>6, Zenon DEF CleanupGenerations
  <2>2. FlushInv'
    BY <1>0, <1>4, <1>6, <2>1, Below DEF FlushInv, ReconcilePhases
  <2>3. ReconcileInv'
    BY <2>1 DEF ReconcileInv
  <2> QED
    BY <1>0, <1>1, <2>1, <2>2, <2>3, UnderWay, Zenon DEF StepInv, JumpInv, BuildInv, BuiltBeforeSwitched,
         ApplyPhases, FlushPhases, ReconcilePhases
<1> QED
  BY <1>5, <1>6
\* The ip rule phases leave the chains alone.
LEMMA ReconcileFrame ==
    ASSUME CutoverInv, phase \in ReconcilePhases, phase' \in ReconcilePhases,
           UNCHANGED <<linked, jumps, front, chain, active, want, op, result>>
    PROVE  StepInv' /\ JumpInv' /\ BuildInv' /\ FlushInv' /\ phase' # "idle"
<1>1. LayoutInv'
  BY LayoutKept DEF CutoverInv, JumpInv
<1>2. JumpInv'
  BY <1>1 DEF JumpInv, ReconcilePhases
<1>3. StepInv' /\ phase' # "idle"
  BY DEF CutoverInv, StepInv, ReconcilePhases, ApplyPhases, FlushPhases
<1>4. UNCHANGED Working
  BY Zenon DEF Working
<1>5. BuildInv'
  BY <1>4, Zenon DEF CutoverInv, BuildInv, BuiltBeforeSwitched, ReconcilePhases
<1>6. FlushInv'
  BY DEF CutoverInv, FlushInv, ReconcilePhases
<1> QED
  BY <1>2, <1>3, <1>5, <1>6

LEMMA LoadKeeps ==
    ASSUME TypeInv, CutoverInv, Reliable, LoadManagedIPRules
    PROVE  CutoverInv'
<1>1. /\ phase = "ipload" /\ phase' = "ipadd" /\ pairs' = iprule[at] \ PairsFor(want)
      /\ UNCHANGED <<kernel, op, at, active, want, todo, result>>
  BY DEF LoadManagedIPRules, Reliable
<1>2. StepInv' /\ JumpInv' /\ BuildInv' /\ FlushInv' /\ phase' # "idle"
  BY <1>1, ReconcileFrame DEF kernel, ReconcilePhases
<1>3. ReconcileInv'
  BY <1>1 DEF CutoverInv, ReconcileInv, ReconcilePhases, kernel
<1> QED
  BY <1>2, <1>3, UnderWay

LEMMA AddIPRuleKeeps ==
    ASSUME TypeInv, CutoverInv, AddIPRule
    PROVE  CutoverInv'
<1>0. /\ phase = "ipadd" /\ at \in Families /\ iprule \in [Families -> SUBSET PairsFor(Bindings)]
      /\ pairs = iprule[at] \ PairsFor(want)
  BY DEF AddIPRule, TypeInv, RuleTypeOK, IPPhases, CutoverInv, ReconcileInv
<1>1. CASE /\ PairsFor(want) \ iprule[at] = {} /\ phase' = "ipdel"
           /\ UNCHANGED <<kernel, op, at, active, want, todo, pairs, faults, result>>
  <2>1. StepInv' /\ JumpInv' /\ BuildInv' /\ FlushInv' /\ phase' # "idle"
    BY <1>0, <1>1, ReconcileFrame DEF kernel, ReconcilePhases
  <2>2. ReconcileInv'
    BY <1>0, <1>1 DEF CutoverInv, ReconcileInv, ReconcilePhases, kernel
  <2> QED
    BY <2>1, <2>2, UnderWay
<1>2. ASSUME NEW p \in PairsFor(want) \ iprule[at], SetIPRules(iprule[at] \cup {p}),
             UNCHANGED <<control, faults, result>>
      PROVE  CutoverInv'
  <2>1. StepInv' /\ JumpInv' /\ BuildInv' /\ FlushInv' /\ phase' # "idle"
    BY <1>0, <1>2, ReconcileFrame DEF SetIPRules, control, ReconcilePhases
  <2>2. /\ phase' = "ipadd" /\ UNCHANGED <<at, want, pairs>>
        /\ iprule' = [iprule EXCEPT ![at] = @ \cup {p}]
    BY <1>0, <1>2 DEF SetIPRules, control
  <2>3. iprule'[at] = iprule[at] \cup {p} /\ (at = 6 => iprule'[4] = iprule[4])
    BY <1>0, <2>2, RootFacts
  <2>4. at = 6 => iprule[4] = PairsFor(want)
    BY <1>0 DEF CutoverInv, ReconcileInv, ReconcilePhases
  <2>5. ReconcileInv'
    BY <1>0, <1>2, <2>2, <2>3, <2>4, Zenon DEF ReconcileInv
  <2> QED
    BY <2>1, <2>5, UnderWay
<1>3. CASE Abort /\ UNCHANGED kernel
  BY <1>3, AbortEnds, LayoutKept, Ended DEF CutoverInv, JumpInv, kernel
<1> QED
  BY <1>1, <1>2, <1>3, Zenon DEF AddIPRule

LEMMA DeleteIPRuleKeeps ==
    ASSUME TypeInv, CutoverInv, Reliable, DeleteIPRule
    PROVE  CutoverInv'
<1>0. /\ phase = "ipdel" /\ at \in Families /\ iprule \in [Families -> SUBSET PairsFor(Bindings)]
      /\ pairs = iprule[at] \ PairsFor(want) /\ PairsFor(want) \subseteq iprule[at]
      /\ (at = 6 => iprule[4] = PairsFor(want))
      /\ op \in {"apply", "flush"} /\ result = "none"
  BY DEF DeleteIPRule, TypeInv, RuleTypeOK, IPPhases, CutoverInv, ReconcileInv, StepInv,
         ReconcilePhases
<1>1. ASSUME NEW p \in pairs, pairs' = pairs \ {p}, SetIPRules(iprule[at] \ {p}),
             UNCHANGED <<op, phase, at, active, want, todo, result>>
      PROVE  CutoverInv'
  <2>1. StepInv' /\ JumpInv' /\ BuildInv' /\ FlushInv' /\ phase' # "idle"
    BY <1>0, <1>1, ReconcileFrame DEF SetIPRules, ReconcilePhases
  <2>2. iprule' = [iprule EXCEPT ![at] = @ \ {p}]
    BY <1>1 DEF SetIPRules
  <2>3. iprule'[at] = iprule[at] \ {p} /\ (at = 6 => iprule'[4] = iprule[4])
    BY <1>0, <2>2, RootFacts, Zenon
  <2>4. ReconcileInv'
    BY <1>0, <1>1, <2>3 DEF ReconcileInv
  <2> QED
    BY <2>1, <2>4, UnderWay
<1>2. CASE pairs = {} /\ NextFamily
  <2>1. UNCHANGED <<linked, jumps, front, chain, iprule, op, active, want>>
    BY <1>2 DEF NextFamily, kernel
  <2>2. iprule[at] = PairsFor(want)
    BY <1>0, <1>2
  <2>3. CASE at = 4
    <3>1. at' = 6 /\ phase' = "ipload" /\ result' = result
      BY <1>2, <2>3 DEF NextFamily
    <3>2. StepInv' /\ JumpInv' /\ BuildInv' /\ FlushInv' /\ phase' # "idle"
      BY <1>0, <2>1, <3>1, ReconcileFrame DEF ReconcilePhases
    <3>3. ReconcileInv'
      BY <2>1, <2>2, <2>3, <3>1, Zenon DEF ReconcileInv
    <3> QED
      BY <3>2, <3>3, UnderWay
  <2>4. CASE at # 4
    <3>1. phase' = "idle"
      BY <1>2, <2>4 DEF NextFamily, Return
    <3>2. \A f \in Families : iprule[f] = PairsFor(want)
      BY <1>0, <2>2, <2>4 DEF Families
    <3>3. LayoutInv'
      BY <2>1, LayoutKept DEF CutoverInv, JumpInv
    <3>4. UNCHANGED Working
      BY <2>1, Zenon DEF Working
    <3>5. AppliedMeansInForce'
      <4>1. op = "apply" => \A r \in Roots : /\ linked[r] /\ jumps[r] = {Working}
                                             /\ chain[r][Working] = RulesFor(r, want)
        BY <1>0, Zenon DEF CutoverInv, BuildInv, BuiltBeforeSwitched, ReconcilePhases
      <4> QED
        BY <2>1, <3>2, <3>4, <4>1, Zenon DEF AppliedMeansInForce
    <3>6. FlushedMeansGone'
      <4>1. op = "flush" => /\ want = {}
                            /\ \A r \in Roots : /\ ~linked[r] /\ jumps[r] = {}
                                                /\ \A g \in Generations : chain[r][g] = {}
        BY <1>0 DEF CutoverInv, StepInv, FlushInv, ReconcilePhases
      <4>2. PairsFor({}) = {}
        BY DEF PairsFor
      <4> QED
        BY <2>1, <3>2, <4>1, <4>2, Zenon DEF FlushedMeansGone
    <3> QED
      BY <3>1, <3>3, <3>5, <3>6, Zenon DEF CutoverInv, StepInv, JumpInv, BuildInv, FlushInv, ReconcileInv,
         BuiltBeforeSwitched, ApplyPhases, FlushPhases, ReconcilePhases
  <2> QED
    BY <2>3, <2>4
<1> QED
  BY <1>1, <1>2, Zenon DEF DeleteIPRule, Reliable

LEMMA CutoverStep ==
    ASSUME TypeInv, CutoverInv, Reliable, [RuleNext]_ruleVars
    PROVE  CutoverInv'
<1>1. phase \notin {"refresh", "readd"} /\ LayoutInv
  BY DEF CutoverInv, StepInv, JumpInv, ApplyPhases, FlushPhases, ReconcilePhases
<1>2. CASE Crash
  BY <1>1, <1>2, LayoutKept, Ended DEF Crash, GiveUp, Return, kernel
<1>3. CASE Reboot
  <2>1. LayoutInv'
    BY <1>3 DEF Reboot, LayoutInv
  <2> QED
    BY <1>3, <2>1, Ended DEF Reboot, GiveUp, Return
<1>4. CASE RefreshIPRule \/ ReaddIPRule
  BY <1>1, <1>4, Zenon DEF RefreshIPRule, ReaddIPRule
<1>5. CASE UNCHANGED ruleVars
  <2>1. UNCHANGED <<linked, jumps, front, chain, iprule>>
    BY <1>5 DEF ruleVars, kernel
  <2>2. UNCHANGED <<op, phase, at, active, want, todo, pairs, result>> /\ UNCHANGED Working
    BY <1>5 DEF ruleVars, control, Working
  <2>3. StepInv'
    BY <2>2 DEF CutoverInv, StepInv
  <2>4. JumpInv'
    BY <2>1, <2>2, LayoutKept DEF CutoverInv, JumpInv, NoLegacy
  <2>5. BuildInv'
    BY <2>1, <2>2, Zenon DEF CutoverInv, BuildInv, BuiltBeforeSwitched
  <2>6. FlushInv' /\ ReconcileInv'
    BY <2>1, <2>2, Zenon DEF CutoverInv, FlushInv, ReconcileInv
  <2>7. AppliedMeansInForce' /\ FlushedMeansGone'
    BY <2>1, <2>2, Zenon DEF CutoverInv, AppliedMeansInForce, FlushedMeansGone
  <2> QED
    BY <2>3, <2>4, <2>5, <2>6, <2>7 DEF CutoverInv
<1>6. CASE RuleStep
  BY <1>4, <1>6, PrepareKeeps, MigrateKeeps, BuildBindingKeeps, BuildMSSKeeps, InsertKeeps,
     RemoveKeeps, LoadKeeps, AddIPRuleKeeps, DeleteIPRuleKeeps, CleanupRootKeeps,
     CleanupGenerationsKeeps DEF RuleStep, ListedStep
<1> QED
  BY <1>2, <1>3, <1>5, <1>6, StartApplyKeeps, StartFlushKeeps DEF RuleNext

\* Whatever failed or crashed before: ApplyRules that returns nil leaves exactly
\* the rules it was asked for in force, FlushRules leaves nothing, and no jump is
\* switched before all the generations are complete.
THEOREM PromisesKept ==
    ASSUME Reliable
    PROVE  RuleSpec => [](AppliedMeansInForce /\ FlushedMeansGone /\ BuiltBeforeSwitched)
<1>1. RuleInit => TypeInv /\ CutoverInv
  BY TypeInit, CutoverInit
<1>2. (TypeInv /\ CutoverInv) /\ [RuleNext]_ruleVars => (TypeInv /\ CutoverInv)'
  BY TypeStep, CutoverStep, Zenon
<1>3. CutoverInv => AppliedMeansInForce /\ FlushedMeansGone /\ BuiltBeforeSwitched
  BY DEF CutoverInv, BuildInv
<1> QED
  BY <1>1, <1>2, <1>3, PTL DEF RuleSpec
-----------------------------------------------------------------------------
\* The policy in force, as the refinement mapping reads it.
Live == IF linked[1] /\ front[1] # "" THEN <<chain[1][front[1]]>> ELSE <<>>

\* A mark chain that holds the rules of a policy is that policy.
LEMMA MarkRulesArePolicy == ASSUME NEW P, NEW r \in MarkRoots PROVE RulesFor(r, P) = P
<1>1. r \in MarkRoots /\ r \notin NATRoots /\ r # 2 /\ r # 5
  BY DEF MarkRoots, NATRoots
<1>2. ASSUME NEW b PROVE RulesOf(r, b) = {b}
  BY <1>1 DEF RulesOf
<1> QED
  BY <1>2 DEF RulesFor

\* A call under way has not failed.
LEMMA CallUnderWay ==
    ASSUME CutoverInv, phase # "idle"
    PROVE  result \notin Failures /\ CallMode = op /\ op \in {"apply", "flush"}
<1>1. result = "none" /\ op \in {"apply", "flush"}
  BY Zenon DEF CutoverInv, StepInv, ApplyPhases, FlushPhases, ReconcilePhases
<1> QED
  BY <1>1 DEF CallMode, Failures

\* The four ways a step can look from outside.
LEMMA Stutters ==
    ASSUME Live' = Live, UNCHANGED <<want, op>>, result \notin Failures, result' \notin Failures
    PROVE  [Cutover!Next]_(Cutover!vars)
<1>1. CallMode' = CallMode
  BY Zenon DEF CallMode
<1> QED
  BY <1>1 DEF Live, Cutover!vars

LEMMA Fails ==
    ASSUME CutoverInv, phase # "idle", Live' = Live, want' = {}, result' \in Failures
    PROVE  Cutover!Next
<1>1. CallMode \in {"apply", "flush"} /\ CallMode' = "failed"
  BY CallUnderWay DEF CallMode
<1> QED
  BY <1>1 DEF Live, Cutover!Next, Cutover!Fail

LEMMA CutsOver ==
    ASSUME op = "apply", Live' = <<want>>, UNCHANGED <<want, op, result>>, result \notin Failures
    PROVE  Cutover!Next
<1>1. CallMode = "apply" /\ CallMode' = CallMode
  BY DEF CallMode
<1> QED
  BY <1>1 DEF Live, Cutover!Next, Cutover!Cutover

LEMMA Clears ==
    ASSUME op = "flush", Live' = <<>>, UNCHANGED <<want, op, result>>, result \notin Failures
    PROVE  Cutover!Next
<1>1. CallMode = "flush" /\ CallMode' = CallMode
  BY Zenon DEF CallMode
<1> QED
  BY <1>1 DEF Live, Cutover!Next, Cutover!Clear

\* Only the generation in front is in force.
LEMMA LiveKept ==
    ASSUME front'[1] = front[1],
           front[1] # "" => linked'[1] = linked[1] /\ chain'[1][front[1]] = chain[1][front[1]]
    PROVE  Live' = Live
BY DEF Live

LEMMA UnlinkedHasNoFront ==
    ASSUME TypeInv, LayoutInv, front[1] # ""
    PROVE  linked[1] = TRUE
BY RootFacts DEF TypeInv, RuleTypeOK, JumpsTypeOK, LayoutInv

LEMMA AbortForgets == ASSUME Abort PROVE want' = {} /\ result' \in Failures
BY DEF Abort, GiveUp, Return, Failures

\* Building the working generation is not seen.
LEMMA BuildingUnseen ==
    ASSUME TypeInv, CutoverInv, front[1] # Working, UNCHANGED front,
           linked[1] => linked'[1] = linked[1],
           \A g \in Generations : g # Working => chain'[1][g] = chain[1][g]
    PROVE  Live' = Live
<1>1. front[1] # "" => front[1] \in Generations /\ linked[1] = TRUE
  BY RootFacts, UnlinkedHasNoFront DEF TypeInv, RuleTypeOK, JumpsTypeOK, CutoverInv, JumpInv
<1> QED
  BY <1>1, LiveKept

LEMMA RefinementStep ==
    ASSUME TypeInv, CutoverInv, Reliable, [RuleNext]_ruleVars
    PROVE  [Cutover!Next]_(Cutover!vars)
<1>t. /\ linked \in [Roots -> BOOLEAN] /\ ChainTypeOK /\ at \in Roots /\ 1 \in Roots
      /\ front \in [Roots -> Generations \cup {""}]
  BY RootFacts DEF TypeInv, RuleTypeOK, JumpsTypeOK, CallTypeOK
<1>u. phase # "idle" => result \notin Failures
  BY CallUnderWay
<1>k. UNCHANGED <<linked, front, chain>> => Live' = Live
  BY Zenon DEF Live
<1>1. CASE \E P \in SUBSET Bindings : StartApply(P)
  <2>1. CallMode' = "apply" /\ want' \in SUBSET Bindings /\ UNCHANGED <<linked, front, chain>>
    BY <1>1, Zenon DEF StartApply, kernel, CallMode, Failures
  <2> QED
    BY <2>1, <1>k, Zenon DEF Live, Cutover!Next, Cutover!Apply
<1>2. CASE StartFlush
  <2>1. CallMode' = "flush" /\ want' = {} /\ UNCHANGED <<linked, front, chain>>
    BY <1>2 DEF StartFlush, kernel, CallMode, Failures
  <2> QED
    BY <2>1, <1>k DEF Live, Cutover!Next, Cutover!Flush
<1>3. CASE PrepareGenerationChain
  <2>1. front[1] # Working /\ UNCHANGED front
    BY <1>3 DEF CutoverInv, JumpInv, PrepareGenerationChain
  <2>2. linked[1] => linked'[1] = linked[1]
    <3>1. linked' = linked \/ linked' = [linked EXCEPT ![at] = TRUE]
      BY <1>3 DEF PrepareGenerationChain
    <3>2. linked[1] \in BOOLEAN
      BY <1>t
    <3>3. linked'[1] = linked[1] \/ linked'[1] = TRUE
      BY <1>t, <3>1
    <3> QED
      BY <3>2, <3>3, Zenon
  <2>3. \A g \in Generations : g # Working => chain'[1][g] = chain[1][g]
    <3>1. chain' = chain \/ chain' = [chain EXCEPT ![at][Working] = {}]
      BY <1>3 DEF PrepareGenerationChain
    <3>2. CASE chain' = [chain EXCEPT ![at][Working] = {}]
      <4>1. chain'[1] = IF at = 1 THEN [chain[1] EXCEPT ![Working] = {}] ELSE chain[1]
        BY <1>t, <3>2 DEF ChainTypeOK
      <4>2. chain[1] \in [Generations -> SUBSET RulesFor(1, Bindings)]
        BY <1>t DEF ChainTypeOK
      <4> QED
        BY <4>1, <4>2, Zenon
    <3> QED
      BY <3>1, <3>2
  <2>4. Live' = Live
    BY <2>1, <2>2, <2>3, BuildingUnseen, Zenon
  <2>5. /\ phase # "idle"
        /\ \/ want' = {} /\ result' \in Failures
           \/ UNCHANGED <<want, op>> /\ result' \notin Failures
    BY <1>3, <1>u, AbortForgets DEF PrepareGenerationChain, NextRoot
  <2> QED
    BY <1>u, <2>4, <2>5, Stutters, Fails
<1>4. CASE FlushLegacyRoot
  <2>1. front[1] = "" /\ front'[1] = ""
    BY <1>4, <1>t DEF CutoverInv, JumpInv, FlushLegacyRoot
  <2>2. Live' = Live
    BY <2>1 DEF Live
  <2>3. /\ phase # "idle"
        /\ \/ want' = {} /\ result' \in Failures
           \/ UNCHANGED <<want, op>> /\ result' \notin Failures
    BY <1>4, <1>u, AbortForgets DEF FlushLegacyRoot, NextRoot
  <2> QED
    BY <1>u, <2>2, <2>3, Stutters, Fails
<1>5. CASE BuildBinding
  <2>1. front[1] # Working /\ UNCHANGED <<linked, front>>
    BY <1>5, Zenon DEF CutoverInv, JumpInv, BuildBinding
  <2>2. \A g \in Generations : g # Working => chain'[1][g] = chain[1][g]
    <3>1. ASSUME NEW b, NEW n, AddRules(b, n)
          PROVE  \A g \in Generations : g # Working => chain'[1][g] = chain[1][g]
      BY <3>1, <1>t DEF AddRules, ChainTypeOK
    <3> QED
      BY <1>5, <3>1 DEF BuildBinding
  <2>3. Live' = Live
    BY <2>1, <2>2, BuildingUnseen, Zenon
  <2>4. /\ phase # "idle"
        /\ \/ want' = {} /\ result' \in Failures
           \/ UNCHANGED <<want, op>> /\ result' \notin Failures
    BY <1>5, <1>u, AbortForgets DEF BuildBinding, GiveUp, Return, Failures
  <2> QED
    BY <1>u, <2>3, <2>4, Stutters, Fails
<1>6. CASE BuildMSS
  <2>1. front[1] # Working /\ UNCHANGED <<linked, front>>
    BY <1>6, Zenon DEF CutoverInv, JumpInv, BuildMSS
  <2>2. chain'[1] = chain[1]
    <3>1. PICK four, six : AddMSSRules(four, six)
      BY <1>6 DEF BuildMSS
    <3>2. 1 \notin MSSRoots
      BY DEF MSSRoots
    <3> QED
      BY <3>1, <3>2, <1>t DEF AddMSSRules
  <2>3. Live' = Live
    BY <2>1, <2>2, BuildingUnseen
  <2>4. /\ phase # "idle"
        /\ \/ want' = {} /\ result' \in Failures
           \/ UNCHANGED <<want, op>> /\ result' \notin Failures
    BY <1>6, <1>u, AbortForgets DEF BuildMSS
  <2> QED
    BY <1>u, <2>3, <2>4, Stutters, Fails
<1>w. ASSUME op = "apply", phase \in {"insert", "remove"}, front'[1] = Working,
             UNCHANGED <<linked, chain, want, op, result>>
      PROVE  Cutover!Next
  <2>1. linked[1] = TRUE /\ chain[1][Working] = want
    <3>1. linked[1] /\ chain[1][Working] = RulesFor(1, want)
      BY <1>w, <1>t DEF CutoverInv, BuildInv, BuiltBeforeSwitched
    <3>2. linked[1] \in BOOLEAN
      BY <1>t
    <3> QED
      BY <3>1, <3>2, MarkRulesArePolicy, Zenon DEF MarkRoots
  <2>2. Live' = <<want>>
    BY <1>w, <2>1, WorkingFacts DEF Live
  <2> QED
    BY <1>u, <1>w, <2>2, CutsOver
<1>7. CASE InsertJump
  <2>0. op = "apply" /\ phase # "idle" /\ UNCHANGED <<linked, chain>>
    BY <1>7 DEF CutoverInv, StepInv, ApplyPhases, InsertJump
  <2>1. CASE Abort /\ UNCHANGED front
    BY <2>0, <2>1, <1>k, AbortForgets, Fails
  <2>2. CASE /\ front' = IF Working \in jumps[at] THEN front ELSE [front EXCEPT ![at] = Working]
             /\ UNCHANGED <<want, op, result>>
    <3>1. front'[1] = front[1] \/ front'[1] = Working
      BY <2>2, <1>t
    <3>2. CASE front'[1] = front[1]
      BY <1>u, <2>0, <2>2, <3>2, LiveKept, Stutters, Zenon
    <3>3. CASE front'[1] = Working
      BY <1>7, <2>0, <2>2, <3>3, <1>w, Zenon DEF InsertJump
    <3> QED
      BY <3>1, <3>2, <3>3
  <2> QED
    BY <1>7, <2>1, <2>2, Zenon DEF InsertJump
<1>8. CASE RemoveStaleJump
  <2>0. op = "apply" /\ phase # "idle" /\ UNCHANGED <<linked, chain, want, op, result>>
    BY <1>8, Zenon DEF CutoverInv, StepInv, ApplyPhases, RemoveStaleJump
  <2>1. front'[1] = front[1] \/ front'[1] = Working
    BY <1>8, <1>t DEF RemoveStaleJump
  <2>2. CASE front'[1] = front[1]
    BY <1>u, <2>0, <2>2, LiveKept, Stutters, Zenon
  <2>3. CASE front'[1] = Working
    BY <1>8, <2>0, <2>3, <1>w, Zenon DEF RemoveStaleJump
  <2> QED
    BY <2>1, <2>2, <2>3
<1>9. CASE LoadManagedIPRules \/ AddIPRule \/ DeleteIPRule \/ RefreshIPRule \/ ReaddIPRule
  <2>1. UNCHANGED <<linked, front, chain>>
    BY <1>9, Zenon DEF LoadManagedIPRules, AddIPRule, DeleteIPRule, RefreshIPRule, ReaddIPRule, NextFamily,
                SetIPRules, kernel
  <2>2. /\ phase # "idle"
        /\ \/ want' = {} /\ result' \in Failures
           \/ UNCHANGED <<want, op>> /\ result' \notin Failures
    BY <1>9, <1>u, AbortForgets, Zenon DEF LoadManagedIPRules, AddIPRule, DeleteIPRule, RefreshIPRule,
                ReaddIPRule, NextFamily, Return, Failures, control
  <2> QED
    BY <1>u, <2>1, <2>2, <1>k, Stutters, Fails, Zenon
<1>10. CASE CleanupRoot
  <2>1. op = "flush" /\ phase # "idle" /\ UNCHANGED <<chain, want, op, result>>
    BY <1>10 DEF CutoverInv, StepInv, FlushPhases, CleanupRoot
  <2>2. CASE at = 1
    <3>1. front'[1] = ""
      BY <1>10, <2>2, <1>t DEF CleanupRoot, Reliable
    <3>2. Live' = <<>>
      BY <3>1 DEF Live
    <3> QED
      BY <1>u, <2>1, <3>2, Clears, Zenon
  <2>3. CASE at # 1
    <3>1. front'[1] = front[1] /\ linked'[1] = linked[1]
      BY <1>10, <2>3, <1>t DEF CleanupRoot
    <3> QED
      BY <1>u, <2>1, <3>1, LiveKept, Stutters, Zenon
  <2> QED
    BY <2>2, <2>3, Zenon
<1>11. CASE CleanupGenerations
  <2>1. ~linked[1] /\ phase # "idle" /\ UNCHANGED <<linked, want, op, result>>
    BY <1>11, <1>t DEF CutoverInv, FlushInv, CleanupGenerations
  <2>2. Live' = Live
    BY <2>1 DEF Live
  <2> QED
    BY <1>u, <2>1, <2>2, Stutters, Zenon
<1>12. CASE Crash
  <2>1. UNCHANGED <<linked, front, chain>> /\ phase # "idle" /\ want' = {} /\ result' \in Failures
    BY <1>12 DEF Crash, GiveUp, Return, Failures, kernel
  <2> QED
    BY <2>1, <1>k, Fails
<1>13. CASE Reboot
  <2>1. CallMode' = "boot" /\ want' = {} /\ front'[1] = ""
    BY <1>13, <1>t DEF Reboot, GiveUp, Return, CallMode, Failures
  <2>2. Live' = <<>>
    BY <2>1 DEF Live
  <2> QED
    BY <2>1, <2>2 DEF Live, Cutover!Next, Cutover!Boot
<1>14. CASE UNCHANGED ruleVars
  <2>1. UNCHANGED <<linked, front, chain, want, op, result>>
    BY <1>14 DEF ruleVars, kernel, control
  <2>2. CallMode' = CallMode
    BY <2>1 DEF CallMode
  <2> QED
    BY <2>1, <2>2, <1>k, Zenon DEF Live, Cutover!vars
<1> QED
  BY <1>1, <1>2, <1>3, <1>4, <1>5, <1>6, <1>7, <1>8, <1>9, <1>10, <1>11, <1>12, <1>13, <1>14, Zenon
     DEF RuleNext, RuleStep, ListedStep

\* ApplyRules implements an atomic change of policy: the policy that the iptables
\* mark root applies is always a whole one, also when commands fail, the process
\* dies or the device restarts.
THEOREM CutoverAtomic == ASSUME Reliable PROVE RuleSpec => CutoverIsAtomic
<1>1. RuleInit => TypeInv /\ CutoverInv /\ Cutover!Init
  <2>1. RuleInit => Cutover!Init
    BY RootFacts DEF RuleInit, Cutover!Init, CallMode, Failures
  <2> QED
    BY <2>1, TypeInit, CutoverInit
<1>2. (TypeInv /\ CutoverInv) /\ [RuleNext]_ruleVars =>
         (TypeInv /\ CutoverInv)' /\ [Cutover!Next]_(Cutover!vars)
  BY TypeStep, CutoverStep, RefinementStep, Zenon
<1> QED
  BY <1>1, <1>2, PTL DEF RuleSpec, CutoverIsAtomic, Cutover!Spec

-----------------------------------------------------------------------------
\* The live mark rules of a reconciled apply are those of the wanted bindings.
LEMMA LiveMarksWanted ==
    ASSUME TypeInv, CutoverInv, phase = "ipdel", op = "apply", NEW f \in Families
    PROVE  LiveMarks(f) \subseteq {b.mark : b \in want}
<1> DEFINE r == MarkRoot(f)
<1>1. r \in Roots /\ r \in MarkRoots
  BY DEF MarkRoot, Roots, MarkRoots, Families
<1>2. jumps[r] = {Working} /\ chain[r][Working] = RulesFor(r, want)
  BY <1>1 DEF CutoverInv, BuildInv, BuiltBeforeSwitched, ReconcilePhases
<1>3. RulesFor(r, want) = want
  BY <1>1, MarkRulesArePolicy, Zenon
<1>4. UNION {chain[r][g] : g \in jumps[r] \cap Generations} = want
  BY <1>2, <1>3, WorkingFacts
<1> QED
  BY <1>4 DEF LiveMarks

\* Only the delete of a stale ip rule takes a rule away, and only when another
\* one serves its mark, or nothing marks.
LEMMA DeleteLeavesRouted ==
    ASSUME TypeInv, CutoverInv, Reliable, DeleteIPRule, NEW f \in Families
    PROVE  (LiveMarks(f) \cap Routed(f)) \subseteq Routed(f)'
<1>1. phase = "ipdel" /\ at \in Families /\ iprule \in [Families -> SUBSET PairsFor(Bindings)] /\ "ipdel" \in IPPhases
  BY DEF TypeInv, RuleTypeOK, DeleteIPRule, IPPhases
<1>2. CASE UNCHANGED iprule
  BY <1>2, Zenon DEF Routed
<1>3. ASSUME NEW p \in pairs, iprule' = [iprule EXCEPT ![at] = iprule[at] \ {p}]
      PROVE  (LiveMarks(f) \cap Routed(f)) \subseteq Routed(f)'
  <2>1. CASE f # at
    BY <1>1, <1>3, <2>1, Zenon DEF Routed
  <2>2. CASE f = at /\ op = "flush"
    <3>1. ~linked[MarkRoot(f)]
      BY <1>1, <2>2 DEF CutoverInv, FlushInv, ReconcilePhases, MarkRoot, Roots
    <3> QED
      BY <3>1, Zenon DEF LiveMarks
  <2>3. CASE f = at /\ op = "apply"
    <3>1. PairsFor(want) \subseteq iprule[at] /\ p \notin PairsFor(want)
      BY <1>1, <1>3 DEF CutoverInv, ReconcileInv
    <3>2. PairsFor(want) \subseteq iprule'[f]
      BY <1>1, <1>3, <2>3, <3>1, Zenon
    <3>3. \A b \in want : <<b.mark, b.table>> \in iprule'[f] /\ <<b.mark, b.table>>[1] = b.mark
      BY <3>2 DEF PairsFor
    <3>4. \A b \in want : b.mark \in Routed(f)'
      BY <3>3, Zenon DEF Routed
    <3> QED
      BY <1>1, <2>3, <3>4, LiveMarksWanted
  <2> QED
    BY <1>1, <2>1, <2>2, <2>3, Zenon DEF CutoverInv, StepInv, ReconcilePhases
<1> QED
  BY <1>2, <1>3, Zenon DEF DeleteIPRule, NextFamily, SetIPRules, kernel, Reliable

LEMMA RoutedStep ==
    ASSUME TypeInv, CutoverInv, Reliable, [RuleNext]_ruleVars, op' # "boot", NEW f \in Families
    PROVE  (LiveMarks(f) \cap LiveMarks(f)' \cap Routed(f)) \subseteq Routed(f)'
<1>1. CASE iprule[f] \subseteq iprule'[f]
  BY <1>1, Zenon DEF Routed
<1>2. CASE UNCHANGED iprule
  BY <1>1, <1>2
<1>3. CASE DeleteIPRule
  BY <1>3, DeleteLeavesRouted, Zenon
<1>4. CASE AddIPRule
  <2>1. at \in Families /\ iprule \in [Families -> SUBSET PairsFor(Bindings)]
    BY <1>4, Zenon DEF AddIPRule, TypeInv, RuleTypeOK, IPPhases
  <2>2. UNCHANGED iprule \/ \E p : iprule' = [iprule EXCEPT ![at] = iprule[at] \cup {p}]
    BY <1>4 DEF AddIPRule, SetIPRules, kernel
  <2>3. iprule[f] \subseteq iprule'[f]
    BY <2>1, <2>2, Zenon
  <2> QED
    BY <1>1, <2>3, Zenon
<1>5. CASE RefreshIPRule \/ ReaddIPRule
  BY <1>5 DEF RefreshIPRule, ReaddIPRule, CutoverInv, StepInv, ApplyPhases, FlushPhases, ReconcilePhases
<1>6. CASE Reboot
  BY <1>6 DEF Reboot
<1>7. CASE \E P \in SUBSET Bindings : StartApply(P)
  BY <1>2, <1>7, Zenon DEF StartApply, kernel
<1>8. CASE StartFlush \/ Crash \/ LoadManagedIPRules \/ UNCHANGED ruleVars
  BY <1>2, <1>8, Zenon DEF StartFlush, Crash, LoadManagedIPRules, ruleVars, kernel
<1>9. CASE PrepareGenerationChain \/ FlushLegacyRoot \/ BuildBinding \/ BuildMSS \/ InsertJump
           \/ RemoveStaleJump \/ CleanupRoot \/ CleanupGenerations
  BY <1>2, <1>9, Zenon DEF PrepareGenerationChain, FlushLegacyRoot, BuildBinding, BuildMSS, InsertJump,
     RemoveStaleJump, CleanupRoot, CleanupGenerations
<1> QED
  BY <1>3, <1>4, <1>5, <1>6, <1>7, <1>8, <1>9, Zenon DEF RuleNext, RuleStep, ListedStep

\* Packets that carry a mark keep a table to go to for as long as they are
\* marked, through every change of policy, failure, crash and flush: the missing
\* ip rules are added before the stale ones are deleted.
THEOREM NoMarkUnrouted == ASSUME Reliable PROVE RuleSpec => RoutedStaysRouted
<1>1. RuleInit => TypeInv /\ CutoverInv
  BY TypeInit, CutoverInit
<1>2. (TypeInv /\ CutoverInv) /\ [RuleNext]_ruleVars => (TypeInv /\ CutoverInv)'
  BY TypeStep, CutoverStep
<1>3. (TypeInv /\ CutoverInv) /\ [RuleNext]_ruleVars =>
         [op' # "boot" =>
            \A f \in Families : (LiveMarks(f) \cap LiveMarks(f)' \cap Routed(f)) \subseteq Routed(f)']_ruleVars
  BY RoutedStep
<1> QED
  BY <1>1, <1>2, <1>3, PTL DEF RuleSpec, RoutedStaysRouted

-----------------------------------------------------------------------------
\* Until something has failed, a call that has not begun to switch jumps finds
\* all six roots at the same generation.
UniformInv ==
    (faults = 0 /\ phase \in {"idle", "prepare", "migrate", "build"}) =>
        \A r \in Roots : front[r] = front[1]

\* A call that returns nil leaves the six roots at one generation, or at none.
LEMMA FinishedUniform ==
    ASSUME TypeInv', CutoverInv', result' = "ok", op' \in {"apply", "flush"}
    PROVE  \A r \in Roots : front'[r] = front'[1]
<1>1. 1 \in Roots
  BY DEF Roots
<1>2. \A r \in Roots : /\ front'[r] = "" => jumps'[r] \subseteq {"L"}
                       /\ front'[r] # "" => front'[r] \in jumps'[r]
  BY DEF TypeInv, RuleTypeOK, JumpsTypeOK
<1>3. CASE op' = "apply"
  <2>1. \A r \in Roots : jumps'[r] = {Working'}
    BY <1>3, Zenon DEF CutoverInv, AppliedMeansInForce
  <2>2. Working' # "L"
    BY DEF Working, Other
  <2>3. \A r \in Roots : front'[r] = Working'
    BY <1>2, <2>1, <2>2
  <2> QED
    BY <1>1, <2>3, Zenon
<1>4. CASE op' = "flush"
  <2>1. \A r \in Roots : jumps'[r] = {}
    BY <1>4, Zenon DEF CutoverInv, FlushedMeansGone
  <2>2. \A r \in Roots : front'[r] = ""
    BY <1>2, <2>1
  <2> QED
    BY <1>1, <2>2
<1> QED
  BY <1>3, <1>4

\* A fault is counted.
LEMMA FaultCounts == ASSUME TypeInv, Fault PROVE faults' # 0
<1>1. faults \in 0..MaxFaults
  BY DEF TypeInv, RuleTypeOK, CallTypeOK
<1> QED
  BY <1>1, BoundAssumption DEF Fault

LEMMA UniformStep ==
    ASSUME TypeInv, TypeInv', CutoverInv, CutoverInv', Reliable, UniformInv, [RuleNext]_ruleVars
    PROVE  UniformInv'
<1> DEFINE Early == {"idle", "prepare", "migrate", "build"}
<1> SUFFICES ASSUME faults' = 0, phase' \in Early
             PROVE  \A r \in Roots : front'[r] = front'[1]
  BY DEF UniformInv
<1>f. ~Fault
  BY FaultCounts
<1>u. ASSUME faults' = faults, phase \in Early, UNCHANGED front
      PROVE  \A r \in Roots : front'[r] = front'[1]
  BY <1>u, Zenon DEF UniformInv
<1>1. CASE \E P \in SUBSET Bindings : StartApply(P)
  BY <1>1, <1>f, <1>u, Zenon DEF StartApply, kernel
<1>2. CASE StartFlush \/ CleanupRoot \/ CleanupGenerations \/ InsertJump \/ RemoveStaleJump
           \/ LoadManagedIPRules \/ AddIPRule
  BY <1>2, <1>f, Zenon DEF StartFlush, CleanupRoot, CleanupGenerations, InsertJump, RemoveStaleJump,
     LoadManagedIPRules, AddIPRule, Abort, control
<1>3. CASE PrepareGenerationChain
  BY <1>3, <1>f, <1>u DEF PrepareGenerationChain, Abort, NextRoot
<1>4. CASE FlushLegacyRoot
  <2>1. /\ front[1] = ""
        /\ front \in [Roots -> Generations \cup {""}]
        /\ 1 \in Roots
    <3>1. front[1] = ""
      BY <1>4 DEF FlushLegacyRoot, CutoverInv, JumpInv
    <3>2. front \in [Roots -> Generations \cup {""}]
      BY DEF TypeInv, RuleTypeOK, JumpsTypeOK
    <3> QED
      BY <3>1, <3>2, RootFacts
  <2>2. faults = 0 /\ front' = [front EXCEPT ![at] = ""]
    BY <1>4, <1>f, Zenon DEF FlushLegacyRoot, Abort, NextRoot
  <2>3. \A r \in Roots : front[r] = ""
    BY <1>4, <2>1, <2>2 DEF UniformInv, FlushLegacyRoot
  <2> QED
    BY <2>1, <2>2, <2>3
<1>5. CASE BuildBinding \/ BuildMSS
  BY <1>5, <1>f, <1>u DEF BuildBinding, BuildMSS, Abort
<1>6. CASE DeleteIPRule
  <2>1. result' = "ok" /\ op' = op /\ op \in {"apply", "flush"}
    BY <1>6, Zenon DEF DeleteIPRule, NextFamily, Return, CutoverInv, StepInv, ReconcilePhases
  <2> QED
    BY <2>1, FinishedUniform
<1>7. CASE RefreshIPRule \/ ReaddIPRule
  BY <1>7 DEF RefreshIPRule, ReaddIPRule, CutoverInv, StepInv, ApplyPhases, FlushPhases, ReconcilePhases
<1>8. CASE Crash \/ Reboot
  BY <1>8, <1>f DEF Crash, Reboot
<1>9. CASE UNCHANGED ruleVars
  BY <1>9, <1>u DEF ruleVars, kernel, control
<1> QED
  BY <1>1, <1>2, <1>3, <1>4, <1>5, <1>6, <1>7, <1>8, <1>9 DEF RuleNext, RuleStep, ListedStep

LEMMA UntouchedStep ==
    ASSUME TypeInv, CutoverInv, Reliable, UniformInv, [RuleNext]_ruleVars, op' = "apply", faults' = 0
    PROVE  KeepsActiveChains
<1>f. ~Fault
  BY FaultCounts, Zenon
<1>k. ASSUME UNCHANGED chain PROVE KeepsActiveChains
  BY <1>k DEF KeepsActiveChains
<1>n. ASSUME faults' = faults, phase \in {"prepare", "build"}, NEW r \in Roots
      PROVE  front[r] # Working
  BY <1>n DEF UniformInv, CutoverInv, JumpInv
<1>c. \A r \in Roots : chain[r] \in [Generations -> SUBSET RulesFor(r, Bindings)]
  BY Zenon DEF TypeInv, RuleTypeOK, ChainTypeOK
<1>g. \A r \in Roots : front[r] # "" => front[r] \in Generations
  BY DEF TypeInv, RuleTypeOK, JumpsTypeOK
<1>h. ASSUME faults' = faults, phase \in {"prepare", "build"},
             \A r \in Roots : \A g \in Generations : g # Working => chain'[r][g] = chain[r][g]
      PROVE  KeepsActiveChains
  BY <1>h, <1>n, <1>g DEF KeepsActiveChains
<1>1. CASE PrepareGenerationChain
  <2>1. faults' = faults /\ phase = "prepare" /\ chain' = [chain EXCEPT ![at][Working] = {}]
    BY <1>1, <1>f DEF PrepareGenerationChain, Abort, NextRoot
  <2>2. chain = [r \in Roots |-> chain[r]]
    BY DEF TypeInv, RuleTypeOK, ChainTypeOK
  <2>3. ASSUME NEW r \in Roots, NEW g \in Generations, g # Working
        PROVE  chain'[r][g] = chain[r][g]
    BY <2>1, <2>2, <2>3, <1>c, Zenon
  <2> QED
    BY <2>1, <2>3, <1>h, Zenon
<1>2. CASE BuildBinding
  <2>1. \/ UNCHANGED chain
        \/ faults' = faults /\ phase = "build" /\ \E b \in Bindings : AddRules(b, 4)
    BY <1>2, <1>f, Zenon DEF BuildBinding, Abort
  <2>2. ASSUME NEW b \in Bindings, AddRules(b, 4), NEW r \in Roots, NEW g \in Generations, g # Working
        PROVE  chain'[r][g] = chain[r][g]
    BY <2>2, <1>c, Zenon DEF AddRules
  <2> QED
    BY <2>1, <2>2, <1>h, <1>k, Zenon
<1>3. CASE BuildMSS
  <2>1. faults' = faults /\ phase = "build" /\ AddMSSRules(want, want)
    BY <1>3, <1>f, Zenon DEF BuildMSS, Abort
  <2>2. ASSUME NEW r \in Roots, NEW g \in Generations, g # Working
        PROVE  chain'[r][g] = chain[r][g]
    BY <2>1, <2>2, <1>c, Zenon DEF AddMSSRules
  <2> QED
    BY <2>1, <2>2, <1>h, Zenon
<1>4. CASE CleanupGenerations \/ Reboot
  BY <1>4, <1>f, Zenon DEF CleanupGenerations, Reboot, CutoverInv, StepInv, FlushPhases
<1>5. CASE \E P \in SUBSET Bindings : StartApply(P)
  BY <1>5, <1>k, Zenon DEF StartApply, kernel
<1>6. CASE StartFlush \/ Crash \/ FlushLegacyRoot \/ InsertJump \/ RemoveStaleJump \/ CleanupRoot
           \/ UNCHANGED ruleVars
  BY <1>6, <1>k, Zenon DEF StartFlush, Crash, FlushLegacyRoot, InsertJump, RemoveStaleJump, CleanupRoot,
     ruleVars, kernel
<1>7. CASE LoadManagedIPRules \/ AddIPRule \/ DeleteIPRule \/ RefreshIPRule \/ ReaddIPRule
  BY <1>7, <1>k, Zenon DEF LoadManagedIPRules, AddIPRule, DeleteIPRule, RefreshIPRule, ReaddIPRule,
     NextFamily, SetIPRules, kernel
<1> QED
  BY <1>1, <1>2, <1>3, <1>4, <1>5, <1>6, <1>7 DEF RuleNext, RuleStep, ListedStep

\* As long as nothing has failed, ApplyRules never changes the rules of a
\* generation that a linked root forwards to first: the six roots always stand
\* at the same generation, and the other one is the one that is rebuilt.
THEOREM ActiveUntouched == ASSUME Reliable PROVE RuleSpec => UntouchedUntilFault
<1> DEFINE Inv == TypeInv /\ CutoverInv /\ UniformInv
<1>1. RuleInit => Inv
  <2>1. RuleInit => UniformInv
    BY RootFacts DEF UniformInv, RuleInit
  <2> QED
    BY <2>1, TypeInit, CutoverInit, Zenon
<1>2. Inv /\ [RuleNext]_ruleVars => Inv'
  BY TypeStep, CutoverStep, UniformStep
<1>3. Inv /\ [RuleNext]_ruleVars => [op' = "apply" /\ faults' = 0 => KeepsActiveChains]_ruleVars
  BY UntouchedStep
<1> QED
  BY <1>1, <1>2, <1>3, PTL DEF RuleSpec, UntouchedUntilFault
=============================================================================
