----------------------------- MODULE RuleChains -----------------------------
(***************************************************************************)
(* The kernel side of policy routing as RuleManager drives it              *)
(* (internal/routing/iptables.go, iptables_mark.go, iptables_iprules.go).  *)
(*                                                                         *)
(* Six root chains (mark, MSS and NAT, for iptables and for ip6tables)     *)
(* hang off the built-in chains.  A root only jumps to a generation chain, *)
(* A or B.  ApplyRules rebuilds the generation that is not in use, inserts *)
(* a jump to it, removes the jump to the other one and at last reconciles  *)
(* the `ip rule' entries.  FlushRules takes everything down.               *)
(*                                                                         *)
(* A step of this module is one command, or a run of commands between      *)
(* which nothing can be observed.  Commands can fail and the process can   *)
(* be killed between any two; MaxFaults bounds how often.                  *)
(***************************************************************************)
EXTENDS Integers, FiniteSets

CONSTANTS
    Bindings,      \* the RouteBindings that can be asked for
    MaxFaults,     \* bound: failed commands, crashes and reboots
    ListFaults,    \* may a command that only lists kernel state fail?
    SilentFaults   \* may a command whose error the code ignores fail?

\* A binding has its rank in the (group, rule) order, the fwmark, route table
\* and interface of its VPN, the families its TCP MSS is clamped for, and the
\* names of the ipsets its mark rules match on.
ASSUME BindingsAssumption ==
    \A b \in Bindings : /\ b.rank \in Nat
                        /\ b.mark \in Nat
                        /\ b.table \in Nat
                        /\ b.clamp \in SUBSET {4, 6}

ASSUME BoundAssumption == MaxFaults \in Nat

ASSUME FlagAssumption == ListFaults \in BOOLEAN /\ SilentFaults \in BOOLEAN

\* The roots in the order of every loop of the code: mark, MSS, NAT for
\* iptables, then the same for ip6tables.
Roots == 1..6
MarkRoots == {1, 4}
MSSRoots == {2, 5}
NATRoots == {3, 6}
Families == {4, 6}
MarkRoot(f) == IF f = 4 THEN 1 ELSE 4

Generations == {"A", "B"}
Other(g) == IF g = "A" THEN "B" ELSE "A"

\* The rules a binding contributes to a root's generation.  NAT rules are
\* shared by the bindings with the same mark and interface, MSS rules by those
\* with the same interface.
RulesOf(r, b) ==
    CASE r \in MarkRoots -> {b}
      [] r \in NATRoots  -> {<<b.mark, b.iface>>}
      [] r = 2           -> IF 4 \in b.clamp THEN {b.iface} ELSE {}
      [] r = 5           -> IF 6 \in b.clamp THEN {b.iface} ELSE {}

RulesFor(r, P) == UNION {RulesOf(r, b) : b \in P}

\* The (fwmark, table) pairs the bindings P need.
PairsFor(P) == {<<b.mark, b.table>> : b \in P}

VARIABLES
    linked,   \* linked[r]: the built-in chain jumps to root r
    jumps,    \* jumps[r]: generations root r jumps to; "L" = pre-generation rules
    front,    \* front[r]: the first generation in root r, "" when it has none
    chain,    \* chain[r][g]: the rules in generation g of root r
    iprule,   \* iprule[f]: managed (mark, table) ip rules of family f
    op,       \* the last call: "none", "apply", "flush" or "boot"
    phase,    \* the step the call is at, "idle" between calls
    at,       \* the root, or the family, the phase is at
    active,   \* generation found in use when the call started
    want,     \* the bindings of the call
    todo,     \* bindings still to be built
    pairs,    \* ip rules still to be deleted or refreshed
    faults,   \* faults so far
    result    \* outcome of the last call

kernel == <<linked, jumps, front, chain, iprule>>
control == <<op, phase, at, active, want, todo, pairs>>
ruleVars == <<kernel, control, faults, result>>

\* Mutant: the generation in use is rebuilt in place.
WorkingInPlace == IF active = "" THEN "A" ELSE active

Working == Other(active)

-----------------------------------------------------------------------------
\* No managed state yet, or the flat chains of a release without generations.
RuleInit ==
    /\ \E legacy \in BOOLEAN :
          /\ linked = [r \in Roots |-> legacy]
          /\ jumps = [r \in Roots |-> IF legacy THEN {"L"} ELSE {}]
    /\ front = [r \in Roots |-> ""]
    /\ chain = [r \in Roots |-> [g \in Generations |-> {}]]
    /\ iprule = [f \in Families |-> {}]
    /\ op = "none" /\ phase = "idle" /\ at = 1 /\ active = ""
    /\ want = {} /\ todo = {} /\ pairs = {}
    /\ faults = 0
    /\ result = "none"

\* A fault uses up one unit of the budget.
Fault == faults < MaxFaults /\ faults' = faults + 1

\* The call returns.  Its loop variables are gone; want and active stay, as a
\* record of the call.
Return(outcome) ==
    phase' = "idle" /\ at' = 1 /\ todo' = {} /\ pairs' = {} /\ result' = outcome

\* The call ends early: what it was doing is forgotten, the kernel state stays.
GiveUp(outcome) == Return(outcome) /\ active' = "" /\ want' = {}

\* The command fails and the call returns its error.
Abort == Fault /\ GiveUp("error") /\ UNCHANGED op

\* Next root of the loop, or the phase after the loop.
NextRoot(after) ==
    /\ IF at < 6 THEN at' = at + 1 /\ phase' = phase ELSE at' = 1 /\ phase' = after
    /\ UNCHANGED <<op, active, want, todo, pairs, faults, result>>

\* detectActiveVariant: the iptables mark root, else the ip6tables one; a
\* listing that fails looks like a root without generations.
DetectActiveVariant(seen) ==
    IF 1 \in seen /\ front[1] # "" THEN front[1]
    ELSE IF 4 \in seen THEN front[4] ELSE ""

StartApply(P) ==
    /\ phase = "idle"
    /\ \E seen \in SUBSET MarkRoots :
          /\ IF seen = MarkRoots THEN faults' = faults ELSE ListFaults /\ Fault
          /\ active' = DetectActiveVariant(seen)
    /\ op' = "apply" /\ phase' = "prepare" /\ at' = 1
    /\ want' = P /\ todo' = P /\ pairs' = {} /\ result' = "none"
    /\ UNCHANGED kernel

\* Mutant: the working generation keeps what an earlier call left in it.
PrepareWithoutFlush ==
    /\ phase = "prepare"
    /\ linked' = [linked EXCEPT ![at] = TRUE]
    /\ NextRoot(IF active = "" THEN "migrate" ELSE "build")
    /\ UNCHANGED <<jumps, front, iprule, chain>>

\* Mutant: in the nat table both generations are emptied.
PrepareFlushingNAT ==
    /\ phase = "prepare"
    /\ linked' = [linked EXCEPT ![at] = TRUE]
    /\ chain' = [chain EXCEPT ![at] = [g \in Generations |->
                    IF g = Working \/ at \in NATRoots THEN {} ELSE @[g]]]
    /\ NextRoot(IF active = "" THEN "migrate" ELSE "build")
    /\ UNCHANGED <<jumps, front, iprule>>

\* prepareGenerationChain: link the root, empty the working generation.
PrepareGenerationChain ==
    /\ phase = "prepare"
    /\ UNCHANGED <<jumps, front, iprule>>
    /\ \/ /\ linked' = [linked EXCEPT ![at] = TRUE]
          /\ chain' = [chain EXCEPT ![at][Working] = {}]
          /\ NextRoot(IF active = "" THEN "migrate" ELSE "build")
       \/ Abort /\ UNCHANGED <<linked, chain>>
       \/ Abort /\ linked' = [linked EXCEPT ![at] = TRUE] /\ UNCHANGED chain

\* The migration path: no generation was found in use, so flush every root.
FlushLegacyRoot ==
    /\ phase = "migrate"
    /\ UNCHANGED <<linked, chain, iprule>>
    /\ \/ /\ jumps' = [jumps EXCEPT ![at] = {}]
          /\ front' = [front EXCEPT ![at] = ""]
          /\ NextRoot("build")
       \/ Abort /\ UNCHANGED <<jumps, front>>

\* The next binding in rank order.
Due(b) == b \in todo /\ \A c \in todo : b.rank <= c.rank

\* The binding's rules are added for the first n of these roots.
BuildOrder == <<1, 4, 3, 6>>
AddRules(b, n) ==
    chain' = [r \in Roots |->
                 IF \E i \in 1..n : BuildOrder[i] = r
                 THEN [chain[r] EXCEPT ![Working] = @ \cup RulesOf(r, b)]
                 ELSE chain[r]]

\* One round of the binding loop: mark rules and NAT rules, both families.
\* Two tables for one fwmark are an error.
BuildBinding ==
    /\ phase = "build"
    /\ UNCHANGED <<linked, jumps, front, iprule>>
    /\ \E b \in Bindings :
          /\ Due(b)
          /\ LET clash == \E c \in want \ todo : c.mark = b.mark /\ c.table # b.table
             IN  \/ /\ ~clash
                    /\ AddRules(b, 4)
                    /\ todo' = todo \ {b}
                    /\ UNCHANGED <<op, phase, at, active, want, pairs, faults, result>>
                 \/ ~clash /\ Abort /\ \E n \in 0..3 : AddRules(b, n)
                 \/ /\ clash
                    /\ GiveUp("error")
                    /\ UNCHANGED <<chain, op, faults>>

\* The MSS rules of the bindings four (iptables) and six (ip6tables).
AddMSSRules(four, six) ==
    chain' = [r \in Roots |->
                 IF r \in MSSRoots
                 THEN [chain[r] EXCEPT ![Working] = RulesFor(r, IF r = 2 THEN four ELSE six)]
                 ELSE chain[r]]

\* Interface by interface; a failure leaves some of the rules out.
BuildMSS ==
    /\ phase = "build" /\ todo = {}
    /\ UNCHANGED <<linked, jumps, front, iprule>>
    /\ \/ /\ AddMSSRules(want, want)
          /\ phase' = "insert"
          /\ UNCHANGED <<op, at, active, want, todo, pairs, faults, result>>
       \/ /\ Abort
          /\ \E six \in SUBSET want : \E four \in SUBSET want :
                six \subseteq four /\ six # want /\ AddMSSRules(four, six)

\* switchRootJump, first half: jump to the working generation, first.
InsertJump ==
    /\ phase = "insert"
    /\ UNCHANGED <<linked, chain, iprule>>
    /\ \/ /\ jumps' = [jumps EXCEPT ![at] = @ \cup {Working}]
          /\ front' = IF Working \in jumps[at] THEN front ELSE [front EXCEPT ![at] = Working]
          /\ phase' = "remove"
          /\ UNCHANGED <<op, at, active, want, todo, pairs, faults, result>>
       \/ Working \notin jumps[at] /\ Abort /\ UNCHANGED <<jumps, front>>

\* Mutant: the jump to the stale generation stays.
RemoveNothing ==
    /\ phase = "remove"
    /\ IF at < 6 THEN at' = at + 1 /\ phase' = "insert" ELSE at' = 4 /\ phase' = "ipload"
    /\ UNCHANGED <<kernel, op, active, want, todo, pairs, faults, result>>

\* switchRootJump, second half: drop the jump to the stale generation.  The
\* code takes an error of the delete for "no such rule".
RemoveStaleJump ==
    /\ phase = "remove"
    /\ \/ /\ jumps' = [jumps EXCEPT ![at] = @ \ {Other(Working)}]
          /\ front' = [front EXCEPT ![at] = Working]
          /\ faults' = faults
       \/ /\ SilentFaults /\ Other(Working) \in jumps[at] /\ Fault
          /\ UNCHANGED <<jumps, front>>
    /\ IF at < 6 THEN at' = at + 1 /\ phase' = "insert" ELSE at' = 4 /\ phase' = "ipload"
    /\ UNCHANGED <<linked, chain, iprule, op, active, want, todo, pairs, result>>

\* Next address family, or the call returns nil.
NextFamily ==
    /\ IF at = 4 THEN at' = 6 /\ phase' = "ipload" /\ UNCHANGED <<todo, pairs, result>>
                 ELSE Return("ok")
    /\ UNCHANGED <<kernel, op, active, want, faults>>

\* Mutant: stale ip rules go before the missing ones come.
LoadDroppingStale ==
    /\ phase = "ipload"
    /\ iprule' = [iprule EXCEPT ![at] = @ \cap PairsFor(want)]
    /\ pairs' = {}
    /\ phase' = "ipadd"
    /\ UNCHANGED <<linked, jumps, front, chain, op, at, active, want, todo, faults, result>>

\* loadManagedIPRules: without the listing, every wanted rule is refreshed.
LoadManagedIPRules ==
    /\ phase = "ipload"
    /\ \/ /\ pairs' = iprule[at] \ PairsFor(want)
          /\ phase' = "ipadd"
          /\ faults' = faults
       \/ /\ ListFaults /\ Fault
          /\ pairs' = PairsFor(want)
          /\ phase' = "refresh"
    /\ UNCHANGED <<kernel, op, at, active, want, todo, result>>

Least(p, S) == p \in S /\ \A q \in S : p[1] < q[1] \/ (p[1] = q[1] /\ p[2] <= q[2])

SetIPRules(S) == iprule' = [iprule EXCEPT ![at] = S] /\ UNCHANGED <<linked, jumps, front, chain>>

\* reconcileManagedIPRules: first add what is missing ...
AddIPRule ==
    /\ phase = "ipadd"
    /\ LET missing == PairsFor(want) \ iprule[at] IN
       \/ /\ missing = {}
          /\ phase' = "ipdel"
          /\ UNCHANGED <<kernel, op, at, active, want, todo, pairs, faults, result>>
       \/ \E p \in missing :
             /\ Least(p, missing)
             /\ \/ /\ SetIPRules(iprule[at] \cup {p})
                   /\ UNCHANGED <<control, faults, result>>
                \/ Abort /\ UNCHANGED kernel

\* ... then delete what is stale, ignoring errors.
DeleteIPRule ==
    /\ phase = "ipdel"
    /\ \/ pairs = {} /\ NextFamily
       \/ \E p \in pairs :
             /\ Least(p, pairs)
             /\ pairs' = pairs \ {p}
             /\ \/ SetIPRules(iprule[at] \ {p}) /\ faults' = faults
                \/ SilentFaults /\ Fault /\ UNCHANGED kernel
             /\ UNCHANGED <<op, phase, at, active, want, todo, result>>

\* refreshIPRule: delete the rule, then add it again.
RefreshIPRule ==
    /\ phase = "refresh"
    /\ \/ pairs = {} /\ NextFamily
       \/ \E p \in pairs :
             /\ Least(p, pairs)
             /\ SetIPRules(iprule[at] \ {p})
             /\ phase' = "readd"
             /\ UNCHANGED <<op, at, active, want, todo, pairs, faults, result>>

ReaddIPRule ==
    /\ phase = "readd"
    /\ \E p \in pairs :
          /\ Least(p, pairs)
          /\ \/ /\ SetIPRules(iprule[at] \cup {p})
                /\ pairs' = pairs \ {p}
                /\ phase' = "refresh"
                /\ UNCHANGED <<op, at, active, want, todo, faults, result>>
             \/ Abort /\ UNCHANGED kernel

\* FlushRules: unlink and empty the roots, then the generations, then remove
\* the managed ip rules (the phases above, with nothing wanted).
StartFlush ==
    /\ phase = "idle"
    /\ op' = "flush" /\ phase' = "unroot" /\ at' = 1 /\ active' = ""
    /\ want' = {} /\ todo' = {} /\ pairs' = {} /\ result' = "none"
    /\ UNCHANGED <<kernel, faults>>

\* cleanupChain of a root; every error is ignored.
CleanupRoot ==
    /\ phase = "unroot"
    /\ \E unlinks, empties \in BOOLEAN :
          /\ linked' = [linked EXCEPT ![at] = @ /\ ~unlinks]
          /\ jumps' = [jumps EXCEPT ![at] = IF empties THEN {} ELSE @]
          /\ front' = [front EXCEPT ![at] = IF empties THEN "" ELSE @]
          /\ IF unlinks /\ empties THEN faults' = faults ELSE SilentFaults /\ Fault
    /\ IF at < 6 THEN at' = at + 1 /\ phase' = phase ELSE at' = 1 /\ phase' = "ungen"
    /\ UNCHANGED <<chain, iprule, op, active, want, todo, pairs, result>>

\* cleanupChain and cleanupGenerationRuleChains of a root's generations.
CleanupGenerations ==
    /\ phase = "ungen"
    /\ \E kept \in SUBSET Generations :
          /\ chain' = [chain EXCEPT ![at] = [g \in Generations |->
                                               IF g \in kept THEN chain[at][g] ELSE {}]]
          /\ IF kept = {} THEN faults' = faults ELSE SilentFaults /\ Fault
    /\ IF at < 6 THEN at' = at + 1 /\ phase' = phase ELSE at' = 4 /\ phase' = "ipload"
    /\ UNCHANGED <<linked, jumps, front, iprule, op, active, want, todo, pairs, result>>

\* The process is killed inside a call; the kernel keeps its state.
Crash ==
    /\ phase # "idle" /\ Fault /\ GiveUp("crashed")
    /\ UNCHANGED <<kernel, op>>

\* The device restarts: the kernel state is gone.
Reboot ==
    /\ Fault
    /\ linked' = [r \in Roots |-> FALSE]
    /\ jumps' = [r \in Roots |-> {}]
    /\ front' = [r \in Roots |-> ""]
    /\ chain' = [r \in Roots |-> [g \in Generations |-> {}]]
    /\ iprule' = [f \in Families |-> {}]
    /\ op' = "boot" /\ GiveUp("none")

\* One step of a call in progress: while the ip rules can be listed, ...
ListedStep ==
    \/ PrepareGenerationChain
    \/ FlushLegacyRoot
    \/ BuildBinding
    \/ BuildMSS
    \/ InsertJump
    \/ RemoveStaleJump
    \/ LoadManagedIPRules
    \/ AddIPRule
    \/ DeleteIPRule
    \/ CleanupRoot
    \/ CleanupGenerations

\* ... and with the refresh of all of them, which only a failed listing leads to.
RuleStep == ListedStep \/ RefreshIPRule \/ ReaddIPRule

RuleNext ==
    \/ \E P \in SUBSET Bindings : StartApply(P)
    \/ StartFlush
    \/ RuleStep
    \/ Crash
    \/ Reboot

RuleSpec == RuleInit /\ [][RuleNext]_ruleVars
-----------------------------------------------------------------------------
Phases == {"idle", "prepare", "migrate", "build", "insert", "remove", "ipload",
           "ipadd", "ipdel", "refresh", "readd", "unroot", "ungen"}

\* Types of the jumps of the roots: front is a generation the root really jumps
\* to, and "" only when it jumps to none.
JumpsTypeOK ==
    /\ linked \in [Roots -> BOOLEAN]
    /\ jumps \in [Roots -> SUBSET (Generations \cup {"L"})]
    /\ front \in [Roots -> Generations \cup {""}]
    /\ \A r \in Roots : /\ front[r] = "" => jumps[r] \subseteq {"L"}
                        /\ front[r] # "" => front[r] \in jumps[r]

ChainTypeOK ==
    /\ chain = [r \in Roots |-> chain[r]]
    /\ \A r \in Roots : chain[r] \in [Generations -> SUBSET RulesFor(r, Bindings)]

CallTypeOK ==
    /\ op \in {"none", "apply", "flush", "boot"}
    /\ phase \in Phases
    /\ at \in Roots
    /\ active \in Generations \cup {""}
    /\ want \in SUBSET Bindings
    /\ todo \in SUBSET want
    /\ pairs \in SUBSET PairsFor(Bindings)
    /\ faults \in 0..MaxFaults
    /\ result \in {"none", "ok", "error", "crashed"}

\* The state of RuleManager's kernel objects and of the call in progress has
\* its type.
RuleTypeOK ==
    /\ JumpsTypeOK
    /\ ChainTypeOK
    /\ iprule \in [Families -> SUBSET PairsFor(Bindings)]
    /\ CallTypeOK

\* What ApplyRules promises when it returns nil, whatever failed or crashed in
\* earlier calls: every root is linked and forwards to exactly one generation,
\* the same one for all six, that generation holds exactly the rules of the
\* bindings asked for, and the managed ip rules are exactly theirs.
AppliedMeansInForce ==
    (op = "apply" /\ result = "ok") =>
        /\ \A r \in Roots : /\ linked[r]
                            /\ jumps[r] = {Working}
                            /\ chain[r][Working] = RulesFor(r, want)
        /\ \A f \in Families : iprule[f] = PairsFor(want)

\* FlushRules that ran to its end leaves no jump, no rule and no ip rule.
FlushedMeansGone ==
    (op = "flush" /\ result = "ok") =>
        /\ \A r \in Roots : ~linked[r] /\ jumps[r] = {} /\ \A g \in Generations : chain[r][g] = {}
        /\ \A f \in Families : iprule[f] = {}

KeepsActiveChains ==
    \A r \in Roots : (linked[r] /\ front[r] # "" /\ front'[r] = front[r]) =>
        chain'[r][front[r]] = chain[r][front[r]]

\* "switches root jumps instead of flushing active chains": while a linked root
\* keeps forwarding to a generation first, ApplyRules does not change what is
\* in that generation.
ActiveChainsUntouched == [][op' = "apply" => KeepsActiveChains]_ruleVars

\* The same for all six roots of a RuleManager none of whose calls, ApplyRules
\* and FlushRules in any order, has failed so far.
UntouchedUntilFault == [][op' = "apply" /\ faults' = 0 => KeepsActiveChains]_ruleVars

\* The marks the live generations of a family set, and those that an ip rule
\* sends to a table.
LiveMarks(f) ==
    LET r == MarkRoot(f) IN
    IF linked[r] THEN {b.mark : b \in UNION {chain[r][g] : g \in jumps[r] \cap Generations}} ELSE {}
Routed(f) == {p[1] : p \in iprule[f]}

\* Additive-first reconciliation: packets that carry a mark whose ip rule is
\* installed keep a table to go to for as long as they are marked, through a
\* cutover, a table change, a failed call and a flush.
RoutedStaysRouted ==
    [][op' # "boot" =>
          \A f \in Families : (LiveMarks(f) \cap LiveMarks(f)' \cap Routed(f)) \subseteq Routed(f)']_ruleVars

\* Once ApplyRules begins to switch jumps, the working generations of all six
\* roots are complete, whatever earlier calls left behind: the roots that are
\* switched later only have to jump to them.
BuiltBeforeSwitched ==
    phase \in {"insert", "remove", "ipload", "ipadd", "ipdel", "refresh", "readd"} /\ op = "apply" =>
        \A r \in Roots : linked[r] /\ chain[r][Working] = RulesFor(r, want)

Failures == {"error", "crashed"}

\* The last call as a caller sees it.
CallMode == IF result \in Failures THEN "failed" ELSE op

\* ApplyRules implements an atomic change of policy: seen from the iptables
\* mark root, the rules in force are always those of one whole request.
Cutover == INSTANCE PolicyCutover WITH
    Policies <- SUBSET Bindings,
    live <- IF linked[1] /\ front[1] # "" THEN <<chain[1][front[1]]>> ELSE <<>>,
    goal <- want,
    mode <- CallMode

\* The refinement: no step of ApplyRules shows a part of a policy, an empty
\* one, or an old one again, also when commands fail or the process dies.
CutoverIsAtomic == Cutover!Spec

\* Errors that ApplyRules ignores (a failed delete, a failed listing) never
\* cost a wanted rule: after it returns nil every root is linked and jumps to
\* the working generation, complete, and every wanted ip rule is installed.
\* What can be left is the stale generation behind it and stale ip rules.
AppliedMeansServed ==
    (op = "apply" /\ result = "ok") =>
        /\ \A r \in Roots : /\ linked[r]
                            /\ Working \in jumps[r]
                            /\ chain[r][Working] = RulesFor(r, want)
        /\ \A f \in Families : PairsFor(want) \subseteq iprule[f]

-----------------------------------------------------------------------------
\* The inductive invariant behind the promises above, for a RuleManager whose
\* listings work and whose ignored commands do not fail.
ApplyPhases == {"prepare", "migrate", "build", "insert", "remove"}
FlushPhases == {"unroot", "ungen"}
ReconcilePhases == {"ipload", "ipadd", "ipdel"}

NoLegacy == \A r \in Roots : "L" \notin jumps[r]

\* Which call is at which step, and that it has no result yet.
StepInv ==
    /\ phase \in {"idle"} \cup ApplyPhases \cup FlushPhases \cup ReconcilePhases
    /\ phase \in ApplyPhases => op = "apply"
    /\ phase \in FlushPhases => op = "flush"
    /\ phase \in ReconcilePhases => op \in {"apply", "flush"}
    /\ (phase # "idle" /\ op = "flush") => want = {}
    /\ phase # "idle" => result = "none"

\* A root that is not linked has no jumps.  Rules of the flat layout and jumps
\* to generations never coexist.
LayoutInv ==
    /\ \A r \in Roots : ~linked[r] => jumps[r] = {}
    /\ (\E r \in Roots : front[r] # "") => NoLegacy

\* The generation being rebuilt is not the one the iptables mark root forwards
\* to, and the flat layout is gone before the generations are built.
JumpInv ==
    /\ LayoutInv
    /\ (phase = "prepare" /\ active # "") => NoLegacy
    /\ phase = "migrate" => active = ""
    /\ (phase \in {"prepare", "migrate"} /\ active = "") => front[1] = ""
    /\ phase \in {"build", "insert", "remove"} => NoLegacy
    /\ phase \in {"prepare", "migrate", "build"} => front[1] # Working
    /\ (phase = "insert" /\ at = 1) => front[1] # Working

\* What ApplyRules has prepared, built and switched so far.
BuildInv ==
    /\ phase \in {"prepare", "migrate"} => todo = want
    /\ phase = "build" => at = 1
    /\ phase = "prepare" => \A r \in Roots : r < at => linked[r] /\ chain[r][Working] = {}
    /\ phase = "migrate" => /\ \A r \in Roots : linked[r] /\ chain[r][Working] = {}
                            /\ \A r \in Roots : r < at => jumps[r] = {}
    /\ phase = "build" => \A r \in Roots :
          /\ linked[r]
          /\ chain[r][Working] = IF r \in MSSRoots THEN {} ELSE RulesFor(r, want \ todo)
    /\ BuiltBeforeSwitched
    /\ phase \in {"insert", "remove"} => \A r \in Roots : r < at => jumps[r] = {Working}
    /\ (phase \in ReconcilePhases /\ op = "apply") => \A r \in Roots : jumps[r] = {Working}

\* What FlushRules has taken down so far.
FlushInv ==
    /\ phase = "unroot" => \A r \in Roots : r < at => ~linked[r] /\ jumps[r] = {}
    /\ (phase = "ungen" \/ (phase \in ReconcilePhases /\ op = "flush")) =>
          \A r \in Roots : ~linked[r] /\ jumps[r] = {}
    /\ phase = "ungen" =>
          \A r \in Roots : r < at => \A g \in Generations : chain[r][g] = {}
    /\ (phase \in ReconcilePhases /\ op = "flush") =>
          \A r \in Roots : \A g \in Generations : chain[r][g] = {}

\* What reconcileManagedIPRules has done so far.
ReconcileInv ==
    /\ (phase \in ReconcilePhases /\ at = 6) => iprule[4] = PairsFor(want)
    /\ phase \in {"ipadd", "ipdel"} => pairs = iprule[at] \ PairsFor(want)
    /\ phase = "ipdel" => PairsFor(want) \subseteq iprule[at]

\* Every call is where its step says, and its finished predecessors kept their
\* promises: the strengthening that makes the promises inductive.
CutoverInv ==
    /\ StepInv /\ JumpInv /\ BuildInv /\ FlushInv /\ ReconcileInv
    /\ AppliedMeansInForce /\ FlushedMeansGone
=============================================================================
