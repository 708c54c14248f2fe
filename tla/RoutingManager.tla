--------------------------- MODULE RoutingManager ---------------------------
(***************************************************************************)
(* routing.Manager (internal/routing/manager.go, manager_sets.go, ipset.go,*)
(* dnsmasq.go) over the group store, the VPN list, the kernel's ipsets,    *)
(* dnsmasq and the chains of RuleChains.                                   *)
(*                                                                         *)
(* One mutex serialises the manager's calls, so a call is a sequence of    *)
(* steps (mphase) that no other call of the manager interleaves with.  The *)
(* VPN list is not under that mutex and changes at any time.  A command, a *)
(* database statement or a file write can fail at each step, and the       *)
(* process can be killed.                                                  *)
(*                                                                         *)
(* A group has at most one rule and that rule at most one ipset (of a v4   *)
(* and v6 pair); the entries of a set are abstract addresses.              *)
(***************************************************************************)
EXTENDS RuleChains

CONSTANTS
    Groups,     \* group names, as their rank in the name order
    VPNs,       \* VPN profile names
    Profile,    \* Profile[v]: fwmark and table of v
    Domains,    \* domain selectors
    Addrs,      \* addresses a lookup can find
    Rules       \* rules a group can have: [vpn, kind, domain]

\* What is not there.
None == <<>>

\* The kinds of rule the control flow tells apart: a comment or disabled rule
\* has no binding, an interface rule a binding without sets.
Kinds == {"comment", "interface", "source", "domain"}

ASSUME RulesAssumption ==
    /\ Groups \subseteq Nat
    /\ Rules \subseteq [vpn : VPNs, kind : Kinds, domain : Domains]
    /\ Profile \in [VPNs -> [mark : Nat, table : Nat]]

\* RuleSetNames: one name per group and role.
SetNames == Groups \X {"s", "d"}
DestinationSets == Groups \X {"d"}
SetsOf(g, rule) == CASE rule.kind = "source" -> {<<g, "s">>}
                     [] rule.kind = "domain" -> {<<g, "d">>}
                     [] OTHER -> {}

VARIABLES
    groups,     \* groups[g]: <<rule>> persisted, or None
    resolved,   \* resolver_cache: addresses by domain
    prewarmed,  \* prewarm_cache: addresses by destination set
    vpns,       \* names of the VPN profiles on disk
    ipset,      \* ipset[s]: <<addresses>> in the kernel, or None
    staged,     \* staged[s]: the same for the set named s_n
    dnsFile,    \* sets named in the dnsmasq conf on disk
    dnsLive,    \* sets named in the conf dnsmasq has loaded
    mop,        \* the manager's last call: "none", "apply", "sets"
    mphase,     \* its step
    plan,       \* desiredSets: set name -> addresses
    left,       \* set names the current loop has not reached
    mresult,    \* its outcome
    clean       \* calls in a row that applied these groups without a fault

storeVars == <<groups, resolved, prewarmed>>
setVars == <<ipset, staged>>
dnsVars == <<dnsFile, dnsLive>>
callVars == <<mop, mphase, plan, left, mresult, clean>>
vars == <<ruleVars, storeVars, vpns, setVars, dnsVars, callVars>>

Init ==
    /\ RuleInit
    /\ groups = [g \in Groups |-> None]
    /\ resolved = [d \in Domains |-> {}]
    /\ prewarmed = [s \in DestinationSets |-> {}]
    /\ vpns \in SUBSET VPNs
    /\ ipset = [s \in SetNames |-> None]
    /\ staged = [s \in SetNames |-> None]
    /\ dnsFile = {} /\ dnsLive = {}
    /\ mop = "none" /\ mphase = "idle" /\ plan = <<>> /\ left = {}
    /\ mresult = "none" /\ clean = 0

-----------------------------------------------------------------------------
Persisted == {g \in Groups : groups[g] # None}
RuleOf(g) == groups[g][1]

\* buildBinding: what group g asks of RuleManager for its rule.
BindingFor(g, rule) ==
    [rank |-> g, mark |-> Profile[rule.vpn].mark, table |-> Profile[rule.vpn].table,
     iface |-> rule.vpn, clamp |-> {}, sets |-> SetsOf(g, rule)]

\* RuleManager takes the binding of every rule that has one.
ASSUME StoreAssumption ==
    \A g \in Groups : \A rule \in Rules : rule.kind # "comment" => BindingFor(g, rule) \in Bindings

BindingOf(g) == BindingFor(g, RuleOf(g))

BindingsOfStore == {BindingOf(g) : g \in {h \in Persisted : RuleOf(h).kind # "comment"}}

ActiveSets == UNION {SetsOf(g, RuleOf(g)) : g \in Persisted}

\* queueDesiredSet with mergeResolvedDestinations and
\* mergePrewarmedDestinations; a source set has the rule's own CIDRs.
EntriesOf(s) == IF s[2] = "s" THEN {"cidr"}
                ELSE resolved[RuleOf(s[1]).domain] \cup prewarmed[s]

\* GenerateDnsmasqConf: the destination sets of the domain rules.
DnsConf == {s \in ActiveSets : s[2] = "d"}

\* The kernel refuses to destroy a set that a rule of any chain matches on,
\* reachable or not.
InUse(s) == \E r \in MarkRoots : \E g \in Generations : \E b \in chain[r][g] : s \in b.sets

\* Names sort by group, then role; a staged name sorts after its set.
Before(s, t) == s[1] < t[1] \/ (s[1] = t[1] /\ (s[2] = t[2] \/ s[2] = "d"))
First(S) == CHOOSE s \in S : \A t \in S : Before(s, t)

-----------------------------------------------------------------------------
\* The call returns and unlocks the mutex.
Done(outcome) ==
    /\ mphase' = "idle" /\ mresult' = outcome
    /\ plan' = <<>> /\ left' = {}
    /\ UNCHANGED mop

\* A step of the call fails and the call returns the error.
MAbort == Fault /\ Done("error") /\ clean' = 0

Goto(p) == mphase' = p /\ UNCHANGED <<mop, plan, left, mresult, clean>>

\* A call that changes the store and then runs applyLocked (kind "apply") or
\* applyCachedDestinationSetsLocked (kind "sets").  The statement can fail
\* (nothing changes) or the read-back after the commit can (no apply then).
Call(kind, change, touched) ==
    /\ mphase = "idle"
    /\ mop' = kind /\ plan' = <<>> /\ left' = {}
    /\ \/ /\ change
          /\ mphase' = "plan" /\ mresult' = "none" /\ faults' = faults
       \/ Fault /\ mphase' = "idle" /\ mresult' = "error" /\ UNCHANGED storeVars
       \/ touched /\ change /\ Fault /\ mphase' = "idle" /\ mresult' = "error"
    /\ clean' = IF touched \/ faults' # faults THEN 0 ELSE clean
    /\ UNCHANGED <<kernel, control, result, vpns, setVars, dnsVars>>

\* CreateGroup and UpdateGroup: validateEgressVPN, then the transaction.
SaveGroup(g, rule) ==
    /\ rule.vpn \in vpns
    /\ Call("apply", /\ groups' = [groups EXCEPT ![g] = <<rule>>]
                     /\ UNCHANGED <<resolved, prewarmed>>, TRUE)

DeleteGroup(g) ==
    /\ groups[g] # None
    /\ Call("apply", /\ groups' = [groups EXCEPT ![g] = None]
                     /\ UNCHANGED <<resolved, prewarmed>>, TRUE)

Apply == Call("apply", UNCHANGED storeVars, FALSE)

\* ReplaceState: all groups and the resolver cache; the pre-warm cache goes.
ReplaceState(new, found) ==
    /\ \A g \in Groups : new[g] # None => new[g][1].vpn \in vpns
    /\ Call("apply", /\ groups' = new
                     /\ resolved' = found
                     /\ prewarmed' = [s \in DestinationSets |-> {}], TRUE)

\* UpsertResolverSnapshot and UpsertPrewarmSnapshot only ever add rows.  The
\* run that found them may have started when the groups were different.
UpsertResolverSnapshot(d, found) ==
    Call("sets", /\ resolved' = [resolved EXCEPT ![d] = @ \cup found]
                 /\ UNCHANGED <<groups, prewarmed>>, FALSE)

UpsertPrewarmSnapshot(g, found) ==
    Call("sets", /\ prewarmed' = [prewarmed EXCEPT ![<<g, "d">>] = @ \cup found]
                 /\ UNCHANGED <<groups, resolved>>, FALSE)

ClearResolverCache ==
    Call("sets", /\ resolved' = [d \in Domains |-> {}]
                 /\ UNCHANGED <<groups, prewarmed>>, FALSE)

ClearPrewarmCache ==
    Call("sets", /\ prewarmed' = [s \in DestinationSets |-> {}]
                 /\ UNCHANGED <<groups, resolved>>, FALSE)

-----------------------------------------------------------------------------
\* The discovery caches are purged of rows older than the retention time
\* before they are read: any of the rows may be.
Purge ==
    /\ \E dead \in SUBSET Addrs :
          /\ resolved' = [d \in Domains |-> resolved[d] \ dead]
          /\ prewarmed' = [s \in DestinationSets |-> prewarmed[s] \ dead]
    /\ UNCHANGED groups

\* applyLocked without groups: FlushRules comes first.
PlanEmpty ==
    /\ mphase = "plan" /\ mop = "apply" /\ Persisted = {}
    /\ StartFlush
    /\ Goto("rules")
    /\ UNCHANGED <<storeVars, vpns, setVars, dnsVars>>

\* applyLocked with groups: a group whose VPN is gone fails the whole call.
PlanMissingVPN ==
    /\ mphase = "plan" /\ mop = "apply" /\ Persisted # {}
    /\ \E g \in Persisted : RuleOf(g).vpn \notin vpns
    /\ Purge
    /\ Done("error") /\ clean' = 0
    /\ UNCHANGED <<ruleVars, vpns, setVars, dnsVars>>

\* Mutant: the sets of source selectors are not planned.
PlanDestinationSets ==
    /\ mphase = "plan"
    /\ Persisted # {} \/ mop = "sets"
    /\ mop = "apply" => \A g \in Persisted : RuleOf(g).vpn \in vpns
    /\ Purge
    /\ plan' = [s \in DnsConf |-> EntriesOf(s)']
    /\ left' = DOMAIN plan'
    /\ mphase' = "set"
    /\ UNCHANGED <<ruleVars, vpns, setVars, dnsVars, mop, mresult, clean>>

\* Mutant: the fast path goes through all sets, those it has not planned too.
PlanSomeVisitAll ==
    /\ mphase = "plan"
    /\ Persisted # {} \/ mop = "sets"
    /\ mop = "apply" => \A g \in Persisted : RuleOf(g).vpn \in vpns
    /\ Purge
    /\ plan' = [s \in (IF mop = "apply" THEN ActiveSets ELSE DnsConf) |-> EntriesOf(s)']
    /\ left' = ActiveSets
    /\ mphase' = "set"
    /\ UNCHANGED <<ruleVars, vpns, setVars, dnsVars, mop, mresult, clean>>

\* ... otherwise the desired sets are computed from the store.  The fast path
\* for snapshots plans the destination sets only, and needs no VPN.
PlanSets ==
    /\ mphase = "plan"
    /\ Persisted # {} \/ mop = "sets"
    /\ mop = "apply" => \A g \in Persisted : RuleOf(g).vpn \in vpns
    /\ Purge
    /\ plan' = [s \in (IF mop = "apply" THEN ActiveSets ELSE DnsConf) |-> EntriesOf(s)']
    /\ left' = DOMAIN plan'
    /\ mphase' = "set"
    /\ UNCHANGED <<ruleVars, vpns, setVars, dnsVars, mop, mresult, clean>>

\* Mutant: a set that exists is created anew.
RecreateSet ==
    /\ mphase = "set" /\ left # {}
    /\ ipset' = [ipset EXCEPT ![First(left)] = <<{}>>]
    /\ Goto("stage")
    /\ UNCHANGED <<ruleVars, storeVars, vpns, staged, dnsVars>>

\* applySetAtomically, set by set: make sure the set exists, ...
EnsureSet ==
    /\ mphase = "set" /\ left # {}
    /\ LET s == First(left) IN
       \/ /\ ipset' = [ipset EXCEPT ![s] = IF @ = None THEN <<{}>> ELSE @]
          /\ Goto("stage")
          /\ faults' = faults
       \/ MAbort /\ UNCHANGED ipset
    /\ UNCHANGED <<kernel, control, result, storeVars, vpns, staged, dnsVars>>

\* ... fill the staged set (a failure leaves it with some of the entries), ...
StageSet ==
    /\ mphase = "stage"
    /\ LET s == First(left) IN
       \/ /\ staged' = [staged EXCEPT ![s] = <<plan[s]>>]
          /\ Goto("swap")
          /\ faults' = faults
       \/ MAbort /\ \E some \in SUBSET plan[s] : staged' = [staged EXCEPT ![s] = <<some>>]
       \/ MAbort /\ UNCHANGED staged
    /\ UNCHANGED <<kernel, control, result, storeVars, vpns, ipset, dnsVars>>

\* ... swap the two, ...
SwapSets ==
    /\ mphase = "swap"
    /\ LET s == First(left) IN
       \/ /\ ipset' = [ipset EXCEPT ![s] = staged[s]]
          /\ staged' = [staged EXCEPT ![s] = ipset[s]]
          /\ Goto("drop")
          /\ faults' = faults
       \/ MAbort /\ UNCHANGED setVars
    /\ UNCHANGED <<kernel, control, result, storeVars, vpns, dnsVars>>

\* ... and destroy the staged one, which now has the old entries.
DestroyStaged ==
    /\ mphase = "drop"
    /\ LET s == First(left) IN
       \/ /\ staged' = [staged EXCEPT ![s] = None]
          /\ left' = left \ {s}
          /\ mphase' = "set"
          /\ UNCHANGED <<mop, plan, mresult, clean, faults>>
       \/ MAbort /\ UNCHANGED staged
    /\ UNCHANGED <<kernel, control, result, storeVars, vpns, ipset, dnsVars>>

\* After the last set the snapshot path is done, applyLocked goes on.
SetsDone ==
    /\ mphase = "set" /\ left = {}
    /\ IF mop = "sets" THEN Done("ok") /\ UNCHANGED clean ELSE Goto("dnswrite")
    /\ UNCHANGED <<ruleVars, storeVars, vpns, setVars, dnsVars>>

\* WriteDnsmasqConf renames a complete temporary file into place.
WriteDnsmasqConf ==
    /\ mphase = "dnswrite"
    /\ \/ dnsFile' = DnsConf /\ Goto("dnsreload") /\ faults' = faults
       \/ MAbort /\ UNCHANGED dnsFile
    /\ UNCHANGED <<kernel, control, result, storeVars, vpns, setVars, dnsLive>>

\* A call that ran to its end without a fault counts towards clean.
Finish == Done("ok") /\ clean' = IF clean < 2 THEN clean + 1 ELSE 2

\* ReloadDnsmasq: HUP, reload or restart; when all fail, the call fails.
ReloadDnsmasq ==
    /\ mphase = "dnsreload"
    /\ \/ /\ dnsLive' = dnsFile
          /\ IF Persisted = {} THEN Finish /\ UNCHANGED <<kernel, control, result, faults>>
             ELSE StartApply(BindingsOfStore) /\ Goto("rules")
       \/ MAbort /\ UNCHANGED <<dnsLive, kernel, control, result>>
    /\ UNCHANGED <<storeVars, vpns, setVars, dnsFile>>

\* ApplyRules or FlushRules at work.
RulesAtWork ==
    /\ mphase = "rules" /\ phase # "idle"
    /\ RuleStep
    /\ UNCHANGED <<storeVars, vpns, setVars, dnsVars, callVars>>

\* ... and back: an error is returned, else the stale sets are next.
RulesReturned ==
    /\ mphase = "rules" /\ phase = "idle"
    /\ IF result = "ok" THEN Goto("cleanup") ELSE Done("error") /\ clean' = 0
    /\ UNCHANGED <<ruleVars, storeVars, vpns, setVars, dnsVars>>

\* Mutant of StaleSets: sets of source selectors are not listed.
StaleDestinationSets == {s \in DestinationSets : ipset[s] # None} \ ActiveSets

\* cleanupStaleSets: the sets in the kernel that no group of the store needs,
\* staged leftovers included.
StaleStaged == {s \in SetNames : staged[s] # None}
StaleSets == {s \in SetNames : ipset[s] # None} \ ActiveSets

\* The set that is destroyed next.
DestroyStaleStaged(s) ==
    /\ staged' = [staged EXCEPT ![s] = None] /\ UNCHANGED ipset
DestroyStaleSet(s) ==
    /\ ipset' = [ipset EXCEPT ![s] = None] /\ UNCHANGED staged

CleanupStaleSets ==
    /\ mphase = "cleanup" /\ StaleSets \cup StaleStaged # {}
    /\ LET s == First(StaleSets \cup StaleStaged) IN
       \/ /\ s \in StaleSets /\ ~InUse(s)
          /\ DestroyStaleSet(s)
          /\ UNCHANGED <<callVars, faults>>
       \/ /\ s \in StaleSets /\ InUse(s)
          /\ Done("error") /\ clean' = IF clean < 2 THEN clean + 1 ELSE 2
          /\ UNCHANGED <<setVars, faults>>
       \/ /\ s \notin StaleSets
          /\ DestroyStaleStaged(s)
          /\ UNCHANGED <<callVars, faults>>
       \/ MAbort /\ UNCHANGED setVars
    /\ UNCHANGED <<kernel, control, result, storeVars, vpns, dnsVars>>

\* Without groups the dnsmasq conf is only written now.
CleanupDone ==
    /\ mphase = "cleanup" /\ StaleSets \cup StaleStaged = {}
    /\ IF Persisted = {} THEN Goto("dnswrite") ELSE Finish
    /\ UNCHANGED <<ruleVars, storeVars, vpns, setVars, dnsVars>>

-----------------------------------------------------------------------------
\* vpn.Manager creates or deletes a profile, whatever the groups are.  A call
\* reads the list when it validates and when it plans; a change during a later
\* step of the call is the same as one right after the call.
ChangeVPNs ==
    /\ mphase \in {"idle", "plan"}
    /\ \E v \in VPNs : vpns' = (vpns \ {v}) \cup ({v} \ vpns)
    /\ UNCHANGED <<ruleVars, storeVars, setVars, dnsVars, callVars>>

\* The process is killed: the kernel, dnsmasq and the store keep their state.
Kill ==
    /\ mphase # "idle"
    /\ IF phase = "idle" THEN Fault /\ UNCHANGED <<kernel, control, result>> ELSE Crash
    /\ Done("crashed") /\ clean' = 0
    /\ UNCHANGED <<storeVars, vpns, setVars, dnsVars>>

\* The device restarts: kernel state and /run are gone.
Restart ==
    /\ Reboot
    /\ Done("crashed") /\ clean' = 0
    /\ ipset' = [s \in SetNames |-> None] /\ staged' = [s \in SetNames |-> None]
    /\ dnsFile' = {} /\ dnsLive' = {}
    /\ UNCHANGED <<storeVars, vpns>>

Next ==
    \/ \E g \in Groups : \E rule \in Rules : SaveGroup(g, rule)
    \/ \E g \in Groups : DeleteGroup(g)
    \/ Apply
    \/ \E rule \in Rules : \E found \in [Domains -> SUBSET Addrs] :
          ReplaceState([g \in Groups |-> <<rule>>], found)
    \/ ReplaceState([g \in Groups |-> None], [d \in Domains |-> {}])
    \/ \E d \in Domains : \E a \in Addrs : UpsertResolverSnapshot(d, {a})
    \/ \E g \in Groups : \E a \in Addrs : UpsertPrewarmSnapshot(g, {a})
    \/ ClearResolverCache
    \/ ClearPrewarmCache
    \/ PlanEmpty
    \/ PlanMissingVPN
    \/ PlanSets
    \/ EnsureSet
    \/ StageSet
    \/ SwapSets
    \/ DestroyStaged
    \/ SetsDone
    \/ WriteDnsmasqConf
    \/ ReloadDnsmasq
    \/ RulesAtWork
    \/ RulesReturned
    \/ CleanupStaleSets
    \/ CleanupDone
    \/ ChangeVPNs
    \/ Kill
    \/ Restart

Spec == Init /\ [][Next]_vars

-----------------------------------------------------------------------------
\* The manager's own state has its type; RuleTypeOK is RuleManager's.
TypeOK ==
    /\ \A g \in Groups : groups[g] = None \/ groups[g] \in [{1} -> Rules]
    /\ resolved \in [Domains -> SUBSET Addrs]
    /\ prewarmed \in [DestinationSets -> SUBSET Addrs]
    /\ vpns \subseteq VPNs
    /\ \A s \in SetNames : {ipset[s], staged[s]} \subseteq {None} \cup [{1} -> SUBSET (Addrs \cup {"cidr"})]
    /\ dnsFile \subseteq SetNames /\ dnsLive \subseteq SetNames
    /\ mop \in {"none", "apply", "sets"}
    /\ mphase \in {"idle", "plan", "set", "stage", "swap", "drop", "dnswrite",
                   "dnsreload", "rules", "cleanup"}
    /\ DOMAIN plan \subseteq SetNames /\ left \subseteq DOMAIN plan
    /\ mresult \in {"none", "ok", "error", "crashed"}
    /\ clean \in 0..2

\* The mark chains, the ip rules, the ipsets with their entries and the dnsmasq
\* conf are those of the stored groups and caches, and no other set is left.
MatchesStore ==
    /\ \A r \in MarkRoots : LET live == UNION {chain[r][g] : g \in jumps[r]} IN
          live = BindingsOfStore
    /\ \A f \in Families : iprule[f] = PairsFor(BindingsOfStore)
    /\ \A s \in SetNames : /\ ipset[s] = IF s \in ActiveSets THEN <<EntriesOf(s)>> ELSE None
                           /\ staged[s] = None
    /\ dnsLive = DnsConf

\* "Apply makes runtime routing state match the persisted groups": so it does
\* when a call that applies returned nil, whatever earlier calls left behind.
AppliedMatchesStore == (mop = "apply" /\ mphase = "idle" /\ mresult = "ok") => MatchesStore

\* Sets come before the rules that match on them, and go after them: a rule
\* that is in a chain, or that the running ApplyRules is about to add, names
\* only sets that exist (iptables would refuse it otherwise).
RulesFindTheirSets ==
    \A s \in SetNames :
        (InUse(s) \/ (phase # "idle" /\ \E b \in want : s \in b.sets)) => ipset[s] # None

\* The staged swap: a set that rules match on changes only by taking, in one
\* step, exactly the entries the running call computed, never an empty or half
\* filled one.
MatchedSetsChangeWhole ==
    [][\A s \in SetNames :
          (InUse(s) /\ ipset'[s] # ipset[s] /\ ipset'[s] # None) =>
              s \in DOMAIN plan /\ ipset'[s] = <<plan[s]>>]_vars

\* A call can fail at its very end because stale sets are still matched by the
\* generation that went out of use.  It does not stay so: the second call in a
\* row that applies the same groups, undisturbed, succeeds.
SecondApplySucceeds == (clean = 2 /\ mphase = "idle" /\ mop = "apply") => mresult = "ok"

\* "stale ipsets are destroyed after rules are applied/flushed, avoiding `set
\* in use' failures": cleanupStaleSets asks the kernel to destroy only sets
\* that no chain matches on.
StaleSetsNotInUse ==
    (mphase = "cleanup" /\ StaleSets \cup StaleStaged # {}) =>
        LET s == First(StaleSets \cup StaleStaged) IN s \in StaleSets => ~InUse(s)
=============================================================================
