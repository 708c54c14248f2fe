------------------------ MODULE VPNAllocation_proofs ------------------------
(* Proofs about VPNManager: every step keeps what the invariant says of    *)
(* tables, marks, files and units, and the theorems that follow from it.   *)
EXTENDS VPNManager_proofs

-----------------------------------------------------------------------------
\* Who has which table and mark.
AllocInv == OwnedInv /\ WriteInv /\ LeakInv

LEMMA OpFacts ==
    /\ \A o \in WriteOps : /\ o # Idle /\ o \notin DeleteOps /\ o \notin BotchedOps
                           /\ o.do \in {"create", "update"} /\ o.n \in Names /\ o.conf \in ConfRecords
                           /\ o.release \in {0} \cup Tables
    /\ \A o \in DeleteOps : /\ o # Idle /\ o \notin WriteOps /\ o \notin BotchedOps
                            /\ o.do = "delete" /\ o.n \in Names /\ o.conf \in ConfRecords
    /\ \A o \in BotchedOps : o # Idle /\ o \notin WriteOps /\ o \notin DeleteOps /\ o.do = "botched" /\ o.n \in Names
    /\ Idle \notin WriteOps /\ Idle \notin DeleteOps /\ Idle \notin BotchedOps /\ Idle.do = "none"
<1>1. \A o \in WriteOps : /\ o.do \in {"create", "update"} /\ o.n \in Names /\ o.conf \in ConfRecords
                          /\ o.release \in {0} \cup Tables
  BY DEF WriteOps
<1>2. \A o \in DeleteOps : o.do = "delete" /\ o.n \in Names /\ o.conf \in ConfRecords
  BY DEF DeleteOps
<1>3. \A o \in BotchedOps : o.do = "botched" /\ o.n \in Names
  BY DEF BotchedOps
<1>4. Idle.do = "none"
  BY DEF Idle
<1> QED
  BY <1>1, <1>2, <1>3, <1>4

LEMMA ConfFacts ==
    /\ \A c \in ConfRecords : /\ c # NoConf /\ c.table \in Tables /\ c.table # 0 /\ c.mark \in Marks /\ c.mark # 0
                              /\ c.kind \in Kinds
    /\ NoConf.table = 0 /\ NoConf.mark = 0
<1>1. \A c \in ConfRecords : c.table \in Tables /\ c.mark \in Marks /\ c.kind \in Kinds
  BY DEF ConfRecords
<1>2. NoConf.kind \notin Kinds /\ NoConf.table = 0 /\ NoConf.mark = 0
  BY DEF NoConf, Kinds
<1> QED
  BY <1>1, <1>2, TablesAreNumbers, MarksAreNumbers

\* A step that leaves vpn.conf, the allocator and the request's values alone.
SameRequest ==
    \/ op' = op
    \/ /\ op \in WriteOps /\ op' \in WriteOps /\ op'.do = op.do /\ op'.n = op.n /\ op'.conf = op.conf
       /\ op'.release = op.release /\ op'.table = op.table /\ op'.mark = op.mark
       /\ op'.at \in UnitSteps <=> op.at \in UnitSteps
    \/ op \in DeleteOps /\ op' \in DeleteOps /\ op'.n = op.n
SameConfs == \A n \in Names : disk'[n].conf = disk[n].conf

LEMMA SameProfiles ==
    ASSUME SameConfs
    PROVE  /\ Profiles' = Profiles /\ \A n \in Names : Conf(n)' = Conf(n)
           /\ OwnTables' = OwnTables /\ OwnMarks' = OwnMarks
<1>1. Profiles' = Profiles /\ Profiles \subseteq Names /\ \A n \in Names : disk'[n].conf = disk[n].conf
  BY DEF Profiles, SameConfs
<1> QED
  BY <1>1 DEF Conf, OwnTables, OwnMarks

LEMMA AllocFrame ==
    ASSUME TypeInv, AllocInv, alloc' = alloc, SameConfs, SameRequest,
           \A n \in Names : disk[n].dir => disk'[n].dir
    PROVE  AllocInv'
<1>1. /\ Profiles' = Profiles /\ Profiles \subseteq Names /\ \A n \in Names : Conf(n)' = Conf(n)
      /\ OwnTables' = OwnTables /\ OwnMarks' = OwnMarks
  BY SameProfiles DEF Profiles
<1>2. op'.do = "botched" <=> op.do = "botched"
  BY OpFacts DEF SameRequest
<1>3. OwnedInv'
  BY <1>1, <1>2 DEF AllocInv, OwnedInv, AllocationsDistinct
<1>4. WriteInv'
  <2>1. CASE op' \in WriteOps
    <3>1. /\ op \in WriteOps /\ op'.do = op.do /\ op'.n = op.n /\ op'.conf = op.conf /\ op.n \in Names
          /\ op'.release = op.release /\ op'.table = op.table /\ op'.mark = op.mark
          /\ op'.at \in UnitSteps <=> op.at \in UnitSteps
      BY <2>1, OpFacts DEF SameRequest
    <3> QED
      BY <1>1, <3>1 DEF AllocInv, WriteInv
  <2>2. CASE op' \notin WriteOps
    BY <2>2 DEF WriteInv
  <2> QED
    BY <2>1, <2>2
<1>5. PendingTables' = PendingTables /\ PendingMarks' = PendingMarks
  BY OpFacts, Zenon DEF SameRequest, PendingTables, PendingMarks
<1>6. \A n \in Names : Working(n)' <=> Working(n)
  BY OpFacts DEF SameRequest, Working
<1>7. \A n \in Names : Lost(n) => Lost(n)'
  BY <1>1, <1>6 DEF Lost
<1>8. LeakInv'
  BY <1>1, <1>2, <1>5, <1>7 DEF AllocInv, LeakInv
<1> QED
  BY <1>3, <1>4, <1>8 DEF AllocInv

\* A request that ends gives back a table t and a mark k that no profile has;
\* nothing else was held for it.
LEMMA GivesBack ==
    ASSUME TypeInv, AllocInv, op.do # "botched", op' = Idle,
           NEW t, NEW k, alloc' = Released(alloc, t, k),
           \A n \in Profiles' : n \in Profiles /\ Conf(n)' = Conf(n) /\ Conf(n).table # t /\ Conf(n).mark # k,
           OwnTables \cup PendingTables \subseteq OwnTables' \cup {t},
           OwnMarks \cup PendingMarks \subseteq OwnMarks' \cup {k},
           \A n \in Names : Lost(n) => Lost(n)'
    PROVE  AllocInv'
<1>1. /\ alloc \in Allocators /\ alloc.stickyTables \subseteq alloc.tables /\ alloc.stickyMarks \subseteq alloc.marks
      /\ alloc'.tables = alloc.tables \ ({t} \ alloc.stickyTables) /\ alloc'.stickyTables = alloc.stickyTables
      /\ alloc'.marks = alloc.marks \ ({k} \ alloc.stickyMarks) /\ alloc'.stickyMarks = alloc.stickyMarks
  BY ReleasedLacks DEF TypeInv, Sound
<1>2. OwnedInv'
  BY <1>1 DEF AllocInv, OwnedInv, AllocationsDistinct
<1>3. WriteInv'
  BY OpFacts DEF WriteInv
<1>4. PendingTables' = {} /\ PendingMarks' = {}
  BY OpFacts DEF PendingTables, PendingMarks
<1>5. OwnTables' \subseteq OwnTables \ {t} /\ OwnMarks' \subseteq OwnMarks \ {k}
  BY DEF OwnTables, OwnMarks
<1>6. LeakInv'
  <2> SUFFICES ASSUME \A n \in Names : ~Lost(n)'
               PROVE  /\ alloc'.tables = alloc'.stickyTables \cup OwnTables'
                      /\ alloc'.marks = alloc'.stickyMarks \cup OwnMarks'
    BY <1>4 DEF LeakInv
  <2>1. /\ alloc.tables = alloc.stickyTables \cup OwnTables \cup PendingTables
        /\ alloc.marks = alloc.stickyMarks \cup OwnMarks \cup PendingMarks
    BY DEF AllocInv, LeakInv
  <2>2. alloc'.tables = alloc'.stickyTables \cup OwnTables'
    BY <1>1, <1>5, <2>1
  <2>3. alloc'.marks = alloc'.stickyMarks \cup OwnMarks'
    BY <1>1, <1>5, <2>1, Zenon
  <2> QED
    BY <2>2, <2>3
<1> QED
  BY <1>2, <1>3, <1>6 DEF AllocInv

\* Create and Update prepare: what is new is nobody's, what is old is their own.
LEMMA BeginOwns ==
    ASSUME TypeInv, AllocInv, WholeInv, NEW do, NEW n, NEW req, Starts(do, n, req)
    PROVE  AllocInv'
<1>1. PICK p : /\ Prepared(p, n, req) /\ alloc' = p.a
               /\ ~p.ok => op' = Idle
               /\ p.ok => /\ op' \in WriteOps /\ op'.do = do /\ op'.n = n /\ op'.at = "dir"
                          /\ op'.conf = p.conf /\ op'.conf.dev = Device(n, req.kind)
                          /\ op'.release = p.release /\ op'.table = p.table /\ op'.mark = p.mark
  BY BeginGives
<1>2. UNCHANGED disk /\ InterfaceFree(n, Device(n, req.kind))
  BY BeginGives
<1>3. /\ Profiles' = Profiles /\ Profiles \subseteq Names /\ \A m \in Names : Conf(m)' = Conf(m)
      /\ OwnTables' = OwnTables /\ OwnMarks' = OwnMarks
  BY <1>2, SameProfiles DEF SameConfs, Profiles
<1>4. op = Idle /\ op.do = "none" /\ n \in Names /\ do \in {"create", "update"}
  BY OpFacts DEF Starts
<1>5. do = "create" => ~disk[n].dir /\ n \notin Profiles
  BY <1>4, NoDirTypes DEF Starts, WholeInv, Profiles
<1>6. do = "update" => n \in Profiles
  BY DEF Starts
<1>7. \A m \in Profiles : /\ Conf(m).table \in alloc.tables /\ Conf(m).mark \in alloc.marks
                          /\ Conf(m).table # 0 /\ Conf(m).mark # 0
  BY <1>3, <1>4, ConfTypes, SMTT(30) DEF AllocInv, OwnedInv
<1>8. alloc.tables \subseteq p.a.tables /\ alloc.marks \subseteq p.a.marks
  BY <1>1 DEF Prepared
<1>9. op'.do # "botched"
  BY <1>1, <1>4, OpFacts DEF Prepared
<1>10. OwnedInv'
  BY <1>1, <1>3, <1>7, <1>8 DEF AllocInv, OwnedInv, AllocationsDistinct
<1>11. CASE ~p.ok
  <2>1. PendingTables' = {} /\ PendingMarks' = {} /\ PendingTables = {} /\ PendingMarks = {} /\ WriteInv'
    BY <1>1, <1>4, <1>11, OpFacts, Zenon DEF PendingTables, PendingMarks, WriteInv
  <2>2. \A m \in Names : Lost(m) <=> Lost(m)'
    BY <1>1, <1>2, <1>3, <1>4, <1>11, SMTT(30) DEF Lost, Working
  <2>3. PICK L \in SUBSET Tables : p.a.tables = alloc.tables \cup L /\ p.a.stickyTables = alloc.stickyTables \cup L
    BY <1>1, <1>11 DEF Prepared
  <2>4. PICK M \in SUBSET Marks : p.a.marks = alloc.marks \cup M /\ p.a.stickyMarks = alloc.stickyMarks \cup M
    BY <1>1, <1>11 DEF Prepared
  <2>5. LeakInv'
    BY <1>1, <1>3, <1>4, <2>1, <2>2, <2>3, <2>4, SMTT(30) DEF AllocInv, LeakInv
  <2> QED
    BY <1>10, <2>1, <2>5 DEF AllocInv
<1>12. CASE p.ok
  <2>1. /\ op' \in WriteOps /\ op'.do = do /\ op'.n = n /\ op'.at = "dir" /\ op' # Idle
        /\ op'.conf = p.conf /\ op'.conf.dev = Device(n, req.kind)
        /\ op'.release = p.release /\ op'.table = p.table /\ op'.mark = p.mark
    BY <1>1, <1>12, OpFacts, Zenon
  <2>2. \/ Conf(n).table # 0 /\ p.conf.table = Conf(n).table /\ p.table = 0 /\ p.release = 0
        \/ /\ p.conf.table \in Tables \ alloc.tables /\ p.conf.table # Conf(n).table
           /\ p.table = p.conf.table /\ p.release = Conf(n).table
    BY <1>1, <1>12, Zenon DEF Prepared
  <2>3. \/ Conf(n).mark # 0 /\ p.conf.mark = Conf(n).mark /\ p.mark = 0
        \/ Conf(n).mark = 0 /\ p.conf.mark \in Marks \ alloc.marks /\ p.mark = p.conf.mark
    BY <1>1, <1>12, Zenon DEF Prepared
  <2>4. PICK L \in SUBSET Tables : /\ p.a.tables = alloc.tables \cup L \cup ({p.table} \ {0})
                                   /\ p.a.stickyTables = alloc.stickyTables \cup L
    BY <1>1, <1>12, Zenon DEF Prepared
  <2>5. PICK M \in SUBSET Marks : /\ p.a.marks = alloc.marks \cup M \cup ({p.mark} \ {0})
                                  /\ p.a.stickyMarks = alloc.stickyMarks \cup M
    BY <1>1, <1>12 DEF Prepared
  <2>6. \A m \in Profiles \ {n} : /\ Conf(m).table # p.conf.table /\ Conf(m).mark # p.conf.mark
                                  /\ Conf(m).dev # op'.conf.dev /\ Conf(m).table # p.release
    <3> SUFFICES ASSUME NEW m \in Profiles \ {n}
                 PROVE  /\ Conf(m).table # p.conf.table /\ Conf(m).mark # p.conf.mark
                        /\ Conf(m).dev # op'.conf.dev /\ Conf(m).table # p.release
      OBVIOUS
    <3>1. n \in Profiles => Conf(m).table # Conf(n).table /\ Conf(m).mark # Conf(n).mark
      BY DEF AllocInv, OwnedInv, AllocationsDistinct
    <3>2. n \notin Profiles => Conf(n).table = 0 /\ Conf(n).mark = 0
      BY <1>4, ConfTypes
    <3>3. Conf(m).dev # op'.conf.dev
      BY <1>2, <2>1 DEF InterfaceFree
    <3> QED
      BY <1>7, <2>2, <2>3, <3>1, <3>2, <3>3, Zenon
  <2>7. n \in Profiles => Conf(n).table \in alloc.tables /\ Conf(n).mark \in alloc.marks /\ Conf(n).table # 0 /\ Conf(n).mark # 0
    BY <1>7
  <2>8. n \notin Profiles => Conf(n) = NoConf /\ Conf(n).table = 0 /\ Conf(n).mark = 0
    BY <1>4, ConfTypes, Zenon DEF Profiles, Conf
  <2>9. p.conf.table \in p.a.tables /\ p.conf.mark \in p.a.marks /\ p.conf.table # 0 /\ p.conf.mark # 0
    <3>1. p.conf \in ConfRecords
      BY <2>1, OpFacts
    <3> QED
      BY <2>2, <2>3, <2>4, <2>5, <2>7, <2>8, <3>1, ConfFacts, SMTT(30)
  <2>10. "dir" \notin UnitSteps
    BY SMTT(30) DEF UnitSteps
  <2>11. WriteInv'
    BY <1>1, <1>3, <1>4, <1>5, <1>6, <2>1, <2>2, <2>3, <2>6, <2>7, <2>8, <2>9, <2>10, SMTT(30) DEF WriteInv
  <2>12. /\ PendingTables' = {p.table} \ {0} /\ PendingMarks' = {p.mark} \ {0}
         /\ PendingTables = {} /\ PendingMarks = {}
    BY <1>4, <2>1, <2>10, OpFacts, Zenon DEF PendingTables, PendingMarks
  <2>13. \A m \in Names : Lost(m) <=> Lost(m)'
    BY <1>2, <1>3, <1>4, <1>5, <1>6, <2>1, Zenon DEF Lost, Working
  <2>14. LeakInv'
    BY <1>1, <1>3, <1>4, <2>4, <2>5, <2>12, <2>13, Zenon DEF AllocInv, LeakInv
  <2> QED
    BY <1>10, <2>11, <2>14 DEF AllocInv
<1> QED
  BY <1>1, <1>11, <1>12 DEF Prepared

LEMMA DeleteOwns ==
    ASSUME TypeInv, AllocInv, NEW n \in Names, Delete(n)
    PROVE  AllocInv'
<1>1. op = Idle /\ op.do = "none" /\ n \in Profiles /\ op'.n = n /\ op' \in DeleteOps /\ UNCHANGED <<disk, alloc>>
  <2>1. Conf(n) \in ConfRecords
    BY ConfTypes DEF Delete, Readable
  <2> QED
    BY <2>1, OpFacts DEF Delete, Readable, DeleteOps, DeleteSteps
<1>2. /\ Profiles' = Profiles /\ Profiles \subseteq Names /\ \A m \in Names : Conf(m)' = Conf(m)
      /\ OwnTables' = OwnTables /\ OwnMarks' = OwnMarks
  BY <1>1, SameProfiles DEF SameConfs, Profiles
<1>3. PendingTables' = PendingTables /\ PendingMarks' = PendingMarks /\ WriteInv'
  BY <1>1, OpFacts, Zenon DEF PendingTables, PendingMarks, WriteInv
<1>4. \A m \in Names : Lost(m) => Lost(m)'
  BY <1>1, <1>2 DEF Lost, Working
<1>5. OwnedInv'
  BY <1>1, <1>2 DEF AllocInv, OwnedInv, AllocationsDistinct
<1>6. LeakInv'
  BY <1>1, <1>2, <1>3, <1>4 DEF AllocInv, LeakInv
<1> QED
  BY <1>3, <1>5, <1>6, Zenon DEF AllocInv

\* vpn.conf gets the new values: what was reserved is now the profile's, and
\* what was the profile's is still held.
LEMMA WriteConfOwns ==
    ASSUME TypeInv, AllocInv, WriteConf
    PROVE  AllocInv'
<1>a. op \in WriteOps
  BY OpKinds DEF WriteConf, At, WriteSteps
<1>b. PICK n \in Names, c \in ConfRecords : n = op.n /\ c = op.conf
  BY <1>a, OpFacts
<1>1. /\ op \in WriteOps /\ op.n = n /\ op.conf = c /\ op.at = "conf" /\ op # Idle /\ op.do \in {"create", "update"}
      /\ op' \in WriteOps /\ op'.at = "unit" /\ op'.do = op.do /\ op'.n = n /\ op'.conf = c /\ op' # Idle
      /\ op'.release = op.release /\ op'.table = op.table /\ op'.mark = op.mark
  BY <1>a, <1>b, WriteMoves, OpFacts DEF WriteConf, At, WriteSteps
<1>2. /\ alloc' = alloc /\ disk'[n].conf = c /\ disk'[n].dir = disk[n].dir
      /\ \A m \in Names : m # n => disk'[m] = disk[m]
  BY <1>1 DEF WriteConf, TypeInv, Dirs
<1>3. op.at \notin UnitSteps /\ op'.at \in UnitSteps
  BY <1>1 DEF UnitSteps
<1>4. /\ Profiles' = Profiles \cup {n} /\ Profiles \subseteq Names
      /\ Conf(n)' = c /\ \A m \in Names : m # n => Conf(m)' = Conf(m)
  BY <1>1, <1>2, ConfFacts, Zenon DEF Profiles, Conf
<1>5. /\ \A m \in Profiles \ {n} : /\ Conf(m).table # c.table /\ Conf(m).mark # c.mark
                                   /\ Conf(m).dev # c.dev /\ Conf(m).table # op.release
      /\ c.table \in alloc.tables /\ c.mark \in alloc.marks
      /\ op.release # c.table /\ op.table \in {0, c.table} /\ op.mark \in {0, c.mark}
      /\ op.do = "create" => op.table # 0 /\ op.mark # 0 /\ op.release = 0 /\ Conf(n) = NoConf
      /\ op.do = "update" => /\ op.mark = 0 /\ n \in Profiles /\ Conf(n).mark = c.mark
                             /\ IF c.table = Conf(n).table THEN op.table = 0 /\ op.release = 0
                                ELSE op.table # 0 /\ op.release = Conf(n).table
  BY <1>1, <1>3, Zenon DEF AllocInv, WriteInv
<1>6. OwnedInv'
  BY <1>1, <1>2, <1>4, <1>5 DEF AllocInv, OwnedInv, AllocationsDistinct
<1>7. WriteInv'
  <2>1. Profiles' \ {n} = Profiles \ {n}
    BY <1>4
  <2> QED
    BY <1>1, <1>2, <1>3, <1>4, <1>5, <2>1 DEF WriteInv
<1>8. OwnTables' \cup PendingTables' = OwnTables \cup PendingTables /\ OwnMarks' \cup PendingMarks' = OwnMarks \cup PendingMarks
  <2>1. PendingTables = {op.table} \ {0} /\ PendingTables' = {op.release} \ {0} /\ PendingMarks = {op.mark} \ {0} /\ PendingMarks' = {}
    BY <1>1, <1>3 DEF PendingTables, PendingMarks
  <2>2. /\ OwnTables' = {Conf(m).table : m \in Profiles \ {n}} \cup {c.table}
        /\ OwnMarks' = {Conf(m).mark : m \in Profiles \ {n}} \cup {c.mark}
    BY <1>4 DEF OwnTables, OwnMarks
  <2>3. CASE op.do = "create"
    <3>1. n \notin Profiles
      BY <1>5, <2>3 DEF Profiles, Conf
    <3>2. OwnTables' = OwnTables \cup {c.table} /\ OwnMarks' = OwnMarks \cup {c.mark}
      BY <2>2, <3>1, Zenon DEF OwnTables, OwnMarks
    <3> QED
      BY <1>5, <2>1, <2>3, <3>2, Zenon
  <2>4. CASE op.do = "update"
    <3>1. /\ OwnTables = {Conf(m).table : m \in Profiles \ {n}} \cup {Conf(n).table}
          /\ OwnMarks = {Conf(m).mark : m \in Profiles \ {n}} \cup {Conf(n).mark}
      BY <1>5, <2>4, Zenon DEF OwnTables, OwnMarks
    <3>2. Conf(n).table # 0
      BY <1>1, <1>5, <2>4, ConfTypes, Zenon
    <3> QED
      BY <1>5, <2>1, <2>2, <2>4, <3>1, <3>2, Zenon
  <2> QED
    BY <1>1, <2>3, <2>4
<1>9. \A m \in Names : Lost(m) => Lost(m)'
  BY <1>1, <1>2, <1>4, Zenon DEF Lost, Working
<1>10. LeakInv'
  BY <1>1, <1>2, <1>8, <1>9, Zenon DEF AllocInv, LeakInv
<1> QED
  BY <1>6, <1>7, <1>10 DEF AllocInv

\* The end of Create and Update, and an Update that fails after vpn.conf.
LEMMA OldTableGivenBack ==
    ASSUME TypeInv, AllocInv, op \in WriteOps, op.at \in UnitSteps, op' = Idle,
           alloc' = Released(alloc, op.release, 0), SameConfs, \A n \in Names : disk'[n].dir = disk[n].dir
    PROVE  AllocInv'
<1>1. /\ Profiles' = Profiles /\ Profiles \subseteq Names /\ \A n \in Names : Conf(n)' = Conf(n)
      /\ OwnTables' = OwnTables /\ OwnMarks' = OwnMarks
  BY SameProfiles, Zenon DEF Profiles
<1>2. Conf(op.n) = op.conf /\ op.n \in Names /\ op.n \in Profiles /\ op.do # "botched" /\ op # Idle
  BY OpFacts, ConfFacts, Zenon DEF AllocInv, WriteInv, Profiles, Conf
<1>3. \A n \in Profiles : Conf(n).table # op.release /\ Conf(n).mark # 0
  BY <1>1, <1>2, ConfTypes DEF AllocInv, WriteInv
<1>4. PendingTables \subseteq {op.release} /\ PendingMarks = {}
  BY Zenon DEF PendingTables, PendingMarks
<1>5. \A n \in Names : Lost(n) => Lost(n)'
  BY <1>1, Zenon DEF Lost, Working
<1> QED
  BY <1>1, <1>2, <1>3, <1>4, <1>5, GivesBack

LEMMA RemoveDirOwns ==
    ASSUME TypeInv, AllocInv, StepInv, RemoveDir
    PROVE  AllocInv'
<1>1. /\ op \in DeleteOps /\ op.n \in Names /\ op.do # "botched" /\ op # Idle /\ op' = Idle /\ op.conf \in ConfRecords
      /\ alloc' = Released(alloc, op.conf.table, op.conf.mark)
  BY OpKinds, OpFacts DEF RemoveDir, At, DeleteSteps, Succeeds
<1>2. disk'[op.n] = NoDir /\ \A m \in Names : m # op.n => disk'[m] = disk[m]
  BY <1>1, Zenon DEF RemoveDir, TypeInv
<1>3. Conf(op.n) = op.conf /\ op.n \in Profiles
  BY <1>1, ConfFacts, Zenon DEF StepInv, Profiles, Conf
<1>4. Profiles' = Profiles \ {op.n} /\ Profiles \subseteq Names /\ \A m \in Names \ {op.n} : Conf(m)' = Conf(m)
  BY <1>1, <1>2, NoDirTypes, Zenon DEF Profiles, Conf
<1>5. \A m \in Profiles' : m \in Profiles /\ Conf(m)' = Conf(m) /\ Conf(m).table # op.conf.table /\ Conf(m).mark # op.conf.mark
  BY <1>3, <1>4 DEF AllocInv, OwnedInv, AllocationsDistinct
<1>6. OwnTables \subseteq OwnTables' \cup {op.conf.table} /\ OwnMarks \subseteq OwnMarks' \cup {op.conf.mark}
  BY <1>3, <1>4, Zenon DEF OwnTables, OwnMarks
<1>7. PendingTables = {} /\ PendingMarks = {}
  BY <1>1, OpFacts, Zenon DEF PendingTables, PendingMarks
<1>8. \A n \in Names : Lost(n) => Lost(n)'
  BY <1>1, <1>2, <1>4, Zenon DEF Lost, Working
<1> QED
  BY <1>1, <1>5, <1>6, <1>7, <1>8, GivesBack

LEMMA CreateFailsOwns ==
    ASSUME TypeInv, AllocInv, CreateFails
    PROVE  AllocInv'
<1>1. op \in WriteOps /\ op.n \in Names /\ op.do = "create" /\ op # Idle /\ op.conf \in ConfRecords
  BY OpKinds, OpFacts, Zenon DEF CreateFails
<1>2. /\ op.table = op.conf.table /\ op.mark = op.conf.mark /\ op.release = 0
      /\ \A m \in Profiles \ {op.n} : Conf(m).table # op.conf.table /\ Conf(m).mark # op.conf.mark
      /\ Conf(op.n) \in {NoConf, op.conf}
  BY <1>1, Zenon DEF AllocInv, WriteInv
<1>3. CASE disk' = [disk EXCEPT ![op.n] = NoDir] /\ op' = Idle
  <2>1. disk'[op.n] = NoDir /\ \A m \in Names : m # op.n => disk'[m] = disk[m]
    BY <1>1, <1>3, Zenon DEF TypeInv
  <2>2. alloc' = Released(alloc, op.conf.table, op.conf.mark)
    BY <1>2 DEF CreateFails
  <2>3. Profiles' = Profiles \ {op.n} /\ Profiles \subseteq Names /\ \A m \in Names \ {op.n} : Conf(m)' = Conf(m)
    BY <1>1, <2>1, NoDirTypes, Zenon DEF Profiles, Conf
  <2>4. \A m \in Profiles' : m \in Profiles /\ Conf(m)' = Conf(m) /\ Conf(m).table # op.conf.table /\ Conf(m).mark # op.conf.mark
    BY <1>2, <2>3, Zenon
  <2>5. op.n \in Profiles => Conf(op.n) = op.conf
    BY <1>2 DEF Profiles, Conf
  <2>6. OwnTables \subseteq OwnTables' \cup {op.conf.table} /\ OwnMarks \subseteq OwnMarks' \cup {op.conf.mark}
    BY <2>3, <2>5, Zenon DEF OwnTables, OwnMarks
  <2>7. PendingTables \subseteq {op.conf.table} /\ PendingMarks \subseteq {op.conf.mark}
    BY <1>1, <1>2 DEF PendingTables, PendingMarks
  <2>8. \A n \in Names : Lost(n) => Lost(n)'
    BY <1>1, <1>3, <2>1, <2>3 DEF Lost, Working
  <2> QED
    BY <1>1, <1>3, <2>2, <2>4, <2>6, <2>7, <2>8, GivesBack
<1>4. CASE UNCHANGED disk /\ op' = [do |-> "botched", n |-> op.n, at |-> "end"]
  <2>1. op'.do = "botched" /\ op' \in BotchedOps
    BY <1>1, <1>4 DEF BotchedOps
  <2>2. Profiles' = Profiles /\ Profiles \subseteq Names /\ \A m \in Names : Conf(m)' = Conf(m)
    BY <1>4, SameProfiles, Zenon DEF SameConfs, Profiles
  <2>3. OwnedInv'
    BY <2>1, <2>2 DEF AllocInv, OwnedInv, AllocationsDistinct
  <2>4. WriteInv' /\ LeakInv'
    BY <2>1, OpFacts DEF WriteInv, LeakInv
  <2> QED
    BY <2>3, <2>4 DEF AllocInv
<1> QED
  BY <1>3, <1>4, Zenon DEF CreateFails

LEMMA UpdateFailsOwns ==
    ASSUME TypeInv, AllocInv, UpdateFails
    PROVE  AllocInv'
<1>1. op \in WriteOps /\ op.n \in Names /\ op.do = "update" /\ op # Idle /\ op' = Idle /\ UNCHANGED disk
  BY OpKinds, OpFacts DEF UpdateFails
<1>2. SameConfs /\ \A n \in Names : disk'[n].dir = disk[n].dir
  BY <1>1, Zenon DEF SameConfs
<1>3. CASE op.at \in UnitSteps
  BY <1>1, <1>2, <1>3, OldTableGivenBack, Zenon DEF UpdateFails
<1>4. CASE op.at \notin UnitSteps
  <2>1. /\ op.mark = 0 /\ op.n \in Profiles /\ op.table \in {0, op.conf.table}
        /\ op.table # 0 => Conf(op.n).table # op.conf.table
        /\ \A m \in Profiles \ {op.n} : Conf(m).table # op.conf.table
    BY <1>1, <1>4, Zenon DEF AllocInv, WriteInv
  <2>2. /\ Profiles' = Profiles /\ Profiles \subseteq Names /\ \A n \in Names : Conf(n)' = Conf(n)
        /\ OwnTables' = OwnTables /\ OwnMarks' = OwnMarks
    BY <1>2, SameProfiles, Zenon DEF Profiles
  <2>3. \A n \in Profiles : Conf(n).table # op.table /\ Conf(n).mark # op.mark
    BY <2>1, <2>2, ConfTypes, Zenon
  <2>4. PendingTables \subseteq {op.table} /\ PendingMarks \subseteq {op.mark}
    BY <1>4, Zenon DEF PendingTables, PendingMarks
  <2>5. \A n \in Names : Lost(n) => Lost(n)'
    BY <1>1, <2>2, Zenon DEF Lost, Working
  <2>6. alloc' = Released(alloc, op.table, op.mark) /\ op.do # "botched"
    BY <1>1, <1>4 DEF UpdateFails
  <2> QED
    BY <1>1, <2>2, <2>3, <2>4, <2>5, <2>6, GivesBack
<1> QED
  BY <1>3, <1>4, Zenon

\* A Delete that fails may leave a directory without vpn.conf; its table and
\* mark stay in use.
LEMMA DeleteFailsOwns ==
    ASSUME TypeInv, AllocInv, StepInv, WholeInv, DeleteFails
    PROVE  AllocInv'
<1>1. op \in DeleteOps /\ op.n \in Names /\ op # Idle /\ op' = Idle /\ alloc' = alloc /\ op.conf \in ConfRecords
  BY OpKinds, OpFacts, Zenon DEF DeleteFails
<1>2. Conf(op.n) = op.conf /\ op.n \in Profiles /\ disk[op.n].dir
  BY <1>1, ConfFacts, NoDirTypes, Zenon DEF StepInv, WholeInv, Profiles, Conf
<1>3. PendingTables' = PendingTables /\ PendingMarks' = PendingMarks /\ WriteInv'
  BY <1>1, OpFacts, Zenon DEF PendingTables, PendingMarks, WriteInv
<1>4. op.do # "botched" /\ op'.do # "botched"
  BY <1>1, OpFacts
<1>5. CASE SameConfs /\ \A n \in Names : disk'[n].dir = disk[n].dir
  <2>1. /\ Profiles' = Profiles /\ Profiles \subseteq Names /\ \A m \in Names : Conf(m)' = Conf(m)
        /\ OwnTables' = OwnTables /\ OwnMarks' = OwnMarks
    BY <1>5, SameProfiles, Zenon DEF Profiles
  <2>2. \A m \in Names : Lost(m) => Lost(m)'
    BY <1>1, <1>5, <2>1, Zenon DEF Lost, Working
  <2>3. OwnedInv'
    BY <1>1, <1>4, <2>1 DEF AllocInv, OwnedInv, AllocationsDistinct
  <2>4. LeakInv'
    BY <1>1, <1>3, <1>4, <2>1, <2>2, Zenon DEF AllocInv, LeakInv
  <2> QED
    BY <1>3, <2>3, <2>4, Zenon DEF AllocInv
<1>6. CASE disk' = [disk EXCEPT ![op.n].conf = NoConf]
  <2>1. /\ disk'[op.n].conf = NoConf /\ disk'[op.n].dir = disk[op.n].dir
        /\ \A m \in Names : m # op.n => disk'[m] = disk[m]
    BY <1>1, <1>6, Zenon DEF TypeInv, Dirs
  <2>2. Profiles' = Profiles \ {op.n} /\ \A m \in Names \ {op.n} : Conf(m)' = Conf(m)
    BY <1>1, <2>1, Zenon DEF Profiles, Conf
  <2>3. OwnedInv'
    <3>1. \A m \in Profiles' : m \in Profiles /\ Conf(m)' = Conf(m)
      BY <2>2 DEF Profiles
    <3> QED
      BY <1>1, <1>4, <3>1, Zenon DEF AllocInv, OwnedInv, AllocationsDistinct
  <2>4. \E m \in Names : Lost(m)'
    <3>1. PICK m \in Names : m = op.n
      BY <1>1
    <3>2. disk'[m].dir /\ m \notin Profiles' /\ op' = Idle
      BY <1>1, <1>2, <2>1, <2>2, <3>1, Zenon
    <3>3. Lost(m)'
      BY <3>2 DEF Lost, Working
    <3> QED
      BY <3>3
  <2>5. LeakInv'
    BY <2>4 DEF LeakInv
  <2> QED
    BY <1>3, <2>3, <2>5 DEF AllocInv
<1>7. CASE disk' = [disk EXCEPT ![op.n].files = [k \in Kinds |-> Absent]]
  <2>1. SameConfs /\ \A n \in Names : disk'[n].dir = disk[n].dir
    BY <1>1, <1>7 DEF TypeInv, Dirs, SameConfs
  <2> QED
    BY <1>5, <2>1
<1>8. CASE disk' = disk
  BY <1>5, <1>8 DEF SameConfs
<1> QED
  BY <1>6, <1>7, <1>8 DEF DeleteFails

\* A process that starts holds the values of the profiles on disk, and what
\* is sticky.
LEMMA RestartOwns ==
    ASSUME TypeInv, AllocInv, op' = Idle, UNCHANGED disk, NEW live \in Usage, NEW foreign \in Usage,
           alloc' = Seeded(live, foreign, Used({Conf(n) : n \in Profiles}))
    PROVE  AllocInv'
<1> DEFINE own == Used({Conf(n) : n \in Profiles})
<1>1. /\ Profiles' = Profiles /\ Profiles \subseteq Names /\ \A n \in Names : Conf(n)' = Conf(n)
      /\ OwnTables' = OwnTables /\ OwnMarks' = OwnMarks
  BY SameProfiles, Zenon DEF SameConfs, Profiles
<1>2. \A n \in Profiles : Conf(n).table # 0 /\ Conf(n).mark # 0
  BY <1>1, ConfTypes, Zenon
<1>3. own.tables = OwnTables /\ own.marks = OwnMarks
  BY <1>2 DEF Used, OwnTables, OwnMarks
<1>4. own \in Usage
  BY UsageTypes
<1> HIDE DEF own
<1>5. /\ alloc'.tables = alloc'.stickyTables \cup OwnTables
      /\ alloc'.marks = alloc'.stickyMarks \cup OwnMarks
  <2>1. PICK b \in Usage : b = own
    BY <1>4
  <2>2. alloc' = Seeded(live, foreign, b) /\ b.tables = OwnTables /\ b.marks = OwnMarks
    BY <1>3, <2>1, Zenon DEF own
  <2>3. LET a == Seeded(live, foreign, b)
        IN a.tables = a.stickyTables \cup b.tables /\ a.marks = a.stickyMarks \cup b.marks
    BY SeededHas
  <2> QED
    BY <2>2, <2>3, Zenon
<1>6. OwnedInv'
  <2>1. AllocationsDistinct'
    <3>1. AllocationsDistinct
      BY Zenon DEF AllocInv, OwnedInv
    <3>2. Profiles' = Profiles /\ \A n \in Profiles : Conf(n)' = Conf(n)
      BY <1>1, Zenon
    <3> QED
      BY <3>1, <3>2 DEF AllocationsDistinct
  <2>2. \A n \in Profiles : Conf(n).table \in OwnTables /\ Conf(n).mark \in OwnMarks
    BY Zenon DEF OwnTables, OwnMarks
  <2>3. \A n \in Profiles' : Conf(n)'.table \in alloc'.tables /\ Conf(n)'.mark \in alloc'.marks
    BY <1>1, <1>5, <2>2, Zenon
  <2> QED
    BY <2>1, <2>3, Zenon DEF OwnedInv
<1>7. WriteInv' /\ PendingTables' = {} /\ PendingMarks' = {}
  BY OpFacts DEF WriteInv, PendingTables, PendingMarks
<1>8. LeakInv'
  BY <1>1, <1>5, <1>7 DEF LeakInv
<1> QED
  BY <1>6, <1>7, <1>8, Zenon DEF AllocInv

LEMMA AllocStep ==
    ASSUME TypeInv, AllocInv, StepInv, WholeInv, [VNext]_vpnVars
    PROVE  AllocInv'
<1>1. CASE UNCHANGED vpnVars
  BY <1>1, AllocFrame, SMTT(30) DEF vpnVars, SameConfs, SameRequest
<1>2. ASSUME NEW n \in Names, StartUnit(n) \/ StopUnit(n) PROVE AllocInv'
  BY <1>2, AllocFrame, Zenon DEF StartUnit, StopUnit, SameConfs, SameRequest
<1>3. CASE ApplyRouting \/ PeaceyAdds
  BY <1>3, AllocFrame, Zenon DEF ApplyRouting, PeaceyAdds, SameConfs, SameRequest
<1>4. ASSUME op \in WriteOps, NEW s \in WriteSteps, Next1(s), s \in UnitSteps <=> op.at \in UnitSteps
      PROVE  SameRequest
  BY <1>4, WriteMoves DEF SameRequest
<1>5. ASSUME op \in DeleteOps, NEW s \in DeleteSteps, Next1(s)
      PROVE  SameRequest
  BY <1>5, DeleteMoves, Zenon DEF SameRequest
<1>6. CASE MakeDir
  <2>1. SameRequest /\ alloc' = alloc /\ op.n \in Names
    BY <1>4, <1>6, OpKinds DEF MakeDir, At, WriteSteps, UnitSteps
  <2>2. SameConfs /\ \A n \in Names : disk[n].dir => disk'[n].dir
    BY <1>6, <2>1, Zenon DEF MakeDir, TypeInv, Dirs, SameConfs
  <2> QED
    BY <2>1, <2>2, AllocFrame
<1>7. CASE WriteConfig
  <2>1. SameRequest /\ alloc' = alloc /\ op.n \in Names
    BY <1>4, <1>7, OpKinds, Zenon DEF WriteConfig, At, WriteSteps, UnitSteps
  <2>2. SameConfs /\ \A n \in Names : disk[n].dir => disk'[n].dir
    BY <1>7, <2>1, WriteConfigWrites DEF SameConfs
  <2> QED
    BY <2>1, <2>2, AllocFrame
<1>8. CASE WriteUnit \/ EnsureSymlink
  <2>1. SameRequest
    BY <1>4, <1>8, OpKinds DEF WriteUnit, EnsureSymlink, At, WriteSteps, UnitSteps
  <2> QED
    BY <1>8, <2>1, AllocFrame DEF WriteUnit, EnsureSymlink, SameConfs
<1>9. CASE RemoveUnitFile \/ RemoveLink \/ Unload
  <2>1. SameRequest
    BY <1>5, <1>9, OpKinds, Zenon DEF RemoveUnitFile, RemoveLink, Unload, At, DeleteSteps
  <2> QED
    BY <1>9, <2>1, AllocFrame DEF RemoveUnitFile, RemoveLink, Unload, SameConfs
<1>10. CASE ReloadAndFinish
  <2>1. /\ op \in WriteOps /\ op.n \in Names /\ op.at \in UnitSteps /\ op' = Idle
        /\ alloc' = Released(alloc, op.release, 0)
    BY <1>10, OpKinds DEF ReloadAndFinish, At, WriteSteps, UnitSteps, Succeeds
  <2>2. SameConfs /\ \A n \in Names : disk'[n].dir = disk[n].dir
    BY <1>10, <2>1 DEF ReloadAndFinish, TypeInv, Dirs, SameConfs
  <2> QED
    BY <2>1, <2>2, OldTableGivenBack
<1>11. CASE Restart
  BY <1>11, UsageTypes, RestartOwns, Zenon DEF Restart, Killed, Seed
<1>12. CASE Reboot
  <2>1. Used({}) \in Usage
    BY DEF Used, Usage
  <2> QED
    BY <1>12, <2>1, UsageTypes, RestartOwns, Zenon DEF Reboot, Killed
<1> QED
  BY <1>1, <1>2, <1>3, <1>6, <1>7, <1>8, <1>9, <1>10, <1>11, <1>12, StartCases, BeginOwns, DeleteOwns,
     WriteConfOwns, RemoveDirOwns, CreateFailsOwns, UpdateFailsOwns, DeleteFailsOwns, SMTT(30) DEF VNext, Steps

-----------------------------------------------------------------------------
-----------------------------------------------------------------------------
\* The files and the units.
FilesInv == StepInv /\ WholeInv

\* A reload and a boot change nothing about a unit that is linked and loaded.
LEMMA WholeLoaded ==
    ASSUME TypeInv, NEW n \in Names, Whole(n)
    PROVE  /\ unit[n].link = (unit[n].file # NoUnit) /\ unit[n].loaded = unit[n].file
           /\ \A units \in [Names -> Units] : units[n] = unit[n] => Reloaded(units)[n] = unit[n]
           /\ [file |-> unit[n].file, link |-> unit[n].file # NoUnit, loaded |-> unit[n].file] = unit[n]
<1>1. PICK u : unit[n] = [file |-> u, link |-> u # NoUnit, loaded |-> u]
  BY SMTT(30) DEF Whole, UnitIs
<1>2. unit[n].file = u /\ unit[n].link = (u # NoUnit) /\ unit[n].loaded = u
  BY <1>1
<1>3. ASSUME NEW units \in [Names -> Units], units[n] = unit[n]
      PROVE  Reloaded(units)[n] = unit[n]
  <2>1. Reloaded(units)[n] = [unit[n] EXCEPT !.loaded = IF unit[n].link THEN unit[n].file ELSE NoUnit]
    BY <1>3 DEF Reloaded
  <2>2. (IF unit[n].link THEN unit[n].file ELSE NoUnit) = u
    BY <1>2, Zenon
  <2> QED
    BY <1>1, <2>1, <2>2
<1> QED
  BY <1>1, <1>2, <1>3

LEMMA WholeSame ==
    ASSUME NEW n \in Names, disk'[n] = disk[n], unit'[n] = unit[n]
    PROVE  Whole(n)' <=> Whole(n)
BY DEF Whole, UnitIs, Profiles, Conf

\* A step leaves the names alone that no request is about.
OthersLeftAlone == \A m \in Names : ~Working(m) => disk'[m] = disk[m] /\ (Whole(m) => unit'[m] = unit[m])

LEMMA WholeKept ==
    ASSUME WholeInv, OthersLeftAlone,
           \A m \in Names : Working(m) /\ ~disk'[m].dir => disk'[m] = NoDir,
           \A m \in Names : m \notin torn' /\ ~Working(m)' => (m \notin torn /\ ~Working(m)) \/ Whole(m)'
    PROVE  WholeInv'
<1>1. ASSUME NEW m \in Names, ~disk'[m].dir PROVE disk'[m] = NoDir
  BY <1>1 DEF WholeInv, OthersLeftAlone
<1>2. ASSUME NEW m \in Names, m \notin torn', ~Working(m)' PROVE Whole(m)'
  <2>1. CASE m \notin torn /\ ~Working(m)
    BY <2>1, WholeSame DEF WholeInv, OthersLeftAlone
  <2> QED
    BY <1>2, <2>1
<1> QED
  BY <1>1, <1>2 DEF WholeInv

\* A request goes on with its next step.
LEMMA GoesOn ==
    ASSUME WholeInv, OthersLeftAlone, op # Idle, op' # Idle, op'.n = op.n, torn' = torn,
           ~disk'[op.n].dir => disk'[op.n] = NoDir
    PROVE  WholeInv'
BY WholeKept DEF Working

\* A request ends with its name damaged, or whole.
LEMMA Ends ==
    ASSUME WholeInv, OthersLeftAlone, op # Idle, op' = Idle,
           ~disk'[op.n].dir => disk'[op.n] = NoDir,
           \A m \in Names : m # op.n /\ m \notin torn' => m \notin torn,
           \A m \in Names : m = op.n /\ m \notin torn' => Whole(m)'
    PROVE  WholeInv' /\ StepInv'
<1>1. WholeInv'
  BY WholeKept DEF Working
<1> QED
  BY <1>1, OpFacts DEF StepInv

LEMMA BeginFiles ==
    ASSUME TypeInv, FilesInv, NEW do, NEW n, NEW req, Starts(do, n, req)
    PROVE  FilesInv'
<1>1. UNCHANGED <<disk, unit, torn>> /\ op = Idle
  BY BeginGives DEF Starts, history
<1>2. op' = Idle \/ (op' \in WriteOps /\ op'.at = "dir")
  BY BeginGives
<1>3. WholeInv'
  BY <1>1, WholeKept DEF FilesInv, OthersLeftAlone, Working, WholeInv
<1>4. StepInv'
  BY <1>2, OpFacts DEF StepInv, UnitSteps
<1> QED
  BY <1>3, <1>4 DEF FilesInv

LEMMA DeleteFiles ==
    ASSUME TypeInv, FilesInv, NEW n \in Names, Delete(n)
    PROVE  FilesInv'
<1>1. UNCHANGED <<disk, unit, torn>> /\ op = Idle
  BY DEF Delete, history
<1>2. op' \in DeleteOps /\ op'.at = "rmfile" /\ op'.n = n /\ op'.conf = Conf(n)
  <2>1. Conf(n) \in ConfRecords
    BY ConfTypes DEF Delete, Readable
  <2> QED
    BY <2>1 DEF Delete, DeleteOps, DeleteSteps
<1>3. WholeInv'
  BY <1>1, WholeKept DEF FilesInv, OthersLeftAlone, Working, WholeInv
<1>4. StepInv'
  BY <1>1, <1>2, OpFacts DEF StepInv, Conf
<1> QED
  BY <1>3, <1>4 DEF FilesInv

\* The steps of Create and Update before the reload.
LEMMA WriteFiles ==
    ASSUME TypeInv, FilesInv, AllocInv, MakeDir \/ WriteConfig \/ WriteConf \/ WriteUnit \/ EnsureSymlink
    PROVE  FilesInv'
<1>1. op \in WriteOps /\ op.n \in Names /\ op # Idle /\ op.conf \in ConfRecords
  BY OpKinds, OpFacts DEF MakeDir, WriteConfig, WriteConf, WriteUnit, EnsureSymlink, At, WriteSteps
<1>2. /\ op.at # "dir" => disk[op.n].dir
      /\ op.at \in {"conf"} \cup UnitSteps => disk[op.n].files[op.conf.kind] = FileFor(op.conf)
      /\ op.at \in {"link", "reload"} => unit[op.n].file = UnitFor(op.conf)
  BY <1>1 DEF FilesInv, StepInv
<1>3. torn' = torn
  BY DEF MakeDir, WriteConfig, WriteConf, WriteUnit, EnsureSymlink, history
<1>4. ASSUME NEW s \in WriteSteps, Next1(s), \A m \in Names : m # op.n => disk'[m] = disk[m] /\ unit'[m] = unit[m],
             disk'[op.n].dir,
             s \in {"conf"} \cup UnitSteps => disk'[op.n].files[op.conf.kind] = FileFor(op.conf),
             s \in {"link", "reload"} => unit'[op.n].file = UnitFor(op.conf),
             s = "reload" => unit'[op.n].link
      PROVE  FilesInv'
  <2>1. op' \in WriteOps /\ op'.at = s /\ op'.n = op.n /\ op'.conf = op.conf /\ op' # Idle
    BY <1>1, <1>4, WriteMoves, OpFacts, Zenon
  <2>2. OthersLeftAlone
    BY <1>1, <1>4 DEF OthersLeftAlone, Working
  <2>3. WholeInv'
    BY <1>1, <1>3, <1>4, <2>1, <2>2, GoesOn, Zenon DEF FilesInv
  <2>4. StepInv'
    BY <1>4, <2>1, OpFacts, Zenon DEF StepInv
  <2> QED
    BY <2>3, <2>4 DEF FilesInv
<1>5. CASE MakeDir
  <2>1. disk'[op.n].dir = TRUE /\ \A m \in Names : m # op.n => disk'[m] = disk[m]
    BY <1>1, <1>5 DEF MakeDir, TypeInv, Dirs
  <2> QED
    BY <1>4, <1>5, <2>1 DEF MakeDir, WriteSteps, UnitSteps
<1>6. CASE WriteConfig
  <2>1. op.at = "config" /\ Next1("conf") /\ unit' = unit
    BY <1>6, SMTT(30) DEF WriteConfig, At
  <2> QED
    BY <1>2, <1>4, <1>6, <2>1, WriteConfigWrites, Zenon DEF WriteSteps, UnitSteps
<1>7. CASE WriteConf
  <2>1. op.at = "conf" /\ Next1("unit") /\ unit' = unit
    BY <1>7 DEF WriteConf, At
  <2>2. /\ disk'[op.n].dir = disk[op.n].dir /\ disk'[op.n].files = disk[op.n].files
        /\ \A m \in Names : m # op.n => disk'[m] = disk[m]
    BY <1>1, <1>7, SMTT(30) DEF WriteConf, TypeInv, Dirs
  <2> QED
    BY <1>2, <1>4, <2>1, <2>2 DEF WriteSteps, UnitSteps
<1>8. CASE WriteUnit
  <2>1. op.at = "unit" /\ Next1("link") /\ disk' = disk
    BY <1>8 DEF WriteUnit, At
  <2>2. unit'[op.n].file = UnitFor(op.conf) /\ \A m \in Names : m # op.n => unit'[m] = unit[m]
    BY <1>1, <1>8, SMTT(30) DEF WriteUnit, TypeInv, Units
  <2> QED
    BY <1>2, <1>4, <2>1, <2>2 DEF WriteSteps, UnitSteps
<1>9. CASE EnsureSymlink
  <2>1. op.at = "link" /\ Next1("reload") /\ disk' = disk
    BY <1>9 DEF EnsureSymlink, At
  <2>2. /\ unit'[op.n].link = TRUE /\ unit'[op.n].file = unit[op.n].file
        /\ \A m \in Names : m # op.n => unit'[m] = unit[m]
    BY <1>1, <1>9 DEF EnsureSymlink, TypeInv, Units
  <2> QED
    BY <1>2, <1>4, <2>1, <2>2 DEF WriteSteps, UnitSteps
<1> QED
  BY <1>5, <1>6, <1>7, <1>8, <1>9

\* A reload leaves the units alone of all names that are whole.
LEMMA ReloadLeaves ==
    ASSUME TypeInv, NEW m \in Names, Whole(m)
    PROVE  Reloaded(unit)[m] = unit[m]
BY WholeLoaded, Zenon DEF TypeInv

LEMMA FinishFiles ==
    ASSUME TypeInv, FilesInv, AllocInv, ReloadAndFinish
    PROVE  FilesInv'
<1>1. /\ op \in WriteOps /\ op.n \in Names /\ op # Idle /\ op.conf \in ConfRecords /\ op.at = "reload"
      /\ op' = Idle /\ torn' = torn \ {op.n} /\ unit' = Reloaded(unit)
  BY OpKinds, OpFacts, Zenon DEF ReloadAndFinish, At, WriteSteps, Succeeds
<1>2. /\ disk[op.n].dir /\ disk[op.n].files[op.conf.kind] = FileFor(op.conf)
      /\ unit[op.n].file = UnitFor(op.conf) /\ unit[op.n].link /\ Conf(op.n) = op.conf
  BY <1>1 DEF FilesInv, StepInv, AllocInv, WriteInv, UnitSteps
<1>3. PICK n \in Names, c \in ConfRecords : n = op.n /\ c = op.conf
  BY <1>1
<1>4. /\ disk'[n].dir = disk[n].dir /\ disk'[n].conf = disk[n].conf
      /\ disk'[n].files = [k \in Kinds |-> IF k = c.kind THEN disk[n].files[k] ELSE Absent]
      /\ \A m \in Names : m # n => disk'[m] = disk[m]
  BY <1>1, <1>3, Zenon DEF ReloadAndFinish, TypeInv, Dirs
<1>5. disk'[n].files = [k \in Kinds |-> IF k # c.kind THEN Absent ELSE FileFor(c)]
  BY <1>2, <1>3, <1>4
<1>6. unit'[n] = [file |-> UnitFor(c), link |-> TRUE, loaded |-> UnitFor(c)]
  <2>1. unit[n] = [file |-> unit[n].file, link |-> unit[n].link, loaded |-> unit[n].loaded] /\ unit[n].link = TRUE
    BY <1>2, <1>3 DEF TypeInv, Units
  <2>2. unit'[n] = [unit[n] EXCEPT !.loaded = UnitFor(c)]
    BY <1>1, <1>2, <1>3 DEF Reloaded
  <2> QED
    BY <1>2, <1>3, <2>1, <2>2, Zenon
<1>7. Whole(n)'
  <2>1. disk'[n].conf = c /\ n \in Profiles' /\ disk'[n].dir
    BY <1>2, <1>3, <1>4, ConfFacts DEF Profiles, Conf
  <2>2. UnitFor(c) # NoUnit
    BY UnitTypes
  <2>3. unit'[n] = [file |-> UnitFor(c), link |-> UnitFor(c) # NoUnit, loaded |-> UnitFor(c)]
    BY <1>6, <2>2, Zenon
  <2> QED
    BY <1>5, <2>1, <2>3, Zenon DEF Whole, UnitIs, Conf
<1>8. OthersLeftAlone
  BY <1>1, <1>3, <1>4, ReloadLeaves DEF OthersLeftAlone, Working
<1> QED
  BY <1>1, <1>2, <1>3, <1>4, <1>7, <1>8, Ends, Zenon DEF FilesInv

\* The steps of Delete before it removes the directory.
LEMMA RemoveFiles ==
    ASSUME TypeInv, FilesInv, RemoveUnitFile \/ RemoveLink \/ Unload
    PROVE  FilesInv'
<1>1. op \in DeleteOps /\ op.n \in Names /\ op # Idle
  BY OpKinds, OpFacts DEF RemoveUnitFile, RemoveLink, Unload, At, DeleteSteps
<1>2. /\ Conf(op.n) = op.conf
      /\ op.at # "rmfile" => unit[op.n].file = NoUnit
      /\ op.at \in {"unload", "rmdir"} => ~unit[op.n].link
  BY <1>1 DEF FilesInv, StepInv
<1>3. torn' = torn /\ disk' = disk
  BY DEF RemoveUnitFile, RemoveLink, Unload, history
<1>4. ASSUME NEW s \in DeleteSteps, Next1(s), \A m \in Names : m # op.n => (Whole(m) => unit'[m] = unit[m]),
             s # "rmfile" => unit'[op.n].file = NoUnit,
             s \in {"unload", "rmdir"} => ~unit'[op.n].link,
             s = "rmdir" => unit'[op.n].loaded = NoUnit
      PROVE  FilesInv'
  <2>1. op' \in DeleteOps /\ op'.at = s /\ op'.n = op.n /\ op'.conf = op.conf /\ op' # Idle
    BY <1>1, <1>4, DeleteMoves, OpFacts
  <2>2. OthersLeftAlone
    BY <1>1, <1>3, <1>4 DEF OthersLeftAlone, Working
  <2>3. WholeInv'
    <3>1. ~disk'[op.n].dir => disk'[op.n] = NoDir
      BY <1>1, <1>3, Zenon DEF FilesInv, WholeInv
    <3> QED
      BY <1>1, <1>3, <2>1, <2>2, <3>1, GoesOn, Zenon DEF FilesInv
  <2>4. StepInv'
    BY <1>2, <1>3, <1>4, <2>1, OpFacts DEF StepInv, Conf
  <2> QED
    BY <2>3, <2>4 DEF FilesInv
<1>5. CASE RemoveUnitFile
  <2>1. unit'[op.n].file = NoUnit /\ \A m \in Names : m # op.n => unit'[m] = unit[m]
    BY <1>1, <1>5, Zenon DEF RemoveUnitFile, TypeInv, Units
  <2> QED
    BY <1>4, <1>5, <2>1 DEF RemoveUnitFile, DeleteSteps
<1>6. CASE RemoveLink
  <2>1. /\ unit'[op.n].link = FALSE /\ unit'[op.n].file = unit[op.n].file
        /\ \A m \in Names : m # op.n => unit'[m] = unit[m]
    BY <1>1, <1>6 DEF RemoveLink, TypeInv, Units
  <2>2. op.at = "rmlink" /\ Next1("unload")
    BY <1>6 DEF RemoveLink, At
  <2> QED
    BY <1>2, <1>4, <2>1, <2>2 DEF DeleteSteps
<1>7. CASE Unload
  <2>1. op.at = "unload" /\ Next1("rmdir") /\ unit' = Reloaded(unit)
    BY <1>7 DEF Unload, At
  <2>2. unit'[op.n].file = unit[op.n].file /\ unit'[op.n].link = unit[op.n].link /\ unit'[op.n].loaded = NoUnit
    BY <1>1, <1>2, <2>1 DEF Reloaded, TypeInv, Units
  <2> QED
    BY <1>2, <1>4, <2>1, <2>2, ReloadLeaves DEF DeleteSteps
<1> QED
  BY <1>5, <1>6, <1>7

LEMMA RemoveDirFiles ==
    ASSUME TypeInv, FilesInv, RemoveDir
    PROVE  FilesInv'
<1>1. /\ op \in DeleteOps /\ op.n \in Names /\ op # Idle /\ op.at = "rmdir"
      /\ op' = Idle /\ torn' = torn \ {op.n} /\ unit' = unit
  BY OpKinds, OpFacts DEF RemoveDir, At, DeleteSteps, Succeeds
<1>2. PICK n \in Names : n = op.n
  BY <1>1
<1>3. disk'[n] = NoDir /\ \A m \in Names : m # n => disk'[m] = disk[m]
  BY <1>1, <1>2, Zenon DEF RemoveDir, TypeInv
<1>4. unit[n].file = NoUnit /\ unit[n].link = FALSE /\ unit[n].loaded = NoUnit
  BY <1>1, <1>2 DEF FilesInv, StepInv, TypeInv, Units
<1>5. unit'[n] = [file |-> NoUnit, link |-> NoUnit # NoUnit, loaded |-> NoUnit]
  BY <1>1, <1>4, Zenon DEF TypeInv, Units
<1>6. Whole(n)'
  BY <1>3, <1>5, NoDirTypes, Zenon DEF Whole, UnitIs, Profiles
<1>7. OthersLeftAlone
  BY <1>1, <1>2, <1>3 DEF OthersLeftAlone, Working
<1> QED
  BY <1>1, <1>2, <1>3, <1>6, <1>7, Ends, Zenon DEF FilesInv

LEMMA FailureFiles ==
    ASSUME TypeInv, FilesInv, CreateFails \/ UpdateFails \/ DeleteFails
    PROVE  FilesInv'
<1>1. op # Idle /\ op.n \in Names /\ torn' = torn \cup {op.n} /\ unit' = unit
  BY OpKinds DEF CreateFails, UpdateFails, DeleteFails
<1>2. /\ \A m \in Names : m # op.n => disk'[m] = disk[m]
      /\ ~disk'[op.n].dir => disk'[op.n] = NoDir
  <2>1. ~disk[op.n].dir => disk[op.n] = NoDir
    BY <1>1, Zenon DEF FilesInv, WholeInv
  <2>2. CASE CreateFails \/ UpdateFails
    BY <1>1, <2>1, <2>2 DEF CreateFails, UpdateFails, TypeInv
  <2>3. CASE DeleteFails
    <3>1. op \in DeleteOps /\ op.conf \in ConfRecords
      BY <2>3, OpKinds, OpFacts, Zenon DEF DeleteFails
    <3>2. disk[op.n].dir
      BY <1>1, <2>1, <3>1, ConfFacts, NoDirTypes, Zenon DEF FilesInv, StepInv, Conf
    <3>3. CASE disk' = disk
      BY <2>1, <3>3
    <3>4. CASE disk' = [disk EXCEPT ![op.n].conf = NoConf]
      BY <1>1, <3>2, <3>4 DEF TypeInv, Dirs
    <3>5. CASE disk' = [disk EXCEPT ![op.n].files = [k \in Kinds |-> Absent]]
      BY <1>1, <3>2, <3>5, Zenon DEF TypeInv, Dirs
    <3> QED
      BY <2>3, <3>3, <3>4, <3>5 DEF DeleteFails
  <2> QED
    BY <2>2, <2>3
<1>3. OthersLeftAlone
  BY <1>1, <1>2 DEF OthersLeftAlone, Working
<1>4. CASE op' = Idle
  BY <1>1, <1>2, <1>3, <1>4, Ends, Zenon DEF FilesInv
<1>5. CASE op' = [do |-> "botched", n |-> op.n, at |-> "end"]
  <2>1. op' \in BotchedOps /\ op'.n = op.n
    BY <1>1, <1>5, Zenon DEF BotchedOps
  <2>2. StepInv'
    BY <1>1, <2>1, OpFacts DEF StepInv
  <2>3. WholeInv'
    BY <1>1, <1>2, <1>3, WholeKept DEF FilesInv, Working
  <2> QED
    BY <2>2, <2>3 DEF FilesInv
<1> QED
  BY <1>4, <1>5 DEF CreateFails, UpdateFails, DeleteFails

\* A kill damages the name of the request; a boot links and loads every unit.
LEMMA KilledFiles ==
    ASSUME TypeInv, FilesInv, Restart \/ Reboot
    PROVE  FilesInv'
<1>1. op' = Idle /\ disk' = disk
  BY DEF Restart, Reboot, Killed
<1>2. \A m \in Names : m \notin torn' => m \notin torn /\ ~Working(m)
  <2>1. CASE op = Idle
    BY <2>1, OpFacts, Zenon DEF Working, Restart, Reboot, Killed
  <2>2. CASE op \in BotchedOps
    BY <2>2, OpFacts DEF Working, Restart, Reboot, Killed, FilesInv, StepInv
  <2>3. CASE op \in WriteOps \cup DeleteOps
    BY <2>3, OpFacts DEF Working, Restart, Reboot, Killed
  <2> QED
    BY <2>1, <2>2, <2>3, Zenon DEF TypeInv
<1>3. \A m \in Names : Whole(m) => unit'[m] = unit[m]
  <2>1. CASE Restart
    BY <2>1, Zenon DEF Restart
  <2>2. CASE Reboot
    BY <2>2, WholeLoaded DEF Reboot
  <2> QED
    BY <2>1, <2>2
<1>4. OthersLeftAlone
  BY <1>1, <1>3 DEF OthersLeftAlone
<1>5. \A m \in Names : ~disk'[m].dir => disk'[m] = NoDir
  BY <1>1 DEF FilesInv, WholeInv
<1>6. WholeInv'
  BY <1>2, <1>4, <1>5, WholeKept, Zenon DEF FilesInv
<1>7. StepInv'
  BY <1>1, OpFacts DEF StepInv
<1> QED
  BY <1>6, <1>7 DEF FilesInv

\* A start restores a missing link, but only of a unit file that is there.
LEMMA StartFiles ==
    ASSUME TypeInv, FilesInv, NEW n \in Names, StartUnit(n)
    PROVE  FilesInv'
<1> DEFINE restore == unit[n].file # NoUnit /\ ~unit[n].link
           linked == [unit EXCEPT ![n].link = TRUE]
<1>1. /\ op # Idle => op.n = n
      /\ UNCHANGED <<disk, op, torn>>
      /\ unit' = IF restore THEN Reloaded(linked) ELSE unit
  BY Zenon DEF StartUnit, history
<1>2. /\ linked \in [Names -> Units] /\ linked[n].file = unit[n].file /\ linked[n].link = TRUE
      /\ \A m \in Names : m # n => linked[m] = unit[m]
  BY Zenon DEF TypeInv, Units
<1>3. \A m \in Names : Whole(m) => unit'[m] = unit[m]
  <2> SUFFICES ASSUME NEW m \in Names, Whole(m), restore PROVE Reloaded(linked)[m] = unit[m]
    BY <1>1, Zenon
  <2>1. m # n
    BY WholeLoaded, Zenon
  <2> QED
    BY <1>2, <2>1, WholeLoaded, Zenon
<1>4. restore => unit'[n].file = unit[n].file /\ unit'[n].link = TRUE
  BY <1>1, <1>2, Zenon DEF Reloaded, Units
<1>5. OthersLeftAlone /\ \A m \in Names : Working(m)' <=> Working(m)
  BY <1>1, <1>3, Zenon DEF OthersLeftAlone, Working
<1>6. WholeInv'
  BY <1>1, <1>5, WholeKept, SMTT(30) DEF FilesInv, WholeInv
<1>7. CASE ~restore
  <2>1. unit' = unit
    BY <1>1, <1>7
  <2> QED
    BY <1>1, <1>6, <2>1 DEF FilesInv, StepInv, Conf
<1>8. CASE restore
  <2>1. op \in WriteOps \cup DeleteOps => op.n = n
    BY <1>1, OpFacts, Zenon
  <2>2. op \in DeleteOps => op.at = "rmfile"
    BY <1>8, <2>1, Zenon DEF FilesInv, StepInv
  <2> HIDE DEF restore, linked
  <2>3. StepInv'
    BY <1>1, <1>4, <1>8, <2>1, <2>2, Zenon DEF FilesInv, StepInv, Conf
  <2> QED
    BY <1>6, <2>3 DEF FilesInv
<1> QED
  BY <1>7, <1>8, SMTT(30)

LEMMA FilesStep ==
    ASSUME TypeInv, AllocInv, FilesInv, [VNext]_vpnVars
    PROVE  FilesInv'
<1>1. ASSUME UNCHANGED <<disk, unit, op, torn>> PROVE FilesInv'
  <2>1. \A m \in Names : Whole(m)' <=> Whole(m)
    BY <1>1, WholeSame, Zenon
  <2> QED
    BY <1>1, <2>1, Zenon DEF FilesInv, StepInv, WholeInv, Conf, Working
<1>2. CASE UNCHANGED vpnVars \/ ApplyRouting \/ PeaceyAdds
  BY <1>1, <1>2 DEF vpnVars, ApplyRouting, PeaceyAdds, history
<1>3. ASSUME NEW n \in Names, StopUnit(n) PROVE FilesInv'
  BY <1>1, <1>3 DEF StopUnit, history
<1> QED
  BY <1>2, <1>3, StartCases, BeginFiles, DeleteFiles, WriteFiles, FinishFiles, RemoveFiles, RemoveDirFiles,
     FailureFiles, KilledFiles, StartFiles, SMTT(30) DEF VNext, Steps

-----------------------------------------------------------------------------
LEMMA InitInv == VInit => TypeInv /\ AllocInv /\ FilesInv
<1> SUFFICES ASSUME VInit PROVE TypeInv /\ AllocInv /\ FilesInv
  OBVIOUS
<1>1. Used({}) \in Usage /\ Used({}).tables = {} /\ Used({}).marks = {}
  BY DEF Used, Usage
<1>2. alloc \in Sound /\ alloc.tables = alloc.stickyTables /\ alloc.marks = alloc.stickyMarks
  <2>1. PICK none \in Usage : none = Used({})
    BY <1>1
  <2>2. LET a == Seeded(none, none, none)
        IN a \in Sound /\ a.tables = a.stickyTables \cup none.tables /\ a.marks = a.stickyMarks \cup none.marks
    BY SeededHas
  <2>3. alloc = Seeded(none, none, none) /\ none.tables = {} /\ none.marks = {}
    BY <1>1, <2>1 DEF VInit
  <2> QED
    BY <2>2, <2>3
<1>3. op = Idle /\ Profiles = {} /\ \A n \in Names : disk[n] = NoDir
  BY NoDirTypes DEF VInit, Profiles
<1>4. TypeInv
  <2>1. disk \in [Names -> Dirs]
    BY NoDirTypes DEF VInit
  <2>2. unit \in [Names -> Units]
    BY DEF VInit, Units, UnitFiles
  <2>3. active \in [Names -> [table : {Absent, 0} \cup Tables, dev : Devs \cup {"none"}]]
    BY DEF VInit, Down
  <2>4. faults \in 0..MaxFaults
    BY FaultsAssumption DEF VInit
  <2> QED
    BY <1>2, <2>1, <2>2, <2>3, <2>4, Zenon DEF VInit, TypeInv
<1>5. OwnedInv /\ WriteInv
  BY <1>3, OpFacts, Zenon DEF OwnedInv, AllocationsDistinct, WriteInv
<1>6. LeakInv
  BY <1>2, <1>3, OpFacts, Zenon DEF LeakInv, OwnTables, OwnMarks, PendingTables, PendingMarks
<1>7. StepInv
  BY <1>3, OpFacts DEF StepInv
<1>8. WholeInv
  BY <1>3, Zenon DEF WholeInv, Whole, UnitIs, VInit
<1> QED
  BY <1>4, <1>5, <1>6, <1>7, <1>8 DEF AllocInv, FilesInv

LEMMA InvHolds == VSpec => [](TypeInv /\ AllocInv /\ FilesInv)
<1>1. TypeInv /\ AllocInv /\ FilesInv /\ [VNext]_vpnVars => (TypeInv /\ AllocInv /\ FilesInv)'
  BY TypeStep, AllocStep, FilesStep DEF FilesInv
<1> QED
  BY <1>1, InitInv, PTL DEF VSpec

\* The state of the manager, of systemd's units and of the allocator has its
\* type, whatever fails or is killed.
THEOREM VPNTypeCorrect == VSpec => []VTypeOK
<1>1. TypeInv => VTypeOK
  <2> SUFFICES ASSUME TypeInv PROVE VTypeOK
    OBVIOUS
  <2>1. \A n \in Names : /\ disk[n].dir \in BOOLEAN /\ disk[n].files \in [Kinds -> {Absent, 0} \cup Tables]
                         /\ Conf(n) \in {NoConf} \cup ConfRecords
    BY DEF TypeInv, Dirs, Conf
  <2>2. \A n \in Names : Conf(n).kind \in Kinds \cup {"none"}
    BY <2>1 DEF NoConf, ConfRecords
  <2> QED
    BY <2>1, <2>2, ConfTypes DEF TypeInv, VTypeOK, Sound
<1> QED
  BY <1>1, InvHolds, PTL

\* Create, Update and Delete never give two profiles one table, one mark or
\* one interface: every error path releases what no vpn.conf refers to.
THEOREM AllocationsStayDistinct == VSpec => []AllocationsDistinct
<1>1. AllocInv => AllocationsDistinct
  BY DEF AllocInv, OwnedInv
<1> QED
  BY <1>1, InvHolds, PTL

\* A request that is refused or fails leaves the allocator with the values of
\* the profiles and the sticky ones, unless its name was damaged.
THEOREM NothingEverLeaks == VSpec => []NothingLeaks
<1>1. TypeInv /\ AllocInv /\ FilesInv => NothingLeaks
  <2> SUFFICES ASSUME TypeInv, AllocInv, FilesInv, op = Idle, torn = {}
               PROVE  /\ alloc.tables = alloc.stickyTables \cup Used({Conf(n) : n \in Profiles}).tables
                      /\ alloc.marks = alloc.stickyMarks \cup Used({Conf(n) : n \in Profiles}).marks
    BY DEF NothingLeaks
  <2>1. \A n \in Names : ~Lost(n)
    BY NoDirTypes, Zenon DEF FilesInv, WholeInv, Whole, Lost, Working
  <2>2. PendingTables = {} /\ PendingMarks = {} /\ op.do # "botched"
    BY OpFacts, Zenon DEF PendingTables, PendingMarks
  <2>3. \A n \in Profiles : Conf(n).table # 0 /\ Conf(n).mark # 0
    BY ConfTypes, Zenon DEF Profiles
  <2>4. /\ Used({Conf(n) : n \in Profiles}).tables = OwnTables
        /\ Used({Conf(n) : n \in Profiles}).marks = OwnMarks
    BY <2>3 DEF Used, OwnTables, OwnMarks
  <2>5. /\ alloc.tables = alloc.stickyTables \cup OwnTables
        /\ alloc.marks = alloc.stickyMarks \cup OwnMarks
    BY <2>1, <2>2 DEF AllocInv, LeakInv
  <2> QED
    BY <2>4, <2>5, Zenon
<1> QED
  BY <1>1, InvHolds, PTL

\* An interrupted request damages no profile but its own, and one that
\* succeeds repairs what earlier ones left of it.
THEOREM DamageStaysConfined == VSpec => []DamageIsConfined
<1>1. FilesInv /\ TypeInv => DamageIsConfined
  <2> SUFFICES ASSUME FilesInv, TypeInv, op = Idle, NEW n \in Names \ torn
               PROVE  LET c == Conf(n)
                          u == UnitFor(c)
                      IN IF n \in Profiles
                         THEN /\ disk[n].dir
                              /\ disk[n].files = [k \in Kinds |-> IF k # c.kind THEN Absent
                                                                  ELSE IF k = "wg" THEN c.table ELSE 0]
                              /\ unit[n] = [file |-> u, link |-> TRUE, loaded |-> u]
                         ELSE disk[n] = NoDir /\ unit[n] = [file |-> NoUnit, link |-> FALSE, loaded |-> NoUnit]
    BY Zenon DEF DamageIsConfined
  <2>1. Whole(n)
    BY Zenon DEF FilesInv, WholeInv, Working
  <2>2. CASE n \in Profiles
    <3>1. UnitFor(Conf(n)) # NoUnit
      BY <2>2, ConfTypes, UnitTypes
    <3>2. unit[n] = [file |-> UnitFor(Conf(n)), link |-> TRUE, loaded |-> UnitFor(Conf(n))] /\ disk[n].dir
      BY <2>1, <2>2, <3>1, Zenon DEF Whole, UnitIs
    <3>3. disk[n].files = [k \in Kinds |-> IF k # Conf(n).kind THEN Absent
                                           ELSE IF k = "wg" THEN Conf(n).table ELSE 0]
      BY <2>1, <2>2 DEF Whole, FileFor
    <3> QED
      BY <2>2, <3>2, <3>3, Zenon
  <2>3. CASE n \notin Profiles
    BY <2>1, <2>3, Zenon DEF Whole, UnitIs
  <2> QED
    BY <2>2, <2>3
<1> QED
  BY <1>1, InvHolds, PTL

\* prepareProfileLocked looks at the kernel before it reserves: no request is
\* given a table or a mark that a rule or a running tunnel uses.
THEOREM NothingLiveGiven == VSpec => NothingLiveIsGiven
<1>1. TypeInv /\ AllocInv /\ FilesInv /\ [VNext]_vpnVars =>
         [op = Idle /\ op' # Idle /\ op'.do # "delete" =>
             op'.table \notin Live.tables /\ op'.mark \notin Live.marks]_vpnVars
  <2> SUFFICES ASSUME TypeInv, VNext, op = Idle, op' # Idle, op'.do # "delete"
               PROVE  op'.table \notin Live.tables /\ op'.mark \notin Live.marks
    OBVIOUS
  <2>1. 0 \notin Live.tables /\ 0 \notin Live.marks
    BY UsageTypes, TablesAreNumbers, MarksAreNumbers DEF Usage
  <2>2. ASSUME NEW do, NEW n, NEW req, Starts(do, n, req)
        PROVE  op'.table \notin Live.tables /\ op'.mark \notin Live.marks
    <3>1. PICK p : /\ Prepared(p, n, req)
                   /\ ~p.ok => op' = Idle
                   /\ p.ok => op'.table = p.table /\ op'.mark = p.mark
      BY <2>2, BeginGives
    <3>2. p.ok
      BY <3>1, Zenon
    <3>3. p.table \notin Live.tables /\ p.mark \notin Live.marks
      BY <2>1, <3>1, <3>2 DEF Prepared
    <3> QED
      BY <3>1, <3>2, <3>3, Zenon
  <2>3. ASSUME NEW n \in Names, Delete(n) PROVE FALSE
    BY <2>3, SMTT(30) DEF Delete
  <2>4. ASSUME NEW n \in Names, StartUnit(n) \/ StopUnit(n) PROVE FALSE
    BY <2>4, Zenon DEF StartUnit, StopUnit
  <2>5. ~Steps
    BY DEF Steps, At, MakeDir, WriteConfig, WriteConf, WriteUnit, EnsureSymlink, ReloadAndFinish,
           RemoveUnitFile, RemoveLink, Unload, RemoveDir
  <2>6. ~(CreateFails \/ UpdateFails \/ DeleteFails \/ Restart \/ Reboot \/ ApplyRouting \/ PeaceyAdds)
    BY DEF CreateFails, UpdateFails, DeleteFails, Restart, Reboot, Killed, ApplyRouting, PeaceyAdds
  <2> QED
    BY <2>2, <2>3, <2>4, <2>5, <2>6, StartCases, Zenon DEF VNext
<1> QED
  BY <1>1, InvHolds, PTL DEF VSpec, NothingLiveIsGiven
=============================================================================
