------------------------- MODULE VPNManager_proofs --------------------------
(* Proofs about VPNManager and the operators of the Allocator, for any     *)
(* profile names, ranges of tables and marks, uploaded configurations and  *)
(* faults: the inductive invariant, and that every step keeps its types.   *)
EXTENDS VPNManager, WellFoundedInduction, TLAPS

-----------------------------------------------------------------------------
\* The Allocator.
Usage == [tables : SUBSET Tables, marks : SUBSET Marks]
Sound == {a \in Allocators : a.stickyTables \subseteq a.tables /\ a.stickyMarks \subseteq a.marks}

\* A set of numbers that is not empty has a least one.
LEMMA LeastIsLeast ==
    ASSUME NEW S \in SUBSET Nat, S # {}
    PROVE  Least(S) \in S /\ \A y \in S : Least(S) <= y
<1> DEFINE R == {ss \in Nat \X Nat : ss[1] < ss[2]}
<1>1. IsWellFoundedOn(R, Nat)
  BY NatLessThanWellFounded DEF OpToRel
<1>2. \E x \in S : \A y \in S : ~(<<y, x>> \in R)
  <2> HIDE DEF R
  <2> QED
    BY <1>1, WFMin, Zenon
<1>3. \E x \in S : \A y \in S : x <= y
  <2>1. ASSUME NEW x \in Nat, NEW y \in Nat, ~(<<y, x>> \in R) PROVE x <= y
    <3>1. <<y, x>> \in Nat \X Nat /\ <<y, x>>[1] = y /\ <<y, x>>[2] = x
      OBVIOUS
    <3>2. ~(y < x)
      BY <2>1, <3>1
    <3> QED
      BY <3>2
  <2> HIDE DEF R
  <2> QED
    BY <1>2, <2>1, Zenon
<1> QED
  BY <1>3, Zenon DEF Least

LEMMA TablesAreNumbers == Tables \subseteq Nat /\ 0 \notin Tables
BY RangeAssumption DEF Tables

LEMMA MarksAreNumbers == Marks \subseteq Nat /\ 0 \notin Marks
BY RangeAssumption DEF Marks

LEMMA RefreshedSees ==
    ASSUME NEW a \in Allocators, NEW live \in Usage
    PROVE  /\ Refreshed(a, live) \in Allocators
           /\ a \in Sound => Refreshed(a, live) \in Sound
           /\ Refreshed(a, live).tables = a.tables \cup live.tables
           /\ Refreshed(a, live).marks = a.marks \cup live.marks
           /\ Refreshed(a, live).stickyTables = a.stickyTables \cup live.tables
           /\ Refreshed(a, live).stickyMarks = a.stickyMarks \cup live.marks
BY DEF Refreshed, Allocators, Usage, Sound

\* b is a with the kernel's values in use, and the table v unless it is 0.
Holds(b, a, live, v) ==
    /\ b \in Allocators
    /\ b.tables = a.tables \cup live.tables \cup ({v} \ {0})
    /\ b.stickyTables = a.stickyTables \cup live.tables
    /\ b.marks = a.marks \cup live.marks /\ b.stickyMarks = a.stickyMarks \cup live.marks

\* A table that is taken is a free one; the allocator has it, and no other.
LEMMA TakeTableTakes ==
    ASSUME NEW a \in Allocators, NEW live \in Usage, NEW free \in SUBSET Tables, NEW release
    PROVE  LET t == TakeTable(Refreshed(a, live), free, release)
           IN /\ t.ok \in BOOLEAN
              /\ t.ok => /\ t.value \in free /\ t.reserved = t.value /\ t.release = release
                         /\ Holds(t.a, a, live, t.value)
              /\ ~t.ok => t.reserved = 0 /\ Holds(t.a, a, live, 0)
<1> DEFINE seen == Refreshed(a, live)
<1>1. seen \in Allocators /\ Holds(seen, a, live, 0)
  BY RefreshedSees DEF Holds
<1>2. CASE free = {}
  BY <1>1, <1>2 DEF TakeTable
<1>3. CASE free # {}
  <2>1. Least(free) \in free /\ Least(free) # 0 /\ Least(free) \in Tables
    BY <1>3, LeastIsLeast, TablesAreNumbers, Zenon
  <2> DEFINE b == [seen EXCEPT !.tables = @ \cup {Least(free)}]
  <2> HIDE DEF seen
  <2>2. /\ b \in Allocators /\ b.tables = seen.tables \cup {Least(free)} /\ b.marks = seen.marks
        /\ b.stickyTables = seen.stickyTables /\ b.stickyMarks = seen.stickyMarks
    BY <1>1, <2>1 DEF Allocators
  <2>3. Holds(b, a, live, Least(free))
    BY <1>1, <2>1, <2>2 DEF Holds
  <2>4. TakeTable(seen, free, release) =
           [ok |-> TRUE, a |-> b, value |-> Least(free), reserved |-> Least(free), release |-> release]
    BY <1>3 DEF TakeTable
  <2> HIDE DEF b
  <2>5. LET t == TakeTable(seen, free, release)
        IN t.ok = TRUE /\ t.value = Least(free) /\ t.reserved = Least(free) /\ t.release = release /\ t.a = b
    BY <2>4
  <2> QED
    BY <2>1, <2>3, <2>5, Zenon DEF seen
<1> QED
  BY <1>2, <1>3

\* A profile keeps its table, or gets one that neither the allocator nor the
\* kernel has.
LEMMA TableForGives ==
    ASSUME NEW a \in Allocators, NEW live \in Usage,
           NEW want \in {0} \cup Tables, NEW old \in {0} \cup Tables
    PROVE  LET t == TableFor(a, live, want, old)
           IN /\ t.ok \in BOOLEAN
              /\ t.ok => \/ old # 0 /\ t.value = old /\ t.reserved = 0 /\ t.release = 0 /\ t.a = a
                         \/ /\ t.value \in Tables \ (a.tables \cup live.tables) /\ t.value # old
                            /\ t.reserved = t.value /\ t.release = old
                            /\ Holds(t.a, a, live, t.value)
              /\ ~t.ok => Holds(t.a, a, live, 0)
<1> DEFINE seen == Refreshed(a, live)
<1>1. seen.tables = a.tables \cup live.tables
  BY RefreshedSees
<1>2. CASE want # 0 /\ want # old
  <2>1. TableFor(a, live, want, old) = TakeTable(seen, {want} \ seen.tables, old)
    BY <1>2 DEF TableFor
  <2>2. {want} \ seen.tables \in SUBSET Tables
    BY <1>2
  <2> QED
    BY <1>1, <1>2, <2>1, <2>2, TakeTableTakes
<1>3. CASE ~(want # 0 /\ want # old) /\ old # 0
  BY <1>3, Zenon DEF TableFor
<1>4. CASE ~(want # 0 /\ want # old) /\ old = 0
  <2>1. TableFor(a, live, want, old) = TakeTable(seen, Tables \ seen.tables, 0)
    BY <1>4 DEF TableFor
  <2>2. Tables \ seen.tables \in SUBSET Tables
    OBVIOUS
  <2> QED
    BY <1>1, <1>4, <2>1, <2>2, TakeTableTakes, TablesAreNumbers
<1> QED
  BY <1>2, <1>3, <1>4

\* The same for the mark, which a profile never changes.
LEMMA MarkForGives ==
    ASSUME NEW a \in Allocators, NEW live \in Usage, NEW old \in {0} \cup Marks
    PROVE  LET k == MarkFor(a, live, old)
               seen == Refreshed(a, live)
           IN /\ k.ok \in BOOLEAN /\ k.a \in Allocators
              /\ k.ok /\ old # 0 => k.value = old /\ k.reserved = 0 /\ k.a = a
              /\ k.ok /\ old = 0 => /\ k.value \in Marks \ (a.marks \cup live.marks) /\ k.reserved = k.value
                                   /\ k.a.tables = seen.tables /\ k.a.stickyTables = seen.stickyTables
                                   /\ k.a.marks = seen.marks \cup {k.value}
                                   /\ k.a.stickyMarks = seen.stickyMarks
              /\ ~k.ok => k.reserved = 0 /\ k.a = seen
<1> DEFINE seen == Refreshed(a, live)
           free == Marks \ seen.marks
<1>1. seen \in Allocators /\ seen.marks = a.marks \cup live.marks
  BY RefreshedSees
<1>2. CASE old # 0
  BY <1>2 DEF MarkFor
<1>3. CASE old = 0 /\ free = {}
  BY <1>1, <1>3 DEF MarkFor
<1>4. CASE old = 0 /\ free # {}
  <2>1. Least(free) \in free
    BY <1>4, LeastIsLeast, MarksAreNumbers
  <2> DEFINE b == [seen EXCEPT !.marks = @ \cup {Least(free)}]
  <2>2. MarkFor(a, live, old) = [ok |-> TRUE, a |-> b, value |-> Least(free), reserved |-> Least(free)]
    BY <1>4 DEF MarkFor
  <2> HIDE DEF seen
  <2>3. /\ b \in Allocators /\ b.marks = seen.marks \cup {Least(free)} /\ b.tables = seen.tables
        /\ b.stickyTables = seen.stickyTables /\ b.stickyMarks = seen.stickyMarks
    BY <1>1, <2>1, Zenon DEF Allocators
  <2> HIDE DEF b, free
  <2>4. LET k == MarkFor(a, live, old)
        IN k.ok = TRUE /\ k.a = b /\ k.value = Least(free) /\ k.reserved = Least(free)
    BY <2>2
  <2>5. Least(free) \in Marks \ (a.marks \cup live.marks)
    BY <1>1, <2>1 DEF free
  <2> QED
    BY <1>4, <2>3, <2>4, <2>5, Zenon DEF seen
<1> QED
  BY <1>2, <1>3, <1>4

\* Release takes the values out unless they are sticky.
LEMMA ReleasedLacks ==
    ASSUME NEW a \in Allocators, NEW table, NEW mark
    PROVE  LET b == Released(a, table, mark)
           IN /\ b \in Allocators
              /\ b.tables = a.tables \ ({table} \ a.stickyTables)
              /\ b.marks = a.marks \ ({mark} \ a.stickyMarks)
              /\ b.stickyTables = a.stickyTables /\ b.stickyMarks = a.stickyMarks
BY Zenon DEF Released, Allocators

\* A new process holds what it has seen, and only the foreign part is sticky.
LEMMA SeededHas ==
    ASSUME NEW live \in Usage, NEW foreign \in Usage, NEW own \in Usage
    PROVE  LET b == Seeded(live, foreign, own)
           IN /\ b \in Sound
              /\ b.tables = b.stickyTables \cup own.tables
              /\ b.marks = b.stickyMarks \cup own.marks
<1> DEFINE none == [tables |-> {}, marks |-> {}, stickyTables |-> {}, stickyMarks |-> {}]
           sticky == Refreshed(Refreshed(none, live), foreign)
<1>1. none \in Sound /\ none.tables = none.stickyTables /\ none.marks = none.stickyMarks
  BY DEF Allocators, Sound
<1>2. Refreshed(none, live) \in Sound /\ sticky \in Sound
  BY <1>1, RefreshedSees DEF Sound
<1>3. ASSUME NEW a \in Allocators, a.tables = a.stickyTables, a.marks = a.stickyMarks, NEW seen \in Usage
      PROVE  /\ Refreshed(a, seen).tables = Refreshed(a, seen).stickyTables
             /\ Refreshed(a, seen).marks = Refreshed(a, seen).stickyMarks
  BY <1>3 DEF Refreshed
<1>4. Seeded(live, foreign, own) = [sticky EXCEPT !.tables = @ \cup own.tables, !.marks = @ \cup own.marks]
  BY DEF Seeded
<1>5. sticky.tables = sticky.stickyTables /\ sticky.marks = sticky.stickyMarks
  <2> HIDE DEF none
  <2>1. none \in Allocators /\ Refreshed(none, live) \in Allocators
    BY <1>1, <1>2 DEF Sound
  <2> QED
    BY <1>1, <1>3, <2>1
<1> HIDE DEF sticky
<1> QED
  BY <1>2, <1>4, <1>5, ZenonT(40) DEF Allocators, Usage, Sound

-----------------------------------------------------------------------------
\* The inductive invariant.
Devs == Names \cup {Tun}
ConfRecords == [kind : Kinds, table : Tables, mark : Marks, dev : Devs]
UnitFiles == {NoUnit} \cup [kind : Kinds, dev : Devs]
Dirs == [dir : BOOLEAN, files : [Kinds -> {Absent, 0} \cup Tables], conf : {NoConf} \cup ConfRecords]
Units == [file : UnitFiles, link : BOOLEAN, loaded : UnitFiles]
WriteSteps == {"dir", "config", "conf", "unit", "link", "reload"}
DeleteSteps == {"rmfile", "rmlink", "unload", "rmdir"}
WriteOps == [do : {"create", "update"}, n : Names, at : WriteSteps, conf : ConfRecords,
             release : {0} \cup Tables, table : {0} \cup Tables, mark : {0} \cup Marks]
DeleteOps == [do : {"delete"}, n : Names, at : DeleteSteps, conf : ConfRecords]
BotchedOps == [do : {"botched"}, n : Names, at : {"end"}]

TypeInv ==
    /\ disk \in [Names -> Dirs]
    /\ unit \in [Names -> Units]
    /\ alloc \in Sound
    /\ rules \subseteq [table : Tables, mark : Marks]
    /\ active \in [Names -> [table : {Absent, 0} \cup Tables, dev : Devs \cup {"none"}]]
    /\ peacey \subseteq Peacey
    /\ op \in {Idle} \cup WriteOps \cup DeleteOps \cup BotchedOps
    /\ faults \in 0..MaxFaults /\ torn \subseteq Names

\* Whether the request under way is for n.
Working(n) == op # Idle /\ op.n = n

\* What a profile has is the allocator's and no other profile's.
OwnedInv ==
    /\ AllocationsDistinct
    /\ op.do # "botched" => \A n \in Profiles : Conf(n).table \in alloc.tables /\ Conf(n).mark \in alloc.marks

\* What Create or Update writes, has written, and will give back: values that
\* the allocator holds for it and no other profile has.
WriteInv ==
    op \in WriteOps =>
        /\ \A m \in Profiles \ {op.n} : /\ Conf(m).table # op.conf.table /\ Conf(m).mark # op.conf.mark
                                        /\ Conf(m).dev # op.conf.dev /\ Conf(m).table # op.release
        /\ op.conf.table \in alloc.tables /\ op.conf.mark \in alloc.marks
        /\ op.release # op.conf.table
        /\ op.table \in {0, op.conf.table} /\ op.mark \in {0, op.conf.mark}
        /\ op.do = "create" => op.table # 0 /\ op.mark # 0 /\ op.release = 0
        /\ op.do = "update" => op.mark = 0
        /\ op.at \in UnitSteps => Conf(op.n) = op.conf
        /\ (op.at \notin UnitSteps /\ op.do = "create") => Conf(op.n) = NoConf
        /\ (op.at \notin UnitSteps /\ op.do = "update") =>
              /\ op.n \in Profiles /\ Conf(op.n).mark = op.conf.mark
              /\ IF op.conf.table = Conf(op.n).table THEN op.table = 0 /\ op.release = 0
                 ELSE op.table # 0 /\ op.release = Conf(op.n).table

\* What the allocator holds for the request: new values until they are in
\* vpn.conf, then the old table.
PendingTables ==
    IF op \in WriteOps THEN (IF op.at \in UnitSteps THEN {op.release} ELSE {op.table}) \ {0} ELSE {}
PendingMarks == IF op \in WriteOps /\ op.at \notin UnitSteps THEN {op.mark} \ {0} ELSE {}
OwnTables == {Conf(n).table : n \in Profiles}
OwnMarks == {Conf(n).mark : n \in Profiles}

\* A directory without vpn.conf that no request is about: what is left of a
\* Delete or a kill.  Its name can never be used again.
Lost(n) == disk[n].dir /\ n \notin Profiles /\ ~Working(n)

LeakInv ==
    (op.do # "botched" /\ \A n \in Names : ~Lost(n)) =>
        /\ alloc.tables = alloc.stickyTables \cup OwnTables \cup PendingTables
        /\ alloc.marks = alloc.stickyMarks \cup OwnMarks \cup PendingMarks

\* How far the request is with the files and the unit of its profile.
FileFor(conf) == IF conf.kind = "wg" THEN conf.table ELSE 0
StepInv ==
    /\ op \in WriteOps =>
          /\ op.at # "dir" => disk[op.n].dir
          /\ op.at \in {"conf"} \cup UnitSteps => disk[op.n].files[op.conf.kind] = FileFor(op.conf)
          /\ op.at \in {"link", "reload"} => unit[op.n].file = UnitFor(op.conf)
          /\ op.at = "reload" => unit[op.n].link
    /\ op \in DeleteOps =>
          /\ Conf(op.n) = op.conf
          /\ op.at # "rmfile" => unit[op.n].file = NoUnit
          /\ op.at \in {"unload", "rmdir"} => ~unit[op.n].link
          /\ op.at = "rmdir" => unit[op.n].loaded = NoUnit
    /\ op \in BotchedOps => op.n \in torn

\* A name as a request that succeeded leaves it.
UnitIs(n, u) == unit[n] = [file |-> u, link |-> u # NoUnit, loaded |-> u]
Whole(n) ==
    IF n \in Profiles
    THEN /\ disk[n].dir
         /\ disk[n].files = [k \in Kinds |-> IF k # Conf(n).kind THEN Absent ELSE FileFor(Conf(n))]
         /\ UnitIs(n, UnitFor(Conf(n)))
    ELSE disk[n] = NoDir /\ UnitIs(n, NoUnit)
WholeInv ==
    /\ \A n \in Names : ~disk[n].dir => disk[n] = NoDir
    /\ \A n \in Names \ torn : ~Working(n) => Whole(n)

-----------------------------------------------------------------------------
\* Which request is at which step.
LEMMA OpKinds ==
    ASSUME TypeInv
    PROVE  /\ op = Idle => op.do = "none" /\ op \notin WriteOps /\ op \notin DeleteOps /\ op \notin BotchedOps
           /\ op # Idle => op.n \in Names /\ op \in WriteOps \cup DeleteOps \cup BotchedOps
           /\ op \in WriteOps <=> op.do \in {"create", "update"}
           /\ op \in DeleteOps <=> op.do = "delete"
           /\ op \in BotchedOps <=> op.do = "botched"
           /\ op # Idle /\ op.at \in WriteSteps => op \in WriteOps
           /\ op # Idle /\ op.at \in DeleteSteps => op \in DeleteOps
<1>1. op = Idle => op.do = "none"
  BY DEF Idle
<1>2. op \in WriteOps => op.do \in {"create", "update"} /\ op.n \in Names /\ op.at \in WriteSteps
  BY DEF WriteOps
<1>3. op \in DeleteOps => op.do = "delete" /\ op.n \in Names /\ op.at \in DeleteSteps
  BY DEF DeleteOps
<1>4. op \in BotchedOps => op.do = "botched" /\ op.n \in Names /\ op.at = "end"
  BY DEF BotchedOps
<1>5. op = Idle \/ op \in WriteOps \/ op \in DeleteOps \/ op \in BotchedOps
  BY DEF TypeInv
<1> QED
  BY <1>1, <1>2, <1>3, <1>4, <1>5 DEF WriteSteps, DeleteSteps

\* A step of Create or Update, and one of Delete, moves on and keeps the rest.
LEMMA WriteMoves ==
    ASSUME op \in WriteOps, NEW s \in WriteSteps, Next1(s)
    PROVE  /\ op' \in WriteOps /\ op'.at = s /\ op'.do = op.do /\ op'.n = op.n /\ op'.conf = op.conf
           /\ op'.release = op.release /\ op'.table = op.table /\ op'.mark = op.mark
BY DEF WriteOps, Next1

LEMMA DeleteMoves ==
    ASSUME op \in DeleteOps, NEW s \in DeleteSteps, Next1(s)
    PROVE  op' \in DeleteOps /\ op'.at = s /\ op'.n = op.n /\ op'.conf = op.conf
BY DEF DeleteOps, Next1

LEMMA ConfTypes ==
    ASSUME TypeInv, NEW n \in Names
    PROVE  /\ Conf(n) \in {NoConf} \cup ConfRecords
           /\ Conf(n).table \in {0} \cup Tables /\ Conf(n).mark \in {0} \cup Marks
           /\ n \in Profiles <=> Conf(n) \in ConfRecords
           /\ n \in Profiles => /\ Conf(n).table \in Tables /\ Conf(n).table # 0
                               /\ Conf(n).mark \in Marks /\ Conf(n).mark # 0
           /\ n \notin Profiles => Conf(n).table = 0 /\ Conf(n).mark = 0
<1>1. disk[n].conf \in {NoConf} \cup ConfRecords
  BY DEF TypeInv, Dirs
<1>2. NoConf \notin ConfRecords /\ NoConf.table = 0 /\ NoConf.mark = 0
  BY DEF NoConf, ConfRecords, Kinds
<1>3. \A c \in ConfRecords : c.table \in Tables /\ c.mark \in Marks
  BY DEF ConfRecords
<1> HIDE DEF NoConf
<1> QED
  BY <1>1, <1>2, <1>3, TablesAreNumbers, MarksAreNumbers DEF Conf, Profiles

LEMMA UsageTypes ==
    ASSUME TypeInv
    PROVE  Live \in Usage /\ Used(peacey) \in Usage /\ Used({Conf(n) : n \in Profiles}) \in Usage
<1>1. ASSUME NEW A, \A x \in A : x.table \in {0} \cup Tables /\ x.mark \in {0} \cup Marks
      PROVE  Used(A) \in Usage
  BY <1>1 DEF Used, Usage
<1>2. Used(peacey) \in Usage
  BY <1>1, PeaceyAssumption DEF TypeInv
<1>3. Used({Conf(n) : n \in Profiles}) \in Usage
  BY <1>1, ConfTypes DEF Profiles
<1>4. {r.table : r \in rules} \subseteq Tables /\ {r.mark : r \in rules} \subseteq Marks
  BY DEF TypeInv
<1>5. {active[n].table : n \in Names} \ {0, Absent} \subseteq Tables
  BY DEF TypeInv
<1>6. Live \in Usage
  BY <1>4, <1>5 DEF Live, Usage
<1> QED
  BY <1>2, <1>3, <1>6

\* What prepareProfileLocked leaves behind: the kernel's values L and M may
\* have become sticky, and only a request that goes on holds new values.
Prepared(p, n, req) ==
    LET old == Conf(n)
        gets == IF p.ok THEN [tables |-> {p.table} \ {0}, marks |-> {p.mark} \ {0}]
                        ELSE [tables |-> {}, marks |-> {}]
    IN /\ p.ok \in BOOLEAN /\ p.a \in Allocators
       /\ \E L \in SUBSET Tables : /\ p.a.tables = alloc.tables \cup L \cup gets.tables
                                   /\ p.a.stickyTables = alloc.stickyTables \cup L
       /\ \E M \in SUBSET Marks : /\ p.a.marks = alloc.marks \cup M \cup gets.marks
                                  /\ p.a.stickyMarks = alloc.stickyMarks \cup M
       /\ p.ok => /\ p.conf = [kind |-> req.kind, table |-> p.conf.table, mark |-> p.conf.mark,
                               dev |-> Device(n, req.kind)]
                  /\ \/ old.table # 0 /\ p.conf.table = old.table /\ p.table = 0 /\ p.release = 0
                     \/ /\ p.conf.table \in Tables \ (alloc.tables \cup Live.tables)
                        /\ p.conf.table # old.table /\ p.table = p.conf.table /\ p.release = old.table
                  /\ \/ old.mark # 0 /\ p.conf.mark = old.mark /\ p.mark = 0
                     \/ /\ old.mark = 0 /\ p.conf.mark \in Marks \ (alloc.marks \cup Live.marks)
                        /\ p.mark = p.conf.mark

LEMMA PrepareGives ==
    ASSUME TypeInv, NEW n \in Names, NEW req, req.table \in {0} \cup Tables
    PROVE  Prepared(Prepare(n, req), n, req)
<1> DEFINE old == Conf(n)
           t == TableFor(alloc, Live, req.table, old.table)
           k == MarkFor(t.a, Live, old.mark)
           p == Prepare(n, req)
<1>1. alloc \in Allocators /\ alloc.stickyTables \subseteq alloc.tables /\ alloc.stickyMarks \subseteq alloc.marks
  BY DEF TypeInv, Sound
<1>2. Live \in Usage /\ Live.tables \in SUBSET Tables /\ Live.marks \in SUBSET Marks
  BY UsageTypes DEF Usage
<1>3. old.table \in {0} \cup Tables /\ old.mark \in {0} \cup Marks
  BY ConfTypes
<1>4. /\ t.ok \in BOOLEAN
      /\ t.ok => \/ old.table # 0 /\ t.value = old.table /\ t.reserved = 0 /\ t.release = 0 /\ t.a = alloc
                 \/ /\ t.value \in Tables \ (alloc.tables \cup Live.tables) /\ t.value # old.table
                    /\ t.reserved = t.value /\ t.release = old.table
                    /\ Holds(t.a, alloc, Live, t.value)
      /\ ~t.ok => Holds(t.a, alloc, Live, 0)
  BY <1>1, <1>2, <1>3, TableForGives, Zenon
<1> HIDE DEF t
<1>5. CASE ~t.ok
  <2>1. p = [ok |-> FALSE, a |-> t.a]
    BY <1>5 DEF Prepare, t
  <2>2. p.ok = FALSE /\ p.a = t.a
    BY <2>1
  <2>3. /\ p.a \in Allocators
        /\ p.a.tables = alloc.tables \cup Live.tables /\ p.a.stickyTables = alloc.stickyTables \cup Live.tables
        /\ p.a.marks = alloc.marks \cup Live.marks /\ p.a.stickyMarks = alloc.stickyMarks \cup Live.marks
    BY <1>4, <1>5, <2>2 DEF Holds
  <2> HIDE DEF p
  <2> QED
    BY <1>2, <2>2, <2>3, Zenon DEF Prepared, p
<1>6. CASE t.ok
  <2>1. /\ t.a \in Allocators
        /\ t.reserved # 0 => t.reserved \in Tables \ (alloc.tables \cup Live.tables)
        /\ \E L \in SUBSET Live.tables : /\ t.a.tables = alloc.tables \cup L \cup ({t.reserved} \ {0})
                                         /\ t.a.stickyTables = alloc.stickyTables \cup L
        /\ \E M \in SUBSET Live.marks : t.a.marks = alloc.marks \cup M /\ t.a.stickyMarks = alloc.stickyMarks \cup M
    <3>1. CASE t.a = alloc /\ t.reserved = 0
      <4>1. /\ t.a.tables = alloc.tables \cup {} \cup ({t.reserved} \ {0})
            /\ t.a.stickyTables = alloc.stickyTables \cup {}
            /\ t.a.marks = alloc.marks \cup {} /\ t.a.stickyMarks = alloc.stickyMarks \cup {}
        BY <3>1
      <4> QED
        BY <1>1, <3>1, <4>1, Zenon
    <3>2. CASE t.reserved = t.value /\ t.value \in Tables \ (alloc.tables \cup Live.tables)
               /\ Holds(t.a, alloc, Live, t.value)
      BY <1>2, <3>2 DEF Holds
    <3> QED
      BY <1>4, <1>6, <3>1, <3>2
  <2>2. PICK L \in SUBSET Live.tables, M \in SUBSET Live.marks :
           /\ t.a.tables = alloc.tables \cup L \cup ({t.reserved} \ {0}) /\ t.a.stickyTables = alloc.stickyTables \cup L
           /\ t.a.marks = alloc.marks \cup M /\ t.a.stickyMarks = alloc.stickyMarks \cup M
    BY <2>1
  <2> DEFINE seen == Refreshed(t.a, Live)
  <2>3. /\ seen \in Allocators /\ seen.tables = t.a.tables \cup Live.tables /\ seen.marks = t.a.marks \cup Live.marks
        /\ seen.stickyTables = t.a.stickyTables \cup Live.tables /\ seen.stickyMarks = t.a.stickyMarks \cup Live.marks
    BY <1>2, <2>1, RefreshedSees
  <2>4. /\ k.ok \in BOOLEAN /\ k.a \in Allocators
        /\ k.ok /\ old.mark # 0 => k.value = old.mark /\ k.reserved = 0 /\ k.a = t.a
        /\ k.ok /\ old.mark = 0 => /\ k.value \in Marks \ (t.a.marks \cup Live.marks) /\ k.reserved = k.value
                                  /\ k.a.tables = seen.tables /\ k.a.stickyTables = seen.stickyTables
                                  /\ k.a.marks = seen.marks \cup {k.value} /\ k.a.stickyMarks = seen.stickyMarks
        /\ ~k.ok => k.reserved = 0 /\ k.a = seen
    <3>1. t.a \in Allocators /\ Live \in Usage /\ old.mark \in {0} \cup Marks
      BY <1>2, <1>3, <2>1
    <3> HIDE DEF old
    <3> QED
      BY <3>1, MarkForGives, Zenon
  <2> HIDE DEF k, seen
  <2>5. /\ k.reserved # 0 => k.reserved \in Marks \ (alloc.marks \cup Live.marks)
        /\ \E L1 \in SUBSET Live.tables : /\ k.a.tables = alloc.tables \cup L1 \cup ({t.reserved} \ {0})
                                          /\ k.a.stickyTables = alloc.stickyTables \cup L1
        /\ \E M1 \in SUBSET Live.marks : /\ k.a.marks = alloc.marks \cup M1 \cup ({k.reserved} \ {0})
                                         /\ k.a.stickyMarks = alloc.stickyMarks \cup M1
    <3>1. CASE k.ok /\ old.mark # 0
      BY <2>2, <2>4, <3>1
    <3>2. CASE k.ok /\ old.mark = 0
      <4>1. k.a.tables = alloc.tables \cup Live.tables \cup ({t.reserved} \ {0})
            /\ k.a.stickyTables = alloc.stickyTables \cup Live.tables
        BY <2>2, <2>3, <2>4, <3>2
      <4>2. k.a.marks = alloc.marks \cup Live.marks \cup ({k.reserved} \ {0})
            /\ k.a.stickyMarks = alloc.stickyMarks \cup Live.marks
        BY <2>2, <2>3, <2>4, <3>2, MarksAreNumbers
      <4> QED
        BY <2>2, <2>4, <3>2, <4>1, <4>2
    <3>3. CASE ~k.ok
      <4>1. k.a.tables = alloc.tables \cup Live.tables \cup ({t.reserved} \ {0})
            /\ k.a.stickyTables = alloc.stickyTables \cup Live.tables
        BY <2>2, <2>3, <2>4, <3>3, Zenon
      <4>2. k.a.marks = alloc.marks \cup Live.marks /\ k.a.stickyMarks = alloc.stickyMarks \cup Live.marks
        BY <2>2, <2>3, <2>4, <3>3
      <4> QED
        BY <2>4, <3>3, <4>1, <4>2, SMTT(30)
    <3> QED
      BY <2>4, <3>1, <3>2, <3>3, Zenon
  <2>6. PICK L1 \in SUBSET Live.tables, M1 \in SUBSET Live.marks :
           /\ k.a.tables = alloc.tables \cup L1 \cup ({t.reserved} \ {0}) /\ k.a.stickyTables = alloc.stickyTables \cup L1
           /\ k.a.marks = alloc.marks \cup M1 \cup ({k.reserved} \ {0}) /\ k.a.stickyMarks = alloc.stickyMarks \cup M1
    BY <2>5, SMTT(30)
  <2>7. L1 \in SUBSET Tables /\ M1 \in SUBSET Marks
    BY <1>2
  <2>8. CASE ~k.ok \/ PeaceyConflict(t.value, k.value) \/ FilesMissing(req)
    <3>1. p = Refused(k.a, t.reserved, k.reserved)
      BY <1>6, <2>8, Zenon DEF Prepare, t, k
    <3>2. p.ok = FALSE /\ p.a = Released(k.a, t.reserved, k.reserved)
      BY <3>1 DEF Refused
    <3>3. /\ p.a \in Allocators
          /\ p.a.tables = k.a.tables \ ({t.reserved} \ k.a.stickyTables) /\ p.a.stickyTables = k.a.stickyTables
          /\ p.a.marks = k.a.marks \ ({k.reserved} \ k.a.stickyMarks) /\ p.a.stickyMarks = k.a.stickyMarks
      BY <2>4, <3>2, ReleasedLacks
    <3>4. p.a.tables = alloc.tables \cup L1 /\ p.a.stickyTables = alloc.stickyTables \cup L1
      BY <1>1, <1>2, <2>1, <2>6, <3>3, TablesAreNumbers DEF Allocators
    <3>5. p.a.marks = alloc.marks \cup M1 /\ p.a.stickyMarks = alloc.stickyMarks \cup M1
      BY <1>1, <1>2, <2>5, <2>6, <3>3, MarksAreNumbers, SMTT(30) DEF Allocators
    <3> HIDE DEF p
    <3> QED
      BY <2>7, <3>2, <3>3, <3>4, <3>5, Zenon DEF Prepared, p
  <2>9. CASE ~(~k.ok \/ PeaceyConflict(t.value, k.value) \/ FilesMissing(req))
    <3> DEFINE c == [kind |-> req.kind, table |-> t.value, mark |-> k.value, dev |-> Device(n, req.kind)]
    <3>1. p = [ok |-> TRUE, a |-> k.a, release |-> t.release, table |-> t.reserved, mark |-> k.reserved, conf |-> c]
      BY <1>6, <2>9, Zenon DEF Prepare, t, k
    <3>2. /\ p.ok = TRUE /\ p.a = k.a /\ p.release = t.release /\ p.table = t.reserved /\ p.mark = k.reserved
          /\ p.conf = c
      BY <3>1
    <3>3. c.table = t.value /\ c.mark = k.value
      OBVIOUS
    <3>4. p.conf = [kind |-> req.kind, table |-> p.conf.table, mark |-> p.conf.mark, dev |-> Device(n, req.kind)]
      BY <3>2, <3>3
    <3> HIDE DEF p, c
    <3>5. \/ old.table # 0 /\ p.conf.table = old.table /\ p.table = 0 /\ p.release = 0
          \/ /\ p.conf.table \in Tables \ (alloc.tables \cup Live.tables)
             /\ p.conf.table # old.table /\ p.table = p.conf.table /\ p.release = old.table
      BY <1>4, <1>6, <3>2, <3>3, Zenon
    <3>6. \/ old.mark # 0 /\ p.conf.mark = old.mark /\ p.mark = 0
          \/ /\ old.mark = 0 /\ p.conf.mark \in Marks \ (alloc.marks \cup Live.marks)
             /\ p.mark = p.conf.mark
      BY <2>2, <2>4, <2>9, <3>2, <3>3, Zenon
    <3>7. /\ p.a.tables = alloc.tables \cup L1 \cup ({p.table} \ {0}) /\ p.a.stickyTables = alloc.stickyTables \cup L1
          /\ p.a.marks = alloc.marks \cup M1 \cup ({p.mark} \ {0}) /\ p.a.stickyMarks = alloc.stickyMarks \cup M1
      BY <2>6, <3>2
    <3>8. Prepared(p, n, req)
      BY <2>4, <2>7, <3>2, <3>4, <3>5, <3>6, <3>7, ZenonT(40) DEF Prepared
    <3> QED
      BY <3>8, Zenon DEF p
  <2> QED
    BY <2>8, <2>9
<1> QED
  BY <1>4, <1>5, <1>6
-----------------------------------------------------------------------------
\* The steps, by what they start from.
GoodRequests == [kind : Kinds, table : {0} \cup Tables, complete : BOOLEAN]
Starts(do, n, req) ==
    /\ op = Idle /\ Begin(do, n, req)
    /\ do \in {"create", "update"} /\ n \in Names /\ req \in GoodRequests
    /\ do = "create" => ~disk[n].dir
    /\ do = "update" => n \in Profiles

LEMMA StartCases ==
    ASSUME TypeInv, NEW n \in Names
    PROVE  /\ \A req \in Requests : Create(n, req) => Starts("create", n, req)
           /\ \A req \in Requests : Update(n, req) => Starts("update", n, req)
           /\ UpdateKeeping(n) => \E req \in GoodRequests : Starts("update", n, req)
<1>1. Requests \subseteq GoodRequests
  BY FaultsAssumption, Zenon DEF Requests, GoodRequests, Kinds
<1>2. Readable(n) => n \in Profiles /\ TableIn(n) # Absent
  BY DEF Readable
<1>3. ASSUME n \in Profiles, TableIn(n) # Absent
      PROVE  [kind |-> Conf(n).kind, table |-> TableIn(n), complete |-> TRUE] \in GoodRequests
  <2>1. Conf(n).kind \in Kinds
    BY <1>3, ConfTypes DEF ConfRecords
  <2>2. TableIn(n) \in {0} \cup Tables
    BY <1>3, <2>1 DEF TypeInv, Dirs, TableIn
  <2> QED
    BY <2>1, <2>2 DEF GoodRequests
<1> QED
  BY <1>1, <1>2, <1>3 DEF Create, Update, UpdateKeeping, Starts

\* A request that is refused ends at once; one that goes on has the values
\* that prepareProfileLocked found.
LEMMA BeginGives ==
    ASSUME TypeInv, NEW do, NEW n, NEW req, Starts(do, n, req)
    PROVE  /\ UNCHANGED <<disk, unit, kernel, history>> /\ InterfaceFree(n, Device(n, req.kind))
           /\ alloc' \in Sound
           /\ \E p : /\ Prepared(p, n, req) /\ alloc' = p.a
                     /\ ~p.ok => op' = Idle
                     /\ p.ok => /\ op' \in WriteOps /\ op'.do = do /\ op'.n = n /\ op'.at = "dir"
                                /\ op'.conf = p.conf /\ op'.conf.dev = Device(n, req.kind)
                                /\ op'.release = p.release /\ op'.table = p.table /\ op'.mark = p.mark
<1> DEFINE p == Prepare(n, req)
<1>1. n \in Names /\ do \in {"create", "update"} /\ req.kind \in Kinds /\ req.table \in {0} \cup Tables
  BY DEF Starts, GoodRequests
<1>2. Prepared(p, n, req)
  BY <1>1, PrepareGives
<1>3. /\ alloc' = p.a /\ UNCHANGED <<disk, unit, kernel, history>> /\ InterfaceFree(n, Device(n, req.kind))
      /\ op' = IF p.ok THEN [do |-> do, n |-> n, at |-> "dir", conf |-> p.conf,
                             release |-> p.release, table |-> p.table, mark |-> p.mark]
                       ELSE Idle
  BY DEF Starts, Begin
<1> HIDE DEF p
<1>4. alloc' \in Sound
  <2>1. alloc \in Allocators /\ alloc.stickyTables \subseteq alloc.tables /\ alloc.stickyMarks \subseteq alloc.marks
    BY Zenon DEF TypeInv, Sound
  <2>2. p.a \in Allocators /\ p.a.stickyTables \subseteq p.a.tables /\ p.a.stickyMarks \subseteq p.a.marks
    BY <1>2, <2>1, Zenon DEF Prepared
  <2> QED
    BY <1>3, <2>2 DEF Sound
<1>5. ASSUME p.ok
      PROVE  /\ op' \in WriteOps /\ op'.do = do /\ op'.n = n /\ op'.at = "dir"
             /\ op'.conf = p.conf /\ op'.conf.dev = Device(n, req.kind)
             /\ op'.release = p.release /\ op'.table = p.table /\ op'.mark = p.mark
  <2>1. Conf(n).table \in {0} \cup Tables /\ Conf(n).mark \in {0} \cup Marks
    BY <1>1, ConfTypes, Zenon
  <2>2. /\ p.conf.table \in Tables /\ p.table \in {0} \cup Tables /\ p.release \in {0} \cup Tables
        /\ p.conf.mark \in Marks /\ p.mark \in {0} \cup Marks
    BY <1>2, <1>5, <2>1, Zenon DEF Prepared
  <2>3. p.conf = [kind |-> req.kind, table |-> p.conf.table, mark |-> p.conf.mark, dev |-> Device(n, req.kind)]
    BY <1>2, <1>5 DEF Prepared
  <2>4. Device(n, req.kind) \in Devs
    BY <1>1 DEF Device, Devs
  <2>5. p.conf \in ConfRecords /\ p.conf.dev = Device(n, req.kind)
    BY <1>1, <2>2, <2>3, <2>4 DEF ConfRecords
  <2>6. op' = [do |-> do, n |-> n, at |-> "dir", conf |-> p.conf,
               release |-> p.release, table |-> p.table, mark |-> p.mark]
    BY <1>3, <1>5
  <2> QED
    BY <1>1, <2>2, <2>5, <2>6 DEF WriteOps, WriteSteps
<1> QED
  BY <1>2, <1>3, <1>4, <1>5

LEMMA ReloadedTypes ==
    ASSUME NEW units \in [Names -> Units]
    PROVE  Reloaded(units) \in [Names -> Units]
BY DEF Reloaded, Units, UnitFiles

LEMMA UnitTypes == \A c \in ConfRecords : UnitFor(c) \in UnitFiles /\ UnitFor(c) # NoUnit
BY DEF ConfRecords, UnitFor, UnitFiles, NoUnit, Kinds

LEMMA NoDirTypes == NoDir \in Dirs /\ NoDir.dir = FALSE /\ NoDir.conf = NoConf
BY DEF NoDir, Dirs

LEMMA ReleasedSound == \A a \in Sound : \A table, mark : Released(a, table, mark) \in Sound
BY ReleasedLacks DEF Sound

LEMMA FaultTypes == TypeInv /\ Fault => faults' \in 0..MaxFaults
<1> SUFFICES ASSUME TypeInv, Fault PROVE faults' \in 0..MaxFaults
  OBVIOUS
<1>1. faults \in 0..MaxFaults
  BY Zenon DEF TypeInv
<1> QED
  BY <1>1, FaultsAssumption DEF Fault

\* The start of a tunnel: the link of its unit may be restored.
LEMMA StartTypes ==
    ASSUME TypeInv, NEW n \in Names, StartUnit(n)
    PROVE  TypeInv'
<1> DEFINE restore == unit[n].file # NoUnit /\ ~unit[n].link
           now == IF restore THEN Reloaded([unit EXCEPT ![n].link = TRUE]) ELSE unit
           u == now[n].loaded
<1>1. now \in [Names -> Units]
  <2>1. unit \in [Names -> Units] /\ [unit EXCEPT ![n].link = TRUE] \in [Names -> Units]
    BY Zenon DEF TypeInv, Units
  <2> QED
    BY <2>1, ReloadedTypes, Zenon
<1> HIDE DEF now
<1>2. /\ u # NoUnit /\ unit' = now
      /\ active' = [active EXCEPT ![n] = [table |-> disk[n].files[u.kind], dev |-> u.dev]]
      /\ UNCHANGED <<disk, alloc, rules, peacey, op, history>>
  BY Zenon DEF StartUnit, now
<1>3. u.kind \in Kinds /\ u.dev \in Devs
  BY <1>1, <1>2, Zenon DEF Units, UnitFiles
<1>4. disk[n].files[u.kind] \in {Absent, 0} \cup Tables
  BY <1>3 DEF TypeInv, Dirs
<1>5. active' \in [Names -> [table : {Absent, 0} \cup Tables, dev : Devs \cup {"none"}]]
  BY <1>2, <1>3, <1>4 DEF TypeInv
<1> QED
  BY <1>1, <1>2, <1>5 DEF TypeInv, history

\* WriteConfig changes one file, to the table of a WireGuard profile.
LEMMA WriteConfigWrites ==
    ASSUME TypeInv, WriteConfig
    PROVE  /\ disk' \in [Names -> Dirs]
           /\ \A m \in Names : m # op.n => disk'[m] = disk[m]
           /\ disk'[op.n].dir = disk[op.n].dir /\ disk'[op.n].conf = disk[op.n].conf
           /\ disk'[op.n].files[op.conf.kind] = FileFor(op.conf)
<1> DEFINE d == disk[op.n]
           f == [d.files EXCEPT ![op.conf.kind] = FileFor(op.conf)]
           e == [d EXCEPT !.files = f]
<1>1. op \in WriteOps /\ op.n \in Names
  BY OpKinds DEF WriteConfig, At, WriteSteps
<1>2. op.conf.kind \in Kinds /\ FileFor(op.conf) \in {0} \cup Tables
  BY <1>1 DEF WriteOps, ConfRecords, FileFor
<1>3. disk \in [Names -> Dirs] /\ d \in Dirs
  BY <1>1 DEF TypeInv
<1>4. f \in [Kinds -> {Absent, 0} \cup Tables] /\ f[op.conf.kind] = FileFor(op.conf)
  BY <1>2, <1>3 DEF Dirs
<1>5. disk' = [disk EXCEPT ![op.n] = e]
  BY DEF WriteConfig, FileFor
<1> HIDE DEF d, f
<1>6. e \in Dirs /\ e.dir = d.dir /\ e.conf = d.conf /\ e.files = f
  BY <1>3, <1>4 DEF Dirs
<1> HIDE DEF e
<1>7. disk' \in [Names -> Dirs] /\ disk'[op.n] = e /\ \A m \in Names : m # op.n => disk'[m] = disk[m]
  BY <1>1, <1>3, <1>5, <1>6, Zenon
<1> QED
  BY <1>4, <1>6, <1>7 DEF d

LEMMA TypeStep ==
    ASSUME TypeInv, [VNext]_vpnVars
    PROVE  TypeInv'
<1>1. CASE UNCHANGED vpnVars
  BY <1>1, Zenon DEF TypeInv, vpnVars
<1>2. ASSUME NEW do, NEW n, NEW req, Starts(do, n, req) PROVE TypeInv'
  BY <1>2, BeginGives, Zenon DEF TypeInv, kernel, history
<1>3. ASSUME NEW n \in Names, Delete(n) PROVE TypeInv'
  <2>1. Conf(n) \in ConfRecords
    BY <1>3, ConfTypes DEF Delete, Readable
  <2>2. op' \in DeleteOps
    BY <1>3, <2>1 DEF Delete, DeleteOps, DeleteSteps
  <2> QED
    BY <1>3, <2>2, Zenon DEF Delete, TypeInv, kernel, history
<1>4. ASSUME NEW n \in Names, StopUnit(n) PROVE TypeInv'
  BY <1>4 DEF StopUnit, TypeInv, Down, history
<1>5. CASE MakeDir
  <2>1. op.n \in Names /\ op' \in WriteOps
    BY <1>5, OpKinds, WriteMoves DEF MakeDir, At, WriteSteps
  <2>2. disk' \in [Names -> Dirs]
    BY <1>5, <2>1, ZenonT(40) DEF MakeDir, TypeInv, Dirs
  <2> QED
    BY <1>5, <2>1, <2>2 DEF MakeDir, TypeInv, kernel, history
<1>6. CASE WriteConfig
  <2>1. op.n \in Names /\ op \in WriteOps /\ op' \in WriteOps
    BY <1>6, OpKinds, WriteMoves DEF WriteConfig, At, WriteSteps
  <2>3. disk' \in [Names -> Dirs]
    BY <1>6, WriteConfigWrites
  <2> QED
    BY <1>6, <2>1, <2>3 DEF WriteConfig, TypeInv, kernel, history
<1>7. CASE WriteConf
  <2>1. op.n \in Names /\ op \in WriteOps /\ op' \in WriteOps
    BY <1>7, OpKinds, WriteMoves DEF WriteConf, At, WriteSteps
  <2>2. op.conf \in ConfRecords
    BY <2>1 DEF WriteOps
  <2>3. disk' \in [Names -> Dirs]
    BY <1>7, <2>1, <2>2, ZenonT(40) DEF WriteConf, TypeInv, Dirs
  <2> QED
    BY <1>7, <2>1, <2>3 DEF WriteConf, TypeInv, kernel, history
<1>8. CASE WriteUnit
  <2>1. op.n \in Names /\ op \in WriteOps /\ op' \in WriteOps
    BY <1>8, OpKinds, WriteMoves DEF WriteUnit, At, WriteSteps
  <2>2. UnitFor(op.conf) \in UnitFiles
    BY <2>1, UnitTypes DEF WriteOps
  <2>3. unit' \in [Names -> Units]
    BY <1>8, <2>1, <2>2, Zenon DEF WriteUnit, TypeInv, Units
  <2> QED
    BY <1>8, <2>1, <2>3 DEF WriteUnit, TypeInv, kernel, history
<1>9. CASE EnsureSymlink
  <2>1. op.n \in Names /\ op' \in WriteOps
    BY <1>9, OpKinds, WriteMoves DEF EnsureSymlink, At, WriteSteps
  <2>2. unit' \in [Names -> Units]
    BY <1>9, <2>1, Zenon DEF EnsureSymlink, TypeInv, Units
  <2> QED
    BY <1>9, <2>1, <2>2 DEF EnsureSymlink, TypeInv, kernel, history
<1>10. CASE ReloadAndFinish
  <2>1. op.n \in Names
    BY <1>10, OpKinds DEF ReloadAndFinish, At
  <2>2. disk' \in [Names -> Dirs]
    BY <1>10, <2>1, ZenonT(40) DEF ReloadAndFinish, TypeInv, Dirs
  <2>3. unit' \in [Names -> Units] /\ alloc' \in Sound
    BY <1>10, ReloadedTypes, ReleasedSound DEF ReloadAndFinish, TypeInv
  <2> QED
    BY <1>10, <2>2, <2>3 DEF ReloadAndFinish, Succeeds, TypeInv, kernel
<1>11. CASE RemoveUnitFile
  <2>1. op.n \in Names /\ op' \in DeleteOps
    BY <1>11, OpKinds, DeleteMoves DEF RemoveUnitFile, At, DeleteSteps
  <2>2. unit' \in [Names -> Units]
    BY <1>11, <2>1, ZenonT(40) DEF RemoveUnitFile, TypeInv, Units, UnitFiles
  <2> QED
    BY <1>11, <2>1, <2>2 DEF RemoveUnitFile, TypeInv, kernel, history
<1>12. CASE RemoveLink
  <2>1. op.n \in Names /\ op' \in DeleteOps
    BY <1>12, OpKinds, DeleteMoves DEF RemoveLink, At, DeleteSteps
  <2>2. unit' \in [Names -> Units]
    BY <1>12, <2>1, Zenon DEF RemoveLink, TypeInv, Units
  <2> QED
    BY <1>12, <2>1, <2>2 DEF RemoveLink, TypeInv, kernel, history
<1>13. CASE Unload
  <2>1. op.n \in Names /\ op' \in DeleteOps
    BY <1>13, OpKinds, DeleteMoves DEF Unload, At, DeleteSteps
  <2>2. unit' \in [Names -> Units]
    BY <1>13, ReloadedTypes DEF Unload, TypeInv
  <2> QED
    BY <1>13, <2>1, <2>2 DEF Unload, TypeInv, kernel, history
<1>14. CASE RemoveDir
  <2>1. disk' \in [Names -> Dirs]
    BY <1>14, NoDirTypes, Zenon DEF RemoveDir, TypeInv
  <2>2. alloc' \in Sound
    BY <1>14, ReleasedSound, Zenon DEF RemoveDir, TypeInv
  <2> QED
    BY <1>14, <2>1, <2>2 DEF RemoveDir, Succeeds, TypeInv, kernel
<1>15. CASE CreateFails
  <2>1. op.n \in Names
    BY <1>15, OpKinds DEF CreateFails
  <2>2. disk' \in [Names -> Dirs]
    BY <1>15, NoDirTypes, Zenon DEF CreateFails, TypeInv
  <2>3. alloc' \in Sound /\ faults' \in 0..MaxFaults
    BY <1>15, ReleasedSound, FaultTypes, Zenon DEF CreateFails, TypeInv
  <2>4. op' \in {Idle} \cup BotchedOps
    BY <1>15, <2>1 DEF CreateFails, BotchedOps
  <2> QED
    BY <1>15, <2>1, <2>2, <2>3, <2>4, Zenon DEF CreateFails, TypeInv, kernel
<1>16. CASE UpdateFails
  <2>1. op.n \in Names
    BY <1>16, OpKinds, Zenon DEF UpdateFails
  <2>2. alloc' \in Sound /\ faults' \in 0..MaxFaults
    BY <1>16, ReleasedSound, FaultTypes DEF UpdateFails, TypeInv
  <2> QED
    BY <1>16, <2>1, <2>2, Zenon DEF UpdateFails, TypeInv, kernel
<1>17. CASE DeleteFails
  <2>1. op.n \in Names
    BY <1>17, OpKinds DEF DeleteFails
  <2>2. disk' \in [Names -> Dirs]
    <3>1. disk \in [Names -> Dirs] /\ [disk EXCEPT ![op.n].conf = NoConf] \in [Names -> Dirs]
      BY <2>1, ZenonT(40) DEF TypeInv, Dirs
    <3>2. [disk EXCEPT ![op.n].files = [k \in Kinds |-> Absent]] \in [Names -> Dirs]
      BY <2>1, ZenonT(40) DEF TypeInv, Dirs
    <3> QED
      BY <1>17, <3>1, <3>2 DEF DeleteFails
  <2>3. faults' \in 0..MaxFaults
    BY <1>17, FaultTypes DEF DeleteFails
  <2> QED
    BY <1>17, <2>1, <2>2, <2>3 DEF DeleteFails, TypeInv, kernel
<1>18. ASSUME Killed PROVE disk' = disk /\ peacey' = peacey /\ op' = Idle /\ faults' \in 0..MaxFaults /\ torn' \subseteq Names
  <2>1. CASE op.do \in {"none", "botched"}
    BY <1>18, <2>1 DEF Killed, TypeInv
  <2>2. CASE op.do \notin {"none", "botched"}
    <3>1. op.n \in Names
      BY <2>2, OpKinds, Zenon
    <3> QED
      BY <1>18, <2>2, <3>1, FaultTypes DEF Killed, TypeInv
  <2> QED
    BY <2>1, <2>2
<1>19. CASE Restart
  BY <1>18, <1>19, UsageTypes, SeededHas, Zenon DEF Restart, TypeInv, Seed
<1>20. CASE Reboot
  <2>1. unit' \in [Names -> Units]
    BY <1>20 DEF Reboot, TypeInv, Units
  <2>2. active' \in [Names -> [table : {Absent, 0} \cup Tables, dev : Devs \cup {"none"}]]
    BY <1>20 DEF Reboot, Down
  <2>3. Used({}) \in Usage
    BY Zenon DEF Used, Usage
  <2>4. alloc' \in Sound
    BY <1>20, <2>3, UsageTypes, SeededHas, Zenon DEF Reboot
  <2> QED
    BY <1>18, <1>20, <2>1, <2>2, <2>4, Zenon DEF Reboot, TypeInv
<1>21. CASE ApplyRouting
  <2>1. \A n \in Profiles : Conf(n).table \in Tables /\ Conf(n).mark \in Marks
    BY ConfTypes, Zenon DEF Profiles
  <2>2. rules' \subseteq [table : Tables, mark : Marks]
    BY <1>21, <2>1 DEF ApplyRouting
  <2> QED
    BY <1>21, <2>2 DEF ApplyRouting, TypeInv, history
<1>22. CASE PeaceyAdds
  BY <1>22 DEF PeaceyAdds, TypeInv, history
<1> QED
  BY <1>1, <1>2, <1>3, <1>4, <1>5, <1>6, <1>7, <1>8, <1>9, <1>10, <1>11, <1>12, <1>13, <1>14, <1>15,
     <1>16, <1>17, <1>19, <1>20, <1>21, <1>22, StartCases, StartTypes, SMTT(30) DEF VNext, Steps
=============================================================================
