------------------------------ MODULE Allocator ------------------------------
(***************************************************************************)
(* vpn.Allocator: route tables and firewall marks for VPN profiles.  Its   *)
(* memory is the values in use and, among them, the sticky ones: those     *)
(* seen in the kernel or in another tool's profiles, which Release keeps.  *)
(***************************************************************************)
EXTENDS Integers, FiniteSets

CONSTANTS MinTable, MaxTable,   \* minRouteTableID, maxRouteTableID
          MinMark, MaxMark      \* minFWMark, maxFWMark

ASSUME RangeAssumption ==
    /\ {MinTable, MaxTable, MinMark, MaxMark} \subseteq Nat \ {0}
    /\ MinTable <= MaxTable /\ MinMark <= MaxMark

Tables == MinTable..MaxTable
Marks == MinMark..MaxMark

Allocators == [tables : SUBSET Tables, marks : SUBSET Marks,
               stickyTables : SUBSET Tables, stickyMarks : SUBSET Marks]

Least(S) == CHOOSE x \in S : \A y \in S : x <= y

\* Mutant of Refreshed: the kernel is only looked at when the process starts.
NotRefreshed(a, live) == a

\* refreshLiveReservationsLocked; live is what ip rule and ip route show.
Refreshed(a, live) ==
    [tables |-> a.tables \cup live.tables, marks |-> a.marks \cup live.marks,
     stickyTables |-> a.stickyTables \cup live.tables,
     stickyMarks |-> a.stickyMarks \cup live.marks]

\* seedUsedValues in a new process: the kernel and foreign profiles are
\* sticky, the profiles of our own directory are not.
Seeded(live, foreign, own) ==
    LET sticky == Refreshed(Refreshed([tables |-> {}, marks |-> {}, stickyTables |-> {},
                                       stickyMarks |-> {}], live), foreign)
    IN [sticky EXCEPT !.tables = @ \cup own.tables, !.marks = @ \cup own.marks]

\* Mutant of Released: what is sticky is released, too.
ReleasedAnyway(a, table, mark) ==
    [a EXCEPT !.tables = @ \ {table}, !.marks = @ \ {mark}]

\* Release; 0 releases nothing.
Released(a, table, mark) ==
    [a EXCEPT !.tables = @ \ ({table} \ a.stickyTables),
              !.marks = @ \ ({mark} \ a.stickyMarks)]

\* AllocateTable takes the least free table, Reserve the only one it wants.
TakeTable(a, free, release) ==
    IF free = {} THEN [ok |-> FALSE, a |-> a, value |-> 0, reserved |-> 0, release |-> 0]
    ELSE [ok |-> TRUE, a |-> [a EXCEPT !.tables = @ \cup {Least(free)}],
          value |-> Least(free), reserved |-> Least(free), release |-> release]

\* resolveRouteTableLocked: want is the Table of the configuration and old the
\* table of the profile that is updated, each 0 if there is none.
TableFor(a, live, want, old) ==
    LET seen == Refreshed(a, live)
    IN IF want # 0 /\ want # old THEN TakeTable(seen, {want} \ seen.tables, old)
       ELSE IF old # 0 THEN [ok |-> TRUE, a |-> a, value |-> old, reserved |-> 0, release |-> 0]
       ELSE TakeTable(seen, Tables \ seen.tables, 0)

\* resolveMarkLocked: the profile's own mark, or AllocateMark.
MarkFor(a, live, old) ==
    LET seen == Refreshed(a, live)
        free == Marks \ seen.marks
    IN IF old # 0 THEN [ok |-> TRUE, a |-> a, value |-> old, reserved |-> 0]
       ELSE IF free = {} THEN [ok |-> FALSE, a |-> seen, value |-> 0, reserved |-> 0]
       ELSE [ok |-> TRUE, a |-> [seen EXCEPT !.marks = @ \cup {Least(free)}],
             value |-> Least(free), reserved |-> Least(free)]
=============================================================================
