----------------------------- MODULE Migration -----------------------------
(***************************************************************************)
(* How the programs that share one SQLite file bring its schema up to date *)
(* when they open it.  A program looks up each version in turn and runs    *)
(* the batch of a version it does not find: one transaction that changes   *)
(* the tables and inserts the version.  Nothing is locked between the look *)
(* and the batch, so another program may have run the same batch           *)
(* meanwhile, and the rows that the last version rewrites are read before  *)
(* its transaction begins.                                                 *)
(***************************************************************************)
EXTENDS Naturals, FiniteSets

CONSTANTS
    Openers,       \* the programs
    Rows,          \* article history rows there may ever be
    Unreadable,    \* those the redaction cannot parse
    Starts,        \* the last versions the file may be at when it is found, 1 for none
    OldBuildsRun,  \* an earlier build may go on writing the file
    MaxFaults,     \* statements that find the file busy, and deaths of a program
    NoOne

Versions == 2 .. 9

ASSUME MigrationAssumption ==
    /\ Unreadable \subseteq Rows
    /\ Starts \subseteq {1} \cup 3 .. 9
    /\ Starts # {}
    /\ OldBuildsRun \in BOOLEAN
    /\ MaxFaults \in Nat
    /\ NoOne \notin Openers

\* What the file holds: the versions recorded in schema_migrations, those whose tables
\* and columns are there, and the article history with the columns it has.
Image == [versions : SUBSET Versions, tables : SUBSET Versions,
          columns : {"none", "legacy", "redacted"}, rows : SUBSET Rows]

VARIABLES
    file,      \* what is committed
    writer,    \* the connection with a write transaction
    work,      \* the file as that transaction sees it
    at,        \* where each program is in opening the file
    target,    \* the version it looks at
    legacy,    \* the history rows it has read for the redaction
    recorded,  \* every history row ever committed
    exposed,   \* those an earlier build recorded after a redaction had read its rows
    faults

vars == <<file, writer, work, at, target, legacy, recorded, exposed, faults>>

ColumnsAt(last) ==
    IF last < 8 THEN "none" ELSE IF last = 8 THEN "legacy" ELSE "redacted"

Init ==
    /\ \E last \in Starts : \E rows \in SUBSET Rows :
        /\ last < 8 => rows = {}
        /\ file = [versions |-> 2 .. last, tables |-> 2 .. last,
                   columns |-> ColumnsAt(last), rows |-> rows]
    /\ writer = NoOne
    /\ work = file
    /\ at = [c \in Openers |-> "closed"]
    /\ target = [c \in Openers |-> 3]
    /\ legacy = [c \in Openers |-> {}]
    /\ recorded = file.rows
    /\ exposed = {}
    /\ faults = 0

-----------------------------------------------------------------------------
Goto(c, place) == at' = [at EXCEPT ![c] = place]

\* The connection is dropped, and its transaction with it.
Release(c) ==
    /\ writer' = IF writer = c THEN NoOne ELSE writer
    /\ work' = IF writer = c THEN file ELSE work
    /\ legacy' = [legacy EXCEPT ![c] = {}]
    /\ UNCHANGED <<file, target, recorded, exposed>>

Fail(c) == Goto(c, "failed") /\ Release(c)

\* Connection::open, by a program that starts or is started again.
Open(c) ==
    /\ at[c] \in {"closed", "failed"}
    /\ Goto(c, "base")
    /\ target' = [target EXCEPT ![c] = 3]
    /\ UNCHANGED <<file, writer, work, legacy, recorded, exposed, faults>>

\* Mutant: the first batch inserts its versions whatever is there.
Base_Inserts(c) ==
    /\ at[c] = "base"
    /\ writer = NoOne
    /\ \/ 3 \in file.versions /\ Fail(c)
       \/ /\ 3 \notin file.versions
          /\ Goto(c, "commit")
          /\ writer' = c
          /\ work' = [file EXCEPT !.versions = @ \cup {2, 3}, !.tables = @ \cup {2, 3}]
          /\ UNCHANGED <<file, target, legacy, recorded, exposed>>
    /\ UNCHANGED faults

\* The tables of versions 2 and 3 are created, and the versions inserted, unless they
\* are there.
Base(c) ==
    /\ at[c] = "base"
    /\ writer = NoOne
    /\ Goto(c, "commit")
    /\ writer' = c
    /\ work' = [file EXCEPT !.versions = @ \cup {2, 3}, !.tables = @ \cup {2, 3}]
    /\ UNCHANGED <<file, target, legacy, recorded, exposed, faults>>

\* On to the next version, or done.
Following(c) ==
    IF target[c] < 9
    THEN Goto(c, "check") /\ target' = [target EXCEPT ![c] = @ + 1]
    ELSE Goto(c, "open") /\ UNCHANGED target

\* SELECT EXISTS(SELECT 1 FROM schema_migrations WHERE version = ...)
Check(c) ==
    /\ at[c] = "check"
    /\ \/ target[c] \in file.versions /\ Following(c)
       \/ /\ target[c] \notin file.versions
          /\ Goto(c, IF target[c] = 9 THEN "read_legacy" ELSE "begin")
          /\ UNCHANGED target
    /\ UNCHANGED <<file, writer, work, legacy, recorded, exposed, faults>>

\* The rows of article_history, by columns that the redaction takes away.
ReadLegacy(c) ==
    /\ at[c] = "read_legacy"
    /\ \/ file.columns # "legacy" /\ Fail(c)
       \/ /\ file.columns = "legacy"
          /\ Goto(c, "begin")
          /\ legacy' = [legacy EXCEPT ![c] = file.rows]
          /\ UNCHANGED <<file, writer, work, target, recorded, exposed>>
    /\ UNCHANGED faults

\* Mutant: the statements of a batch are not in a transaction.
Begin_Unbounded(c) ==
    /\ at[c] = "begin"
    /\ writer = NoOne
    /\ \/ target[c] # 9 /\ target[c] \in file.tables /\ Fail(c)
       \/ /\ target[c] = 9 \/ target[c] \notin file.tables
          /\ Goto(c, IF target[c] = 9 THEN "rewrite" ELSE "mark")
          /\ writer' = c
          /\ work' = [file EXCEPT !.tables = @ \cup ({target[c]} \ {9}),
                                  !.columns = IF target[c] = 8 THEN "legacy" ELSE @]
          /\ file' = work'
          /\ UNCHANGED <<target, legacy, recorded, exposed>>
    /\ UNCHANGED faults

\* BEGIN and the tables of one version, or the table the redaction fills: a table or
\* column that is there is an error, except for that last table, which is renamed away.
Begin(c) ==
    /\ at[c] = "begin"
    /\ writer = NoOne
    /\ \/ target[c] # 9 /\ target[c] \in file.tables /\ Fail(c)
       \/ /\ target[c] = 9 \/ target[c] \notin file.tables
          /\ Goto(c, IF target[c] = 9 THEN "rewrite" ELSE "mark")
          /\ writer' = c
          /\ work' = [file EXCEPT !.tables = @ \cup ({target[c]} \ {9}),
                                  !.columns = IF target[c] = 8 THEN "legacy" ELSE @]
          /\ UNCHANGED <<file, target, legacy, recorded, exposed>>
    /\ UNCHANGED faults

\* The rows that were read are inserted one by one, and the new table takes the place
\* of the old one; a row that cannot be parsed rolls everything back.
Rewrite(c) ==
    /\ at[c] = "rewrite"
    /\ \/ legacy[c] \cap Unreadable # {} /\ Fail(c)
       \/ /\ legacy[c] \cap Unreadable = {}
          /\ Goto(c, "mark")
          /\ work' = [work EXCEPT !.tables = @ \cup {9}, !.columns = "redacted",
                                  !.rows = legacy[c]]
          /\ UNCHANGED <<file, writer, target, legacy, recorded, exposed>>
    /\ UNCHANGED faults

\* Mutant: a version that is there is ignored.
Mark_Ignored(c) ==
    /\ at[c] = "mark"
    /\ Goto(c, "commit")
    /\ work' = [work EXCEPT !.versions = @ \cup {target[c]}]
    /\ UNCHANGED <<file, writer, target, legacy, recorded, exposed, faults>>

\* INSERT INTO schema_migrations(version): the version is the table's key.
Mark(c) ==
    /\ at[c] = "mark"
    /\ \/ target[c] \in work.versions /\ Fail(c)
       \/ /\ target[c] \notin work.versions
          /\ Goto(c, "commit")
          /\ work' = [work EXCEPT !.versions = @ \cup {target[c]}]
          /\ UNCHANGED <<file, writer, target, legacy, recorded, exposed>>
    /\ UNCHANGED faults

Commit(c) ==
    /\ at[c] = "commit"
    /\ file' = work
    /\ writer' = NoOne
    /\ Following(c)
    /\ legacy' = [legacy EXCEPT ![c] = {}]
    /\ UNCHANGED <<work, recorded, exposed, faults>>

-----------------------------------------------------------------------------
\* A statement waits for another connection longer than the busy timeout.
Busy(c) ==
    /\ at[c] \in {"base", "check", "read_legacy", "begin", "commit"}
    /\ faults < MaxFaults
    /\ Fail(c)
    /\ faults' = faults + 1

\* The program dies, or ends.
Crash(c) ==
    /\ at[c] \notin {"closed", "failed"}
    /\ faults < MaxFaults
    /\ Goto(c, "closed")
    /\ Release(c)
    /\ faults' = faults + 1

\* A program that has opened the file records an article publication.
Record(c) ==
    /\ at[c] = "open"
    /\ writer = NoOne
    /\ \E row \in Rows \ recorded :
        /\ file' = [file EXCEPT !.rows = @ \cup {row}]
        /\ recorded' = recorded \cup {row}
    /\ UNCHANGED <<writer, work, at, target, legacy, exposed, faults>>

\* So does an earlier build, for as long as its columns are there.
HasRead(c) == at[c] = "begin" /\ target[c] = 9

OldBuildRecords ==
    /\ OldBuildsRun
    /\ file.columns = "legacy"
    /\ writer = NoOne
    /\ \E row \in Rows \ recorded :
        /\ file' = [file EXCEPT !.rows = @ \cup {row}]
        /\ recorded' = recorded \cup {row}
        /\ exposed' = exposed \cup {r \in {row} : \E c \in Openers : HasRead(c)}
    /\ UNCHANGED <<writer, work, at, target, legacy, faults>>

Step(c) ==
    \/ Open(c) \/ Base(c) \/ Check(c) \/ ReadLegacy(c) \/ Begin(c) \/ Rewrite(c)
    \/ Mark(c) \/ Commit(c)

Next ==
    \/ OldBuildRecords
    \/ \E c \in Openers : Step(c) \/ Busy(c) \/ Crash(c) \/ Record(c)

Spec == Init /\ [][Next]_vars

\* A program that was started goes on, and one that could not open the file is started
\* again: by its service manager, or by its user.
FairSpec == Spec /\ \A c \in Openers : WF_vars(Step(c))

-----------------------------------------------------------------------------
(* Properties. *)

Places == {"closed", "base", "check", "read_legacy", "begin", "rewrite", "mark",
           "commit", "open", "failed"}

TypeOK ==
    /\ file \in Image
    /\ writer \in Openers \cup {NoOne}
    /\ work \in Image
    /\ at \in [Openers -> Places]
    /\ target \in [Openers -> 3 .. 9]
    /\ legacy \in [Openers -> SUBSET Rows]
    /\ recorded \subseteq Rows
    /\ exposed \subseteq recorded
    /\ faults \in 0 .. MaxFaults

\* Whoever fails or dies where, the versions on record are those whose tables and
\* columns are in the file, without a gap, and the history has the columns of the last;
\* a program that has opened the file works on the newest.
VersionsTellSchema ==
    /\ file.tables = file.versions
    /\ \E last \in {1} \cup 3 .. 9 :
        /\ file.versions = 2 .. last
        /\ file.columns = ColumnsAt(last)
        /\ last < 9 => \A c \in Openers : at[c] # "open"

\* Two programs may both find that the history is to be redacted, and one of them may
\* rewrite it after the other has, and has recorded new rows: no row that was
\* committed is lost, except one that an earlier build records between the read of a
\* redaction and its transaction.
HistoryIsKept == recorded \ exposed \subseteq file.rows

\* Once the faults are over every program opens the file, although those that look
\* for the same version at once fail each other; a history row that cannot be parsed
\* when it is redacted keeps every program out.
EveryoneOpens ==
    [](recorded \cap Unreadable = {}) => \A c \in Openers : <>[](at[c] = "open")
=============================================================================
