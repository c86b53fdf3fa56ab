-------------------------- MODULE MigrationProofs --------------------------
(***************************************************************************)
(* What Migration promises for any number of programs, history rows and    *)
(* faults.  What a program has seen in the file outlives the lock it does  *)
(* not hold because versions are never taken away; whether its own version *)
(* is still missing is only known again in its transaction, where the key  *)
(* of schema_migrations decides.                                           *)
(***************************************************************************)
EXTENDS Migration, TLAPS

\* The tables and columns of a file are those of its versions.
Tidy(image) ==
    /\ image.tables = image.versions
    /\ \E last \in {1} \cup 3 .. 9 :
        /\ image.versions = 2 .. last
        /\ image.columns = ColumnsAt(last)

Kept(image) == recorded \ exposed \subseteq image.rows

\* A program that rewrites has the write transaction, and nobody else.
Locked(c) == writer = c <=> at[c] \in {"rewrite", "mark", "commit"}

\* It has seen every version before the one it looks at, and all when it is done.
Sighted(c) ==
    /\ at[c] = "base" => target[c] = 3
    /\ at[c] \in {"check", "read_legacy", "begin", "rewrite", "mark"}
         => target[c] \in 4 .. 9 /\ 2 .. (target[c] - 1) \subseteq file.versions
    /\ at[c] \in {"read_legacy", "rewrite"} => target[c] = 9
    /\ at[c] = "open" => 9 \in file.versions

\* The rows it has read are the history, for as long as nobody has redacted it.
Gathered(c) ==
    at[c] \in {"begin", "rewrite"} /\ target[c] = 9 /\ 9 \notin file.versions
        => recorded \ exposed \subseteq legacy[c]

\* What its transaction has made of the file.
Worked(c) ==
    /\ at[c] = "rewrite" => work.versions = file.versions /\ work.tables = file.versions
    /\ at[c] = "mark" =>
        /\ work.versions = file.versions
        /\ work.tables = file.versions \cup {target[c]}
        /\ work.columns = ColumnsAt(target[c])
        /\ target[c] \notin file.versions => Kept(work)
    /\ at[c] = "commit" =>
        /\ Tidy(work)
        /\ file.versions \cup 2 .. target[c] \subseteq work.versions
        /\ Kept(work)

Here(c) == Locked(c) /\ Sighted(c) /\ Gathered(c) /\ Worked(c)

IInv ==
    /\ TypeOK
    /\ Tidy(file)
    /\ Kept(file)
    /\ \A c \in Openers : Here(c)

-----------------------------------------------------------------------------
LEMMA NobodyWrites == NoOne \notin Openers
  BY MigrationAssumption

\* Every variable keeps to its type.
LEMMA TypeKept == TypeOK /\ [Next]_vars => TypeOK'
<1> SUFFICES ASSUME TypeOK, [Next]_vars PROVE TypeOK'
  OBVIOUS
<1> USE DEF TypeOK, Image, Versions, Places, Goto
<1>1. CASE UNCHANGED vars
  BY <1>1 DEF vars
<1>2. CASE OldBuildRecords
  BY <1>2 DEF OldBuildRecords
<1>3. ASSUME NEW c \in Openers, Release(c), NEW place \in {"failed", "closed"},
             Goto(c, place), faults' \in 0 .. MaxFaults
      PROVE  TypeOK'
  BY <1>3 DEF Release
<1>4. ASSUME NEW c \in Openers, Step(c)
      PROVE  TypeOK'
  <2>1. CASE Fail(c) /\ UNCHANGED faults
    BY <2>1, <1>3 DEF Fail
  <2>2. CASE Open(c)
    BY <2>2 DEF Open
  <2>3. CASE Base(c)
    <3>1. work' \in Image
      <4>1. /\ file.versions \cup {2, 3} \subseteq Versions
            /\ file.tables \cup {2, 3} \subseteq Versions
        OBVIOUS
      <4>2. work' = [file EXCEPT !.versions = @ \cup {2, 3}, !.tables = @ \cup {2, 3}]
        BY <2>3 DEF Base
      <4> QED
        BY <4>1, <4>2
    <3> QED
      BY <2>3, <3>1 DEF Base
  <2>4. CASE Check(c)
    BY <2>4 DEF Check, Following
  <2>5. CASE ReadLegacy(c)
    BY <2>5, <2>1 DEF ReadLegacy
  <2>6. CASE Begin(c)
    <3>1. CASE Fail(c)
      BY <3>1, <2>1, <2>6 DEF Begin
    <3>2. CASE ~Fail(c)
      <4>1. work' = [file EXCEPT !.tables = @ \cup ({target[c]} \ {9}),
                                 !.columns = IF target[c] = 8 THEN "legacy" ELSE @]
        BY <2>6, <3>2 DEF Begin
      <4>2. work' \in Image
        <5>1. file.tables \cup ({target[c]} \ {9}) \in SUBSET Versions
          OBVIOUS
        <5>2. (IF target[c] = 8 THEN "legacy" ELSE file.columns)
                \in {"none", "legacy", "redacted"}
          OBVIOUS
        <5> HIDE DEF Versions
        <5> QED
          BY <4>1, <5>1, <5>2
      <4> QED
        BY <2>6, <3>2, <4>2 DEF Begin
    <3> QED
      BY <3>1, <3>2
  <2>7. CASE Rewrite(c)
    <3>1. CASE Fail(c)
      BY <3>1, <2>1, <2>7 DEF Rewrite
    <3>2. CASE ~Fail(c)
      <4>1. work' = [work EXCEPT !.tables = @ \cup {9}, !.columns = "redacted",
                                 !.rows = legacy[c]]
        BY <2>7, <3>2 DEF Rewrite
      <4>2. work' \in Image
        <5>1. work.tables \cup {9} \in SUBSET Versions /\ legacy[c] \in SUBSET Rows
          OBVIOUS
        <5> HIDE DEF Versions
        <5> QED
          BY <4>1, <5>1
      <4> QED
        BY <2>7, <3>2, <4>2 DEF Rewrite
    <3> QED
      BY <3>1, <3>2
  <2>8. CASE Mark(c)
    BY <2>8, <2>1 DEF Mark
  <2>9. CASE Commit(c)
    BY <2>9 DEF Commit, Following
  <2> QED
    BY <1>4, <2>2, <2>3, <2>4, <2>5, <2>6, <2>7, <2>8, <2>9 DEF Step
<1>5. ASSUME NEW c \in Openers, Busy(c) \/ Crash(c)
      PROVE  TypeOK'
  <2>1. faults' \in 0 .. MaxFaults
    BY <1>5, MigrationAssumption DEF Busy, Crash
  <2> QED
    BY <1>5, <2>1, <1>3 DEF Busy, Crash, Fail
<1>6. ASSUME NEW c \in Openers, Record(c)
      PROVE  TypeOK'
  BY <1>6 DEF Record
<1> QED
  BY <1>1, <1>2, <1>4, <1>5, <1>6 DEF Next

\* What a step of another program may do behind a program's back: add versions to the
\* file, use the write transaction while this one has none, and record rows as long as
\* this one has not read the history.
LEMMA Undisturbed ==
  ASSUME NEW d \in Openers, Here(d), TypeOK,
         at'[d] = at[d], target'[d] = target[d], legacy'[d] = legacy[d],
         file.versions \subseteq file.versions',
         writer = d <=> writer' = d,
         writer = d => UNCHANGED <<file, work, recorded, exposed>>,
         at[d] = "begin" /\ target[d] = 9
             => recorded' \ exposed' \subseteq recorded \ exposed
  PROVE  Here(d)'
<1>1. Locked(d)'
  BY DEF Here, Locked
<1>2. Sighted(d)'
  BY DEF Here, Sighted
<1>3. Gathered(d)'
  BY DEF Here, Gathered, Locked
<1>4. Worked(d)'
  BY DEF Here, Worked, Locked, Tidy, Kept
<1> QED
  BY <1>1, <1>2, <1>3, <1>4 DEF Here

\* The part of the invariant that TypeOK leaves.
Rest == Tidy(file) /\ Kept(file) /\ \A c \in Openers : Here(c)

\* A transaction that is dropped leaves nothing.
LEMMA Dropped ==
  ASSUME IInv, NEW c \in Openers, Release(c), NEW place \in {"failed", "closed"},
         Goto(c, place)
  PROVE  Rest'
<1>1. Tidy(file)' /\ Kept(file)'
  BY DEF IInv, Release, Tidy, Kept
<1>2. ASSUME NEW d \in Openers PROVE Here(d)'
  <2>1. CASE d = c
    BY <2>1, NobodyWrites DEF Here, Locked, Sighted, Gathered, Worked, Release, Goto,
                              IInv, TypeOK
  <2>2. CASE d # c
    BY <2>2, Undisturbed, NobodyWrites DEF Release, Goto, IInv, TypeOK, Image
  <2> QED
    BY <2>1, <2>2
<1> QED
  BY <1>1, <1>2 DEF Rest

\* A program that steps without a transaction disturbs nobody.
LEMMA Unlocked ==
  ASSUME IInv, NEW c \in Openers, UNCHANGED <<file, writer, work, recorded, exposed>>,
         Here(c)',
         \A d \in Openers \ {c} : /\ at'[d] = at[d] /\ target'[d] = target[d]
                                  /\ legacy'[d] = legacy[d]
  PROVE  Rest'
<1>1. Tidy(file)' /\ Kept(file)'
  BY DEF IInv, Tidy, Kept
<1>2. ASSUME NEW d \in Openers \ {c} PROVE Here(d)'
  BY Undisturbed DEF IInv
<1> QED
  BY <1>1, <1>2 DEF Rest

LEMMA OpenKeeps == ASSUME IInv, NEW c \in Openers, Open(c) PROVE Rest'
<1>1. Here(c)'
  BY DEF IInv, TypeOK, Here, Locked, Sighted, Gathered, Worked, Open, Goto
<1> QED
  BY <1>1, Unlocked DEF Open, Goto, IInv, TypeOK

LEMMA CheckKeeps == ASSUME IInv, NEW c \in Openers, Check(c) PROVE Rest'
<1>1. at[c] = "check" /\ target[c] \in 4 .. 9 /\ 2 .. (target[c] - 1) \subseteq file.versions
  BY DEF IInv, Check, Here, Sighted
<1>2. CASE target[c] \in file.versions
  <2>1. 2 .. target[c] \subseteq file.versions
    BY <1>1, <1>2
  <2>2. Here(c)'
    <3>1. Sighted(c)'
      BY <1>1, <1>2, <2>1 DEF IInv, TypeOK, Sighted, Check, Following, Goto
    <3> QED
      BY <1>1, <1>2, <3>1 DEF IInv, TypeOK, Here, Locked, Gathered, Worked, Check,
                              Following, Goto
  <2> QED
    BY <1>2, <2>2, Unlocked DEF Check, Following, Goto, IInv, TypeOK
<1>3. CASE target[c] \notin file.versions
  <2>1. Here(c)'
    BY <1>1, <1>3 DEF IInv, TypeOK, Here, Locked, Sighted, Gathered, Worked, Check, Goto
  <2> QED
    BY <1>3, <2>1, Unlocked DEF Check, Goto, IInv, TypeOK
<1> QED
  BY <1>2, <1>3

LEMMA ReadLegacyKeeps == ASSUME IInv, NEW c \in Openers, ReadLegacy(c) PROVE Rest'
<1>1. CASE Fail(c)
  BY <1>1, Dropped DEF Fail
<1>2. CASE ~Fail(c)
  <2>1. Here(c)'
    BY <1>2 DEF IInv, TypeOK, Here, Locked, Sighted, Gathered, Worked, Kept, ReadLegacy,
                Goto
  <2> QED
    BY <1>2, <2>1, Unlocked DEF ReadLegacy, Goto, IInv, TypeOK
<1> QED
  BY <1>1, <1>2

\* A program that takes the write transaction and leaves the file alone disturbs nobody,
\* and neither does one that has it.
LEMMA Writing ==
  ASSUME IInv, NEW c \in Openers, UNCHANGED <<file, recorded, exposed>>,
         writer \in {NoOne, c}, writer' = c,
         Here(c)',
         \A d \in Openers \ {c} : /\ at'[d] = at[d] /\ target'[d] = target[d]
                                  /\ legacy'[d] = legacy[d]
  PROVE  Rest'
<1>1. Tidy(file)' /\ Kept(file)'
  BY DEF IInv, Tidy, Kept
<1>2. ASSUME NEW d \in Openers \ {c} PROVE Here(d)'
  BY Undisturbed, NobodyWrites DEF IInv
<1> QED
  BY <1>1, <1>2 DEF Rest

LEMMA BaseKeeps == ASSUME IInv, NEW c \in Openers, Base(c) PROVE Rest'
<1>1. PICK last \in {1} \cup 3 .. 9 :
        file.versions = 2 .. last /\ file.columns = ColumnsAt(last)
  BY DEF IInv, Tidy
<1> DEFINE next == IF last = 1 THEN 3 ELSE last
<1>2. /\ work'.versions = file.versions \cup {2, 3}
      /\ work'.tables = file.tables \cup {2, 3}
      /\ work'.columns = file.columns
      /\ work'.rows = file.rows
  BY DEF Base, IInv, TypeOK, Image
<1>3. next \in 3 .. 9 /\ work'.versions = 2 .. next /\ work'.columns = ColumnsAt(next)
  BY <1>1, <1>2 DEF ColumnsAt
<1>4. Tidy(work)'
  BY <1>2, <1>3 DEF Tidy, IInv, ColumnsAt
<1>5. Kept(work)'
  BY <1>2 DEF Kept, IInv, Base
<1>6. target'[c] = 3 /\ at'[c] = "commit" /\ writer' = c
  BY DEF IInv, TypeOK, Here, Sighted, Base, Goto
<1>7. file.versions' \cup 2 .. target'[c] \subseteq work'.versions
  BY <1>2, <1>6 DEF Base
<1>8. Here(c)'
  BY <1>4, <1>5, <1>6, <1>7 DEF Here, Locked, Sighted, Gathered, Worked
<1> QED
  BY <1>8, Writing DEF Base, Goto, IInv, TypeOK

LEMMA BeginKeeps == ASSUME IInv, NEW c \in Openers, Begin(c) PROVE Rest'
<1>1. CASE Fail(c)
  BY <1>1, Dropped DEF Fail
<1>2. CASE ~Fail(c)
  <2>1. /\ target[c] \in 4 .. 9 /\ 2 .. (target[c] - 1) \subseteq file.versions
        /\ at'[c] = (IF target[c] = 9 THEN "rewrite" ELSE "mark")
        /\ target' = target /\ writer' = c
    BY <1>2 DEF IInv, TypeOK, Here, Sighted, Begin, Goto
  <2>2. /\ work'.versions = file.versions
        /\ work'.tables = file.tables \cup ({target[c]} \ {9})
        /\ work'.columns = IF target[c] = 8 THEN "legacy" ELSE file.columns
        /\ work'.rows = file.rows
    BY <1>2 DEF Begin, IInv, TypeOK, Image
  <2>3. CASE target[c] = 9
    <3>1. work'.tables = file.versions
      BY <2>2, <2>3 DEF IInv, Tidy
    <3> QED
      BY <1>2, <2>1, <2>2, <2>3, <3>1, Writing
         DEF Begin, Goto, IInv, TypeOK, Here, Locked, Sighted, Gathered, Worked
  <2>4. CASE target[c] # 9
    <3>1. target[c] \notin file.versions
      BY <1>2, <2>4 DEF Begin, IInv, Tidy
    <3>2. PICK last \in {1} \cup 3 .. 9 :
            file.versions = 2 .. last /\ file.columns = ColumnsAt(last)
      BY DEF IInv, Tidy
    <3>3. last = target[c] - 1
      <4>1. target[c] - 1 \in 2 .. last
        BY <2>1, <3>2
      <4> QED
        BY <2>1, <3>1, <3>2, <4>1
    <3>4. work'.columns = ColumnsAt(target[c])
      BY <2>1, <2>2, <2>4, <3>2, <3>3 DEF ColumnsAt
    <3>5. work'.tables = file.versions \cup {target[c]}
      BY <2>2, <2>4 DEF IInv, Tidy
    <3>6. Kept(work)'
      BY <1>2, <2>2 DEF Kept, IInv, Begin
    <3>7. file' = file
      BY <1>2 DEF Begin
    <3>8. Here(c)'
      BY <2>1, <2>2, <2>4, <3>4, <3>5, <3>6, <3>7
         DEF Here, Locked, Sighted, Gathered, Worked
    <3> QED
      BY <1>2, <2>1, <3>8, Writing DEF Begin, Goto, IInv, TypeOK
  <2> QED
    BY <2>3, <2>4
<1> QED
  BY <1>1, <1>2

LEMMA RewriteKeeps == ASSUME IInv, NEW c \in Openers, Rewrite(c) PROVE Rest'
<1>1. CASE Fail(c)
  BY <1>1, Dropped DEF Fail
<1>2. CASE ~Fail(c)
  <2>1. /\ at[c] = "rewrite" /\ target[c] = 9 /\ 2 .. 8 \subseteq file.versions
        /\ work.versions = file.versions /\ work.tables = file.versions /\ writer = c
        /\ 9 \notin file.versions => recorded \ exposed \subseteq legacy[c]
    BY DEF Rewrite, IInv, Here, Locked, Sighted, Gathered, Worked
  <2>2. /\ work'.versions = file.versions
        /\ work'.tables = file.versions \cup {9}
        /\ work'.columns = ColumnsAt(9)
        /\ work'.rows = legacy[c]
    <3>1. work' = [work EXCEPT !.tables = @ \cup {9}, !.columns = "redacted",
                               !.rows = legacy[c]]
      BY <1>2 DEF Rewrite
    <3>2. work \in Image
      BY DEF IInv, TypeOK
    <3> QED
      BY <2>1, <3>1, <3>2 DEF Image, ColumnsAt
  <2>3. /\ at'[c] = "mark" /\ target' = target
        /\ UNCHANGED <<file, writer, legacy, recorded, exposed>>
    BY <1>2 DEF Rewrite, Goto, IInv, TypeOK
  <2>4. Here(c)'
    BY <2>1, <2>2, <2>3 DEF Here, Locked, Sighted, Gathered, Worked, Kept
  <2> QED
    BY <1>2, <2>1, <2>3, <2>4, Writing DEF Rewrite, Goto, IInv, TypeOK
<1> QED
  BY <1>1, <1>2

LEMMA MarkKeeps == ASSUME IInv, NEW c \in Openers, Mark(c) PROVE Rest'
<1>1. CASE Fail(c)
  BY <1>1, Dropped DEF Fail
<1>2. CASE ~Fail(c)
  <2>1. /\ at[c] = "mark" /\ writer = c
        /\ target[c] \in 4 .. 9 /\ 2 .. (target[c] - 1) \subseteq file.versions
        /\ work.versions = file.versions
        /\ work.tables = file.versions \cup {target[c]}
        /\ work.columns = ColumnsAt(target[c])
        /\ target[c] \notin file.versions => Kept(work)
    BY DEF Mark, IInv, Here, Locked, Sighted, Worked
  <2>2. target[c] \notin file.versions
    BY <1>2, <2>1 DEF Mark
  <2>3. PICK last \in {1} \cup 3 .. 9 : file.versions = 2 .. last
    BY DEF IInv, Tidy
  <2>4. file.versions \cup {target[c]} = 2 .. target[c]
    BY <2>1, <2>2, <2>3
  <2>5. /\ work'.versions = 2 .. target[c] /\ work'.tables = 2 .. target[c]
        /\ work'.columns = ColumnsAt(target[c]) /\ work'.rows = work.rows
    BY <1>2, <2>1, <2>4 DEF Mark, IInv, TypeOK, Image
  <2>6. /\ at'[c] = "commit" /\ target' = target
        /\ UNCHANGED <<file, writer, legacy, recorded, exposed>>
    BY <1>2 DEF Mark, Goto, IInv, TypeOK
  <2>7. Tidy(work)'
    BY <2>1, <2>5 DEF Tidy
  <2>8. Kept(work)'
    BY <2>1, <2>2, <2>5, <2>6 DEF Kept
  <2>9. file.versions' \cup 2 .. target'[c] \subseteq work'.versions
    BY <2>4, <2>5, <2>6
  <2>10. Here(c)'
    BY <2>1, <2>6, <2>7, <2>8, <2>9 DEF Here, Locked, Sighted, Gathered, Worked
  <2> QED
    BY <1>2, <2>1, <2>6, <2>10, Writing DEF Mark, Goto, IInv, TypeOK
<1> QED
  BY <1>1, <1>2

LEMMA CommitKeeps == ASSUME IInv, NEW c \in Openers, Commit(c) PROVE Rest'
<1>1. /\ at[c] = "commit" /\ writer = c /\ target[c] \in 3 .. 9
      /\ Tidy(work) /\ Kept(work)
      /\ file.versions \cup 2 .. target[c] \subseteq work.versions
  BY DEF Commit, IInv, TypeOK, Here, Locked, Worked
<1>2. file' = work /\ writer' = NoOne /\ UNCHANGED <<work, recorded, exposed>>
  BY DEF Commit
<1>3. Tidy(file)' /\ Kept(file)'
  BY <1>1, <1>2 DEF Tidy, Kept
<1>4. 2 .. target[c] \subseteq file.versions'
  BY <1>1, <1>2
<1>5. Sighted(c)'
  <2>1. CASE target[c] < 9
    BY <1>1, <1>4, <2>1 DEF Sighted, Commit, Following, Goto, IInv, TypeOK
  <2>2. CASE ~(target[c] < 9)
    BY <1>1, <1>4, <2>2 DEF Sighted, Commit, Following, Goto, IInv, TypeOK
  <2> QED
    BY <2>1, <2>2
<1>6. Here(c)'
  BY <1>1, <1>2, <1>5, NobodyWrites
     DEF Here, Locked, Gathered, Worked, Commit, Following, Goto, IInv, TypeOK
<1>7. ASSUME NEW d \in Openers, d # c PROVE Here(d)'
  <2>1. at'[d] = at[d] /\ target'[d] = target[d] /\ legacy'[d] = legacy[d]
    BY <1>7 DEF Commit, Following, Goto, IInv, TypeOK
  <2>2. file.versions \subseteq file.versions'
    BY <1>1, <1>2
  <2> QED
    BY <1>1, <1>2, <1>7, <2>1, <2>2, Undisturbed, NobodyWrites DEF IInv
<1> QED
  BY <1>3, <1>6, <1>7 DEF Rest

\* A row is recorded by a program that has opened the file, or by an earlier build
\* when no program has read the history; else it is exposed.
LEMMA RecordKeeps ==
  ASSUME IInv, (\E c \in Openers : Record(c)) \/ OldBuildRecords
  PROVE  Rest'
<1>1. PICK row \in Rows \ recorded :
        /\ file' = [file EXCEPT !.rows = @ \cup {row}]
        /\ recorded' = recorded \cup {row}
  BY DEF Record, OldBuildRecords
<1>2. /\ writer = NoOne /\ UNCHANGED <<writer, work, at, target, legacy>>
      /\ exposed \subseteq exposed'
  BY DEF Record, OldBuildRecords
<1>3. /\ file'.versions = file.versions /\ file'.tables = file.tables
      /\ file'.columns = file.columns /\ file'.rows = file.rows \cup {row}
  BY <1>1 DEF IInv, TypeOK, Image
<1>4. Tidy(file)' /\ Kept(file)'
  BY <1>1, <1>2, <1>3 DEF IInv, Tidy, Kept
<1>5. ASSUME NEW d \in Openers PROVE Here(d)'
  <2>1. CASE at[d] = "begin" /\ target[d] = 9 /\ 9 \notin file.versions
    <3>1. CASE \E c \in Openers : Record(c)
      BY <2>1, <3>1 DEF Record, IInv, Here, Sighted
    <3>2. CASE OldBuildRecords
      <4>1. HasRead(d)
        BY <2>1 DEF HasRead
      <4>2. PICK r \in Rows \ recorded :
              /\ recorded' = recorded \cup {r}
              /\ exposed' = exposed \cup {q \in {r} : \E c \in Openers : HasRead(c)}
        BY <3>2 DEF OldBuildRecords
      <4>3. recorded' \ exposed' \subseteq recorded \ exposed
        BY <4>1, <4>2
      <4> QED
        BY <1>2, <1>3, <4>3, NobodyWrites, Undisturbed DEF IInv
    <3> QED
      BY <3>1, <3>2
  <2>2. CASE ~(at[d] = "begin" /\ target[d] = 9 /\ 9 \notin file.versions)
    BY <1>2, <1>3, <2>2, NobodyWrites
       DEF IInv, Here, Locked, Sighted, Gathered, Worked
  <2> QED
    BY <2>1, <2>2
<1> QED
  BY <1>4, <1>5 DEF Rest

-----------------------------------------------------------------------------
LEMMA Initially == Init => IInv
<1> SUFFICES ASSUME Init PROVE IInv
  OBVIOUS
<1>1. PICK last \in Starts, rows \in SUBSET Rows :
        file = [versions |-> 2 .. last, tables |-> 2 .. last,
                columns |-> ColumnsAt(last), rows |-> rows]
  BY DEF Init
<1>2. last \in {1} \cup 3 .. 9
  BY MigrationAssumption
<1>3. file \in Image
  BY <1>1, <1>2 DEF Image, Versions, ColumnsAt
<1>4. TypeOK
  BY <1>3, MigrationAssumption DEF Init, TypeOK, Places, Image
<1>5. Tidy(file) /\ Kept(file)
  BY <1>1, <1>2 DEF Tidy, Kept, Init
<1>6. ASSUME NEW c \in Openers PROVE Here(c)
  BY NobodyWrites DEF Init, Here, Locked, Sighted, Gathered, Worked
<1> QED
  BY <1>4, <1>5, <1>6 DEF IInv

LEMMA Stuttering == ASSUME IInv, UNCHANGED vars PROVE Rest'
  BY DEF vars, IInv, Rest, Tidy, Kept, Here, Locked, Sighted, Gathered, Worked

LEMMA Inductive == IInv /\ [Next]_vars => IInv'
<1> SUFFICES ASSUME IInv, [Next]_vars PROVE IInv'
  OBVIOUS
<1>1. TypeOK'
  BY TypeKept DEF IInv
<1>2. Rest'
  <2>1. ASSUME NEW c \in Openers, Step(c) PROVE Rest'
    BY <2>1, OpenKeeps, BaseKeeps, CheckKeeps, ReadLegacyKeeps, BeginKeeps, RewriteKeeps,
       MarkKeeps, CommitKeeps DEF Step
  <2>2. ASSUME NEW c \in Openers, Busy(c) \/ Crash(c) PROVE Rest'
    BY <2>2, Dropped DEF Busy, Crash, Fail
  <2> QED
    BY <2>1, <2>2, RecordKeeps, Stuttering DEF Next
<1> QED
  BY <1>1, <1>2 DEF IInv, Rest

LEMMA Always == Spec => []IInv
  BY Initially, Inductive, PTL DEF Spec

\* Every variable of the migration keeps to its type, with any number of programs.
THEOREM MigrationTypes == Spec => []TypeOK
<1>1. IInv => TypeOK
  BY DEF IInv
<1> QED
  BY <1>1, Always, PTL

\* SqliteRepository::migrate looks for a version outside the transaction that adds it:
\* with any number of programs, the versions on record are those of the schema, and a
\* program that is through works on the newest.
THEOREM VersionsAreTheSchema == Spec => []VersionsTellSchema
<1>1. IInv => VersionsTellSchema
  <2> SUFFICES ASSUME IInv PROVE VersionsTellSchema
    OBVIOUS
  <2>1. PICK last \in {1} \cup 3 .. 9 :
          file.versions = 2 .. last /\ file.columns = ColumnsAt(last)
    BY DEF IInv, Tidy
  <2>2. ASSUME last < 9, NEW c \in Openers PROVE at[c] # "open"
    BY <2>1, <2>2 DEF IInv, Here, Sighted
  <2> QED
    BY <2>1, <2>2 DEF VersionsTellSchema, IInv, Tidy
<1> QED
  BY <1>1, Always, PTL

\* The redaction writes back rows it has read before its transaction: whatever other
\* programs do meanwhile, no row is lost but those an earlier build records there.
THEOREM HistorySurvives == Spec => []HistoryIsKept
<1>1. IInv => HistoryIsKept
  BY DEF IInv, Kept, HistoryIsKept
<1> QED
  BY <1>1, Always, PTL
=============================================================================
