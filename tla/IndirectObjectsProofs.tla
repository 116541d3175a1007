----------------------- MODULE IndirectObjectsProofs -----------------------
(***************************************************************************)
(* Proofs about XrefParser and IndirectObjects, for any files: a chain of  *)
(* sections is taken exactly when it can be read, and the newest wins;     *)
(* what is asked for is found exactly when the file has it, decrypted      *)
(* under its own key; and between calls the parser is where it was.        *)
(***************************************************************************)
EXTENDS IndirectObjects, FiniteSetTheorems, SequenceTheorems, WellFoundedInduction, TLAPS

-----------------------------------------------------------------------------
(***************************************************************************)
(* Induction, with the sets that the library's theorem about minima takes. *)
(***************************************************************************)

(* A set of numbers that is not empty has a least one.                     *)
LEMMA LeastNumber ==
    ASSUME NEW T, T \subseteq Nat, T # {}
    PROVE  \E x \in T : \A y \in T : x <= y
  <1> DEFINE Less == OpToRel(<, Nat)
  <1>1. IsWellFoundedOn(Less, Nat)
    BY NatLessThanWellFounded
  <1>2. \A x, y \in Nat : x < y => <<x, y>> \in Less
    BY DEF OpToRel
  <1> HIDE DEF Less
  <1>3. PICK x \in T : \A y \in T : ~ (<<y, x>> \in Less)
    BY <1>1, WFMin
  <1>4. \A y \in T : ~ (y < x)
    BY <1>2, <1>3
  <1> QED
    BY <1>3, <1>4

(* A set with 0 in it, and with each of its numbers the next, has them all.*)
LEMMA Induction ==
    ASSUME NEW S, 0 \in S, \A n \in Nat : n \in S => n + 1 \in S
    PROVE  \A n \in Nat : n \in S
  <1> SUFFICES ASSUME NEW k \in Nat \ S PROVE FALSE
    OBVIOUS
  <1>1. PICK x \in Nat \ S : \A y \in Nat \ S : x <= y
    BY LeastNumber
  <1>2. x - 1 \in Nat
    BY <1>1
  <1> QED
    BY <1>1, <1>2

(* The same from 0 to a limit.                                             *)
LEMMA InductionUpTo ==
    ASSUME NEW S, NEW n \in Nat, 0 \in S, \A k \in 0 .. n - 1 : k \in S => k + 1 \in S
    PROVE  \A k \in 0 .. n : k \in S
  <1> DEFINE T == {k \in Nat : k <= n => k \in S}
  <1>1. 0 \in T
    OBVIOUS
  <1>2. \A k \in Nat : k \in T => k + 1 \in T
    OBVIOUS
  <1> HIDE DEF T
  <1>3. \A k \in Nat : k \in T
    BY <1>1, <1>2, Induction
  <1> QED
    BY <1>3 DEF T

(* A step after the other gives a function.                                *)
Steps(f, V, base, n, step) ==
    /\ f \in [0 .. n -> V] /\ f[0] = base
    /\ \A k \in 1 .. n : f[k] = step[<<k, f[k - 1]>>]

LEMMA Recursion ==
    ASSUME NEW V, NEW base, base \in V, NEW n, n \in Nat, NEW step, step \in [(1 .. n) \X V -> V]
    PROVE  \E f : Steps(f, V, base, n, step)
  <1> DEFINE UpTo(f, m) == /\ f \in [0 .. m -> V] /\ f[0] = base
                           /\ \A k \in 1 .. m : f[k] = step[<<k, f[k - 1]>>]
             S == {m \in 0 .. n : \E f : UpTo(f, m)}
  <1> HIDE DEF UpTo
  <1>1. 0 \in S
    <2>1. UpTo([k \in 0 .. 0 |-> base], 0)
      BY DEF UpTo
    <2> QED
      BY <2>1
  <1>2. ASSUME NEW m \in 0 .. n - 1, m \in S
        PROVE  m + 1 \in S
    <2>1. PICK f : UpTo(f, m)
      BY <1>2
    <2> DEFINE last == step[<<m + 1, f[m]>>]
               g == [k \in 0 .. m + 1 |-> IF k <= m THEN f[k] ELSE last]
    <2>2. f[m] \in V /\ m + 1 \in 1 .. n
      BY <2>1 DEF UpTo
    <2>3. last \in V
      BY <2>2
    <2> HIDE DEF last
    <2>4. g \in [0 .. m + 1 -> V] /\ g[0] = base
      BY <2>1, <2>3 DEF UpTo
    <2>5. \A k \in 1 .. m + 1 : g[k] = step[<<k, g[k - 1]>>]
      <3> SUFFICES ASSUME NEW k \in 1 .. m + 1 PROVE g[k] = step[<<k, g[k - 1]>>]
        OBVIOUS
      <3>1. g[k - 1] = f[k - 1] /\ g[k] = IF k <= m THEN f[k] ELSE last
        OBVIOUS
      <3> HIDE DEF g
      <3>2. CASE k <= m
        <4>1. k \in 1 .. m
          BY <3>2
        <4> QED
          BY <2>1, <3>1, <3>2, <4>1 DEF UpTo
      <3>3. CASE k = m + 1
        <4>1. ~(k <= m) /\ k - 1 = m
          BY <3>3
        <4> QED
          BY <3>1, <3>3, <4>1 DEF last
      <3> QED
        BY <3>2, <3>3
    <2> HIDE DEF g
    <2>6. UpTo(g, m + 1)
      BY <2>4, <2>5 DEF UpTo
    <2> QED
      BY <2>6
  <1> HIDE DEF S
  <1>3. \A m \in 0 .. n : m \in S
    BY <1>1, <1>2, InductionUpTo
  <1>4. PICK f : UpTo(f, n)
    BY <1>3 DEF S
  <1> QED
    BY <1>4 DEF UpTo, Steps

-----------------------------------------------------------------------------
(***************************************************************************)
(* Sections and tables.                                                    *)
(***************************************************************************)
Entries == [type : EntryTypes \cup {"Undefined"}, position : Nat, revision : Nat]
Tables == {t \in Seq(Entries) : Len(t) <= MaxXrefSize}
Lines == [type : EntryTypes, position : Nat, revision : Nat]

(* A section while it is read.                                             *)
Reads(section) ==
    [ok : BOOLEAN, table : Tables, size : Nat, line : 1 .. Len(section.lines) + 1, next : Nat]

LEMMA SectionTyped ==
    ASSUME NEW section \in Section
    PROVE  /\ section.lines \in Seq(Lines) /\ Len(section.lines) \in Nat
           /\ section.subsections \in Seq([start : Nat, size : Nat])
           /\ section.kind \in {"table", "stream", "other"} /\ section.prev \in Int
           /\ section.size \in Nat \cup {NoSize} /\ section.xrefStm \in Nat
  BY DEF Section, Lines

LEMMA Repeated ==
    ASSUME NEW S, NEW e \in S, NEW n \in Int
    PROVE  /\ [i \in 1 .. n |-> e] \in Seq(S)
           /\ Len([i \in 1 .. n |-> e]) = IF n <= 0 THEN 0 ELSE n
  <1> DEFINE m == IF n <= 0 THEN 0 ELSE n
             s == [i \in 1 .. m |-> e]
  <1>1. m \in Nat /\ 1 .. n = 1 .. m
    OBVIOUS
  <1>2. [i \in 1 .. n |-> e] = s
    BY <1>1, Zenon
  <1> HIDE DEF m
  <1>3. s \in Seq(S) /\ Len(s) = m
    BY <1>1, IsASeq
  <1> QED
    BY <1>2, <1>3 DEF m

(* What a table grows by.                                                  *)
Padding(n) == [i \in 1 .. n |-> EmptyEntry]

LEMMA PaddingTyped ==
    ASSUME NEW n \in Int
    PROVE  Padding(n) \in Seq(Entries) /\ Len(Padding(n)) = IF n <= 0 THEN 0 ELSE n
  <1>1. EmptyEntry \in Entries
    BY DEF EmptyEntry, Entries
  <1> QED
    BY <1>1, Repeated DEF Padding

LEMMA Extended ==
    ASSUME NEW table \in Seq(Entries), NEW n \in Nat
    PROVE  ExtendXrefToSize(table, n) = table \o Padding(n - Len(table))
  BY DEF ExtendXrefToSize, Padding

LEMMA OverwrittenTyped ==
    ASSUME NEW table \in Tables, NEW lines \in Seq(Lines), NEW start \in Nat, NEW count \in Nat,
           NEW line \in Nat \ {0}, count > 0 => start + count <= MaxXrefSize,
           line + count - 1 <= Len(lines)
    PROVE  Overwritten(table, start, count, lines, line) \in Tables
  <1>1. CASE count = 0
    BY <1>1 DEF Overwritten
  <1>2. CASE count > 0
    <2> DEFINE more == Padding(start + count - Len(table))
               extended == ExtendXrefToSize(table, start + count)
               a == SubSeq(extended, 1, start)
               b == SubSeq(lines, line, line + count - 1)
               c == SubSeq(extended, start + count + 1, Len(extended))
    <2>1. table \in Seq(Entries) /\ Len(table) \in Nat /\ Len(table) <= MaxXrefSize
      BY DEF Tables
    <2>2. /\ more \in Seq(Entries)
          /\ Len(more) = IF start + count <= Len(table) THEN 0 ELSE start + count - Len(table)
      <3>1. start + count - Len(table) \in Int
        BY <2>1
      <3>2. more \in Seq(Entries) /\ Len(more) = IF start + count - Len(table) <= 0 THEN 0
                                                ELSE start + count - Len(table)
        BY <3>1, PaddingTyped
      <3> HIDE DEF more
      <3> QED
        BY <2>1, <3>2
    <2>3. extended = table \o more
      <3> DEFINE total == start + count
      <3>1. total \in Nat
        OBVIOUS
      <3> HIDE DEF total
      <3>2. ExtendXrefToSize(table, total) = table \o Padding(total - Len(table))
        BY <2>1, <3>1, Extended
      <3> QED
        BY <3>2 DEF total, more, extended
    <2> HIDE DEF more
    <2>4. /\ extended \in Seq(Entries) /\ start + count <= Len(extended)
          /\ Len(extended) \in Nat /\ Len(extended) <= MaxXrefSize
      <3>1. extended \in Seq(Entries) /\ Len(extended) = Len(table) + Len(more)
        BY <2>1, <2>2, <2>3, ConcatProperties
      <3> QED
        BY <1>2, <2>1, <2>2, <3>1, XrefParserAssumption
    <2> HIDE DEF extended
    <2>5. a \in Seq(Entries) /\ Len(a) = start
      <3>1. \A k \in 1 .. start : k \in 1 .. Len(extended)
        BY <2>4
      <3>2. \A k \in 1 .. start : extended[k] \in Entries
        BY <2>4, <3>1, ElementOfSeq
      <3>3. start <= Len(extended)
        BY <2>4
      <3> QED
        BY <2>4, <3>3, SubSeqProperties
    <2>6. b \in Seq(Entries) /\ Len(b) = count
      <3>1. \A k \in 1 .. Len(lines) : lines[k] \in Entries
        <4>1. \A k \in 1 .. Len(lines) : lines[k] \in Lines
          BY ElementOfSeq
        <4> QED
          BY <4>1 DEF Lines, Entries
      <3>2. lines \in Seq(Entries)
        <4>1. lines \in [1 .. Len(lines) -> Lines] /\ Len(lines) \in Nat
          BY LenProperties
        <4>2. lines \in [1 .. Len(lines) -> Entries]
          BY <3>1, <4>1
        <4> QED
          BY <4>1, <4>2
      <3>3. Len(lines) \in Nat
        OBVIOUS
      <3> HIDE DEF Lines
      <3>4. line \in 1 .. Len(lines) + 1 /\ line + count - 1 \in line - 1 .. Len(lines)
        BY <1>2, <3>3
      <3> QED
        BY <3>2, <3>4, SubSeqProperties
    <2>7. c \in Seq(Entries) /\ Len(c) = Len(extended) - (start + count)
      <3>1. start + count + 1 \in 1 .. Len(extended) + 1
        BY <2>4
      <3>2. Len(extended) \in (start + count + 1) - 1 .. Len(extended)
        BY <2>4
      <3>3. /\ SubSeq(extended, start + count + 1, Len(extended)) \in Seq(Entries)
            /\ Len(SubSeq(extended, start + count + 1, Len(extended)))
                 = IF start + count + 1 <= Len(extended)
                   THEN Len(extended) - (start + count + 1) + 1 ELSE 0
        BY <2>4, <3>1, <3>2, SubSeqProperties
      <3> QED
        BY <2>4, <3>3
    <2>8. Overwritten(table, start, count, lines, line) = (a \o b) \o c
      <3>1. count # 0
        BY <1>2
      <3> QED
        BY <3>1, Zenon DEF Overwritten, extended, a, b, c
    <2> HIDE DEF a, b, c
    <2>9. a \o b \in Seq(Entries) /\ Len(a \o b) = start + count
      BY <2>5, <2>6, ConcatProperties
    <2>10. (a \o b) \o c \in Seq(Entries) /\ Len((a \o b) \o c) = Len(extended)
      <3>1. (a \o b) \o c \in Seq(Entries) /\ Len((a \o b) \o c) = Len(a \o b) + Len(c)
        BY <2>7, <2>9, ConcatProperties
      <3> QED
        BY <2>4, <2>7, <2>9, <3>1
    <2> QED
      BY <2>4, <2>8, <2>10 DEF Tables
  <1> QED
    BY <1>1, <1>2

LEMMA LargerSmaller ==
    ASSUME NEW x \in Int, NEW y \in Int
    PROVE  /\ Larger(x, y) \in {x, y} /\ x <= Larger(x, y) /\ y <= Larger(x, y)
           /\ Smaller(x, y) \in {x, y} /\ Smaller(x, y) <= x /\ Smaller(x, y) <= y
  BY DEF Larger, Smaller

LEMMA ReadSubsectionTyped ==
    ASSUME NEW section \in Section, NEW read \in Reads(section), NEW start \in Nat, NEW size \in Nat
    PROVE  ReadSubsection(section, read, start, size) \in Reads(section)
  <1> DEFINE count == EntriesThere(section, read, size)
             lines == section.lines
             table == Overwritten(read.table, start, count, lines, read.line)
  <1>1. /\ lines \in Seq(Lines) /\ Len(lines) \in Nat
        /\ read.line \in 1 .. Len(lines) + 1 /\ read.table \in Tables /\ read.size \in Nat
    BY SectionTyped DEF Reads
  <1>2. count \in Nat
    <2> DEFINE left == Len(lines) - read.line + 1
    <2>1. left \in Nat
      BY <1>1
    <2>2. count \in {size, Smaller(size, left)}
      BY DEF EntriesThere
    <2> HIDE DEF left, count
    <2>3. Smaller(size, left) \in {size, left}
      BY <2>1, LargerSmaller
    <2> QED
      BY <2>1, <2>2, <2>3
  <1> HIDE DEF count
  <1>3. [read EXCEPT !.next = start] \in Reads(section) /\ Fail(read) \in Reads(section)
    BY DEF Reads, Fail
  <1>4. ASSUME EntriesParse(section, read, start, count)
        PROVE  /\ table \in Tables /\ read.line + count \in 1 .. Len(lines) + 1
    <2>1. count > 0 => start + count <= MaxXrefSize
      BY <1>4 DEF EntriesParse
    <2>2. read.line + count - 1 <= Len(lines)
      <3>1. CASE count = 0
        BY <1>1, <3>1
      <3>2. CASE count > 0
        <4>1. count - 1 \in 0 .. count - 1
          BY <1>2, <3>2
        <4>2. read.line + (count - 1) <= Len(lines)
          BY <1>4, <4>1 DEF EntriesParse
        <4> QED
          BY <1>1, <1>2, <4>2
      <3> QED
        BY <1>2, <3>1, <3>2
    <2>3. read.line \in Nat \ {0}
      BY <1>1
    <2> HIDE DEF lines
    <2>4. table \in Tables
      BY <1>1, <1>2, <2>1, <2>2, <2>3, OverwrittenTyped
    <2> QED
      BY <1>1, <1>2, <2>2, <2>4
  <1>5. Larger(read.size, start + size) \in Nat
    BY <1>1, LargerSmaller
  <1>6. \/ ReadSubsection(section, read, start, size)
             \in {[read EXCEPT !.next = start], Fail(read)}
        \/ /\ EntriesParse(section, read, start, count)
           /\ ReadSubsection(section, read, start, size)
                = [ok |-> TRUE, size |-> Larger(read.size, start + size),
                   line |-> read.line + count, next |-> start + size, table |-> table]
    BY DEF ReadSubsection, count
  <1>7. start + size \in Nat
    OBVIOUS
  <1> HIDE DEF table
  <1>8. CASE EntriesParse(section, read, start, count)
    <2>1. [ok |-> TRUE, size |-> Larger(read.size, start + size),
           line |-> read.line + count, next |-> start + size, table |-> table] \in Reads(section)
      BY <1>4, <1>5, <1>7, <1>8 DEF Reads
    <2> QED
      BY <1>3, <1>6, <2>1
  <1>9. CASE ~EntriesParse(section, read, start, count)
    BY <1>3, <1>6, <1>9
  <1> QED
    BY <1>8, <1>9

LEMMA ReadNextTyped ==
    ASSUME NEW section \in Section, NEW read \in Reads(section), NEW s \in [start : Nat, size : Nat]
    PROVE  ReadNext(section, read, s) \in Reads(section)
  <1> DEFINE next == IF read.ok THEN ReadSubsection(section, read, StartOf(section, read, s), s.size)
                     ELSE read
  <1>1. ReadNext(section, read, s) = next
    <2>1. {IF r.ok THEN ReadSubsection(section, r, StartOf(section, r, s), s.size) ELSE r : r \in {read}}
            = {next}
      OBVIOUS
    <2> HIDE DEF next
    <2> QED
      BY <2>1 DEF ReadNext
  <1>2. StartOf(section, read, s) \in Nat /\ s.size \in Nat
    BY DEF StartOf
  <1> QED
    BY <1>1, <1>2, ReadSubsectionTyped

(* The numbers of a section's lines, and its subsections one by one.       *)
Subsections == [start : Nat, size : Nat]

LEMMA SubsectionTyped ==
    ASSUME NEW section \in Section
    PROVE  /\ Len(section.subsections) \in Nat
           /\ DOMAIN section.subsections = 1 .. Len(section.subsections)
           /\ \A k \in 1 .. Len(section.subsections) : section.subsections[k] \in Subsections
  <1>1. section.subsections \in Seq(Subsections)
    BY SectionTyped DEF Subsections
  <1> QED
    BY <1>1, ElementOfSeq, LenProperties

LEMMA IDsTyped ==
    ASSUME NEW section, NEW before, NEW s \in Subsections
    PROVE  /\ IDsOf(section, before, s) \in Seq(Nat) /\ Len(IDsOf(section, before, s)) = s.size
           /\ \A j \in 1 .. s.size : IDsOf(section, before, s)[j]
                 = j - 1 + IF IsFirst(section) /\ before = <<>> THEN 0 ELSE s.start
  <1> DEFINE start == IF IsFirst(section) /\ before = <<>> THEN 0 ELSE s.start
             ids == [j \in 1 .. s.size |-> j - 1 + start]
  <1>1. s.size \in Nat /\ start \in Nat
    BY DEF Subsections
  <1>2. IDsOf(section, before, s) = ids
    BY DEF IDsOf
  <1> HIDE DEF start
  <1>3. \A j \in 1 .. s.size : j - 1 + start \in Nat
    BY <1>1
  <1>4. ids \in Seq(Nat) /\ Len(ids) = s.size /\ \A j \in 1 .. s.size : ids[j] = j - 1 + start
    BY <1>1, <1>3, IsASeq
  <1> HIDE DEF ids
  <1> QED
    BY <1>2, <1>4 DEF start

(* The numbers after each subsection.                                      *)
Numbers(section, f) ==
    LET n == Len(section.subsections) IN
    /\ f \in [0 .. n -> Seq(Nat)] /\ f[0] = <<>>
    /\ \A k \in 1 .. n : f[k] = f[k - 1] \o IDsOf(section, f[k - 1], section.subsections[k])

LEMMA NumbersExist ==
    ASSUME NEW section \in Section
    PROVE  \E f : Numbers(section, f) /\ Numbering(section) = f[Len(section.subsections)]
  <1> DEFINE V == Seq(Nat)
             n == Len(section.subsections)
             Runs(f) == f = [k \in 0 .. n |-> IF k = 0 THEN <<>>
                             ELSE f[k - 1] \o IDsOf(section, f[k - 1], section.subsections[k])]
             step == [p \in (1 .. n) \X V |-> p[2] \o IDsOf(section, p[2], section.subsections[p[1]])]
  <1>1. n \in Nat /\ \A k \in 1 .. n : section.subsections[k] \in Subsections
    BY SubsectionTyped
  <1>2. <<>> \in V
    BY EmptySeq
  <1>3. step \in [(1 .. n) \X V -> V]
    <2> SUFFICES ASSUME NEW p \in (1 .. n) \X V
                 PROVE  p[2] \o IDsOf(section, p[2], section.subsections[p[1]]) \in V
      OBVIOUS
    <2>1. section.subsections[p[1]] \in Subsections /\ p[2] \in V
      BY <1>1
    <2>2. IDsOf(section, p[2], section.subsections[p[1]]) \in Seq(Nat)
      BY <2>1, IDsTyped
    <2> QED
      BY <2>1, <2>2, ConcatProperties
  <1> HIDE DEF V, n
  <1>4. \E f : Runs(f)
    <2> HIDE DEF step
    <2>1. PICK f : Steps(f, V, <<>>, n, step)
      BY <1>1, <1>2, <1>3, Recursion
    <2>2. f \in [0 .. n -> V] /\ f[0] = <<>>
      BY <2>1 DEF Steps
    <2>3. \A k \in 1 .. n : f[k] = f[k - 1] \o IDsOf(section, f[k - 1], section.subsections[k])
      <3> SUFFICES ASSUME NEW k \in 1 .. n
                   PROVE  f[k] = f[k - 1] \o IDsOf(section, f[k - 1], section.subsections[k])
        OBVIOUS
      <3>1. f[k - 1] \in V
        BY <1>1, <2>2
      <3>2. <<k, f[k - 1]>> \in (1 .. n) \X V
        BY <3>1
      <3> QED
        BY <2>1, <3>2 DEF Steps, step
    <2>4. \A k \in 0 .. n : k = 0 \/ k \in 1 .. n
      BY <1>1
    <2>5. Runs(f)
      BY <2>2, <2>3, <2>4
    <2> QED
      BY <2>5
  <1> DEFINE after == CHOOSE f : Runs(f)
  <1>5. Runs(after)
    BY <1>4
  <1>6. Numbering(section) = after[n]
    BY DEF Numbering, n
  <1> HIDE DEF after, step
  <1>7. \A k \in 1 .. n : after[k] = after[k - 1] \o IDsOf(section, after[k - 1], section.subsections[k])
    <2> SUFFICES ASSUME NEW k \in 1 .. n
                 PROVE  after[k] = after[k - 1] \o IDsOf(section, after[k - 1], section.subsections[k])
      OBVIOUS
    <2>1. k \in 0 .. n /\ k # 0
      BY <1>1
    <2> QED
      BY <1>5, <2>1
  <1>8. DOMAIN after = 0 .. n /\ after[0] = <<>>
    BY <1>1, <1>5
  <1>9. \A k \in 0 .. n : k \in {j \in 0 .. n : after[j] \in V}
    <2> DEFINE S == {j \in 0 .. n : after[j] \in V}
    <2>1. 0 \in S
      BY <1>1, <1>2, <1>8
    <2>2. ASSUME NEW k \in 0 .. n - 1, k \in S
          PROVE  k + 1 \in S
      <3>1. k + 1 \in 1 .. n /\ (k + 1) - 1 = k /\ k + 1 \in 0 .. n
        BY <1>1
      <3>2. after[k] \in Seq(Nat)
        BY <2>2 DEF V
      <3>3. after[k + 1] = after[k] \o IDsOf(section, after[k], section.subsections[k + 1])
        BY <1>7, <3>1
      <3>4. IDsOf(section, after[k], section.subsections[k + 1]) \in Seq(Nat)
        BY <1>1, <3>1, IDsTyped
      <3>5. after[k + 1] \in Seq(Nat)
        BY <3>2, <3>3, <3>4, ConcatProperties
      <3> QED
        BY <3>1, <3>5 DEF V
    <2> HIDE DEF S
    <2>3. \A k \in 0 .. n : k \in S
      BY <1>1, <2>1, <2>2, InductionUpTo
    <2> QED
      BY <2>3 DEF S
  <1>10. after \in [0 .. n -> V]
    <2>1. after = [k \in 0 .. n |-> after[k]]
      BY <1>5
    <2> QED
      BY <1>9, <2>1
  <1>11. Numbers(section, after)
    BY <1>7, <1>8, <1>10 DEF Numbers, n, V
  <1> QED
    BY <1>6, <1>11 DEF n

(* What is read after each subsection.                                     *)
BeforeReading(table, size) == [ok |-> TRUE, table |-> table, size |-> size, line |-> 1, next |-> 0]

Reading(section, table, size, g) ==
    LET n == Len(section.subsections) IN
    /\ g \in [0 .. n -> Reads(section)] /\ g[0] = BeforeReading(table, size)
    /\ \A k \in 1 .. n : g[k] = ReadNext(section, g[k - 1], section.subsections[k])

LEMMA ReadingExists ==
    ASSUME NEW section \in Section, NEW table \in Tables, NEW size \in Nat
    PROVE  \E g : /\ Reading(section, table, size, g)
                  /\ ReadSubsections(section, table, size) = g[Len(section.subsections)]
  <1> DEFINE V == Reads(section)
             n == Len(section.subsections)
             base == BeforeReading(table, size)
             Runs(f) == f = [k \in 0 .. n |-> IF k = 0 THEN base
                                              ELSE ReadNext(section, f[k - 1], section.subsections[k])]
             step == [p \in (1 .. n) \X V |-> ReadNext(section, p[2], section.subsections[p[1]])]
  <1>1. n \in Nat /\ \A k \in 1 .. n : section.subsections[k] \in [start : Nat, size : Nat]
    BY SubsectionTyped DEF Subsections
  <1>2. base \in V
    BY SectionTyped DEF Reads, BeforeReading
  <1>3. step \in [(1 .. n) \X V -> V]
    BY <1>1, ReadNextTyped
  <1> HIDE DEF V, base, n
  <1>4. \E f : Runs(f)
    <2> HIDE DEF step
    <2>1. PICK f : Steps(f, V, base, n, step)
      BY <1>1, <1>2, <1>3, Recursion
    <2>2. f \in [0 .. n -> V] /\ f[0] = base
      BY <2>1 DEF Steps
    <2>3. \A k \in 1 .. n : f[k] = ReadNext(section, f[k - 1], section.subsections[k])
      <3> SUFFICES ASSUME NEW k \in 1 .. n
                   PROVE  f[k] = ReadNext(section, f[k - 1], section.subsections[k])
        OBVIOUS
      <3>1. f[k - 1] \in V
        BY <1>1, <2>2
      <3>2. <<k, f[k - 1]>> \in (1 .. n) \X V
        BY <3>1
      <3> QED
        BY <2>1, <3>2 DEF Steps, step
    <2>4. \A k \in 0 .. n : k = 0 \/ k \in 1 .. n
      BY <1>1
    <2>5. Runs(f)
      BY <2>2, <2>3, <2>4
    <2> QED
      BY <2>5
  <1> DEFINE after == CHOOSE f : Runs(f)
  <1>5. Runs(after)
    BY <1>4
  <1>6. ReadSubsections(section, table, size) = after[n]
    BY DEF ReadSubsections, n, base, BeforeReading
  <1> HIDE DEF after
  <1>7. \A k \in 1 .. n : after[k] = ReadNext(section, after[k - 1], section.subsections[k])
    <2> SUFFICES ASSUME NEW k \in 1 .. n
                 PROVE  after[k] = ReadNext(section, after[k - 1], section.subsections[k])
      OBVIOUS
    <2>1. k \in 0 .. n /\ k # 0
      BY <1>1
    <2> QED
      BY <1>5, <2>1
  <1>8. DOMAIN after = 0 .. n /\ after[0] = base
    BY <1>1, <1>5
  <1>9. \A k \in 0 .. n : k \in {j \in 0 .. n : after[j] \in V}
    <2> DEFINE S == {j \in 0 .. n : after[j] \in V}
    <2>1. 0 \in S
      BY <1>1, <1>2, <1>8
    <2>2. ASSUME NEW k \in 0 .. n - 1, k \in S
          PROVE  k + 1 \in S
      <3>1. k + 1 \in 1 .. n /\ (k + 1) - 1 = k /\ k + 1 \in 0 .. n
        BY <1>1
      <3>2. after[k + 1] = ReadNext(section, after[k], section.subsections[k + 1])
        BY <1>7, <3>1
      <3> QED
        BY <1>1, <2>2, <3>1, <3>2, ReadNextTyped DEF V
    <2> HIDE DEF S
    <2>3. \A k \in 0 .. n : k \in S
      BY <1>1, <2>1, <2>2, InductionUpTo
    <2> QED
      BY <2>3 DEF S
  <1>10. after \in [0 .. n -> V]
    <2>1. after = [k \in 0 .. n |-> after[k]]
      BY <1>5
    <2> QED
      BY <1>9, <2>1
  <1>11. Reading(section, table, size, after)
    BY <1>7, <1>8, <1>10 DEF Reading, n, V, base
  <1> QED
    BY <1>6, <1>11 DEF n

LEMMA ReadSubsectionsTyped ==
    ASSUME NEW section \in Section, NEW table \in Tables, NEW size \in Nat
    PROVE  ReadSubsections(section, table, size) \in Reads(section)
  <1>1. PICK g : /\ Reading(section, table, size, g)
                 /\ ReadSubsections(section, table, size) = g[Len(section.subsections)]
    BY ReadingExists
  <1>2. Len(section.subsections) \in 0 .. Len(section.subsections)
    BY SubsectionTyped
  <1> QED
    BY <1>1, <1>2 DEF Reading

LEMMA MergedTyped ==
    ASSUME NEW table \in Tables, NEW newer \in Tables
    PROVE  Merged(table, newer) \in Tables
  <1> DEFINE n == Larger(Len(table), Len(newer))
  <1>1. /\ table \in Seq(Entries) /\ Len(table) \in Nat /\ Len(table) <= MaxXrefSize
        /\ newer \in Seq(Entries) /\ Len(newer) \in Nat /\ Len(newer) <= MaxXrefSize
    BY DEF Tables
  <1>2. n \in Nat /\ n <= MaxXrefSize
    BY <1>1, LargerSmaller
  <1>3. EmptyEntry \in Entries
    BY DEF EmptyEntry, Entries
  <1>4. /\ \A i \in 1 .. n : i <= Len(newer) => newer[i] \in Entries
        /\ \A i \in 1 .. n : i <= Len(table) => table[i] \in Entries
    BY <1>1, <1>2, ElementOfSeq
  <1> HIDE DEF n
  <1>5. Merged(table, newer) \in [1 .. n -> Entries]
    BY <1>3, <1>4 DEF Merged, n
  <1>6. Merged(table, newer) \in Seq(Entries) /\ Len(Merged(table, newer)) = n
    BY <1>2, <1>5
  <1> QED
    BY <1>2, <1>6 DEF Tables

LEMMA SectionAtTyped ==
    ASSUME file \in Files, NEW position
    PROVE  SectionAt(position) \in Section
  <1>1. file.sections \in Seq(Section)
    BY XrefParserAssumption
  <1>2. CASE position \in DOMAIN file.sections
    BY <1>1, <1>2, LenProperties, ElementOfSeq DEF SectionAt
  <1>3. CASE position \notin DOMAIN file.sections
    BY <1>3 DEF SectionAt, Section, NoSize, None
  <1> QED
    BY <1>2, <1>3

LEMMA ReadSectionTyped ==
    ASSUME file \in Files, NEW section \in Section, NEW table \in Tables, NEW size \in Nat
    PROVE  /\ ReadSection(section, table, size).ok \in BOOLEAN
           /\ ReadSection(section, table, size).table \in Tables
           /\ ReadSection(section, table, size).size \in Nat
  <1> DEFINE read == ReadSubsections(section, table, size)
             stream == SectionAt(section.xrefStm)
             after == ReadSubsections(stream, read.table, read.size)
             Good(r) == r.ok \in BOOLEAN /\ r.table \in Tables /\ r.size \in Nat
  <1>1. read \in Reads(section)
    BY ReadSubsectionsTyped
  <1>2. read.table \in Tables /\ read.size \in Nat
    BY <1>1 DEF Reads
  <1>3. stream \in Section
    BY SectionAtTyped
  <1>4. after \in Reads(stream)
    BY <1>2, <1>3, ReadSubsectionsTyped
  <1>5. ReadSection(section, table, size) \in {read, Fail(read), after}
    BY DEF ReadSection
  <1> HIDE DEF read, stream, after
  <1>6. Good(read) /\ Good(Fail(read))
    BY <1>1 DEF Reads, Fail
  <1>7. Good(after)
    BY <1>4 DEF Reads
  <1> QED
    BY <1>5, <1>6, <1>7

-----------------------------------------------------------------------------
(***************************************************************************)
(* The parser of sections.                                                 *)
(***************************************************************************)
LEMMA FrontAndLast ==
    ASSUME NEW S, NEW s \in Seq(S), s # <<>>
    PROVE  /\ Len(s) \in Nat \ {0}
           /\ Front(s) \in Seq(S) /\ Len(Front(s)) = Len(s) - 1
           /\ \A i \in 1 .. Len(s) - 1 : Front(s)[i] = s[i]
           /\ Last(s) = s[Len(s)] /\ Last(s) \in S
  <1>1. Len(s) \in Nat \ {0}
    BY EmptySeq
  <1>2. \A i \in 1 .. Len(s) : s[i] \in S
    BY ElementOfSeq
  <1>3. Front(s) = SubSeq(s, 1, Len(s) - 1)
    BY DEF Front
  <1>4. /\ SubSeq(s, 1, Len(s) - 1) \in Seq(S)
        /\ Len(SubSeq(s, 1, Len(s) - 1)) = IF 1 <= Len(s) - 1 THEN (Len(s) - 1) - 1 + 1 ELSE 0
        /\ \A i \in 1 .. (Len(s) - 1) - 1 + 1 : SubSeq(s, 1, Len(s) - 1)[i] = s[1 + i - 1]
    BY <1>1, <1>2, SubSeqProperties
  <1>5. \A i \in 1 .. Len(s) - 1 : SubSeq(s, 1, Len(s) - 1)[i] = s[i]
    <2> SUFFICES ASSUME NEW i \in 1 .. Len(s) - 1
                 PROVE  SubSeq(s, 1, Len(s) - 1)[i] = s[i]
      OBVIOUS
    <2>1. i \in 1 .. (Len(s) - 1) - 1 + 1 /\ 1 + i - 1 = i
      BY <1>1
    <2> QED
      BY <1>4, <2>1
  <1>6. Len(SubSeq(s, 1, Len(s) - 1)) = Len(s) - 1
    <2>1. PICK n \in Nat \ {0} : n = Len(s)
      BY <1>1
    <2>2. Len(SubSeq(s, 1, n - 1)) = IF 1 <= n - 1 THEN (n - 1) - 1 + 1 ELSE 0
      BY <1>4, <2>1
    <2> QED
      BY <2>1, <2>2
  <1>7. Last(s) = s[Len(s)] /\ Last(s) \in S
    BY <1>1, <1>2 DEF Last
  <1> QED
    BY <1>1, <1>3, <1>4, <1>5, <1>6, <1>7

LEMMA Appended ==
    ASSUME NEW S, NEW s \in Seq(S), NEW e \in S
    PROVE  /\ Append(s, e) \in Seq(S) /\ Len(Append(s, e)) = Len(s) + 1
           /\ Append(s, e) # <<>> /\ Len(s) \in Nat
           /\ \A i \in 1 .. Len(s) : Append(s, e)[i] = s[i]
           /\ Append(s, e)[Len(s) + 1] = e
  <1>1. Append(s, e) \in Seq(S) /\ Len(Append(s, e)) = Len(s) + 1 /\ Len(s) \in Nat
    BY AppendProperties
  <1>2. Append(s, e) # <<>>
    BY <1>1, EmptySeq
  <1> QED
    BY <1>1, <1>2, AppendProperties

Frames == [position : Nat, table : Tables, size : Nat]

(* TypeOK, with what the tables and the calls hold.                        *)
Parsed ==
    /\ file \in Files \cup {NoFile} /\ (status # "idle" => file \in Files)
    /\ status \in {"idle", "parsing", "success", "failure"}
    /\ xrefTable \in Tables /\ xrefSize \in Nat
    /\ parsedXrefs \subseteq Nat /\ descending \in BOOLEAN
    /\ frames \in Seq(Frames)
    /\ \A i \in 1 .. Len(frames) : frames[i].position \in parsedXrefs

LEMMA ParsedIsTyped ==
    Parsed => TypeOK
  <1> SUFFICES ASSUME Parsed PROVE TypeOK
    OBVIOUS
  <1>1. xrefTable \in Seq([type : EntryTypes \cup {"Undefined"}, position : Nat, revision : Nat])
        /\ Len(xrefTable) <= MaxXrefSize
    BY DEF Parsed, Tables, Entries
  <1>2. ASSUME NEW i \in DOMAIN frames
        PROVE  frames[i].position \in parsedXrefs /\ Len(frames[i].table) <= MaxXrefSize
    <2>1. i \in 1 .. Len(frames)
      BY <1>2, LenProperties DEF Parsed
    <2>2. frames[i] \in Frames
      BY <2>1, ElementOfSeq DEF Parsed
    <2> QED
      BY <2>1, <2>2 DEF Parsed, Frames, Tables
  <1> QED
    BY <1>1, <1>2 DEF TypeOK, Parsed

LEMMA ParsedInit ==
    Init => Parsed
  <1>1. <<>> \in Tables
    BY EmptySeq, XrefParserAssumption DEF Tables
  <1>2. <<>> \in Seq(Frames) /\ Len(<<>>) = 0
    BY EmptySeq
  <1> SUFFICES ASSUME Init PROVE Parsed
    OBVIOUS
  <1>3. \A i \in 1 .. Len(frames) : frames[i].position \in parsedXrefs
    BY <1>2 DEF Init
  <1> QED
    BY <1>1, <1>2, <1>3 DEF Init, Parsed

LEMMA ParsedUnchanged ==
    ASSUME Parsed, UNCHANGED vars
    PROVE  Parsed'
  BY DEF Parsed, vars

LEMMA ParsedStart ==
    ASSUME NEW f \in Files, Parsed, StartPDFParsing(f)
    PROVE  Parsed'
  <1> DEFINE newest == IF f.startxref \in DOMAIN f.sections
                       THEN f.sections[f.startxref] ELSE [kind |-> "other", size |-> NoSize]
             readable == newest.kind # "other" /\ newest.size # NoSize
  <1>1. f.sections \in Seq(Section) /\ f.startxref \in Nat
    BY XrefParserAssumption
  <1>2. readable => newest.size \in Nat
    <2> SUFFICES ASSUME readable PROVE newest.size \in Nat
      OBVIOUS
    <2>1. f.startxref \in DOMAIN f.sections
      OBVIOUS
    <2>2. newest \in Section
      BY <1>1, <2>1, LenProperties, ElementOfSeq
    <2> QED
      BY <2>2, SectionTyped
  <1>3. /\ file' = f /\ status' = IF readable THEN "parsing" ELSE "failure"
        /\ xrefSize' = IF readable THEN newest.size ELSE xrefSize
        /\ parsedXrefs' = IF readable THEN {f.startxref} ELSE {}
        /\ descending' = readable /\ xrefTable' = <<>> /\ frames' = <<>>
    BY DEF StartPDFParsing
  <1> HIDE DEF readable, newest
  <1>4. readable \in BOOLEAN
    BY DEF readable
  <1>5. <<>> \in Tables
    BY EmptySeq, XrefParserAssumption DEF Tables
  <1>6. <<>> \in Seq(Frames) /\ Len(<<>>) = 0
    BY EmptySeq
  <1>7. xrefSize' \in Nat /\ parsedXrefs' \subseteq Nat
    BY <1>1, <1>2, <1>3 DEF Parsed
  <1> QED
    BY <1>3, <1>4, <1>5, <1>6, <1>7 DEF Parsed

LEMMA ParsedStep ==
    ASSUME Parsed, Step
    PROVE  Parsed'
  <1>1. status = "parsing" /\ file \in Files
    BY DEF Step, ParsePreviousXrefs, EndOfChain, MergeXrefWithMainXref, ReadNewestSection, Parsed
  <1>2. CASE ParsePreviousXrefs
    <2> DEFINE section == SectionAt(Prev)
               read == ReadSection(section, <<>>, xrefSize)
               frame == [position |-> Prev, table |-> read.table, size |-> read.size]
    <2>1. CASE ~PrevIsNew
      <3>1. Stop /\ UNCHANGED parsedXrefs
        BY <1>2, <2>1 DEF ParsePreviousXrefs
      <3>2. <<>> \in Seq(Frames) /\ Len(<<>>) = 0
        BY EmptySeq
      <3> QED
        BY <1>1, <3>1, <3>2 DEF Stop, Parsed
    <2>2. CASE PrevIsNew
      <3>1. Prev \in Nat
        <4>1. SectionAt(CurrentPosition) \in Section
          BY <1>1, SectionAtTyped
        <4>2. Prev \in Int
          BY <4>1, SectionTyped DEF Prev
        <4> QED
          BY <2>2, <4>2 DEF PrevIsNew
      <3>2. /\ parsedXrefs' = parsedXrefs \cup {Prev}
            /\ \/ Stop
               \/ /\ frames' = Append(frames, frame)
                  /\ UNCHANGED <<file, status, xrefTable, xrefSize, descending, parses>>
        BY <1>2, <2>2 DEF ParsePreviousXrefs
      <3>3. CASE Stop
        <4>1. <<>> \in Seq(Frames) /\ Len(<<>>) = 0
          BY EmptySeq
        <4> QED
          BY <1>1, <3>1, <3>2, <3>3, <4>1 DEF Stop, Parsed
      <3>4. CASE /\ frames' = Append(frames, frame)
                 /\ UNCHANGED <<file, status, xrefTable, xrefSize, descending, parses>>
        <4>1. <<>> \in Tables /\ section \in Section /\ xrefSize \in Nat
          BY <1>1, SectionAtTyped, EmptySeq, XrefParserAssumption DEF Tables, Parsed
        <4>2. read.table \in Tables /\ read.size \in Nat
          BY <1>1, <4>1, ReadSectionTyped
        <4> HIDE DEF read
        <4>3. frame \in Frames
          BY <3>1, <4>2 DEF Frames
        <4>4. frame.position = Prev
          OBVIOUS
        <4> HIDE DEF frame
        <4>5. /\ frames' \in Seq(Frames) /\ Len(frames') = Len(frames) + 1 /\ Len(frames) \in Nat
              /\ \A i \in 1 .. Len(frames) : frames'[i] = frames[i]
              /\ frames'[Len(frames) + 1] = frame
          BY <3>4, <4>3, Appended DEF Parsed
        <4>6. \A i \in 1 .. Len(frames') : frames'[i].position \in parsedXrefs'
          <5> SUFFICES ASSUME NEW i \in 1 .. Len(frames')
                       PROVE  frames'[i].position \in parsedXrefs'
            OBVIOUS
          <5>1. CASE i \in 1 .. Len(frames)
            BY <3>2, <4>5, <5>1 DEF Parsed
          <5>2. CASE i = Len(frames) + 1
            BY <3>2, <4>4, <4>5, <5>2
          <5> QED
            BY <4>5, <5>1, <5>2
        <4> QED
          BY <3>1, <3>2, <3>4, <4>5, <4>6 DEF Parsed
      <3> QED
        BY <3>2, <3>3, <3>4
    <2> QED
      BY <2>1, <2>2
  <1>3. CASE EndOfChain
    BY <1>3 DEF EndOfChain, Parsed
  <1>4. CASE MergeXrefWithMainXref
    <2>1. frames # <<>> /\ frames \in Seq(Frames)
      BY <1>4 DEF MergeXrefWithMainXref, Parsed
    <2>2. /\ Len(frames) \in Nat \ {0} /\ Last(frames) \in Frames
          /\ Front(frames) \in Seq(Frames) /\ Len(Front(frames)) = Len(frames) - 1
          /\ \A i \in 1 .. Len(frames) - 1 : Front(frames)[i] = frames[i]
      BY <2>1, FrontAndLast
    <2>3. Last(frames).table \in Tables /\ Last(frames).size \in Nat
      BY <2>2 DEF Frames
    <2>4. xrefTable' \in Tables /\ xrefSize' \in Nat
      BY <1>4, <2>3, MergedTyped, LargerSmaller DEF MergeXrefWithMainXref, Parsed
    <2>5. \A i \in 1 .. Len(frames') : frames'[i].position \in parsedXrefs'
      BY <1>4, <2>2 DEF MergeXrefWithMainXref, Parsed
    <2> QED
      BY <1>4, <2>2, <2>4, <2>5 DEF MergeXrefWithMainXref, Parsed
  <1>5. CASE ReadNewestSection
    <2> DEFINE section == SectionAt(file.startxref)
               read == ReadSection(section, xrefTable, xrefSize)
    <2>1. section \in Section
      BY <1>1, SectionAtTyped
    <2>2. read.table \in Tables /\ read.size \in Nat
      BY <1>1, <2>1, ReadSectionTyped DEF Parsed
    <2>3. xrefTable' = read.table /\ xrefSize' \in {read.size, xrefSize}
          /\ status' \in {"success", "failure"}
          /\ UNCHANGED <<file, parsedXrefs, frames, descending, parses>>
      BY <1>5 DEF ReadNewestSection
    <2> HIDE DEF read
    <2> QED
      BY <1>1, <2>2, <2>3 DEF Parsed
  <1> QED
    BY <1>2, <1>3, <1>4, <1>5 DEF Step

-----------------------------------------------------------------------------
(***************************************************************************)
(* The calls.  A call that is entered waits for an object, and the call    *)
(* above it is for that object.                                            *)
(***************************************************************************)
CallSteps == {"called", "parameters", "stream", "length", "reopened"}
Answers == [id : Nat, what : Kinds \ {"broken"}, at : Nat, stringsBy : Nat, streamBy : Nat]
Calls == [id : Nat, step : CallSteps, stream : Answers]

Position(id) == GetXrefEntry(id).position
IsType(id, type) == GetXrefEntry(id).type = type

(* What a call waits for, and what the call on top of k others is for.     *)
Wanted(call) ==
    IF call.step = "parameters" THEN BodyAt(call.stream.at).parameters
    ELSE IF call.step = "stream" THEN Position(call.id)
    ELSE BodyAt(call.stream.at).length
WantedAt(k) == IF k = 0 THEN asked ELSE Wanted(calls[k])

(* The object stands in the file, under its header.                        *)
Stands(id) ==
    /\ IsType(id, "Existing")
    /\ BodyAt(Position(id)).id = id /\ BodyAt(Position(id)).revision = GetXrefEntry(id).revision
    /\ BodyAt(Position(id)).what # "broken"

(* The object is the stream id.                                            *)
IsStream(object, id) ==
    /\ Stands(id)
    /\ object.id = id /\ object.what = "stream" /\ object.at = Position(id)
    /\ BodyAt(Position(id)).what = "stream"

(* The stream has the object as the member its entry says.                 *)
Holds(stream, id) ==
    /\ GetXrefEntry(id).revision < Len(MembersOf(stream))
    /\ MembersOf(stream)[GetXrefEntry(id).revision + 1].id = id

Entered(call) ==
    /\ call.id \in 0 .. GetXrefSize - 1
    /\ IsType(call.id, IF call.step = "parameters" THEN "Existing" ELSE "StreamObject")
    /\ call.step = "parameters" =>
          /\ IsStream(call.stream, call.id) /\ call.stream.stringsBy = call.id
          /\ file.encrypted /\ BodyAt(call.stream.at).parameters # 0
    /\ call.step \in {"length", "reopened"} =>
          /\ IsStream(call.stream, Position(call.id))
          /\ Len(MembersOf(call.stream)) <= GetXrefSize /\ BodyAt(call.stream.at).length # 0
    /\ call.step = "reopened" => Holds(call.stream, call.id)

IsEnteredAt(k) == calls[k].step # "called"
OnlyTopIsCalled == \A k \in 1 .. Len(calls) - 1 : IsEnteredAt(k)
HasAnswer == calls = <<>> \/ IsEnteredAt(Len(calls))

CallsAreRight ==
    /\ calls \in Seq(Calls)
    /\ calls # <<>> => status = "success"
    /\ OnlyTopIsCalled
    /\ \A k \in 1 .. Len(calls) : calls[k].id = WantedAt(k - 1)
    /\ \A k \in 1 .. Len(calls) : IsEnteredAt(k) => Entered(calls[k])
    /\ \A j, k \in 1 .. Len(calls) :
          j # k /\ IsEnteredAt(j) /\ IsEnteredAt(k) => calls[j].id # calls[k].id

(* The answer for an object is the object, under its own key.              *)
IsRight(object, id) ==
    object # Nothing =>
        /\ object.id = id /\ object.what = KindIn(id)
        /\ object.stringsBy = IF file.encrypted /\ IsType(id, "Existing") THEN id ELSE 0
        /\ object.what = "stream" /\ ~file.encrypted => object.streamBy = 0
        /\ object.what = "stream" /\ file.encrypted /\ BodyAt(object.at).parameters = 0 =>
              object.streamBy = id

AnswerIsRight ==
    /\ answer \in Answers /\ asked \in Nat
    /\ status # "success" => answer = Nothing /\ asked = 0
    /\ ~HasAnswer => answer = Nothing
    /\ HasAnswer /\ answer.what = "stream" => IsStream(answer, WantedAt(Len(calls)))
    /\ HasAnswer /\ ~undefined => IsRight(answer, WantedAt(Len(calls)))

(* What all calls share.                                                   *)
SharedIsRight ==
    /\ reading \in {"file", "closed"}
    /\ reading = "closed" => \E k \in 1 .. Len(calls) : calls[k].step = "reopened"
    /\ keys \in Seq(Nat)
    /\ status # "success" => keys = <<>> /\ headers = <<>> /\ ~undefined
    /\ status = "success" /\ ~file.encrypted => keys = <<>>
    /\ HeadersAreOfThisFile
    /\ undefined \in BOOLEAN /\ ReadsWhatItOwns

CallInv == Parsed /\ CallsAreRight /\ AnswerIsRight /\ SharedIsRight

LEMMA XrefTyped ==
    ASSUME Parsed
    PROVE  /\ GetXrefSize \in Nat /\ GetXrefSize <= MaxXrefSize /\ GetXrefSize <= MaxIDs
           /\ \A id \in Nat : GetXrefEntry(id) \in Entries
           /\ \A id \in Nat : GetXrefEntry(id).type # "Undefined" => id \in 0 .. GetXrefSize - 1
  <1>1. xrefTable \in Seq(Entries) /\ Len(xrefTable) \in Nat /\ Len(xrefTable) <= MaxXrefSize
        /\ xrefSize \in Nat
    BY DEF Parsed, Tables
  <1>2. GetXrefSize \in Nat /\ GetXrefSize <= Len(xrefTable)
    BY <1>1, LargerSmaller DEF GetXrefSize
  <1>3. EmptyEntry \in Entries /\ EmptyEntry.type = "Undefined"
    BY DEF EmptyEntry, Entries
  <1>4. \A id \in Nat : GetXrefEntry(id) \in Entries
    <2> SUFFICES ASSUME NEW id \in Nat PROVE GetXrefEntry(id) \in Entries
      OBVIOUS
    <2>1. CASE id < GetXrefSize
      <3>1. id + 1 \in 1 .. Len(xrefTable)
        BY <1>1, <1>2, <2>1
      <3>2. xrefTable[id + 1] \in Entries
        BY <1>1, <3>1, ElementOfSeq
      <3> QED
        BY <2>1, <3>2 DEF GetXrefEntry
    <2>2. CASE ~(id < GetXrefSize)
      BY <1>3, <2>2 DEF GetXrefEntry
    <2> QED
      BY <2>1, <2>2
  <1>5. \A id \in Nat : GetXrefEntry(id).type # "Undefined" => id \in 0 .. GetXrefSize - 1
    BY <1>2, <1>3 DEF GetXrefEntry
  <1> QED
    BY <1>1, <1>2, <1>4, <1>5, XrefParserAssumption

LEMMA PositionTyped ==
    ASSUME Parsed, NEW id \in Nat
    PROVE  Position(id) \in Nat /\ GetXrefEntry(id).revision \in Nat
  BY XrefTyped DEF Position, Entries

LEMMA BodyTyped ==
    ASSUME file \in Files, NEW position
    PROVE  /\ BodyAt(position) \in Bodies
           /\ BodyAt(position).length # 0 => position \in DOMAIN file.bodies
           /\ BodyAt(position).members \in Seq(Members)
           /\ Len(BodyAt(position).members) \in Nat
           /\ BodyAt(position).length \in Nat /\ BodyAt(position).parameters \in Nat
           /\ BodyAt(position).what \in Kinds
  <1>1. file.bodies \in Seq(Bodies)
    BY ObjectsAssumption
  <1>2. BodyAt(position) \in Bodies
    <2>1. CASE position \in DOMAIN file.bodies
      BY <1>1, <2>1, LenProperties, ElementOfSeq DEF BodyAt
    <2>2. CASE position \notin DOMAIN file.bodies
      BY <2>2 DEF BodyAt, NoBody, Bodies, Kinds
    <2> QED
      BY <2>1, <2>2
  <1>3. BodyAt(position).length # 0 => position \in DOMAIN file.bodies
    BY DEF BodyAt, NoBody
  <1>4. BodyAt(position).members \in Seq(Members)
    BY <1>2 DEF Bodies
  <1> QED
    BY <1>2, <1>3, <1>4, LenProperties DEF Bodies

LEMMA MemberTyped ==
    ASSUME file \in Files, NEW stream \in Answers, NEW index \in Nat, index < Len(MembersOf(stream))
    PROVE  /\ index + 1 \in 1 .. Len(MembersOf(stream))
           /\ MembersOf(stream)[index + 1] \in Members
  <1>1. MembersOf(stream) \in Seq(Members) /\ Len(MembersOf(stream)) \in Nat
    BY BodyTyped DEF MembersOf
  <1>2. index + 1 \in 1 .. Len(MembersOf(stream))
    BY <1>1
  <1> QED
    BY <1>1, <1>2, ElementOfSeq

(* What only the file and the table say stays while calls run.             *)
LEMMA Frozen ==
    ASSUME UNCHANGED vars
    PROVE  /\ UNCHANGED <<file, status>> /\ GetXrefSize' = GetXrefSize
           /\ \A id : GetXrefEntry(id)' = GetXrefEntry(id)
           /\ \A id : Position(id)' = Position(id)
           /\ \A position : BodyAt(position)' = BodyAt(position)
           /\ \A call : Wanted(call)' = Wanted(call)
           /\ \A stream : MembersOf(stream)' = MembersOf(stream)
           /\ \A object, id : IsStream(object, id)' <=> IsStream(object, id)
           /\ \A id : KindIn(id)' = KindIn(id)
           /\ \A object, id : IsRight(object, id)' <=> IsRight(object, id)
           /\ \A call : Entered(call)' <=> Entered(call)
  <1>1. /\ UNCHANGED <<file, status, xrefTable, xrefSize>>
    BY DEF vars
  <1>2. GetXrefSize' = GetXrefSize
    BY <1>1 DEF GetXrefSize
  <1>3. \A id : GetXrefEntry(id)' = GetXrefEntry(id)
    BY <1>1, <1>2 DEF GetXrefEntry
  <1>4. \A position : BodyAt(position)' = BodyAt(position)
    BY <1>1 DEF BodyAt
  <1>5. \A id : Position(id)' = Position(id)
    BY <1>3 DEF Position
  <1>6. \A call : Wanted(call)' = Wanted(call)
    BY <1>4, <1>5 DEF Wanted
  <1>7. \A stream : MembersOf(stream)' = MembersOf(stream)
    BY <1>4 DEF MembersOf
  <1>8. \A id : Stands(id)' <=> Stands(id)
    BY <1>3, <1>4, <1>5 DEF Stands, IsType
  <1>9. \A object, id : IsStream(object, id)' <=> IsStream(object, id)
    BY <1>4, <1>5, <1>8 DEF IsStream
  <1>10. \A id : KindIn(id)' = KindIn(id)
    BY <1>3, <1>4 DEF KindIn
  <1>11. \A object, id : IsRight(object, id)' <=> IsRight(object, id)
    BY <1>1, <1>3, <1>4, <1>10 DEF IsRight, IsType
  <1>12. \A call : Holds(call.stream, call.id)' <=> Holds(call.stream, call.id)
    BY <1>3, <1>7 DEF Holds
  <1>13. \A call : Entered(call)' <=> Entered(call)
    BY <1>1, <1>2, <1>3, <1>4, <1>5, <1>7, <1>9, <1>12 DEF Entered, IsType
  <1> QED
    BY <1>1, <1>2, <1>3, <1>4, <1>5, <1>6, <1>7, <1>9, <1>10, <1>11, <1>13

LEMMA CallsTyped ==
    ASSUME CallsAreRight, calls # <<>>
    PROVE  /\ Len(calls) \in Nat \ {0} /\ Top \in Calls /\ Top = calls[Len(calls)]
           /\ status = "success" /\ \A k \in 1 .. Len(calls) : calls[k] \in Calls
           /\ Top.id \in Nat /\ Top.stream \in Answers
           /\ Top.id = WantedAt(Len(calls) - 1)
           /\ Called <=> ~IsEnteredAt(Len(calls))
  <1>1. calls \in Seq(Calls)
    BY DEF CallsAreRight
  <1>2. Len(calls) \in Nat \ {0} /\ Top \in Calls /\ Top = calls[Len(calls)]
    BY <1>1, FrontAndLast DEF Top
  <1>3. \A k \in 1 .. Len(calls) : calls[k] \in Calls
    BY <1>1, ElementOfSeq
  <1>4. Len(calls) \in 1 .. Len(calls)
    BY <1>2
  <1>5. Called <=> ~IsEnteredAt(Len(calls))
    BY <1>2 DEF Called, IsEnteredAt
  <1> QED
    BY <1>2, <1>3, <1>4, <1>5 DEF CallsAreRight, Calls

-----------------------------------------------------------------------------
(***************************************************************************)
(* What each step of a call comes to.                                      *)
(***************************************************************************)
CanBeEntered(type) ==
    /\ Called /\ Top.id \in 0 .. GetXrefSize - 1 /\ IsType(Top.id, type)
    /\ \A k \in 1 .. Len(calls) - 1 : calls[k].id # Top.id

(* The object that stands for the top call, before its stream has a key.   *)
ObjectStanding ==
    [id |-> Top.id, what |-> BodyAt(Position(Top.id)).what, at |-> Position(Top.id),
     stringsBy |-> IF file.encrypted THEN Top.id ELSE 0, streamBy |-> 0]

(* Nothing, for a reason: it is out of reach, or does not stand.           *)
IsRefused ==
    /\ Called /\ Return(Nothing)
    /\ \/ Top.id \notin 0 .. GetXrefSize - 1
       \/ \E k \in 1 .. Len(calls) - 1 : calls[k].id = Top.id
       \/ ~IsType(Top.id, "Existing") /\ ~IsType(Top.id, "StreamObject")
    /\ UNCHANGED <<reading, headers, keys, undefined>>

DoesNotStand ==
    /\ CanBeEntered("Existing") /\ Return(Nothing)
    /\ ~Stands(Top.id)
    /\ keys' \in {keys, Started(Top.id)}
    /\ UNCHANGED <<reading, headers, undefined>>

AsksForParameters ==
    LET body == BodyAt(Position(Top.id)) IN
    /\ CanBeEntered("Existing") /\ Stands(Top.id)
    /\ body.what = "stream" /\ file.encrypted /\ body.parameters # 0
    /\ AskAt("parameters", ObjectStanding, body.parameters)
    /\ keys' = Append(keys, Top.id) /\ reading = "file"
    /\ UNCHANGED <<reading, headers, undefined>>

GivesStanding ==
    LET body == BodyAt(Position(Top.id)) IN
    /\ CanBeEntered("Existing") /\ Stands(Top.id)
    /\ body.what = "stream" /\ file.encrypted => body.parameters = 0
    /\ Return([ObjectStanding EXCEPT !.streamBy =
                  IF body.what = "stream" /\ file.encrypted THEN Top.id ELSE 0])
    /\ reading = "file"
    /\ UNCHANGED <<reading, headers, keys, undefined>>

GivesEncrypted ==
    /\ calls # <<>> /\ Top.step = "parameters"
    /\ Return([Top.stream EXCEPT !.streamBy = CurrentKey(keys)])
    /\ keys' = Front(keys)
    /\ UNCHANGED <<reading, headers, undefined>>

GivesAnything ==
    /\ Called /\ reading = "closed" /\ undefined' = TRUE
    /\ \E object \in {Nothing, [Nothing EXCEPT !.what = "integer"]} : Return(object)
    /\ UNCHANGED <<reading, headers, keys>>

AsksForStream ==
    /\ CanBeEntered("StreamObject")
    /\ AskAt("stream", Nothing, Position(Top.id))
    /\ UNCHANGED <<reading, headers, keys, undefined>>

AsksForLength ==
    /\ calls # <<>> /\ Top.step = "stream"
    /\ IsStream(answer, Position(Top.id)) /\ Len(MembersOf(answer)) <= GetXrefSize
    /\ BodyAt(answer.at).length # 0
    /\ AskAt("length", answer, BodyAt(answer.at).length)
    /\ UNCHANGED <<reading, headers, keys, undefined>>

AsksAgain ==
    /\ calls # <<>> /\ Top.step = "length"
    /\ Holds(Top.stream, Top.id)
    /\ AskAt("reopened", Top.stream, BodyAt(Top.stream.at).length)
    /\ reading' = "closed"
    /\ UNCHANGED <<keys, undefined>>

(* Of a member: the stream in hand, and what it takes to be opened.        *)
IsInside == calls # <<>> /\ Top.step \in {"stream", "length", "reopened"}
InHand == IF Top.step = "stream" THEN answer ELSE Top.stream
IsOpened ==
    IF Top.step = "stream"
    THEN /\ answer.what = "stream" /\ Len(MembersOf(answer)) <= GetXrefSize
         /\ BodyAt(answer.at).length = 0
    ELSE answer.what = "integer"
MemberInHand == MembersOf(InHand)[GetXrefEntry(Top.id).revision + 1]
IsHeld == Holds(InHand, Top.id) /\ MemberInHand.what # "broken"

IsNotHeld ==
    /\ IsInside /\ Return(Nothing)
    /\ IF Top.step = "stream" /\ (answer.what # "stream" \/ Len(MembersOf(answer)) > GetXrefSize)
       THEN TRUE
       ELSE ~IsHeld \/ (Top.step # "stream" /\ ~IsOpened)
    /\ reading' = "file" /\ keys' \in {keys, Started(Top.id)}
    /\ UNCHANGED undefined

GivesMember ==
    /\ IsInside /\ IsOpened /\ IsHeld
    /\ Return([Nothing EXCEPT !.id = Top.id, !.what = MemberInHand.what])
    /\ reading' = "file"
    /\ UNCHANGED <<keys, undefined>>

Effects ==
    \/ IsRefused \/ DoesNotStand \/ AsksForParameters \/ GivesStanding \/ GivesEncrypted
    \/ GivesAnything \/ AsksForStream \/ AsksForLength \/ AsksAgain \/ IsNotHeld \/ GivesMember

LEMMA CanEnterIs ==
    ASSUME CallInv, NEW type \in {"Existing", "StreamObject"}, CanEnter(type)
    PROVE  CanBeEntered(type) /\ calls # <<>> /\ file \in Files
  <1>1. calls # <<>>
    BY DEF CanEnter, Called
  <1>2. Top.id \in Nat /\ GetXrefSize \in Nat /\ status = "success"
    BY <1>1, CallsTyped, XrefTyped DEF CallInv
  <1>3. file \in Files
    BY <1>2 DEF CallInv, Parsed
  <1>4. Called /\ ~IsEntered /\ Top.id < GetXrefSize /\ GetXrefEntry(Top.id).type = type
    BY DEF CanEnter, Entry
  <1>5. \A k \in 1 .. Len(calls) - 1 : calls[k].id # Top.id
    BY <1>4 DEF IsEntered
  <1> QED
    BY <1>1, <1>2, <1>3, <1>4, <1>5 DEF CanBeEntered, IsType

LEMMA EffectOfRefuse ==
    ASSUME CallInv, Refuse
    PROVE  IsRefused /\ UNCHANGED <<vars, asked, asks, headers>>
  <1>1. calls # <<>> /\ Called
    BY DEF Refuse, Called
  <1>2. Top.id \in Nat /\ GetXrefSize \in Nat
    BY <1>1, CallsTyped, XrefTyped DEF CallInv
  <1>3. Top.id >= GetXrefSize => Top.id \notin 0 .. GetXrefSize - 1
    BY <1>2
  <1> QED
    BY <1>1, <1>2, <1>3 DEF Refuse, IsRefused, IsEntered, Entry, IsType

LEMMA KeyOnTop ==
    ASSUME CallInv, calls # <<>>
    PROVE  /\ CurrentKey(Started(Top.id)) = IF file.encrypted THEN Top.id ELSE 0
           /\ Started(Top.id) \in Seq(Nat)
           /\ ~file.encrypted => keys = <<>> /\ Started(Top.id) = keys
  <1>1. status = "success" /\ Top.id \in Nat
    BY CallsTyped DEF CallInv
  <1>2. file.encrypted \in BOOLEAN /\ keys \in Seq(Nat) /\ (~file.encrypted => keys = <<>>)
    BY <1>1, ObjectsAssumption DEF CallInv, Parsed, SharedIsRight
  <1>3. CASE file.encrypted
    <2>1. Started(Top.id) = Append(keys, Top.id)
      BY <1>3 DEF Started
    <2>2. /\ Append(keys, Top.id) \in Seq(Nat) /\ Append(keys, Top.id) # <<>>
          /\ Len(Append(keys, Top.id)) = Len(keys) + 1
          /\ Append(keys, Top.id)[Len(keys) + 1] = Top.id
      BY <1>1, <1>2, Appended
    <2> QED
      BY <1>3, <2>1, <2>2 DEF CurrentKey, Last
  <1>4. CASE ~file.encrypted
    BY <1>2, <1>4 DEF Started, CurrentKey
  <1> QED
    BY <1>2, <1>3, <1>4

LEMMA NothingExcept ==
    ASSUME NEW id, NEW what
    PROVE  /\ [Nothing EXCEPT !.id = id, !.what = what]
                = [id |-> id, what |-> what, at |-> 0, stringsBy |-> 0, streamBy |-> 0]
           /\ [Nothing EXCEPT !.what = what]
                = [id |-> 0, what |-> what, at |-> 0, stringsBy |-> 0, streamBy |-> 0]
  <1>1. [Nothing EXCEPT !.id = id, !.what = what]
         = [id |-> id, what |-> what, at |-> 0, stringsBy |-> 0, streamBy |-> 0]
    <2> DEFINE S == [id : {id}, what : {what}, at : {0}, stringsBy : {0}, streamBy : {0}]
    <2>1. [Nothing EXCEPT !.id = id, !.what = what] \in S
      BY DEF Nothing
    <2>2. \A x \in S : x = [id |-> id, what |-> what, at |-> 0, stringsBy |-> 0, streamBy |-> 0]
      OBVIOUS
    <2> QED
      BY <2>1, <2>2
  <1>2. [Nothing EXCEPT !.what = what]
         = [id |-> 0, what |-> what, at |-> 0, stringsBy |-> 0, streamBy |-> 0]
    <2> DEFINE S == [id : {0}, what : {what}, at : {0}, stringsBy : {0}, streamBy : {0}]
    <2>1. [Nothing EXCEPT !.what = what] \in S
      BY DEF Nothing
    <2>2. \A x \in S : x = [id |-> 0, what |-> what, at |-> 0, stringsBy |-> 0, streamBy |-> 0]
      OBVIOUS
    <2> QED
      BY <2>1, <2>2
  <1> QED
    BY <1>1, <1>2

LEMMA EffectOfExisting ==
    ASSUME CallInv, ParseExistingInDirectObject
    PROVE  /\ DoesNotStand \/ AsksForParameters \/ GivesStanding
           /\ UNCHANGED <<vars, asked, asks, headers>>
  <1> DEFINE body == BodyAt(Entry.position)
             started == Started(Top.id)
             object == [Nothing EXCEPT !.id = Top.id, !.what = body.what, !.at = Entry.position,
                                       !.stringsBy = CurrentKey(started)]
  <1>1. /\ CanBeEntered("Existing") /\ calls # <<>> /\ file \in Files /\ reading = "file"
        /\ UNCHANGED <<vars, reading, headers, asked, asks, undefined>>
    BY CanEnterIs DEF ParseExistingInDirectObject, CallInv, SharedIsRight
  <1>2. IsDeclared(body) /\ body.what # "broken" <=> Stands(Top.id)
    BY <1>1 DEF CanBeEntered, IsDeclared, Stands, Entry, Position
  <1>3. CurrentKey(started) = (IF file.encrypted THEN Top.id ELSE 0)
        /\ (file.encrypted => started = Append(keys, Top.id))
    BY <1>1, KeyOnTop DEF Started
  <1>4. object = ObjectStanding /\ body = BodyAt(Position(Top.id))
    <2>1. Entry.position = Position(Top.id)
      BY DEF Entry, Position
    <2>2. body = BodyAt(Position(Top.id))
      BY <2>1
    <2>3. object = [id |-> Top.id, what |-> body.what, at |-> Entry.position,
                    stringsBy |-> CurrentKey(started), streamBy |-> 0]
      <3> DEFINE a == Top.id
                 b == body.what
                 c == Entry.position
                 d == CurrentKey(started)
                 S == [id : {a}, what : {b}, at : {c}, stringsBy : {d}, streamBy : {0}]
      <3>1. object = [Nothing EXCEPT !.id = a, !.what = b, !.at = c, !.stringsBy = d]
        OBVIOUS
      <3> HIDE DEF a, b, c, d, object
      <3>2. [Nothing EXCEPT !.id = a, !.what = b, !.at = c, !.stringsBy = d] \in S
        BY DEF Nothing
      <3>3. \A x \in S : x = [id |-> a, what |-> b, at |-> c, stringsBy |-> d, streamBy |-> 0]
        OBVIOUS
      <3>4. object = [id |-> a, what |-> b, at |-> c, stringsBy |-> d, streamBy |-> 0]
        BY <3>1, <3>2, <3>3
      <3> QED
        BY <3>4 DEF a, b, c, d
    <2>4. ObjectStanding = [id |-> Top.id, what |-> BodyAt(Position(Top.id)).what, at |-> Position(Top.id),
                            stringsBy |-> IF file.encrypted THEN Top.id ELSE 0, streamBy |-> 0]
      BY DEF ObjectStanding
    <2> HIDE DEF object, body, started
    <2> QED
      BY <1>3, <2>1, <2>2, <2>3, <2>4
  <1>5. \/ /\ ~(IsDeclared(body) /\ body.what # "broken")
           /\ Return(Nothing) /\ keys' \in {keys, started}
        \/ /\ IsDeclared(body) /\ body.what # "broken"
           /\ IF body.what = "stream" /\ file.encrypted /\ body.parameters # 0
              THEN /\ AskAt("parameters", object, body.parameters)
                   /\ keys' = started
              ELSE /\ Return([object EXCEPT !.streamBy =
                                 IF body.what = "stream" THEN CurrentKey(started) ELSE 0])
                   /\ UNCHANGED keys
    BY DEF ParseExistingInDirectObject
  <1> HIDE DEF object, body, started
  <1>6. CASE ~Stands(Top.id)
    <2>1. Return(Nothing) /\ keys' \in {keys, started}
      BY <1>2, <1>5, <1>6
    <2> QED
      BY <1>1, <1>6, <2>1 DEF DoesNotStand, started
  <1>7. CASE Stands(Top.id) /\ body.what = "stream" /\ file.encrypted /\ body.parameters # 0
    <2>1. AskAt("parameters", object, body.parameters) /\ keys' = started
      BY <1>2, <1>5, <1>7
    <2> QED
      BY <1>1, <1>3, <1>4, <1>7, <2>1 DEF AsksForParameters
  <1>8. CASE Stands(Top.id) /\ ~(body.what = "stream" /\ file.encrypted /\ body.parameters # 0)
    <2>1. /\ Return([object EXCEPT !.streamBy =
                        IF body.what = "stream" THEN CurrentKey(started) ELSE 0])
          /\ UNCHANGED keys
      BY <1>2, <1>5, <1>8
    <2>2. (IF body.what = "stream" THEN CurrentKey(started) ELSE 0)
            = (IF body.what = "stream" /\ file.encrypted THEN Top.id ELSE 0)
      BY <1>3
    <2>3. Return([ObjectStanding EXCEPT !.streamBy =
                     IF body.what = "stream" /\ file.encrypted THEN Top.id ELSE 0])
      BY <1>4, <2>1, <2>2
    <2> QED
      BY <1>1, <1>4, <1>8, <2>1, <2>3 DEF GivesStanding
  <1> QED
    BY <1>1, <1>6, <1>7, <1>8

LEMMA EffectOfEnd ==
    ASSUME CallInv, EndStreamObject
    PROVE  GivesEncrypted /\ UNCHANGED <<vars, asked, asks, headers>>
  <1>1. calls # <<>> /\ Top.step = "parameters"
    BY DEF EndStreamObject
  <1>2. Entered(Top)
    BY <1>1, CallsTyped DEF CallInv, CallsAreRight, IsEnteredAt
  <1>3. file.encrypted
    BY <1>1, <1>2 DEF Entered
  <1> QED
    BY <1>1, <1>3 DEF EndStreamObject, GivesEncrypted, Ended

LEMMA EffectOfDeleted ==
    ASSUME CallInv, ParseFromDeletedStream
    PROVE  GivesAnything /\ UNCHANGED <<vars, asked, asks, headers>>
  <1>1. Called
    BY DEF ParseFromDeletedStream, CanEnter
  <1> QED
    BY <1>1 DEF ParseFromDeletedStream, GivesAnything

LEMMA EffectOfAskForStream ==
    ASSUME CallInv, AskForStream
    PROVE  AsksForStream /\ UNCHANGED <<vars, asked, asks, headers>>
  <1>1. CanBeEntered("StreamObject")
    BY CanEnterIs DEF AskForStream
  <1> QED
    BY <1>1 DEF AskForStream, AsksForStream, Entry, Position

(* The header that is cached, or read, is that of the stream.              *)
LEMMA HeaderInHand ==
    ASSUME CallInv, NEW stream, IsStream(stream, Position(Top.id)), IsInside
    PROVE  /\ HeaderOf(stream) = [k \in DOMAIN MembersOf(stream) |-> MembersOf(stream)[k].id]
           /\ HoldsObject(stream) <=> Holds(stream, Top.id)
           /\ Index \in Nat /\ MembersOf(stream) \in Seq(Members) /\ Len(MembersOf(stream)) \in Nat
  <1>1. calls # <<>> /\ file \in Files /\ Top.id \in Nat
    BY CallsTyped DEF CallInv, IsInside, Parsed
  <1>2. Index \in Nat /\ Index = GetXrefEntry(Top.id).revision
    BY <1>1, PositionTyped DEF Index, Entry, CallInv
  <1>3. MembersOf(stream) \in Seq(Members) /\ Len(MembersOf(stream)) \in Nat
        /\ DOMAIN MembersOf(stream) = 1 .. Len(MembersOf(stream))
    BY <1>1, BodyTyped, LenProperties DEF MembersOf
  <1>4. MembersOf(stream) = BodyAt(GetXrefEntry(stream.id).position).members
    BY DEF IsStream, MembersOf, Position
  <1>5. stream.id \in DOMAIN headers =>
            headers[stream.id] = [k \in DOMAIN MembersOf(stream) |-> MembersOf(stream)[k].id]
    BY <1>4 DEF CallInv, SharedIsRight, HeadersAreOfThisFile
  <1>6. HeaderOf(stream) = [k \in DOMAIN MembersOf(stream) |-> MembersOf(stream)[k].id]
    BY <1>5 DEF HeaderOf
  <1>7. /\ Len(HeaderOf(stream)) = Len(MembersOf(stream))
        /\ \A k \in 1 .. Len(MembersOf(stream)) : HeaderOf(stream)[k] = MembersOf(stream)[k].id
    <2>1. HeaderOf(stream) \in [1 .. Len(MembersOf(stream)) -> Nat]
      <3>1. \A k \in 1 .. Len(MembersOf(stream)) : MembersOf(stream)[k] \in Members
        BY <1>3, ElementOfSeq
      <3> QED
        BY <1>3, <1>6, <3>1 DEF Members
    <2> QED
      BY <1>3, <1>6, <2>1
  <1>8. Index < Len(MembersOf(stream)) => Index + 1 \in 1 .. Len(MembersOf(stream))
    BY <1>2, <1>3
  <1>9. HoldsObject(stream) <=> Holds(stream, Top.id)
    BY <1>2, <1>7, <1>8 DEF HoldsObject, Holds
  <1> QED
    BY <1>2, <1>3, <1>6, <1>9

(* The ways through ReadMember.                                            *)
LEMMA WaysOfReading ==
    ASSUME CallInv, NEW stream, NEW opened, IsStream(stream, Position(Top.id)), IsInside,
           ReadMember(stream, opened)
    PROVE  /\ UNCHANGED <<vars, asked, asks, undefined>> /\ HeadersAreOfThisFile'
           /\ \/ ~opened /\ GiveUp /\ UNCHANGED keys
              \/ ~Holds(stream, Top.id) /\ GiveUp /\ UNCHANGED keys
              \/ /\ Holds(stream, Top.id) /\ BodyAt(stream.at).length # 0
                 /\ AskAt("reopened", stream, BodyAt(stream.at).length)
                 /\ reading' = "closed" /\ UNCHANGED keys
              \/ Holds(stream, Top.id) /\ ParseMember(stream, opened)
  <1>1. UNCHANGED <<vars, asked, asks, undefined>>
    BY DEF ReadMember
  <1>2. HoldsObject(stream) <=> Holds(stream, Top.id)
    BY HeaderInHand
  <1>3. CASE UNCHANGED headers /\ ~opened /\ GiveUp /\ UNCHANGED keys
    BY <1>1, <1>3, Frozen DEF CallInv, SharedIsRight, HeadersAreOfThisFile
  <1>4. CASE /\ headers' = [id \in DOMAIN headers \cup {stream.id} |->
                              IF id = stream.id THEN HeaderOf(stream) ELSE headers[id]]
             /\ \/ ~HoldsObject(stream) /\ GiveUp /\ UNCHANGED keys
                \/ /\ HoldsObject(stream) /\ BodyAt(stream.at).length # 0
                   /\ AskAt("reopened", stream, BodyAt(stream.at).length)
                   /\ reading' = "closed" /\ UNCHANGED keys
                \/ HoldsObject(stream) /\ ParseMember(stream, opened)
    <2>1. HeadersAreOfThisFile'
      <3> SUFFICES ASSUME NEW id \in DOMAIN headers'
                   PROVE  LET members == BodyAt(GetXrefEntry(id).position).members IN
                          headers'[id] = [k \in DOMAIN members |-> members[k].id]
        BY <1>1, Frozen DEF HeadersAreOfThisFile
      <3>1. CASE id = stream.id
        <4>1. MembersOf(stream) = BodyAt(GetXrefEntry(id).position).members
          BY <3>1 DEF IsStream, MembersOf, Position
        <4>2. headers'[id] = HeaderOf(stream)
          BY <1>4, <3>1
        <4> QED
          BY <4>1, <4>2, HeaderInHand
      <3>2. CASE id # stream.id
        BY <1>4, <3>2 DEF CallInv, SharedIsRight, HeadersAreOfThisFile
      <3> QED
        BY <3>1, <3>2
    <2> QED
      BY <1>1, <1>2, <1>4, <2>1
  <1>5. \/ UNCHANGED headers /\ ~opened /\ GiveUp /\ UNCHANGED keys
        \/ /\ headers' = [id \in DOMAIN headers \cup {stream.id} |->
                              IF id = stream.id THEN HeaderOf(stream) ELSE headers[id]]
           /\ \/ ~HoldsObject(stream) /\ GiveUp /\ UNCHANGED keys
              \/ /\ HoldsObject(stream) /\ BodyAt(stream.at).length # 0
                 /\ AskAt("reopened", stream, BodyAt(stream.at).length)
                 /\ reading' = "closed" /\ UNCHANGED keys
              \/ HoldsObject(stream) /\ ParseMember(stream, opened)
    BY DEF ReadMember
  <1> QED
    BY <1>3, <1>4, <1>5

LEMMA Waits ==
    ASSUME CallInv, calls # <<>>, Top.step # "called"
    PROVE  /\ HasAnswer /\ WantedAt(Len(calls)) = Wanted(Top) /\ Entered(Top)
           /\ answer \in Answers /\ file \in Files
           /\ answer.what = "stream" => IsStream(answer, Wanted(Top))
           /\ ~undefined => IsRight(answer, Wanted(Top))
  <1>1. Len(calls) \in Nat \ {0} /\ Top = calls[Len(calls)] /\ status = "success"
    BY CallsTyped DEF CallInv
  <1>2. IsEnteredAt(Len(calls)) /\ Len(calls) \in 1 .. Len(calls)
    BY <1>1 DEF IsEnteredAt
  <1>3. HasAnswer /\ Entered(Top)
    BY <1>1, <1>2 DEF HasAnswer, CallInv, CallsAreRight
  <1>4. WantedAt(Len(calls)) = Wanted(Top)
    BY <1>1 DEF WantedAt
  <1> QED
    BY <1>1, <1>3, <1>4 DEF CallInv, AnswerIsRight, Parsed

LEMMA EffectOfParseMember ==
    ASSUME CallInv, IsInside, NEW opened, opened \in BOOLEAN, ParseMember(InHand, opened),
           Holds(InHand, Top.id), opened <=> IsOpened,
           ~(Top.step = "stream" /\ (answer.what # "stream" \/ Len(MembersOf(answer)) > GetXrefSize)),
           ~opened => Top.step # "stream", UNCHANGED undefined
    PROVE  IsNotHeld \/ GivesMember
  <1>1. /\ IF opened /\ MemberInHand.what # "broken"
           THEN Return([Nothing EXCEPT !.id = Top.id, !.what = MemberInHand.what]) /\ UNCHANGED keys
           ELSE Return(Nothing) /\ keys' = Started(Top.id)
        /\ reading' = "file"
    BY DEF ParseMember, Member, MemberInHand, Index, Entry
  <1>2. CASE opened /\ MemberInHand.what # "broken"
    BY <1>1, <1>2 DEF GivesMember, IsHeld
  <1>3. CASE ~(opened /\ MemberInHand.what # "broken")
    BY <1>1, <1>3 DEF IsNotHeld, IsHeld
  <1> QED
    BY <1>2, <1>3

LEMMA EffectOfHasStream ==
    ASSUME CallInv, HasStream
    PROVE  /\ IsNotHeld \/ AsksForLength \/ GivesMember
           /\ UNCHANGED <<vars, asked, asks>> /\ HeadersAreOfThisFile'
  <1>1. calls # <<>> /\ Top.step = "stream" /\ IsInside /\ InHand = answer
    BY DEF HasStream, IsInside, InHand
  <1>2. Wanted(Top) = Position(Top.id)
    BY <1>1 DEF Wanted
  <1>3. answer.what = "stream" => IsStream(answer, Position(Top.id))
    BY <1>1, <1>2, Waits
  <1>4. CASE answer.what # "stream" \/ Len(MembersOf(answer)) > GetXrefSize
    <2>1. GiveUp /\ UNCHANGED <<vars, headers, keys, asked, asks, undefined>>
      BY <1>4 DEF HasStream
    <2>2. HeadersAreOfThisFile'
      BY <2>1, Frozen DEF CallInv, SharedIsRight, HeadersAreOfThisFile
    <2> QED
      BY <1>1, <1>4, <2>1, <2>2 DEF GiveUp, IsNotHeld
  <1>5. CASE /\ ~(answer.what # "stream" \/ Len(MembersOf(answer)) > GetXrefSize)
             /\ BodyAt(answer.at).length # 0
    <2>1. /\ AskAt("length", answer, BodyAt(answer.at).length)
          /\ UNCHANGED <<vars, reading, headers, keys, asked, asks, undefined>>
      BY <1>5 DEF HasStream
    <2>2. HeadersAreOfThisFile'
      BY <2>1, Frozen DEF CallInv, SharedIsRight, HeadersAreOfThisFile
    <2>3. Len(MembersOf(answer)) <= GetXrefSize
      <3>1. file \in Files /\ GetXrefSize \in Nat
        BY <1>1, Waits, XrefTyped DEF CallInv
      <3>2. Len(MembersOf(answer)) \in Nat
        BY <3>1, BodyTyped DEF MembersOf
      <3> QED
        BY <1>5, <3>1, <3>2
    <2> QED
      BY <1>1, <1>3, <1>5, <2>1, <2>2, <2>3 DEF AsksForLength
  <1>6. CASE /\ ~(answer.what # "stream" \/ Len(MembersOf(answer)) > GetXrefSize)
             /\ ~(BodyAt(answer.at).length # 0)
    <2>1. ReadMember(answer, TRUE)
      BY <1>6 DEF HasStream
    <2>2. IsStream(answer, Position(Top.id))
      BY <1>3, <1>6
    <2>3. IsOpened
      <3>1. file \in Files /\ GetXrefSize \in Nat
        BY <1>1, Waits, XrefTyped DEF CallInv
      <3>2. Len(MembersOf(answer)) \in Nat
        BY <3>1, BodyTyped DEF MembersOf
      <3> QED
        BY <1>1, <1>6, <3>1, <3>2 DEF IsOpened
    <2>4. /\ UNCHANGED <<vars, asked, asks, undefined>> /\ HeadersAreOfThisFile'
          /\ \/ ~Holds(answer, Top.id) /\ GiveUp /\ UNCHANGED keys
             \/ Holds(answer, Top.id) /\ ParseMember(answer, TRUE)
      BY <1>1, <1>6, <2>1, <2>2, WaysOfReading
    <2>5. CASE ~Holds(answer, Top.id) /\ GiveUp /\ UNCHANGED keys
      BY <1>1, <1>6, <2>4, <2>5 DEF GiveUp, IsNotHeld, IsHeld
    <2>6. CASE Holds(answer, Top.id) /\ ParseMember(answer, TRUE)
      BY <1>1, <1>6, <2>3, <2>4, <2>6, EffectOfParseMember
    <2> QED
      BY <2>4, <2>5, <2>6
  <1> QED
    BY <1>4, <1>5, <1>6

LEMMA EffectOfHasLength ==
    ASSUME CallInv, HasLength
    PROVE  /\ IsNotHeld \/ AsksAgain \/ GivesMember
           /\ UNCHANGED <<vars, asked, asks>> /\ HeadersAreOfThisFile'
  <1> DEFINE opened == answer.what = "integer"
  <1>1. calls # <<>> /\ Top.step = "length" /\ IsInside /\ InHand = Top.stream
        /\ (opened <=> IsOpened) /\ opened \in BOOLEAN
    BY DEF HasLength, IsInside, InHand, IsOpened
  <1>2. IsStream(Top.stream, Position(Top.id))
    BY <1>1, Waits DEF Entered
  <1>3. ReadMember(Top.stream, opened)
    BY DEF HasLength
  <1> HIDE DEF opened
  <1>4. /\ UNCHANGED <<vars, asked, asks, undefined>> /\ HeadersAreOfThisFile'
        /\ \/ ~opened /\ GiveUp /\ UNCHANGED keys
           \/ ~Holds(Top.stream, Top.id) /\ GiveUp /\ UNCHANGED keys
           \/ /\ Holds(Top.stream, Top.id) /\ BodyAt(Top.stream.at).length # 0
              /\ AskAt("reopened", Top.stream, BodyAt(Top.stream.at).length)
              /\ reading' = "closed" /\ UNCHANGED keys
           \/ Holds(Top.stream, Top.id) /\ ParseMember(Top.stream, opened)
    BY <1>1, <1>2, <1>3, WaysOfReading
  <1>5. CASE (~opened \/ ~Holds(Top.stream, Top.id)) /\ GiveUp /\ UNCHANGED keys
    BY <1>1, <1>4, <1>5 DEF GiveUp, IsNotHeld, IsHeld
  <1>6. CASE /\ Holds(Top.stream, Top.id)
             /\ AskAt("reopened", Top.stream, BodyAt(Top.stream.at).length)
             /\ reading' = "closed" /\ UNCHANGED keys
    BY <1>1, <1>4, <1>6 DEF AsksAgain
  <1>7. CASE Holds(Top.stream, Top.id) /\ ParseMember(Top.stream, opened)
    BY <1>1, <1>4, <1>7, EffectOfParseMember
  <1> QED
    BY <1>4, <1>5, <1>6, <1>7

LEMMA EffectOfHasReopened ==
    ASSUME CallInv, HasReopened
    PROVE  /\ IsNotHeld \/ GivesMember
           /\ UNCHANGED <<vars, asked, asks>> /\ HeadersAreOfThisFile'
  <1> DEFINE opened == answer.what = "integer"
  <1>1. calls # <<>> /\ Top.step = "reopened" /\ IsInside /\ InHand = Top.stream
        /\ (opened <=> IsOpened) /\ opened \in BOOLEAN
    BY DEF HasReopened, IsInside, InHand, IsOpened
  <1>2. Holds(Top.stream, Top.id)
    BY <1>1, Waits DEF Entered
  <1>3. ParseMember(Top.stream, opened) /\ UNCHANGED <<vars, headers, asked, asks, undefined>>
    BY DEF HasReopened
  <1> HIDE DEF opened
  <1>4. HeadersAreOfThisFile'
    BY <1>3, Frozen DEF CallInv, SharedIsRight, HeadersAreOfThisFile
  <1> QED
    BY <1>1, <1>2, <1>3, <1>4, EffectOfParseMember

LEMMA EffectOfStep ==
    ASSUME CallInv, CallStep
    PROVE  Effects /\ UNCHANGED <<vars, asked, asks>> /\ HeadersAreOfThisFile'
  <1>1. UNCHANGED <<vars, headers>> => HeadersAreOfThisFile'
    BY Frozen DEF CallInv, SharedIsRight, HeadersAreOfThisFile
  <1>2. CASE Refuse
    BY <1>1, <1>2, EffectOfRefuse DEF Effects
  <1>3. CASE ParseExistingInDirectObject
    BY <1>1, <1>3, EffectOfExisting DEF Effects
  <1>4. CASE EndStreamObject
    BY <1>1, <1>4, EffectOfEnd DEF Effects
  <1>5. CASE ParseFromDeletedStream
    BY <1>1, <1>5, EffectOfDeleted DEF Effects
  <1>6. CASE AskForStream
    BY <1>1, <1>6, EffectOfAskForStream DEF Effects
  <1>7. CASE HasStream
    BY <1>7, EffectOfHasStream DEF Effects
  <1>8. CASE HasLength
    BY <1>8, EffectOfHasLength DEF Effects
  <1>9. CASE HasReopened
    BY <1>9, EffectOfHasReopened DEF Effects
  <1> QED
    BY <1>2, <1>3, <1>4, <1>5, <1>6, <1>7, <1>8, <1>9 DEF CallStep

-----------------------------------------------------------------------------
(***************************************************************************)
(* Asking and returning.                                                   *)
(***************************************************************************)
LEMMA NothingTyped ==
    Nothing \in Answers /\ Nothing.what # "stream" /\ \A id : IsRight(Nothing, id)
  BY DEF Nothing, Answers, Kinds, IsRight

(* The call on top, once it has asked.                                     *)
Asker(step, stream) == [Top EXCEPT !.step = step, !.stream = stream]

LEMMA Asking ==
    ASSUME CallInv, calls # <<>>, UNCHANGED <<vars, asked>>,
           NEW step \in CallSteps \ {"called"}, NEW stream \in Answers, NEW id \in Nat,
           AskAt(step, stream, id),
           Entered(Asker(step, stream)), Wanted(Asker(step, stream)) = id,
           Called => \A k \in 1 .. Len(calls) - 1 : calls[k].id # Top.id
    PROVE  /\ Len(calls') = Len(calls) + 1
           /\ \A k \in 1 .. Len(calls) - 1 : calls'[k] = calls[k]
           /\ calls'[Len(calls)] = Asker(step, stream) /\ calls'[Len(calls) + 1] = Call(id)
           /\ CallsAreRight' /\ AnswerIsRight' /\ ~HasAnswer'
  <1>1. /\ Len(calls) \in Nat \ {0} /\ Top \in Calls /\ Top = calls[Len(calls)]
        /\ status = "success" /\ calls \in Seq(Calls)
        /\ \A k \in 1 .. Len(calls) : calls[k] \in Calls
        /\ Called <=> ~IsEnteredAt(Len(calls))
    BY CallsTyped DEF CallInv, CallsAreRight
  <1> DEFINE frame == Asker(step, stream)
  <1>2. frame \in Calls /\ frame.id = Top.id /\ frame.step = step /\ frame.stream = stream
    BY <1>1 DEF Calls, Asker
  <1>3. Entered(frame) /\ Wanted(frame) = id
    OBVIOUS
  <1>4. calls' = Append(Append(Front(calls), frame), Call(id)) /\ answer' = Nothing
    BY DEF AskAt, Asker
  <1> HIDE DEF frame
  <1>5. Call(id) \in Calls /\ Call(id).step = "called" /\ Call(id).id = id
    BY NothingTyped DEF Call, Calls, CallSteps
  <1>6. /\ Front(calls) \in Seq(Calls) /\ Len(Front(calls)) = Len(calls) - 1
        /\ \A k \in 1 .. Len(calls) - 1 : Front(calls)[k] = calls[k]
    BY <1>1, FrontAndLast
  <1> DEFINE below == Append(Front(calls), frame)
  <1>7. /\ below \in Seq(Calls) /\ Len(below) = Len(calls)
        /\ \A k \in 1 .. Len(calls) - 1 : below[k] = calls[k]
        /\ below[Len(calls)] = frame
    <2>1. /\ below \in Seq(Calls) /\ Len(below) = Len(Front(calls)) + 1
          /\ \A k \in 1 .. Len(Front(calls)) : below[k] = Front(calls)[k]
          /\ below[Len(Front(calls)) + 1] = frame
      BY <1>2, <1>6, Appended
    <2>2. Len(Front(calls)) + 1 = Len(calls)
      BY <1>1, <1>6
    <2> HIDE DEF below
    <2> QED
      BY <1>6, <2>1, <2>2
  <1>8. calls' = Append(below, Call(id)) /\ answer' = Nothing
    BY <1>4
  <1> HIDE DEF below
  <1>9. /\ calls' \in Seq(Calls) /\ Len(calls') = Len(calls) + 1 /\ calls' # <<>>
        /\ \A k \in 1 .. Len(calls) - 1 : calls'[k] = calls[k]
        /\ calls'[Len(calls)] = frame /\ calls'[Len(calls) + 1] = Call(id)
    <2>1. /\ calls' \in Seq(Calls) /\ Len(calls') = Len(below) + 1 /\ calls' # <<>>
          /\ \A k \in 1 .. Len(below) : calls'[k] = below[k]
          /\ calls'[Len(below) + 1] = Call(id)
      BY <1>5, <1>7, <1>8, Appended
    <2> QED
      BY <1>1, <1>7, <2>1
  <1>10. \A k \in 1 .. Len(calls) : calls'[k].id = calls[k].id
    <2> SUFFICES ASSUME NEW k \in 1 .. Len(calls) PROVE calls'[k].id = calls[k].id
      OBVIOUS
    <2>1. CASE k \in 1 .. Len(calls) - 1
      BY <1>9, <2>1
    <2>2. CASE k = Len(calls)
      BY <1>1, <1>2, <1>9, <2>2
    <2> QED
      BY <1>1, <2>1, <2>2
  <1>11. status' = status /\ asked' = asked
    BY DEF vars
  <1>12. OnlyTopIsCalled'
    <2> SUFFICES ASSUME NEW k \in 1 .. Len(calls)
                 PROVE  calls'[k].step # "called"
      BY <1>1, <1>9 DEF OnlyTopIsCalled, IsEnteredAt
    <2>1. CASE k \in 1 .. Len(calls) - 1
      BY <1>9, <2>1 DEF CallInv, CallsAreRight, OnlyTopIsCalled, IsEnteredAt
    <2>2. CASE k = Len(calls)
      BY <1>2, <1>9, <2>2
    <2> QED
      BY <1>1, <2>1, <2>2
  <1>13. \A k \in 1 .. Len(calls') : calls'[k].id = WantedAt(k - 1)'
    <2> SUFFICES ASSUME NEW k \in 1 .. Len(calls) + 1
                 PROVE  calls'[k].id = IF k - 1 = 0 THEN asked' ELSE Wanted(calls[k - 1])'
      BY <1>9 DEF WantedAt
    <2>1. \A call : Wanted(call)' = Wanted(call)
      BY Frozen
    <2>2. CASE k \in 1 .. Len(calls)
      <3>1. calls'[k].id = calls[k].id
        BY <1>10, <2>2
      <3>2. calls[k].id = IF k - 1 = 0 THEN asked ELSE Wanted(calls[k - 1])
        BY <2>2 DEF CallInv, CallsAreRight, WantedAt
      <3>3. k - 1 = 0 \/ k - 1 \in 1 .. Len(calls) - 1
        BY <1>1, <2>2
      <3>4. k - 1 = 0 \/ Wanted(calls[k - 1])' = Wanted(calls[k - 1])
        BY <1>9, <2>1, <3>3
      <3> QED
        BY <1>11, <3>1, <3>2, <3>4
    <2>3. CASE k = Len(calls) + 1
      <3>1. k - 1 = Len(calls) /\ k - 1 # 0
        BY <1>1, <2>3
      <3>2. Wanted(calls[k - 1])' = id
        BY <1>9, <1>3, <2>1, <3>1
      <3> QED
        BY <1>5, <1>9, <2>3, <3>1, <3>2
    <2> QED
      BY <1>1, <2>2, <2>3
  <1>14. \A k \in 1 .. Len(calls') : IsEnteredAt(k)' => Entered(calls[k])'
    <2> SUFFICES ASSUME NEW k \in 1 .. Len(calls) + 1, calls'[k].step # "called"
                 PROVE  Entered(calls[k])'
      BY <1>9 DEF IsEnteredAt
    <2>1. \A call : Entered(call)' <=> Entered(call)
      BY Frozen
    <2>2. CASE k \in 1 .. Len(calls) - 1
      <3>1. IsEnteredAt(k) /\ k \in 1 .. Len(calls)
        BY <1>1, <2>2 DEF CallInv, CallsAreRight, OnlyTopIsCalled
      <3> QED
        BY <1>9, <2>1, <2>2, <3>1 DEF CallInv, CallsAreRight
    <2>3. CASE k = Len(calls)
      BY <1>9, <1>3, <2>1, <2>3
    <2>4. CASE k = Len(calls) + 1
      BY <1>5, <1>9, <2>4
    <2> QED
      BY <1>1, <2>2, <2>3, <2>4
  <1>15. \A j, k \in 1 .. Len(calls') :
            j # k /\ IsEnteredAt(j)' /\ IsEnteredAt(k)' => calls'[j].id # calls'[k].id
    <2> SUFFICES ASSUME NEW j \in 1 .. Len(calls) + 1, NEW k \in 1 .. Len(calls) + 1,
                        j # k, calls'[j].step # "called", calls'[k].step # "called"
                 PROVE  calls'[j].id # calls'[k].id
      BY <1>9 DEF IsEnteredAt
    <2>1. j \in 1 .. Len(calls) /\ k \in 1 .. Len(calls)
      BY <1>1, <1>5, <1>9
    <2>2. calls'[j].id = calls[j].id /\ calls'[k].id = calls[k].id
      BY <1>10, <2>1
    <2>3. CASE ~Called
      <3>1. IsEnteredAt(j) /\ IsEnteredAt(k)
        BY <1>1, <2>1, <2>3 DEF CallInv, CallsAreRight, OnlyTopIsCalled
      <3> QED
        BY <2>1, <2>2, <3>1 DEF CallInv, CallsAreRight
    <2>4. CASE Called
      <3>1. CASE j \in 1 .. Len(calls) - 1 /\ k \in 1 .. Len(calls) - 1
        <4>1. IsEnteredAt(j) /\ IsEnteredAt(k)
          BY <3>1 DEF CallInv, CallsAreRight, OnlyTopIsCalled
        <4> QED
          BY <2>1, <2>2, <4>1 DEF CallInv, CallsAreRight
      <3>2. CASE j = Len(calls) \/ k = Len(calls)
        <4>1. \A i \in 1 .. Len(calls) - 1 : calls[i].id # calls[Len(calls)].id
          BY <1>1, <2>4
        <4>2. (j \in 1 .. Len(calls) - 1 \/ j = Len(calls)) /\ (k \in 1 .. Len(calls) - 1 \/ k = Len(calls))
          BY <1>1, <2>1
        <4> QED
          BY <2>2, <3>2, <4>1, <4>2
      <3> QED
        BY <1>1, <2>1, <3>1, <3>2
    <2> QED
      BY <2>3, <2>4
  <1>16. CallsAreRight'
    BY <1>1, <1>9, <1>11, <1>12, <1>13, <1>14, <1>15 DEF CallsAreRight
  <1>17. ~HasAnswer'
    BY <1>1, <1>5, <1>9 DEF HasAnswer, IsEnteredAt
  <1>18. AnswerIsRight'
    BY <1>1, <1>8, <1>11, <1>17, NothingTyped DEF AnswerIsRight, CallInv
  <1> QED
    BY <1>2, <1>9, <1>16, <1>17, <1>18 DEF frame

LEMMA Returning ==
    ASSUME CallInv, calls # <<>>, UNCHANGED <<vars, asked>>,
           NEW object \in Answers, Return(object),
           object.what = "stream" => IsStream(object, Top.id),
           ~undefined' => IsRight(object, Top.id)
    PROVE  /\ Len(calls') = Len(calls) - 1 /\ Len(calls) \in Nat \ {0} /\ answer' = object
           /\ \A k \in 1 .. Len(calls) - 1 : calls'[k] = calls[k]
           /\ CallsAreRight' /\ AnswerIsRight' /\ HasAnswer'
           /\ WantedAt(Len(calls))' = Top.id
  <1>1. /\ Len(calls) \in Nat \ {0} /\ Top = calls[Len(calls)]
        /\ status = "success" /\ calls \in Seq(Calls) /\ Top.id = WantedAt(Len(calls) - 1)
    BY CallsTyped DEF CallInv, CallsAreRight
  <1>2. /\ calls' \in Seq(Calls) /\ Len(calls') = Len(calls) - 1
        /\ \A k \in 1 .. Len(calls) - 1 : calls'[k] = calls[k]
        /\ answer' = object
    BY <1>1, FrontAndLast DEF Return
  <1>3. status' = status /\ asked' = asked
    BY DEF vars
  <1>4. \A k \in 0 .. Len(calls) - 1 : WantedAt(k)' = WantedAt(k)
    <2> SUFFICES ASSUME NEW k \in 0 .. Len(calls) - 1 PROVE WantedAt(k)' = WantedAt(k)
      OBVIOUS
    <2>1. k = 0 \/ k \in 1 .. Len(calls) - 1
      BY <1>1
    <2>2. k = 0 \/ Wanted(calls[k])' = Wanted(calls[k])
      BY <1>2, <2>1, Frozen
    <2> QED
      BY <1>3, <2>2 DEF WantedAt
  <1>5. OnlyTopIsCalled' /\ \A k \in 1 .. Len(calls') : IsEnteredAt(k)' /\ IsEnteredAt(k)
    BY <1>1, <1>2 DEF CallInv, CallsAreRight, OnlyTopIsCalled, IsEnteredAt
  <1>6. \A k \in 1 .. Len(calls') : calls'[k].id = WantedAt(k - 1)'
    <2> SUFFICES ASSUME NEW k \in 1 .. Len(calls') PROVE calls'[k].id = WantedAt(k - 1)'
      OBVIOUS
    <2>1. k \in 1 .. Len(calls) /\ k \in 1 .. Len(calls) - 1 /\ k - 1 \in 0 .. Len(calls) - 1
      BY <1>1, <1>2
    <2> QED
      BY <1>2, <1>4, <2>1 DEF CallInv, CallsAreRight
  <1>7. \A k \in 1 .. Len(calls') : Entered(calls[k])'
    <2> SUFFICES ASSUME NEW k \in 1 .. Len(calls') PROVE Entered(calls[k])'
      OBVIOUS
    <2>1. k \in 1 .. Len(calls) /\ k \in 1 .. Len(calls) - 1 /\ IsEnteredAt(k)
      BY <1>1, <1>2, <1>5
    <2>2. Entered(calls[k])
      BY <2>1 DEF CallInv, CallsAreRight
    <2> QED
      BY <1>2, <2>1, <2>2, Frozen
  <1>8. \A j, k \in 1 .. Len(calls') : j # k => calls'[j].id # calls'[k].id
    <2> SUFFICES ASSUME NEW j \in 1 .. Len(calls'), NEW k \in 1 .. Len(calls'), j # k
                 PROVE  calls'[j].id # calls'[k].id
      OBVIOUS
    <2>1. /\ j \in 1 .. Len(calls) /\ j \in 1 .. Len(calls) - 1 /\ IsEnteredAt(j)
          /\ k \in 1 .. Len(calls) /\ k \in 1 .. Len(calls) - 1 /\ IsEnteredAt(k)
      BY <1>1, <1>2, <1>5
    <2> QED
      BY <1>2, <2>1 DEF CallInv, CallsAreRight
  <1>9. CallsAreRight'
    BY <1>1, <1>2, <1>3, <1>5, <1>6, <1>7, <1>8 DEF CallsAreRight
  <1>10. HasAnswer'
    <2>1. CASE Len(calls') = 0
      BY <1>2, <2>1, EmptySeq DEF HasAnswer
    <2>2. CASE Len(calls') # 0
      <3>1. Len(calls') \in 1 .. Len(calls')
        BY <1>1, <1>2, <2>2
      <3> QED
        BY <1>5, <3>1 DEF HasAnswer
    <2> QED
      BY <2>1, <2>2
  <1>11. WantedAt(Len(calls))' = Top.id
    <2>1. Len(calls') \in 0 .. Len(calls) - 1
      BY <1>1, <1>2
    <2> QED
      BY <1>1, <1>2, <1>4, <2>1
  <1>12. AnswerIsRight'
    <2>1. PICK id : id = Top.id
      OBVIOUS
    <2>2. answer'.what = "stream" => IsStream(answer, id)'
      BY <1>2, <2>1, Frozen
    <2>3. ~undefined' => IsRight(answer, id)'
      BY <1>2, <2>1, Frozen
    <2>4. WantedAt(Len(calls))' = id
      BY <1>11, <2>1
    <2> QED
      BY <1>1, <1>2, <1>3, <1>10, <2>2, <2>3, <2>4 DEF AnswerIsRight, CallInv
  <1> QED
    BY <1>1, <1>2, <1>9, <1>10, <1>11, <1>12

LEMMA FrontOfKeys ==
    ASSUME CallInv
    PROVE  Front(keys) \in Seq(Nat)
  <1>1. keys \in Seq(Nat) /\ Len(keys) \in Nat
    BY DEF CallInv, SharedIsRight
  <1>2. \A i \in 1 .. Len(keys) - 1 : keys[i] \in Nat
    BY <1>1, ElementOfSeq
  <1>3. SubSeq(keys, 1, Len(keys) - 1) \in Seq(Nat)
    BY <1>1, <1>2, SubSeqProperties
  <1> QED
    BY <1>3 DEF Front

LEMMA SharedStays ==
    ASSUME CallInv, calls # <<>>, UNCHANGED vars, HeadersAreOfThisFile',
           keys' \in {keys, Started(Top.id)} \/ (file.encrypted /\ keys' = Front(keys)),
           reading' \in {"file", "closed"},
           reading' = "closed" => \E k \in 1 .. Len(calls') : calls'[k].step = "reopened",
           undefined' = undefined \/ (undefined' = TRUE /\ reading = "closed")
    PROVE  SharedIsRight'
  <1>1. status = "success" /\ UNCHANGED <<status, file>> /\ file \in Files
    BY CallsTyped DEF vars, CallInv, Parsed
  <1>2. keys' \in Seq(Nat) /\ (~file.encrypted => keys' = <<>>)
    <2>1. keys \in Seq(Nat)
      BY DEF CallInv, SharedIsRight
    <2> QED
      BY <2>1, KeyOnTop, FrontOfKeys
  <1>3. undefined' \in BOOLEAN /\ ReadsWhatItOwns'
    <2>1. CASE undefined' = undefined
      BY <1>1, <2>1 DEF CallInv, SharedIsRight, ReadsWhatItOwns
    <2>2. CASE undefined' = TRUE /\ reading = "closed"
      <3>1. PICK k \in 1 .. Len(calls) : calls[k].step = "reopened"
        BY <2>2 DEF CallInv, SharedIsRight
      <3>2. Entered(calls[k])
        BY <3>1 DEF CallInv, CallsAreRight, IsEnteredAt
      <3>3. BodyAt(calls[k].stream.at).length # 0
        BY <3>1, <3>2 DEF Entered
      <3>4. calls[k].stream.at \in DOMAIN file.bodies
        BY <1>1, <3>3, BodyTyped
      <3>5. file.bodies[calls[k].stream.at].length # 0
        BY <3>3, <3>4 DEF BodyAt
      <3> QED
        BY <1>1, <2>2, <3>4, <3>5 DEF ReadsWhatItOwns
    <2> QED
      BY <2>1, <2>2
  <1> QED
    BY <1>1, <1>2, <1>3 DEF SharedIsRight

(* Where reading is from, over a call more or a call less.                 *)
LEMMA ReopenedStays ==
    ASSUME CallInv, calls # <<>>, reading = "closed", Top.step # "reopened",
           \A k \in 1 .. Len(calls) - 1 : calls'[k] = calls[k],
           Len(calls') \in {Len(calls) - 1, Len(calls) + 1}
    PROVE  \E k \in 1 .. Len(calls') : calls'[k].step = "reopened"
  <1>1. PICK k \in 1 .. Len(calls) : calls[k].step = "reopened"
    BY DEF CallInv, SharedIsRight
  <1>2. Len(calls) \in Nat \ {0} /\ Top = calls[Len(calls)]
    BY CallsTyped DEF CallInv
  <1>3. k \in 1 .. Len(calls) - 1 /\ k \in 1 .. Len(calls')
    BY <1>1, <1>2
  <1> QED
    BY <1>1, <1>3

(* The kinds of the objects that are found.                                *)
LEMMA KindOfStanding ==
    ASSUME NEW id, IsType(id, "Existing")
    PROVE  KindIn(id) = BodyAt(Position(id)).what
  BY DEF KindIn, IsType, Position

LEMMA KindOfMember ==
    ASSUME NEW id, NEW stream, IsType(id, "StreamObject"), IsStream(stream, Position(id))
    PROVE  KindIn(id) = MembersOf(stream)[GetXrefEntry(id).revision + 1].what
  <1>1. MembersOf(stream) = BodyAt(GetXrefEntry(GetXrefEntry(id).position).position).members
    BY DEF IsStream, MembersOf, Position
  <1> QED
    BY <1>1 DEF KindIn, IsType

LEMMA StandingIsRight ==
    ASSUME CallInv, calls # <<>>, Stands(Top.id), NEW by, by \in Nat,
           ~file.encrypted => by = 0,
           file.encrypted /\ BodyAt(Position(Top.id)).what = "stream"
               /\ BodyAt(Position(Top.id)).parameters = 0 => by = Top.id
    PROVE  LET object == [ObjectStanding EXCEPT !.streamBy = by] IN
           /\ object \in Answers /\ ObjectStanding \in Answers
           /\ object.what = "stream" => IsStream(object, Top.id)
           /\ IsRight(object, Top.id)
  <1> DEFINE object == [ObjectStanding EXCEPT !.streamBy = by]
  <1>1. status = "success" /\ Top.id \in Nat /\ file \in Files /\ Position(Top.id) \in Nat
    BY CallsTyped, PositionTyped DEF CallInv, Parsed
  <1>2. BodyAt(Position(Top.id)).what \in Kinds \ {"broken"}
    BY <1>1, BodyTyped DEF Stands
  <1>3. ObjectStanding \in Answers
    BY <1>1, <1>2 DEF ObjectStanding, Answers
  <1>4. object \in Answers
    BY <1>3 DEF Answers
  <1>5. /\ object.id = Top.id /\ object.what = BodyAt(Position(Top.id)).what
        /\ object.at = Position(Top.id) /\ object.streamBy = by
        /\ object.stringsBy = IF file.encrypted THEN Top.id ELSE 0
    BY DEF ObjectStanding
  <1> HIDE DEF object
  <1>6. object.what = "stream" => IsStream(object, Top.id)
    BY <1>5 DEF IsStream
  <1>7. IsType(Top.id, "Existing")
    BY DEF Stands
  <1>8. IsRight(object, Top.id)
    BY <1>5, <1>7, KindOfStanding DEF IsRight
  <1> QED
    BY <1>3, <1>4, <1>6, <1>8 DEF object

LEMMA MemberIsRight ==
    ASSUME CallInv, calls # <<>>, NEW stream, stream \in Answers, IsType(Top.id, "StreamObject"),
           IsStream(stream, Position(Top.id)), Holds(stream, Top.id),
           MembersOf(stream)[GetXrefEntry(Top.id).revision + 1].what # "broken"
    PROVE  LET object == [Nothing EXCEPT !.id = Top.id,
                              !.what = MembersOf(stream)[GetXrefEntry(Top.id).revision + 1].what] IN
           object \in Answers /\ object.what # "stream" /\ IsRight(object, Top.id)
  <1> DEFINE id == Top.id
             what == MembersOf(stream)[GetXrefEntry(Top.id).revision + 1].what
             object == [Nothing EXCEPT !.id = id, !.what = what]
  <1>1. status = "success" /\ Top.id \in Nat /\ file \in Files /\ GetXrefEntry(Top.id).revision \in Nat
    BY CallsTyped, PositionTyped DEF CallInv, Parsed
  <1>2. MembersOf(stream)[GetXrefEntry(Top.id).revision + 1] \in Members
    BY <1>1, MemberTyped DEF Holds
  <1>3. what \in Kinds \ {"broken", "stream"}
    BY <1>2 DEF Members
  <1>4. what = KindIn(id)
    BY KindOfMember
  <1> HIDE DEF what, id
  <1>5. object = [id |-> id, what |-> what, at |-> 0, stringsBy |-> 0, streamBy |-> 0]
    BY NothingExcept
  <1> HIDE DEF object
  <1>6. object \in Answers /\ object.what # "stream"
    BY <1>1, <1>3, <1>5 DEF Answers, id
  <1>7. ~IsType(id, "Existing")
    BY DEF IsType, id
  <1>8. IsRight(object, id)
    BY <1>3, <1>4, <1>5, <1>7 DEF IsRight
  <1> QED
    BY <1>6, <1>8 DEF object, what, id

LEMMA StreamInHand ==
    ASSUME CallInv, IsInside, Top.step = "stream" => answer.what = "stream"
    PROVE  /\ InHand \in Answers /\ IsStream(InHand, Position(Top.id))
           /\ IsType(Top.id, "StreamObject")
  <1>1. calls # <<>> /\ Top.step # "called" /\ Top.step # "parameters"
    BY DEF IsInside
  <1>2. Entered(Top) /\ Top.stream \in Answers /\ answer \in Answers
    BY <1>1, Waits, CallsTyped DEF CallInv
  <1>3. IsType(Top.id, "StreamObject")
    BY <1>1, <1>2 DEF Entered
  <1>4. CASE Top.step = "stream"
    <2>1. Wanted(Top) = Position(Top.id)
      BY <1>4 DEF Wanted
    <2> QED
      BY <1>1, <1>2, <1>3, <1>4, <2>1, Waits DEF InHand
  <1>5. CASE Top.step # "stream"
    BY <1>2, <1>3, <1>5 DEF InHand, Entered, IsInside
  <1> QED
    BY <1>4, <1>5

(* A call that asks.                                                       *)
Deepens(step, stream, id) ==
    /\ Len(calls') = Len(calls) + 1
    /\ \A k \in 1 .. Len(calls) - 1 : calls'[k] = calls[k]
    /\ calls'[Len(calls)].id = Top.id
    /\ calls'[Len(calls)].step = step /\ calls'[Len(calls)].stream = stream
    /\ calls'[Len(calls) + 1] = Call(id)
    /\ CallsAreRight' /\ AnswerIsRight' /\ ~HasAnswer'

LEMMA AsksForParametersKeeps ==
    ASSUME CallInv, UNCHANGED <<vars, asked>>, AsksForParameters
    PROVE  Deepens("parameters", ObjectStanding, BodyAt(Position(Top.id)).parameters)
  <1> DEFINE id == BodyAt(Position(Top.id)).parameters
             frame == Asker("parameters", ObjectStanding)
  <1>1. /\ calls # <<>> /\ Stands(Top.id) /\ AskAt("parameters", ObjectStanding, id)
        /\ \A k \in 1 .. Len(calls) - 1 : calls[k].id # Top.id
        /\ Top.id \in 0 .. GetXrefSize - 1 /\ IsType(Top.id, "Existing")
        /\ BodyAt(Position(Top.id)).what = "stream" /\ file.encrypted /\ id # 0
    BY DEF AsksForParameters, CanBeEntered, Called
  <1>2. ObjectStanding \in Answers /\ Top \in Calls /\ file \in Files
    <2>1. status = "success" /\ Top \in Calls /\ Top.id \in Nat
      BY <1>1, CallsTyped DEF CallInv
    <2> QED
      BY <1>1, <2>1, StandingIsRight DEF CallInv, Parsed
  <1>3. id \in Nat
    BY <1>2, BodyTyped
  <1>4. /\ ObjectStanding.id = Top.id /\ ObjectStanding.what = "stream"
        /\ ObjectStanding.at = Position(Top.id) /\ ObjectStanding.stringsBy = Top.id
    BY <1>1 DEF ObjectStanding
  <1>5. frame.id = Top.id /\ frame.step = "parameters" /\ frame.stream = ObjectStanding
    BY <1>2 DEF Calls, Asker
  <1> HIDE DEF id
  <1> HIDE DEF frame
  <1>6. Wanted(frame) = id
    BY <1>4, <1>5 DEF Wanted, id
  <1>7. IsStream(ObjectStanding, Top.id)
    BY <1>1, <1>4 DEF IsStream
  <1>8. Entered(frame)
    BY <1>1, <1>4, <1>5, <1>7 DEF Entered, id
  <1>9. "parameters" \in CallSteps \ {"called"}
    BY DEF CallSteps
  <1>10. Deepens("parameters", ObjectStanding, id)
    <2>1. /\ Len(calls') = Len(calls) + 1
          /\ \A k \in 1 .. Len(calls) - 1 : calls'[k] = calls[k]
          /\ calls'[Len(calls)] = frame /\ calls'[Len(calls) + 1] = Call(id)
          /\ CallsAreRight' /\ AnswerIsRight' /\ ~HasAnswer'
      BY <1>1, <1>2, <1>3, <1>6, <1>8, <1>9, Asking DEF frame
    <2> QED
      BY <1>5, <2>1 DEF Deepens
  <1> QED
    BY <1>10 DEF id

LEMMA AsksForStreamKeeps ==
    ASSUME CallInv, UNCHANGED <<vars, asked>>, AsksForStream
    PROVE  Deepens("stream", Nothing, Position(Top.id))
  <1> DEFINE id == Position(Top.id)
             frame == Asker("stream", Nothing)
  <1>1. /\ calls # <<>> /\ AskAt("stream", Nothing, id)
        /\ \A k \in 1 .. Len(calls) - 1 : calls[k].id # Top.id
        /\ Top.id \in 0 .. GetXrefSize - 1 /\ IsType(Top.id, "StreamObject")
    BY DEF AsksForStream, CanBeEntered, Called
  <1>2. Nothing \in Answers /\ Top \in Calls /\ Top.id \in Nat
    BY <1>1, CallsTyped, NothingTyped DEF CallInv
  <1>3. id \in Nat
    BY <1>2, PositionTyped DEF CallInv
  <1>4. frame.id = Top.id /\ frame.step = "stream" /\ frame.stream = Nothing
    BY <1>2 DEF Calls, Asker
  <1> HIDE DEF frame
  <1>5. Wanted(frame) = id
    BY <1>4 DEF Wanted
  <1>6. Entered(frame)
    BY <1>1, <1>4 DEF Entered
  <1>7. "stream" \in CallSteps \ {"called"}
    BY DEF CallSteps
  <1> HIDE DEF id
  <1>8. Deepens("stream", Nothing, id)
    <2>1. Called => \A k \in 1 .. Len(calls) - 1 : calls[k].id # Top.id
      BY <1>1, <1>2
    <2>2. /\ Len(calls') = Len(calls) + 1
          /\ \A k \in 1 .. Len(calls) - 1 : calls'[k] = calls[k]
          /\ calls'[Len(calls)] = frame /\ calls'[Len(calls) + 1] = Call(id)
          /\ CallsAreRight' /\ AnswerIsRight' /\ ~HasAnswer'
      BY <1>1, <1>2, <1>3, <1>5, <1>6, <1>7, <2>1, Asking DEF frame
    <2> QED
      BY <1>4, <2>2 DEF Deepens
  <1> QED
    BY <1>8 DEF id

LEMMA AsksForLengthKeeps ==
    ASSUME CallInv, UNCHANGED <<vars, asked>>, AsksForLength
    PROVE  Deepens("length", answer, BodyAt(answer.at).length)
  <1> DEFINE id == BodyAt(answer.at).length
             frame == Asker("length", answer)
  <1>1. /\ calls # <<>> /\ AskAt("length", answer, id) /\ Top.step = "stream"
        /\ IsStream(answer, Position(Top.id)) /\ Len(MembersOf(answer)) <= GetXrefSize
        /\ id # 0
    BY DEF AsksForLength
  <1>2. answer \in Answers /\ Top \in Calls /\ file \in Files /\ Entered(Top) /\ ~Called
    BY <1>1, CallsTyped, Waits DEF CallInv, Called
  <1>3. id \in Nat
    BY <1>2, BodyTyped
  <1>4. frame.id = Top.id /\ frame.step = "length" /\ frame.stream = answer
    BY <1>2 DEF Calls, Asker
  <1> HIDE DEF frame
  <1>5. Wanted(frame) = id
    BY <1>4 DEF Wanted
  <1>6. Entered(frame)
    BY <1>1, <1>2, <1>4 DEF Entered
  <1>7. "length" \in CallSteps \ {"called"}
    BY DEF CallSteps
  <1> HIDE DEF id
  <1>8. Deepens("length", answer, id)
    <2>1. Called => \A k \in 1 .. Len(calls) - 1 : calls[k].id # Top.id
      BY <1>1, <1>2
    <2>2. /\ Len(calls') = Len(calls) + 1
          /\ \A k \in 1 .. Len(calls) - 1 : calls'[k] = calls[k]
          /\ calls'[Len(calls)] = frame /\ calls'[Len(calls) + 1] = Call(id)
          /\ CallsAreRight' /\ AnswerIsRight' /\ ~HasAnswer'
      BY <1>1, <1>2, <1>3, <1>5, <1>6, <1>7, <2>1, Asking DEF frame
    <2> QED
      BY <1>4, <2>2 DEF Deepens
  <1> QED
    BY <1>8 DEF id

LEMMA AsksAgainKeeps ==
    ASSUME CallInv, UNCHANGED <<vars, asked>>, AsksAgain
    PROVE  Deepens("reopened", Top.stream, BodyAt(Top.stream.at).length)
  <1> DEFINE id == BodyAt(Top.stream.at).length
             frame == Asker("reopened", Top.stream)
  <1>1. /\ calls # <<>> /\ AskAt("reopened", Top.stream, id) /\ Top.step = "length"
        /\ Holds(Top.stream, Top.id)
    BY DEF AsksAgain
  <1>2. Top.stream \in Answers /\ Top \in Calls /\ file \in Files /\ Entered(Top) /\ ~Called
    BY <1>1, CallsTyped, Waits DEF CallInv, Called
  <1>3. id \in Nat
    BY <1>2, BodyTyped
  <1>4. frame.id = Top.id /\ frame.step = "reopened" /\ frame.stream = Top.stream
    BY <1>2 DEF Calls, Asker
  <1> HIDE DEF frame
  <1>5. Wanted(frame) = id
    BY <1>4 DEF Wanted
  <1>6. Entered(frame)
    BY <1>1, <1>2, <1>4 DEF Entered
  <1>7. "reopened" \in CallSteps \ {"called"}
    BY DEF CallSteps
  <1> HIDE DEF id
  <1>8. Deepens("reopened", Top.stream, id)
    <2>1. Called => \A k \in 1 .. Len(calls) - 1 : calls[k].id # Top.id
      BY <1>1, <1>2
    <2>2. /\ Len(calls') = Len(calls) + 1
          /\ \A k \in 1 .. Len(calls) - 1 : calls'[k] = calls[k]
          /\ calls'[Len(calls)] = frame /\ calls'[Len(calls) + 1] = Call(id)
          /\ CallsAreRight' /\ AnswerIsRight' /\ ~HasAnswer'
      BY <1>1, <1>2, <1>3, <1>5, <1>6, <1>7, <2>1, Asking DEF frame
    <2> QED
      BY <1>4, <2>2 DEF Deepens
  <1> QED
    BY <1>8 DEF id

(* A call that returns.                                                    *)
Comes ==
    /\ calls # <<>> /\ Len(calls') = Len(calls) - 1 /\ Len(calls) \in Nat \ {0}
    /\ \A k \in 1 .. Len(calls) - 1 : calls'[k] = calls[k]
    /\ CallsAreRight' /\ AnswerIsRight' /\ HasAnswer'
    /\ WantedAt(Len(calls))' = Top.id

LEMMA ReturnsNothing ==
    ASSUME CallInv, calls # <<>>, UNCHANGED <<vars, asked>>, Return(Nothing)
    PROVE  Comes /\ answer' = Nothing
  BY NothingTyped, Returning DEF Comes

LEMMA GivesStandingKeeps ==
    ASSUME CallInv, UNCHANGED <<vars, asked>>, GivesStanding
    PROVE  Comes
  <1> DEFINE by == IF BodyAt(Position(Top.id)).what = "stream" /\ file.encrypted THEN Top.id ELSE 0
             object == [ObjectStanding EXCEPT !.streamBy = by]
  <1>1. calls # <<>> /\ Stands(Top.id) /\ Return(object)
    BY DEF GivesStanding, CanBeEntered, Called
  <1>2. by \in Nat /\ (~file.encrypted => by = 0)
        /\ (file.encrypted /\ BodyAt(Position(Top.id)).what = "stream" => by = Top.id)
    BY <1>1, CallsTyped DEF CallInv
  <1> HIDE DEF by
  <1>3. /\ object \in Answers /\ (object.what = "stream" => IsStream(object, Top.id))
        /\ IsRight(object, Top.id)
    BY <1>1, <1>2, StandingIsRight
  <1> HIDE DEF object
  <1> QED
    BY <1>1, <1>3, Returning DEF Comes

LEMMA EncryptedIsRight ==
    ASSUME CallInv, calls # <<>>, Top.step = "parameters"
    PROVE  LET object == [Top.stream EXCEPT !.streamBy = CurrentKey(keys)] IN
           /\ object \in Answers /\ object.id = Top.id /\ object.what = "stream"
           /\ IsStream(object, Top.id) /\ IsRight(object, Top.id)
           /\ object.streamBy = CurrentKey(keys) /\ object.at = Top.stream.at
  <1> DEFINE by == CurrentKey(keys)
             object == [Top.stream EXCEPT !.streamBy = by]
  <1>1. Entered(Top) /\ Top.stream \in Answers /\ status = "success"
    BY Waits, CallsTyped DEF CallInv
  <1>2. /\ IsStream(Top.stream, Top.id) /\ Top.stream.stringsBy = Top.id
        /\ file.encrypted /\ BodyAt(Top.stream.at).parameters # 0
        /\ IsType(Top.id, "Existing")
    BY <1>1 DEF Entered
  <1>3. by \in Nat
    <2>1. keys \in Seq(Nat)
      BY DEF CallInv, SharedIsRight
    <2>2. keys # <<>> => Last(keys) \in Nat
      BY <2>1, FrontAndLast
    <2> QED
      BY <2>2 DEF CurrentKey
  <1> HIDE DEF by
  <1>4. /\ object \in Answers /\ object.id = Top.stream.id /\ object.what = Top.stream.what
        /\ object.at = Top.stream.at /\ object.stringsBy = Top.stream.stringsBy
        /\ object.streamBy = by
    BY <1>1, <1>3 DEF Answers
  <1> HIDE DEF object
  <1>5. IsStream(object, Top.id) /\ object.id = Top.id /\ object.what = "stream"
    BY <1>2, <1>4 DEF IsStream
  <1>6. KindIn(Top.id) = "stream"
    BY <1>2, KindOfStanding DEF IsStream
  <1>7. IsRight(object, Top.id)
    BY <1>2, <1>4, <1>5, <1>6 DEF IsRight
  <1> QED
    BY <1>4, <1>5, <1>7 DEF object, by

LEMMA GivesEncryptedKeeps ==
    ASSUME CallInv, UNCHANGED <<vars, asked>>, GivesEncrypted
    PROVE  Comes
  <1> DEFINE object == [Top.stream EXCEPT !.streamBy = CurrentKey(keys)]
  <1>1. calls # <<>> /\ Top.step = "parameters" /\ Return(object)
    BY DEF GivesEncrypted
  <1>2. object \in Answers /\ IsStream(object, Top.id) /\ IsRight(object, Top.id)
    BY <1>1, EncryptedIsRight
  <1> HIDE DEF object
  <1> QED
    BY <1>1, <1>2, Returning DEF Comes

LEMMA GivesAnythingKeeps ==
    ASSUME CallInv, UNCHANGED <<vars, asked>>, GivesAnything
    PROVE  Comes
  <1> DEFINE integer == [Nothing EXCEPT !.what = "integer"]
  <1>1. PICK object \in {Nothing, integer} : Return(object)
    BY DEF GivesAnything
  <1>2. integer \in Answers /\ integer.what # "stream"
    BY DEF Nothing, Answers, Kinds
  <1> HIDE DEF integer
  <1>3. object \in Answers /\ object.what # "stream"
    BY <1>2, NothingTyped
  <1>4. undefined' /\ calls # <<>>
    BY DEF GivesAnything, Called
  <1> QED
    BY <1>1, <1>3, <1>4, Returning DEF Comes

LEMMA GivesMemberKeeps ==
    ASSUME CallInv, UNCHANGED <<vars, asked>>, GivesMember
    PROVE  Comes
  <1> DEFINE object == [Nothing EXCEPT !.id = Top.id, !.what = MemberInHand.what]
  <1>1. calls # <<>> /\ IsInside /\ IsOpened /\ IsHeld /\ Return(object)
    BY DEF GivesMember, IsInside
  <1>2. /\ InHand \in Answers /\ IsStream(InHand, Position(Top.id)) /\ IsType(Top.id, "StreamObject")
    BY <1>1, StreamInHand DEF IsOpened
  <1>3. object \in Answers /\ object.what # "stream" /\ IsRight(object, Top.id)
    BY <1>1, <1>2, MemberIsRight DEF IsHeld, MemberInHand
  <1> HIDE DEF object
  <1> QED
    BY <1>1, <1>3, Returning DEF Comes

(* What a step of a call leaves.                                           *)
LEMMA CallInvStep ==
    ASSUME CallInv, CallStep
    PROVE  CallInv'
  <1>1. Effects /\ UNCHANGED <<vars, asked, asks>> /\ HeadersAreOfThisFile'
    BY EffectOfStep
  <1>2. Parsed'
    BY <1>1, ParsedUnchanged DEF CallInv
  <1>3. reading \in {"file", "closed"}
    BY DEF CallInv, SharedIsRight
  <1>4. CASE IsRefused
    <2>1. /\ calls # <<>> /\ Top.step # "reopened" /\ Return(Nothing)
          /\ UNCHANGED <<reading, keys, undefined>>
      BY <1>4 DEF IsRefused, Called
    <2>2. Comes
      BY <1>1, <2>1, ReturnsNothing
    <2>3. SharedIsRight'
      BY <1>1, <1>3, <2>1, <2>2, ReopenedStays, SharedStays DEF Comes
    <2> QED
      BY <1>2, <2>2, <2>3 DEF Comes, CallInv
  <1>5. CASE DoesNotStand
    <2>1. /\ calls # <<>> /\ Top.step # "reopened" /\ Return(Nothing)
          /\ UNCHANGED <<reading, undefined>> /\ keys' \in {keys, Started(Top.id)}
      BY <1>5 DEF DoesNotStand, CanBeEntered, Called
    <2>2. Comes
      BY <1>1, <2>1, ReturnsNothing
    <2>3. SharedIsRight'
      BY <1>1, <1>3, <2>1, <2>2, ReopenedStays, SharedStays DEF Comes
    <2> QED
      BY <1>2, <2>2, <2>3 DEF Comes, CallInv
  <1>6. CASE AsksForParameters
    <2>1. /\ calls # <<>> /\ Top.step # "reopened" /\ file.encrypted
          /\ UNCHANGED <<reading, undefined>> /\ keys' = Append(keys, Top.id)
      BY <1>6 DEF AsksForParameters, CanBeEntered, Called
    <2>2. /\ Len(calls') = Len(calls) + 1 /\ CallsAreRight' /\ AnswerIsRight'
          /\ \A k \in 1 .. Len(calls) - 1 : calls'[k] = calls[k]
      BY <1>1, <1>6, AsksForParametersKeeps DEF Deepens
    <2>3. keys' = Started(Top.id)
      BY <2>1 DEF Started
    <2>4. SharedIsRight'
      BY <1>1, <1>3, <2>1, <2>2, <2>3, ReopenedStays, SharedStays
    <2> QED
      BY <1>2, <2>2, <2>4 DEF CallInv
  <1>7. CASE GivesStanding
    <2>1. calls # <<>> /\ Top.step # "reopened" /\ UNCHANGED <<reading, keys, undefined>>
      BY <1>7 DEF GivesStanding, CanBeEntered, Called
    <2>2. Comes
      BY <1>1, <1>7, GivesStandingKeeps
    <2>3. SharedIsRight'
      BY <1>1, <1>3, <2>1, <2>2, ReopenedStays, SharedStays DEF Comes
    <2> QED
      BY <1>2, <2>2, <2>3 DEF Comes, CallInv
  <1>8. CASE GivesEncrypted
    <2>1. /\ calls # <<>> /\ Top.step = "parameters" /\ UNCHANGED <<reading, undefined>>
          /\ keys' = Front(keys)
      BY <1>8 DEF GivesEncrypted
    <2>2. Comes
      BY <1>1, <1>8, GivesEncryptedKeeps
    <2>3. file.encrypted
      BY <2>1, Waits DEF Entered
    <2>4. SharedIsRight'
      BY <1>1, <1>3, <2>1, <2>2, <2>3, ReopenedStays, SharedStays DEF Comes
    <2> QED
      BY <1>2, <2>2, <2>4 DEF Comes, CallInv
  <1>9. CASE GivesAnything
    <2>1. /\ calls # <<>> /\ Top.step # "reopened" /\ UNCHANGED <<reading, keys>>
          /\ reading = "closed" /\ undefined' = TRUE
      BY <1>9 DEF GivesAnything, Called
    <2>2. Comes
      BY <1>1, <1>9, GivesAnythingKeeps
    <2>3. SharedIsRight'
      BY <1>1, <1>3, <2>1, <2>2, ReopenedStays, SharedStays DEF Comes
    <2> QED
      BY <1>2, <2>2, <2>3 DEF Comes, CallInv
  <1>10. CASE AsksForStream
    <2>1. calls # <<>> /\ Top.step # "reopened" /\ UNCHANGED <<reading, keys, undefined>>
      BY <1>10 DEF AsksForStream, CanBeEntered, Called
    <2>2. /\ Len(calls') = Len(calls) + 1 /\ CallsAreRight' /\ AnswerIsRight'
          /\ \A k \in 1 .. Len(calls) - 1 : calls'[k] = calls[k]
      BY <1>1, <1>10, AsksForStreamKeeps DEF Deepens
    <2>3. SharedIsRight'
      BY <1>1, <1>3, <2>1, <2>2, ReopenedStays, SharedStays
    <2> QED
      BY <1>2, <2>2, <2>3 DEF CallInv
  <1>11. CASE AsksForLength
    <2>1. calls # <<>> /\ Top.step # "reopened" /\ UNCHANGED <<reading, keys, undefined>>
      BY <1>11 DEF AsksForLength
    <2>2. /\ Len(calls') = Len(calls) + 1 /\ CallsAreRight' /\ AnswerIsRight'
          /\ \A k \in 1 .. Len(calls) - 1 : calls'[k] = calls[k]
      BY <1>1, <1>11, AsksForLengthKeeps DEF Deepens
    <2>3. SharedIsRight'
      BY <1>1, <1>3, <2>1, <2>2, ReopenedStays, SharedStays
    <2> QED
      BY <1>2, <2>2, <2>3 DEF CallInv
  <1>12. CASE AsksAgain
    <2>1. calls # <<>> /\ reading' = "closed" /\ UNCHANGED <<keys, undefined>>
      BY <1>12 DEF AsksAgain
    <2>2. /\ Len(calls') = Len(calls) + 1 /\ CallsAreRight' /\ AnswerIsRight'
          /\ calls'[Len(calls)].step = "reopened"
      BY <1>1, <1>12, AsksAgainKeeps DEF Deepens
    <2>3. Len(calls) \in 1 .. Len(calls')
      BY <2>1, <2>2, CallsTyped DEF CallInv
    <2>4. SharedIsRight'
      BY <1>1, <1>3, <2>1, <2>2, <2>3, SharedStays
    <2> QED
      BY <1>2, <2>2, <2>4 DEF CallInv
  <1>13. CASE IsNotHeld
    <2>1. /\ calls # <<>> /\ Return(Nothing) /\ reading' = "file"
          /\ keys' \in {keys, Started(Top.id)} /\ UNCHANGED undefined
      BY <1>13 DEF IsNotHeld, IsInside
    <2>2. Comes
      BY <1>1, <2>1, ReturnsNothing
    <2>3. SharedIsRight'
      BY <1>1, <2>1, SharedStays
    <2> QED
      BY <1>2, <2>2, <2>3 DEF Comes, CallInv
  <1>14. CASE GivesMember
    <2>1. calls # <<>> /\ reading' = "file" /\ UNCHANGED <<keys, undefined>>
      BY <1>14 DEF GivesMember, IsInside
    <2>2. Comes
      BY <1>1, <1>14, GivesMemberKeeps
    <2>3. SharedIsRight'
      BY <1>1, <2>1, SharedStays
    <2> QED
      BY <1>2, <2>2, <2>3 DEF Comes, CallInv
  <1> QED
    BY <1>1, <1>4, <1>5, <1>6, <1>7, <1>8, <1>9, <1>10, <1>11, <1>12, <1>13, <1>14 DEF Effects

LEMMA CallInvInit ==
    ObjectsInit => CallInv
  <1> SUFFICES ASSUME ObjectsInit PROVE CallInv
    OBVIOUS
  <1>1. /\ status = "idle" /\ calls = <<>> /\ reading = "file" /\ headers = <<>> /\ keys = <<>>
        /\ answer = Nothing /\ asked = 0 /\ undefined = FALSE
    BY DEF ObjectsInit, Init
  <1>2. Parsed
    BY ParsedInit DEF ObjectsInit
  <1>3. <<>> \in Seq(Calls) /\ <<>> \in Seq(Nat) /\ Len(<<>>) = 0 /\ DOMAIN <<>> = {}
    BY EmptySeq
  <1>4. CallsAreRight
    BY <1>1, <1>3 DEF CallsAreRight, OnlyTopIsCalled
  <1>5. AnswerIsRight
    BY <1>1, NothingTyped DEF AnswerIsRight, HasAnswer
  <1>6. SharedIsRight
    BY <1>1, <1>3 DEF SharedIsRight, HeadersAreOfThisFile, ReadsWhatItOwns
  <1> QED
    BY <1>2, <1>4, <1>5, <1>6 DEF CallInv

LEMMA CallInvStart ==
    ASSUME CallInv, NEW f \in Files, Start(f)
    PROVE  CallInv'
  <1>1. /\ calls = <<>> /\ calls' = <<>> /\ reading' = "file" /\ headers' = <<>> /\ keys' = <<>>
        /\ answer' = Nothing /\ asked' = 0 /\ undefined' = FALSE
    <2>1. undefined \in BOOLEAN
      BY DEF CallInv, SharedIsRight
    <2> QED
      BY <2>1 DEF Start, ResetParser
  <1>2. Parsed'
    BY ParsedStart DEF CallInv, Start
  <1>3. <<>> \in Seq(Calls) /\ <<>> \in Seq(Nat) /\ Len(<<>>) = 0 /\ DOMAIN <<>> = {}
    BY EmptySeq
  <1>4. CallsAreRight'
    BY <1>1, <1>3 DEF CallsAreRight, OnlyTopIsCalled
  <1>5. AnswerIsRight'
    BY <1>1, NothingTyped DEF AnswerIsRight, HasAnswer, IsRight
  <1>6. SharedIsRight'
    BY <1>1, <1>3 DEF SharedIsRight, HeadersAreOfThisFile, ReadsWhatItOwns
  <1> QED
    BY <1>2, <1>4, <1>5, <1>6 DEF CallInv

LEMMA CallInvParseStep ==
    ASSUME CallInv, ParseStep
    PROVE  CallInv'
  <1>1. status = "parsing" /\ UNCHANGED objectVars
    BY DEF ParseStep, Step, ParsePreviousXrefs, EndOfChain, MergeXrefWithMainXref, ReadNewestSection
  <1>2. /\ calls = <<>> /\ answer = Nothing /\ asked = 0 /\ reading = "file"
        /\ keys = <<>> /\ headers = <<>> /\ undefined = FALSE
    <2>1. calls = <<>>
      BY <1>1 DEF CallInv, CallsAreRight
    <2>2. reading = "file"
      <3>1. Len(calls) = 0
        BY <2>1, EmptySeq
      <3> QED
        BY <3>1 DEF CallInv, SharedIsRight
    <2> QED
      BY <1>1, <2>1, <2>2 DEF CallInv, AnswerIsRight, SharedIsRight
  <1>3. /\ calls' = <<>> /\ reading' = "file" /\ headers' = <<>> /\ keys' = <<>>
        /\ answer' = Nothing /\ asked' = 0 /\ undefined' = FALSE
    BY <1>1, <1>2 DEF objectVars
  <1>4. Parsed'
    BY ParsedStep DEF CallInv, ParseStep
  <1>5. <<>> \in Seq(Calls) /\ <<>> \in Seq(Nat) /\ Len(<<>>) = 0 /\ DOMAIN <<>> = {}
    BY EmptySeq
  <1>6. CallsAreRight'
    BY <1>3, <1>5 DEF CallsAreRight, OnlyTopIsCalled
  <1>7. AnswerIsRight'
    BY <1>3, NothingTyped DEF AnswerIsRight, HasAnswer, IsRight
  <1>8. SharedIsRight'
    BY <1>3, <1>5 DEF SharedIsRight, HeadersAreOfThisFile, ReadsWhatItOwns
  <1> QED
    BY <1>4, <1>6, <1>7, <1>8 DEF CallInv

LEMMA CallInvAsk ==
    ASSUME CallInv, NEW id \in 0 .. MaxIDs, Ask(id)
    PROVE  /\ CallInv' /\ calls' = <<Call(id)>> /\ Len(calls') = 1 /\ ~HasAnswer'
           /\ calls'[1] = Call(id) /\ UNCHANGED <<vars, reading, headers, keys, undefined>>
           /\ calls = <<>> /\ status = "success" /\ answer' = Nothing /\ asked' = id
  <1>1. /\ calls = <<>> /\ calls' = <<Call(id)>> /\ answer' = Nothing /\ asked' = id
        /\ status = "success"
        /\ UNCHANGED <<vars, reading, headers, keys, undefined>>
    BY DEF Ask
  <1>2. Parsed' /\ status' = status
    BY <1>1, ParsedUnchanged DEF CallInv, vars
  <1>3. id \in Nat
    BY XrefParserAssumption
  <1>4. Call(id) \in Calls /\ Call(id).step = "called" /\ Call(id).id = id
    BY <1>3, NothingTyped DEF Call, Calls, CallSteps
  <1>5. calls' \in Seq(Calls) /\ Len(calls') = 1 /\ calls'[1] = Call(id) /\ calls' # <<>>
    BY <1>1, <1>4, EmptySeq
  <1>6. ~HasAnswer'
    BY <1>4, <1>5 DEF HasAnswer, IsEnteredAt
  <1>7. CallsAreRight'
    BY <1>1, <1>2, <1>4, <1>5 DEF CallsAreRight, OnlyTopIsCalled, IsEnteredAt, WantedAt
  <1>8. AnswerIsRight'
    BY <1>1, <1>2, <1>3, <1>6, NothingTyped DEF AnswerIsRight
  <1>9. SharedIsRight'
    <2>1. reading' = "file"
      <3>1. Len(calls) = 0
        BY <1>1, EmptySeq
      <3> QED
        BY <1>1, <3>1 DEF CallInv, SharedIsRight
    <2>2. HeadersAreOfThisFile'
      BY <1>1, Frozen DEF CallInv, SharedIsRight, HeadersAreOfThisFile
    <2>3. ReadsWhatItOwns' /\ UNCHANGED file
      BY <1>1 DEF CallInv, SharedIsRight, ReadsWhatItOwns, vars
    <2> QED
      BY <1>1, <1>2, <2>1, <2>2, <2>3 DEF CallInv, SharedIsRight
  <1> QED
    BY <1>1, <1>2, <1>5, <1>6, <1>7, <1>8, <1>9 DEF CallInv

LEMMA CallInvStutter ==
    ASSUME CallInv, UNCHANGED allVars
    PROVE  CallInv'
  <1>1. UNCHANGED vars /\ UNCHANGED objectVars
    BY DEF allVars
  <1>2. Parsed' /\ UNCHANGED <<file, status>>
    BY <1>1, ParsedUnchanged DEF CallInv, vars
  <1>3. UNCHANGED <<calls, reading, headers, keys, answer, asked, undefined>>
    BY <1>1 DEF objectVars
  <1>4. CallsAreRight'
    BY <1>1, <1>2, <1>3, Frozen DEF CallInv, CallsAreRight, OnlyTopIsCalled, IsEnteredAt, WantedAt
  <1>5. AnswerIsRight'
    BY <1>1, <1>2, <1>3, Frozen DEF CallInv, AnswerIsRight, HasAnswer, IsEnteredAt, WantedAt
  <1>6. SharedIsRight'
    BY <1>1, <1>2, <1>3, Frozen DEF CallInv, SharedIsRight, HeadersAreOfThisFile, ReadsWhatItOwns
  <1> QED
    BY <1>2, <1>4, <1>5, <1>6 DEF CallInv

LEMMA CallInvNext ==
    ASSUME CallInv, [ObjectsNext]_allVars
    PROVE  CallInv'
  BY CallInvStart, CallInvParseStep, CallInvAsk, CallInvStep, CallInvStutter DEF ObjectsNext

(* Parsing, calls and what they share are right, whatever is asked.        *)
THEOREM CallsRight ==
    ObjectsSpec => []CallInv
  <1>1. CallInv /\ [ObjectsNext]_allVars => CallInv'
    BY CallInvNext
  <1> QED
    BY <1>1, CallInvInit, PTL DEF ObjectsSpec

(* Between calls nothing is left of the calls before: the parser of        *)
(* objects reads the file, also after a call that broke off in an object   *)
(* stream, and the headers it has cached are those of this file's streams, *)
(* whatever was parsed before.                                             *)
THEOREM ParserIsAlwaysAtHome ==
    ObjectsSpec => []ParserIsAtHome
  <1>1. CallInv => ParserIsAtHome
    <2> SUFFICES ASSUME CallInv PROVE ParserIsAtHome
      OBVIOUS
    <2>1. TypeOK
      BY ParsedIsTyped DEF CallInv
    <2>2. RestsOnTheFile
      <3> SUFFICES ASSUME calls = <<>> PROVE reading = "file"
        BY DEF RestsOnTheFile
      <3>1. Len(calls) = 0
        BY EmptySeq
      <3> QED
        BY <3>1 DEF CallInv, SharedIsRight
    <2> QED
      BY <2>1, <2>2 DEF ParserIsAtHome, CallInv, SharedIsRight
  <1> QED
    BY <1>1, CallsRight, PTL

-----------------------------------------------------------------------------
(***************************************************************************)
(* The rounds of what is found.                                            *)
(***************************************************************************)
RoundAfter(strict, found) ==
    {id \in 0 .. MaxIDs : IsFound(id, found) /\ (strict => HasParametersIn(id, found))}

AreRounds(strict, f) ==
    f = [n \in 0 .. GetXrefSize |-> IF n = 0 THEN {} ELSE RoundAfter(strict, f[n - 1])]

LEMMA RoundsExist ==
    ASSUME Parsed, NEW strict \in BOOLEAN
    PROVE  \E f : AreRounds(strict, f)
  <1> DEFINE V == SUBSET (0 .. MaxIDs)
             n == GetXrefSize
             step == [p \in (1 .. n) \X V |-> RoundAfter(strict, p[2])]
  <1>1. n \in Nat
    BY XrefTyped
  <1>2. {} \in V
    OBVIOUS
  <1>3. \A found : RoundAfter(strict, found) \in V
    BY DEF RoundAfter
  <1>4. step \in [(1 .. n) \X V -> V]
    BY <1>3
  <1> HIDE DEF V, n, step
  <1>5. PICK f : Steps(f, V, {}, n, step)
    BY <1>1, <1>2, <1>4, Recursion
  <1>6. f \in [0 .. n -> V] /\ f[0] = {}
    BY <1>5 DEF Steps
  <1>7. \A k \in 1 .. n : f[k] = RoundAfter(strict, f[k - 1])
    <2> SUFFICES ASSUME NEW k \in 1 .. n PROVE f[k] = RoundAfter(strict, f[k - 1])
      OBVIOUS
    <2>1. f[k - 1] \in V
      BY <1>1, <1>6
    <2>2. <<k, f[k - 1]>> \in (1 .. n) \X V
      BY <2>1
    <2> QED
      BY <1>5, <2>2 DEF Steps, step
  <1>8. \A k \in 0 .. n : k = 0 \/ k \in 1 .. n
    BY <1>1
  <1>9. f = [k \in 0 .. n |-> IF k = 0 THEN {} ELSE RoundAfter(strict, f[k - 1])]
    BY <1>6, <1>7, <1>8
  <1>10. AreRounds(strict, f)
    BY <1>9 DEF AreRounds, n
  <1> QED
    BY <1>10

LEMMA RoundsAre ==
    ASSUME Parsed, NEW strict \in BOOLEAN
    PROVE  /\ AreRounds(strict, Rounds(strict))
           /\ Rounds(strict)[0] = {}
           /\ \A n \in 1 .. GetXrefSize : Rounds(strict)[n] = RoundAfter(strict, Rounds(strict)[n - 1])
  <1>1. \E f : AreRounds(strict, f)
    BY RoundsExist
  <1>2. AreRounds(strict, Rounds(strict))
    BY <1>1 DEF AreRounds, Rounds, RoundAfter
  <1>3. GetXrefSize \in Nat
    BY XrefTyped
  <1>4. PICK f : f = Rounds(strict)
    OBVIOUS
  <1>5. f = [n \in 0 .. GetXrefSize |-> IF n = 0 THEN {} ELSE RoundAfter(strict, f[n - 1])]
    BY <1>2, <1>4 DEF AreRounds
  <1>6. f[0] = {}
    BY <1>3, <1>5
  <1>7. \A n \in 1 .. GetXrefSize : f[n] = RoundAfter(strict, f[n - 1])
    <2> SUFFICES ASSUME NEW n \in 1 .. GetXrefSize
                 PROVE  f[n] = RoundAfter(strict, f[n - 1])
      OBVIOUS
    <2>1. n \in 0 .. GetXrefSize /\ n # 0
      BY <1>3
    <2> QED
      BY <1>5, <2>1
  <1> QED
    BY <1>2, <1>4, <1>6, <1>7

LEMMA RoundsAreUnique ==
    ASSUME Parsed, NEW strict \in BOOLEAN, NEW f, AreRounds(strict, f), NEW g, AreRounds(strict, g)
    PROVE  f = g
  <1>1. GetXrefSize \in Nat
    BY XrefTyped
  <1> DEFINE S == {n \in 0 .. GetXrefSize : f[n] = g[n]}
  <1>2. 0 \in S
    BY <1>1 DEF AreRounds
  <1>3. ASSUME NEW k \in 0 .. GetXrefSize - 1, k \in S
        PROVE  k + 1 \in S
    <2>1. k + 1 \in 0 .. GetXrefSize /\ k + 1 # 0 /\ (k + 1) - 1 = k
      BY <1>1
    <2>2. f[k + 1] = RoundAfter(strict, f[k]) /\ g[k + 1] = RoundAfter(strict, g[k])
      BY <2>1 DEF AreRounds
    <2> QED
      BY <1>3, <2>1, <2>2
  <1> HIDE DEF S
  <1>4. \A k \in 0 .. GetXrefSize : k \in S
    BY <1>1, <1>2, <1>3, InductionUpTo
  <1>5. \A k \in 0 .. GetXrefSize : f[k] = g[k]
    BY <1>4 DEF S
  <1>6. f = [n \in 0 .. GetXrefSize |-> f[n]] /\ g = [n \in 0 .. GetXrefSize |-> g[n]]
    BY DEF AreRounds
  <1> QED
    BY <1>5, <1>6

LEMMA RoundsStay ==
    ASSUME Parsed, UNCHANGED vars, NEW strict \in BOOLEAN
    PROVE  Rounds(strict)' = Rounds(strict)
  <1>1. \A id, found : IsFound(id, found)' <=> IsFound(id, found)
    BY Frozen DEF IsFound
  <1>2. \A id, found : HasParametersIn(id, found)' <=> HasParametersIn(id, found)
    BY Frozen DEF HasParametersIn
  <1>3. \A found : RoundAfter(strict, found)' = RoundAfter(strict, found)
    BY <1>1, <1>2 DEF RoundAfter
  <1>4. \A f : AreRounds(strict, f)' <=> AreRounds(strict, f)
    BY <1>3, Frozen DEF AreRounds
  <1>5. PICK f : AreRounds(strict, f)
    BY RoundsExist
  <1>6. AreRounds(strict, f)'
    BY <1>4, <1>5
  <1>7. PICK g : g = Rounds(strict)'
    OBVIOUS
  <1>8. AreRounds(strict, g)'
    BY <1>6, <1>7 DEF AreRounds, Rounds, RoundAfter
  <1>9. AreRounds(strict, g)
    BY <1>4, <1>8
  <1> QED
    BY <1>7, <1>9, RoundsAre, RoundsAreUnique

LEMMA InRound ==
    ASSUME Parsed, NEW strict \in BOOLEAN, NEW n \in 1 .. GetXrefSize, NEW id
    PROVE  id \in Rounds(strict)[n] <=>
              /\ id \in 0 .. MaxIDs
              /\ IsFound(id, Rounds(strict)[n - 1])
              /\ strict => HasParametersIn(id, Rounds(strict)[n - 1])
  BY RoundsAre DEF RoundAfter

LEMMA Pigeonhole ==
    ASSUME NEW n \in Nat, NEW m \in Nat, NEW f,
           \A k \in 1 .. n : f[k] \in 0 .. m - 1,
           \A j, k \in 1 .. n : j # k => f[j] # f[k]
    PROVE  n <= m
  <1> DEFINE g == [k \in 1 .. n |-> f[k]]
  <1>1. g \in [1 .. n -> 0 .. m - 1]
    OBVIOUS
  <1>2. \A j, k \in DOMAIN g : g[j] = g[k] => j = k
    OBVIOUS
  <1> HIDE DEF g
  <1>3. g \in Injection(1 .. n, 0 .. m - 1)
    BY <1>1, <1>2 DEF Injection, IsInjective
  <1>4. IsFiniteSet(0 .. m - 1) /\ Cardinality(0 .. m - 1) = m
    <2>1. 0 \in Int /\ m - 1 \in Int
      OBVIOUS
    <2>2. /\ IsFiniteSet(0 .. m - 1)
          /\ Cardinality(0 .. m - 1) = IF 0 > m - 1 THEN 0 ELSE (m - 1) - 0 + 1
      BY <2>1, FS_Interval
    <2> QED
      BY <2>2
  <1>5. Cardinality(1 .. n) = n
    <2>1. Cardinality(1 .. n) = IF 1 > n THEN 0 ELSE n - 1 + 1
      BY FS_Interval
    <2> QED
      BY <2>1
  <1>6. Cardinality(1 .. n) <= Cardinality(0 .. m - 1)
    BY <1>3, <1>4, FS_Injection
  <1> QED
    BY <1>4, <1>5, <1>6

(* As many calls are entered as there are entries, at most; and fewer when *)
(* another object can be entered.                                          *)
LEMMA EnteredAreFew ==
    ASSUME CallInv, calls # <<>>,
           NEW n, n \in 0 .. Len(calls), \A k \in 1 .. n : k = Len(calls) \/ IsEnteredAt(k),
           \A k \in 1 .. n : calls[k].id \in 0 .. GetXrefSize - 1,
           \A k \in 1 .. Len(calls) - 1 : calls[k].id # Top.id
    PROVE  n <= GetXrefSize
  <1> DEFINE f == [k \in 1 .. n |-> calls[k].id]
  <1>1. n \in Nat /\ GetXrefSize \in Nat /\ Len(calls) \in Nat \ {0} /\ Top = calls[Len(calls)]
    BY CallsTyped, XrefTyped DEF CallInv
  <1>2. \A k \in 1 .. n : f[k] \in 0 .. GetXrefSize - 1
    OBVIOUS
  <1>3. \A j, k \in 1 .. n : j # k => f[j] # f[k]
    <2> SUFFICES ASSUME NEW j \in 1 .. n, NEW k \in 1 .. n, j # k
                 PROVE  calls[j].id # calls[k].id
      OBVIOUS
    <2>1. CASE IsEnteredAt(j) /\ IsEnteredAt(k)
      <3>1. j \in 1 .. Len(calls) /\ k \in 1 .. Len(calls)
        BY <1>1
      <3> QED
        BY <2>1, <3>1 DEF CallInv, CallsAreRight
    <2>2. CASE j = Len(calls)
      <3>1. k \in 1 .. Len(calls) - 1
        BY <1>1, <2>2
      <3> QED
        BY <1>1, <2>2, <3>1
    <2>3. CASE k = Len(calls)
      <3>1. j \in 1 .. Len(calls) - 1
        BY <1>1, <2>3
      <3> QED
        BY <1>1, <2>3, <3>1
    <2> QED
      BY <2>1, <2>2, <2>3
  <1> HIDE DEF f
  <1> QED
    BY <1>1, <1>2, <1>3, Pigeonhole

-----------------------------------------------------------------------------
(***************************************************************************)
(* Nothing comes from nowhere: what a call on top of k others returns the  *)
(* rounds have found, k before the last at the latest.                     *)
(***************************************************************************)
FoundAt(n) == Rounds(FALSE)[n]

AnswersAreFound ==
    ~undefined =>
        /\ HasAnswer /\ answer # Nothing =>
              Len(calls) < GetXrefSize /\ WantedAt(Len(calls)) \in FoundAt(GetXrefSize - Len(calls))
        /\ \A k \in 1 .. Len(calls) :
              calls[k].step \in {"length", "reopened"} =>
                  k <= GetXrefSize /\ calls[k].stream.id \in FoundAt(GetXrefSize - k)

FoundInv == CallInv /\ AnswersAreFound

LEMMA CallsFit ==
    ASSUME CallInv, calls # <<>>, ~Called \/ CanBeEntered("Existing") \/ CanBeEntered("StreamObject")
    PROVE  Len(calls) <= GetXrefSize /\ Len(calls) \in Nat \ {0} /\ GetXrefSize \in Nat
           /\ Top.id \in 0 .. GetXrefSize - 1 /\ Top.id \in 0 .. MaxIDs
  <1>1. /\ Len(calls) \in Nat \ {0} /\ GetXrefSize \in Nat /\ GetXrefSize <= MaxIDs
        /\ Top = calls[Len(calls)] /\ (Called <=> ~IsEnteredAt(Len(calls)))
    BY CallsTyped, XrefTyped DEF CallInv
  <1>2. \A k \in 1 .. Len(calls) : IsEnteredAt(k) => calls[k].id \in 0 .. GetXrefSize - 1
    BY DEF CallInv, CallsAreRight, Entered
  <1>3. \A k \in 1 .. Len(calls) : k = Len(calls) \/ IsEnteredAt(k)
    BY <1>1 DEF CallInv, CallsAreRight, OnlyTopIsCalled
  <1>4. Top.id \in 0 .. GetXrefSize - 1
    BY <1>1, <1>2 DEF CanBeEntered
  <1>5. \A k \in 1 .. Len(calls) : calls[k].id \in 0 .. GetXrefSize - 1
    BY <1>1, <1>2, <1>3, <1>4
  <1>6. \A k \in 1 .. Len(calls) - 1 : calls[k].id # Top.id
    <2>1. CASE Called
      BY <2>1 DEF CanBeEntered
    <2>2. CASE ~Called
      <3> SUFFICES ASSUME NEW k \in 1 .. Len(calls) - 1 PROVE calls[k].id # Top.id
        OBVIOUS
      <3>1. k \in 1 .. Len(calls) /\ Len(calls) \in 1 .. Len(calls) /\ k # Len(calls)
        BY <1>1
      <3>2. IsEnteredAt(k) /\ IsEnteredAt(Len(calls))
        BY <1>1, <1>3, <2>2, <3>1
      <3> QED
        BY <1>1, <3>1, <3>2 DEF CallInv, CallsAreRight
    <2> QED
      BY <2>1, <2>2
  <1>7. Len(calls) \in 0 .. Len(calls)
    BY <1>1
  <1>8. Len(calls) <= GetXrefSize
    BY <1>3, <1>5, <1>6, <1>7, EnteredAreFew
  <1>9. Top.id \in 0 .. MaxIDs
    BY <1>1, <1>4, XrefParserAssumption
  <1> QED
    BY <1>1, <1>4, <1>8, <1>9

LEMMA StandingIsFound ==
    ASSUME NEW id, Stands(id), NEW found
    PROVE  IsFound(id, found)
  BY DEF Stands, IsType, Position, IsFound

(* What a member takes is all there.                                       *)
LEMMA MemberIsFound ==
    ASSUME NEW id, NEW stream, NEW found,
           IsType(id, "StreamObject"), IsStream(stream, Position(id)), Position(id) \in found,
           Len(MembersOf(stream)) <= GetXrefSize,
           BodyAt(stream.at).length # 0 =>
               BodyAt(stream.at).length \in found /\ KindIn(BodyAt(stream.at).length) = "integer",
           Holds(stream, id), MembersOf(stream)[GetXrefEntry(id).revision + 1].what # "broken"
    PROVE  IsFound(id, found)
  <1>1. stream.at = GetXrefEntry(GetXrefEntry(id).position).position
    BY DEF IsStream, Position
  <1>2. /\ GetXrefEntry(GetXrefEntry(id).position).type = "Existing"
        /\ BodyAt(stream.at).what = "stream"
    BY DEF IsStream, Stands, IsType, Position
  <1> QED
    BY <1>1, <1>2 DEF IsFound, Holds, MembersOf, IsType, Position

LEMMA FoundDeepens ==
    ASSUME FoundInv, calls # <<>>, UNCHANGED <<vars, asked, undefined>>,
           NEW step, NEW stream, NEW id, Deepens(step, stream, id),
           ~undefined /\ step \in {"length", "reopened"} =>
               Len(calls) <= GetXrefSize /\ stream.id \in FoundAt(GetXrefSize - Len(calls))
    PROVE  AnswersAreFound'
  <1>1. Len(calls) \in Nat \ {0}
    BY CallsTyped DEF FoundInv, CallInv
  <1>2. GetXrefSize' = GetXrefSize /\ \A n : FoundAt(n)' = FoundAt(n)
    BY Frozen, RoundsStay DEF FoundAt, FoundInv, CallInv
  <1>3. ASSUME ~undefined, NEW k \in 1 .. Len(calls'), calls'[k].step \in {"length", "reopened"}
        PROVE  k <= GetXrefSize /\ calls'[k].stream.id \in FoundAt(GetXrefSize - k)
    <2>1. CASE k \in 1 .. Len(calls) - 1
      <3>1. k \in 1 .. Len(calls) /\ calls'[k] = calls[k]
        BY <1>1, <2>1 DEF Deepens
      <3> QED
        BY <1>3, <3>1 DEF FoundInv, AnswersAreFound
    <2>2. CASE k = Len(calls)
      BY <1>3, <2>2 DEF Deepens
    <2>3. CASE k = Len(calls) + 1
      BY <1>3, <2>3 DEF Deepens, Call
    <2> QED
      BY <1>1, <2>1, <2>2, <2>3 DEF Deepens
  <1>4. ~HasAnswer'
    BY DEF Deepens
  <1> QED
    BY <1>2, <1>3, <1>4 DEF AnswersAreFound

LEMMA FoundComes ==
    ASSUME FoundInv, UNCHANGED <<vars, asked>>, Comes, undefined' = undefined \/ undefined' = TRUE,
           ~undefined' /\ answer' # Nothing =>
               /\ Len(calls) <= GetXrefSize
               /\ Top.id \in FoundAt(GetXrefSize - (Len(calls) - 1))
    PROVE  AnswersAreFound'
  <1>1. Len(calls) \in Nat \ {0} /\ GetXrefSize \in Nat /\ Len(calls') = Len(calls) - 1
    BY XrefTyped DEF FoundInv, CallInv, Comes
  <1>2. GetXrefSize' = GetXrefSize /\ \A n : FoundAt(n)' = FoundAt(n)
    BY Frozen, RoundsStay DEF FoundAt, FoundInv, CallInv
  <1>3. ASSUME ~undefined, NEW k \in 1 .. Len(calls'), calls'[k].step \in {"length", "reopened"}
        PROVE  k <= GetXrefSize /\ calls'[k].stream.id \in FoundAt(GetXrefSize - k)
    <2>1. k \in 1 .. Len(calls) /\ calls'[k] = calls[k]
      BY <1>1, <1>3 DEF Comes
    <2> QED
      BY <1>3, <2>1 DEF FoundInv, AnswersAreFound
  <1>4. ASSUME ~undefined', answer' # Nothing
        PROVE  /\ Len(calls') < GetXrefSize
               /\ WantedAt(Len(calls))' \in FoundAt(GetXrefSize - Len(calls'))
    BY <1>1, <1>4 DEF Comes
  <1>5. ~undefined' => ~undefined
    OBVIOUS
  <1>6. ~undefined' /\ answer' # Nothing =>
            /\ Len(calls') < GetXrefSize'
            /\ WantedAt(Len(calls))' \in FoundAt(GetXrefSize - Len(calls))'
    BY <1>2, <1>4
  <1>7. \A k \in 1 .. Len(calls') : ~undefined' /\ calls'[k].step \in {"length", "reopened"} =>
            k <= GetXrefSize' /\ calls'[k].stream.id \in FoundAt(GetXrefSize - k)'
    BY <1>2, <1>3, <1>5
  <1> QED
    BY <1>6, <1>7 DEF AnswersAreFound

LEMMA FoundStep ==
    ASSUME FoundInv, CallStep
    PROVE  AnswersAreFound'
  <1>1. CallInv /\ Effects /\ UNCHANGED <<vars, asked>>
    BY EffectOfStep DEF FoundInv
  <1>2. \A n : n \in 1 .. GetXrefSize /\ Top.id \in 0 .. MaxIDs /\ IsFound(Top.id, FoundAt(n - 1)) =>
                   Top.id \in FoundAt(n)
    BY <1>1, InRound DEF FoundAt, CallInv
  <1>3. CASE Return(Nothing) /\ calls # <<>> /\ UNCHANGED undefined
    BY <1>1, <1>3, ReturnsNothing, FoundComes
  <1>4. CASE AsksForParameters
    <2>1. Deepens("parameters", ObjectStanding, BodyAt(Position(Top.id)).parameters)
          /\ calls # <<>> /\ UNCHANGED undefined
      BY <1>1, <1>4, AsksForParametersKeeps DEF AsksForParameters, CanBeEntered, Called
    <2> QED
      BY <1>1, <2>1, FoundDeepens
  <1>5. CASE GivesStanding
    <2>1. /\ calls # <<>> /\ CanBeEntered("Existing") /\ Stands(Top.id) /\ UNCHANGED undefined
      BY <1>5 DEF GivesStanding, CanBeEntered, Called
    <2>2. /\ Len(calls) <= GetXrefSize /\ Len(calls) \in Nat \ {0} /\ GetXrefSize \in Nat
          /\ Top.id \in 0 .. MaxIDs
      BY <1>1, <2>1, CallsFit
    <2>3. GetXrefSize - (Len(calls) - 1) \in 1 .. GetXrefSize
      BY <2>2
    <2>4. Top.id \in FoundAt(GetXrefSize - (Len(calls) - 1))
      BY <1>2, <2>1, <2>2, <2>3, StandingIsFound
    <2> QED
      BY <1>1, <1>5, <2>1, <2>2, <2>4, GivesStandingKeeps, FoundComes
  <1>6. CASE GivesEncrypted
    <2>1. calls # <<>> /\ Top.step = "parameters" /\ ~Called /\ UNCHANGED undefined
      BY <1>6 DEF GivesEncrypted, Called
    <2>2. /\ Len(calls) <= GetXrefSize /\ Len(calls) \in Nat \ {0} /\ GetXrefSize \in Nat
          /\ Top.id \in 0 .. MaxIDs
      BY <1>1, <2>1, CallsFit
    <2>3. GetXrefSize - (Len(calls) - 1) \in 1 .. GetXrefSize
      BY <2>2
    <2>4. Stands(Top.id)
      BY <1>1, <2>1, Waits DEF Entered, IsStream
    <2>5. Top.id \in FoundAt(GetXrefSize - (Len(calls) - 1))
      BY <1>2, <2>2, <2>3, <2>4, StandingIsFound
    <2> QED
      BY <1>1, <1>6, <2>1, <2>2, <2>5, GivesEncryptedKeeps, FoundComes
  <1>7. CASE GivesAnything
    BY <1>1, <1>7, GivesAnythingKeeps, FoundComes DEF GivesAnything
  <1>8. CASE AsksForStream
    <2>1. Deepens("stream", Nothing, Position(Top.id)) /\ calls # <<>> /\ UNCHANGED undefined
      BY <1>1, <1>8, AsksForStreamKeeps DEF AsksForStream, CanBeEntered, Called
    <2> QED
      BY <1>1, <2>1, FoundDeepens
  <1>9. CASE AsksForLength
    <2>1. /\ Deepens("length", answer, BodyAt(answer.at).length) /\ calls # <<>>
          /\ Top.step = "stream" /\ IsStream(answer, Position(Top.id)) /\ UNCHANGED undefined
      BY <1>1, <1>9, AsksForLengthKeeps DEF AsksForLength
    <2>2. HasAnswer /\ WantedAt(Len(calls)) = Position(Top.id)
      BY <1>1, <2>1, Waits DEF Wanted
    <2>3. answer # Nothing /\ answer.id = Position(Top.id)
      BY <2>1, NothingTyped DEF IsStream
    <2>4. ~undefined => Len(calls) <= GetXrefSize /\ answer.id \in FoundAt(GetXrefSize - Len(calls))
      <3>1. Len(calls) \in Nat /\ GetXrefSize \in Nat
        BY <1>1, <2>1, CallsTyped, XrefTyped DEF CallInv
      <3> QED
        BY <2>2, <2>3, <3>1 DEF FoundInv, AnswersAreFound
    <2> QED
      BY <1>1, <2>1, <2>4, FoundDeepens
  <1>10. CASE AsksAgain
    <2>1. /\ Deepens("reopened", Top.stream, BodyAt(Top.stream.at).length) /\ calls # <<>>
          /\ Top.step = "length" /\ UNCHANGED undefined
      BY <1>1, <1>10, AsksAgainKeeps DEF AsksAgain
    <2>2. Len(calls) \in 1 .. Len(calls) /\ Top = calls[Len(calls)]
      BY <1>1, <2>1, CallsTyped DEF CallInv
    <2>3. ~undefined =>
              Len(calls) <= GetXrefSize /\ Top.stream.id \in FoundAt(GetXrefSize - Len(calls))
      BY <2>1, <2>2 DEF FoundInv, AnswersAreFound
    <2> QED
      BY <1>1, <2>1, <2>3, FoundDeepens
  <1>11. CASE GivesMember
    <2>1. calls # <<>> /\ IsInside /\ IsOpened /\ IsHeld /\ ~Called /\ UNCHANGED undefined
      BY <1>11 DEF GivesMember, IsInside, Called
    <2>2. /\ Len(calls) <= GetXrefSize /\ Len(calls) \in Nat \ {0} /\ GetXrefSize \in Nat
          /\ Top.id \in 0 .. MaxIDs
      BY <1>1, <2>1, CallsFit
    <2>3. /\ InHand \in Answers /\ IsStream(InHand, Position(Top.id)) /\ IsType(Top.id, "StreamObject")
      BY <1>1, <2>1, StreamInHand DEF IsOpened
    <2>4. /\ HasAnswer /\ WantedAt(Len(calls)) = Wanted(Top) /\ Entered(Top)
          /\ (~undefined => IsRight(answer, Wanted(Top)))
      BY <1>1, <2>1, Waits DEF Called
    <2> DEFINE n == GetXrefSize - (Len(calls) - 1)
    <2>5. n \in 1 .. GetXrefSize /\ n - 1 = GetXrefSize - Len(calls)
      BY <2>2
    <2>6. Len(MembersOf(InHand)) <= GetXrefSize
      BY <2>1, <2>4 DEF InHand, IsOpened, IsInside, Entered
    <2>7. ~undefined /\ answer # Nothing => Wanted(Top) \in FoundAt(n - 1)
      BY <2>4, <2>5 DEF FoundInv, AnswersAreFound
    <2>8. ~undefined => Position(Top.id) \in FoundAt(n - 1)
      <3>1. CASE Top.step = "stream"
        <4>1. answer # Nothing
          BY <2>1, <3>1, NothingTyped DEF IsOpened
        <4> QED
          BY <2>7, <3>1, <4>1 DEF Wanted
      <3>2. CASE Top.step # "stream"
        <4>1. Top.stream.id = Position(Top.id)
          BY <2>3, <3>2 DEF InHand, IsStream
        <4>2. Len(calls) \in 1 .. Len(calls) /\ Top = calls[Len(calls)]
          BY <1>1, <2>1, CallsTyped DEF CallInv
        <4>3. Top.step \in {"length", "reopened"}
          BY <2>1, <3>2 DEF IsInside
        <4> QED
          BY <2>5, <4>1, <4>2, <4>3 DEF FoundInv, AnswersAreFound
      <3> QED
        BY <3>1, <3>2
    <2>9. ~undefined /\ BodyAt(InHand.at).length # 0 =>
              /\ BodyAt(InHand.at).length \in FoundAt(n - 1)
              /\ KindIn(BodyAt(InHand.at).length) = "integer"
      <3>1. CASE Top.step = "stream"
        BY <2>1, <3>1 DEF InHand, IsOpened
      <3>2. CASE Top.step # "stream"
        <4>1. answer.what = "integer" /\ InHand = Top.stream
          BY <2>1, <3>2 DEF InHand, IsOpened
        <4>2. Wanted(Top) = BodyAt(InHand.at).length
          BY <2>1, <3>2, <4>1 DEF Wanted, IsInside
        <4>3. answer # Nothing
          BY <4>1 DEF Nothing
        <4> QED
          BY <2>4, <2>7, <4>1, <4>2, <4>3 DEF IsRight
      <3> QED
        BY <3>1, <3>2
    <2>10. ~undefined => Top.id \in FoundAt(n)
      <3> SUFFICES ASSUME ~undefined PROVE Top.id \in FoundAt(n)
        OBVIOUS
      <3>1. IsFound(Top.id, FoundAt(n - 1))
        BY <2>1, <2>3, <2>6, <2>8, <2>9, MemberIsFound DEF IsHeld, MemberInHand
      <3> QED
        BY <1>2, <2>2, <2>5, <3>1
    <2> QED
      BY <1>1, <1>11, <2>1, <2>2, <2>10, GivesMemberKeeps, FoundComes
  <1>12. IsRefused \/ DoesNotStand \/ IsNotHeld => Return(Nothing) /\ calls # <<>> /\ UNCHANGED undefined
    BY DEF IsRefused, DoesNotStand, IsNotHeld, CanBeEntered, Called, IsInside
  <1> QED
    BY <1>1, <1>3, <1>4, <1>5, <1>6, <1>7, <1>8, <1>9, <1>10, <1>11, <1>12 DEF Effects

LEMMA FoundOtherwise ==
    ASSUME FoundInv, CallInv',
           \/ \E f \in Files : Start(f)
           \/ ParseStep
           \/ \E id \in 0 .. MaxIDs : Ask(id)
           \/ UNCHANGED allVars
    PROVE  AnswersAreFound'
  <1>1. CallInv
    BY DEF FoundInv
  <1>2. CASE \E f \in Files : Start(f)
    <2>1. answer' = Nothing /\ calls' = <<>>
      BY <1>2 DEF Start
    <2>2. Len(calls') = 0
      BY <2>1, EmptySeq
    <2> QED
      BY <2>1, <2>2 DEF AnswersAreFound
  <1>3. CASE ParseStep
    <2>1. status = "parsing" /\ UNCHANGED <<calls, answer>>
      BY <1>3 DEF ParseStep, objectVars, Step, ParsePreviousXrefs, EndOfChain, MergeXrefWithMainXref,
                  ReadNewestSection
    <2>2. calls = <<>> /\ answer = Nothing
      BY <1>1, <2>1 DEF CallInv, CallsAreRight, AnswerIsRight
    <2>3. Len(calls') = 0 /\ answer' = Nothing
      BY <2>1, <2>2, EmptySeq
    <2> QED
      BY <2>3 DEF AnswersAreFound
  <1>4. CASE \E id \in 0 .. MaxIDs : Ask(id)
    <2>1. PICK id \in 0 .. MaxIDs : Ask(id)
      BY <1>4
    <2>2. Len(calls') = 1 /\ ~HasAnswer' /\ calls'[1] = Call(id)
      BY <1>1, <2>1, CallInvAsk
    <2>3. \A k \in 1 .. Len(calls') : calls'[k].step = "called"
      BY <2>2 DEF Call
    <2> QED
      BY <2>2, <2>3 DEF AnswersAreFound
  <1>5. CASE UNCHANGED allVars
    <2>1. UNCHANGED vars /\ UNCHANGED <<calls, answer, asked, undefined>>
      BY <1>5 DEF allVars, objectVars
    <2>2. GetXrefSize' = GetXrefSize /\ \A n : FoundAt(n)' = FoundAt(n)
      BY <1>1, <2>1, Frozen, RoundsStay DEF FoundAt, CallInv
    <2>3. HasAnswer' = HasAnswer /\ WantedAt(Len(calls))' = WantedAt(Len(calls))
      BY <2>1, Frozen DEF HasAnswer, IsEnteredAt, WantedAt
    <2> QED
      BY <2>1, <2>2, <2>3 DEF FoundInv, AnswersAreFound
  <1> QED
    BY <1>2, <1>3, <1>4, <1>5

LEMMA FoundInvInit ==
    ObjectsInit => FoundInv
  <1> SUFFICES ASSUME ObjectsInit PROVE AnswersAreFound
    BY CallInvInit DEF FoundInv
  <1>1. calls = <<>> /\ answer = Nothing
    BY DEF ObjectsInit
  <1>2. Len(calls) = 0
    BY <1>1, EmptySeq
  <1> QED
    BY <1>1, <1>2 DEF AnswersAreFound

LEMMA FoundInvNext ==
    ASSUME FoundInv, [ObjectsNext]_allVars
    PROVE  FoundInv'
  <1>1. CallInv'
    BY CallInvNext DEF FoundInv
  <1>2. CASE CallStep
    BY <1>1, <1>2, FoundStep DEF FoundInv
  <1>3. CASE ~CallStep
    BY <1>1, <1>3, FoundOtherwise DEF FoundInv, ObjectsNext
  <1> QED
    BY <1>2, <1>3

-----------------------------------------------------------------------------
(***************************************************************************)
(* Nothing that is there is missed.  A round finds what needs only what    *)
(* the rounds before have found: on the way to such an object every call   *)
(* is for one found earlier, so none is refused, and each is answered.     *)
(***************************************************************************)

(* The round that finds an object first, and the one before.               *)
Ranked(strict) == UNION {Rounds(strict)[n] : n \in 0 .. GetXrefSize}
IsRank(strict, id, n) ==
    /\ n \in 0 .. GetXrefSize /\ id \in Rounds(strict)[n]
    /\ \A m \in 0 .. GetXrefSize : id \in Rounds(strict)[m] => n <= m
Rank(strict, id) == CHOOSE n \in 0 .. GetXrefSize : IsRank(strict, id, n)
Below(strict, id) == Rounds(strict)[Rank(strict, id) - 1]

LEMMA RankOf ==
    ASSUME Parsed, NEW strict \in BOOLEAN, NEW id \in Ranked(strict)
    PROVE  /\ Rank(strict, id) \in 1 .. GetXrefSize
           /\ id \in 0 .. MaxIDs /\ IsFound(id, Below(strict, id))
           /\ strict => HasParametersIn(id, Below(strict, id))
  <1>1. GetXrefSize \in Nat
    BY XrefTyped
  <1> DEFINE T == {n \in 0 .. GetXrefSize : id \in Rounds(strict)[n]}
  <1>2. T \subseteq Nat /\ T # {}
    BY <1>1 DEF Ranked
  <1> HIDE DEF T
  <1>3. PICK n \in T : \A m \in T : n <= m
    BY <1>2, LeastNumber
  <1>4. IsRank(strict, id, n) /\ n \in 0 .. GetXrefSize
    BY <1>3 DEF T, IsRank
  <1>5. IsRank(strict, id, Rank(strict, id))
    BY <1>4 DEF Rank
  <1>6. PICK r : r = Rank(strict, id)
    OBVIOUS
  <1>7. r \in 0 .. GetXrefSize /\ id \in Rounds(strict)[r]
    BY <1>5, <1>6 DEF IsRank
  <1>8. r # 0
    BY <1>7, RoundsAre
  <1>9. r \in 1 .. GetXrefSize
    BY <1>1, <1>7, <1>8
  <1>10. /\ id \in 0 .. MaxIDs /\ IsFound(id, Rounds(strict)[r - 1])
         /\ strict => HasParametersIn(id, Rounds(strict)[r - 1])
    BY <1>7, <1>9, InRound
  <1> QED
    BY <1>6, <1>9, <1>10 DEF Below

LEMMA LowerRank ==
    ASSUME Parsed, NEW strict \in BOOLEAN, NEW id \in Ranked(strict), NEW x \in Below(strict, id)
    PROVE  x \in Ranked(strict) /\ Rank(strict, x) < Rank(strict, id)
  <1>1. GetXrefSize \in Nat /\ Rank(strict, id) \in 1 .. GetXrefSize
    BY XrefTyped, RankOf
  <1>2. PICK n : n = Rank(strict, id) - 1
    OBVIOUS
  <1>3. n \in 0 .. GetXrefSize /\ x \in Rounds(strict)[n]
    BY <1>1, <1>2 DEF Below
  <1>4. x \in Ranked(strict)
    BY <1>3 DEF Ranked
  <1> DEFINE T == {m \in 0 .. GetXrefSize : x \in Rounds(strict)[m]}
  <1>5. T \subseteq Nat /\ n \in T
    BY <1>1, <1>3
  <1> HIDE DEF T
  <1>6. PICK l \in T : \A m \in T : l <= m
    BY <1>5, LeastNumber
  <1>7. IsRank(strict, x, l) /\ l \in 0 .. GetXrefSize
    BY <1>6 DEF T, IsRank
  <1>8. IsRank(strict, x, Rank(strict, x))
    BY <1>7 DEF Rank
  <1>9. Rank(strict, x) <= n
    BY <1>3, <1>8 DEF IsRank
  <1>10. Rank(strict, x) \in 1 .. GetXrefSize
    BY <1>4, RankOf
  <1> QED
    BY <1>1, <1>2, <1>4, <1>9, <1>10

(* What a ranked object needs is there.                                    *)
LEMMA RankedStanding ==
    ASSUME Parsed, NEW strict \in BOOLEAN, NEW id \in Ranked(strict), IsType(id, "Existing")
    PROVE  /\ Stands(id)
           /\ strict /\ BodyAt(Position(id)).what = "stream" /\ BodyAt(Position(id)).parameters # 0 =>
                  BodyAt(Position(id)).parameters \in Below(strict, id)
  <1>1. IsFound(id, Below(strict, id)) /\ (strict => HasParametersIn(id, Below(strict, id)))
    BY RankOf
  <1> QED
    BY <1>1 DEF IsFound, HasParametersIn, Stands, IsType, Position

LEMMA RankedMember ==
    ASSUME Parsed, NEW strict \in BOOLEAN, NEW id \in Ranked(strict), IsType(id, "StreamObject")
    PROVE  /\ Position(id) \in Below(strict, id) /\ IsType(Position(id), "Existing")
           /\ KindIn(Position(id)) = "stream"
           /\ \A stream : IsStream(stream, Position(id)) =>
                 /\ Len(MembersOf(stream)) <= GetXrefSize /\ Holds(stream, id)
                 /\ MembersOf(stream)[GetXrefEntry(id).revision + 1].what # "broken"
                 /\ BodyAt(stream.at).length # 0 =>
                       /\ BodyAt(stream.at).length \in Below(strict, id)
                       /\ KindIn(BodyAt(stream.at).length) = "integer"
  <1>1. IsFound(id, Below(strict, id))
    BY RankOf
  <1>2. GetXrefEntry(id).type = "StreamObject"
    BY DEF IsType
  <1> DEFINE body == BodyAt(GetXrefEntry(GetXrefEntry(id).position).position)
  <1>3. /\ GetXrefEntry(id).position \in Below(strict, id)
        /\ GetXrefEntry(GetXrefEntry(id).position).type = "Existing"
        /\ body.what = "stream" /\ Len(body.members) <= GetXrefSize
        /\ body.length # 0 => body.length \in Below(strict, id) /\ KindIn(body.length) = "integer"
        /\ GetXrefEntry(id).revision < Len(body.members)
        /\ body.members[GetXrefEntry(id).revision + 1].id = id
        /\ body.members[GetXrefEntry(id).revision + 1].what # "broken"
    BY <1>1, <1>2 DEF IsFound
  <1>4. body = BodyAt(Position(Position(id)))
    BY DEF Position
  <1> HIDE DEF body
  <1>5. /\ Position(id) \in Below(strict, id) /\ IsType(Position(id), "Existing")
        /\ KindIn(Position(id)) = "stream"
    BY <1>3, <1>4, KindOfStanding DEF Position, IsType
  <1>6. ASSUME NEW stream, IsStream(stream, Position(id))
        PROVE  BodyAt(stream.at) = body /\ MembersOf(stream) = body.members
    BY <1>4, <1>6 DEF IsStream, MembersOf
  <1> QED
    BY <1>3, <1>5, <1>6 DEF Holds

LEMMA RankedIsInTable ==
    ASSUME Parsed, NEW strict \in BOOLEAN, NEW id \in Ranked(strict)
    PROVE  /\ id \in 0 .. GetXrefSize - 1
           /\ IsType(id, "Existing") \/ IsType(id, "StreamObject")
           /\ ~(IsType(id, "Existing") /\ IsType(id, "StreamObject"))
  <1>1. IsFound(id, Below(strict, id)) /\ id \in 0 .. MaxIDs /\ id \in Nat
    BY RankOf, XrefParserAssumption
  <1>2. IsType(id, "Existing") \/ IsType(id, "StreamObject")
    BY <1>1 DEF IsFound, IsType
  <1>3. id \in 0 .. GetXrefSize - 1
    BY <1>1, <1>2, XrefTyped DEF IsType
  <1> QED
    BY <1>2, <1>3 DEF IsType

LEMMA RanksStay ==
    ASSUME Parsed, UNCHANGED vars, NEW strict \in BOOLEAN
    PROVE  /\ Ranked(strict)' = Ranked(strict)
           /\ \A id : Rank(strict, id)' = Rank(strict, id)
  <1>1. Rounds(strict)' = Rounds(strict) /\ GetXrefSize' = GetXrefSize
    BY RoundsStay, Frozen
  <1>2. Ranked(strict)' = Ranked(strict)
    BY <1>1 DEF Ranked
  <1>3. \A id, n : IsRank(strict, id, n)' <=> IsRank(strict, id, n)
    BY <1>1 DEF IsRank
  <1>4. \A id : Rank(strict, id)' = Rank(strict, id)
    BY <1>1, <1>3 DEF Rank
  <1> QED
    BY <1>2, <1>4

(***************************************************************************)
(* The object at the bottom, or, strictly, the parameters it asks for, are *)
(* ranked: then so are the calls above, each lower than those below it.    *)
(* Only the parameters, for what must be found without them, are not on    *)
(* the way.  And a stream that is opened again is asked for by a parser    *)
(* that reads it, which nothing with a defined outcome follows.            *)
(***************************************************************************)
Guided(strict) ==
    /\ ~undefined /\ status = "success"
    /\ IF strict THEN /\ calls # <<>> /\ calls[1].step = "parameters"
                      /\ Wanted(calls[1]) \in Ranked(strict)
       ELSE asked # 0 /\ asked \in Ranked(strict)

OnPath(strict, k) ==
    IF strict THEN k >= 2 ELSE \A j \in 1 .. k - 1 : calls[j].step # "parameters"

PathIsRight(strict) ==
    Guided(strict) =>
        /\ \A k \in 1 .. Len(calls) : OnPath(strict, k) => calls[k].id \in Ranked(strict)
        /\ \A j, k \in 1 .. Len(calls) :
              j < k /\ OnPath(strict, j) /\ OnPath(strict, k) =>
                  Rank(strict, calls[k].id) < Rank(strict, calls[j].id)
        /\ \A k \in 1 .. Len(calls) :
              OnPath(strict, k) /\ calls[k].step = "reopened" =>
                  /\ reading = "closed" /\ ~HasAnswer
                  /\ \A j \in k + 1 .. Len(calls) - 1 : calls[j].step = "stream"
        /\ HasAnswer /\ OnPath(strict, Len(calls) + 1) =>
              answer.id = WantedAt(Len(calls)) /\ answer.what = KindIn(WantedAt(Len(calls)))

PathInv(strict) == CallInv /\ PathIsRight(strict)

LEMMA PathDeepens ==
    ASSUME NEW strict \in BOOLEAN, PathInv(strict), calls # <<>>, UNCHANGED <<vars, asked, undefined>>,
           NEW step, NEW stream, NEW id, Deepens(step, stream, id),
           Guided(strict) /\ OnPath(strict, Len(calls)) /\ (step = "parameters" => strict) =>
               id \in Ranked(strict) /\ Rank(strict, id) < Rank(strict, Top.id),
           IF step = "reopened" THEN reading' = "closed" /\ ~Called
           ELSE reading' = reading /\ (reading = "closed" /\ Called => step = "stream")
    PROVE  PathIsRight(strict)'
  <1> SUFFICES ASSUME Guided(strict)' PROVE PathIsRight(strict)'
    BY DEF PathIsRight
  <1>1. PICK n : n = Len(calls)
    OBVIOUS
  <1>2. /\ Parsed /\ n \in Nat \ {0} /\ Top = calls[n] /\ (Called <=> ~IsEnteredAt(n))
        /\ CallsAreRight
    BY <1>1, CallsTyped DEF PathInv, CallInv
  <1>3. /\ Ranked(strict)' = Ranked(strict) /\ \A x : Rank(strict, x)' = Rank(strict, x)
        /\ status' = status /\ \A call : Wanted(call)' = Wanted(call)
    BY <1>2, RanksStay, Frozen
  <1>4. /\ Len(calls') = n + 1 /\ ~HasAnswer'
        /\ \A k \in 1 .. n - 1 : calls'[k] = calls[k]
        /\ calls'[n].id = Top.id /\ calls'[n].step = step
        /\ calls'[n + 1].id = id /\ calls'[n + 1].step = "called"
    BY <1>1 DEF Deepens, Call
  <1>5. \A k \in 1 .. n : calls'[k].id = calls[k].id /\ (k = n \/ k \in 1 .. n - 1)
    BY <1>2, <1>4
  <1>6. \A k \in 1 .. n : OnPath(strict, k)' <=> OnPath(strict, k)
    <2> SUFFICES ASSUME NEW k \in 1 .. n PROVE OnPath(strict, k)' <=> OnPath(strict, k)
      OBVIOUS
    <2>1. \A j \in 1 .. k - 1 : calls'[j] = calls[j]
      BY <1>2, <1>4
    <2> QED
      BY <2>1 DEF OnPath
  <1>7. \A k \in 1 .. n + 1 : k = n + 1 \/ k \in 1 .. n
    BY <1>2
  <1>8. CASE strict /\ n = 1
    <2>1. Wanted(calls[1])' \in Ranked(strict)'
      BY <1>8 DEF Guided
    <2>2. \A k : OnPath(strict, k)' => k >= 2
      BY <1>8 DEF OnPath
    <2>3. id = WantedAt(1)'
      <3>1. \A k \in 1 .. Len(calls') : calls'[k].id = WantedAt(k - 1)'
        BY DEF Deepens, CallsAreRight
      <3>2. 2 \in 1 .. Len(calls') /\ 2 - 1 = 1
        BY <1>4, <1>8
      <3>3. calls'[2].id = WantedAt(2 - 1)'
        BY <3>1, <3>2
      <3> QED
        BY <1>4, <1>8, <3>2, <3>3
    <2>4. id \in Ranked(strict)
      BY <1>3, <2>1, <2>3 DEF WantedAt
    <2>5. \A k \in 1 .. n + 1 : k >= 2 => k = n + 1
      BY <1>8
    <2>6. \A k \in 1 .. Len(calls') :
              OnPath(strict, k)' => k = n + 1 /\ calls'[k].id = id /\ calls'[k].step = "called"
      BY <1>4, <2>2, <2>5
    <2> QED
      BY <1>3, <1>4, <2>4, <2>6 DEF PathIsRight
  <1>9. CASE ~(strict /\ n = 1)
    <2>1. Guided(strict)
      <3>1. CASE strict
        <4>1. 1 \in 1 .. n - 1 /\ calls'[1] = calls[1]
          BY <1>2, <1>4, <1>9, <3>1
        <4>2. Wanted(calls[1])' = Wanted(calls[1])
          BY <1>3, <4>1
        <4> QED
          BY <1>3, <3>1, <4>1, <4>2 DEF Guided
      <3>2. CASE ~strict
        BY <1>3, <3>2 DEF Guided
      <3> QED
        BY <3>1, <3>2
    <2>2. OnPath(strict, n + 1)' => OnPath(strict, n) /\ (step = "parameters" => strict)
      <3>1. CASE strict
        BY <1>2, <1>9, <3>1 DEF OnPath
      <3>2. CASE ~strict
        <4>1. ASSUME \A j \in 1 .. n : calls'[j].step # "parameters"
              PROVE  step # "parameters" /\ \A j \in 1 .. n - 1 : calls[j].step # "parameters"
          BY <1>2, <1>4, <4>1
        <4>2. (n + 1) - 1 = n
          BY <1>2
        <4>3. OnPath(strict, n + 1)' => \A j \in 1 .. n : calls'[j].step # "parameters"
          BY <3>2, <4>2 DEF OnPath
        <4>4. (\A j \in 1 .. n - 1 : calls[j].step # "parameters") => OnPath(strict, n)
          BY <3>2 DEF OnPath
        <4> QED
          BY <4>1, <4>3, <4>4
      <3> QED
        BY <3>1, <3>2
    <2>3. OnPath(strict, n + 1)' => id \in Ranked(strict) /\ Rank(strict, id) < Rank(strict, Top.id)
      BY <1>1, <2>1, <2>2
    <2>4. /\ \A k \in 1 .. n : OnPath(strict, k) => calls[k].id \in Ranked(strict)
          /\ \A j, k \in 1 .. n :
                j < k /\ OnPath(strict, j) /\ OnPath(strict, k) =>
                    Rank(strict, calls[k].id) < Rank(strict, calls[j].id)
          /\ \A k \in 1 .. n :
                OnPath(strict, k) /\ calls[k].step = "reopened" =>
                    /\ reading = "closed" /\ ~HasAnswer
                    /\ \A j \in k + 1 .. n - 1 : calls[j].step = "stream"
      BY <1>1, <2>1 DEF PathInv, PathIsRight
    <2>5. \A k \in 1 .. n + 1 : OnPath(strict, k)' => calls'[k].id \in Ranked(strict)
      <3> SUFFICES ASSUME NEW k \in 1 .. n + 1, OnPath(strict, k)'
                   PROVE  calls'[k].id \in Ranked(strict)
        OBVIOUS
      <3>1. CASE k = n + 1
        BY <1>4, <2>3, <3>1
      <3>2. CASE k \in 1 .. n
        BY <1>5, <1>6, <2>4, <3>2
      <3> QED
        BY <1>7, <3>1, <3>2
    <2>6. ASSUME NEW j \in 1 .. n + 1, NEW k \in 1 .. n + 1, j < k,
                 OnPath(strict, j)', OnPath(strict, k)'
          PROVE  Rank(strict, calls'[k].id) < Rank(strict, calls'[j].id)
      <3>1. j \in 1 .. n /\ OnPath(strict, j)
        BY <1>2, <1>6, <2>6
      <3>2. CASE k \in 1 .. n
        BY <1>5, <1>6, <2>4, <2>6, <3>1, <3>2
      <3>3. CASE k = n + 1
        <4>1. OnPath(strict, n + 1)'
          BY <2>6, <3>3
        <4>2. Rank(strict, id) < Rank(strict, Top.id) /\ OnPath(strict, n) /\ id \in Ranked(strict)
          BY <2>2, <2>3, <4>1
        <4>3. CASE j = n
          BY <1>4, <3>3, <4>2, <4>3
        <4>4. CASE j \in 1 .. n - 1
          <5>1. n \in 1 .. n /\ j < n
            BY <1>2, <4>4
          <5>2. Rank(strict, Top.id) < Rank(strict, calls[j].id)
            BY <1>2, <2>4, <3>1, <4>2, <5>1
          <5>3. /\ Rank(strict, id) \in Int /\ Rank(strict, Top.id) \in Int
                /\ Rank(strict, calls[j].id) \in Int
            BY <1>2, <2>4, <3>1, <4>2, <5>1, RankOf
          <5>4. calls'[k].id = id /\ calls'[j].id = calls[j].id
            BY <1>4, <1>5, <3>1, <3>3
          <5> QED
            BY <4>2, <5>2, <5>3, <5>4
        <4> QED
          BY <1>5, <3>1, <4>3, <4>4
      <3> QED
        BY <1>7, <3>2, <3>3
    <2>7. ASSUME NEW k \in 1 .. n + 1, OnPath(strict, k)', calls'[k].step = "reopened"
          PROVE  reading' = "closed" /\ \A j \in k + 1 .. n : calls'[j].step = "stream"
      <3>1. k \in 1 .. n /\ OnPath(strict, k)
        BY <1>4, <1>6, <1>7, <2>7
      <3>2. CASE k = n
        <4>1. \A j \in k + 1 .. n : FALSE
          BY <1>2, <3>2
        <4> QED
          BY <1>4, <2>7, <3>2, <4>1
      <3>3. CASE k \in 1 .. n - 1
        <4>1. /\ calls[k].step = "reopened" /\ reading = "closed" /\ ~HasAnswer
              /\ \A j \in k + 1 .. n - 1 : calls[j].step = "stream"
          BY <1>4, <2>4, <2>7, <3>1, <3>3
        <4>2. Called
          BY <1>1, <1>2, <4>1 DEF HasAnswer
        <4>3. step = "stream" /\ reading' = reading
          BY <4>1, <4>2
        <4>4. \A j \in k + 1 .. n : j = n \/ j \in k + 1 .. n - 1
          BY <1>2
        <4>5. \A j \in k + 1 .. n - 1 : j \in 1 .. n - 1
          BY <1>2
        <4> QED
          BY <1>4, <4>1, <4>3, <4>4, <4>5
      <3> QED
        BY <1>5, <3>1, <3>2, <3>3
    <2>8. (n + 1) - 1 = n
      BY <1>2
    <2> QED
      BY <1>3, <1>4, <2>5, <2>6, <2>7, <2>8 DEF PathIsRight
  <1> QED
    BY <1>8, <1>9

LEMMA PathComes ==
    ASSUME NEW strict \in BOOLEAN, PathInv(strict), UNCHANGED <<vars, asked, undefined>>, Comes,
           Guided(strict) /\ OnPath(strict, Len(calls)) =>
               answer'.id = Top.id /\ answer'.what = KindIn(Top.id),
           ~(Guided(strict) /\ OnPath(strict, Len(calls)) /\ Called /\ reading = "closed")
    PROVE  PathIsRight(strict)'
  <1> SUFFICES ASSUME Guided(strict)' PROVE PathIsRight(strict)'
    BY DEF PathIsRight
  <1> DEFINE n == Len(calls)
  <1>1. /\ Parsed /\ n \in Nat \ {0} /\ Top = calls[n] /\ (Called <=> ~IsEnteredAt(n))
        /\ calls # <<>>
    BY CallsTyped DEF PathInv, CallInv, Comes
  <1>2. /\ Ranked(strict)' = Ranked(strict) /\ \A x : Rank(strict, x)' = Rank(strict, x)
        /\ status' = status /\ \A call : Wanted(call)' = Wanted(call) /\ \A x : KindIn(x)' = KindIn(x)
    <2>1. /\ status' = status /\ (\A call : Wanted(call)' = Wanted(call)) /\ \A x : KindIn(x)' = KindIn(x)
      BY Frozen
    <2> QED
      BY <1>1, <2>1, RanksStay
  <1>3. /\ Len(calls') = n - 1 /\ HasAnswer' /\ WantedAt(Len(calls))' = Top.id
        /\ \A k \in 1 .. n - 1 : calls'[k] = calls[k]
    BY DEF Comes
  <1> HIDE DEF n
  <1>4. \A k \in 1 .. n : OnPath(strict, k)' <=> OnPath(strict, k)
    <2> SUFFICES ASSUME NEW k \in 1 .. n PROVE OnPath(strict, k)' <=> OnPath(strict, k)
      OBVIOUS
    <2>1. \A j \in 1 .. k - 1 : calls'[j] = calls[j]
      BY <1>1, <1>3
    <2> QED
      BY <2>1 DEF OnPath
  <1>5. Guided(strict)
    <2>1. CASE strict
      <3>1. calls' # <<>> /\ calls'[1].step = "parameters" /\ Wanted(calls[1])' \in Ranked(strict)
        BY <1>2, <2>1 DEF Guided
      <3>2. Len(calls') # 0
        <4>1. calls' \in Seq(Calls)
          BY DEF Comes, CallsAreRight
        <4> QED
          BY <3>1, <4>1, EmptySeq
      <3>3. 1 \in 1 .. n - 1 /\ calls'[1] = calls[1]
        BY <1>1, <1>3, <3>2
      <3>4. Wanted(calls[1])' = Wanted(calls[1])
        BY <1>2, <3>3
      <3> QED
        BY <1>1, <1>2, <2>1, <3>1, <3>3, <3>4 DEF Guided
    <2>2. CASE ~strict
      BY <1>2, <2>2 DEF Guided
    <2> QED
      BY <2>1, <2>2
  <1>6. /\ \A k \in 1 .. n : OnPath(strict, k) => calls[k].id \in Ranked(strict)
        /\ \A j, k \in 1 .. n :
              j < k /\ OnPath(strict, j) /\ OnPath(strict, k) =>
                  Rank(strict, calls[k].id) < Rank(strict, calls[j].id)
        /\ \A k \in 1 .. n :
              OnPath(strict, k) /\ calls[k].step = "reopened" =>
                  /\ reading = "closed" /\ ~HasAnswer
                  /\ \A j \in k + 1 .. n - 1 : calls[j].step = "stream"
    BY <1>5 DEF PathInv, PathIsRight, n
  <1>7. \A k \in 1 .. n - 1 : k \in 1 .. n
    BY <1>1
  <1>8. ASSUME NEW k \in 1 .. n - 1, OnPath(strict, k), calls[k].step = "reopened"
        PROVE  FALSE
    <2>1. /\ reading = "closed" /\ ~HasAnswer
          /\ \A j \in k + 1 .. n - 1 : calls[j].step = "stream"
      BY <1>6, <1>7, <1>8
    <2>2. Called
      BY <1>1, <2>1 DEF HasAnswer, n
    <2>3. OnPath(strict, n)
      <3>1. CASE strict
        BY <1>1, <1>8, <3>1 DEF OnPath
      <3>2. CASE ~strict
        <4>1. \A j \in 1 .. n - 1 : j \in 1 .. k - 1 \/ j = k \/ j \in k + 1 .. n - 1
          BY <1>1
        <4>2. \A j \in 1 .. k - 1 : calls[j].step # "parameters"
          BY <1>8, <3>2 DEF OnPath
        <4>3. \A j \in 1 .. n - 1 : calls[j].step # "parameters"
          BY <1>8, <2>1, <4>1, <4>2
        <4> QED
          BY <3>2, <4>3 DEF OnPath
      <3> QED
        BY <3>1, <3>2
    <2> QED
      BY <1>5, <2>1, <2>2, <2>3 DEF n
  <1>9. \A k \in 1 .. n - 1 : OnPath(strict, k)' => calls'[k].id \in Ranked(strict)'
    BY <1>2, <1>3, <1>4, <1>6, <1>7
  <1>10. \A j, k \in 1 .. n - 1 :
            j < k /\ OnPath(strict, j)' /\ OnPath(strict, k)' =>
                Rank(strict, calls'[k].id) < Rank(strict, calls'[j].id)
    BY <1>3, <1>4, <1>6, <1>7
  <1>11. \A k \in 1 .. n - 1 : ~(OnPath(strict, k)' /\ calls'[k].step = "reopened")
    BY <1>3, <1>4, <1>7, <1>8
  <1>12. OnPath(strict, Len(calls) + 1)' =>
            /\ answer'.id = WantedAt(Len(calls))' /\ answer'.what = KindIn(WantedAt(Len(calls)))'
    <2>1. Len(calls') + 1 = n /\ n \in 1 .. n
      BY <1>1, <1>3
    <2>2. PICK x : x = Top.id
      OBVIOUS
    <2>3. OnPath(strict, n) => answer'.id = x /\ answer'.what = KindIn(x)
      BY <1>5, <2>2 DEF n
    <2>4. OnPath(strict, Len(calls) + 1)' <=> OnPath(strict, n)
      BY <1>4, <2>1
    <2>5. WantedAt(Len(calls))' = x
      BY <1>3, <2>2
    <2> QED
      BY <1>2, <2>3, <2>4, <2>5
  <1> QED
    BY <1>2, <1>3, <1>9, <1>10, <1>11, <1>12 DEF PathIsRight

LEMMA TopOnPath ==
    ASSUME NEW strict \in BOOLEAN, PathInv(strict), Guided(strict), calls # <<>>,
           OnPath(strict, Len(calls))
    PROVE  /\ Top.id \in Ranked(strict) /\ Parsed
           /\ \A k \in 1 .. Len(calls) - 1 : calls[k].id # Top.id
  <1>1. PICK n : n = Len(calls)
    OBVIOUS
  <1>2. Parsed /\ n \in Nat \ {0} /\ Top = calls[n]
    BY <1>1, CallsTyped DEF PathInv, CallInv
  <1>3. /\ \A k \in 1 .. n : OnPath(strict, k) => calls[k].id \in Ranked(strict)
        /\ \A j, k \in 1 .. n :
              j < k /\ OnPath(strict, j) /\ OnPath(strict, k) =>
                  Rank(strict, calls[k].id) < Rank(strict, calls[j].id)
    BY <1>1 DEF PathInv, PathIsRight
  <1>4. Top.id \in Ranked(strict) /\ n \in 1 .. n
    BY <1>1, <1>2, <1>3
  <1>5. Rank(strict, Top.id) \in Int
    BY <1>2, <1>4, RankOf
  <1>6. ASSUME NEW k \in 1 .. n - 1, calls[k].id = Top.id
        PROVE  FALSE
    <2>1. ~OnPath(strict, k)
      <3>1. k \in 1 .. n /\ k < n
        BY <1>2
      <3>2. OnPath(strict, k) => Rank(strict, Top.id) < Rank(strict, Top.id)
        BY <1>1, <1>2, <1>3, <1>4, <1>6, <3>1
      <3> QED
        BY <1>5, <3>2
    <2>2. CASE ~strict
      <3>1. \A j \in 1 .. k - 1 : j \in 1 .. n - 1
        BY <1>2
      <3>2. \A j \in 1 .. n - 1 : calls[j].step # "parameters"
        BY <1>1, <2>2 DEF OnPath
      <3>3. OnPath(strict, k)
        BY <2>2, <3>1, <3>2 DEF OnPath
      <3> QED
        BY <2>1, <3>3
    <2>3. CASE strict
      <3>1. k = 1 /\ n >= 2 /\ calls[1].id = Top.id
        <4>1. ~(k >= 2)
          BY <2>1, <2>3 DEF OnPath
        <4> QED
          BY <1>2, <1>6, <4>1
      <3>2. 1 \in 1 .. n /\ 2 \in 1 .. n /\ calls[1].step = "parameters"
        BY <1>2, <2>3, <3>1 DEF Guided
      <3>3. Entered(calls[1]) /\ calls[2].id = WantedAt(1)
        <4>1. calls[2].id = WantedAt(2 - 1) /\ 2 - 1 = 1
          BY <1>1, <3>2 DEF PathInv, CallInv, CallsAreRight
        <4> QED
          BY <1>1, <3>2, <4>1 DEF PathInv, CallInv, CallsAreRight, IsEnteredAt
      <3> DEFINE p == BodyAt(Position(Top.id)).parameters
      <3>4. /\ IsType(Top.id, "Existing") /\ BodyAt(Position(Top.id)).what = "stream" /\ p # 0
            /\ Wanted(calls[1]) = p
        BY <3>1, <3>2, <3>3 DEF Entered, IsStream, Wanted
      <3>5. p \in Below(strict, Top.id)
        BY <1>2, <1>4, <2>3, <3>4, RankedStanding
      <3> HIDE DEF p
      <3>6. p \in Ranked(strict) /\ Rank(strict, p) < Rank(strict, Top.id) /\ Rank(strict, p) \in Int
        BY <1>2, <1>4, <3>5, LowerRank, RankOf
      <3>7. calls[2].id = p
        BY <3>3, <3>4 DEF WantedAt
      <3>8. n = 2 \/ Rank(strict, Top.id) < Rank(strict, p)
        <4>1. OnPath(strict, 2)
          BY <2>3 DEF OnPath
        <4>2. n = 2 \/ 2 < n
          BY <1>2, <3>1
        <4> QED
          BY <1>1, <1>2, <1>3, <1>4, <3>2, <3>7, <4>1, <4>2
      <3> QED
        BY <1>2, <1>5, <3>6, <3>7, <3>8
    <2> QED
      BY <2>2, <2>3
  <1> QED
    BY <1>1, <1>2, <1>4, <1>6

(* A call on the way is not refused, and finds what stands.                *)
LEMMA NotRefused ==
    ASSUME NEW strict \in BOOLEAN, PathInv(strict), Guided(strict), calls # <<>>,
           OnPath(strict, Len(calls))
    PROVE  ~IsRefused /\ ~DoesNotStand
  <1>1. /\ Top.id \in Ranked(strict) /\ Parsed
        /\ \A k \in 1 .. Len(calls) - 1 : calls[k].id # Top.id
    BY TopOnPath
  <1>2. /\ Top.id \in 0 .. GetXrefSize - 1
        /\ IsType(Top.id, "Existing") \/ IsType(Top.id, "StreamObject")
    BY <1>1, RankedIsInTable
  <1>3. IsType(Top.id, "Existing") => Stands(Top.id)
    BY <1>1, RankedStanding
  <1> QED
    BY <1>1, <1>2, <1>3 DEF IsRefused, DoesNotStand, CanBeEntered

(* A member on the way has its stream, the Length of it, and its place.    *)
LEMMA IsAnswered ==
    ASSUME NEW strict \in BOOLEAN, PathInv(strict), Guided(strict), IsInside,
           OnPath(strict, Len(calls))
    PROVE  ~IsNotHeld
  <1>1. calls # <<>> /\ Top.step \in {"stream", "length", "reopened"} /\ Top.step # "called"
    BY DEF IsInside
  <1>2. /\ Top.id \in Ranked(strict) /\ Parsed /\ CallInv
        /\ Len(calls) \in Nat \ {0} /\ Top = calls[Len(calls)]
    BY <1>1, TopOnPath, CallsTyped DEF PathInv, CallInv
  <1>3. /\ HasAnswer /\ WantedAt(Len(calls)) = Wanted(Top) /\ Entered(Top)
        /\ answer.what = "stream" => IsStream(answer, Wanted(Top))
        /\ answer \in Answers /\ file \in Files
    BY <1>1, <1>2, Waits
  <1>4. IsType(Top.id, "StreamObject")
    BY <1>1, <1>3 DEF Entered
  <1>5. OnPath(strict, Len(calls) + 1)
    <2>1. CASE strict
      BY <1>2, <2>1 DEF OnPath
    <2>2. CASE ~strict
      <3>1. \A j \in 1 .. Len(calls) : j = Len(calls) \/ j \in 1 .. Len(calls) - 1
        BY <1>2
      <3>2. \A j \in 1 .. Len(calls) - 1 : calls[j].step # "parameters"
        BY <2>2 DEF OnPath
      <3>3. Len(calls) + 1 - 1 = Len(calls)
        BY <1>2
      <3>4. Top.step # "parameters"
        BY <1>1
      <3>5. \A j \in 1 .. Len(calls) : calls[j].step # "parameters"
        BY <1>2, <3>1, <3>2, <3>4
      <3>6. (\A j \in 1 .. Len(calls) + 1 - 1 : calls[j].step # "parameters")
              => OnPath(strict, Len(calls) + 1)
        BY <2>2 DEF OnPath
      <3> QED
        BY <3>3, <3>5, <3>6
    <2> QED
      BY <2>1, <2>2
  <1>6. answer.what = KindIn(Wanted(Top))
    BY <1>3, <1>5 DEF PathInv, PathIsRight
  <1>7. Top.step # "reopened"
    <2>1. Len(calls) \in 1 .. Len(calls)
      BY <1>2
    <2> QED
      BY <1>2, <1>3, <2>1 DEF PathInv, PathIsRight
  <1>8. /\ KindIn(Position(Top.id)) = "stream"
        /\ \A stream : IsStream(stream, Position(Top.id)) =>
              /\ Len(MembersOf(stream)) <= GetXrefSize /\ Holds(stream, Top.id)
              /\ MembersOf(stream)[GetXrefEntry(Top.id).revision + 1].what # "broken"
              /\ BodyAt(stream.at).length # 0 => KindIn(BodyAt(stream.at).length) = "integer"
    BY <1>2, <1>4, RankedMember
  <1>9. CASE Top.step = "stream"
    <2>1. IsStream(answer, Position(Top.id)) /\ answer.what = "stream" /\ InHand = answer
      BY <1>3, <1>6, <1>8, <1>9 DEF Wanted, InHand
    <2>2. IsHeld /\ Len(MembersOf(answer)) <= GetXrefSize
      BY <1>8, <2>1 DEF IsHeld, MemberInHand
    <2>3. ~(Len(MembersOf(answer)) > GetXrefSize)
      <3>1. Len(MembersOf(answer)) \in Nat /\ GetXrefSize \in Nat
        BY <1>2, <1>3, BodyTyped, XrefTyped DEF MembersOf
      <3> QED
        BY <2>2, <3>1
    <2> QED
      BY <1>9, <2>1, <2>2, <2>3 DEF IsNotHeld
  <1>10. CASE Top.step = "length"
    <2>1. /\ IsStream(Top.stream, Position(Top.id)) /\ BodyAt(Top.stream.at).length # 0
          /\ Wanted(Top) = BodyAt(Top.stream.at).length /\ InHand = Top.stream
      BY <1>3, <1>10 DEF Entered, Wanted, InHand
    <2>2. IsHeld
      BY <1>8, <2>1 DEF IsHeld, MemberInHand
    <2>3. IsOpened
      BY <1>6, <1>8, <1>10, <2>1 DEF IsOpened
    <2> QED
      BY <1>10, <2>2, <2>3 DEF IsNotHeld
  <1> QED
    BY <1>1, <1>7, <1>9, <1>10

LEMMA PathStep ==
    ASSUME NEW strict \in BOOLEAN, PathInv(strict), CallStep
    PROVE  PathIsRight(strict)'
  <1>1. CallInv /\ Effects /\ UNCHANGED <<vars, asked>> /\ Parsed
    BY EffectOfStep DEF PathInv, CallInv
  <1>2. CASE /\ IsRefused \/ DoesNotStand \/ IsNotHeld
    <2>1. Return(Nothing) /\ calls # <<>> /\ UNCHANGED undefined
      BY <1>2 DEF IsRefused, DoesNotStand, IsNotHeld, CanBeEntered, Called, IsInside
    <2>2. Comes
      BY <1>1, <2>1, ReturnsNothing
    <2>3. ~(Guided(strict) /\ OnPath(strict, Len(calls)))
      <3>1. IsNotHeld => IsInside
        BY DEF IsNotHeld
      <3> QED
        BY <1>2, <2>1, <3>1, NotRefused, IsAnswered
    <2> QED
      BY <1>1, <2>1, <2>2, <2>3, PathComes
  <1>3. CASE AsksForParameters
    <2> DEFINE id == BodyAt(Position(Top.id)).parameters
    <2>1. /\ calls # <<>> /\ reading = "file" /\ UNCHANGED <<reading, undefined>>
          /\ BodyAt(Position(Top.id)).what = "stream" /\ id # 0 /\ IsType(Top.id, "Existing")
      BY <1>3 DEF AsksForParameters, CanBeEntered, Called
    <2>2. Deepens("parameters", ObjectStanding, id)
      BY <1>1, <1>3, AsksForParametersKeeps
    <2>3. ASSUME Guided(strict), OnPath(strict, Len(calls)), strict
          PROVE  id \in Ranked(strict) /\ Rank(strict, id) < Rank(strict, Top.id)
      <3>1. Top.id \in Ranked(strict)
        BY <2>1, <2>3, TopOnPath
      <3>2. id \in Below(strict, Top.id)
        BY <1>1, <2>1, <2>3, <3>1, RankedStanding
      <3> QED
        BY <1>1, <3>1, <3>2, LowerRank
    <2> HIDE DEF id
    <2> QED
      BY <1>1, <2>1, <2>2, <2>3, PathDeepens
  <1>4. CASE GivesStanding
    <2>1. /\ calls # <<>> /\ reading = "file" /\ UNCHANGED undefined /\ Stands(Top.id)
          /\ answer'.id = Top.id /\ answer'.what = BodyAt(Position(Top.id)).what
      BY <1>4 DEF GivesStanding, CanBeEntered, Called, Return, ObjectStanding
    <2>2. KindIn(Top.id) = BodyAt(Position(Top.id)).what
      BY <2>1, KindOfStanding DEF Stands
    <2>3. Comes
      BY <1>1, <1>4, GivesStandingKeeps
    <2> QED
      BY <1>1, <2>1, <2>2, <2>3, PathComes
  <1>5. CASE GivesEncrypted
    <2> DEFINE object == [Top.stream EXCEPT !.streamBy = CurrentKey(keys)]
    <2>1. /\ calls # <<>> /\ Top.step = "parameters" /\ UNCHANGED undefined /\ answer' = object
      BY <1>5 DEF GivesEncrypted, Return
    <2>2. object.id = Top.id /\ object.what = "stream" /\ IsStream(object, Top.id)
      BY <1>1, <2>1, EncryptedIsRight
    <2> HIDE DEF object
    <2>3. KindIn(Top.id) = "stream"
      BY <2>2, KindOfStanding DEF IsStream, Stands
    <2>4. Comes /\ ~Called
      BY <1>1, <1>5, <2>1, GivesEncryptedKeeps DEF Called
    <2> QED
      BY <1>1, <2>1, <2>2, <2>3, <2>4, PathComes
  <1>6. CASE GivesAnything
    <2>1. ~Guided(strict)'
      BY <1>6 DEF GivesAnything, Guided
    <2> QED
      BY <2>1 DEF PathIsRight
  <1>7. CASE AsksForStream
    <2> DEFINE id == Position(Top.id)
    <2>1. calls # <<>> /\ UNCHANGED <<reading, undefined>> /\ IsType(Top.id, "StreamObject")
      BY <1>7 DEF AsksForStream, CanBeEntered, Called
    <2>2. Deepens("stream", Nothing, id)
      BY <1>1, <1>7, AsksForStreamKeeps
    <2>3. ASSUME Guided(strict), OnPath(strict, Len(calls))
          PROVE  id \in Ranked(strict) /\ Rank(strict, id) < Rank(strict, Top.id)
      <3>1. Top.id \in Ranked(strict)
        BY <2>1, <2>3, TopOnPath
      <3>2. id \in Below(strict, Top.id)
        BY <1>1, <2>1, <3>1, RankedMember
      <3> QED
        BY <1>1, <3>1, <3>2, LowerRank
    <2> HIDE DEF id
    <2> QED
      BY <1>1, <2>1, <2>2, <2>3, PathDeepens
  <1>8. CASE AsksForLength
    <2> DEFINE id == BodyAt(answer.at).length
    <2>1. /\ calls # <<>> /\ Top.step = "stream" /\ ~Called /\ UNCHANGED <<reading, undefined>>
          /\ IsStream(answer, Position(Top.id)) /\ id # 0
      BY <1>8 DEF AsksForLength, Called
    <2>2. Deepens("length", answer, id)
      BY <1>1, <1>8, AsksForLengthKeeps
    <2>3. IsType(Top.id, "StreamObject")
      BY <1>1, <2>1, Waits DEF Entered
    <2>4. ASSUME Guided(strict), OnPath(strict, Len(calls))
          PROVE  id \in Ranked(strict) /\ Rank(strict, id) < Rank(strict, Top.id)
      <3>1. Top.id \in Ranked(strict)
        BY <2>1, <2>4, TopOnPath
      <3>2. id \in Below(strict, Top.id)
        BY <1>1, <2>1, <2>3, <3>1, RankedMember
      <3> QED
        BY <1>1, <3>1, <3>2, LowerRank
    <2> HIDE DEF id
    <2> QED
      BY <1>1, <2>1, <2>2, <2>4, PathDeepens
  <1>9. CASE AsksAgain
    <2> DEFINE id == BodyAt(Top.stream.at).length
    <2>1. /\ calls # <<>> /\ Top.step = "length" /\ ~Called /\ UNCHANGED undefined
          /\ reading' = "closed"
      BY <1>9 DEF AsksAgain, Called
    <2>2. Deepens("reopened", Top.stream, id)
      BY <1>1, <1>9, AsksAgainKeeps
    <2>3. IsType(Top.id, "StreamObject") /\ IsStream(Top.stream, Position(Top.id)) /\ id # 0
      BY <1>1, <2>1, Waits DEF Entered
    <2>4. ASSUME Guided(strict), OnPath(strict, Len(calls))
          PROVE  id \in Ranked(strict) /\ Rank(strict, id) < Rank(strict, Top.id)
      <3>1. Top.id \in Ranked(strict)
        BY <2>1, <2>4, TopOnPath
      <3>2. id \in Below(strict, Top.id)
        BY <1>1, <2>3, <3>1, RankedMember
      <3> QED
        BY <1>1, <3>1, <3>2, LowerRank
    <2> HIDE DEF id
    <2> QED
      BY <1>1, <2>1, <2>2, <2>4, PathDeepens
  <1>10. CASE GivesMember
    <2> DEFINE object == [Nothing EXCEPT !.id = Top.id, !.what = MemberInHand.what]
    <2>1. /\ calls # <<>> /\ IsInside /\ IsOpened /\ ~Called /\ UNCHANGED undefined
          /\ answer' = object
      BY <1>10 DEF GivesMember, IsInside, Called, Return
    <2>2. IsStream(InHand, Position(Top.id)) /\ IsType(Top.id, "StreamObject")
      BY <1>1, <2>1, StreamInHand DEF IsOpened
    <2>3. object.id = Top.id /\ object.what = MemberInHand.what
      BY DEF Nothing
    <2> HIDE DEF object
    <2>4. KindIn(Top.id) = MemberInHand.what
      BY <2>2, KindOfMember DEF MemberInHand
    <2>5. Comes
      BY <1>1, <1>10, GivesMemberKeeps
    <2> QED
      BY <1>1, <2>1, <2>3, <2>4, <2>5, PathComes
  <1> QED
    BY <1>1, <1>2, <1>3, <1>4, <1>5, <1>6, <1>7, <1>8, <1>9, <1>10 DEF Effects

LEMMA PathOtherwise ==
    ASSUME NEW strict \in BOOLEAN, PathInv(strict), CallInv',
           \/ \E f \in Files : Start(f)
           \/ ParseStep
           \/ \E id \in 0 .. MaxIDs : Ask(id)
           \/ UNCHANGED allVars
    PROVE  PathIsRight(strict)'
  <1>1. CallInv
    BY DEF PathInv
  <1>2. CASE \E f \in Files : Start(f)
    <2>1. calls' = <<>> /\ asked' = 0
      BY <1>2 DEF Start
    <2> QED
      BY <2>1 DEF PathIsRight, Guided
  <1>3. CASE ParseStep
    <2>1. status = "parsing" /\ UNCHANGED <<calls, asked>>
      BY <1>3 DEF ParseStep, objectVars, Step, ParsePreviousXrefs, EndOfChain, MergeXrefWithMainXref,
                  ReadNewestSection
    <2>2. calls' = <<>> /\ asked' = 0
      BY <1>1, <2>1 DEF CallInv, CallsAreRight, AnswerIsRight
    <2> QED
      BY <2>2 DEF PathIsRight, Guided
  <1>4. CASE \E id \in 0 .. MaxIDs : Ask(id)
    <2>1. PICK id \in 0 .. MaxIDs : Ask(id)
      BY <1>4
    <2>2. /\ Len(calls') = 1 /\ ~HasAnswer' /\ asked' = id
          /\ calls'[1].id = id /\ calls'[1].step = "called"
      <3>1. /\ Len(calls') = 1 /\ ~HasAnswer' /\ asked' = id /\ calls'[1] = Call(id)
        BY <1>1, <2>1, CallInvAsk
      <3> QED
        BY <3>1 DEF Call
    <2>3. ASSUME Guided(strict)' PROVE id \in Ranked(strict)'
      BY <2>2, <2>3 DEF Guided
    <2>4. \A k \in 1 .. Len(calls') : k = 1
      BY <2>2
    <2> QED
      BY <2>2, <2>3, <2>4 DEF PathIsRight
  <1>5. CASE UNCHANGED allVars
    <2>1. UNCHANGED vars /\ UNCHANGED <<calls, reading, answer, asked, undefined>>
      BY <1>5 DEF allVars, objectVars
    <2>2. /\ Ranked(strict)' = Ranked(strict) /\ \A x : Rank(strict, x)' = Rank(strict, x)
      BY <1>1, <2>1, RanksStay DEF CallInv
    <2>3. /\ status' = status /\ \A call : Wanted(call)' = Wanted(call)
          /\ \A x : KindIn(x)' = KindIn(x)
      BY <2>1, Frozen
    <2>4. /\ HasAnswer' = HasAnswer /\ WantedAt(Len(calls))' = WantedAt(Len(calls))
          /\ \A k : OnPath(strict, k)' <=> OnPath(strict, k)
      BY <2>1, <2>3 DEF HasAnswer, IsEnteredAt, WantedAt, OnPath
    <2>5. Guided(strict)' <=> Guided(strict)
      BY <2>1, <2>2, <2>3 DEF Guided
    <2>6. PICK x : x = WantedAt(Len(calls))
      OBVIOUS
    <2>7. KindIn(WantedAt(Len(calls)))' = KindIn(WantedAt(Len(calls)))
      BY <2>3, <2>4, <2>6
    <2> QED
      BY <2>1, <2>2, <2>4, <2>5, <2>7 DEF PathInv, PathIsRight
  <1> QED
    BY <1>2, <1>3, <1>4, <1>5

LEMMA PathInvInit ==
    ASSUME NEW strict \in BOOLEAN
    PROVE  ObjectsInit => PathInv(strict)
  <1> SUFFICES ASSUME ObjectsInit PROVE PathIsRight(strict)
    BY CallInvInit DEF PathInv
  <1>1. calls = <<>> /\ asked = 0
    BY DEF ObjectsInit
  <1> QED
    BY <1>1 DEF PathIsRight, Guided

LEMMA PathInvNext ==
    ASSUME NEW strict \in BOOLEAN, PathInv(strict), [ObjectsNext]_allVars
    PROVE  PathInv(strict)'
  <1>1. CallInv'
    BY CallInvNext DEF PathInv
  <1>2. CASE CallStep
    BY <1>1, <1>2, PathStep DEF PathInv
  <1>3. CASE ~CallStep
    BY <1>1, <1>3, PathOtherwise DEF PathInv, ObjectsNext
  <1> QED
    BY <1>2, <1>3

(* An object is found whenever the file, read as a whole, has it, and no   *)
(* other ever in its place, whatever was asked for before and whatever     *)
(* asks for what on the way: the cycle check refuses only what could not   *)
(* be read, and the cache never answers for another stream.                *)
THEOREM FindsWhatTheFileHas ==
    ObjectsSpec => []FindsWhatIsThere
  <1>1. ObjectsInit => FoundInv /\ PathInv(FALSE)
    BY FoundInvInit, PathInvInit
  <1>2. FoundInv /\ PathInv(FALSE) /\ [ObjectsNext]_allVars => FoundInv' /\ PathInv(FALSE)'
    BY FoundInvNext, PathInvNext
  <1>3. FoundInv /\ PathInv(FALSE) => FindsWhatIsThere
    <2> SUFFICES ASSUME FoundInv, PathInv(FALSE), Answered
                 PROVE  IF asked \in Found THEN answer.id = asked /\ answer.what = KindIn(asked)
                        ELSE answer = Nothing
      BY DEF FindsWhatIsThere
    <2>1. /\ calls = <<>> /\ asked # 0 /\ ~undefined /\ Len(calls) = 0 /\ HasAnswer
          /\ WantedAt(Len(calls)) = asked
      BY EmptySeq DEF Answered, HasAnswer, WantedAt
    <2>2. status = "success" /\ Parsed /\ GetXrefSize \in Nat
      BY <2>1, XrefTyped DEF FoundInv, CallInv, AnswerIsRight
    <2>3. CASE asked \in Found
      <3>1. GetXrefSize \in 0 .. GetXrefSize
        BY <2>2
      <3>2. asked \in Ranked(FALSE)
        BY <2>3, <3>1 DEF Found, Ranked
      <3>3. Guided(FALSE)
        BY <2>1, <2>2, <3>2 DEF Guided
      <3>4. OnPath(FALSE, Len(calls) + 1)
        <4>1. \A j \in 1 .. Len(calls) + 1 - 1 : FALSE
          BY <2>1
        <4> QED
          BY <4>1 DEF OnPath
      <3> QED
        BY <2>1, <2>3, <3>3, <3>4 DEF PathInv, PathIsRight
    <2>4. CASE asked \notin Found
      <3>1. answer # Nothing => asked \in FoundAt(GetXrefSize - 0)
        BY <2>1 DEF FoundInv, AnswersAreFound
      <3>2. GetXrefSize - 0 = GetXrefSize
        BY <2>2
      <3> QED
        BY <2>4, <3>1, <3>2 DEF FoundAt, Found
    <2> QED
      BY <2>3, <2>4
  <1> QED
    BY <1>1, <1>2, <1>3, PTL DEF ObjectsSpec

-----------------------------------------------------------------------------
(***************************************************************************)
(* The stack of keys.  While the parameters a stream asks for can be read, *)
(* nothing on the way to them leaves a key behind: the keys from that      *)
(* stream's up are those of the streams that wait for their parameters.    *)
(***************************************************************************)

(* For every call the place of the key on top, once the call has its own.  *)
Marks(f, cs, ks) ==
    /\ f \in [1 .. Len(cs) -> 1 .. Len(ks)]
    /\ f[Len(cs)] = Len(ks)
    /\ \A j, k \in 1 .. Len(cs) : j <= k => f[j] <= f[k]
    /\ \A k \in 2 .. Len(cs) : f[k] = IF cs[k].step = "parameters" THEN f[k - 1] + 1 ELSE f[k - 1]
    /\ \A k \in 1 .. Len(cs) : cs[k].step = "parameters" => ks[f[k]] = cs[k].id

LEMMA MarksBegin ==
    ASSUME NEW m \in Nat, NEW cs, NEW ks, Len(cs) = 2, Len(ks) = m + 1,
           cs[1].step = "parameters", cs[2].step # "parameters", ks[m + 1] = cs[1].id
    PROVE  \E f : Marks(f, cs, ks)
  <1> DEFINE f == [k \in 1 .. 2 |-> m + 1]
  <1>1. \A k \in 1 .. 2 : f[k] = m + 1 /\ (k = 1 \/ k = 2)
    OBVIOUS
  <1>2. f \in [1 .. 2 -> 1 .. m + 1]
    OBVIOUS
  <1> HIDE DEF f
  <1>3. Marks(f, cs, ks)
    BY <1>1, <1>2 DEF Marks
  <1> QED
    BY <1>3

LEMMA MarksStay ==
    ASSUME NEW n \in Nat, n >= 2, NEW m \in Nat, NEW cs, Len(cs) = n, NEW ks, Len(ks) = m,
           NEW f, Marks(f, cs, ks), cs[n].step # "parameters",
           NEW ds, Len(ds) = n + 1, \A k \in 1 .. n - 1 : ds[k] = cs[k],
           ds[n].step # "parameters", ds[n + 1].step # "parameters"
    PROVE  \E g : Marks(g, ds, ks)
  <1> DEFINE g == [k \in 1 .. n + 1 |-> IF k <= n THEN f[k] ELSE m]
  <1>1. /\ f \in [1 .. n -> 1 .. m] /\ f[n] = m
        /\ \A j, k \in 1 .. n : j <= k => f[j] <= f[k]
        /\ \A k \in 2 .. n : f[k] = IF cs[k].step = "parameters" THEN f[k - 1] + 1 ELSE f[k - 1]
        /\ \A k \in 1 .. n : cs[k].step = "parameters" => ks[f[k]] = cs[k].id
    BY DEF Marks
  <1>2. n \in 1 .. n /\ m \in 1 .. m
    BY <1>1
  <1>3. g \in [1 .. n + 1 -> 1 .. m] /\ (\A k \in 1 .. n : g[k] = f[k]) /\ g[n + 1] = m
    BY <1>1, <1>2
  <1> HIDE DEF g
  <1>4. \A j, k \in 1 .. n + 1 : j <= k => g[j] <= g[k]
    <2> SUFFICES ASSUME NEW j \in 1 .. n + 1, NEW k \in 1 .. n + 1, j <= k PROVE g[j] <= g[k]
      OBVIOUS
    <2>1. CASE k \in 1 .. n
      <3>1. j \in 1 .. n
        BY <2>1
      <3> QED
        BY <1>1, <1>3, <2>1, <3>1
    <2>2. CASE k = n + 1
      <3>1. g[j] \in 1 .. m
        BY <1>3
      <3> QED
        BY <1>3, <2>2, <3>1
    <2> QED
      BY <2>1, <2>2
  <1>5. \A k \in 2 .. n + 1 : g[k] = IF ds[k].step = "parameters" THEN g[k - 1] + 1 ELSE g[k - 1]
    <2> SUFFICES ASSUME NEW k \in 2 .. n + 1
                 PROVE  g[k] = IF ds[k].step = "parameters" THEN g[k - 1] + 1 ELSE g[k - 1]
      OBVIOUS
    <2>1. CASE k \in 2 .. n - 1
      <3>1. k \in 1 .. n /\ k - 1 \in 1 .. n /\ k \in 2 .. n /\ k \in 1 .. n - 1
        BY <2>1
      <3> QED
        BY <1>1, <1>3, <3>1
    <2>2. CASE k = n
      <3>1. k \in 1 .. n /\ k - 1 \in 1 .. n /\ k \in 2 .. n
        BY <2>2
      <3> QED
        BY <1>1, <1>3, <2>2, <3>1
    <2>3. CASE k = n + 1
      <3>1. k - 1 = n
        BY <2>3
      <3> QED
        BY <1>1, <1>2, <1>3, <2>3, <3>1
    <2> QED
      BY <2>1, <2>2, <2>3
  <1>6. \A k \in 1 .. n + 1 : ds[k].step = "parameters" => ks[g[k]] = ds[k].id
    <2> SUFFICES ASSUME NEW k \in 1 .. n + 1, ds[k].step = "parameters" PROVE ks[g[k]] = ds[k].id
      OBVIOUS
    <2>1. k \in 1 .. n - 1 /\ k \in 1 .. n
      <3>1. k # n /\ k # n + 1
        OBVIOUS
      <3> QED
        BY <3>1
    <2> QED
      BY <1>1, <1>3, <2>1
  <1>7. Marks(g, ds, ks)
    BY <1>3, <1>4, <1>5, <1>6 DEF Marks
  <1> QED
    BY <1>7

LEMMA MarksGrow ==
    ASSUME NEW n \in Nat, n >= 2, NEW m \in Nat, NEW cs, Len(cs) = n, NEW ks, Len(ks) = m,
           NEW f, Marks(f, cs, ks), cs[n].step # "parameters",
           NEW ds, Len(ds) = n + 1, \A k \in 1 .. n - 1 : ds[k] = cs[k],
           ds[n].step = "parameters", ds[n + 1].step # "parameters",
           NEW ls, Len(ls) = m + 1, \A i \in 1 .. m : ls[i] = ks[i], ls[m + 1] = ds[n].id
    PROVE  \E g : Marks(g, ds, ls)
  <1> DEFINE g == [k \in 1 .. n + 1 |-> IF k < n THEN f[k] ELSE m + 1]
  <1>1. /\ f \in [1 .. n -> 1 .. m] /\ f[n] = m
        /\ \A j, k \in 1 .. n : j <= k => f[j] <= f[k]
        /\ \A k \in 2 .. n : f[k] = IF cs[k].step = "parameters" THEN f[k - 1] + 1 ELSE f[k - 1]
        /\ \A k \in 1 .. n : cs[k].step = "parameters" => ks[f[k]] = cs[k].id
    BY DEF Marks
  <1>2. f[n - 1] = m
    <2>1. n \in 2 .. n
      OBVIOUS
    <2> QED
      BY <1>1, <2>1
  <1>3. /\ g \in [1 .. n + 1 -> 1 .. m + 1]
        /\ \A k \in 1 .. n - 1 : g[k] = f[k] /\ f[k] \in 1 .. m
        /\ g[n] = m + 1 /\ g[n + 1] = m + 1
    <2>1. \A k \in 1 .. n + 1 : k < n => f[k] \in 1 .. m
      BY <1>1
    <2>2. \A k \in 1 .. n - 1 : k \in 1 .. n + 1 /\ k < n
      OBVIOUS
    <2>3. n \in 1 .. n + 1 /\ n + 1 \in 1 .. n + 1 /\ ~(n < n) /\ ~(n + 1 < n)
      OBVIOUS
    <2> QED
      BY <2>1, <2>2, <2>3
  <1> HIDE DEF g
  <1>4. \A j, k \in 1 .. n + 1 : j <= k => g[j] <= g[k]
    <2> SUFFICES ASSUME NEW j \in 1 .. n + 1, NEW k \in 1 .. n + 1, j <= k PROVE g[j] <= g[k]
      OBVIOUS
    <2>1. CASE k \in 1 .. n - 1
      <3>1. j \in 1 .. n - 1 /\ j \in 1 .. n /\ k \in 1 .. n
        BY <2>1
      <3> QED
        BY <1>1, <1>3, <2>1, <3>1
    <2>2. CASE k = n \/ k = n + 1
      <3>1. g[j] \in 1 .. m + 1
        BY <1>3
      <3> QED
        BY <1>3, <2>2, <3>1
    <2> QED
      BY <2>1, <2>2
  <1>5. \A k \in 2 .. n + 1 : g[k] = IF ds[k].step = "parameters" THEN g[k - 1] + 1 ELSE g[k - 1]
    <2> SUFFICES ASSUME NEW k \in 2 .. n + 1
                 PROVE  g[k] = IF ds[k].step = "parameters" THEN g[k - 1] + 1 ELSE g[k - 1]
      OBVIOUS
    <2>1. CASE k \in 2 .. n - 1
      <3>1. k - 1 \in 1 .. n - 1 /\ k \in 2 .. n /\ k \in 1 .. n - 1
        BY <2>1
      <3> QED
        BY <1>1, <1>3, <3>1
    <2>2. CASE k = n
      <3>1. k - 1 \in 1 .. n - 1 /\ k - 1 = n - 1
        BY <2>2
      <3> QED
        BY <1>2, <1>3, <2>2, <3>1
    <2>3. CASE k = n + 1
      <3>1. k - 1 = n
        BY <2>3
      <3> QED
        BY <1>3, <2>3, <3>1
    <2> QED
      BY <2>1, <2>2, <2>3
  <1>6. \A k \in 1 .. n + 1 : ds[k].step = "parameters" => ls[g[k]] = ds[k].id
    <2> SUFFICES ASSUME NEW k \in 1 .. n + 1, ds[k].step = "parameters" PROVE ls[g[k]] = ds[k].id
      OBVIOUS
    <2>1. CASE k \in 1 .. n - 1
      <3>1. k \in 1 .. n /\ g[k] = f[k] /\ f[k] \in 1 .. m /\ ds[k] = cs[k]
        BY <1>3, <2>1
      <3> QED
        BY <1>1, <3>1
    <2>2. CASE k = n
      BY <1>3, <2>2
    <2>3. k # n + 1
      OBVIOUS
    <2> QED
      BY <2>1, <2>2, <2>3
  <1>7. Marks(g, ds, ls)
    BY <1>3, <1>4, <1>5, <1>6 DEF Marks
  <1> QED
    BY <1>7

LEMMA MarksFront ==
    ASSUME NEW n \in Nat, n >= 2, NEW m \in Nat, NEW cs, Len(cs) = n, NEW ks, Len(ks) = m,
           NEW f, Marks(f, cs, ks),
           NEW ds, Len(ds) = n - 1, \A k \in 1 .. n - 1 : ds[k] = cs[k],
           NEW ls, Len(ls) = (IF cs[n].step = "parameters" THEN m - 1 ELSE m),
           \A i \in 1 .. Len(ls) : ls[i] = ks[i]
    PROVE  \E g : Marks(g, ds, ls)
  <1> DEFINE g == [k \in 1 .. n - 1 |-> f[k]]
  <1>1. /\ f \in [1 .. n -> 1 .. m] /\ f[n] = m
        /\ \A j, k \in 1 .. n : j <= k => f[j] <= f[k]
        /\ \A k \in 2 .. n : f[k] = IF cs[k].step = "parameters" THEN f[k - 1] + 1 ELSE f[k - 1]
        /\ \A k \in 1 .. n : cs[k].step = "parameters" => ks[f[k]] = cs[k].id
    BY DEF Marks
  <1>2. n \in 2 .. n /\ n - 1 \in 1 .. n - 1 /\ \A k \in 1 .. n - 1 : k \in 1 .. n
    OBVIOUS
  <1>3. f[n - 1] = Len(ls) /\ Len(ls) \in Int
    <2>1. f[n - 1] \in 1 .. m
      BY <1>1, <1>2
    <2> QED
      BY <1>1, <1>2, <2>1
  <1>4. \A k \in 1 .. n - 1 : f[k] \in 1 .. Len(ls) /\ f[k] \in 1 .. m
    <2> SUFFICES ASSUME NEW k \in 1 .. n - 1 PROVE f[k] \in 1 .. Len(ls) /\ f[k] \in 1 .. m
      OBVIOUS
    <2>1. f[k] <= f[n - 1]
      BY <1>1, <1>2
    <2>2. f[k] \in 1 .. m
      BY <1>1, <1>2
    <2> QED
      BY <1>3, <2>1, <2>2
  <1>5. g \in [1 .. n - 1 -> 1 .. Len(ls)] /\ \A k \in 1 .. n - 1 : g[k] = f[k]
    BY <1>4
  <1> HIDE DEF g
  <1>6. \A k \in 2 .. n - 1 : g[k] = IF ds[k].step = "parameters" THEN g[k - 1] + 1 ELSE g[k - 1]
    <2> SUFFICES ASSUME NEW k \in 2 .. n - 1
                 PROVE  g[k] = IF ds[k].step = "parameters" THEN g[k - 1] + 1 ELSE g[k - 1]
      OBVIOUS
    <2>1. k \in 1 .. n - 1 /\ k - 1 \in 1 .. n - 1 /\ k \in 2 .. n
      OBVIOUS
    <2> QED
      BY <1>1, <1>5, <2>1
  <1>7. \A k \in 1 .. n - 1 : ds[k].step = "parameters" => ls[g[k]] = ds[k].id
    BY <1>1, <1>2, <1>4, <1>5
  <1>8. \A j, k \in 1 .. n - 1 : j <= k => g[j] <= g[k]
    BY <1>1, <1>2, <1>5
  <1>9. Marks(g, ds, ls)
    BY <1>2, <1>3, <1>5, <1>6, <1>7, <1>8 DEF Marks
  <1> QED
    BY <1>9

KeyStackIsRight == Guided(TRUE) => \E f : Marks(f, calls, keys)

(* The stream that the program has been given has its own key.             *)
StreamKeyIsRight ==
    /\ calls = <<>> /\ ~undefined /\ answer.what = "stream" /\ file.encrypted
    /\ BodyAt(answer.at).parameters # 0 /\ BodyAt(answer.at).parameters \in Ranked(TRUE)
    => answer.streamBy = asked

KeyInv == PathInv(TRUE) /\ KeyStackIsRight /\ StreamKeyIsRight

(* While parameters are read the bottom call stays, and was there before.  *)
LEMMA WasGuided ==
    ASSUME CallInv, UNCHANGED <<vars, undefined>>, calls # <<>>, Guided(TRUE)', calls' \in Seq(Calls),
           Len(calls) = 1 => Len(calls') = 0,
           \A k \in 1 .. Len(calls) - 1 : calls'[k] = calls[k]
    PROVE  /\ Guided(TRUE) /\ Len(calls) \in Nat /\ Len(calls) >= 2
           /\ OnPath(TRUE, Len(calls))
  <1>1. Parsed /\ Len(calls) \in Nat \ {0}
    BY CallsTyped DEF CallInv
  <1>2. /\ Ranked(TRUE)' = Ranked(TRUE) /\ status' = status
        /\ \A call : Wanted(call)' = Wanted(call)
    BY <1>1, RanksStay, Frozen
  <1>3. /\ calls' # <<>> /\ calls'[1].step = "parameters" /\ Wanted(calls[1])' \in Ranked(TRUE)
        /\ ~undefined' /\ status' = "success"
    BY <1>2 DEF Guided
  <1>4. Len(calls') # 0
    BY <1>3, EmptySeq
  <1>5. Len(calls) >= 2 /\ 1 \in 1 .. Len(calls) - 1
    <2>1. Len(calls) # 1
      BY <1>4
    <2>2. \A n \in Nat \ {0} : n # 1 => n >= 2 /\ 1 \in 1 .. n - 1
      OBVIOUS
    <2> QED
      BY <1>1, <2>1, <2>2
  <1>6. calls'[1] = calls[1]
    BY <1>5
  <1>7. Wanted(calls[1])' = Wanted(calls[1])
    BY <1>2, <1>6
  <1> QED
    BY <1>1, <1>2, <1>3, <1>5, <1>6, <1>7 DEF Guided, OnPath

LEMMA KeysStay ==
    ASSUME KeyInv, calls # <<>>, UNCHANGED <<vars, keys, undefined>>,
           NEW step, NEW stream, NEW id, Deepens(step, stream, id),
           Top.step # "parameters", step # "parameters"
    PROVE  KeyStackIsRight'
  <1> SUFFICES ASSUME Guided(TRUE)' PROVE \E g : Marks(g, calls', keys')
    BY DEF KeyStackIsRight
  <1>1. CallInv /\ Len(calls) \in Nat \ {0} /\ Top = calls[Len(calls)] /\ keys \in Seq(Nat)
    BY CallsTyped DEF KeyInv, PathInv, CallInv, SharedIsRight
  <1>2. /\ calls' \in Seq(Calls) /\ Len(calls') = Len(calls) + 1
        /\ \A k \in 1 .. Len(calls) - 1 : calls'[k] = calls[k]
        /\ calls'[Len(calls)].step = step /\ calls'[Len(calls) + 1].step = "called"
    BY DEF Deepens, CallsAreRight, Call
  <1>3. Len(calls) # 1
    <2>1. ASSUME Len(calls) = 1 PROVE calls'[1].step = step
      BY <1>2, <2>1
    <2> QED
      BY <2>1 DEF Guided
  <1>4. Guided(TRUE) /\ Len(calls) >= 2
    BY <1>1, <1>2, <1>3, WasGuided
  <1>5. PICK f : Marks(f, calls, keys)
    BY <1>4 DEF KeyInv, KeyStackIsRight
  <1>6. /\ Len(keys) \in Nat /\ calls[Len(calls)].step # "parameters"
        /\ calls'[Len(calls)].step # "parameters" /\ calls'[Len(calls) + 1].step # "parameters"
    BY <1>1, <1>2
  <1>7. \E g : Marks(g, calls', keys)
    BY <1>1, <1>2, <1>4, <1>5, <1>6, MarksStay
  <1> QED
    BY <1>7

LEMMA KeysGrow ==
    ASSUME KeyInv, calls # <<>>, UNCHANGED <<vars, undefined>>, keys' = Append(keys, Top.id),
           NEW stream, NEW id, Deepens("parameters", stream, id), Called
    PROVE  KeyStackIsRight'
  <1> SUFFICES ASSUME Guided(TRUE)' PROVE \E g : Marks(g, calls', keys')
    BY DEF KeyStackIsRight
  <1>1. /\ CallInv /\ Len(calls) \in Nat \ {0} /\ Top = calls[Len(calls)] /\ keys \in Seq(Nat)
        /\ Top.id \in Nat
    BY CallsTyped DEF KeyInv, PathInv, CallInv, SharedIsRight
  <1>2. /\ calls' \in Seq(Calls) /\ Len(calls') = Len(calls) + 1
        /\ \A k \in 1 .. Len(calls) - 1 : calls'[k] = calls[k]
        /\ calls'[Len(calls)].step = "parameters" /\ calls'[Len(calls)].id = Top.id
        /\ calls'[Len(calls) + 1].step = "called"
    BY DEF Deepens, CallsAreRight, Call
  <1>3. /\ Len(keys) \in Nat /\ Len(keys') = Len(keys) + 1
        /\ \A i \in 1 .. Len(keys) : keys'[i] = keys[i]
        /\ keys'[Len(keys) + 1] = Top.id
    BY <1>1, Appended
  <1>4. CASE Len(calls) = 1
    <2>1. /\ Len(calls') = 2 /\ calls'[1].step = "parameters" /\ calls'[2].step # "parameters"
          /\ keys'[Len(keys) + 1] = calls'[1].id
      BY <1>2, <1>3, <1>4
    <2> QED
      BY <1>3, <2>1, MarksBegin
  <1>5. CASE Len(calls) # 1
    <2>1. Guided(TRUE) /\ Len(calls) >= 2
      BY <1>1, <1>2, <1>5, WasGuided
    <2>2. PICK f : Marks(f, calls, keys)
      BY <2>1 DEF KeyInv, KeyStackIsRight
    <2>3. /\ calls[Len(calls)].step # "parameters" /\ calls'[Len(calls) + 1].step # "parameters"
          /\ keys'[Len(keys) + 1] = calls'[Len(calls)].id
      BY <1>1, <1>2, <1>3 DEF Called
    <2>4. PICK ds : ds = calls'
      OBVIOUS
    <2>5. PICK ls : ls = keys'
      OBVIOUS
    <2>6. /\ Len(ds) = Len(calls) + 1 /\ \A k \in 1 .. Len(calls) - 1 : ds[k] = calls[k]
          /\ ds[Len(calls)].step = "parameters" /\ ds[Len(calls) + 1].step # "parameters"
      BY <1>2, <2>3, <2>4
    <2>7. /\ Len(ls) = Len(keys) + 1 /\ \A i \in 1 .. Len(keys) : ls[i] = keys[i]
          /\ ls[Len(keys) + 1] = ds[Len(calls)].id
      BY <1>3, <2>3, <2>4, <2>5
    <2>8. PICK n : n = Len(calls)
      OBVIOUS
    <2>9. PICK m : m = Len(keys)
      OBVIOUS
    <2>10. PICK cs : cs = calls
      OBVIOUS
    <2>11. PICK ks : ks = keys
      OBVIOUS
    <2>12. /\ n \in Nat /\ n >= 2 /\ m \in Nat /\ Len(cs) = n /\ Len(ks) = m
           /\ Marks(f, cs, ks) /\ cs[n].step # "parameters"
      BY <1>1, <1>3, <2>1, <2>2, <2>3, <2>8, <2>9, <2>10, <2>11
    <2>13. /\ Len(ds) = n + 1 /\ \A k \in 1 .. n - 1 : ds[k] = cs[k]
           /\ ds[n].step = "parameters" /\ ds[n + 1].step # "parameters"
      BY <2>6, <2>8, <2>10
    <2>14. /\ Len(ls) = m + 1 /\ \A i \in 1 .. m : ls[i] = ks[i]
           /\ ls[m + 1] = ds[n].id
      BY <2>7, <2>8, <2>9, <2>11
    <2>15. \E g : Marks(g, ds, ls)
      <3>1. n + 1 \in Nat /\ m + 1 \in Nat
        BY <2>12
      <3> QED
        BY <2>12, <2>13, <2>14, <3>1, MarksGrow, Z3T(60)
    <2> QED
      BY <2>4, <2>5, <2>15
  <1> QED
    BY <1>4, <1>5

LEMMA KeysComeOff ==
    ASSUME KeyInv, UNCHANGED <<vars, undefined>>, Comes,
           Guided(TRUE) /\ OnPath(TRUE, Len(calls)) =>
               keys' = IF Top.step = "parameters" THEN Front(keys) ELSE keys
    PROVE  KeyStackIsRight'
  <1> SUFFICES ASSUME Guided(TRUE)' PROVE \E g : Marks(g, calls', keys')
    BY DEF KeyStackIsRight
  <1>1. /\ CallInv /\ calls # <<>> /\ Len(calls) \in Nat \ {0} /\ Top = calls[Len(calls)]
        /\ keys \in Seq(Nat) /\ Len(keys) \in Nat
    BY CallsTyped DEF KeyInv, PathInv, CallInv, SharedIsRight, Comes
  <1>2. /\ calls' \in Seq(Calls) /\ Len(calls') = Len(calls) - 1
        /\ \A k \in 1 .. Len(calls) - 1 : calls'[k] = calls[k]
    BY DEF Comes, CallsAreRight
  <1>3. Guided(TRUE) /\ Len(calls) >= 2 /\ OnPath(TRUE, Len(calls))
    <2>1. Len(calls) = 1 => Len(calls') = 0
      BY <1>2
    <2> QED
      BY <1>1, <1>2, <2>1, WasGuided
  <1>4. PICK f : Marks(f, calls, keys)
    BY <1>3 DEF KeyInv, KeyStackIsRight
  <1>5. keys' = IF Top.step = "parameters" THEN Front(keys) ELSE keys
    BY <1>3
  <1>6. keys # <<>>
    <2>1. f[1] \in 1 .. Len(keys)
      <3>1. 1 \in 1 .. Len(calls)
        BY <1>1
      <3> QED
        BY <1>4, <3>1 DEF Marks
    <2>2. Len(keys) # 0
      BY <2>1
    <2> QED
      BY <2>2, EmptySeq
  <1>7. Len(Front(keys)) = Len(keys) - 1 /\ \A i \in 1 .. Len(keys) - 1 : Front(keys)[i] = keys[i]
    BY <1>1, <1>6, FrontAndLast
  <1>8. /\ Len(keys') = IF calls[Len(calls)].step = "parameters" THEN Len(keys) - 1 ELSE Len(keys)
        /\ \A i \in 1 .. Len(keys') : keys'[i] = keys[i]
    BY <1>1, <1>5, <1>7
  <1>9. PICK ds : ds = calls'
    OBVIOUS
  <1>10. PICK ls : ls = keys'
    OBVIOUS
  <1>11. Len(ds) = Len(calls) - 1 /\ \A k \in 1 .. Len(calls) - 1 : ds[k] = calls[k]
    BY <1>2, <1>9
  <1>12. /\ Len(ls) = IF calls[Len(calls)].step = "parameters" THEN Len(keys) - 1 ELSE Len(keys)
         /\ \A i \in 1 .. Len(ls) : ls[i] = keys[i]
    BY <1>8, <1>10
  <1>13. \E g : Marks(g, ds, ls)
    BY <1>1, <1>3, <1>4, <1>11, <1>12, MarksFront
  <1> QED
    BY <1>9, <1>10, <1>13

LEMMA KeyStackStep ==
    ASSUME KeyInv, CallStep
    PROVE  KeyStackIsRight'
  <1>1. CallInv /\ PathInv(TRUE) /\ Effects /\ UNCHANGED <<vars, asked>>
    BY EffectOfStep DEF KeyInv, PathInv
  <1>2. CASE IsRefused \/ DoesNotStand \/ IsNotHeld
    <2>1. Return(Nothing) /\ calls # <<>> /\ UNCHANGED undefined
      BY <1>2 DEF IsRefused, DoesNotStand, IsNotHeld, CanBeEntered, Called, IsInside
    <2>2. Comes
      BY <1>1, <2>1, ReturnsNothing
    <2>3. ~(Guided(TRUE) /\ OnPath(TRUE, Len(calls)))
      <3>1. IsNotHeld => IsInside
        BY DEF IsNotHeld
      <3> QED
        BY <1>1, <1>2, <2>1, <3>1, NotRefused, IsAnswered
    <2> QED
      BY <1>1, <2>1, <2>2, <2>3, KeysComeOff
  <1>3. CASE AsksForParameters
    <2>1. calls # <<>> /\ Called /\ UNCHANGED undefined /\ keys' = Append(keys, Top.id)
      BY <1>3 DEF AsksForParameters, CanBeEntered, Called
    <2> QED
      BY <1>1, <1>3, <2>1, AsksForParametersKeeps, KeysGrow
  <1>4. CASE GivesStanding
    <2>1. Top.step # "parameters" /\ UNCHANGED <<keys, undefined>>
      BY <1>4 DEF GivesStanding, CanBeEntered, Called
    <2> QED
      BY <1>1, <1>4, <2>1, GivesStandingKeeps, KeysComeOff
  <1>5. CASE GivesEncrypted
    <2>1. Top.step = "parameters" /\ keys' = Front(keys) /\ UNCHANGED undefined
      BY <1>5 DEF GivesEncrypted
    <2> QED
      BY <1>1, <1>5, <2>1, GivesEncryptedKeeps, KeysComeOff
  <1>6. CASE GivesAnything
    <2>1. ~Guided(TRUE)'
      BY <1>6 DEF GivesAnything, Guided
    <2> QED
      BY <2>1 DEF KeyStackIsRight
  <1>7. CASE AsksForStream
    <2>1. calls # <<>> /\ Top.step # "parameters" /\ UNCHANGED <<keys, undefined>>
      BY <1>7 DEF AsksForStream, CanBeEntered, Called
    <2> QED
      BY <1>1, <1>7, <2>1, AsksForStreamKeeps, KeysStay
  <1>8. CASE AsksForLength
    <2>1. calls # <<>> /\ Top.step # "parameters" /\ UNCHANGED <<keys, undefined>>
      BY <1>8 DEF AsksForLength
    <2> QED
      BY <1>1, <1>8, <2>1, AsksForLengthKeeps, KeysStay
  <1>9. CASE AsksAgain
    <2>1. calls # <<>> /\ Top.step # "parameters" /\ UNCHANGED <<keys, undefined>>
      BY <1>9 DEF AsksAgain
    <2> QED
      BY <1>1, <1>9, <2>1, AsksAgainKeeps, KeysStay
  <1>10. CASE GivesMember
    <2>1. Top.step # "parameters" /\ UNCHANGED <<keys, undefined>>
      BY <1>10 DEF GivesMember, IsInside
    <2> QED
      BY <1>1, <1>10, <2>1, GivesMemberKeeps, KeysComeOff
  <1> QED
    BY <1>1, <1>2, <1>3, <1>4, <1>5, <1>6, <1>7, <1>8, <1>9, <1>10 DEF Effects

LEMMA StreamKeyStep ==
    ASSUME KeyInv, CallStep
    PROVE  StreamKeyIsRight'
  <1>1. CallInv /\ Parsed /\ Effects /\ UNCHANGED <<vars, asked>>
    BY EffectOfStep DEF KeyInv, PathInv, CallInv
  <1>2. /\ UNCHANGED <<file, status>> /\ Ranked(TRUE)' = Ranked(TRUE)
        /\ \A position : BodyAt(position)' = BodyAt(position)
    BY <1>1, RanksStay, Frozen
  <1> SUFFICES ASSUME calls' = <<>>, ~undefined', answer'.what = "stream", file.encrypted,
                      BodyAt(answer'.at).parameters # 0,
                      BodyAt(answer'.at).parameters \in Ranked(TRUE)
               PROVE  answer'.streamBy = asked'
    <2>1. PICK at : at = answer'.at
      OBVIOUS
    <2>2. BodyAt(answer.at)' = BodyAt(at)
      BY <1>2, <2>1
    <2> QED
      BY <1>2, <2>1, <2>2 DEF StreamKeyIsRight
  <1>3. Len(calls') = 0
    BY EmptySeq
  <1>4. CASE IsRefused \/ DoesNotStand \/ IsNotHeld
    BY <1>4, NothingTyped DEF IsRefused, DoesNotStand, IsNotHeld, Return
  <1>5. CASE AsksForParameters \/ AsksForStream \/ AsksForLength \/ AsksAgain
    <2>1. calls # <<>>
      BY <1>5 DEF AsksForParameters, AsksForStream, AsksForLength, AsksAgain, CanBeEntered, Called
    <2>2. Len(calls') = Len(calls) + 1 /\ Len(calls) \in Nat
      BY <1>1, <1>5, <2>1, CallsTyped, AsksForParametersKeeps, AsksForStreamKeeps,
         AsksForLengthKeeps, AsksAgainKeeps DEF Deepens, CallInv
    <2> QED
      BY <1>3, <2>2
  <1>6. CASE GivesStanding
    <2>1. /\ answer'.what = BodyAt(Position(Top.id)).what /\ answer'.at = Position(Top.id)
          /\ BodyAt(Position(Top.id)).what = "stream" /\ file.encrypted =>
                BodyAt(Position(Top.id)).parameters = 0
      BY <1>6 DEF GivesStanding, Return, ObjectStanding
    <2> QED
      BY <2>1
  <1>7. CASE GivesAnything
    BY <1>7 DEF GivesAnything
  <1>8. CASE GivesMember
    <2> DEFINE object == [Nothing EXCEPT !.id = Top.id, !.what = MemberInHand.what]
    <2>1. calls # <<>> /\ IsInside /\ IsOpened /\ IsHeld /\ answer' = object
      BY <1>8 DEF GivesMember, IsInside, Return
    <2>2. InHand \in Answers /\ IsStream(InHand, Position(Top.id)) /\ IsType(Top.id, "StreamObject")
      BY <1>1, <2>1, StreamInHand DEF IsOpened
    <2>3. object.what # "stream"
      BY <1>1, <2>1, <2>2, MemberIsRight DEF IsHeld, MemberInHand
    <2> HIDE DEF object
    <2> QED
      BY <2>1, <2>3
  <1>9. CASE GivesEncrypted
    <2> DEFINE object == [Top.stream EXCEPT !.streamBy = CurrentKey(keys)]
    <2>1. /\ calls # <<>> /\ Top.step = "parameters" /\ UNCHANGED undefined /\ answer' = object
      BY <1>9 DEF GivesEncrypted, Return
    <2>2. object.streamBy = CurrentKey(keys) /\ object.at = Top.stream.at
      BY <1>1, <2>1, EncryptedIsRight
    <2> HIDE DEF object
    <2>3. Comes
      BY <1>1, <1>9, GivesEncryptedKeeps
    <2>4. /\ Len(calls) \in Nat \ {0} /\ Top = calls[Len(calls)] /\ status = "success"
          /\ Top.id = WantedAt(Len(calls) - 1)
      BY <1>1, <2>1, CallsTyped DEF CallInv
    <2>5. Len(calls) = 1 /\ Top = calls[1] /\ Top.id = asked
      <3>1. Len(calls) = 1
        BY <1>3, <2>3, <2>4 DEF Comes
      <3>2. Len(calls) - 1 = 0
        BY <3>1
      <3> QED
        BY <2>4, <3>1, <3>2 DEF WantedAt
    <2>6. Wanted(Top) = BodyAt(answer'.at).parameters
      BY <2>1, <2>2 DEF Wanted
    <2>7. Guided(TRUE)
      BY <2>1, <2>4, <2>5, <2>6 DEF Guided
    <2>8. PICK f : Marks(f, calls, keys)
      BY <2>7 DEF KeyInv, KeyStackIsRight
    <2>9. /\ f[1] \in 1 .. Len(keys) /\ f[1] = Len(keys) /\ keys[f[1]] = asked
      <3>1. 1 \in 1 .. Len(calls)
        BY <2>5
      <3> QED
        BY <2>1, <2>5, <2>8, <3>1 DEF Marks
    <2>10. keys # <<>>
      <3>1. keys \in Seq(Nat) /\ Len(keys) \in Nat
        BY <1>1 DEF CallInv, SharedIsRight
      <3>2. Len(keys) # 0
        BY <2>9, <3>1
      <3> QED
        BY <3>2, EmptySeq
    <2>11. CurrentKey(keys) = asked
      BY <2>9, <2>10 DEF CurrentKey, Last
    <2> QED
      BY <1>1, <2>1, <2>2, <2>11
  <1> QED
    BY <1>1, <1>4, <1>5, <1>6, <1>7, <1>8, <1>9 DEF Effects

LEMMA KeyInvOtherwise ==
    ASSUME KeyInv, PathInv(TRUE)',
           \/ \E f \in Files : Start(f)
           \/ ParseStep
           \/ \E id \in 0 .. MaxIDs : Ask(id)
           \/ UNCHANGED allVars
    PROVE  KeyInv'
  <1>1. CallInv
    BY DEF KeyInv, PathInv
  <1>2. CASE \E f \in Files : Start(f)
    <2>1. calls' = <<>> /\ answer' = Nothing
      BY <1>2 DEF Start
    <2> QED
      BY <2>1, NothingTyped DEF KeyInv, KeyStackIsRight, StreamKeyIsRight, Guided
  <1>3. CASE ParseStep
    <2>1. status = "parsing" /\ UNCHANGED <<calls, answer>>
      BY <1>3 DEF ParseStep, objectVars, Step, ParsePreviousXrefs, EndOfChain, MergeXrefWithMainXref,
                  ReadNewestSection
    <2>2. calls' = <<>> /\ answer' = Nothing
      BY <1>1, <2>1 DEF CallInv, CallsAreRight, AnswerIsRight
    <2> QED
      BY <2>2, NothingTyped DEF KeyInv, KeyStackIsRight, StreamKeyIsRight, Guided
  <1>4. CASE \E id \in 0 .. MaxIDs : Ask(id)
    <2>1. PICK id \in 0 .. MaxIDs : Ask(id)
      BY <1>4
    <2>2. /\ Len(calls') = 1 /\ answer' = Nothing /\ calls'[1] = Call(id)
      BY <1>1, <2>1, CallInvAsk
    <2>3. calls'[1].step = "called"
      BY <2>2 DEF Call
    <2> QED
      BY <2>2, <2>3, NothingTyped DEF KeyInv, KeyStackIsRight, StreamKeyIsRight, Guided
  <1>5. CASE UNCHANGED allVars
    <2>1. UNCHANGED vars /\ UNCHANGED <<calls, keys, answer, asked, undefined>>
      BY <1>5 DEF allVars, objectVars
    <2>2. Ranked(TRUE)' = Ranked(TRUE)
      BY <1>1, <2>1, RanksStay DEF CallInv
    <2>3. /\ UNCHANGED <<file, status>> /\ (\A call : Wanted(call)' = Wanted(call))
          /\ \A position : BodyAt(position)' = BodyAt(position)
      BY <2>1, Frozen
    <2>4. KeyStackIsRight'
      BY <2>1, <2>2, <2>3 DEF KeyInv, KeyStackIsRight, Guided
    <2>5. StreamKeyIsRight'
      BY <2>1, <2>2, <2>3 DEF KeyInv, StreamKeyIsRight
    <2> QED
      BY <2>4, <2>5 DEF KeyInv
  <1> QED
    BY <1>2, <1>3, <1>4, <1>5

LEMMA KeyInvInit ==
    ObjectsInit => KeyInv
  <1> SUFFICES ASSUME ObjectsInit PROVE KeyStackIsRight /\ StreamKeyIsRight
    BY PathInvInit DEF KeyInv
  <1>1. calls = <<>> /\ answer = Nothing
    BY DEF ObjectsInit
  <1> QED
    BY <1>1, NothingTyped DEF KeyStackIsRight, StreamKeyIsRight, Guided

LEMMA KeyInvNext ==
    ASSUME KeyInv, [ObjectsNext]_allVars
    PROVE  KeyInv'
  <1>1. PathInv(TRUE)'
    BY PathInvNext DEF KeyInv
  <1>2. CASE CallStep
    BY <1>1, <1>2, KeyStackStep, StreamKeyStep DEF KeyInv
  <1>3. CASE ~CallStep
    BY <1>1, <1>3, KeyInvOtherwise DEF ObjectsNext
  <1> QED
    BY <1>2, <1>3

(* The strings of an object in the file are decrypted with its own key,    *)
(* those in object streams with none; a stream is given its own key unless *)
(* the parameters of its crypt filter cannot be read; and this however     *)
(* many objects that could not be parsed have left their keys.             *)
THEOREM KeysAreAlwaysRight ==
    ObjectsSpec => []KeysAreRight
  <1>1. KeyInv => KeysAreRight
    <2> SUFFICES ASSUME KeyInv, Answered, answer # Nothing
                 PROVE  /\ answer.stringsBy = IF file.encrypted /\ GetXrefEntry(asked).type = "Existing"
                                              THEN asked ELSE 0
                        /\ answer.what = "stream" =>
                              \/ answer.streamBy = IF file.encrypted THEN asked ELSE 0
                              \/ /\ file.encrypted /\ BodyAt(answer.at).parameters # 0
                                 /\ BodyAt(answer.at).parameters \notin Readable
      BY NothingTyped DEF KeysAreRight, StringsHaveTheirKey, StreamsHaveTheirKey
    <2>1. /\ calls = <<>> /\ asked # 0 /\ ~undefined /\ Len(calls) = 0 /\ HasAnswer
          /\ WantedAt(Len(calls)) = asked
      BY EmptySeq DEF Answered, HasAnswer, WantedAt
    <2>2. IsRight(answer, asked) /\ Parsed /\ GetXrefSize \in Nat
      BY <2>1, XrefTyped DEF KeyInv, PathInv, CallInv, AnswerIsRight
    <2>3. status = "success" /\ file \in Files
      BY <2>1 DEF KeyInv, PathInv, CallInv, AnswerIsRight, Parsed
    <2>4. Readable \subseteq Ranked(TRUE)
      <3>1. GetXrefSize \in 0 .. GetXrefSize
        BY <2>2
      <3> QED
        BY <3>1 DEF Readable, Ranked
    <2>5. answer.stringsBy = IF file.encrypted /\ GetXrefEntry(asked).type = "Existing" THEN asked ELSE 0
      BY <2>2 DEF IsRight, IsType
    <2>6. ASSUME answer.what = "stream", file.encrypted, BodyAt(answer.at).parameters # 0,
                 BodyAt(answer.at).parameters \in Readable
          PROVE  answer.streamBy = asked
      BY <2>1, <2>4, <2>6 DEF KeyInv, StreamKeyIsRight
    <2>7. /\ answer.what = "stream" /\ ~file.encrypted => answer.streamBy = 0
          /\ answer.what = "stream" /\ file.encrypted /\ BodyAt(answer.at).parameters = 0 =>
                answer.streamBy = asked
      BY <2>2 DEF IsRight
    <2> QED
      BY <2>5, <2>6, <2>7
  <1> QED
    BY <1>1, KeyInvInit, KeyInvNext, PTL DEF ObjectsSpec

-----------------------------------------------------------------------------
(***************************************************************************)
(* What a table says of an object.                                         *)
(***************************************************************************)
TableEntry(table, id) == IF id < Len(table) THEN table[id + 1] ELSE EmptyEntry

LEMMA TableEntryTyped ==
    ASSUME NEW table \in Seq(Entries), NEW id \in Nat
    PROVE  TableEntry(table, id) \in Entries
  <1>1. EmptyEntry \in Entries
    BY DEF EmptyEntry, Entries
  <1>2. CASE id < Len(table)
    <2>1. id + 1 \in 1 .. Len(table)
      BY <1>2
    <2>2. table[id + 1] \in Entries
      BY <2>1, ElementOfSeq
    <2> QED
      BY <1>2, <2>2 DEF TableEntry
  <1> QED
    BY <1>1, <1>2 DEF TableEntry

LEMMA Slice ==
    ASSUME NEW S, NEW s \in Seq(S), NEW from \in Nat \ {0}, NEW n \in Nat, from + n - 1 <= Len(s)
    PROVE  LET slice == SubSeq(s, from, from + n - 1)
           IN  slice \in Seq(S) /\ Len(slice) = n /\ \A i \in 1 .. n : slice[i] = s[from + i - 1]
  <1> DEFINE to == from + n - 1
  <1>1. Len(s) \in Nat /\ from \in Int /\ to \in Int
    OBVIOUS
  <1>2. \A i \in from .. to : s[i] \in S
    <2>1. \A i \in from .. to : i \in 1 .. Len(s)
      BY <1>1
    <2> QED
      BY <2>1, ElementOfSeq
  <1>3. to - from + 1 = n /\ (IF from <= to THEN to - from + 1 ELSE 0) = n
    OBVIOUS
  <1> HIDE DEF to
  <1>4. /\ SubSeq(s, from, to) \in Seq(S)
        /\ Len(SubSeq(s, from, to)) = IF from <= to THEN to - from + 1 ELSE 0
        /\ \A i \in 1 .. to - from + 1 : SubSeq(s, from, to)[i] = s[from + i - 1]
    BY <1>1, <1>2, SubSeqProperties
  <1>5. /\ SubSeq(s, from, to) \in Seq(S)
        /\ Len(SubSeq(s, from, to)) = n
        /\ \A i \in 1 .. n : SubSeq(s, from, to)[i] = s[from + i - 1]
    BY <1>3, <1>4
  <1> QED
    BY <1>5 DEF to

LEMMA PaddingIs ==
    ASSUME NEW n \in Nat, NEW i \in 1 .. n
    PROVE  Padding(n)[i] = EmptyEntry
  BY DEF Padding

LEMMA ExtendedSays ==
    ASSUME NEW table \in Seq(Entries), NEW n \in Nat
    PROVE  LET extended == ExtendXrefToSize(table, n)
           IN  /\ extended \in Seq(Entries) /\ Len(extended) \in Nat /\ n <= Len(extended)
               /\ \A id \in Nat : TableEntry(extended, id) = TableEntry(table, id)
  <1> DEFINE extended == ExtendXrefToSize(table, n)
             more == Padding(n - Len(table))
             m == Len(more)
  <1>1. Len(table) \in Nat
    OBVIOUS
  <1>2. n - Len(table) \in Int
    BY <1>1
  <1>3. more \in Seq(Entries) /\ m = IF n - Len(table) <= 0 THEN 0 ELSE n - Len(table)
    BY <1>2, PaddingTyped
  <1>4. m \in Nat /\ m = IF n <= Len(table) THEN 0 ELSE n - Len(table)
    BY <1>1, <1>3
  <1>5. extended = table \o more
    BY Extended
  <1>6. \A i \in 1 .. m : more[i] = EmptyEntry
    <2> SUFFICES ASSUME NEW i \in 1 .. m PROVE more[i] = EmptyEntry
      OBVIOUS
    <2>1. n - Len(table) \in Nat /\ i \in 1 .. n - Len(table)
      BY <1>1, <1>4
    <2> QED
      BY <2>1, PaddingIs
  <1> HIDE DEF more
  <1>7. /\ extended \in Seq(Entries) /\ Len(extended) = Len(table) + m
        /\ \A i \in 1 .. Len(table) + m :
              extended[i] = IF i <= Len(table) THEN table[i] ELSE more[i - Len(table)]
    <2>1. /\ table \o more \in Seq(Entries) /\ Len(table \o more) = Len(table) + Len(more)
          /\ \A i \in 1 .. Len(table) + Len(more) :
                (table \o more)[i] = IF i <= Len(table) THEN table[i] ELSE more[i - Len(table)]
      BY <1>3, ConcatProperties
    <2> HIDE DEF extended
    <2> QED
      BY <1>5, <2>1
  <1> HIDE DEF extended, m
  <1>8. ASSUME NEW id \in Nat
        PROVE  TableEntry(extended, id) = TableEntry(table, id)
    <2>1. CASE id < Len(table)
      <3>1. id < Len(extended) /\ id + 1 \in 1 .. Len(table) + m /\ id + 1 <= Len(table)
        BY <1>1, <1>4, <1>7, <2>1
      <3> QED
        BY <1>7, <2>1, <3>1 DEF TableEntry
    <2>2. CASE ~(id < Len(table)) /\ id < Len(extended)
      <3>1. id + 1 \in 1 .. Len(table) + m /\ ~(id + 1 <= Len(table)) /\ (id + 1) - Len(table) \in 1 .. m
        BY <1>1, <1>4, <1>7, <2>2
      <3>2. extended[id + 1] = EmptyEntry
        BY <1>6, <1>7, <3>1
      <3> QED
        BY <2>2, <3>2 DEF TableEntry
    <2>3. CASE ~(id < Len(table)) /\ ~(id < Len(extended))
      BY <2>3 DEF TableEntry
    <2> QED
      BY <2>1, <2>2, <2>3
  <1>9. Len(extended) \in Nat /\ n <= Len(extended)
    BY <1>1, <1>4, <1>7
  <1> QED
    BY <1>7, <1>8, <1>9 DEF extended

LEMMA OverwrittenSays ==
    ASSUME NEW table \in Seq(Entries), NEW lines \in Seq(Lines), NEW start \in Nat, NEW count \in Nat,
           NEW line \in Nat \ {0}, line + count - 1 <= Len(lines), NEW id \in Nat
    PROVE  TableEntry(Overwritten(table, start, count, lines, line), id)
             = IF id \in start .. start + count - 1 THEN lines[line + (id - start)] ELSE TableEntry(table, id)
  <1>1. CASE count = 0
    <2>1. id \notin start .. start + count - 1
      BY <1>1
    <2> QED
      BY <1>1, <2>1 DEF Overwritten
  <1>2. CASE count > 0
    <2> DEFINE total == start + count
               extended == ExtendXrefToSize(table, total)
               l == Len(extended)
               a == SubSeq(extended, 1, start)
               b == SubSeq(lines, line, line + count - 1)
               c == SubSeq(extended, total + 1, l)
    <2>1. total \in Nat
      OBVIOUS
    <2>2. extended \in Seq(Entries) /\ l \in Nat /\ total <= l
          /\ TableEntry(extended, id) = TableEntry(table, id)
      <3> HIDE DEF total
      <3> QED
        BY <2>1, ExtendedSays
    <2>3. Overwritten(table, start, count, lines, line) = (a \o b) \o c
      <3>1. count # 0
        BY <1>2
      <3> QED
        BY <3>1, Zenon DEF Overwritten, extended, a, b, c, total, l
    <2> HIDE DEF extended, l
    <2>4. /\ a \in Seq(Entries) /\ Len(a) = start
          /\ \A i \in 1 .. start : a[i] = extended[i]
      <3>1. 1 \in Nat \ {0} /\ 1 + start - 1 = start /\ 1 + start - 1 <= Len(extended)
        BY <2>2 DEF l
      <3>2. LET slice == SubSeq(extended, 1, 1 + start - 1)
            IN  slice \in Seq(Entries) /\ Len(slice) = start
                /\ \A i \in 1 .. start : slice[i] = extended[1 + i - 1]
        BY <2>2, <3>1, Slice
      <3>3. a = SubSeq(extended, 1, 1 + start - 1)
        BY <3>1
      <3> HIDE DEF a
      <3>4. \A i \in 1 .. start : 1 + i - 1 = i
        OBVIOUS
      <3> QED
        BY <3>2, <3>3, <3>4
    <2>5. /\ b \in Seq(Entries) /\ Len(b) = count
          /\ \A i \in 1 .. count : b[i] = lines[line + i - 1]
      <3>1. lines \in Seq(Entries)
        <4>1. lines \in [1 .. Len(lines) -> Lines] /\ Len(lines) \in Nat
          BY LenProperties
        <4>2. Lines \subseteq Entries
          BY DEF Lines, Entries
        <4>3. lines \in [1 .. Len(lines) -> Entries]
          BY <4>1, <4>2
        <4> QED
          BY <4>1, <4>3, SeqDef
      <3> QED
        BY <3>1, Slice
    <2>6. /\ c \in Seq(Entries) /\ Len(c) = l - total
          /\ \A i \in 1 .. l - total : c[i] = extended[total + i]
      <3> HIDE DEF total
      <3> DEFINE rest == l - total
                 after == total + 1
      <3>1. rest \in Nat /\ after \in Nat \ {0} /\ after + rest - 1 = l
        BY <2>1, <2>2
      <3>2. after + rest - 1 <= Len(extended)
        BY <2>2, <3>1 DEF l
      <3>3. \A i \in 1 .. rest : after + i - 1 = total + i
        BY <2>1, <3>1
      <3> HIDE DEF rest, after
      <3>4. LET slice == SubSeq(extended, after, after + rest - 1)
            IN  slice \in Seq(Entries) /\ Len(slice) = rest
                /\ \A i \in 1 .. rest : slice[i] = extended[after + i - 1]
        BY <2>2, <3>1, <3>2, Slice
      <3>5. c = SubSeq(extended, after, after + rest - 1)
        BY <3>1 DEF after
      <3> HIDE DEF c
      <3>6. c \in Seq(Entries) /\ Len(c) = rest /\ \A i \in 1 .. rest : c[i] = extended[total + i]
        BY <3>3, <3>4, <3>5
      <3> QED
        BY <3>6 DEF rest
    <2> HIDE DEF a, b, c
    <2>7. /\ a \o b \in Seq(Entries) /\ Len(a \o b) = total
          /\ \A i \in 1 .. total : (a \o b)[i] = IF i <= start THEN a[i] ELSE b[i - start]
      <3>1. /\ a \o b \in Seq(Entries) /\ Len(a \o b) = Len(a) + Len(b)
            /\ \A i \in 1 .. Len(a) + Len(b) : (a \o b)[i] = IF i <= Len(a) THEN a[i] ELSE b[i - Len(a)]
        BY <2>4, <2>5, ConcatProperties
      <3> QED
        BY <2>4, <2>5, <3>1
    <2> DEFINE ab == a \o b
               t == ab \o c
    <2>8. /\ Len(t) = l
          /\ \A i \in 1 .. l : t[i] = IF i <= total THEN ab[i] ELSE c[i - total]
      <3> HIDE DEF ab
      <3>1. ab \in Seq(Entries) /\ Len(ab) = total
        BY <2>7 DEF ab
      <3>2. /\ Len(t) = Len(ab) + Len(c)
            /\ \A i \in 1 .. Len(ab) + Len(c) : t[i] = IF i <= Len(ab) THEN ab[i] ELSE c[i - Len(ab)]
        BY <2>6, <3>1, ConcatProperties
      <3> HIDE DEF t, total
      <3>3. Len(ab) + Len(c) = l
        BY <2>1, <2>2, <2>6, <3>1
      <3> QED
        BY <3>1, <3>2, <3>3
    <2>9. Overwritten(table, start, count, lines, line) = t
      BY <2>3
    <2> HIDE DEF t
    <2>10. \A i \in 1 .. total : ab[i] = IF i <= start THEN a[i] ELSE b[i - start]
      BY <2>7
    <2> HIDE DEF ab
    <2>11. CASE id \in start .. start + count - 1
      <3>1. /\ id + 1 \in 1 .. total /\ ~(id + 1 <= start) /\ (id + 1) - start \in 1 .. count
            /\ line + ((id + 1) - start) - 1 = line + (id - start)
            /\ id < l /\ id + 1 \in 1 .. l
        <4>1. start <= id /\ id < total
          BY <2>11
        <4>2. (id + 1) - start \in 1 .. count
          BY <2>11
        <4>3. id < l
          BY <2>1, <2>2, <4>1
        <4> HIDE DEF total
        <4> QED
          BY <2>1, <2>2, <4>1, <4>2, <4>3
      <3>2. t[id + 1] = ab[id + 1]
        BY <2>8, <3>1
      <3>3. ab[id + 1] = b[(id + 1) - start]
        BY <2>10, <3>1
      <3>4. b[(id + 1) - start] = lines[line + (id - start)]
        BY <2>5, <3>1
      <3> QED
        BY <2>8, <2>9, <2>11, <3>1, <3>2, <3>3, <3>4 DEF TableEntry
    <2>12. CASE id \notin start .. start + count - 1
      <3>1. TableEntry(t, id) = TableEntry(extended, id)
        <4>1. CASE id < start
          <5>1. id + 1 \in 1 .. l /\ id + 1 \in 1 .. total /\ id + 1 <= start /\ id + 1 \in 1 .. start
                /\ id < l
            BY <2>1, <2>2, <4>1
          <5>2. t[id + 1] = extended[id + 1]
            BY <2>4, <2>8, <2>10, <5>1
          <5> QED
            BY <2>8, <5>1, <5>2 DEF TableEntry, l
        <4>2. CASE id >= total /\ id < l
          <5>1. id + 1 \in 1 .. l /\ ~(id + 1 <= total) /\ (id + 1) - total \in 1 .. l - total
                /\ total + ((id + 1) - total) = id + 1
            BY <2>1, <2>2, <4>2
          <5> HIDE DEF total
          <5>2. t[id + 1] = c[(id + 1) - total]
            BY <2>8, <5>1
          <5>3. c[(id + 1) - total] = extended[id + 1]
            BY <2>6, <5>1
          <5> QED
            BY <2>8, <4>2, <5>2, <5>3 DEF TableEntry, l
        <4>3. CASE ~(id < l)
          BY <2>8, <4>3 DEF TableEntry, l
        <4>4. id < start \/ (id >= total /\ id < l) \/ ~(id < l)
          BY <2>2, <2>12
        <4> QED
          BY <4>1, <4>2, <4>3, <4>4
      <3> QED
        BY <2>2, <2>9, <2>12, <3>1
    <2> QED
      BY <2>11, <2>12
  <1> QED
    BY <1>1, <1>2

-----------------------------------------------------------------------------
(***************************************************************************)
(* One subsection: what is read follows the numbers of the lines so far.   *)
(***************************************************************************)

(* The lines of an object.                                                 *)
LinesOf(section, numbers, id) ==
    {k \in 1 .. Len(numbers) : numbers[k] = id /\ k <= Len(section.lines)}

IsLastOf(section, numbers, id, k) ==
    k \in LinesOf(section, numbers, id) /\ \A other \in LinesOf(section, numbers, id) : other <= k

(* The table has what was in it, and the lines over it.                    *)
SaysOver(section, numbers, before, table) ==
    \A id \in Nat :
        \/ \E k \in LinesOf(section, numbers, id) :
              IsLastOf(section, numbers, id, k) /\ TableEntry(table, id) = section.lines[k]
        \/ LinesOf(section, numbers, id) = {} /\ TableEntry(table, id) = TableEntry(before, id)

IsGood(section, numbers) ==
    /\ section.kind = "table" => Len(numbers) <= Len(section.lines)
    /\ \A k \in 1 .. Len(numbers) :
          k <= Len(section.lines) => section.lines[k].type # "Bad" /\ numbers[k] < MaxXrefSize

Follows(section, numbers, before, size, read) ==
    /\ read.ok
    /\ read.line = Smaller(Len(numbers), Len(section.lines)) + 1
    /\ IsGood(section, numbers)
    /\ size <= read.size
    /\ \A k \in 1 .. Len(numbers) : k <= Len(section.lines) => numbers[k] < read.size
    /\ IsFirst(section) => (read.next = 0 <=> Len(numbers) = 0)
    /\ SaysOver(section, numbers, before, read.table)

(* A subsection numbers its lines after those before.                      *)
Numbered(numbers, more, start, size) ==
    /\ numbers \in Seq(Nat) /\ more \in Seq(Nat) /\ Len(numbers) \in Nat
    /\ Len(more) = Len(numbers) + size
    /\ \A k \in 1 .. Len(numbers) : more[k] = numbers[k]
    /\ \A k \in 1 .. size : more[Len(numbers) + k] = start + k - 1

LEMMA IDsNumber ==
    ASSUME NEW section, NEW numbers \in Seq(Nat), NEW s \in Subsections
    PROVE  Numbered(numbers, numbers \o IDsOf(section, numbers, s),
                    IF IsFirst(section) /\ numbers = <<>> THEN 0 ELSE s.start, s.size)
  <1> DEFINE start == IF IsFirst(section) /\ numbers = <<>> THEN 0 ELSE s.start
             ids == IDsOf(section, numbers, s)
             more == numbers \o ids
             n == Len(numbers)
  <1>1. s.size \in Nat /\ start \in Nat /\ n \in Nat
    BY DEF Subsections
  <1>2. ids \in Seq(Nat) /\ Len(ids) = s.size /\ \A j \in 1 .. s.size : ids[j] = j - 1 + start
    BY IDsTyped
  <1> HIDE DEF start, ids
  <1>3. /\ more \in Seq(Nat) /\ Len(more) = n + s.size
        /\ \A i \in 1 .. n + s.size : more[i] = IF i <= n THEN numbers[i] ELSE ids[i - n]
    <2>1. /\ more \in Seq(Nat) /\ Len(more) = Len(numbers) + Len(ids)
          /\ \A i \in 1 .. Len(numbers) + Len(ids) :
                more[i] = IF i <= Len(numbers) THEN numbers[i] ELSE ids[i - Len(numbers)]
      BY <1>2, ConcatProperties
    <2> HIDE DEF more
    <2> QED
      BY <1>2, <2>1 DEF n
  <1> HIDE DEF more, n
  <1>4. \A k \in 1 .. n : more[k] = numbers[k]
    <2>1. \A k \in 1 .. n : k \in 1 .. n + s.size /\ k <= n
      BY <1>1
    <2> QED
      BY <1>3, <2>1
  <1>5. \A k \in 1 .. s.size : more[n + k] = start + k - 1
    <2> SUFFICES ASSUME NEW k \in 1 .. s.size PROVE more[n + k] = start + k - 1
      OBVIOUS
    <2>1. n + k \in 1 .. n + s.size /\ ~(n + k <= n) /\ (n + k) - n = k
      BY <1>1
    <2>2. more[n + k] = ids[k]
      BY <1>3, <2>1
    <2> QED
      BY <1>1, <1>2, <2>2
  <1> QED
    BY <1>1, <1>3, <1>4, <1>5 DEF Numbered, n, more, ids, start

(* The place where a subsection's lines stand.                             *)
LEMMA AtItsLines ==
    ASSUME NEW section \in Section, section.kind \in {"table", "stream"}, NEW numbers \in Seq(Nat),
           NEW before, NEW size0, NEW read \in Reads(section),
           Follows(section, numbers, before, size0, read), NEW size \in Nat
    PROVE  LET count == EntriesThere(section, read, size)
               n == Len(numbers)
               l == Len(section.lines)
           IN  /\ count \in Nat /\ n \in Nat /\ l \in Nat /\ read.line \in Nat \ {0} /\ count <= size
               /\ count > 0 => read.line = n + 1
               /\ section.kind = "stream" => read.line + count - 1 <= l
               /\ section.kind = "table" => count = size /\ read.line = n + 1
               /\ \A k \in 1 .. size : n + k <= l /\ section.kind = "stream" => k <= count
               /\ read.line + count - 1 <= l => Smaller(n + size, l) + 1 = read.line + count
  <1> DEFINE count == EntriesThere(section, read, size)
             n == Len(numbers)
             l == Len(section.lines)
  <1>1. n \in Nat /\ l \in Nat /\ read.line \in 1 .. l + 1
    BY SectionTyped DEF Reads
  <1>2. read.line = Smaller(n, l) + 1 /\ (section.kind = "table" => n <= l)
    BY DEF Follows, IsGood
  <1>3. count = IF section.kind = "stream" THEN Smaller(size, l - read.line + 1) ELSE size
    BY DEF EntriesThere
  <1> HIDE DEF count, n, l
  <1>4. read.line = (IF n <= l THEN n ELSE l) + 1
    BY <1>2 DEF Smaller
  <1>5. count = IF section.kind = "stream"
                THEN IF size <= l - read.line + 1 THEN size ELSE l - read.line + 1 ELSE size
    BY <1>3 DEF Smaller
  <1>6. Smaller(n + size, l) = IF n + size <= l THEN n + size ELSE l
    BY DEF Smaller
  <1>7. count \in Nat /\ n \in Nat /\ l \in Nat /\ read.line \in Nat \ {0} /\ count <= size
    BY <1>1, <1>5
  <1>8. count > 0 => read.line = n + 1
    BY <1>1, <1>2, <1>4, <1>5
  <1>9. section.kind = "stream" => read.line + count - 1 <= l
    BY <1>1, <1>4, <1>5
  <1>10. section.kind = "table" => count = size /\ read.line = n + 1
    BY <1>2, <1>4, <1>5
  <1>11. \A k \in 1 .. size : n + k <= l /\ section.kind = "stream" => k <= count
    BY <1>1, <1>4, <1>5
  <1>12. read.line + count - 1 <= l => Smaller(n + size, l) + 1 = read.line + count
    BY <1>1, <1>2, <1>4, <1>5, <1>6
  <1> QED
    BY <1>7, <1>8, <1>9, <1>10, <1>11, <1>12 DEF count, n, l

LEMMA BadStays ==
    ASSUME NEW section \in Section, NEW numbers, NEW more, NEW start, NEW size \in Nat,
           Numbered(numbers, more, start, size), ~IsGood(section, numbers)
    PROVE  ~IsGood(section, more)
  <1>1. Len(section.lines) \in Nat
    BY SectionTyped
  <1>2. /\ Len(numbers) \in Nat /\ Len(more) = Len(numbers) + size
        /\ \A k \in 1 .. Len(numbers) : more[k] = numbers[k]
    BY DEF Numbered
  <1>3. \A k \in 1 .. Len(numbers) : k \in 1 .. Len(more)
    BY <1>2
  <1> QED
    BY <1>1, <1>2, <1>3 DEF IsGood

LEMMA BadSubsection ==
    ASSUME NEW section \in Section, section.kind \in {"table", "stream"},
           NEW before, NEW size0, NEW read \in Reads(section),
           NEW numbers, NEW more, NEW start \in Nat, NEW size \in Nat,
           Follows(section, numbers, before, size0, read), Numbered(numbers, more, start, size),
           \/ section.kind = "table" /\ size > 0 /\ size > MaxIDs - start
           \/ ~EntriesParse(section, read, start, EntriesThere(section, read, size))
    PROVE  ~IsGood(section, more)
  <1> DEFINE count == EntriesThere(section, read, size)
             n == Len(numbers)
             l == Len(section.lines)
             lines == section.lines
  <1>1. /\ numbers \in Seq(Nat) /\ Len(more) = n + size
        /\ \A k \in 1 .. size : more[n + k] = start + k - 1
    BY DEF Numbered
  <1>2. /\ count \in Nat /\ n \in Nat /\ l \in Nat /\ read.line \in Nat \ {0} /\ count <= size
        /\ count > 0 => read.line = n + 1
        /\ section.kind = "stream" => read.line + count - 1 <= l
        /\ section.kind = "table" => count = size /\ read.line = n + 1
    BY <1>1, AtItsLines
  <1>3. MaxXrefSize \in Nat /\ MaxIDs \in Nat /\ MaxXrefSize <= MaxIDs
    BY XrefParserAssumption
  <1>4. SUFFICES ASSUME IsGood(section, more) PROVE FALSE
    OBVIOUS
  <1>5. /\ section.kind = "table" => n + size <= l
        /\ \A k \in 1 .. n + size : k <= l => lines[k].type # "Bad" /\ more[k] < MaxXrefSize
    BY <1>1, <1>4 DEF IsGood
  <1>6. ASSUME NEW k \in 1 .. count
        PROVE  n + k <= l /\ lines[n + k].type # "Bad" /\ start + k - 1 < MaxXrefSize
    <2>1. n + k <= l
      BY <1>2, <1>5
    <2>2. n + k \in 1 .. n + size /\ k \in 1 .. size
      BY <1>2
    <2>3. more[n + k] = start + k - 1
      BY <1>1, <2>2
    <2> QED
      BY <1>5, <2>1, <2>2, <2>3
  <1>7. EntriesParse(section, read, start, count)
    <2>1. count > 0 => start + count <= MaxXrefSize
      BY <1>2, <1>3, <1>6
    <2>2. ASSUME NEW j \in 0 .. count - 1
          PROVE  read.line + j <= l /\ lines[read.line + j].type # "Bad"
      <3>1. j + 1 \in 1 .. count /\ n + (j + 1) = read.line + j
        BY <1>2
      <3> QED
        BY <1>6, <3>1
    <2> QED
      BY <2>1, <2>2 DEF EntriesParse
  <1>8. section.kind = "table" /\ size > 0 /\ size > MaxIDs - start
    BY <1>7
  <1>9. start + size - 1 < MaxXrefSize
    BY <1>2, <1>6, <1>8
  <1> QED
    BY <1>3, <1>8, <1>9

LEMMA GoodSubsection ==
    ASSUME NEW section \in Section, section.kind \in {"table", "stream"},
           NEW before, NEW size0 \in Nat, NEW read \in Reads(section),
           NEW numbers, NEW more, NEW start \in Nat, NEW size \in Nat,
           Follows(section, numbers, before, size0, read), Numbered(numbers, more, start, size),
           IsFirst(section) => size > 0,
           EntriesParse(section, read, start, EntriesThere(section, read, size))
    PROVE  LET count == EntriesThere(section, read, size)
           IN  Follows(section, more, before, size0,
                   [ok |-> TRUE, size |-> Larger(read.size, start + size),
                    line |-> read.line + count, next |-> start + size,
                    table |-> Overwritten(read.table, start, count, section.lines, read.line)])
  <1> DEFINE count == EntriesThere(section, read, size)
             n == Len(numbers)
             l == Len(section.lines)
             lines == section.lines
             table == Overwritten(read.table, start, count, lines, read.line)
             after == [ok |-> TRUE, size |-> Larger(read.size, start + size),
                       line |-> read.line + count, next |-> start + size, table |-> table]
  <1>1. /\ numbers \in Seq(Nat) /\ more \in Seq(Nat) /\ Len(more) = n + size
        /\ \A k \in 1 .. n : more[k] = numbers[k]
        /\ \A k \in 1 .. size : more[n + k] = start + k - 1
    BY DEF Numbered
  <1>2. /\ count \in Nat /\ n \in Nat /\ l \in Nat /\ read.line \in Nat \ {0} /\ count <= size
        /\ count > 0 => read.line = n + 1
        /\ section.kind = "stream" => read.line + count - 1 <= l
        /\ section.kind = "table" => count = size /\ read.line = n + 1
        /\ \A k \in 1 .. size : n + k <= l /\ section.kind = "stream" => k <= count
        /\ read.line + count - 1 <= l => Smaller(n + size, l) + 1 = read.line + count
    BY <1>1, AtItsLines
  <1>3. /\ count > 0 => start + count <= MaxXrefSize
        /\ \A j \in 0 .. count - 1 : read.line + j <= l /\ lines[read.line + j].type # "Bad"
    BY DEF EntriesParse
  <1>4. /\ read.table \in Seq(Entries) /\ read.size \in Nat /\ read.line \in 1 .. l + 1
        /\ lines \in Seq(Lines) /\ MaxXrefSize \in Nat
    BY SectionTyped, XrefParserAssumption DEF Reads, Tables
  <1>5. /\ IsGood(section, numbers) /\ size0 <= read.size
        /\ \A k \in 1 .. n : k <= l => numbers[k] < read.size
        /\ SaysOver(section, numbers, before, read.table)
    BY DEF Follows
  <1>6. /\ section.kind = "table" => n <= l
        /\ \A k \in 1 .. n : k <= l => lines[k].type # "Bad" /\ numbers[k] < MaxXrefSize
    BY <1>5 DEF IsGood
  <1>over. ASSUME NEW id \in Nat, read.line + count - 1 <= l
        PROVE  TableEntry(table, id) = IF id \in start .. start + count - 1
                                       THEN lines[read.line + (id - start)]
                                       ELSE TableEntry(read.table, id)
    <2>1. ASSUME NEW t \in Seq(Entries), NEW s \in Seq(Lines), NEW c \in Nat, NEW from \in Nat \ {0},
                 from + c - 1 <= Len(s)
          PROVE  TableEntry(Overwritten(t, start, c, s, from), id)
                   = IF id \in start .. start + c - 1 THEN s[from + (id - start)] ELSE TableEntry(t, id)
      BY <2>1, OverwrittenSays
    <2>2. /\ read.table \in Seq(Entries) /\ lines \in Seq(Lines) /\ count \in Nat
          /\ read.line \in Nat \ {0} /\ read.line + count - 1 <= Len(lines)
      BY <1>2, <1>4, <1>over
    <2> HIDE DEF lines, count
    <2> QED
      BY <2>1, <2>2
  <1> HIDE DEF count, n, l, lines
  <1>7. read.line + count - 1 <= l
    <2>1. CASE count = 0
      BY <1>2, <1>4, <2>1
    <2>2. CASE count > 0
      <3>1. count - 1 \in 0 .. count - 1
        BY <1>2, <2>2
      <3>2. read.line + (count - 1) <= l
        BY <1>3, <3>1
      <3> QED
        BY <1>2, <3>2
    <2> QED
      BY <1>2, <2>1, <2>2
  <1>8. Smaller(n + size, l) + 1 = read.line + count /\ (section.kind = "table" => n + size <= l)
    BY <1>2, <1>7
  (* The new lines that are there.                                         *)
  <1>9. ASSUME NEW k \in 1 .. size, n + k <= l
        PROVE  /\ k <= count /\ read.line + (k - 1) = n + k
               /\ lines[n + k].type # "Bad" /\ more[n + k] = start + k - 1
               /\ start + k <= MaxXrefSize
    <2>1. k <= count
      BY <1>2, <1>9
    <2>2. read.line = n + 1 /\ k - 1 \in 0 .. count - 1
      BY <1>2, <2>1
    <2>3. read.line + (k - 1) = n + k
      BY <1>2, <2>2
    <2>4. lines[read.line + (k - 1)].type # "Bad"
      BY <1>3, <2>2
    <2>5. start + k <= MaxXrefSize
      BY <1>2, <1>3, <1>4, <2>1
    <2> QED
      BY <1>1, <2>1, <2>3, <2>4, <2>5
  <1>10. \A k \in 1 .. n + size : k \in 1 .. n \/ (k - n \in 1 .. size /\ n + (k - n) = k)
    BY <1>2
  <1>11. IsGood(section, more)
    <2>1. ASSUME NEW k \in 1 .. n + size, k <= l
          PROVE  lines[k].type # "Bad" /\ more[k] < MaxXrefSize
      <3>1. CASE k \in 1 .. n
        BY <1>1, <1>6, <2>1, <3>1
      <3>2. CASE k - n \in 1 .. size /\ n + (k - n) = k
        <4>1. lines[n + (k - n)].type # "Bad" /\ more[n + (k - n)] = start + (k - n) - 1
              /\ start + (k - n) <= MaxXrefSize
          BY <1>9, <2>1, <3>2
        <4> QED
          BY <1>2, <1>4, <3>2, <4>1
      <3> QED
        BY <1>10, <3>1, <3>2
    <2> QED
      BY <1>1, <1>8, <2>1 DEF IsGood, l, lines
  <1>12. /\ Larger(read.size, start + size) \in Nat
         /\ read.size <= Larger(read.size, start + size)
         /\ start + size <= Larger(read.size, start + size)
    <2>1. start + size \in Nat /\ read.size \in Nat
      BY <1>4
    <2>2. \A x, y \in Nat : Larger(x, y) \in Nat /\ x <= Larger(x, y) /\ y <= Larger(x, y)
      BY LargerSmaller
    <2> QED
      BY <2>1, <2>2
  <1>13. \A k \in 1 .. n + size : k <= l => more[k] < Larger(read.size, start + size)
    <2> SUFFICES ASSUME NEW k \in 1 .. n + size, k <= l
                 PROVE  more[k] < Larger(read.size, start + size)
      OBVIOUS
    <2>1. CASE k \in 1 .. n
      <3>1. more[k] = numbers[k] /\ numbers[k] < read.size /\ numbers[k] \in Nat
        BY <1>1, <1>5, <2>1, ElementOfSeq DEF n
      <3> QED
        BY <1>4, <1>12, <3>1
    <2>2. CASE k - n \in 1 .. size /\ n + (k - n) = k
      <3>1. more[n + (k - n)] = start + (k - n) - 1
        BY <1>1, <2>2
      <3> QED
        BY <1>2, <1>12, <2>2, <3>1
    <2> QED
      BY <1>10, <2>1, <2>2
  (* Where an object's lines are.                                          *)
  <1>14. ASSUME NEW id \in Nat
         PROVE  \/ /\ id \notin start .. start + count - 1
                   /\ LinesOf(section, more, id) = LinesOf(section, numbers, id)
                \/ /\ id \in start .. start + count - 1
                   /\ IsLastOf(section, more, id, n + (id - start) + 1)
                   /\ lines[read.line + (id - start)] = lines[n + (id - start) + 1]
    <2>1. \A k : k \in LinesOf(section, more, id) <=> k \in 1 .. n + size /\ more[k] = id /\ k <= l
      BY <1>1 DEF LinesOf, l, n
    <2>2. \A k : k \in LinesOf(section, numbers, id) <=> k \in 1 .. n /\ numbers[k] = id /\ k <= l
      BY DEF LinesOf, l, n
    <2>3. \A k \in 1 .. n : k \in LinesOf(section, more, id) <=> k \in LinesOf(section, numbers, id)
      <3>1. \A k \in 1 .. n : k \in 1 .. n + size
        BY <1>2
      <3> QED
        BY <1>1, <2>1, <2>2, <3>1
    <2>4. ASSUME NEW k \in LinesOf(section, more, id), k \notin 1 .. n
          PROVE  id \in start .. start + count - 1 /\ k = n + (id - start) + 1
      <3>1. k - n \in 1 .. size /\ n + (k - n) = k /\ k <= l /\ more[k] = id
        BY <1>10, <2>1, <2>4
      <3>2. k - n <= count /\ more[n + (k - n)] = start + (k - n) - 1
        BY <1>9, <3>1
      <3> QED
        BY <1>2, <3>1, <3>2
    <2>5. CASE id \notin start .. start + count - 1
      <3>1. \A k : k \in LinesOf(section, more, id) <=> k \in LinesOf(section, numbers, id)
        BY <2>2, <2>3, <2>4, <2>5
      <3>2. LinesOf(section, more, id) = LinesOf(section, numbers, id)
        BY <3>1
      <3> QED
        BY <2>5, <3>2
    <2>6. CASE id \in start .. start + count - 1
      <3> DEFINE k == (id - start) + 1
      <3>1. k \in 1 .. size /\ k \in 1 .. count /\ read.line = n + 1
        BY <1>2, <2>6
      <3>2. n + k <= l /\ n + k \in 1 .. n + size /\ n + k = n + (id - start) + 1
            /\ read.line + (id - start) = n + k
        BY <1>2, <1>4, <1>7, <3>1
      <3>3. more[n + k] = id
        <4>1. more[n + k] = start + k - 1
          BY <1>1, <3>1
        <4> QED
          BY <4>1
      <3>4. n + k \in LinesOf(section, more, id)
        BY <2>1, <3>2, <3>3
      <3>5. \A other \in LinesOf(section, more, id) : other <= n + k
        <4> SUFFICES ASSUME NEW other \in LinesOf(section, more, id) PROVE other <= n + k
          OBVIOUS
        <4>1. CASE other \in 1 .. n
          BY <1>2, <3>1, <4>1
        <4>2. CASE other \notin 1 .. n
          <5>1. other = n + (id - start) + 1
            BY <2>4, <4>2
          <5> QED
            BY <1>2, <3>2, <5>1
        <4> QED
          BY <4>1, <4>2
      <3>6. IsLastOf(section, more, id, n + k)
        BY <3>4, <3>5 DEF IsLastOf
      <3> QED
        BY <2>6, <3>2, <3>6
    <2> QED
      BY <2>5, <2>6
  <1>15. SaysOver(section, more, before, table)
    <2> SUFFICES ASSUME NEW id \in Nat
                 PROVE  \/ \E k \in LinesOf(section, more, id) :
                              /\ IsLastOf(section, more, id, k)
                              /\ TableEntry(table, id) = section.lines[k]
                        \/ /\ LinesOf(section, more, id) = {}
                           /\ TableEntry(table, id) = TableEntry(before, id)
      BY DEF SaysOver
    <2>1. TableEntry(table, id) = IF id \in start .. start + count - 1
                                  THEN lines[read.line + (id - start)] ELSE TableEntry(read.table, id)
      BY <1>7, <1>over
    <2> HIDE DEF table
    <2>2. CASE /\ id \notin start .. start + count - 1
               /\ LinesOf(section, more, id) = LinesOf(section, numbers, id)
      <3>1. TableEntry(table, id) = TableEntry(read.table, id)
        BY <2>1, <2>2
      <3>2. \A k : IsLastOf(section, more, id, k) <=> IsLastOf(section, numbers, id, k)
        BY <2>2 DEF IsLastOf
      <3>3. \/ \E k \in LinesOf(section, numbers, id) :
                  /\ IsLastOf(section, numbers, id, k)
                  /\ TableEntry(read.table, id) = section.lines[k]
            \/ /\ LinesOf(section, numbers, id) = {}
               /\ TableEntry(read.table, id) = TableEntry(before, id)
        BY <1>5 DEF SaysOver
      <3> QED
        BY <2>2, <3>1, <3>2, <3>3
    <2>3. CASE /\ id \in start .. start + count - 1
               /\ IsLastOf(section, more, id, n + (id - start) + 1)
               /\ lines[read.line + (id - start)] = lines[n + (id - start) + 1]
      <3> DEFINE k == n + (id - start) + 1
      <3>1. k \in LinesOf(section, more, id) /\ IsLastOf(section, more, id, k)
        BY <2>3 DEF IsLastOf
      <3>2. TableEntry(table, id) = section.lines[k]
        BY <2>1, <2>3 DEF lines
      <3> HIDE DEF k
      <3> QED
        BY <3>1, <3>2
    <2> QED
      BY <1>14, <2>2, <2>3
  <1>16. IsFirst(section) => (start + size = 0 <=> n + size = 0)
    BY <1>2
  <1> HIDE DEF table
  <1>17. /\ after.ok /\ after.line = read.line + count /\ after.size = Larger(read.size, start + size)
         /\ after.next = start + size /\ after.table = table
    OBVIOUS
  <1> HIDE DEF after
  <1>18. after.line = Smaller(Len(more), Len(section.lines)) + 1
    BY <1>1, <1>8, <1>17 DEF l
  <1>19. size0 <= after.size
    BY <1>4, <1>5, <1>12, <1>17
  <1>20. \A k \in 1 .. Len(more) : k <= Len(section.lines) => more[k] < after.size
    BY <1>1, <1>13, <1>17 DEF l
  <1>21. IsFirst(section) => (after.next = 0 <=> Len(more) = 0)
    BY <1>1, <1>16, <1>17
  <1>22. Follows(section, more, before, size0, after)
    BY <1>11, <1>15, <1>17, <1>18, <1>19, <1>20, <1>21 DEF Follows
  <1> QED
    BY <1>22 DEF after, table, count, lines

LEMMA EmptySubsection ==
    ASSUME NEW section \in Section, NEW before, NEW size0, NEW read \in Reads(section),
           NEW numbers, NEW more, NEW start \in Nat,
           Follows(section, numbers, before, size0, read), Numbered(numbers, more, start, 0),
           IsFirst(section) => (start = 0 <=> Len(numbers) = 0)
    PROVE  more = numbers /\ Follows(section, more, before, size0, [read EXCEPT !.next = start])
  <1>1. /\ numbers \in Seq(Nat) /\ more \in Seq(Nat) /\ Len(numbers) \in Nat
        /\ Len(more) = Len(numbers) /\ \A k \in 1 .. Len(numbers) : more[k] = numbers[k]
    BY DEF Numbered
  <1>2. more = numbers
    BY <1>1, SeqEqual
  <1> DEFINE after == [read EXCEPT !.next = start]
  <1>3. /\ after.ok = read.ok /\ after.line = read.line /\ after.size = read.size
        /\ after.next = start /\ after.table = read.table
    BY DEF Reads
  <1> HIDE DEF after
  <1>4. Follows(section, numbers, before, size0, after)
    BY <1>3 DEF Follows
  <1> QED
    BY <1>2, <1>4 DEF after

(* What is read follows the numbers, or fails at lines that are bad.       *)
FollowsOrFails(section, numbers, before, size, read) ==
    IF read.ok THEN Follows(section, numbers, before, size, read) ELSE ~IsGood(section, numbers)

LEMMA ReadNextFollows ==
    ASSUME NEW section \in Section, section.kind \in {"table", "stream"},
           NEW before, NEW size0 \in Nat, NEW read \in Reads(section),
           NEW numbers \in Seq(Nat), NEW s \in Subsections,
           FollowsOrFails(section, numbers, before, size0, read),
           IsFirst(section) /\ Len(numbers) > 0 => s # [start |-> 0, size |-> 0]
    PROVE  FollowsOrFails(section, numbers \o IDsOf(section, numbers, s), before, size0,
                          ReadNext(section, read, s))
  <1> DEFINE start == StartOf(section, read, s)
             more == numbers \o IDsOf(section, numbers, s)
             after == ReadNext(section, read, s)
             size == s.size
             count == EntriesThere(section, read, size)
             good == [ok |-> TRUE, size |-> Larger(read.size, start + size),
                      line |-> read.line + count, next |-> start + size,
                      table |-> Overwritten(read.table, start, count, section.lines, read.line)]
  <1>1. after = IF read.ok THEN ReadSubsection(section, read, start, size) ELSE read
    <2> DEFINE next == IF read.ok THEN ReadSubsection(section, read, start, size) ELSE read
    <2>1. {IF r.ok THEN ReadSubsection(section, r, StartOf(section, r, s), s.size) ELSE r : r \in {read}}
            = {next}
      OBVIOUS
    <2> HIDE DEF next
    <2>2. after = next
      BY <2>1 DEF ReadNext
    <2> QED
      BY <2>2 DEF next
  <1>2. s.start \in Nat /\ size \in Nat /\ s = [start |-> s.start, size |-> s.size]
    BY DEF Subsections
  <1>3. CASE ~read.ok
    <2>1. ~IsGood(section, numbers)
      BY <1>3 DEF FollowsOrFails
    <2>2. Numbered(numbers, more, IF IsFirst(section) /\ numbers = <<>> THEN 0 ELSE s.start, size)
      BY IDsNumber
    <2> HIDE DEF more, size
    <2>3. ~IsGood(section, more)
      BY <1>2, <2>1, <2>2, BadStays
    <2>4. after = read
      BY <1>1, <1>3
    <2> HIDE DEF after
    <2>5. FollowsOrFails(section, more, before, size0, after)
      BY <1>3, <2>3, <2>4 DEF FollowsOrFails
    <2> QED
      BY <2>5 DEF after, more
  <1>4. CASE read.ok
    <2>1. Follows(section, numbers, before, size0, read)
      BY <1>4 DEF FollowsOrFails
    <2>2. numbers = <<>> <=> Len(numbers) = 0
      BY EmptySeq
    <2>3. Len(numbers) \in Nat /\ (IsFirst(section) => (read.next = 0 <=> Len(numbers) = 0))
      BY <2>1 DEF Follows
    <2>4. start = IF IsFirst(section) /\ numbers = <<>> THEN 0 ELSE s.start
      BY <2>2, <2>3 DEF StartOf, IsFirst
    <2>5. start \in Nat /\ Numbered(numbers, more, start, size)
      <3>1. Numbered(numbers, more, IF IsFirst(section) /\ numbers = <<>> THEN 0 ELSE s.start, size)
        BY IDsNumber
      <3>2. start \in Nat
        BY <1>2, <2>4
      <3> HIDE DEF more, size, start
      <3> QED
        BY <2>4, <3>1, <3>2
    <2>6. after = ReadSubsection(section, read, start, size)
      BY <1>1, <1>4
    <2>7. IsFirst(section) => section.kind = "table"
      BY DEF IsFirst
    <2>8. IsFirst(section) /\ size = 0 => (start = 0 <=> Len(numbers) = 0)
      BY <1>2, <2>2, <2>3, <2>4
    <2> HIDE DEF start, more, after, size
    <2>9. CASE size = 0 /\ section.kind = "table"
      <3>1. after = [read EXCEPT !.next = start]
        BY <2>6, <2>9 DEF ReadSubsection
      <3>2. Numbered(numbers, more, start, 0)
        BY <2>5, <2>9
      <3>3. Follows(section, more, before, size0, after)
        BY <2>1, <2>5, <2>8, <2>9, <3>1, <3>2, EmptySubsection
      <3>4. FollowsOrFails(section, more, before, size0, after)
        BY <3>3 DEF FollowsOrFails, Follows
      <3> QED
        BY <3>4 DEF more, after
    <2>10. ASSUME ~(size = 0 /\ section.kind = "table"),
                  \/ section.kind = "table" /\ size > MaxIDs - start
                  \/ ~EntriesParse(section, read, start, count)
           PROVE  FollowsOrFails(section, more, before, size0, after)
      <3>1. after = Fail(read)
        BY <2>6, <2>10 DEF ReadSubsection, count
      <3>2. ~after.ok
        BY <3>1 DEF Fail, Reads
      <3>3. section.kind = "table" => size > 0
        BY <1>2, <2>10
      <3>4. ~IsGood(section, more)
        BY <1>2, <2>1, <2>5, <2>10, <3>3, BadSubsection DEF count
      <3> QED
        BY <3>2, <3>4 DEF FollowsOrFails
    <2>11. ASSUME ~(size = 0 /\ section.kind = "table"),
                  ~(section.kind = "table" /\ size > MaxIDs - start),
                  EntriesParse(section, read, start, count)
           PROVE  FollowsOrFails(section, more, before, size0, after)
      <3>1. after = good
        BY <2>6, <2>11 DEF ReadSubsection, count, good
      <3>2. IsFirst(section) => size > 0
        BY <1>2, <2>7, <2>11
      <3>3. Follows(section, more, before, size0, good)
        BY <1>2, <2>1, <2>5, <2>11, <3>2, GoodSubsection DEF count, good
      <3> HIDE DEF good
      <3> QED
        BY <3>1, <3>3 DEF FollowsOrFails, Follows
    <2>12. FollowsOrFails(section, more, before, size0, after)
      BY <2>9, <2>10, <2>11 DEF more, after
    <2> QED
      BY <2>12 DEF more, after
  <1>5. read.ok \in BOOLEAN
    BY DEF Reads
  <1> QED
    BY <1>3, <1>4

LEMMA NothingFollows ==
    ASSUME NEW section \in Section, NEW table, NEW size \in Nat
    PROVE  Follows(section, <<>>, table, size, BeforeReading(table, size))
  <1> DEFINE none == <<>>
             read == BeforeReading(table, size)
  <1>1. Len(none) = 0 /\ Len(section.lines) \in Nat
    BY EmptySeq, SectionTyped
  <1>2. \A id : LinesOf(section, none, id) = {}
    BY <1>1 DEF LinesOf
  <1> HIDE DEF none
  <1>3. IsGood(section, none)
    BY <1>1 DEF IsGood
  <1>4. SaysOver(section, none, table, table)
    BY <1>2 DEF SaysOver
  <1>5. read.line = Smaller(0, Len(section.lines)) + 1
    BY <1>1 DEF BeforeReading, Smaller
  <1>6. read.ok /\ read.size = size /\ read.next = 0 /\ read.table = table
    BY DEF BeforeReading
  <1> HIDE DEF read
  <1>7. Follows(section, none, table, size, read)
    BY <1>1, <1>3, <1>4, <1>5, <1>6 DEF Follows
  <1> QED
    BY <1>7 DEF none, read

LEMMA ReadSubsectionsFollow ==
    ASSUME NEW section \in Section, section.kind \in {"table", "stream"}, StartsAreClear(section),
           NEW table \in Tables, NEW size \in Nat
    PROVE  FollowsOrFails(section, Numbering(section), table, size, ReadSubsections(section, table, size))
  <1> DEFINE n == Len(section.subsections)
  <1>1. PICK f : Numbers(section, f) /\ Numbering(section) = f[n]
    BY NumbersExist
  <1>2. PICK g : Reading(section, table, size, g) /\ ReadSubsections(section, table, size) = g[n]
    BY ReadingExists
  <1>3. /\ n \in Nat /\ DOMAIN section.subsections = 1 .. n
        /\ \A k \in 1 .. n : section.subsections[k] \in Subsections
    BY SubsectionTyped
  <1>4. /\ f \in [0 .. n -> Seq(Nat)] /\ f[0] = <<>>
        /\ \A k \in 1 .. n : f[k] = f[k - 1] \o IDsOf(section, f[k - 1], section.subsections[k])
    BY <1>1 DEF Numbers
  <1>5. /\ g \in [0 .. n -> Reads(section)] /\ g[0] = BeforeReading(table, size)
        /\ \A k \in 1 .. n : g[k] = ReadNext(section, g[k - 1], section.subsections[k])
    BY <1>2 DEF Reading
  <1> DEFINE Empty(k) == \A j \in 1 .. k : section.subsections[j].size = 0
             S == {k \in 0 .. n : /\ FollowsOrFails(section, f[k], table, size, g[k])
                                  /\ Empty(k) => Len(f[k]) = 0}
  <1> HIDE DEF n
  <1>6. 0 \in S
    <2>1. Follows(section, f[0], table, size, g[0])
      BY <1>4, <1>5, NothingFollows
    <2>2. FollowsOrFails(section, f[0], table, size, g[0])
      BY <2>1 DEF FollowsOrFails, Follows
    <2>3. Len(f[0]) = 0 /\ 0 \in 0 .. n
      BY <1>3, <1>4, EmptySeq
    <2> QED
      BY <2>2, <2>3
  <1>7. ASSUME NEW k \in 0 .. n - 1, k \in S
        PROVE  k + 1 \in S
    <2> DEFINE s == section.subsections[k + 1]
    <2>1. k + 1 \in 1 .. n /\ (k + 1) - 1 = k /\ k + 1 \in 0 .. n /\ k \in 0 .. n
      BY <1>3
    <2>2. FollowsOrFails(section, f[k], table, size, g[k]) /\ (Empty(k) => Len(f[k]) = 0)
      BY <1>7
    <2>3. f[k] \in Seq(Nat) /\ g[k] \in Reads(section) /\ s \in Subsections
      BY <1>3, <1>4, <1>5, <2>1
    <2>4. f[k + 1] = f[k] \o IDsOf(section, f[k], s) /\ g[k + 1] = ReadNext(section, g[k], s)
      BY <1>4, <1>5, <2>1
    <2>5. IsFirst(section) /\ Len(f[k]) > 0 => s # [start |-> 0, size |-> 0]
      <3> SUFFICES ASSUME IsFirst(section), s = [start |-> 0, size |-> 0]
                   PROVE  Len(f[k]) = 0
        OBVIOUS
      <3>1. \A before \in 1 .. k + 1 : section.subsections[before].size = 0
        BY <1>3, <2>1 DEF StartsAreClear
      <3>2. Empty(k)
        BY <2>1, <3>1
      <3> QED
        BY <2>2, <3>2
    <2>6. FollowsOrFails(section, f[k + 1], table, size, g[k + 1])
      BY <2>2, <2>3, <2>4, <2>5, ReadNextFollows
    <2>7. Empty(k + 1) => Len(f[k + 1]) = 0
      <3> SUFFICES ASSUME Empty(k + 1) PROVE Len(f[k + 1]) = 0
        OBVIOUS
      <3>1. Empty(k) /\ s.size = 0
        BY <2>1
      <3>2. IDsOf(section, f[k], s) \in Seq(Nat) /\ Len(IDsOf(section, f[k], s)) = 0
        BY <2>3, <3>1, IDsTyped
      <3>3. Len(f[k + 1]) = Len(f[k]) + Len(IDsOf(section, f[k], s))
        BY <2>3, <2>4, <3>2, ConcatProperties
      <3> QED
        BY <2>2, <3>1, <3>2, <3>3
    <2> QED
      BY <2>1, <2>6, <2>7
  <1> HIDE DEF S
  <1>8. \A k \in 0 .. n : k \in S
    BY <1>3, <1>6, <1>7, InductionUpTo
  <1>9. n \in S
    BY <1>3, <1>8
  <1> QED
    BY <1>1, <1>2, <1>9 DEF S, n

-----------------------------------------------------------------------------
(***************************************************************************)
(* A section: it is read when it is readable, and the table has its        *)
(* entries over those it had.                                              *)
(***************************************************************************)
Over(entry, older) == IF entry # EmptyEntry THEN entry ELSE older

IsEntry(entry) == entry \in Entries /\ (entry # EmptyEntry => entry.type # "Undefined")

LEMMA NumberingTyped ==
    ASSUME NEW section \in Section
    PROVE  Numbering(section) \in Seq(Nat)
  <1>1. PICK f : Numbers(section, f) /\ Numbering(section) = f[Len(section.subsections)]
    BY NumbersExist
  <1>2. Len(section.subsections) \in 0 .. Len(section.subsections)
    BY SubsectionTyped
  <1> QED
    BY <1>1, <1>2 DEF Numbers

LEMMA ReadableIsGood ==
    ASSUME NEW section \in Section
    PROVE  SectionIsReadable(section)
             <=> section.kind \in {"table", "stream"} /\ IsGood(section, Numbering(section))
  <1>1. Numbering(section) \in Seq(Nat)
    BY NumberingTyped
  <1>2. DOMAIN Numbering(section) = 1 .. Len(Numbering(section))
    BY <1>1, LenProperties
  <1>3. section.kind # "other" <=> section.kind \in {"table", "stream"}
    BY SectionTyped
  <1> QED
    BY <1>2, <1>3 DEF SectionIsReadable, IsGood

LEMMA LineIsEntry ==
    ASSUME NEW section \in Section, NEW k \in Nat \ {0}, k <= Len(section.lines)
    PROVE  IsEntry(section.lines[k]) /\ section.lines[k] # EmptyEntry
  <1>1. section.lines \in Seq(Lines) /\ Len(section.lines) \in Nat
    BY SectionTyped
  <1>2. section.lines[k] \in Lines
    BY <1>1, ElementOfSeq
  <1>3. section.lines[k] \in Entries /\ section.lines[k].type # "Undefined"
    BY <1>2 DEF Lines, Entries, EntryTypes
  <1>4. EmptyEntry.type = "Undefined"
    BY DEF EmptyEntry
  <1> QED
    BY <1>3, <1>4 DEF IsEntry

LEMMA EntryInIs ==
    ASSUME NEW section \in Section, NEW id \in Nat
    PROVE  /\ LinesOf(section, Numbering(section), id) = {} => EntryIn(section, id) = EmptyEntry
           /\ \A k : IsLastOf(section, Numbering(section), id, k) => EntryIn(section, id) = section.lines[k]
  <1> DEFINE numbers == Numbering(section)
             lines == {k \in DOMAIN numbers : numbers[k] = id /\ k <= Len(section.lines)}
             Latest(k) == k \in lines /\ \A other \in lines : other <= k
  <1>1. numbers \in Seq(Nat) /\ Len(numbers) \in Nat /\ DOMAIN numbers = 1 .. Len(numbers)
    BY NumberingTyped, LenProperties
  <1>2. lines = LinesOf(section, numbers, id)
    BY <1>1 DEF LinesOf
  <1>3. EntryIn(section, id)
          = IF lines = {} THEN EmptyEntry
            ELSE section.lines[CHOOSE k \in lines : \A other \in lines : other <= k]
    BY DEF EntryIn
  <1>4. \A k \in lines : k \in Nat
    BY <1>1
  <1> HIDE DEF lines, numbers
  <1>5. ASSUME NEW k, IsLastOf(section, numbers, id, k)
        PROVE  EntryIn(section, id) = section.lines[k]
    <2>1. k \in lines /\ \A other \in lines : other <= k
      BY <1>2, <1>5 DEF IsLastOf
    <2>2. \A other \in lines : (\A x \in lines : x <= other) => other = k
      BY <1>4, <2>1
    <2>3. (CHOOSE x \in lines : \A other \in lines : other <= x) = k
      BY <2>1, <2>2
    <2> QED
      BY <1>3, <2>1, <2>3
  <1> QED
    BY <1>2, <1>3, <1>5 DEF numbers

LEMMA EntryInTyped ==
    ASSUME NEW section \in Section, NEW id \in Nat
    PROVE  IsEntry(EntryIn(section, id))
  <1> DEFINE numbers == Numbering(section)
             lines == LinesOf(section, numbers, id)
  <1>1. IsEntry(EmptyEntry)
    BY DEF IsEntry, EmptyEntry, Entries
  <1>2. CASE lines = {}
    BY <1>1, <1>2, EntryInIs
  <1>3. CASE lines # {}
    <2>1. numbers \in Seq(Nat) /\ Len(numbers) \in Nat /\ Len(section.lines) \in Nat
      BY NumberingTyped, SectionTyped
    <2>2. lines \subseteq 1 .. Len(numbers) /\ \A k \in lines : k <= Len(section.lines)
      BY DEF LinesOf
    <2> DEFINE n == Len(numbers)
               above == {n - k : k \in lines}
    <2> HIDE DEF lines, numbers, n
    <2>3. above \subseteq Nat /\ above # {}
      <3>1. \A k \in lines : n - k \in Nat
        BY <2>1, <2>2 DEF n
      <3> QED
        BY <1>3, <3>1
    <2>4. PICK x \in above : \A y \in above : x <= y
      BY <2>3, LeastNumber
    <2>5. PICK k \in lines : x = n - k
      BY <2>4
    <2>6. \A other \in lines : other <= k
      <3> SUFFICES ASSUME NEW other \in lines PROVE other <= k
        OBVIOUS
      <3>1. n - other \in above
        OBVIOUS
      <3>2. n - k <= n - other
        BY <2>4, <2>5, <3>1
      <3>3. n \in Nat /\ k \in Nat /\ other \in Nat
        BY <2>1, <2>2 DEF n
      <3> QED
        BY <3>2, <3>3
    <2>7. IsLastOf(section, numbers, id, k)
      BY <2>6 DEF IsLastOf, lines
    <2>8. EntryIn(section, id) = section.lines[k]
      BY <2>7, EntryInIs DEF numbers
    <2>9. k \in Nat \ {0} /\ k <= Len(section.lines)
      BY <2>1, <2>2
    <2> QED
      BY <2>8, <2>9, LineIsEntry
  <1> QED
    BY <1>2, <1>3

LEMMA ReadSubsectionsSay ==
    ASSUME NEW section \in Section, section.kind \in {"table", "stream"}, StartsAreClear(section),
           NEW table \in Tables, NEW size \in Nat
    PROVE  LET read == ReadSubsections(section, table, size)
           IN  /\ read.ok <=> SectionIsReadable(section)
               /\ read.ok =>
                     /\ size <= read.size
                     /\ \A id \in Nat :
                           /\ TableEntry(read.table, id) = Over(EntryIn(section, id), TableEntry(table, id))
                           /\ EntryIn(section, id) # EmptyEntry => id < read.size
  <1> DEFINE read == ReadSubsections(section, table, size)
             numbers == Numbering(section)
  <1>1. FollowsOrFails(section, numbers, table, size, read)
    BY ReadSubsectionsFollow
  <1>2. numbers \in Seq(Nat) /\ Len(numbers) \in Nat /\ Len(section.lines) \in Nat
    BY NumberingTyped, SectionTyped
  <1>3. SectionIsReadable(section) <=> IsGood(section, numbers)
    BY ReadableIsGood
  <1>4. /\ \A id \in Nat : LinesOf(section, numbers, id) = {} => EntryIn(section, id) = EmptyEntry
        /\ \A id \in Nat : \A k : IsLastOf(section, numbers, id, k) => EntryIn(section, id) = section.lines[k]
    BY EntryInIs
  <1> HIDE DEF read, numbers
  <1>5. read.ok <=> SectionIsReadable(section)
    BY <1>1, <1>3 DEF FollowsOrFails, Follows
  <1>6. ASSUME read.ok, NEW id \in Nat
        PROVE  /\ TableEntry(read.table, id) = Over(EntryIn(section, id), TableEntry(table, id))
               /\ EntryIn(section, id) # EmptyEntry => id < read.size
    <2>1. Follows(section, numbers, table, size, read)
      BY <1>1, <1>6 DEF FollowsOrFails
    <2>2. CASE /\ LinesOf(section, numbers, id) = {}
               /\ TableEntry(read.table, id) = TableEntry(table, id)
      BY <1>4, <2>2 DEF Over
    <2>3. ASSUME NEW k \in LinesOf(section, numbers, id), IsLastOf(section, numbers, id, k),
                 TableEntry(read.table, id) = section.lines[k]
          PROVE  /\ TableEntry(read.table, id) = Over(EntryIn(section, id), TableEntry(table, id))
                 /\ id < read.size
      <3>1. k \in 1 .. Len(numbers) /\ numbers[k] = id /\ k <= Len(section.lines)
        BY DEF LinesOf
      <3>2. section.lines[k] # EmptyEntry
        BY <1>2, <3>1, LineIsEntry
      <3>3. EntryIn(section, id) = section.lines[k]
        BY <1>4, <2>3
      <3>4. id < read.size
        BY <2>1, <3>1 DEF Follows
      <3> QED
        BY <2>3, <3>2, <3>3, <3>4 DEF Over
    <2>4. SaysOver(section, numbers, table, read.table)
      BY <2>1 DEF Follows
    <2> QED
      BY <2>2, <2>3, <2>4 DEF SaysOver
  <1>7. read.ok => size <= read.size
    BY <1>1 DEF FollowsOrFails, Follows
  <1> QED
    BY <1>5, <1>6, <1>7 DEF read

LEMMA ClearSections ==
    ASSUME FileIsClear, NEW position
    PROVE  StartsAreClear(SectionAt(position))
  <1>1. CASE position \in DOMAIN file.sections
    BY <1>1 DEF FileIsClear, SectionAt
  <1>2. CASE position \notin DOMAIN file.sections
    <2>1. SectionAt(position).kind = "other"
      BY <1>2 DEF SectionAt
    <2> QED
      BY <2>1 DEF StartsAreClear, IsFirst
  <1> QED
    BY <1>1, <1>2

LEMMA EntryAtTyped ==
    ASSUME file \in Files, NEW position, NEW id \in Nat
    PROVE  IsEntry(EntryAt(position, id))
  <1> DEFINE section == SectionAt(position)
             stream == SectionAt(section.xrefStm)
  <1>1. section \in Section /\ stream \in Section
    BY SectionAtTyped
  <1>2. IsEntry(EntryIn(section, id)) /\ IsEntry(EntryIn(stream, id))
    BY <1>1, EntryInTyped
  <1> HIDE DEF section, stream
  <1>3. EntryAt(position, id) \in {EntryIn(section, id), EntryIn(stream, id)}
    BY DEF EntryAt, section, stream
  <1> QED
    BY <1>2, <1>3

LEMMA ReadSectionSays ==
    ASSUME FileIsClear, file \in Files, NEW position, SectionAt(position).kind # "other",
           NEW table \in Tables, NEW size \in Nat
    PROVE  LET read == ReadSection(SectionAt(position), table, size)
           IN  /\ read.ok <=> IsReadableAt(position)
               /\ read.ok =>
                     /\ size <= read.size
                     /\ \A id \in Nat :
                           /\ TableEntry(read.table, id) = Over(EntryAt(position, id), TableEntry(table, id))
                           /\ EntryAt(position, id) # EmptyEntry => id < read.size
  <1> DEFINE section == SectionAt(position)
             stream == SectionAt(section.xrefStm)
             first == ReadSubsections(section, table, size)
             second == ReadSubsections(stream, first.table, first.size)
             read == ReadSection(section, table, size)
  <1>1. section \in Section /\ stream \in Section /\ StartsAreClear(section) /\ StartsAreClear(stream)
    BY SectionAtTyped, ClearSections
  <1>2. section.kind \in {"table", "stream"}
    BY <1>1, SectionTyped
  <1>3. first \in Reads(section)
    BY <1>1, ReadSubsectionsTyped
  <1>4. first.table \in Tables /\ first.size \in Nat /\ first.ok \in BOOLEAN
    BY <1>3 DEF Reads
  <1>5. /\ first.ok <=> SectionIsReadable(section)
        /\ first.ok =>
              /\ size <= first.size
              /\ \A id \in Nat :
                    /\ TableEntry(first.table, id) = Over(EntryIn(section, id), TableEntry(table, id))
                    /\ EntryIn(section, id) # EmptyEntry => id < first.size
    BY <1>1, <1>2, ReadSubsectionsSay
  <1>6. /\ IsReadableAt(position) <=>
              SectionIsReadable(section)
              /\ (IsHybrid(section) => stream.kind = "stream" /\ SectionIsReadable(stream))
        /\ \A id : EntryAt(position, id) = IF IsHybrid(section)
                                           THEN Over(EntryIn(stream, id), EntryIn(section, id))
                                           ELSE EntryIn(section, id)
    BY DEF IsReadableAt, EntryAt, Over
  <1> HIDE DEF first
  <1>7. read = IF ~first.ok \/ ~IsHybrid(section) THEN first
               ELSE IF stream.kind # "stream" THEN Fail(first) ELSE second
    BY DEF ReadSection, IsHybrid, first
  <1> HIDE DEF section, stream, second, read
  <1> DEFINE Says(r) == /\ r.ok <=> IsReadableAt(position)
                        /\ r.ok =>
                              /\ size <= r.size
                              /\ \A id \in Nat :
                                    /\ TableEntry(r.table, id) = Over(EntryAt(position, id), TableEntry(table, id))
                                    /\ EntryAt(position, id) # EmptyEntry => id < r.size
  <1>8. CASE ~first.ok \/ ~IsHybrid(section)
    <2>1. Says(first)
      BY <1>5, <1>6, <1>8
    <2> QED
      BY <1>7, <1>8, <2>1 DEF read, section
  <1>9. CASE first.ok /\ IsHybrid(section) /\ stream.kind # "stream"
    <2>1. read = Fail(first)
      BY <1>7, <1>9
    <2>2. ~read.ok
      BY <1>3, <2>1 DEF Fail, Reads
    <2> QED
      BY <1>6, <1>9, <2>2 DEF read, section
  <1>10. CASE first.ok /\ IsHybrid(section) /\ stream.kind = "stream"
    <2>1. /\ second.ok <=> SectionIsReadable(stream)
          /\ second.ok =>
                /\ first.size <= second.size
                /\ \A id \in Nat :
                      /\ TableEntry(second.table, id) = Over(EntryIn(stream, id), TableEntry(first.table, id))
                      /\ EntryIn(stream, id) # EmptyEntry => id < second.size
      BY <1>1, <1>4, <1>10, ReadSubsectionsSay DEF second
    <2>2. second.size \in Nat
      <3>1. second \in Reads(stream)
        BY <1>1, <1>4, ReadSubsectionsTyped DEF second
      <3> QED
        BY <3>1 DEF Reads
    <2>3. read = second
      BY <1>7, <1>10
    <2>4. second.ok <=> IsReadableAt(position)
      BY <1>5, <1>6, <1>10, <2>1
    <2>5. second.ok => size <= second.size
      BY <1>4, <1>5, <1>10, <2>1, <2>2
    <2>6. ASSUME second.ok, NEW id \in Nat
          PROVE  /\ TableEntry(second.table, id) = Over(EntryAt(position, id), TableEntry(table, id))
                 /\ EntryAt(position, id) # EmptyEntry => id < second.size
      <3>1. /\ TableEntry(second.table, id) = Over(EntryIn(stream, id), TableEntry(first.table, id))
            /\ EntryIn(stream, id) # EmptyEntry => id < second.size
        BY <2>1, <2>6
      <3>2. /\ TableEntry(first.table, id) = Over(EntryIn(section, id), TableEntry(table, id))
            /\ EntryIn(section, id) # EmptyEntry => id < second.size
        BY <1>4, <1>5, <1>10, <2>1, <2>2, <2>6
      <3>3. EntryAt(position, id) = Over(EntryIn(stream, id), EntryIn(section, id))
        BY <1>6, <1>10
      <3> QED
        BY <3>1, <3>2, <3>3 DEF Over
    <2>7. Says(second)
      BY <2>4, <2>5, <2>6
    <2> QED
      BY <2>3, <2>7 DEF read, section
  <1> QED
    BY <1>8, <1>9, <1>10

-----------------------------------------------------------------------------
(***************************************************************************)
(* The chain of sections.                                                  *)
(***************************************************************************)
AreSteps(back) ==
    back = [k \in 0 .. Len(file.sections) |->
               IF k = 0 THEN file.startxref ELSE SectionAt(back[k - 1]).prev]

PositionsAreSteps ==
    /\ Len(file.sections) \in Nat /\ DOMAIN file.sections = 1 .. Len(file.sections)
    /\ AreSteps(Positions)
    /\ Positions[0] = file.startxref
    /\ \A k \in 1 .. Len(file.sections) : Positions[k] = SectionAt(Positions[k - 1]).prev

LEMMA PositionsAre ==
    file \in Files => PositionsAreSteps
  <1> SUFFICES ASSUME file \in Files PROVE PositionsAreSteps
    OBVIOUS
  <1> DEFINE V == Int
             n == Len(file.sections)
             step == [p \in (1 .. n) \X V |-> SectionAt(p[2]).prev]
  <1>1. n \in Nat /\ DOMAIN file.sections = 1 .. n /\ file.startxref \in V
    BY XrefParserAssumption, LenProperties
  <1>2. \A position : SectionAt(position).prev \in V
    BY SectionAtTyped, SectionTyped
  <1>3. step \in [(1 .. n) \X V -> V]
    BY <1>2
  <1> HIDE DEF V, n, step
  <1>4. PICK f : Steps(f, V, file.startxref, n, step)
    BY <1>1, <1>3, Recursion
  <1>5. f \in [0 .. n -> V] /\ f[0] = file.startxref
    BY <1>4 DEF Steps
  <1>6. \A k \in 1 .. n : f[k] = SectionAt(f[k - 1]).prev
    <2> SUFFICES ASSUME NEW k \in 1 .. n PROVE f[k] = SectionAt(f[k - 1]).prev
      OBVIOUS
    <2>1. f[k - 1] \in V
      BY <1>1, <1>5
    <2>2. <<k, f[k - 1]>> \in (1 .. n) \X V
      BY <2>1
    <2> QED
      BY <1>4, <2>2 DEF Steps, step
  <1>7. \A k \in 0 .. n : k = 0 \/ k \in 1 .. n
    BY <1>1
  <1>8. f = [k \in 0 .. n |-> IF k = 0 THEN file.startxref ELSE SectionAt(f[k - 1]).prev]
    BY <1>5, <1>6, <1>7
  <1>9. AreSteps(f)
    BY <1>8 DEF AreSteps, n
  <1>10. AreSteps(Positions)
    BY <1>9 DEF AreSteps, Positions
  <1>11. PICK g : g = Positions
    OBVIOUS
  <1>12. g = [k \in 0 .. n |-> IF k = 0 THEN file.startxref ELSE SectionAt(g[k - 1]).prev]
    BY <1>10, <1>11 DEF AreSteps, n
  <1>13. g[0] = file.startxref
    BY <1>1, <1>12
  <1>14. \A k \in 1 .. n : g[k] = SectionAt(g[k - 1]).prev
    <2> SUFFICES ASSUME NEW k \in 1 .. n PROVE g[k] = SectionAt(g[k - 1]).prev
      OBVIOUS
    <2>1. k \in 0 .. n /\ k # 0
      BY <1>1
    <2> QED
      BY <1>12, <2>1
  <1> QED
    BY <1>1, <1>10, <1>11, <1>13, <1>14 DEF PositionsAreSteps, n

LEMMA StepsAreUnique ==
    ASSUME file \in Files, NEW f, AreSteps(f), NEW g, AreSteps(g)
    PROVE  f = g
  <1> DEFINE n == Len(file.sections)
             S == {k \in 0 .. n : f[k] = g[k]}
  <1>1. n \in Nat
    BY PositionsAre DEF PositionsAreSteps
  <1>2. 0 \in S
    BY <1>1 DEF AreSteps
  <1>3. ASSUME NEW k \in 0 .. n - 1, k \in S
        PROVE  k + 1 \in S
    <2>1. k + 1 \in 0 .. n /\ k + 1 # 0 /\ (k + 1) - 1 = k
      BY <1>1
    <2>2. f[k + 1] = SectionAt(f[k]).prev /\ g[k + 1] = SectionAt(g[k]).prev
      BY <2>1 DEF AreSteps
    <2> QED
      BY <1>3, <2>1, <2>2
  <1> HIDE DEF S
  <1>4. \A k \in 0 .. n : k \in S
    BY <1>1, <1>2, <1>3, InductionUpTo
  <1>5. \A k \in 0 .. n : f[k] = g[k]
    BY <1>4 DEF S
  <1>6. f = [k \in 0 .. n |-> f[k]] /\ g = [k \in 0 .. n |-> g[k]]
    BY DEF AreSteps
  <1> QED
    BY <1>5, <1>6

(* All this is about the file only.                                        *)
LEMMA SameFile ==
    ASSUME file \in Files, UNCHANGED file
    PROVE  /\ UNCHANGED Positions
           /\ \A position : UNCHANGED SectionAt(position)
           /\ \A position, id : UNCHANGED EntryAt(position, id)
           /\ \A position : UNCHANGED IsReadableAt(position)
           /\ \A k : UNCHANGED EndsAt(k)
           /\ UNCHANGED ChainIsReadable
  <1>1. \A position : SectionAt(position)' = SectionAt(position)
    BY DEF SectionAt
  <1>2. UNCHANGED Positions
    <2>1. \A f : AreSteps(f)' <=> AreSteps(f)
      BY <1>1 DEF AreSteps
    <2>2. AreSteps(Positions)
      BY PositionsAre DEF PositionsAreSteps
    <2>3. PICK f : f = Positions
      OBVIOUS
    <2>4. AreSteps(f)'
      BY <2>1, <2>2, <2>3
    <2>5. PICK g : g = Positions'
      OBVIOUS
    <2>6. AreSteps(g)'
      BY <2>4, <2>5 DEF AreSteps, Positions
    <2>7. AreSteps(g)
      BY <2>1, <2>6
    <2> QED
      BY <2>2, <2>3, <2>5, <2>7, StepsAreUnique
  <1>3. \A position, id : EntryAt(position, id)' = EntryAt(position, id)
    BY <1>1 DEF EntryAt
  <1>4. \A position : IsReadableAt(position)' <=> IsReadableAt(position)
    BY <1>1 DEF IsReadableAt
  <1>5. \A k : EndsAt(k)' <=> EndsAt(k)
    BY <1>1, <1>2 DEF EndsAt
  <1>6. Chain' = Chain
    BY <1>5 DEF Chain
  <1>7. ChainIsReadable' <=> ChainIsReadable
    BY <1>1, <1>2, <1>4, <1>5, <1>6 DEF ChainIsReadable
  <1> QED
    BY <1>1, <1>2, <1>3, <1>4, <1>5, <1>7

(* What makes a chain unreadable.                                          *)
LEMMA UnreadableAt ==
    ASSUME file \in Files, NEW m \in 0 .. Len(file.sections), \A i \in 0 .. m - 1 : ~EndsAt(i),
           ~IsReadableAt(Positions[m])
    PROVE  ~ChainIsReadable
  <1>1. m \in Chain
    BY DEF Chain
  <1> QED
    BY <1>1 DEF ChainIsReadable

LEMMA NotASection ==
    ASSUME NEW position, SectionAt(position).kind = "other"
    PROVE  ~IsReadableAt(position)
  BY DEF IsReadableAt, SectionIsReadable

LEMMA UnreadableStart ==
    file \in Files
    /\ (SectionAt(file.startxref).kind = "other" \/ SectionAt(file.startxref).size = NoSize)
      => ~ChainIsReadable
  <1> SUFFICES ASSUME file \in Files,
                      \/ SectionAt(file.startxref).kind = "other"
                      \/ SectionAt(file.startxref).size = NoSize
               PROVE  ~ChainIsReadable
    OBVIOUS
  <1>1. CASE SectionAt(file.startxref).size = NoSize
    BY <1>1 DEF ChainIsReadable
  <1>2. CASE SectionAt(file.startxref).kind = "other"
    <2>1. Positions[0] = file.startxref /\ 0 \in 0 .. Len(file.sections)
      BY PositionsAre DEF PositionsAreSteps
    <2>2. ~IsReadableAt(Positions[0])
      BY <1>2, <2>1, NotASection
    <2>3. \A i \in 0 .. 0 - 1 : ~EndsAt(i)
      OBVIOUS
    <2> QED
      BY <2>1, <2>2, <2>3, UnreadableAt
  <1> QED
    BY <1>1, <1>2

(* A chain that comes back to one of its steps has no end.                 *)
LEMMA CircularChain ==
    ASSUME file \in Files, NEW m \in Nat, m < Len(file.sections), \A i \in 0 .. m : ~EndsAt(i),
           NEW back \in 0 .. m, Positions[m + 1] = Positions[back]
    PROVE  ~ChainIsReadable
  <1> DEFINE n == Len(file.sections)
             S == {k \in 0 .. n : \E i \in 0 .. m : Positions[k] = Positions[i]}
  <1>1. n \in Nat /\ \A k \in 1 .. n : Positions[k] = SectionAt(Positions[k - 1]).prev
    BY PositionsAre DEF PositionsAreSteps
  <1>2. 0 \in S
    BY <1>1
  <1>3. ASSUME NEW k \in 0 .. n - 1, k \in S
        PROVE  k + 1 \in S
    <2>1. PICK i \in 0 .. m : Positions[k] = Positions[i]
      BY <1>3
    <2>2. k + 1 \in 1 .. n /\ (k + 1) - 1 = k /\ i + 1 \in 1 .. n /\ (i + 1) - 1 = i /\ k + 1 \in 0 .. n
      BY <1>1
    <2>3. Positions[k + 1] = Positions[i + 1]
      <3>1. Positions[k + 1] = SectionAt(Positions[k]).prev
        BY <1>1, <2>2
      <3>2. Positions[i + 1] = SectionAt(Positions[i]).prev
        BY <1>1, <2>2
      <3> QED
        BY <2>1, <3>1, <3>2
    <2>4. CASE i < m
      <3>1. i + 1 \in 0 .. m
        BY <2>4
      <3> QED
        BY <2>2, <2>3, <3>1
    <2>5. CASE i = m
      BY <2>2, <2>3, <2>5
    <2> QED
      BY <2>4, <2>5
  <1> HIDE DEF S, n
  <1>4. \A k \in 0 .. n : k \in S
    BY <1>1, <1>2, <1>3, InductionUpTo
  <1>5. \A k \in 0 .. n : ~EndsAt(k)
    <2> SUFFICES ASSUME NEW k \in 0 .. n PROVE ~EndsAt(k)
      OBVIOUS
    <2>1. PICK i \in 0 .. m : Positions[k] = Positions[i]
      BY <1>4 DEF S
    <2> QED
      BY <2>1 DEF EndsAt
  <1> QED
    BY <1>5 DEF ChainIsReadable, Chain, n

(* The first steps of the chain are there, and lead to one after another.  *)
LeadsTo(m) ==
    /\ m \in Nat /\ m < Len(file.sections)
    /\ \A i \in 0 .. m : Positions[i] \in 1 .. Len(file.sections)
    /\ \A i \in 0 .. m - 1 : ~EndsAt(i)
    /\ \A i \in 1 .. m : IsReadableAt(Positions[i])

AreDifferent(m) == \A i, j \in 0 .. m : i # j => Positions[i] # Positions[j]

LEMMA LeadsOn ==
    ASSUME file \in Files, NEW m, LeadsTo(m), AreDifferent(m), ~EndsAt(m),
           \A i \in 0 .. m : Positions[m + 1] # Positions[i], IsReadableAt(Positions[m + 1])
    PROVE  LeadsTo(m + 1) /\ AreDifferent(m + 1)
  <1> DEFINE n == Len(file.sections)
  <1>1. n \in Nat /\ DOMAIN file.sections = 1 .. n
    BY PositionsAre DEF PositionsAreSteps
  <1>2. /\ m \in Nat /\ m < n /\ \A i \in 0 .. m : Positions[i] \in 1 .. n
        /\ \A i \in 0 .. m - 1 : ~EndsAt(i)
        /\ \A i \in 1 .. m : IsReadableAt(Positions[i])
    BY DEF LeadsTo
  <1> HIDE DEF n
  <1>3. Positions[m + 1] \in 1 .. n
    <2>1. SectionAt(Positions[m + 1]).kind # "other"
      BY NotASection
    <2> QED
      BY <1>1, <2>1 DEF SectionAt
  <1>4. \A i \in 0 .. m + 1 : i \in 0 .. m \/ i = m + 1
    BY <1>2
  <1>5. \A i \in 0 .. m + 1 : Positions[i] \in 1 .. n
    BY <1>2, <1>3, <1>4
  <1>6. AreDifferent(m + 1)
    <2> SUFFICES ASSUME NEW i \in 0 .. m + 1, NEW j \in 0 .. m + 1, i # j
                 PROVE  Positions[i] # Positions[j]
      BY DEF AreDifferent
    <2> QED
      BY <1>4 DEF AreDifferent
  <1>7. \A i \in 0 .. m : ~EndsAt(i)
    <2>1. \A i \in 0 .. m : i \in 0 .. m - 1 \/ i = m
      BY <1>2
    <2> QED
      BY <1>2, <2>1
  <1>8. \A i \in 1 .. m + 1 : IsReadableAt(Positions[i])
    <2>1. \A i \in 1 .. m + 1 : i \in 1 .. m \/ i = m + 1
      BY <1>2
    <2> QED
      BY <1>2, <2>1
  <1>9. m + 2 <= n
    <2> DEFINE f == [k \in 1 .. m + 2 |-> Positions[k - 1] - 1]
    <2>1. \A k \in 1 .. m + 2 : k - 1 \in 0 .. m + 1
      BY <1>2
    <2>2. \A k \in 1 .. m + 2 : f[k] \in 0 .. n - 1
      <3> SUFFICES ASSUME NEW k \in 1 .. m + 2 PROVE f[k] \in 0 .. n - 1
        OBVIOUS
      <3>1. Positions[k - 1] \in 1 .. n
        BY <1>5, <2>1
      <3> QED
        BY <1>1, <3>1
    <2>3. \A j, k \in 1 .. m + 2 : j # k => f[j] # f[k]
      <3> SUFFICES ASSUME NEW j \in 1 .. m + 2, NEW k \in 1 .. m + 2, j # k
                   PROVE  f[j] # f[k]
        OBVIOUS
      <3>1. j - 1 \in 0 .. m + 1 /\ k - 1 \in 0 .. m + 1 /\ j - 1 # k - 1
        BY <1>2
      <3>2. Positions[j - 1] # Positions[k - 1]
        BY <1>6, <3>1 DEF AreDifferent
      <3>3. Positions[j - 1] \in 1 .. n /\ Positions[k - 1] \in 1 .. n
        BY <1>5, <3>1
      <3> QED
        BY <1>1, <3>2, <3>3
    <2> HIDE DEF f
    <2>4. m + 2 \in Nat
      BY <1>2
    <2> QED
      BY <1>1, <2>2, <2>3, <2>4, Pigeonhole
  <1>10. m + 1 \in Nat /\ m + 1 < n /\ (m + 1) - 1 = m
    BY <1>1, <1>2, <1>9
  <1>11. \A i \in 0 .. (m + 1) - 1 : ~EndsAt(i)
    BY <1>7, <1>10
  <1> QED
    BY <1>5, <1>6, <1>8, <1>10, <1>11 DEF LeadsTo, n

-----------------------------------------------------------------------------
(***************************************************************************)
(* The chain while it is read.  Each call has the table of its step; what  *)
(* is merged has the newest entries of the steps behind the calls.         *)
(***************************************************************************)
FrameSays(frame, k) ==
    /\ frame.position = Positions[k]
    /\ \A id \in Nat :
          /\ TableEntry(frame.table, id) = EntryAt(Positions[k], id)
          /\ EntryAt(Positions[k], id) # EmptyEntry => id < frame.size

FramesSay == \A k \in 1 .. Len(frames) : FrameSays(frames[k], k)

(* Of the steps from k on to the end e, the newest that lists the object.  *)
IsNewest(id, k, e, entry) ==
    \/ entry = EmptyEntry /\ \A n \in k .. e : EntryAt(Positions[n], id) = EmptyEntry
    \/ \E n \in k .. e : /\ entry = EntryAt(Positions[n], id) /\ entry # EmptyEntry
                         /\ \A j \in k .. n - 1 : EntryAt(Positions[j], id) = EmptyEntry

TableSays(k, e) ==
    \A id \in Nat :
        /\ IsNewest(id, k, e, TableEntry(xrefTable, id))
        /\ TableEntry(xrefTable, id) # EmptyEntry => id < xrefSize

Descends ==
    /\ LeadsTo(Len(frames)) /\ AreDifferent(Len(frames))
    /\ parsedXrefs = {Positions[i] : i \in 0 .. Len(frames)}
    /\ xrefTable = <<>> /\ FramesSay

ComesBack ==
    \E e \in Nat : /\ LeadsTo(e) /\ EndsAt(e) /\ Len(frames) <= e
                   /\ FramesSay /\ TableSays(Len(frames) + 1, e)

HasRead == \E e \in Nat : LeadsTo(e) /\ EndsAt(e) /\ IsReadableAt(Positions[0]) /\ TableSays(0, e)

NewestIsThere ==
    SectionAt(file.startxref).kind # "other" /\ SectionAt(file.startxref).size # NoSize

ChainInv ==
    /\ status = "parsing" => NewestIsThere /\ IF descending THEN Descends ELSE ComesBack
    /\ status = "success" => NewestIsThere /\ HasRead
    /\ status = "failure" => ~ChainIsReadable

LEMMA NewestOver ==
    ASSUME NEW id, NEW k \in Nat, NEW e \in Nat, k <= e, NEW entry, IsNewest(id, k + 1, e, entry)
    PROVE  IsNewest(id, k, e, Over(EntryAt(Positions[k], id), entry))
  <1> DEFINE own == EntryAt(Positions[k], id)
  <1>1. CASE own # EmptyEntry
    <2>1. k \in k .. e /\ \A j \in k .. k - 1 : EntryAt(Positions[j], id) = EmptyEntry
      OBVIOUS
    <2> QED
      BY <1>1, <2>1 DEF IsNewest, Over
  <1>2. CASE own = EmptyEntry
    <2>1. Over(own, entry) = entry
      BY <1>2 DEF Over
    <2>2. CASE entry = EmptyEntry /\ \A n \in k + 1 .. e : EntryAt(Positions[n], id) = EmptyEntry
      <3>1. \A n \in k .. e : n = k \/ n \in k + 1 .. e
        OBVIOUS
      <3>2. \A n \in k .. e : EntryAt(Positions[n], id) = EmptyEntry
        BY <1>2, <2>2, <3>1
      <3> QED
        BY <2>1, <2>2, <3>2 DEF IsNewest
    <2>3. ASSUME NEW n \in k + 1 .. e, entry = EntryAt(Positions[n], id), entry # EmptyEntry,
                 \A j \in k + 1 .. n - 1 : EntryAt(Positions[j], id) = EmptyEntry
          PROVE  IsNewest(id, k, e, Over(own, entry))
      <3>1. n \in k .. e /\ \A j \in k .. n - 1 : j = k \/ j \in k + 1 .. n - 1
        OBVIOUS
      <3>2. \A j \in k .. n - 1 : EntryAt(Positions[j], id) = EmptyEntry
        BY <1>2, <2>3, <3>1
      <3> QED
        BY <2>1, <2>3, <3>1, <3>2 DEF IsNewest
    <2> QED
      BY <2>2, <2>3 DEF IsNewest
  <1> QED
    BY <1>1, <1>2

LEMMA MergedSays ==
    ASSUME NEW table \in Tables, NEW newer \in Tables, NEW id \in Nat, IsEntry(TableEntry(newer, id))
    PROVE  TableEntry(Merged(table, newer), id) = Over(TableEntry(newer, id), TableEntry(table, id))
  <1> DEFINE n == Larger(Len(table), Len(newer))
             merged == Merged(table, newer)
             p == Len(table)
             q == Len(newer)
  <1>1. p \in Nat /\ q \in Nat
    BY DEF Tables
  <1>2. n \in Nat /\ p <= n /\ q <= n /\ n \in {p, q}
    BY <1>1, LargerSmaller
  <1>3. merged = [i \in 1 .. n |-> IF i <= q /\ newer[i].type # "Undefined" THEN newer[i]
                                   ELSE IF i <= p THEN table[i] ELSE EmptyEntry]
    BY DEF Merged
  <1> HIDE DEF n, merged, p, q
  <1>4. Len(merged) = n
    BY <1>2, <1>3
  <1>5. EmptyEntry.type = "Undefined"
    BY DEF EmptyEntry
  <1>6. TableEntry(newer, id) # EmptyEntry => TableEntry(newer, id).type # "Undefined"
    BY DEF IsEntry
  <1>7. CASE id < n
    <2>1. id + 1 \in 1 .. n
      BY <1>2, <1>7
    <2>2. merged[id + 1] = IF id + 1 <= q /\ newer[id + 1].type # "Undefined" THEN newer[id + 1]
                           ELSE IF id + 1 <= p THEN table[id + 1] ELSE EmptyEntry
      BY <1>3, <2>1
    <2>3. TableEntry(merged, id) = merged[id + 1]
      BY <1>4, <1>7 DEF TableEntry
    <2>4. TableEntry(newer, id) = IF id + 1 <= q THEN newer[id + 1] ELSE EmptyEntry
      BY <1>1 DEF TableEntry, q
    <2>5. TableEntry(table, id) = IF id + 1 <= p THEN table[id + 1] ELSE EmptyEntry
      BY <1>1 DEF TableEntry, p
    <2>6. TableEntry(merged, id) = Over(TableEntry(newer, id), TableEntry(table, id))
      BY <1>5, <1>6, <2>2, <2>3, <2>4, <2>5 DEF Over
    <2> QED
      BY <2>6 DEF merged
  <1>8. CASE ~(id < n)
    <2>1. ~(id < p) /\ ~(id < q)
      BY <1>1, <1>2, <1>8
    <2>2. TableEntry(merged, id) = EmptyEntry /\ TableEntry(newer, id) = EmptyEntry
          /\ TableEntry(table, id) = EmptyEntry
      BY <1>4, <1>8, <2>1 DEF TableEntry, p, q
    <2> QED
      BY <2>2 DEF Over, merged
  <1> QED
    BY <1>7, <1>8

LEMMA NothingInTable ==
    ASSUME NEW id \in Nat
    PROVE  TableEntry(<<>>, id) = EmptyEntry
  <1>1. Len(<<>>) = 0
    BY EmptySeq
  <1> QED
    BY <1>1 DEF TableEntry

LEMMA ChainInvStart ==
    ASSUME Parsed, NEW f \in Files, StartPDFParsing(f)
    PROVE  ChainInv'
  <1> DEFINE newest == IF f.startxref \in DOMAIN f.sections
                       THEN f.sections[f.startxref] ELSE [kind |-> "other", size |-> NoSize]
             readable == newest.kind # "other" /\ newest.size # NoSize
  <1>1. /\ file' = f /\ status' = IF readable THEN "parsing" ELSE "failure"
        /\ parsedXrefs' = IF readable THEN {f.startxref} ELSE {}
        /\ descending' = readable /\ xrefTable' = <<>> /\ frames' = <<>>
    BY DEF StartPDFParsing
  <1>2. /\ SectionAt(f.startxref)'.kind = newest.kind
        /\ SectionAt(f.startxref)'.kind # "other" => SectionAt(f.startxref)'.size = newest.size
    BY <1>1 DEF SectionAt
  <1>3. PositionsAreSteps'
    <2>1. (file \in Files => PositionsAreSteps)'
      BY PositionsAre, PTL
    <2> QED
      BY <1>1, <2>1
  <1>4. Positions'[0] = f.startxref /\ Len(f.sections) \in Nat /\ DOMAIN f.sections = 1 .. Len(f.sections)
    BY <1>1, <1>3 DEF PositionsAreSteps
  <1>5. Len(frames') = 0
    BY <1>1, EmptySeq
  <1>6. CASE ~readable
    <2>1. /\ status' = "failure"
          /\ SectionAt(f.startxref)'.kind = "other" \/ SectionAt(f.startxref)'.size = NoSize
      BY <1>1, <1>2, <1>6
    <2>2. (file \in Files
           /\ (SectionAt(file.startxref).kind = "other" \/ SectionAt(file.startxref).size = NoSize)
             => ~ChainIsReadable)'
      BY UnreadableStart, PTL
    <2>3. ~ChainIsReadable'
      BY <1>1, <2>1, <2>2
    <2> QED
      BY <2>1, <2>3 DEF ChainInv
  <1>7. CASE readable
    <2>1. status' = "parsing" /\ descending' /\ parsedXrefs' = {f.startxref}
      BY <1>1, <1>7
    <2>2. f.startxref \in DOMAIN f.sections
      BY <1>7
    <2>3. NewestIsThere'
      BY <1>1, <1>2, <1>7 DEF NewestIsThere
    <2> HIDE DEF readable, newest
    <2>4. Len(f.sections) > 0
      BY <1>4, <2>2
    <2>5. 0 .. 0 = {0} /\ 0 .. 0 - 1 = {} /\ 1 .. 0 = {}
      OBVIOUS
    <2>6. LeadsTo(Len(frames))'
      BY <1>1, <1>4, <1>5, <2>2, <2>4, <2>5 DEF LeadsTo
    <2>7. AreDifferent(Len(frames))'
      BY <1>5, <2>5 DEF AreDifferent
    <2>8. parsedXrefs' = {Positions'[i] : i \in 0 .. Len(frames')}
      BY <1>4, <1>5, <2>1, <2>5
    <2>9. FramesSay'
      BY <1>5, <2>5 DEF FramesSay
    <2>10. Descends'
      BY <1>1, <2>6, <2>7, <2>8, <2>9 DEF Descends
    <2> QED
      BY <2>1, <2>3, <2>10 DEF ChainInv
  <1> QED
    BY <1>6, <1>7

(* The section that Prev is at is the next step.                           *)
LEMMA NextStep ==
    ASSUME Parsed, file \in Files, Descends
    PROVE  LET m == Len(frames)
           IN  /\ m \in Nat /\ m < Len(file.sections)
               /\ CurrentPosition = Positions[m] /\ Prev = Positions[m + 1]
               /\ EndsAt(m) <=> Prev = None
  <1> DEFINE m == Len(frames)
             n == Len(file.sections)
  <1>1. m \in Nat /\ m < n /\ n \in Nat
    BY PositionsAre DEF Descends, LeadsTo, PositionsAreSteps
  <1>2. Positions[0] = file.startxref /\ \A k \in 1 .. n : Positions[k] = SectionAt(Positions[k - 1]).prev
    BY PositionsAre DEF PositionsAreSteps
  <1>3. CurrentPosition = Positions[m]
    <2>1. CASE frames = <<>>
      <3>1. m = 0
        BY <2>1, EmptySeq
      <3> QED
        BY <1>2, <2>1, <3>1 DEF CurrentPosition
    <2>2. CASE frames # <<>>
      <3>1. Last(frames) = frames[m] /\ m \in Nat \ {0}
        BY <2>2, FrontAndLast DEF Parsed
      <3>2. FrameSays(frames[m], m)
        BY <3>1 DEF Descends, FramesSay
      <3> QED
        BY <2>2, <3>1, <3>2 DEF CurrentPosition, FrameSays
    <2> QED
      BY <2>1, <2>2
  <1>4. m + 1 \in 1 .. n /\ (m + 1) - 1 = m
    BY <1>1
  <1>5. Positions[m + 1] = SectionAt(Positions[m]).prev
    BY <1>2, <1>4
  <1>6. Prev = Positions[m + 1]
    BY <1>3, <1>5 DEF Prev
  <1>7. EndsAt(m) <=> Prev = None
    BY <1>3 DEF EndsAt, Prev
  <1> QED
    BY <1>1, <1>3, <1>6, <1>7

LEMMA SameChain ==
    ASSUME file \in Files, UNCHANGED file
    PROVE  /\ \A m : UNCHANGED LeadsTo(m)
           /\ \A m : UNCHANGED AreDifferent(m)
           /\ \A frame, k : UNCHANGED FrameSays(frame, k)
           /\ \A id, k, e, entry : UNCHANGED IsNewest(id, k, e, entry)
           /\ UNCHANGED NewestIsThere
  <1>1. /\ Positions' = Positions
        /\ \A position : SectionAt(position)' = SectionAt(position)
        /\ \A position, id : EntryAt(position, id)' = EntryAt(position, id)
        /\ \A position : IsReadableAt(position)' <=> IsReadableAt(position)
        /\ \A k : EndsAt(k)' <=> EndsAt(k)
    BY SameFile
  <1>2. \A m : LeadsTo(m)' <=> LeadsTo(m)
    BY <1>1 DEF LeadsTo
  <1>3. \A m : AreDifferent(m)' <=> AreDifferent(m)
    BY <1>1 DEF AreDifferent
  <1>4. \A frame, k : FrameSays(frame, k)' <=> FrameSays(frame, k)
    BY <1>1 DEF FrameSays
  <1>5. \A id, k, e, entry : IsNewest(id, k, e, entry)' <=> IsNewest(id, k, e, entry)
    BY <1>1 DEF IsNewest
  <1>6. NewestIsThere' <=> NewestIsThere
    BY <1>1 DEF NewestIsThere
  <1> QED
    BY <1>2, <1>3, <1>4, <1>5, <1>6

LEMMA ChainInvDescend ==
    ASSUME FileIsClear, Parsed, ChainInv, ParsePreviousXrefs
    PROVE  ChainInv'
  <1> DEFINE m == Len(frames)
             section == SectionAt(Prev)
             read == ReadSection(section, <<>>, xrefSize)
             frame == [position |-> Prev, table |-> read.table, size |-> read.size]
  <1>1. /\ status = "parsing" /\ descending /\ Prev # None /\ file \in Files
        /\ NewestIsThere /\ Descends
    BY DEF ParsePreviousXrefs, ChainInv, Parsed
  <1>2. /\ m \in Nat /\ m < Len(file.sections) /\ Prev = Positions[m + 1] /\ ~EndsAt(m)
    BY <1>1, NextStep
  <1>3. LeadsTo(m) /\ AreDifferent(m) /\ parsedXrefs = {Positions[i] : i \in 0 .. m} /\ FramesSay
    BY <1>1 DEF Descends
  <1>4. \A i \in 0 .. m : ~EndsAt(i)
    <2>1. \A i \in 0 .. m : i \in 0 .. m - 1 \/ i = m
      BY <1>2
    <2> QED
      BY <1>2, <1>3, <2>1 DEF LeadsTo
  <1>5. m + 1 \in 0 .. Len(file.sections) /\ (m + 1) - 1 = m
    <2>1. Len(file.sections) \in Nat
      BY <1>1, PositionsAre DEF PositionsAreSteps
    <2> QED
      BY <1>2, <2>1
  <1> HIDE DEF m
  <1>6. ASSUME ~IsReadableAt(Prev)
        PROVE  ~ChainIsReadable
    BY <1>1, <1>2, <1>4, <1>5, <1>6, UnreadableAt
  <1>7. ASSUME Stop, ~ChainIsReadable
        PROVE  ChainInv'
    <2>1. status' = "failure" /\ UNCHANGED file
      BY <1>7 DEF Stop
    <2>2. ~ChainIsReadable'
      BY <1>1, <1>7, <2>1, SameFile
    <2> QED
      BY <2>1, <2>2 DEF ChainInv
  <1>8. CASE ~PrevIsNew
    <2>1. Stop
      BY <1>8 DEF ParsePreviousXrefs
    <2>2. CASE ~(Prev >= 0)
      <3>1. Prev \notin DOMAIN file.sections
        <4>1. DOMAIN file.sections = 1 .. Len(file.sections)
          BY <1>1, PositionsAre DEF PositionsAreSteps
        <4> QED
          BY <2>2, <4>1
      <3>2. SectionAt(Prev).kind = "other"
        BY <3>1 DEF SectionAt
      <3> QED
        BY <1>6, <1>7, <2>1, <3>2, NotASection
    <2>3. CASE Prev \in parsedXrefs
      <3>1. PICK back \in 0 .. m : Positions[m + 1] = Positions[back]
        BY <1>2, <1>3, <2>3
      <3>2. ~ChainIsReadable
        BY <1>1, <1>2, <1>4, <3>1, CircularChain
      <3> QED
        BY <1>7, <2>1, <3>2
    <2> QED
      BY <1>8, <2>2, <2>3 DEF PrevIsNew
  <1>9. CASE PrevIsNew /\ (section.kind = "other" \/ ~read.ok)
    <2>1. Stop
      BY <1>9 DEF ParsePreviousXrefs
    <2>2. ~IsReadableAt(Prev)
      <3>1. CASE section.kind = "other"
        BY <3>1, NotASection
      <3>2. CASE section.kind # "other" /\ ~read.ok
        <4>1. <<>> \in Tables /\ xrefSize \in Nat
          BY EmptySeq, XrefParserAssumption DEF Tables, Parsed
        <4> QED
          BY <1>1, <3>2, <4>1, ReadSectionSays
      <3> QED
        BY <1>9, <3>1, <3>2
    <2> QED
      BY <1>6, <1>7, <2>1, <2>2
  <1>10. CASE PrevIsNew /\ ~(section.kind = "other" \/ ~read.ok)
    <2>1. /\ parsedXrefs' = parsedXrefs \cup {Prev} /\ frames' = Append(frames, frame)
          /\ UNCHANGED <<file, status, xrefTable, xrefSize, descending, parses>>
      BY <1>10 DEF ParsePreviousXrefs
    <2>2. <<>> \in Tables /\ xrefSize \in Nat /\ section \in Section
      BY <1>1, SectionAtTyped, EmptySeq, XrefParserAssumption DEF Tables, Parsed
    <2>3. /\ IsReadableAt(Prev)
          /\ \A id \in Nat :
                /\ TableEntry(read.table, id) = Over(EntryAt(Prev, id), TableEntry(<<>>, id))
                /\ EntryAt(Prev, id) # EmptyEntry => id < read.size
      BY <1>1, <1>10, <2>2, ReadSectionSays
    <2>4. read.table \in Tables /\ read.size \in Nat
      BY <1>1, <2>2, ReadSectionTyped
    <2>5. Prev \in Nat
      <3>1. SectionAt(Prev).kind # "other"
        BY <1>10
      <3>2. DOMAIN file.sections = 1 .. Len(file.sections)
        BY <1>1, PositionsAre DEF PositionsAreSteps
      <3> QED
        BY <3>1, <3>2 DEF SectionAt
    <2>6. \A id \in Nat : TableEntry(read.table, id) = EntryAt(Prev, id)
      BY <2>3, NothingInTable DEF Over
    <2> HIDE DEF read
    <2>7. frame \in Frames
      BY <2>4, <2>5 DEF Frames
    <2>8. FrameSays(frame, m + 1)
      BY <1>2, <2>3, <2>6 DEF FrameSays
    <2> HIDE DEF frame
    <2>9. /\ Len(frames') = m + 1
          /\ \A k \in 1 .. m : frames'[k] = frames[k]
          /\ frames'[m + 1] = frame
      BY <2>1, <2>7, Appended DEF Parsed, m
    <2>10. LeadsTo(m + 1) /\ AreDifferent(m + 1)
      <3>1. \A i \in 0 .. m : Positions[m + 1] # Positions[i]
        BY <1>2, <1>3, <1>10 DEF PrevIsNew
      <3> QED
        BY <1>1, <1>2, <1>3, <2>3, <3>1, LeadsOn
    <2>11. LeadsTo(Len(frames))' /\ AreDifferent(Len(frames))'
      <3>1. PICK l : l = Len(frames')
        OBVIOUS
      <3>2. LeadsTo(l)' /\ AreDifferent(l)'
        BY <1>1, <2>1, <2>9, <2>10, <3>1, SameChain
      <3> QED
        BY <3>1, <3>2 DEF LeadsTo, AreDifferent
    <2>12. parsedXrefs' = {Positions'[i] : i \in 0 .. Len(frames')}
      <3>1. Positions' = Positions
        BY <1>1, <2>1, SameFile
      <3>2. \A i \in 0 .. m + 1 : i \in 0 .. m \/ i = m + 1
        BY <1>2
      <3>3. \A i \in 0 .. m : i \in 0 .. m + 1
        BY <1>2
      <3>4. m + 1 \in 0 .. m + 1
        BY <1>2
      <3>5. parsedXrefs \cup {Positions[m + 1]} = {Positions[i] : i \in 0 .. m + 1}
        BY <1>3, <3>2, <3>3, <3>4
      <3> QED
        BY <1>2, <2>1, <2>9, <3>1, <3>5
    <2>13. FramesSay'
      <3>1. ASSUME NEW k \in 1 .. m + 1
            PROVE  FrameSays(frames'[k], k)
        <4>1. CASE k \in 1 .. m
          BY <1>3, <2>9, <4>1 DEF FramesSay, m
        <4>2. CASE k = m + 1
          BY <2>8, <2>9, <4>2
        <4> QED
          BY <1>2, <4>1, <4>2
      <3>2. ASSUME NEW k \in 1 .. m + 1
            PROVE  FrameSays(frames[k], k)'
        <4>1. PICK x : x = frames'[k]
          OBVIOUS
        <4>2. FrameSays(x, k)'
          BY <1>1, <2>1, <3>1, <4>1, SameChain
        <4> QED
          BY <4>1, <4>2 DEF FrameSays
      <3> QED
        BY <2>9, <3>2 DEF FramesSay
    <2>14. Descends'
      BY <1>1, <2>1, <2>11, <2>12, <2>13 DEF Descends
    <2>15. NewestIsThere'
      BY <1>1, <2>1, SameChain
    <2> QED
      BY <1>1, <2>1, <2>14, <2>15 DEF ChainInv
  <1> QED
    BY <1>8, <1>9, <1>10

LEMMA ChainInvEnd ==
    ASSUME Parsed, ChainInv, EndOfChain
    PROVE  ChainInv'
  <1> DEFINE m == Len(frames)
  <1>1. /\ status = "parsing" /\ descending /\ Prev = None /\ file \in Files
        /\ NewestIsThere /\ Descends /\ descending' = FALSE
        /\ UNCHANGED <<file, status, xrefTable, xrefSize, parsedXrefs, frames, parses>>
    BY DEF EndOfChain, ChainInv, Parsed
  <1>2. m \in Nat /\ EndsAt(m)
    BY <1>1, NextStep
  <1>3. LeadsTo(m) /\ FramesSay /\ xrefTable = <<>>
    BY <1>1 DEF Descends
  <1>4. LeadsTo(m)' /\ EndsAt(m)' /\ NewestIsThere'
    <2>1. PICK l : l = m
      OBVIOUS
    <2>2. LeadsTo(l)' /\ EndsAt(l)' /\ NewestIsThere'
      BY <1>1, <1>2, <1>3, <2>1, SameChain, SameFile
    <2> QED
      BY <1>1, <2>1, <2>2 DEF LeadsTo, EndsAt
  <1>5. FramesSay'
    <2>1. ASSUME NEW k \in 1 .. Len(frames)
          PROVE  FrameSays(frames[k], k)'
      <3>1. PICK x : x = frames[k]
        OBVIOUS
      <3>2. FrameSays(x, k)'
        BY <1>1, <1>3, <3>1, SameChain DEF FramesSay
      <3> QED
        BY <1>1, <3>1, <3>2 DEF FrameSays
    <2> QED
      BY <1>1, <2>1 DEF FramesSay
  <1>6. TableSays(m + 1, m)'
    <2>1. ASSUME NEW id \in Nat
          PROVE  TableEntry(xrefTable', id) = EmptyEntry
      BY <1>1, <1>3, NothingInTable
    <2>2. m + 1 .. m = {}
      BY <1>2
    <2> QED
      BY <1>1, <2>1, <2>2 DEF TableSays, IsNewest
  <1>7. ComesBack'
    <2>1. m \in Nat /\ m <= m /\ Len(frames') = m
      BY <1>1, <1>2
    <2> QED
      BY <1>1, <1>4, <1>5, <1>6, <2>1 DEF ComesBack
  <1> QED
    BY <1>1, <1>4, <1>7 DEF ChainInv

LEMMA ChainInvMerge ==
    ASSUME Parsed, ChainInv, MergeXrefWithMainXref
    PROVE  ChainInv'
  <1> DEFINE m == Len(frames)
             frame == Last(frames)
  <1>1. /\ status = "parsing" /\ ~descending /\ frames # <<>> /\ file \in Files
        /\ NewestIsThere /\ ComesBack
        /\ xrefTable' = Merged(xrefTable, frame.table) /\ xrefSize' = Larger(xrefSize, frame.size)
        /\ frames' = Front(frames) /\ UNCHANGED <<file, status, parsedXrefs, descending, parses>>
    BY DEF MergeXrefWithMainXref, ChainInv, Parsed
  <1>2. PICK e \in Nat : LeadsTo(e) /\ EndsAt(e) /\ m <= e /\ FramesSay /\ TableSays(m + 1, e)
    BY <1>1 DEF ComesBack
  <1>3. /\ m \in Nat \ {0} /\ Len(frames') = m - 1 /\ frame = frames[m] /\ frame \in Frames
        /\ \A k \in 1 .. m - 1 : frames'[k] = frames[k]
    BY <1>1, FrontAndLast DEF Parsed
  <1> HIDE DEF m
  <1>4. FrameSays(frame, m)
    BY <1>2, <1>3 DEF FramesSay, m
  <1> HIDE DEF frame
  <1>5. frame.table \in Tables /\ frame.size \in Nat /\ xrefTable \in Tables /\ xrefSize \in Nat
    BY <1>3 DEF Frames, Parsed
  <1>6. LeadsTo(e)' /\ EndsAt(e)' /\ NewestIsThere'
    BY <1>1, <1>2, SameChain, SameFile
  <1>7. FramesSay'
    <2>1. ASSUME NEW k \in 1 .. m - 1
          PROVE  FrameSays(frames[k], k)'
      <3>1. PICK x : x = frames'[k]
        OBVIOUS
      <3>2. k \in 1 .. m
        BY <1>3
      <3>3. FrameSays(x, k)
        BY <1>2, <1>3, <3>1, <3>2 DEF FramesSay, m
      <3>4. FrameSays(x, k)'
        BY <1>1, <3>3, SameChain
      <3> QED
        BY <3>1, <3>4 DEF FrameSays
    <2> QED
      BY <1>3, <2>1 DEF FramesSay
  <1>8. ASSUME NEW id \in Nat
        PROVE  /\ IsNewest(id, m, e, TableEntry(xrefTable', id))
               /\ TableEntry(xrefTable', id) # EmptyEntry => id < xrefSize'
    <2> DEFINE own == EntryAt(Positions[m], id)
               older == TableEntry(xrefTable, id)
    <2>1. TableEntry(frame.table, id) = own /\ (own # EmptyEntry => id < frame.size)
      BY <1>4 DEF FrameSays
    <2>2. IsEntry(own)
      BY <1>1, EntryAtTyped
    <2>3. IsNewest(id, m + 1, e, older) /\ (older # EmptyEntry => id < xrefSize)
      BY <1>2 DEF TableSays
    <2> HIDE DEF own, older
    <2>4. TableEntry(xrefTable', id) = Over(own, older)
      BY <1>1, <1>5, <2>1, <2>2, MergedSays DEF older
    <2>5. IsNewest(id, m, e, Over(own, older))
      BY <1>2, <1>3, <2>3, NewestOver DEF own
    <2>6. /\ xrefSize' \in Nat /\ xrefSize <= xrefSize' /\ frame.size <= xrefSize'
      BY <1>1, <1>5, LargerSmaller
    <2>7. Over(own, older) # EmptyEntry => id < xrefSize'
      BY <1>5, <2>1, <2>3, <2>6 DEF Over
    <2> QED
      BY <2>4, <2>5, <2>7
  <1>9. PICK l \in Nat : l = m
    BY <1>3
  <1>10. TableSays(l, e)'
    <2>1. ASSUME NEW id \in Nat
          PROVE  /\ IsNewest(id, l, e, TableEntry(xrefTable, id))'
                 /\ TableEntry(xrefTable', id) # EmptyEntry => id < xrefSize'
      <3>1. PICK x : x = TableEntry(xrefTable', id)
        OBVIOUS
      <3>2. IsNewest(id, l, e, x)
        BY <1>8, <1>9, <3>1
      <3>3. IsNewest(id, l, e, x)'
        BY <1>1, <3>2, SameChain
      <3> QED
        BY <1>8, <3>1, <3>3 DEF IsNewest
    <2> QED
      BY <2>1 DEF TableSays
  <1>11. ComesBack'
    <2>1. Len(frames') + 1 = l /\ Len(frames') <= e
      BY <1>2, <1>3, <1>9
    <2>2. TableSays(Len(frames) + 1, e)'
      BY <1>10, <2>1 DEF TableSays, IsNewest
    <2> QED
      BY <1>6, <1>7, <2>1, <2>2 DEF ComesBack
  <1> QED
    BY <1>1, <1>6, <1>11 DEF ChainInv

LEMMA ChainInvNewest ==
    ASSUME FileIsClear, Parsed, ChainInv, ReadNewestSection
    PROVE  ChainInv'
  <1> DEFINE read == ReadSection(SectionAt(file.startxref), xrefTable, xrefSize)
  <1>1. /\ status = "parsing" /\ ~descending /\ frames = <<>> /\ file \in Files
        /\ NewestIsThere /\ ComesBack
        /\ xrefTable' = read.table /\ xrefSize' = (IF read.ok THEN read.size ELSE xrefSize)
        /\ status' = (IF read.ok THEN "success" ELSE "failure")
        /\ UNCHANGED <<file, parsedXrefs, frames, descending, parses>>
    BY DEF ReadNewestSection, ChainInv, Parsed
  <1>2. Len(frames) = 0
    BY <1>1, EmptySeq
  <1>3. PICK e \in Nat : LeadsTo(e) /\ EndsAt(e) /\ TableSays(1, e)
    <2>1. 0 + 1 = 1
      OBVIOUS
    <2> QED
      BY <1>1, <1>2, <2>1 DEF ComesBack
  <1>4. xrefTable \in Tables /\ xrefSize \in Nat
    BY DEF Parsed
  <1>5. Positions[0] = file.startxref
    BY <1>1, PositionsAre DEF PositionsAreSteps
  <1>6. /\ read.ok <=> IsReadableAt(file.startxref)
        /\ read.ok =>
              /\ xrefSize <= read.size
              /\ \A id \in Nat :
                    /\ TableEntry(read.table, id)
                         = Over(EntryAt(file.startxref, id), TableEntry(xrefTable, id))
                    /\ EntryAt(file.startxref, id) # EmptyEntry => id < read.size
    BY <1>1, <1>4, ReadSectionSays DEF NewestIsThere
  <1>7. read.size \in Nat
    BY <1>1, <1>4, SectionAtTyped, ReadSectionTyped
  <1>8. EndsAt(e)' /\ LeadsTo(e)' /\ NewestIsThere' /\ Positions' = Positions
    BY <1>1, <1>3, SameChain, SameFile
  <1> HIDE DEF read
  <1>9. CASE ~read.ok
    <2>1. ~IsReadableAt(Positions[0]) /\ 0 \in 0 .. Len(file.sections)
      BY <1>1, <1>5, <1>6, <1>9, PositionsAre DEF PositionsAreSteps
    <2>2. \A i \in 0 .. 0 - 1 : ~EndsAt(i)
      OBVIOUS
    <2>3. ~ChainIsReadable
      BY <1>1, <2>1, <2>2, UnreadableAt
    <2>4. ~ChainIsReadable'
      BY <1>1, <2>3, SameFile
    <2> QED
      BY <1>1, <1>9, <2>4 DEF ChainInv
  <1>10. CASE read.ok
    <2>1. IsReadableAt(Positions[0]) /\ xrefSize' = read.size /\ status' = "success"
      BY <1>1, <1>5, <1>6, <1>10
    <2>2. ASSUME NEW id \in Nat
          PROVE  /\ IsNewest(id, 0, e, TableEntry(xrefTable', id))
                 /\ TableEntry(xrefTable', id) # EmptyEntry => id < xrefSize'
      <3> DEFINE own == EntryAt(Positions[0], id)
                 older == TableEntry(xrefTable, id)
      <3>1. TableEntry(xrefTable', id) = Over(own, older)
            /\ (own # EmptyEntry => id < read.size) /\ xrefSize <= read.size
        BY <1>1, <1>5, <1>6, <1>10
      <3>2. IsNewest(id, 1, e, older) /\ (older # EmptyEntry => id < xrefSize)
        BY <1>3 DEF TableSays
      <3> HIDE DEF own, older
      <3>3. IsNewest(id, 0, e, Over(own, older))
        <4>1. 0 \in Nat /\ 0 <= e /\ IsNewest(id, 0 + 1, e, older)
          BY <3>2
        <4> QED
          BY <4>1, NewestOver DEF own
      <3>4. Over(own, older) # EmptyEntry => id < xrefSize'
        BY <1>4, <1>7, <2>1, <3>1, <3>2 DEF Over
      <3> QED
        BY <3>1, <3>3, <3>4
    <2>3. TableSays(0, e)'
      <3>1. ASSUME NEW id \in Nat
            PROVE  /\ IsNewest(id, 0, e, TableEntry(xrefTable, id))'
                   /\ TableEntry(xrefTable', id) # EmptyEntry => id < xrefSize'
        <4>1. PICK x : x = TableEntry(xrefTable', id)
          OBVIOUS
        <4>2. IsNewest(id, 0, e, x)'
          BY <1>1, <2>2, <4>1, SameChain
        <4> QED
          BY <2>2, <4>1, <4>2 DEF IsNewest
      <3> QED
        BY <3>1 DEF TableSays
    <2>4. IsReadableAt(Positions[0])'
      <3>1. PICK p : p = Positions[0]
        OBVIOUS
      <3>2. IsReadableAt(p)'
        BY <1>1, <2>1, <3>1, SameFile
      <3> QED
        BY <1>8, <3>1, <3>2 DEF IsReadableAt
    <2>5. HasRead'
      BY <1>8, <2>3, <2>4 DEF HasRead
    <2> QED
      BY <1>8, <2>1, <2>5 DEF ChainInv
  <1> QED
    BY <1>9, <1>10

LEMMA ChainInvSame ==
    ASSUME Parsed, ChainInv, UNCHANGED vars
    PROVE  ChainInv'
  <1>1. UNCHANGED <<file, status, xrefTable, xrefSize, parsedXrefs, frames, descending>>
    BY DEF vars
  <1>2. CASE status = "idle"
    BY <1>1, <1>2 DEF ChainInv
  <1>3. CASE status # "idle"
    <2>1. file \in Files
      BY <1>3 DEF Parsed
    <2>2. /\ Positions' = Positions /\ (ChainIsReadable' <=> ChainIsReadable)
          /\ \A position : IsReadableAt(position)' <=> IsReadableAt(position)
          /\ \A k : EndsAt(k)' <=> EndsAt(k)
      BY <1>1, <2>1, SameFile
    <2>3. /\ \A m : LeadsTo(m)' <=> LeadsTo(m)
          /\ \A m : AreDifferent(m)' <=> AreDifferent(m)
          /\ \A frame, k : FrameSays(frame, k)' <=> FrameSays(frame, k)
          /\ \A id, k, e, entry : IsNewest(id, k, e, entry)' <=> IsNewest(id, k, e, entry)
          /\ NewestIsThere' <=> NewestIsThere
      BY <1>1, <2>1, SameChain
    <2>4. FramesSay' <=> FramesSay
      BY <1>1, <2>3 DEF FramesSay
    <2>5. \A k, e : TableSays(k, e)' <=> TableSays(k, e)
      BY <1>1, <2>3 DEF TableSays
    <2>6. Descends' <=> Descends
      BY <1>1, <2>2, <2>3, <2>4 DEF Descends
    <2>7. ComesBack' <=> ComesBack
      BY <1>1, <2>2, <2>3, <2>4, <2>5 DEF ComesBack
    <2>8. HasRead' <=> HasRead
      BY <2>2, <2>3, <2>5 DEF HasRead
    <2> QED
      BY <1>1, <2>2, <2>3, <2>6, <2>7, <2>8 DEF ChainInv
  <1> QED
    BY <1>2, <1>3

LEMMA ChainInvInit ==
    ObjectsInit => ChainInv
  BY DEF ObjectsInit, Init, ChainInv

LEMMA ChainInvNext ==
    ASSUME CallInv, FileIsClear => ChainInv, [ObjectsNext]_allVars
    PROVE  (FileIsClear => ChainInv)'
  <1>1. Parsed
    BY DEF CallInv
  <1>2. CASE \E f \in Files : Start(f)
    BY <1>1, <1>2, ChainInvStart DEF Start
  <1>3. CASE ParseStep
    <2>1. UNCHANGED file
      BY <1>3 DEF ParseStep, Step, ParsePreviousXrefs, Stop, EndOfChain, MergeXrefWithMainXref,
                  ReadNewestSection
    <2>2. FileIsClear' <=> FileIsClear
      BY <2>1 DEF FileIsClear
    <2>3. FileIsClear => ChainInv'
      BY <1>1, <1>3, ChainInvDescend, ChainInvEnd, ChainInvMerge, ChainInvNewest DEF ParseStep, Step
    <2> QED
      BY <2>2, <2>3
  <1>4. CASE UNCHANGED vars
    <2>1. FileIsClear' <=> FileIsClear
      BY <1>4 DEF FileIsClear, vars
    <2> QED
      BY <1>1, <1>4, <2>1, ChainInvSame
  <1>5. ASSUME NEW id, Ask(id)
        PROVE  UNCHANGED vars
    BY <1>5 DEF Ask, vars
  <1>6. CallStep => UNCHANGED vars
    BY EffectOfStep
  <1>7. UNCHANGED allVars => UNCHANGED vars
    BY DEF allVars
  <1> QED
    BY <1>2, <1>3, <1>4, <1>5, <1>6, <1>7 DEF ObjectsNext

(* The chain that has been read is all of it.                              *)
LEMMA ChainIsRead ==
    ASSUME Parsed, ChainInv, status = "success"
    PROVE  XrefIsRight
  <1>1. file \in Files /\ NewestIsThere /\ HasRead /\ xrefTable \in Tables /\ xrefSize \in Nat
    BY DEF Parsed, ChainInv
  <1>2. PICK e \in Nat : LeadsTo(e) /\ EndsAt(e) /\ IsReadableAt(Positions[0]) /\ TableSays(0, e)
    BY <1>1 DEF HasRead
  <1>3. Len(file.sections) \in Nat
    BY <1>1, PositionsAre DEF PositionsAreSteps
  <1>4. /\ e < Len(file.sections) /\ \A i \in 0 .. e - 1 : ~EndsAt(i)
        /\ \A i \in 1 .. e : IsReadableAt(Positions[i])
    BY <1>2 DEF LeadsTo
  <1>5. Chain = 0 .. e
    <2>1. ASSUME NEW k \in 0 .. e
          PROVE  k \in Chain
      <3>1. k \in 0 .. Len(file.sections) /\ \A j \in 0 .. k - 1 : j \in 0 .. e - 1
        BY <1>3, <1>4
      <3> QED
        BY <1>4, <3>1 DEF Chain
    <2>2. ASSUME NEW k \in Chain
          PROVE  k \in 0 .. e
      <3>1. k \in 0 .. Len(file.sections) /\ \A j \in 0 .. k - 1 : ~EndsAt(j)
        BY DEF Chain
      <3>2. ~(k > e)
        BY <1>2, <1>3, <3>1
      <3> QED
        BY <1>3, <3>1, <3>2
    <2> QED
      BY <2>1, <2>2
  <1>6. ChainIsReadable
    <2>1. e \in Chain
      BY <1>5
    <2>2. \A k \in 0 .. e : k = 0 \/ k \in 1 .. e
      OBVIOUS
    <2>3. \A k \in Chain : IsReadableAt(Positions[k])
      BY <1>2, <1>4, <1>5, <2>2
    <2> QED
      BY <1>1, <1>2, <2>1, <2>3 DEF ChainIsReadable, NewestIsThere
  <1>7. \A id \in Nat : GetXrefEntry(id) = TableEntry(xrefTable, id)
    <2> SUFFICES ASSUME NEW id \in Nat PROVE GetXrefEntry(id) = TableEntry(xrefTable, id)
      OBVIOUS
    <2>1. Len(xrefTable) \in Nat
      BY <1>1 DEF Tables
    <2>2. TableEntry(xrefTable, id) # EmptyEntry => id < xrefSize
      BY <1>2 DEF TableSays
    <2>3. GetXrefSize = IF xrefSize <= Len(xrefTable) THEN xrefSize ELSE Len(xrefTable)
      BY DEF GetXrefSize, Smaller
    <2>4. CASE id < Len(xrefTable) /\ id < xrefSize
      BY <1>1, <2>1, <2>3, <2>4 DEF GetXrefEntry, TableEntry
    <2>5. CASE ~(id < Len(xrefTable) /\ id < xrefSize)
      <3>1. GetXrefEntry(id) = EmptyEntry
        BY <1>1, <2>1, <2>3, <2>5 DEF GetXrefEntry
      <3>2. TableEntry(xrefTable, id) = EmptyEntry
        BY <2>2, <2>5 DEF TableEntry
      <3> QED
        BY <3>1, <3>2
    <2> QED
      BY <2>4, <2>5
  <1>8. NewestSectionWins
    <2> SUFFICES ASSUME NEW id \in 0 .. MaxXrefSize
                 PROVE  LET listing == {k \in Chain : EntryAt(Positions[k], id) # EmptyEntry}
                            newest == CHOOSE k \in listing : \A other \in listing : k <= other
                        IN GetXrefEntry(id) =
                               IF listing = {} THEN EmptyEntry ELSE EntryAt(Positions[newest], id)
      BY DEF NewestSectionWins
    <2> DEFINE listing == {k \in Chain : EntryAt(Positions[k], id) # EmptyEntry}
               newest == CHOOSE k \in listing : \A other \in listing : k <= other
               entry == TableEntry(xrefTable, id)
    <2>1. id \in Nat /\ GetXrefEntry(id) = entry
      BY <1>7, XrefParserAssumption
    <2>2. IsNewest(id, 0, e, entry)
      BY <1>2, <2>1 DEF TableSays
    <2>3. \A k : k \in listing <=> k \in 0 .. e /\ EntryAt(Positions[k], id) # EmptyEntry
      BY <1>5
    <2> HIDE DEF listing, entry
    <2>4. ASSUME entry = EmptyEntry, \A n \in 0 .. e : EntryAt(Positions[n], id) = EmptyEntry
          PROVE  GetXrefEntry(id) = IF listing = {} THEN EmptyEntry ELSE EntryAt(Positions[newest], id)
      <3>1. listing = {}
        BY <2>3, <2>4
      <3> HIDE DEF newest
      <3> QED
        BY <2>1, <2>4, <3>1
    <2>5. ASSUME NEW n \in 0 .. e, entry = EntryAt(Positions[n], id), entry # EmptyEntry,
                 \A j \in 0 .. n - 1 : EntryAt(Positions[j], id) = EmptyEntry
          PROVE  GetXrefEntry(id) = IF listing = {} THEN EmptyEntry ELSE EntryAt(Positions[newest], id)
      <3>1. n \in listing
        BY <2>3, <2>5
      <3>2. \A other \in listing : n <= other
        <4> SUFFICES ASSUME NEW other \in listing PROVE n <= other
          OBVIOUS
        <4>1. other \in 0 .. e /\ EntryAt(Positions[other], id) # EmptyEntry
          BY <2>3
        <4>2. other \notin 0 .. n - 1
          BY <2>5, <4>1
        <4> QED
          BY <4>1, <4>2
      <3>3. \A k \in listing : (\A other \in listing : k <= other) => k = n
        <4> SUFFICES ASSUME NEW k \in listing, \A other \in listing : k <= other PROVE k = n
          OBVIOUS
        <4>1. k <= n /\ n <= k /\ k \in 0 .. e
          BY <2>3, <3>1, <3>2
        <4> QED
          BY <4>1
      <3>4. newest = n
        BY <3>1, <3>2, <3>3
      <3> HIDE DEF newest
      <3> QED
        BY <2>1, <2>5, <3>1, <3>4
    <2> HIDE DEF newest
    <2>6. GetXrefEntry(id) = IF listing = {} THEN EmptyEntry ELSE EntryAt(Positions[newest], id)
      BY <2>1, <2>2, <2>4, <2>5 DEF IsNewest
    <2> QED
      BY <2>6 DEF newest, listing
  <1>9. RefusedWhenUnreadable
    BY <1>6 DEF RefusedWhenUnreadable
  <1> QED
    BY <1>8, <1>9 DEF XrefIsRight

(* Of a file in which no first table has an empty subsection at 0 behind   *)
(* its first lines, the chain of sections is taken exactly when all of it  *)
(* can be read, however it winds and whatever Prev points to; each object  *)
(* then has the entry of the newest section that lists it.                 *)
THEOREM XrefIsAlwaysRight ==
    ObjectsSpec => [](FileIsClear => XrefIsRight)
  <1>1. CallInv => Parsed
    BY DEF CallInv
  <1>2. ObjectsInit => (FileIsClear => ChainInv)
    BY ChainInvInit
  <1>3. CallInv /\ (FileIsClear => ChainInv) /\ [ObjectsNext]_allVars => (FileIsClear => ChainInv)'
    BY ChainInvNext
  <1>4. Parsed /\ (FileIsClear => ChainInv) => (FileIsClear => XrefIsRight)
    <2> SUFFICES ASSUME Parsed, ChainInv PROVE XrefIsRight
      OBVIOUS
    <2>1. CASE status = "success"
      BY <2>1, ChainIsRead
    <2>2. CASE status # "success"
      BY <2>2 DEF XrefIsRight, NewestSectionWins, RefusedWhenUnreadable, ChainInv
    <2> QED
      BY <2>1, <2>2
  <1> QED
    BY <1>1, <1>2, <1>3, <1>4, CallsRight, PTL DEF ObjectsSpec
=============================================================================
