------------------------- MODULE ObjectParserProofs -------------------------
(***************************************************************************)
(* Proofs about BufferedInput and ObjectParser, whatever the sizes of      *)
(* files, reads and buffer, and whatever the text.                         *)
(*                                                                         *)
(* The stream implements the byte source of ByteReader.  The invariant     *)
(* says that the buffer holds the run of bytes that ends where the FILE    *)
(* stands; then every read, in its three cases, is a run from the stream's *)
(* position, because runs that follow each other join to a run.            *)
(*                                                                         *)
(* The parser returns the objects of its text.  Of what it has read, each  *)
(* running call has what the grammar has between the call's place and the  *)
(* place where it waits or reads.                                          *)
(***************************************************************************)
EXTENDS ObjectParser, SequenceTheorems, WellFoundedInduction, TLAPS

-----------------------------------------------------------------------------
(***************************************************************************)
(* The stream.                                                             *)
(***************************************************************************)

(* A run of n bytes is a sequence of n naturals. *)
LEMMA RunIsSeq ==
    ASSUME NEW p \in Nat, NEW n \in Nat
    PROVE  /\ Run(p, n) \in Seq(Nat)
           /\ Len(Run(p, n)) = n
           /\ \A i \in 1 .. n : Run(p, n)[i] = p + i - 1
  <1>1. \A i \in 1 .. n : p + i - 1 \in Nat
    OBVIOUS
  <1>2. Run(p, n) \in [1 .. n -> Nat]
    BY <1>1 DEF Run
  <1> QED
    BY <1>2 DEF Run

(* Runs that follow each other join. *)
LEMMA RunsJoin ==
    ASSUME NEW p \in Nat, NEW a \in Nat, NEW b \in Nat
    PROVE  Run(p, a) \o Run(p + a, b) = Run(p, a + b)
  <1> DEFINE s == Run(p, a)  t == Run(p + a, b)  u == Run(p, a + b)
  <1>1. s \in Seq(Nat) /\ Len(s) = a /\ \A i \in 1 .. a : s[i] = p + i - 1
    BY RunIsSeq
  <1>2. t \in Seq(Nat) /\ Len(t) = b /\ \A i \in 1 .. b : t[i] = p + a + i - 1
    <2>1. p + a \in Nat
      OBVIOUS
    <2>2. t \in Seq(Nat) /\ Len(t) = b /\ \A i \in 1 .. b : t[i] = (p + a) + i - 1
      BY <2>1, RunIsSeq, Zenon
    <2> QED
      BY <2>2
  <1>3. u \in Seq(Nat) /\ Len(u) = a + b /\ \A i \in 1 .. a + b : u[i] = p + i - 1
    BY RunIsSeq
  <1> HIDE DEF s, t, u
  <1>4. s \o t \in Seq(Nat) /\ Len(s \o t) = a + b
    <2>1. s \o t \in Seq(Nat) /\ Len(s \o t) = Len(s) + Len(t)
      BY <1>1, <1>2, ConcatProperties, Zenon
    <2> QED
      BY <1>1, <1>2, <2>1, Zenon
  <1>5. ASSUME NEW i \in 1 .. a + b
        PROVE  (s \o t)[i] = u[i]
    <2>1. \A j \in 1 .. Len(s) + Len(t) :
             (s \o t)[j] = IF j <= Len(s) THEN s[j] ELSE t[j - Len(s)]
      BY <1>1, <1>2, ConcatProperties, Zenon
    <2>2. CASE i <= a
      BY <1>1, <1>2, <1>3, <2>1, <2>2
    <2>3. CASE i > a
      <3>1. i - a \in 1 .. b /\ p + a + (i - a) - 1 = p + i - 1
        BY <2>3
      <3>2. (s \o t)[i] = t[i - a]
        BY <1>1, <1>2, <2>1, <2>3
      <3> QED
        BY <1>2, <1>3, <3>1, <3>2
    <2>4. i <= a \/ i > a
      OBVIOUS
    <2> QED
      BY <2>2, <2>3, <2>4
  <1>6. s \o t = u
    BY <1>3, <1>4, <1>5, SeqEqual
  <1> QED
    BY <1>6 DEF s, t, u

(* The head and the rest of a run are runs. *)
LEMMA RunSplits ==
    ASSUME NEW p \in Nat, NEW n \in Nat, NEW k \in 0 .. n
    PROVE  /\ SubSeq(Run(p, n), 1, k) = Run(p, k)
           /\ SubSeq(Run(p, n), k + 1, n) = Run(p + k, n - k)
  <1> DEFINE u == Run(p, n)  s == Run(p, k)  t == Run(p + k, n - k)
  <1>1. u \in Seq(Nat) /\ Len(u) = n /\ \A i \in 1 .. n : u[i] = p + i - 1
    BY RunIsSeq
  <1>2. s \in Seq(Nat) /\ Len(s) = k /\ \A i \in 1 .. k : s[i] = p + i - 1
    BY RunIsSeq
  <1>3. t \in Seq(Nat) /\ Len(t) = n - k /\ \A i \in 1 .. n - k : t[i] = p + k + i - 1
    <2>1. p + k \in Nat /\ n - k \in Nat
      OBVIOUS
    <2>2. t \in Seq(Nat) /\ Len(t) = n - k
          /\ \A i \in 1 .. n - k : t[i] = (p + k) + i - 1
      BY <2>1, RunIsSeq, Zenon
    <2> QED
      BY <2>2
  <1> HIDE DEF u, s, t
  <1>4. SubSeq(u, 1, k) \in Seq(Nat) /\ Len(SubSeq(u, 1, k)) = k
        /\ \A i \in 1 .. k : SubSeq(u, 1, k)[i] = u[i]
    BY <1>1
  <1>5. SubSeq(u, k + 1, n) \in Seq(Nat) /\ Len(SubSeq(u, k + 1, n)) = n - k
        /\ \A i \in 1 .. n - k : SubSeq(u, k + 1, n)[i] = u[k + i]
    BY <1>1
  <1>6. SubSeq(u, 1, k) = s
    BY <1>1, <1>2, <1>4, SeqEqual
  <1>7. SubSeq(u, k + 1, n) = t
    BY <1>1, <1>3, <1>5, SeqEqual
  <1> QED
    BY <1>6, <1>7 DEF u, s, t

(* What a file has from an offset on: at most what is asked, less only at  *)
(* its end, and the same in one piece as in two.                           *)
LEMMA AvailableFacts ==
    ASSUME size \in Nat, NEW p \in Nat, NEW n \in Nat
    PROVE  /\ Available(p, n) \in 0 .. n
           /\ Available(p, n) < n => p + Available(p, n) >= size
           /\ Available(p, n) > 0 => p + Available(p, n) <= size
           /\ p >= size => Available(p, n) = 0
  BY DEF Available

LEMMA AvailableSplits ==
    ASSUME size \in Nat, NEW p \in Nat, NEW a \in Nat, NEW b \in Nat
    PROVE  /\ Available(p, a) < a => Available(p, a + b) = Available(p, a)
           /\ Available(p, a) = a => Available(p, a + b) = a + Available(p + a, b)
  BY DEF Available

(* The remainder of a division is below the divisor and the dividend. *)
LEMMA Remainder ==
    ASSUME NEW n \in Nat, NEW d \in Nat \ {0}
    PROVE  n % d \in 0 .. n /\ n % d < d
  OBVIOUS
-----------------------------------------------------------------------------
(* The invariant: types, the buffer, and the end-of-file indicator. *)
IInv == TypeOK /\ BufferEndsAtFile /\ EndIsAtEnd

LEMMA Typing ==
    ASSUME TypeOK
    PROVE  /\ size \in Nat /\ at \in Nat /\ ended \in BOOLEAN
           /\ unread \in Seq(Nat) /\ Len(unread) \in Nat
           /\ ReadSizes \subseteq Nat /\ BufferSize \in Nat \ {0}
  BY SizesAssumption, BufferSizeAssumption DEF TypeOK

(* The buffer as a run, with a name for its length. *)
LEMMA Buffered ==
    ASSUME IInv
    PROVE  /\ GetCurrentPosition \in Nat
           /\ at = GetCurrentPosition + Len(unread)
           /\ unread = Run(GetCurrentPosition, Len(unread))
  BY Typing DEF IInv, BufferEndsAtFile, GetCurrentPosition

LEMMA InitInv == Init => IInv
  <1> SUFFICES ASSUME Init PROVE IInv
    OBVIOUS
  <1>1. << >> \in Seq(Nat) /\ Len(<< >>) = 0
    OBVIOUS
  <1>2. TypeOK
    <2>1. last \in [call : Calls, arg : Nat, data : Seq(Nat)]
      BY <1>1 DEF Init, Calls
    <2> QED
      BY <1>1, <2>1 DEF Init, TypeOK
  <1>3. Run(0, 0) = << >>
    <2>1. Run(0, 0) \in Seq(Nat) /\ Len(Run(0, 0)) = 0
      BY RunIsSeq
    <2> QED
      BY <2>1, EmptySeq
  <1>4. BufferEndsAtFile
    BY <1>1, <1>3 DEF Init, BufferEndsAtFile
  <1> QED
    BY <1>2, <1>4 DEF Init, IInv, EndIsAtEnd

(* What a Read returns is a run from the stream's position, as long as it  *)
(* may be, and what it leaves in the buffer is the run that follows.       *)
IsRun(n, pos, count) ==
    /\ last' = [call |-> "Read", arg |-> n, data |-> Run(pos, count)]
    /\ at' \in Nat /\ ended' \in BOOLEAN /\ size' = size
    /\ pos + count <= at'
    /\ unread' = Run(pos + count, at' - (pos + count))
    /\ pos + count < at' => at' <= size
    /\ ended' => at' >= size
    /\ count < n => ended' /\ at' = pos + count

ReadIsRun(n) == IsRun(n, GetCurrentPosition, Available(GetCurrentPosition, n))

(* A buffer that is not empty ends in the file. *)
LEMMA BufferInFile ==
    ASSUME IInv, Len(unread) > 0
    PROVE  at <= size
  <1>1. Len(<< >>) = 0
    OBVIOUS
  <1> QED
    BY <1>1 DEF IInv, BufferEndsAtFile

LEMMA ReadFromBufferIsRun ==
    ASSUME IInv, NEW n \in ReadSizes, ReadFromBuffer(n)
    PROVE  ReadIsRun(n)
  <1> DEFINE pos == GetCurrentPosition  len == Len(unread)
  <1>1. pos \in Nat /\ at = pos + len /\ unread = Run(pos, len)
    BY Buffered
  <1>2. n \in Nat /\ len \in Nat /\ n <= len /\ size \in Nat /\ at \in Nat /\ ended \in BOOLEAN
    BY Typing DEF IInv, ReadFromBuffer
  <1>3. len > 0 => at <= size
    BY BufferInFile
  <1>4. ended => at >= size
    BY DEF IInv, EndIsAtEnd
  <1>5. /\ last' = [call |-> "Read", arg |-> n, data |-> SubSeq(unread, 1, n)]
        /\ unread' = SubSeq(unread, n + 1, len)
        /\ size' = size /\ at' = at /\ ended' = ended
    BY DEF ReadFromBuffer, Done
  <1> HIDE DEF pos, len
  <1>6. Available(pos, n) = n
    BY <1>1, <1>2, <1>3 DEF Available
  <1>7. n \in 0 .. len /\ len - n = at - (pos + n)
    BY <1>1, <1>2
  <1>8. SubSeq(unread, 1, n) = Run(pos, n) /\ SubSeq(unread, n + 1, len) = Run(pos + n, len - n)
    BY <1>1, <1>2, <1>7, RunSplits, Zenon
  <1>9. unread' = Run(pos + n, at' - (pos + n))
    BY <1>5, <1>7, <1>8, Zenon
  <1>10. IsRun(n, pos, n)
    BY <1>1, <1>2, <1>3, <1>4, <1>5, <1>8, <1>9 DEF IsRun
  <1> QED
    BY <1>6, <1>10 DEF ReadIsRun, pos

LEMMA ReadAtEndIsRun ==
    ASSUME IInv, NEW n \in ReadSizes, ReadAtEnd(n)
    PROVE  ReadIsRun(n)
  <1> DEFINE pos == GetCurrentPosition  len == Len(unread)
  <1>1. pos \in Nat /\ at = pos + len /\ unread = Run(pos, len)
    BY Buffered
  <1>2. n \in Nat /\ len \in Nat /\ n > len /\ size \in Nat /\ at \in Nat /\ ended = TRUE
    BY Typing DEF IInv, ReadAtEnd
  <1>3. at >= size /\ (len > 0 => at <= size)
    BY <1>2, BufferInFile DEF IInv, EndIsAtEnd
  <1>4. /\ last' = [call |-> "Read", arg |-> n, data |-> unread]
        /\ unread' = << >>
        /\ size' = size /\ at' = at /\ ended' = ended
    BY DEF ReadAtEnd, Done
  <1> HIDE DEF pos, len
  <1>5. Available(pos, n) = len
    BY <1>1, <1>2, <1>3 DEF Available
  <1>6. Run(pos + len, at - (pos + len)) = << >>
    <2>1. at - (pos + len) = 0 /\ pos + len \in Nat
      BY <1>1, <1>2
    <2>2. Run(pos + len, 0) \in Seq(Nat) /\ Len(Run(pos + len, 0)) = 0
      BY <2>1, RunIsSeq
    <2> QED
      BY <2>1, <2>2, EmptySeq
  <1>7. IsRun(n, pos, len)
    BY <1>1, <1>2, <1>3, <1>4, <1>6 DEF IsRun
  <1> QED
    BY <1>5, <1>7 DEF ReadIsRun, pos

(* A read past the buffer, with names for what Read computes: d bytes go   *)
(* past the buffer, f bytes are buffered, and t of those are delivered.    *)
LEMMA ReadFromFileIsRun ==
    ASSUME IInv, NEW n \in ReadSizes, ReadFromFile(n)
    PROVE  ReadIsRun(n)
  <1> DEFINE pos == GetCurrentPosition  len == Len(unread)
             r == InBuffer(n)  d == n - len - r
             got == Available(at, d)  f == Available(at + d, BufferSize)
             t == IF r <= f THEN r ELSE f
  <1>1. pos \in Nat /\ at = pos + len /\ unread = Run(pos, len)
    BY Buffered
  <1>2. /\ n \in Nat /\ len \in Nat /\ n > len /\ size \in Nat /\ at \in Nat
        /\ BufferSize \in Nat \ {0} /\ n - len \in Nat
    BY Typing DEF IInv, ReadFromFile
  <1>3. len > 0 => at <= size
    BY BufferInFile
  <1>4. r \in 0 .. n - len /\ r < BufferSize
    BY <1>2, Remainder DEF InBuffer
  <1>5. /\ Direct(n) = [data |-> Run(at, got), at |-> at + got, ended |-> got < d]
        /\ got = d => Fill(n) = [data |-> Run(at + d, f), at |-> at + d + f, ended |-> f < BufferSize]
    BY DEF Direct, Fill, FileRead
  <1>6. \/ /\ Direct(n).ended
           /\ last' = [call |-> "Read", arg |-> n, data |-> unread \o Direct(n).data]
           /\ unread' = << >> /\ at' = Direct(n).at /\ ended' = TRUE
        \/ /\ ~Direct(n).ended
           /\ last' = [call |-> "Read", arg |-> n,
                       data |-> unread \o Direct(n).data \o SubSeq(Fill(n).data, 1, Taken(n))]
           /\ unread' = SubSeq(Fill(n).data, Taken(n) + 1, Len(Fill(n).data))
           /\ at' = Fill(n).at /\ ended' = Fill(n).ended
    BY DEF ReadFromFile, Done
  <1>7. size' = size
    BY DEF ReadFromFile
  <1>8. Taken(n) = IF r <= Len(Fill(n).data) THEN r ELSE Len(Fill(n).data)
    BY DEF Taken
  <1> HIDE DEF pos, len, r
  <1>9. d \in Nat /\ r \in Nat /\ n = len + (d + r)
    BY <1>2, <1>4
  <1> HIDE DEF d, got, f, t
  <1>10. got \in 0 .. d /\ (got < d => at + got >= size) /\ (got > 0 => at + got <= size)
    BY <1>2, <1>9, AvailableFacts DEF got
  <1>11. Available(pos, n) = len + Available(at, d + r)
    <2>1. Available(pos, len) = len
      BY <1>1, <1>2, <1>3 DEF Available
    <2>2. d + r \in Nat
      BY <1>9
    <2> QED
      BY <1>1, <1>2, <1>9, <2>1, <2>2, AvailableSplits
  <1>12. /\ got < d => Available(at, d + r) = got
         /\ got = d => Available(at, d + r) = d + Available(at + d, r)
    <2>1. /\ Available(at, d) < d => Available(at, d + r) = Available(at, d)
          /\ Available(at, d) = d => Available(at, d + r) = d + Available(at + d, r)
      <3>1. at \in Nat /\ d \in Nat /\ r \in Nat /\ size \in Nat
        BY <1>2, <1>9
      <3> QED
        BY <3>1, AvailableSplits, Zenon
    <2> QED
      BY <2>1 DEF got
  <1>13. CASE got < d
    <2>0. Direct(n).ended /\ Direct(n).at = at + got /\ Direct(n).data = Run(at, got)
      <3>1. Direct(n).ended = (got < d) /\ Direct(n).at = at + got /\ Direct(n).data = Run(at, got)
        BY <1>5
      <3> QED
        BY <1>13, <3>1, ZenonT(30)
    <2>1. unread \o Run(at, got) = Run(pos, len + got)
      <3>1. got \in Nat
        BY <1>9, <1>10
      <3> QED
        BY <1>1, <1>2, <3>1, RunsJoin, ZenonT(30)
    <2>2. at' = pos + (len + got) /\ ended' = TRUE /\ unread' = << >>
      <3>1. at' = at + got /\ ended' = TRUE /\ unread' = << >>
        BY <1>6, <2>0, Zenon
      <3> QED
        BY <1>1, <1>2, <1>9, <1>10, <3>1
    <2>3. last' = [call |-> "Read", arg |-> n, data |-> Run(pos, len + got)]
      BY <1>6, <2>0, <2>1, Zenon
    <2>4. Run(pos + (len + got), at' - (pos + (len + got))) = << >>
      <3>1. at' - (pos + (len + got)) = 0 /\ pos + (len + got) \in Nat
        BY <1>1, <1>2, <1>10, <2>2
      <3>2. /\ Run(pos + (len + got), 0) \in Seq(Nat)
            /\ Len(Run(pos + (len + got), 0)) = 0
        BY <3>1, RunIsSeq
      <3> QED
        BY <3>1, <3>2, EmptySeq
    <2>5. at' \in Nat /\ at' >= size /\ ~(pos + (len + got) < at')
      BY <1>1, <1>2, <1>10, <1>13, <2>2
    <2>6. IsRun(n, pos, len + got)
      BY <1>1, <1>7, <2>2, <2>3, <2>4, <2>5 DEF IsRun
    <2> QED
      BY <1>11, <1>12, <1>13, <2>6 DEF ReadIsRun, pos
  <1>14. CASE got = d
    <2>1. f \in 0 .. BufferSize /\ (f < BufferSize => at + d + f >= size)
          /\ (f > 0 => at + d + f <= size)
      <3>1. at + d \in Nat /\ BufferSize \in Nat
        BY <1>2, <1>9
      <3> QED
        BY <1>2, <3>1, AvailableFacts DEF f
    <2>2. t \in 0 .. f /\ (t = r \/ (t = f /\ f < r)) /\ Available(at + d, r) = t
      BY <1>2, <1>4, <1>9, <2>1 DEF Available, f, t
    <2>3. /\ Run(at + d, f) \in Seq(Nat) /\ Len(Run(at + d, f)) = f
          /\ SubSeq(Run(at + d, f), 1, t) = Run(at + d, t)
          /\ SubSeq(Run(at + d, f), t + 1, f) = Run(at + d + t, f - t)
      <3>1. at + d \in Nat /\ f \in Nat
        BY <1>2, <1>9, <2>1
      <3> QED
        BY <2>2, <3>1, RunIsSeq, RunSplits, Zenon
    <2>4. ~Direct(n).ended /\ Direct(n).data = Run(at, d)
      <3>1. ~(got < d)
        BY <1>9, <1>14
      <3>2. Direct(n).ended = (got < d) /\ Direct(n).data = Run(at, got)
        BY <1>5
      <3> QED
        BY <1>14, <3>1, <3>2, Zenon
    <2>5. Fill(n) = [data |-> Run(at + d, f), at |-> at + d + f, ended |-> f < BufferSize]
      BY <1>5, <1>14
    <2>6. Taken(n) = t
      BY <1>8, <2>3, <2>5 DEF t
    <2>7. unread \o Run(at, d) \o Run(at + d, t) = Run(pos, len + (d + t))
      <3>1. unread \o Run(at, d) = Run(pos, len + d)
        <4>1. d \in Nat
          BY <1>9
        <4> QED
          BY <1>1, <1>2, <4>1, RunsJoin, ZenonT(30)
      <3>2. len + d \in Nat /\ t \in Nat /\ pos + (len + d) = at + d
            /\ (len + d) + t = len + (d + t)
        BY <1>1, <1>2, <1>9, <2>1, <2>2
      <3>3. Run(pos, len + d) \o Run(pos + (len + d), t) = Run(pos, (len + d) + t)
        BY <1>1, <3>2, RunsJoin, Zenon
      <3> QED
        BY <3>1, <3>2, <3>3, Zenon
    <2>8. last' = [call |-> "Read", arg |-> n, data |-> Run(pos, len + (d + t))]
      <3>1. last' = [call |-> "Read", arg |-> n,
                     data |-> unread \o Direct(n).data \o SubSeq(Fill(n).data, 1, Taken(n))]
        BY <1>6, <2>4, Zenon
      <3>2. Fill(n).data = Run(at + d, f)
        BY <2>5
      <3> QED
        BY <2>3, <2>4, <2>6, <2>7, <3>1, <3>2, Zenon
    <2>9. at' = at + d + f /\ ended' \in BOOLEAN /\ (ended' <=> f < BufferSize)
      <3>1. at' = Fill(n).at /\ ended' = Fill(n).ended
        BY <1>6, <2>4, Zenon
      <3>2. Fill(n).at = at + d + f /\ Fill(n).ended = (f < BufferSize)
        BY <2>5
      <3>3. ended' = (f < BufferSize)
        BY <3>1, <3>2, Zenon
      <3>4. (f < BufferSize) \in BOOLEAN
        BY <1>2, <2>1
      <3> QED
        BY <3>1, <3>2, <3>3, <3>4, Zenon
    <2>10. unread' = Run(at + d + t, f - t)
      <3>1. unread' = SubSeq(Fill(n).data, Taken(n) + 1, Len(Fill(n).data))
        BY <1>6, <2>4, Zenon
      <3>2. Fill(n).data = Run(at + d, f)
        BY <2>5
      <3> QED
        BY <2>3, <2>6, <3>1, <3>2, Zenon
    <2>11. at + d + t = pos + (len + (d + t)) /\ f - t = at' - (pos + (len + (d + t)))
      BY <1>1, <1>2, <1>9, <2>1, <2>2, <2>9
    <2>12. unread' = Run(pos + (len + (d + t)), at' - (pos + (len + (d + t))))
      BY <2>10, <2>11
    <2>13. /\ at' \in Nat /\ ended' \in BOOLEAN
           /\ pos + (len + (d + t)) <= at'
           /\ pos + (len + (d + t)) < at' => at' <= size
           /\ ended' => at' >= size
      BY <1>1, <1>2, <1>9, <2>1, <2>2, <2>9
    <2>14. len + (d + t) < n => ended' /\ at' = pos + (len + (d + t))
      BY <1>1, <1>2, <1>4, <1>9, <2>1, <2>2, <2>9
    <2>15. IsRun(n, pos, len + (d + t))
      BY <1>7, <2>8, <2>12, <2>13, <2>14 DEF IsRun
    <2> QED
      BY <1>11, <1>12, <1>14, <2>2, <2>15 DEF ReadIsRun, pos
  <1> QED
    BY <1>9, <1>10, <1>13, <1>14

LEMMA ReadsAreRuns ==
    ASSUME IInv, NEW n \in ReadSizes, Read(n)
    PROVE  ReadIsRun(n)
  BY ReadFromBufferIsRun, ReadAtEndIsRun, ReadFromFileIsRun DEF Read

LastTyped == last \in [call : Calls, arg : Nat, data : Seq(Nat)]

LEMMA Difference ==
    ASSUME NEW a \in Nat, NEW q \in Nat, q <= a
    PROVE  a - q \in Nat /\ a - q <= a /\ a - (a - q) = q /\ (a - q # 0 => q < a)
  OBVIOUS

(* After a step that leaves in the buffer the run from q up to the FILE's  *)
(* position the stream stands at q, and the invariant holds.               *)
LEMMA AfterStep ==
    ASSUME NEW q \in Nat,
           size' \in Sizes, at' \in Nat, ended' \in BOOLEAN,
           LastTyped',
           q <= at', unread' = Run(q, at' - q), q < at' => at' <= size',
           ended' => at' >= size'
    PROVE  IInv' /\ GetCurrentPosition' = q
  <1> DEFINE len == at' - q
  <1>1. len \in Nat /\ len <= at' /\ at' - len = q /\ (len # 0 => q < at')
    BY Difference, Zenon
  <1> HIDE DEF len
  <1>3. unread' = Run(q, len)
    BY DEF len
  <1>2. unread' \in Seq(Nat) /\ Len(unread') = len
    <2>1. Run(q, len) \in Seq(Nat) /\ Len(Run(q, len)) = len
      BY <1>1, RunIsSeq
    <2> QED
      BY <1>3, <2>1, Zenon
  <1>4. GetCurrentPosition' = q
    BY <1>1, <1>2 DEF GetCurrentPosition
  <1>5. TypeOK'
    BY <1>2, Zenon DEF TypeOK, LastTyped
  <1>6. BufferEndsAtFile'
    <2>1. Len(unread)' <= at'
      BY <1>1, <1>2, Zenon
    <2>2. unread' # << >> => at' <= size'
      <3>1. len = 0 => unread' = << >>
        BY <1>2, EmptySeq
      <3> QED
        BY <1>1, <3>1, Zenon
    <2>3. unread' = Run(at' - Len(unread'), Len(unread'))
      BY <1>1, <1>2, <1>3
    <2> QED
      BY <2>1, <2>2, <2>3 DEF BufferEndsAtFile, Run
  <1> QED
    BY <1>4, <1>5, <1>6 DEF IInv, EndIsAtEnd

(* A seek leaves an empty buffer, and the stream stands where it went.     *)
LEMMA AfterSeek ==
    ASSUME NEW p \in Nat, size' \in Sizes, FileSeek(p), unread' = << >>,
           LastTyped'
    PROVE  IInv' /\ GetCurrentPosition' = p
  <1>1. at' = p /\ ended' = FALSE
    BY DEF FileSeek
  <1>2. Run(p, at' - p) = << >>
    <2>1. Run(p, 0) \in Seq(Nat) /\ Len(Run(p, 0)) = 0
      BY RunIsSeq
    <2> QED
      BY <1>1, <2>1, EmptySeq
  <1>3. at' \in Nat /\ ended' \in BOOLEAN /\ p <= at' /\ ~(p < at') /\ ~ended'
    <2>1. p <= p /\ ~(p < p)
      OBVIOUS
    <2> QED
      BY <1>1, <2>1, Zenon
  <1> QED
    BY <1>2, <1>3, AfterStep, Zenon

(* The record of a call is well typed, with no data unless it is a Read. *)
LEMMA DoneIsTyped ==
    ASSUME NEW call \in Calls, NEW arg \in Nat, NEW data \in Seq(Nat), Done(call, arg, data)
    PROVE  LastTyped'
  BY DEF Done, LastTyped

LEMMA NoData == << >> \in Seq(Nat)
  OBVIOUS

(* The byte source's steps, at the stream's position. *)
LEMMA ReadStep ==
    ASSUME IInv, NEW n \in ReadSizes, Read(n)
    PROVE  IInv' /\ size' = size /\ Promise!Read(n)
  <1> DEFINE pos == GetCurrentPosition  count == Available(pos, n)
  <1>1. IsRun(n, pos, count)
    BY ReadsAreRuns DEF ReadIsRun
  <1>2. n \in Nat /\ size \in Nat /\ pos \in Nat /\ size \in Sizes
    BY Typing, Buffered DEF IInv, TypeOK
  <1>3. count \in Nat
    <2>1. count \in 0 .. n
      BY <1>2, AvailableFacts, Zenon
    <2> QED
      BY <1>2, <2>1
  <1> HIDE DEF pos, count
  <1>4. /\ last' = [call |-> "Read", arg |-> n, data |-> Run(pos, count)]
        /\ at' \in Nat /\ ended' \in BOOLEAN /\ size' = size
        /\ pos + count <= at' /\ unread' = Run(pos + count, at' - (pos + count))
        /\ pos + count < at' => at' <= size
        /\ ended' => at' >= size
    BY <1>1 DEF IsRun
  <1>5. pos + count \in Nat
    BY <1>2, <1>3
  <1>6. LastTyped'
    BY <1>2, <1>3, <1>4, RunIsSeq DEF Calls, LastTyped
  <1>7. IInv' /\ GetCurrentPosition' = pos + count
    BY <1>2, <1>4, <1>5, <1>6, AfterStep
  <1>8. Promise!Read(n)
    BY <1>4, <1>7 DEF Promise!Read, Promise!Done, Promise!Run, Promise!Available, Run, Available, pos, count
  <1> QED
    BY <1>4, <1>7, <1>8

LEMMA SkipStep ==
    ASSUME IInv, NEW n \in ReadSizes, Skip(n)
    PROVE  IInv' /\ size' = size /\ Promise!Skip(n)
  <1> DEFINE pos == GetCurrentPosition  len == Len(unread)
  <1>1. pos \in Nat /\ at = pos + len /\ unread = Run(pos, len)
    BY Buffered
  <1>2. /\ n \in Nat /\ len \in Nat /\ size \in Nat /\ size \in Sizes
        /\ at \in Nat /\ ended \in BOOLEAN
    BY Typing DEF IInv, TypeOK
  <1>3. /\ (len > 0 => at <= size) /\ (ended => at >= size)
    BY BufferInFile DEF IInv, EndIsAtEnd
  <1>4. Done("Skip", n, << >>) /\ size' = size
    BY DEF Skip
  <1>5. LastTyped'
    BY <1>2, <1>4, NoData, DoneIsTyped DEF Calls
  <1>6. CASE n <= len
    <2>1. unread' = SubSeq(unread, n + 1, len) /\ at' = at /\ ended' = ended
      BY <1>2, <1>6 DEF Skip
    <2> HIDE DEF pos, len
    <2>2. n \in 0 .. len /\ len - n = at - (pos + n) /\ pos + n \in Nat
      BY <1>1, <1>2, <1>6
    <2>3. SubSeq(unread, n + 1, len) = Run(pos + n, len - n)
      BY <1>1, <1>2, <2>2, RunSplits, Zenon
    <2>4. unread' = Run(pos + n, at' - (pos + n))
      BY <2>1, <2>2, <2>3, Zenon
    <2>5. pos + n <= at' /\ (pos + n < at' => at' <= size') /\ (ended' => at' >= size')
      BY <1>1, <1>2, <1>3, <1>4, <1>6, <2>1
    <2>6. IInv' /\ GetCurrentPosition' = pos + n
      BY <1>2, <1>4, <1>5, <2>1, <2>2, <2>4, <2>5, AfterStep
    <2> QED
      BY <1>4, <2>6 DEF Promise!Skip, Promise!Done, Done, pos
  <1>7. CASE n > len
    <2>1. FileSeek(at + (n - len)) /\ unread' = << >>
      BY <1>2, <1>7 DEF Skip
    <2> HIDE DEF pos, len
    <2>2. at + (n - len) = pos + n /\ pos + n \in Nat
      BY <1>1, <1>2, <1>7
    <2>3. IInv' /\ GetCurrentPosition' = pos + n
      BY <1>2, <1>4, <1>5, <2>1, <2>2, AfterSeek
    <2> QED
      BY <1>4, <2>3 DEF Promise!Skip, Promise!Done, Done, pos
  <1> QED
    BY <1>2, <1>6, <1>7

LEMMA SetPositionStep ==
    ASSUME IInv, NEW p \in 0 .. MaxPosition, SetPosition(p)
    PROVE  IInv' /\ size' = size /\ Promise!SetPosition(p)
  <1>1. /\ FileSeek(p) /\ unread' = << >> /\ size' = size
        /\ Done("SetPosition", p, << >>) /\ p \in Nat /\ size \in Sizes
    BY MaxPositionAssumption DEF SetPosition, IInv, TypeOK
  <1>2. LastTyped'
    BY <1>1, NoData, DoneIsTyped DEF Calls
  <1>3. IInv' /\ GetCurrentPosition' = p
    BY <1>1, <1>2, AfterSeek
  <1> QED
    BY <1>1, <1>3 DEF Promise!SetPosition, Promise!Done, Done

LEMMA SetPositionFromEndStep ==
    ASSUME IInv, NEW p \in 0 .. MaxPosition, SetPositionFromEnd(p)
    PROVE  IInv' /\ size' = size /\ Promise!SetPositionFromEnd(p)
  <1> DEFINE to == IF p <= size THEN size - p ELSE 0
  <1>1. /\ FileSeek(to) /\ unread' = << >> /\ size' = size
        /\ Done("SetPositionFromEnd", p, << >>) /\ p \in Nat /\ size \in Sizes
    BY MaxPositionAssumption DEF SetPositionFromEnd, IInv, TypeOK
  <1>2. to \in Nat
    BY <1>1, SizesAssumption
  <1>3. LastTyped'
    BY <1>1, NoData, DoneIsTyped DEF Calls
  <1> HIDE DEF to
  <1>4. IInv' /\ GetCurrentPosition' = to
    BY <1>1, <1>2, <1>3, AfterSeek
  <1> QED
    BY <1>1, <1>4 DEF Promise!SetPositionFromEnd, Promise!Done, Done, to

LEMMA GetFileSizeStep ==
    ASSUME IInv, GetFileSize
    PROVE  IInv' /\ size' = size /\ Promise!GetFileSize
  <1>1. /\ at' = at /\ ended' = FALSE /\ unread' = unread /\ size' = size
        /\ Done("GetFileSize", 0, << >>)
    BY DEF GetFileSize, FileSeek
  <1>2. LastTyped'
    BY <1>1, NoData, DoneIsTyped DEF Calls
  <1>3. TypeOK'
    BY <1>1, <1>2 DEF TypeOK, IInv, LastTyped
  <1>4. BufferEndsAtFile' /\ EndIsAtEnd' /\ GetCurrentPosition' = GetCurrentPosition
    BY <1>1 DEF IInv, BufferEndsAtFile, EndIsAtEnd, GetCurrentPosition, Run
  <1> QED
    BY <1>1, <1>3, <1>4 DEF IInv, Promise!GetFileSize, Promise!Done, Done

LEMMA OpenFileStep ==
    ASSUME IInv, OpenFile
    PROVE  IInv' /\ size' = size /\ Promise!OpenFile
  <1>1. /\ FileSeek(0) /\ unread' = << >> /\ size' = size
        /\ Done("OpenFile", 0, << >>) /\ size \in Sizes
    BY DEF OpenFile, IInv, TypeOK
  <1>2. LastTyped'
    BY <1>1, NoData, DoneIsTyped DEF Calls
  <1>3. IInv' /\ GetCurrentPosition' = 0
    BY <1>1, <1>2, AfterSeek
  <1> QED
    BY <1>1, <1>3 DEF Promise!OpenFile, Promise!Done, Done

LEMMA StutterStep ==
    ASSUME IInv, UNCHANGED vars
    PROVE  IInv' /\ UNCHANGED <<size, GetCurrentPosition, last>>
  BY DEF vars, IInv, TypeOK, BufferEndsAtFile, EndIsAtEnd, GetCurrentPosition, Run

(* Every step keeps the invariant and is a step of the byte source. *)
LEMMA NextStep ==
    ASSUME IInv, [Next]_vars
    PROVE  IInv' /\ [Promise!Next]_<<size, GetCurrentPosition, last>>
  <1>1. CASE \E n \in ReadSizes : Read(n) \/ Skip(n)
    BY <1>1, ReadStep, SkipStep DEF Promise!Next
  <1>2. CASE \E p \in 0 .. MaxPosition : SetPosition(p) \/ SetPositionFromEnd(p)
    BY <1>2, SetPositionStep, SetPositionFromEndStep DEF Promise!Next
  <1>3. CASE GetFileSize
    BY <1>3, GetFileSizeStep DEF Promise!Next
  <1>4. CASE OpenFile
    BY <1>4, OpenFileStep DEF Promise!Next
  <1>5. CASE UNCHANGED vars
    BY <1>5, StutterStep
  <1> QED
    BY <1>1, <1>2, <1>3, <1>4, <1>5 DEF Next
-----------------------------------------------------------------------------
(* The inductive invariant: in every state the buffer, the FILE and the    *)
(* indicator of the end agree (InputBufferedStream.cpp:55-150).            *)
THEOREM InvHolds == Spec => []IInv
  <1>1. IInv /\ [Next]_vars => IInv'
    BY NextStep
  <1> QED
    BY InitInv, <1>1, PTL DEF Spec

(* The types hold (the state of InputBufferedStream and of its FILE). *)
THEOREM TypesHold == Spec => []TypeOK
  <1>1. IInv => TypeOK
    BY DEF IInv
  <1> QED
    BY InvHolds, <1>1, PTL

(* What the buffer holds is what the FILE would deliver at the stream's    *)
(* position, after any calls (InputBufferedStream.cpp:55-150).             *)
THEOREM BufferEnds == Spec => []BufferEndsAtFile
  <1>1. IInv => BufferEndsAtFile
    BY DEF IInv
  <1> QED
    BY InvHolds, <1>1, PTL

(* A reader that stops because NotEnded is false has seen every byte       *)
(* (InputBufferedStream.cpp:113).                                          *)
THEOREM EndsAreReal == Spec => []EndIsReal
  <1>1. IInv => EndIsReal
    BY Typing DEF IInv, EndIsAtEnd, EndIsReal, NotEnded, GetCurrentPosition
  <1> QED
    BY InvHolds, <1>1, PTL

(* A Read that returns less than was asked is followed by NotEnded false   *)
(* (InputBufferedStream.cpp:74-106).                                       *)
THEOREM ShortReadsEnd == Spec => ShortReadEnds
  <1>1. ASSUME IInv, [Next]_vars
        PROVE  [\A n \in ReadSizes : Read(n) /\ Len(last'.data) < n => ~NotEnded']_vars
    <2>1. ASSUME NEW n \in ReadSizes, Read(n), Len(last'.data) < n
          PROVE  ~NotEnded'
      <3> DEFINE pos == GetCurrentPosition  count == Available(pos, n)
      <3>1. IsRun(n, pos, count)
        BY <1>1, <2>1, ReadsAreRuns DEF ReadIsRun
      <3>2. pos \in Nat /\ count \in Nat
        BY <1>1, Typing, Buffered, AvailableFacts DEF IInv
      <3> HIDE DEF pos, count
      <3>3. Len(last'.data) = count
        BY <3>1, <3>2, RunIsSeq DEF IsRun
      <3>4. ended' /\ at' = pos + count /\ unread' = Run(pos + count, at' - (pos + count))
        BY <2>1, <3>1, <3>3 DEF IsRun
      <3>5. pos + count \in Nat /\ at' - (pos + count) = 0
        BY <3>2, <3>4
      <3>6. Run(pos + count, 0) \in Seq(Nat) /\ Len(Run(pos + count, 0)) = 0
        BY <3>5, RunIsSeq
      <3>7. unread' = << >>
        BY <3>4, <3>5, <3>6, EmptySeq
      <3> QED
        BY <3>4, <3>7 DEF NotEnded
    <2> QED
      BY <2>1
  <1> QED
    BY InvHolds, <1>1, PTL DEF Spec, ShortReadEnds

(* The buffered stream implements the byte source: through any reads,      *)
(* skips, seeks and size queries nobody sees that there is a buffer.       *)
THEOREM StreamIsByteReader == Spec => IsByteReader
  <1>1. Init => Promise!Init
    <2>1. Len(<< >>) = 0
      OBVIOUS
    <2>2. Init => GetCurrentPosition = 0
      <3>1. Init => at = 0 /\ unread = << >>
        BY Zenon DEF Init
      <3>2. 0 - 0 = 0
        OBVIOUS
      <3> QED
        BY <2>1, <3>1, <3>2, Zenon DEF GetCurrentPosition
    <2> QED
      BY <2>2 DEF Init, Promise!Init
  <1>2. IInv /\ [Next]_vars => [Promise!Next]_<<size, GetCurrentPosition, last>>
    BY NextStep
  <1> QED
    BY InvHolds, <1>1, <1>2, PTL DEF Spec, IsByteReader, Promise!Spec

(* The buffer and the indicator of the end agree with the file, whatever   *)
(* was read, skipped or sought before.                                     *)
THEOREM BufferAgrees == Spec => []BufferIsRight
  <1> QED
    BY TypesHold, BufferEnds, EndsAreReal, PTL DEF BufferIsRight

-----------------------------------------------------------------------------
(***************************************************************************)
(* Induction, with the sets that the library's theorem about minima takes. *)
(***************************************************************************)

(* A set of numbers that is not empty has a least one.                     *)
LEMMA LeastNumber ==
    ASSUME NEW S, S \subseteq Nat, S # {}
    PROVE  \E x \in S : \A y \in S : x <= y
  <1> DEFINE Less == OpToRel(<, Nat)
  <1>1. IsWellFoundedOn(Less, Nat)
    BY NatLessThanWellFounded
  <1>2. \A x, y \in Nat : x < y => <<x, y>> \in Less
    BY DEF OpToRel
  <1> HIDE DEF Less
  <1>3. PICK x \in S : \A y \in S : ~ (<<y, x>> \in Less)
    BY <1>1, WFMin
  <1>4. \A y \in S : ~ (y < x)
    BY <1>2, <1>3
  <1> QED
    BY <1>3, <1>4

(* From the end of a text: a set has each number whose later ones it has.  *)
LEMMA FromTheEnd ==
    ASSUME NEW S, NEW n \in Nat,
           \A k \in 1 .. n : (\A j \in k + 1 .. n : j \in S) => k \in S
    PROVE  \A k \in 1 .. n : k \in S
  <1> SUFFICES ASSUME NEW k \in (1 .. n) \ S PROVE FALSE
    OBVIOUS
  <1> DEFINE D == {d \in 0 .. n - 1 : n - d \notin S}
  <1>1. n - k \in D /\ D \subseteq Nat
    OBVIOUS
  <1>2. PICK d \in D : \A e \in D : d <= e
    BY <1>1, LeastNumber
  <1>3. n - d \in 1 .. n
    BY <1>2
  <1>4. \A j \in n - d + 1 .. n : j \in S
    <2> SUFFICES ASSUME NEW j \in n - d + 1 .. n, j \notin S PROVE FALSE
      OBVIOUS
    <2>1. n - j \in 0 .. n - 1 /\ n - (n - j) = j /\ n - j < d
      BY <1>2
    <2>2. n - j \in D
      BY <2>1
    <2> QED
      BY <1>2, <2>1, <2>2
  <1> QED
    BY <1>2, <1>3, <1>4

(* From one place on, as long as each step allows.                         *)
LEMMA FromHere ==
    ASSUME NEW S, NEW m \in Nat, NEW n \in Nat, m \in S,
           \A k \in m .. n - 1 : k \in S => k + 1 \in S
    PROVE  \A k \in m .. n : k \in S
  <1> SUFFICES ASSUME NEW k \in (m .. n) \ S PROVE FALSE
    OBVIOUS
  <1> DEFINE D == (m .. n) \ S
  <1>1. D \subseteq Nat /\ k \in D
    OBVIOUS
  <1>2. PICK d \in D : \A e \in D : d <= e
    <2> HIDE DEF D
    <2> QED
      BY <1>1, LeastNumber
  <1>3. d - 1 \in m .. n - 1
    BY <1>2
  <1>4. d - 1 \in S
    BY <1>2, <1>3
  <1> QED
    BY <1>2, <1>3, <1>4

-----------------------------------------------------------------------------
(***************************************************************************)
(* Texts and their tokens.                                                 *)
(***************************************************************************)
Units == Seq(Lexemes) \ {<<>>}
TextTokens == [units : Units, start : Nat]

TextTyped == content \in Seq(Lexemes) /\ from \in Nat

LEMMA TextIs ==
    ASSUME TextTyped
    PROVE  /\ Text \in Seq(Lexemes) /\ Len(Text) \in Nat
           /\ Len(Text) = IF from <= Len(content) THEN Len(content) - from ELSE 0
           /\ \A k \in 1 .. Len(Text) : Text[k] = content[from + k] /\ Text[k] \in Lexemes
  <1>1. content \in Seq(Lexemes) /\ from \in Nat /\ Len(content) \in Nat
    BY DEF TextTyped
  <1>2. \A i \in from + 1 .. Len(content) : content[i] \in Lexemes
    BY <1>1, ElementOfSeq
  <1>3. /\ Text \in Seq(Lexemes)
        /\ Len(Text) = IF from + 1 <= Len(content) THEN Len(content) - (from + 1) + 1 ELSE 0
        /\ \A i \in 1 .. Len(content) - (from + 1) + 1 : Text[i] = content[from + 1 + i - 1]
    <2>1. from + 1 \in Int /\ Len(content) \in Int
      BY <1>1
    <2> QED
      BY <1>2, <2>1, SubSeqProperties DEF Text
  <1>4. \A k \in 1 .. Len(Text) : Text[k] = content[from + k] /\ Text[k] \in Lexemes
    BY <1>1, <1>3, ElementOfSeq
  <1> QED
    BY <1>1, <1>3, <1>4

(* A token reaches as far as what it begins with is joined.                *)
LEMMA TokenReaches ==
    ASSUME TextTyped, NEW i \in 1 .. Len(Text), NEW j \in i .. Len(Text),
           \A k \in i + 1 .. j : IsJoined(k), j = Len(Text) \/ ~IsJoined(j + 1)
    PROVE  TokenAt(i) = SubSeq(Text, i, j)
  <1> DEFINE ends == {l \in i .. Len(Text) : \A k \in i + 1 .. l : IsJoined(k)}
  <1>1. Len(Text) \in Nat
    BY TextIs
  <1>2. j \in ends /\ \A l \in ends : l <= j
    <2> SUFFICES ASSUME NEW l \in ends, l > j PROVE FALSE
      BY <1>1
    <2>1. j + 1 \in i + 1 .. l /\ j # Len(Text)
      BY <1>1
    <2> QED
      BY <2>1
  <1>3. \A l \in ends : (\A m \in ends : m <= l) => l = j
    BY <1>1, <1>2
  <1>4. (CHOOSE l \in ends : \A m \in ends : m <= l) = j
    <2> HIDE DEF ends
    <2> QED
      BY <1>2, <1>3
  <1> QED
    BY <1>4 DEF TokenAt

LEMMA TokenTyped ==
    ASSUME TextTyped, NEW i \in 1 .. Len(Text)
    PROVE  TokenAt(i) \in Units /\ TokenAt(i)[1] = Text[i]
  <1> DEFINE ends == {l \in i .. Len(Text) : \A k \in i + 1 .. l : IsJoined(k)}
             D == {Len(Text) - l : l \in ends}
  <1>1. Len(Text) \in Nat /\ Text \in Seq(Lexemes) /\ \A k \in 1 .. Len(Text) : Text[k] \in Lexemes
    BY TextIs
  <1>2. i \in ends /\ D \subseteq Nat /\ D # {}
    BY <1>1
  <1>3. PICK d \in D : \A e \in D : d <= e
    <2> HIDE DEF D
    <2> QED
      BY <1>2, LeastNumber
  <1>4. PICK j \in ends : \A l \in ends : l <= j
    <2>1. PICK j \in ends : d = Len(Text) - j
      BY <1>3
    <2>2. \A l \in ends : Len(Text) - j <= Len(Text) - l
      BY <1>3, <2>1
    <2> QED
      BY <1>1, <2>1, <2>2
  <1>5. j \in i .. Len(Text) /\ \A k \in i + 1 .. j : IsJoined(k)
    BY <1>4
  <1>6. j = Len(Text) \/ ~IsJoined(j + 1)
    <2> SUFFICES ASSUME j # Len(Text), IsJoined(j + 1) PROVE FALSE
      OBVIOUS
    <2>1. j + 1 \in i .. Len(Text) /\ \A k \in i + 1 .. j + 1 : IsJoined(k)
      BY <1>1, <1>5
    <2>2. j + 1 \in ends
      BY <2>1
    <2> QED
      BY <1>1, <1>4, <1>5, <2>2
  <1> HIDE DEF ends
  <1>7. TokenAt(i) = SubSeq(Text, i, j)
    BY <1>5, <1>6, TokenReaches
  <1>8. /\ SubSeq(Text, i, j) \in Seq(Lexemes)
        /\ Len(SubSeq(Text, i, j)) = j - i + 1
        /\ \A k \in 1 .. j - i + 1 : SubSeq(Text, i, j)[k] = Text[i + k - 1]
    <2>1. \A k \in i .. j : Text[k] \in Lexemes
      BY <1>1, <1>5
    <2>2. i \in Int /\ j \in Int /\ i <= j
      BY <1>1, <1>5
    <2> QED
      BY <2>1, <2>2, SubSeqProperties
  <1>9. j - i + 1 >= 1 /\ i + 1 - 1 = i
    BY <1>1, <1>5
  <1>10. TokenAt(i)[1] = Text[i] /\ Len(TokenAt(i)) # 0
    BY <1>7, <1>8, <1>9
  <1> QED
    BY <1>7, <1>8, <1>10, EmptySeq DEF Units

(* The tokens from a place on, given those from the next.                  *)
Starts(i) == Text[i] # White /\ ~IsJoined(i)
TokensStep(f, i) ==
    IF i > Len(Text) THEN <<>>
    ELSE IF Text[i] = White \/ IsJoined(i) THEN f[i + 1]
    ELSE <<[units |-> TokenAt(i), start |-> i]>> \o f[i + 1]

LEMMA OneMore ==
    ASSUME NEW S, NEW x \in S, NEW s \in Seq(S)
    PROVE  /\ <<x>> \o s \in Seq(S) /\ Len(<<x>> \o s) = Len(s) + 1
           /\ (<<x>> \o s)[1] = x
           /\ \A j \in 1 .. Len(s) : (<<x>> \o s)[j + 1] = s[j]
  <1>1. <<x>> \in Seq(S) /\ Len(<<x>>) = 1 /\ <<x>>[1] = x /\ Len(s) \in Nat
    OBVIOUS
  <1>2. /\ <<x>> \o s \in Seq(S) /\ Len(<<x>> \o s) = Len(<<x>>) + Len(s)
        /\ \A j \in 1 .. Len(<<x>>) + Len(s) :
              (<<x>> \o s)[j] = IF j <= Len(<<x>>) THEN <<x>>[j] ELSE s[j - Len(<<x>>)]
    BY <1>1, ConcatProperties, Zenon
  <1> QED
    BY <1>1, <1>2

LEMMA TokensStepTyped ==
    ASSUME TextTyped, NEW f \in [1 .. Len(Text) + 1 -> Seq(TextTokens)], NEW i \in 1 .. Len(Text) + 1
    PROVE  TokensStep(f, i) \in Seq(TextTokens)
  <1>1. Len(Text) \in Nat
    BY TextIs
  <1>2. CASE i > Len(Text)
    BY <1>2 DEF TokensStep
  <1>3. CASE ~(i > Len(Text))
    <2>1. f[i + 1] \in Seq(TextTokens) /\ i \in 1 .. Len(Text)
      BY <1>1, <1>3
    <2>2. [units |-> TokenAt(i), start |-> i] \in TextTokens
      BY <2>1, TokenTyped DEF TextTokens
    <2>3. <<[units |-> TokenAt(i), start |-> i]>> \o f[i + 1] \in Seq(TextTokens)
      BY <2>1, <2>2, OneMore
    <2> QED
      BY <1>3, <2>1, <2>3 DEF TokensStep
  <1> QED
    BY <1>2, <1>3

LEMMA TokensFromIs ==
    ASSUME TextTyped
    PROVE  /\ TokensFrom \in [1 .. Len(Text) + 1 -> Seq(TextTokens)]
           /\ \A i \in 1 .. Len(Text) + 1 : TokensFrom[i] = TokensStep(TokensFrom, i)
  <1> DEFINE N == Len(Text) + 1
             Functions == [1 .. N -> Seq(TextTokens)]
             S == {k \in 1 .. N : \E f \in Functions : \A i \in k .. N : f[i] = TokensStep(f, i)}
  <1>1. N \in Nat /\ N >= 1 /\ Len(Text) \in Nat
    BY TextIs
  <1>2. ASSUME NEW k \in 1 .. N, \A j \in k + 1 .. N : j \in S
        PROVE  k \in S
    <2>1. PICK f \in Functions : \A i \in k + 1 .. N : f[i] = TokensStep(f, i)
      <3>1. CASE k = N
        <4>1. [i \in 1 .. N |-> <<>>] \in Functions /\ \A i \in k + 1 .. N : FALSE
          BY <1>1, <3>1, EmptySeq
        <4> QED
          BY <4>1
      <3>2. CASE k # N
        <4>1. k + 1 \in k + 1 .. N
          BY <1>1, <3>2
        <4>2. k + 1 \in S
          <5> HIDE DEF S
          <5> QED
            BY <1>2, <4>1
        <4> QED
          BY <4>2
      <3> QED
        BY <3>1, <3>2
    <2> DEFINE g == [f EXCEPT ![k] = TokensStep(f, k)]
    <2>2. TokensStep(f, k) \in Seq(TextTokens)
      BY TokensStepTyped
    <2>3. g \in Functions /\ \A i \in 1 .. N : i # k => g[i] = f[i]
      BY <2>2
    <2>4. g[k] = TokensStep(f, k)
      BY DEF Functions
    <2>5. \A i \in k .. N : g[i] = TokensStep(g, i)
      <3> SUFFICES ASSUME NEW i \in k .. N PROVE g[i] = TokensStep(g, i)
        OBVIOUS
      <3>1. ~(i > Len(Text)) => g[i + 1] = f[i + 1]
        BY <1>1, <2>3
      <3>2. g[i] = TokensStep(f, i)
        BY <1>1, <2>1, <2>3, <2>4
      <3> HIDE DEF g
      <3> QED
        BY <3>1, <3>2 DEF TokensStep
    <2> HIDE DEF g
    <2> QED
      BY <2>3, <2>5
  <1>3. 1 \in S
    <2> HIDE DEF S
    <2>1. \A k \in 1 .. N : k \in S
      BY <1>1, <1>2, FromTheEnd
    <2> QED
      BY <1>1, <2>1
  <1>4. PICK f \in Functions : \A i \in 1 .. N : f[i] = TokensStep(f, i)
    BY <1>3
  <1>5. f = [i \in 1 .. Len(Text) + 1 |-> TokensStep(f, i)]
    BY <1>4
  <1>6. TokensFrom = [i \in 1 .. Len(Text) + 1 |-> TokensStep(TokensFrom, i)]
    <2> DEFINE Is_(g) == g = [i \in 1 .. Len(Text) + 1 |-> TokensStep(g, i)]
    <2>1. TokensFrom = CHOOSE g : Is_(g)
      BY DEF TokensFrom, TokensStep
    <2>2. Is_(f)
      BY <1>5
    <2> HIDE DEF Is_
    <2>3. Is_(TokensFrom)
      BY <2>1, <2>2
    <2> QED
      BY <2>3 DEF Is_
  <1>7. \A g : g = [i \in 1 .. Len(Text) + 1 |-> TokensStep(g, i)] => g = f
    <2> SUFFICES ASSUME NEW g, g = [i \in 1 .. Len(Text) + 1 |-> TokensStep(g, i)] PROVE g = f
      OBVIOUS
    <2> DEFINE E == {k \in 1 .. N : g[k] = f[k]}
    <2>1. ASSUME NEW k \in 1 .. N, \A j \in k + 1 .. N : j \in E
          PROVE  k \in E
      <3>1. g[k] = TokensStep(g, k) /\ f[k] = TokensStep(f, k)
        BY <1>4
      <3>2. ~(k > Len(Text)) => g[k + 1] = f[k + 1]
        <4>1. SUFFICES ASSUME ~(k > Len(Text)) PROVE k + 1 \in E
          OBVIOUS
        <4>2. k + 1 \in k + 1 .. N
          BY <1>1, <4>1
        <4> HIDE DEF E
        <4> QED
          BY <2>1, <4>2
      <3>3. k \in 1 .. N
        OBVIOUS
      <3>4. g[k] = f[k]
        <4> HIDE DEF E, N
        <4> QED
          BY <3>1, <3>2 DEF TokensStep
      <3> QED
        BY <3>3, <3>4
    <2>2. \A k \in 1 .. N : k \in E
      <3> HIDE DEF E
      <3> QED
        BY <1>1, <2>1, FromTheEnd
    <2> QED
      BY <1>5, <2>2
  <1>8. TokensFrom = f
    BY <1>6, <1>7
  <1> QED
    BY <1>4, <1>8

(* The tokens after the b-th are those that begin at i or later.           *)
Remains(i, b) ==
    /\ i \in 1 .. Len(Text) + 1 /\ b \in 0 .. Len(Tokens)
    /\ Len(TokensFrom[i]) = Len(Tokens) - b
    /\ \A j \in 1 .. Len(Tokens) - b : TokensFrom[i][j] = Tokens[b + j]

LEMMA TokensFromAt ==
    ASSUME TextTyped
    PROVE  /\ TokensFrom[Len(Text) + 1] = <<>>
           /\ \A i \in 1 .. Len(Text) + 1 : TokensFrom[i] \in Seq(TextTokens)
           /\ \A i \in 1 .. Len(Text) : i + 1 \in 1 .. Len(Text) + 1
           /\ \A i \in 1 .. Len(Text) :
                TokensFrom[i] =
                    IF Text[i] = White \/ IsJoined(i) THEN TokensFrom[i + 1]
                    ELSE <<[units |-> TokenAt(i), start |-> i]>> \o TokensFrom[i + 1]
  <1>1. Len(Text) \in Nat
    BY TextIs
  <1>2. /\ Len(Text) + 1 \in 1 .. Len(Text) + 1 /\ Len(Text) + 1 > Len(Text)
        /\ \A i \in 1 .. Len(Text) :
              i \in 1 .. Len(Text) + 1 /\ i + 1 \in 1 .. Len(Text) + 1 /\ ~(i > Len(Text))
    BY <1>1
  <1>3. TokensFrom[Len(Text) + 1] = TokensStep(TokensFrom, Len(Text) + 1)
    BY <1>2, TokensFromIs
  <1>4. \A i \in 1 .. Len(Text) + 1 : TokensFrom[i] \in Seq(TextTokens)
    BY TokensFromIs
  <1>5. \A i \in 1 .. Len(Text) : TokensFrom[i] = TokensStep(TokensFrom, i)
    BY <1>2, TokensFromIs
  <1> QED
    BY <1>2, <1>3, <1>4, <1>5 DEF TokensStep

LEMMA TokensTyped ==
    ASSUME TextTyped
    PROVE  /\ Tokens \in Seq(TextTokens) /\ Len(Tokens) \in Nat /\ Len(Text) \in Nat
           /\ \A p \in 1 .. Len(Tokens) : Tokens[p] \in TextTokens
  <1>1. Len(Text) \in Nat
    BY TextIs
  <1>2. Tokens \in Seq(TextTokens)
    BY <1>1, TokensFromIs DEF Tokens
  <1> QED
    BY <1>1, <1>2, ElementOfSeq

LEMMA RemainsAtFirst ==
    ASSUME TextTyped
    PROVE  Remains(1, 0)
  BY TokensTyped DEF Remains, Tokens

LEMMA RemainsAtEnd ==
    ASSUME TextTyped, NEW b, Remains(Len(Text) + 1, b)
    PROVE  b = Len(Tokens)
  <1>1. TokensFrom[Len(Text) + 1] = <<>>
    BY TokensFromAt
  <1>2. Len(TokensFrom[Len(Text) + 1]) = 0
    BY <1>1
  <1> QED
    BY <1>2, TokensTyped DEF Remains

LEMMA RemainsAfterNone ==
    ASSUME TextTyped, NEW b, NEW i \in 1 .. Len(Text), Remains(i, b),
           Text[i] = White \/ IsJoined(i)
    PROVE  Remains(i + 1, b)
  <1>1. TokensFrom[i] = TokensFrom[i + 1]
    BY TokensFromAt
  <1>2. i + 1 \in 1 .. Len(Text) + 1
    BY TokensTyped
  <1> QED
    BY <1>1, <1>2 DEF Remains

LEMMA RemainsAfterStart ==
    ASSUME TextTyped, NEW b, NEW i \in 1 .. Len(Text), Remains(i, b),
           Text[i] # White, ~IsJoined(i)
    PROVE  /\ b + 1 \in 1 .. Len(Tokens) /\ Remains(i + 1, b + 1)
           /\ Tokens[b + 1] = [units |-> TokenAt(i), start |-> i]
  <1> DEFINE t == [units |-> TokenAt(i), start |-> i]  rest == TokensFrom[i + 1]
  <1>1. i + 1 \in 1 .. Len(Text) + 1 /\ rest \in Seq(TextTokens) /\ t \in TextTokens
    <2>1. TokenAt(i) \in Units /\ i \in Nat
      BY TokenTyped
    <2>2. t \in TextTokens
      BY <2>1 DEF TextTokens
    <2> QED
      BY <2>2, TokensFromAt
  <1>2. TokensFrom[i] = <<t>> \o rest
    BY TokensFromAt
  <1> HIDE DEF t, rest
  <1>3. /\ Len(TokensFrom[i]) = Len(rest) + 1 /\ Len(rest) \in Nat
        /\ TokensFrom[i][1] = t
        /\ \A j \in 1 .. Len(rest) : TokensFrom[i][j + 1] = rest[j]
    BY <1>1, <1>2, OneMore
  <1>4. /\ b \in 0 .. Len(Tokens) /\ Len(Tokens) \in Nat
        /\ Len(rest) + 1 = Len(Tokens) - b
        /\ \A j \in 1 .. Len(Tokens) - b : TokensFrom[i][j] = Tokens[b + j]
    BY <1>3, TokensTyped DEF Remains
  <1>5. b + 1 \in 1 .. Len(Tokens) /\ Tokens[b + 1] = t /\ Len(rest) = Len(Tokens) - (b + 1)
    <2>1. b + 1 \in 1 .. Len(Tokens) /\ Len(rest) = Len(Tokens) - (b + 1) /\ 1 \in 1 .. Len(Tokens) - b
      BY <1>3, <1>4
    <2>2. TokensFrom[i][1] = Tokens[b + 1]
      BY <1>4, <2>1
    <2> QED
      BY <1>3, <2>1, <2>2
  <1>6. ASSUME NEW j \in 1 .. Len(Tokens) - (b + 1)
        PROVE  rest[j] = Tokens[b + 1 + j]
    <2>1. j \in 1 .. Len(rest) /\ j + 1 \in 1 .. Len(Tokens) - b /\ b + (j + 1) = b + 1 + j
      BY <1>4, <1>5
    <2> QED
      BY <1>3, <1>4, <2>1
  <1> QED
    BY <1>1, <1>5, <1>6 DEF Remains, t, rest

(* The next token is the longest run from here.                            *)
LEMMA RemainsAfterToken ==
    ASSUME TextTyped, NEW b, NEW i \in 1 .. Len(Text), Remains(i, b),
           Text[i] # White, ~IsJoined(i),
           NEW j \in i .. Len(Text), \A k \in i + 1 .. j : IsJoined(k),
           j = Len(Text) \/ ~IsJoined(j + 1)
    PROVE  /\ b + 1 \in 1 .. Len(Tokens) /\ Remains(j + 1, b + 1)
           /\ Tokens[b + 1] = [units |-> SubSeq(Text, i, j), start |-> i]
  <1>1. /\ b + 1 \in 1 .. Len(Tokens) /\ Remains(i + 1, b + 1)
        /\ Tokens[b + 1] = [units |-> TokenAt(i), start |-> i]
    BY RemainsAfterStart
  <1>2. TokenAt(i) = SubSeq(Text, i, j)
    BY TokenReaches
  <1> DEFINE S == {k \in i + 1 .. j + 1 : Remains(k, b + 1)}
  <1>3. i + 1 \in S /\ i + 1 \in Nat /\ j + 1 \in Nat /\ Len(Text) \in Nat
    BY <1>1, TokensTyped
  <1>4. ASSUME NEW k \in i + 1 .. j + 1 - 1, k \in S
        PROVE  k + 1 \in S
    <2>1. IsJoined(k) /\ k \in 1 .. Len(Text) /\ k + 1 \in i + 1 .. j + 1
      BY <1>3
    <2>2. Remains(k + 1, b + 1)
      BY <1>4, <2>1, RemainsAfterNone
    <2> QED
      BY <2>1, <2>2
  <1>5. j + 1 \in S
    <2> HIDE DEF S
    <2>1. \A k \in i + 1 .. j + 1 : k \in S
      <3> DEFINE m == i + 1  n == j + 1
      <3>1. m \in Nat /\ n \in Nat /\ m \in S /\ \A k \in m .. n - 1 : k \in S => k + 1 \in S
        BY <1>3, <1>4
      <3> HIDE DEF m, n
      <3>2. \A k \in m .. n : k \in S
        BY <3>1, FromHere
      <3> QED
        BY <3>2 DEF m, n
    <2>2. j + 1 \in i + 1 .. j + 1
      BY <1>3
    <2> QED
      BY <2>1, <2>2
  <1> QED
    BY <1>1, <1>2, <1>5
-----------------------------------------------------------------------------
(***************************************************************************)
(* The tokenizer at a place of the text: what it has of the token that it  *)
(* is in, and which tokens come after those that it has delivered.         *)
(***************************************************************************)
ReadsAt(b, pos, part, back) ==
    /\ pos \in 0 .. Len(Text) /\ part \in Seq(Lexemes) /\ Len(part) <= pos
    /\ back => part = <<>> /\ pos < Len(Text) /\ Text[pos + 1] \in Breakers
    /\ part = SubSeq(Text, pos - Len(part) + 1, pos)
    /\ Remains(pos - Len(part) + 1, b)
    /\ pos - Len(part) < Len(Text) => ~IsJoined(pos - Len(part) + 1)
    /\ part # <<>> => Text[pos - Len(part) + 1] \notin Marks \cup {White}
    /\ \A k \in pos - Len(part) + 2 .. pos : IsJoined(k)

StreamsEnd ==
    \A k \in 1 .. Len(Text) : Text[k] = "stream" => k < Len(Text) /\ Text[k + 1] = White

(* The b-th token is delivered, and after a keyword stream its line's end  *)
(* is read.                                                                *)
Delivers(b, pos, back, t) ==
    /\ b \in 1 .. Len(Tokens) /\ t = Tokens[b].units /\ ReadsAt(b, pos, <<>>, back)
    /\ t = <<"stream">> => pos = Tokens[b].start + 1 /\ ~back

LEMMA NoPart ==
    ASSUME TextTyped, NEW pos \in 0 .. Len(Text)
    PROVE  SubSeq(Text, pos + 1, pos) = <<>>
  <1>1. Text \in Seq(Lexemes) /\ Len(Text) \in Nat
    BY TextIs
  <1>2. pos + 1 \in Int /\ pos \in Int /\ ~(pos + 1 <= pos) /\ \A k \in pos + 1 .. pos : Text[k] \in Lexemes
    BY <1>1
  <1>3. SubSeq(Text, pos + 1, pos) \in Seq(Lexemes) /\ Len(SubSeq(Text, pos + 1, pos)) = 0
    BY <1>2, SubSeqProperties
  <1> QED
    BY <1>3, EmptySeq

(* Between two tokens.                                                     *)
LEMMA ReadsBetween ==
    ASSUME TextTyped, NEW b, NEW pos \in 0 .. Len(Text), NEW back \in BOOLEAN,
           Remains(pos + 1, b), pos < Len(Text) => ~IsJoined(pos + 1),
           back => pos < Len(Text) /\ Text[pos + 1] \in Breakers
    PROVE  ReadsAt(b, pos, <<>>, back)
  <1>1. /\ Len(<<>>) = 0 /\ <<>> \in Seq(Lexemes) /\ pos - 0 = pos /\ Len(Text) \in Nat
        /\ 0 <= pos /\ \A k \in pos - 0 + 2 .. pos : FALSE
    BY TextIs
  <1> QED
    BY <1>1, NoPart DEF ReadsAt

(* What a token begins with is longer by a byte.                           *)
LEMMA PartGrows ==
    ASSUME TextTyped, NEW i \in 1 .. Len(Text), NEW pos \in i - 1 .. Len(Text) - 1
    PROVE  Append(SubSeq(Text, i, pos), Text[pos + 1]) = SubSeq(Text, i, pos + 1)
  <1> DEFINE s == SubSeq(Text, i, pos)  t == SubSeq(Text, i, pos + 1)
  <1>1. /\ Text \in Seq(Lexemes) /\ Len(Text) \in Nat /\ i \in Int /\ pos \in Int /\ pos + 1 \in Int
        /\ pos + 1 \in 1 .. Len(Text) /\ i <= pos + 1
    BY TextIs
  <1>2. \A k \in i .. pos + 1 : Text[k] \in Lexemes
    BY <1>1, TextIs
  <1>3. /\ s \in Seq(Lexemes) /\ Len(s) = pos - i + 1
        /\ \A k \in 1 .. pos - i + 1 : s[k] = Text[i + k - 1]
    <2>1. \A k \in i .. pos : Text[k] \in Lexemes
      BY <1>1, <1>2
    <2>2. /\ s \in Seq(Lexemes) /\ Len(s) = IF i <= pos THEN pos - i + 1 ELSE 0
          /\ \A k \in 1 .. pos - i + 1 : s[k] = Text[i + k - 1]
      BY <1>1, <2>1, SubSeqProperties
    <2> QED
      BY <1>1, <2>2
  <1>4. /\ t \in Seq(Lexemes) /\ Len(t) = pos - i + 2
        /\ \A k \in 1 .. pos - i + 2 : t[k] = Text[i + k - 1]
    <2>1. /\ t \in Seq(Lexemes) /\ Len(t) = IF i <= pos + 1 THEN pos + 1 - i + 1 ELSE 0
          /\ \A k \in 1 .. pos + 1 - i + 1 : t[k] = Text[i + k - 1]
      BY <1>1, <1>2, SubSeqProperties
    <2> QED
      BY <1>1, <2>1
  <1> HIDE DEF s, t
  <1>5. /\ Append(s, Text[pos + 1]) \in Seq(Lexemes)
        /\ Len(Append(s, Text[pos + 1])) = Len(s) + 1
        /\ \A k \in 1 .. Len(s) : Append(s, Text[pos + 1])[k] = s[k]
        /\ Append(s, Text[pos + 1])[Len(s) + 1] = Text[pos + 1]
    <2>1. Text[pos + 1] \in Lexemes
      BY <1>1, <1>2
    <2> QED
      BY <1>3, <2>1, AppendProperties
  <1>6. \A k \in 1 .. pos - i + 2 : Append(s, Text[pos + 1])[k] = t[k]
    <2> TAKE k \in 1 .. pos - i + 2
    <2>1. CASE k = pos - i + 2
      <3>1. i + k - 1 = pos + 1 /\ k = Len(s) + 1
        BY <1>1, <1>3, <2>1
      <3> QED
        BY <1>4, <1>5, <3>1
    <2>2. CASE k # pos - i + 2
      <3>1. k \in 1 .. pos - i + 1
        BY <1>1, <2>2
      <3> QED
        BY <1>3, <1>4, <1>5, <3>1
    <2> QED
      BY <2>1, <2>2
  <1>7. Len(Append(s, Text[pos + 1])) = pos - i + 2
    BY <1>1, <1>3, <1>5
  <1> QED
    BY <1>4, <1>5, <1>6, <1>7, SeqEqual DEF s, t

LEMMA JoinedIs ==
    ASSUME NEW k \in Nat
    PROVE  IsJoined(k + 1) <=>
              k >= 1 /\ Text[k + 1] \notin Breakers \cup {White} /\ Text[k] \notin Marks \cup {White}
  <1>1. (k + 1 > 1 <=> k >= 1) /\ k + 1 - 1 = k
    OBVIOUS
  <1> QED
    BY <1>1 DEF IsJoined

(* A token that has begun and cannot go on is the next one.                *)
LEMMA PartIsToken ==
    ASSUME TextTyped, StreamsEnd, NEW b, NEW pos, NEW part, NEW back, ReadsAt(b, pos, part, back),
           part # <<>>, pos = Len(Text) \/ ~IsJoined(pos + 1)
    PROVE  /\ b + 1 \in 1 .. Len(Tokens) /\ Remains(pos + 1, b + 1) /\ part = Tokens[b + 1].units
           /\ part = <<"stream">> =>
                pos < Len(Text) /\ Text[pos + 1] = White /\ pos = Tokens[b + 1].start
  <1> DEFINE i == pos - Len(part) + 1
  <1>1. /\ pos \in 0 .. Len(Text) /\ part \in Seq(Lexemes) /\ Len(part) <= pos
        /\ part = SubSeq(Text, i, pos) /\ Remains(i, b)
        /\ pos - Len(part) < Len(Text) => ~IsJoined(i)
        /\ Text[i] \notin Marks \cup {White}
        /\ \A k \in pos - Len(part) + 2 .. pos : IsJoined(k)
    BY DEF ReadsAt
  <1>2. Len(part) \in Nat /\ Len(part) # 0 /\ Len(Text) \in Nat
    BY <1>1, TextIs, EmptySeq
  <1>3. i \in 1 .. Len(Text) /\ pos \in i .. Len(Text) /\ pos - Len(part) + 2 = i + 1 /\ pos - Len(part) < Len(Text)
    BY <1>1, <1>2
  <1>4. Text[i] # White /\ ~IsJoined(i) /\ \A k \in i + 1 .. pos : IsJoined(k)
    BY <1>1, <1>3
  <1>5. Len(part) = 1 => i = pos
    BY <1>1, <1>2
  <1>6. part[1] = Text[i]
    <2>1. /\ Len(SubSeq(Text, i, pos)) >= 1 /\ i \in Int /\ pos \in Int
          /\ \A k \in i .. pos : Text[k] \in Lexemes
      BY <1>1, <1>2, <1>3, TextIs
    <2>2. \A k \in 1 .. pos - i + 1 : SubSeq(Text, i, pos)[k] = Text[i + k - 1]
      BY <2>1, SubSeqProperties
    <2>3. 1 \in 1 .. pos - i + 1 /\ i + 1 - 1 = i
      BY <1>3
    <2> QED
      BY <1>1, <2>2, <2>3
  <1> HIDE DEF i
  <1>7. /\ b + 1 \in 1 .. Len(Tokens) /\ Remains(pos + 1, b + 1)
        /\ Tokens[b + 1] = [units |-> SubSeq(Text, i, pos), start |-> i]
    BY <1>1, <1>3, <1>4, RemainsAfterToken
  <1>8. ASSUME part = <<"stream">>
        PROVE  pos < Len(Text) /\ Text[pos + 1] = White /\ pos = i
    <2>1. Len(part) = 1 /\ part[1] = "stream"
      BY <1>8
    <2> QED
      BY <1>3, <1>5, <1>6, <2>1 DEF StreamsEnd
  <1>9. Tokens[b + 1].units = part /\ Tokens[b + 1].start = i
    <2> DEFINE t == Tokens[b + 1]
    <2>1. t = [units |-> part, start |-> i]
      BY <1>1, <1>7
    <2> HIDE DEF t
    <2>2. t.units = part /\ t.start = i
      BY <2>1
    <2> QED
      BY <2>2 DEF t
  <1> QED
    BY <1>7, <1>8, <1>9

LEMMA ReadsWhite ==
    ASSUME TextTyped, StreamsEnd, NEW b, NEW pos, NEW part, NEW back, ReadsAt(b, pos, part, back),
           pos < Len(Text), Text[pos + 1] = White
    PROVE  IF part = <<>> THEN ReadsAt(b, pos + 1, <<>>, FALSE)
           ELSE Delivers(b + 1, pos + 1, FALSE, part)
  <1>1. pos \in 0 .. Len(Text) /\ Len(Text) \in Nat /\ pos + 1 \in 1 .. Len(Text) /\ pos + 1 \in 0 .. Len(Text)
    BY TextIs DEF ReadsAt
  <1>2. ~IsJoined(pos + 1) /\ ~IsJoined(pos + 2)
    BY <1>1 DEF IsJoined
  <1>3. ASSUME NEW c, Remains(pos + 1, c)
        PROVE  ReadsAt(c, pos + 1, <<>>, FALSE)
    <2>1. Remains(pos + 1 + 1, c)
      BY <1>1, <1>3, RemainsAfterNone
    <2>2. ~IsJoined(pos + 1 + 1)
      BY <1>1, <1>2
    <2> QED
      BY <1>1, <2>1, <2>2, ReadsBetween
  <1>4. CASE part = <<>>
    <2>1. Remains(pos + 1, b)
      <3>1. Len(<<>>) = 0 /\ pos - 0 + 1 = pos + 1
        BY <1>1
      <3> QED
        BY <1>4, <3>1 DEF ReadsAt
    <2> QED
      BY <1>3, <1>4, <2>1
  <1>5. CASE part # <<>>
    <2>1. /\ b + 1 \in 1 .. Len(Tokens) /\ Remains(pos + 1, b + 1) /\ part = Tokens[b + 1].units
          /\ part = <<"stream">> => pos = Tokens[b + 1].start
      BY <1>2, <1>5, PartIsToken
    <2> QED
      BY <1>3, <1>5, <2>1 DEF Delivers
  <1> QED
    BY <1>4, <1>5

(* A mark or a name ends a token that has begun, and is put back.          *)
LEMMA ReadsBreaker ==
    ASSUME TextTyped, StreamsEnd, NEW b, NEW pos, NEW part, NEW back, ReadsAt(b, pos, part, back),
           pos < Len(Text), Text[pos + 1] \in Breakers, part # <<>>
    PROVE  Delivers(b + 1, pos, TRUE, part)
  <1>1. pos \in 0 .. Len(Text) /\ Len(Text) \in Nat
    BY TextIs DEF ReadsAt
  <1>2. ~IsJoined(pos + 1) /\ Text[pos + 1] # White
    BY DEF IsJoined, Breakers, Marks, White
  <1>3. /\ b + 1 \in 1 .. Len(Tokens) /\ Remains(pos + 1, b + 1) /\ part = Tokens[b + 1].units
        /\ part # <<"stream">>
    BY <1>2, PartIsToken
  <1>4. ReadsAt(b + 1, pos, <<>>, TRUE)
    BY <1>1, <1>2, <1>3, ReadsBetween
  <1> QED
    BY <1>3, <1>4 DEF Delivers

(* A mark is a token.                                                      *)
LEMMA ReadsMark ==
    ASSUME TextTyped, NEW b, NEW pos, NEW back, ReadsAt(b, pos, <<>>, back),
           pos < Len(Text), Text[pos + 1] \in Marks
    PROVE  Delivers(b + 1, pos + 1, FALSE, <<Text[pos + 1]>>)
  <1>1. /\ pos \in 0 .. Len(Text) /\ Len(Text) \in Nat /\ pos + 1 \in 1 .. Len(Text) /\ pos + 1 \in 0 .. Len(Text)
        /\ pos + 1 \in pos + 1 .. Len(Text)
    BY TextIs DEF ReadsAt
  <1>2. Text[pos + 1] # White /\ Text[pos + 1] # "stream" /\ ~IsJoined(pos + 1) /\ ~IsJoined(pos + 1 + 1)
    <2>1. pos \in Nat /\ pos + 1 \in Nat
      BY <1>1
    <2>2. ~IsJoined(pos + 1) /\ ~IsJoined(pos + 1 + 1)
      BY <2>1, JoinedIs DEF Breakers
    <2> QED
      BY <2>2 DEF Marks, White
  <1>3. Remains(pos + 1, b)
    <2>1. Len(<<>>) = 0 /\ pos - 0 + 1 = pos + 1
      BY <1>1
    <2> QED
      BY <2>1 DEF ReadsAt
  <1>4. \A k \in pos + 1 + 1 .. pos + 1 : IsJoined(k)
    BY <1>1
  <1>5. /\ b + 1 \in 1 .. Len(Tokens) /\ Remains(pos + 1 + 1, b + 1)
        /\ Tokens[b + 1] = [units |-> SubSeq(Text, pos + 1, pos + 1), start |-> pos + 1]
    BY <1>1, <1>2, <1>3, <1>4, RemainsAfterToken
  <1>6. SubSeq(Text, pos + 1, pos + 1) = <<Text[pos + 1]>>
    <2> DEFINE p == pos + 1
    <2>1. p \in Int /\ Text[p] \in Lexemes
      BY <1>1, TextIs
    <2> HIDE DEF p
    <2>2. /\ SubSeq(Text, p, p) \in Seq(Lexemes) /\ Len(SubSeq(Text, p, p)) = 1
          /\ SubSeq(Text, p, p)[1] = Text[p]
      <3>1. \A k \in p .. p : Text[k] \in Lexemes
        BY <2>1
      <3>2. /\ SubSeq(Text, p, p) \in Seq(Lexemes)
            /\ Len(SubSeq(Text, p, p)) = IF p <= p THEN p - p + 1 ELSE 0
            /\ \A i \in 1 .. p - p + 1 : SubSeq(Text, p, p)[i] = Text[p + i - 1]
        BY <2>1, <3>1, SubSeqProperties
      <3> QED
        BY <2>1, <3>2
    <2>3. /\ <<Text[p]>> \in Seq(Lexemes) /\ Len(<<Text[p]>>) = 1
          /\ <<Text[p]>>[1] = Text[p]
      BY <2>1
    <2>4. \A i \in 1 .. 1 : i = 1
      OBVIOUS
    <2>5. SubSeq(Text, p, p) = <<Text[p]>>
      BY <2>2, <2>3, <2>4, SeqEqual
    <2> QED
      BY <2>5 DEF p
  <1>7. ReadsAt(b + 1, pos + 1, <<>>, FALSE)
    BY <1>1, <1>2, <1>5, ReadsBetween
  <1>8. <<Text[pos + 1]>> # <<"stream">>
    BY <1>2
  <1> QED
    <2>1. Tokens[b + 1].units = <<Text[pos + 1]>>
      BY <1>5, <1>6
    <2> QED
      BY <1>5, <1>7, <1>8, <2>1 DEF Delivers

(* All else makes the token longer.                                        *)
LEMMA Continued ==
    ASSUME TextTyped, NEW b, NEW pos \in 0 .. Len(Text), NEW part \in Seq(Lexemes), NEW begun \in Nat,
           Len(part) <= pos, pos - Len(part) = begun, part = SubSeq(Text, begun + 1, pos),
           Remains(begun + 1, b), begun < Len(Text) => ~IsJoined(begun + 1),
           Text[begun + 1] \notin Marks \cup {White}, \A k \in begun + 2 .. pos : IsJoined(k)
    PROVE  ReadsAt(b, pos, part, FALSE)
  BY DEF ReadsAt

LEMMA ReadsOn ==
    ASSUME TextTyped, NEW b, NEW pos, NEW part, NEW back, ReadsAt(b, pos, part, back),
           pos < Len(Text), Text[pos + 1] # White, Text[pos + 1] \notin Marks,
           Text[pos + 1] \in Breakers => part = <<>>
    PROVE  ReadsAt(b, pos + 1, Append(part, Text[pos + 1]), FALSE)
  <1> DEFINE begun == pos - Len(part)  byte == Text[pos + 1]  more == Append(part, byte)
  <1>1. /\ pos \in 0 .. Len(Text) /\ part \in Seq(Lexemes) /\ Len(part) <= pos
        /\ part = SubSeq(Text, begun + 1, pos) /\ Remains(begun + 1, b)
        /\ begun < Len(Text) => ~IsJoined(begun + 1)
        /\ part # <<>> => Text[begun + 1] \notin Marks \cup {White}
        /\ \A k \in begun + 2 .. pos : IsJoined(k)
    BY DEF ReadsAt
  <1>2. /\ Len(part) \in Nat /\ Len(Text) \in Nat /\ byte \in Lexemes
        /\ part = <<>> <=> Len(part) = 0
    <2>1. pos + 1 \in 1 .. Len(Text)
      BY <1>1, TextIs
    <2> QED
      BY <1>1, <2>1, TextIs, EmptySeq
  <1>3. /\ begun \in Nat /\ begun + 1 \in 1 .. Len(Text) /\ pos \in begun + 1 - 1 .. Len(Text) - 1
        /\ pos + 1 \in 0 .. Len(Text)
    BY <1>1, <1>2
  <1>4. /\ more \in Seq(Lexemes) /\ Len(more) = Len(part) + 1 /\ more # <<>>
        /\ pos + 1 - Len(more) = begun /\ Len(more) <= pos + 1
    <2>1. more \in Seq(Lexemes) /\ Len(more) = Len(part) + 1 /\ more # <<>>
      <3> HIDE DEF byte, begun
      <3> QED
        BY <1>1, <1>2, AppendProperties
    <2> QED
      BY <1>1, <1>2, <2>1
  <1>5. more = SubSeq(Text, begun + 1, pos + 1)
    <2> DEFINE i == begun + 1
    <2>1. i \in 1 .. Len(Text) /\ pos \in i - 1 .. Len(Text) - 1 /\ part = SubSeq(Text, i, pos)
      BY <1>1, <1>3
    <2> HIDE DEF begun, i
    <2>2. Append(SubSeq(Text, i, pos), byte) = SubSeq(Text, i, pos + 1)
      BY <2>1, PartGrows
    <2> QED
      BY <2>1, <2>2 DEF i
  <1>6. CASE part = <<>>
    <2>1. begun = pos
      BY <1>1, <1>2, <1>6
    <2>2. Text[begun + 1] \notin Marks \cup {White} /\ \A k \in begun + 2 .. pos + 1 : IsJoined(k)
      BY <1>1, <2>1
    <2>3. begun < Len(Text) => ~IsJoined(begun + 1)
      BY <1>1
    <2> DEFINE next == pos + 1
    <2> HIDE DEF begun, more
    <2>6. /\ next \in 0 .. Len(Text) /\ more \in Seq(Lexemes) /\ begun \in Nat
          /\ Len(more) <= next /\ next - Len(more) = begun /\ more = SubSeq(Text, begun + 1, next)
          /\ Remains(begun + 1, b) /\ (begun < Len(Text) => ~IsJoined(begun + 1))
          /\ Text[begun + 1] \notin Marks \cup {White} /\ \A k \in begun + 2 .. next : IsJoined(k)
      BY <1>1, <1>3, <1>4, <1>5, <2>2, <2>3
    <2> HIDE DEF next
    <2>7. ReadsAt(b, next, more, FALSE)
      BY <2>6, Continued
    <2> QED
      BY <2>7 DEF more, next
  <1>7. CASE part # <<>>
    <2>1. begun + 1 <= pos /\ pos >= 1
      BY <1>1, <1>2, <1>7
    <2>2. Text[pos] \notin Marks \cup {White}
      <3>1. CASE pos = begun + 1
        BY <1>1, <1>7, <3>1
      <3>2. CASE pos # begun + 1
        <4>1. pos \in begun + 2 .. pos
          BY <1>1, <1>2, <2>1, <3>2
        <4>2. IsJoined(pos)
          BY <1>1, <4>1, Zenon
        <4> QED
          BY <4>2 DEF IsJoined, Breakers
      <3> QED
        BY <3>1, <3>2
    <2>3. IsJoined(pos + 1)
      <3>1. pos \in Nat /\ pos >= 1
        BY <1>1, <2>1
      <3>2. Text[pos + 1] \notin Breakers \cup {White}
        BY <1>7
      <3> QED
        BY <2>2, <3>1, <3>2, JoinedIs
    <2>4. \A k \in begun + 2 .. pos + 1 : IsJoined(k)
      BY <1>1, <1>2, <2>3
    <2>5. (begun < Len(Text) => ~IsJoined(begun + 1)) /\ Text[begun + 1] \notin Marks \cup {White}
      BY <1>1, <1>7
    <2> DEFINE next == pos + 1
    <2> HIDE DEF begun, more
    <2>6. /\ next \in 0 .. Len(Text) /\ more \in Seq(Lexemes) /\ begun \in Nat
          /\ Len(more) <= next /\ next - Len(more) = begun /\ more = SubSeq(Text, begun + 1, next)
          /\ Remains(begun + 1, b) /\ (begun < Len(Text) => ~IsJoined(begun + 1))
          /\ Text[begun + 1] \notin Marks \cup {White} /\ \A k \in begun + 2 .. next : IsJoined(k)
      BY <1>1, <1>3, <1>4, <1>5, <2>4, <2>5
    <2> HIDE DEF next
    <2>7. ReadsAt(b, next, more, FALSE)
      BY <2>6, Continued
    <2> QED
      BY <2>7 DEF more, next
  <1> QED
    BY <1>6, <1>7

(* At the end of the text.                                                 *)
LEMMA ReadsEnd ==
    ASSUME TextTyped, StreamsEnd, NEW b, NEW part, NEW back, ReadsAt(b, Len(Text), part, back)
    PROVE  /\ ~back
           /\ IF part = <<>> THEN b = Len(Tokens) ELSE Delivers(b + 1, Len(Text), FALSE, part)
  <1>1. Len(Text) \in Nat /\ Len(Text) \in 0 .. Len(Text)
    BY TextIs
  <1>2. ~back
    BY <1>1 DEF ReadsAt
  <1>3. CASE part = <<>>
    <2>1. Len(<<>>) = 0 /\ Len(Text) - 0 + 1 = Len(Text) + 1
      BY <1>1
    <2>2. Remains(Len(Text) + 1, b)
      BY <1>3, <2>1 DEF ReadsAt
    <2> QED
      BY <1>2, <1>3, <2>2, RemainsAtEnd
  <1>4. CASE part # <<>>
    <2>1. /\ b + 1 \in 1 .. Len(Tokens) /\ Remains(Len(Text) + 1, b + 1) /\ part = Tokens[b + 1].units
          /\ part # <<"stream">>
      BY <1>1, <1>4, PartIsToken
    <2>2. ReadsAt(b + 1, Len(Text), <<>>, FALSE)
      <3> DEFINE n == Len(Text)
      <3>1. n \in 0 .. Len(Text) /\ Remains(n + 1, b + 1) /\ ~(n < Len(Text))
        BY <1>1, <2>1
      <3> HIDE DEF n
      <3>2. ReadsAt(b + 1, n, <<>>, FALSE)
        BY <3>1, ReadsBetween
      <3> QED
        BY <3>2 DEF n
    <2> QED
      BY <1>2, <1>4, <2>1, <2>2 DEF Delivers
  <1> QED
    BY <1>3, <1>4
-----------------------------------------------------------------------------
(***************************************************************************)
(* GetNextToken: the stream stands where the tokenizer is in the text, and *)
(* the tokens that wait are those after the ones that were used.           *)
(***************************************************************************)
Opened == IInv /\ content \in Contents /\ Len(content) = size /\ from \in Nat

Reading(b, pos) ==
    /\ ReadsAt(b, pos, partial, pushed) /\ pushed \in BOOLEAN
    /\ GetCurrentPosition = from + pos + (IF pushed THEN 1 ELSE 0)

Unit(i) == Tokens[i].units

Ahead(i, n) == IF n = 0 THEN <<>> ELSE IF n = 1 THEN <<Unit(i)>> ELSE <<Unit(i), Unit(i + 1)>>

AtStream(b, pos) == Unit(b) = <<"stream">> => pos = Tokens[b].start + 1 /\ ~pushed

(* Nothing is taken, or the end, or the token that is here; n more wait.   *)
Queued(b, pos, here, n) ==
    /\ n \in 0 .. 2 /\ here \in 1 .. Len(Tokens) + 1
    /\ \/ token = NoToken /\ tokenBuffer = Ahead(here, n) /\ b = here - 1 + n
       \/ token = End /\ tokenBuffer = <<>> /\ n = 0 /\ b = Len(Tokens) /\ here = Len(Tokens) + 1
       \/ /\ here <= Len(Tokens) /\ token = Unit(here) /\ n <= 1
          /\ tokenBuffer = Ahead(here + 1, n) /\ b = here + n
    /\ n > 0 \/ token \notin {NoToken, End} => AtStream(b, pos)

Looks(here, n) == \E b, pos : Reading(b, pos) /\ Queued(b, pos, here, n)

LEMMA OpenedText ==
    ASSUME Opened
    PROVE  /\ TextTyped /\ StreamsEnd /\ size \in Nat /\ GetCurrentPosition \in Nat
           /\ Len(Text) = IF from <= size THEN size - from ELSE 0
           /\ \A k \in 1 .. Len(Text) : content[from + k] = Text[k]
  <1>1. /\ content \in Seq(Lexemes) /\ from \in Nat /\ Len(content) = size
        /\ \A i \in DOMAIN content : content[i] = "stream" => i < Len(content) /\ content[i + 1] = White
    BY ContentsAssumption DEF Opened
  <1>2. TextTyped
    BY <1>1 DEF TextTyped
  <1>3. /\ Len(Text) = IF from <= size THEN size - from ELSE 0
        /\ \A k \in 1 .. Len(Text) : Text[k] = content[from + k]
    BY <1>1, <1>2, TextIs
  <1>4. size \in Nat /\ GetCurrentPosition \in Nat
    BY Typing, Buffered DEF Opened, IInv
  <1>5. StreamsEnd
    <2> SUFFICES ASSUME NEW k \in 1 .. Len(Text), Text[k] = "stream"
                 PROVE  k < Len(Text) /\ Text[k + 1] = White
      BY DEF StreamsEnd
    <2>1. from + k \in 1 .. Len(content) /\ content[from + k] = "stream"
      BY <1>1, <1>3, <1>4
    <2>2. from + k < Len(content) /\ content[from + k + 1] = White
      <3> DEFINE i == from + k
      <3>1. i \in DOMAIN content /\ content[i] = "stream"
        BY <1>1, <2>1
      <3> HIDE DEF i
      <3>2. i < Len(content) /\ content[i + 1] = White
        BY <1>1, <3>1
      <3> QED
        BY <3>2 DEF i
    <2>3. k < Len(Text) /\ k + 1 \in 1 .. Len(Text) /\ from + (k + 1) = from + k + 1
      BY <1>1, <1>3, <1>4, <2>2
    <2>4. Text[k + 1] = content[from + (k + 1)]
      BY <1>3, <2>3
    <2> QED
      BY <2>2, <2>3, <2>4
  <1> QED
    BY <1>2, <1>3, <1>4, <1>5

LEMMA TextStays ==
    ASSUME content' = content, from' = from
    PROVE  Text' = Text /\ TokensFrom' = TokensFrom /\ Tokens' = Tokens
  <1>1. Text' = Text
    BY DEF Text
  <1>2. TokensFrom' = TokensFrom
    BY <1>1 DEF TokensFrom, IsJoined, TokenAt
  <1> QED
    BY <1>1, <1>2 DEF Tokens

LEMMA ReadsAtStays ==
    ASSUME content' = content, from' = from, NEW b, NEW pos, ReadsAt(b, pos, partial', pushed')
    PROVE  ReadsAt(b, pos, partial, pushed)'
  BY TextStays DEF ReadsAt, Remains, IsJoined

LEMMA ReadingAfter ==
    ASSUME content' = content, from' = from, NEW b, NEW pos, NEW part, NEW back \in BOOLEAN,
           ReadsAt(b, pos, part, back), partial' = part, pushed' = back,
           GetCurrentPosition' = from + pos + (IF back THEN 1 ELSE 0)
    PROVE  Reading(b, pos)'
  <1>1. ReadsAt(b, pos, partial', pushed')
    OBVIOUS
  <1>2. ReadsAt(b, pos, partial, pushed)'
    BY <1>1, ReadsAtStays
  <1> QED
    BY <1>2 DEF Reading

LEMMA UnitIs ==
    ASSUME TextTyped, NEW i \in 1 .. Len(Tokens)
    PROVE  /\ Unit(i) \in Units /\ Unit(i) # NoToken /\ Unit(i) # End
           /\ Tokens[i].start \in Nat
  <1>1. Tokens[i] \in TextTokens
    BY TokensTyped
  <1>2. Unit(i) \in Units /\ Tokens[i].start \in Nat
    BY <1>1 DEF TextTokens, Unit
  <1>3. Unit(i) \in Seq(Lexemes) /\ Unit(i) # <<>>
    BY <1>2 DEF Units
  <1>4. ASSUME Unit(i) = End
        PROVE  FALSE
    <2>1. 1 \in DOMAIN End /\ End[1] = "end"
      BY DEF End
    <2>2. Unit(i)[1] = "end" /\ 1 \in 1 .. Len(Unit(i))
      BY <1>3, <1>4, <2>1 DEF End
    <2>3. "end" \in Lexemes
      BY <1>3, <2>2, ElementOfSeq
    <2> QED
      BY <2>3 DEF Lexemes, Digits, Breakers, Marks, White
  <1> QED
    BY <1>2, <1>3, <1>4 DEF NoToken

(* What a byte makes of the tokenizer: it goes on, or a token is ready.    *)
Took(b) ==
    \/ token' = NoToken /\ \E pos : Reading(b, pos)'
    \/ \E pos : Reading(b + 1, pos)' /\ Delivers(b + 1, pos, pushed', token')

LEMMA TakesByte ==
    ASSUME TextTyped, StreamsEnd, content' = content, from' = from, token = NoToken,
           NEW b, NEW pos, ReadsAt(b, pos, partial, pushed), pos < Len(Text),
           GetCurrentPosition' = from + pos + 1, TakeByte(Text[pos + 1])
    PROVE  Took(b)
  <1> DEFINE byte == Text[pos + 1]  next == pos + 1
  <1>1. pos \in Nat /\ from \in Nat /\ Len(Text) \in Nat /\ partial \in Seq(Lexemes)
    BY TextIs DEF ReadsAt, TextTyped
  <1>2. GetCurrentPosition' = from + next + 0 /\ GetCurrentPosition' = from + pos + 1
    BY <1>1
  <1>3. CASE byte = White
    <2>1. partial' = <<>> /\ token' = partial /\ pushed' = FALSE
      BY <1>3 DEF TakeByte, EndsToken
    <2>2. CASE partial = <<>>
      <3>1. ReadsAt(b, next, <<>>, FALSE)
        BY <1>3, <2>2, ReadsWhite
      <3>2. Reading(b, next)'
        <4> HIDE DEF next
        <4> QED
          BY <1>2, <2>1, <3>1, ReadingAfter
      <3> QED
        BY <2>1, <2>2, <3>2 DEF Took, NoToken
    <2>3. CASE partial # <<>>
      <3>1. Delivers(b + 1, next, FALSE, partial)
        BY <1>3, <2>3, ReadsWhite
      <3>2. Reading(b + 1, next)'
        <4> HIDE DEF next
        <4>1. ReadsAt(b + 1, next, <<>>, FALSE)
          BY <3>1 DEF Delivers
        <4> QED
          BY <1>2, <2>1, <4>1, ReadingAfter
      <3> QED
        BY <2>1, <3>1, <3>2 DEF Took
    <2> QED
      BY <2>2, <2>3
  <1>4. CASE byte # White /\ byte \in Breakers /\ partial # <<>>
    <2>1. partial' = <<>> /\ token' = partial /\ pushed' = TRUE
      BY <1>4 DEF TakeByte, EndsToken
    <2>2. Delivers(b + 1, pos, TRUE, partial)
      BY <1>4, ReadsBreaker
    <2>3. Reading(b + 1, pos)'
      <3> HIDE DEF next
      <3>1. ReadsAt(b + 1, pos, <<>>, TRUE)
        BY <2>2 DEF Delivers
      <3> QED
        BY <1>2, <2>1, <3>1, ReadingAfter
    <2> QED
      BY <2>1, <2>2, <2>3 DEF Took
  <1>5. CASE byte # White /\ byte \in Marks /\ partial = <<>>
    <2>1. pushed' = FALSE /\ token' = <<byte>> /\ partial' = <<>>
      BY <1>5 DEF TakeByte, EndsToken
    <2>2. Delivers(b + 1, next, FALSE, <<byte>>)
      BY <1>5, ReadsMark
    <2>3. Reading(b + 1, next)'
      <3> HIDE DEF next
      <3>1. ReadsAt(b + 1, next, <<>>, FALSE)
        BY <2>2 DEF Delivers
      <3> QED
        BY <1>2, <2>1, <3>1, ReadingAfter
    <2> QED
      BY <2>1, <2>2, <2>3 DEF Took
  <1>6. CASE byte # White /\ byte \notin Marks /\ (byte \in Breakers => partial = <<>>)
    <2>1. pushed' = FALSE /\ partial' = Append(partial, byte) /\ token' = NoToken
      BY <1>6 DEF TakeByte, EndsToken
    <2>2. ReadsAt(b, next, Append(partial, byte), FALSE)
      BY <1>6, ReadsOn
    <2>3. Reading(b, next)'
      <3> HIDE DEF next
      <3> QED
        BY <1>2, <2>1, <2>2, ReadingAfter
    <2> QED
      BY <2>1, <2>3 DEF Took
  <1> QED
    BY <1>3, <1>4, <1>5, <1>6 DEF Breakers

LEMMA TakesEnd ==
    ASSUME TextTyped, StreamsEnd, content' = content, from' = from, token = NoToken,
           NEW b, NEW pos, ReadsAt(b, pos, partial, pushed), pos = Len(Text), ~pushed, pushed \in BOOLEAN,
           GetCurrentPosition' = from + pos, EndOfBytes
    PROVE  Took(b) \/ (token' = End /\ b = Len(Tokens) /\ Reading(b, pos)')
  <1>1. from \in Nat /\ pos \in Nat
    BY TextIs DEF TextTyped
  <1>2. GetCurrentPosition' = from + pos + 0 /\ pushed' = FALSE /\ partial' = <<>>
    BY <1>1 DEF EndOfBytes
  <1>3. CASE partial = <<>>
    <2>1. b = Len(Tokens) /\ token' = End
      BY <1>3, ReadsEnd DEF EndOfBytes
    <2>2. Reading(b, pos)'
      <3>1. ReadsAt(b, pos, <<>>, FALSE)
        BY <1>2, <1>3
      <3> QED
        BY <1>2, <3>1, ReadingAfter
    <2> QED
      BY <2>1, <2>2
  <1>4. CASE partial # <<>>
    <2>1. Delivers(b + 1, pos, FALSE, partial) /\ token' = partial
      BY <1>4, ReadsEnd DEF EndOfBytes
    <2>2. ReadsAt(b + 1, pos, <<>>, FALSE)
      BY <2>1 DEF Delivers
    <2>3. Reading(b + 1, pos)'
      BY <1>2, <2>2, ReadingAfter
    <2> QED
      BY <1>2, <2>1, <2>3 DEF Took
  <1> QED
    BY <1>3, <1>4

(* The b-th token was taken; the next one is here.                         *)
LEMMA QueuedAfter ==
    ASSUME TextTyped, content' = content, from' = from, tokenBuffer = <<>>, UNCHANGED tokenBuffer,
           NEW here \in 1 .. Len(Tokens) + 1, NEW b, b = here - 1,
           \/ Took(b)
           \/ token' = End /\ b = Len(Tokens) /\ \E pos : Reading(b, pos)'
    PROVE  Looks(here, 0)'
  <1>1. /\ Tokens' = Tokens /\ Len(Tokens) \in Nat /\ 0 \in 0 .. 2
        /\ b = here - 1 + 0 /\ tokenBuffer' = <<>> /\ b + 1 = here + 0
    BY TextStays, TokensTyped
  <1>2. CASE token' = NoToken /\ \E pos : Reading(b, pos)'
    <2>1. PICK pos : Reading(b, pos)'
      BY <1>2
    <2>2. Queued(b, pos, here, 0)'
      BY <1>1, <1>2 DEF Queued, Ahead
    <2> QED
      BY <2>1, <2>2 DEF Looks
  <1>3. CASE \E pos : Reading(b + 1, pos)' /\ Delivers(b + 1, pos, pushed', token')
    <2>1. PICK pos : Reading(b + 1, pos)' /\ Delivers(b + 1, pos, pushed', token')
      BY <1>3
    <2>2. /\ b + 1 \in 1 .. Len(Tokens) /\ token' = Tokens[b + 1].units
          /\ token' = <<"stream">> => pos = Tokens[b + 1].start + 1 /\ ~pushed'
      BY <2>1 DEF Delivers
    <2>3. here \in 1 .. Len(Tokens) /\ b + 1 = here /\ here <= Len(Tokens)
      BY <1>1, <2>2
    <2>4. token' = Unit(here)' /\ AtStream(here, pos)'
      BY <1>1, <2>2, <2>3 DEF Unit, AtStream
    <2>5. Queued(here, pos, here, 0)'
      <3>1. here = here + 0
        BY <1>1, <2>3
      <3> QED
        BY <1>1, <2>3, <2>4, <3>1 DEF Queued, Ahead
    <2> QED
      BY <2>1, <2>3, <2>5 DEF Looks
  <1>4. CASE token' = End /\ b = Len(Tokens) /\ \E pos : Reading(b, pos)'
    <2>1. PICK pos : Reading(b, pos)'
      BY <1>4
    <2>2. here = Len(Tokens) + 1
      BY <1>1, <1>4
    <2>3. Queued(b, pos, here, 0)'
      BY <1>1, <1>4, <2>2 DEF Queued
    <2> QED
      BY <2>1, <2>3 DEF Looks
  <1> QED
    BY <1>2, <1>3, <1>4 DEF Took

(* A read of one byte delivers it, or nothing at the end.                  *)
LEMMA ReadOne ==
    ASSUME Opened, Read(1)
    PROVE  /\ IInv' /\ size' = size
           /\ \/ /\ GetCurrentPosition < size /\ GetCurrentPosition' = GetCurrentPosition + 1
                 /\ last'.data # <<>> /\ Head(last'.data) = GetCurrentPosition
              \/ /\ GetCurrentPosition >= size /\ GetCurrentPosition' = GetCurrentPosition
                 /\ last'.data = <<>>
  <1> DEFINE pos == GetCurrentPosition  count == Available(pos, 1)
  <1>1. IInv' /\ size' = size /\ Promise!Read(1)
    BY TokenizerReadsBytes, ReadStep DEF Opened
  <1>2. pos \in Nat /\ size \in Nat
    BY OpenedText
  <1>3. pos' = pos + count /\ last' = [call |-> "Read", arg |-> 1, data |-> Run(pos, count)]
    BY <1>1 DEF Promise!Read, Promise!Done, Promise!Run, Promise!Available, Run, Available
  <1>4. count = IF pos < size THEN 1 ELSE 0
    BY <1>2 DEF Available
  <1> HIDE DEF pos, count
  <1>5. last'.data = Run(pos, count)
    BY <1>3
  <1>6. CASE pos < size
    <2>1. /\ Run(pos, 1) \in Seq(Nat) /\ Len(Run(pos, 1)) = 1
          /\ \A i \in 1 .. 1 : Run(pos, 1)[i] = pos + i - 1
      BY <1>2, RunIsSeq
    <2>2. Run(pos, 1) # <<>> /\ Head(Run(pos, 1)) = pos
      BY <1>2, <2>1
    <2> QED
      BY <1>1, <1>3, <1>4, <1>5, <1>6, <2>2 DEF pos
  <1>7. CASE ~(pos < size)
    <2>1. /\ Run(pos, 0) \in Seq(Nat) /\ Len(Run(pos, 0)) = 0
      BY <1>2, RunIsSeq
    <2>2. Run(pos, 0) = <<>>
      BY <2>1, EmptySeq
    <2>3. pos + 0 = pos /\ pos >= size
      BY <1>2, <1>7
    <2> QED
      BY <1>1, <1>3, <1>4, <1>5, <1>7, <2>2, <2>3 DEF pos
  <1> QED
    BY <1>6, <1>7

LEMMA NothingAhead ==
    ASSUME NEW i, NEW n \in 0 .. 2
    PROVE  /\ Ahead(i, n) = <<>> <=> n = 0
           /\ Len(Ahead(i, n)) = n
           /\ n # 0 => Head(Ahead(i, n)) = Unit(i) /\ Tail(Ahead(i, n)) = Ahead(i + 1, n - 1)
  <1>1. CASE n = 0
    BY <1>1 DEF Ahead
  <1>2. CASE n = 1
    <2>1. n - 1 = 0
      BY <1>2
    <2> QED
      BY <1>2, <2>1 DEF Ahead
  <1>3. CASE n = 2
    <2>1. n - 1 = 1
      BY <1>3
    <2> QED
      BY <1>3, <2>1 DEF Ahead
  <1> QED
    BY <1>1, <1>2, <1>3

(* A byte more is read, or the end is met.                                 *)
LEMMA TokenizerStep ==
    ASSUME Opened, NEW here, NEW n, Looks(here, n), TakePushedByte \/ ReadByte \/ MeetEnd
    PROVE  Opened' /\ Looks(here, 0)' /\ n = 0 /\ token = NoToken /\ tokenBuffer' = <<>>
  <1>1. PICK b, pos : Reading(b, pos) /\ Queued(b, pos, here, n)
    BY DEF Looks
  <1>2. /\ token = NoToken /\ tokenBuffer = <<>> /\ content' = content /\ from' = from
        /\ UNCHANGED tokenBuffer
    BY DEF TakePushedByte, ReadByte, MeetEnd, Tokenizes, AwaitsToken, parserVars, callerVars
  <1>3. /\ TextTyped /\ StreamsEnd /\ size \in Nat /\ GetCurrentPosition \in Nat /\ from \in Nat
        /\ Len(Text) = IF from <= size THEN size - from ELSE 0
        /\ \A k \in 1 .. Len(Text) : content[from + k] = Text[k]
    BY OpenedText DEF Opened
  <1>4. n = 0 /\ here \in 1 .. Len(Tokens) + 1 /\ b = here - 1
    <2>1. NoToken # End /\ n \in 0 .. 2 /\ here \in 1 .. Len(Tokens) + 1 /\ Len(Tokens) \in Nat
      BY <1>1, <1>3, TokensTyped DEF Queued, NoToken, End
    <2>2. ASSUME here <= Len(Tokens)
          PROVE  token # Unit(here)
      <3>1. here \in 1 .. Len(Tokens)
        BY <2>1, <2>2
      <3> QED
        BY <1>2, <1>3, <3>1, UnitIs
    <2>3. token = NoToken /\ tokenBuffer = Ahead(here, n) /\ b = here - 1 + n
      BY <1>1, <1>2, <2>1, <2>2 DEF Queued
    <2>4. n = 0
      BY <1>2, <2>1, <2>3, NothingAhead
    <2> QED
      BY <2>1, <2>3, <2>4
  <1>5. /\ ReadsAt(b, pos, partial, pushed) /\ pushed \in BOOLEAN /\ pos \in 0 .. Len(Text)
        /\ GetCurrentPosition = from + pos + (IF pushed THEN 1 ELSE 0)
        /\ pushed => pos < Len(Text)
    BY <1>1 DEF Reading, ReadsAt
  <1>6. CASE TakePushedByte
    <2>1. pushed /\ TakeByte(content[GetCurrentPosition]) /\ UNCHANGED vars
      BY <1>6 DEF TakePushedByte
    <2>2. IInv' /\ GetCurrentPosition' = GetCurrentPosition /\ size' = size
      BY <2>1, StutterStep DEF Opened
    <2>3. GetCurrentPosition = from + (pos + 1) /\ pos + 1 \in 1 .. Len(Text) /\ GetCurrentPosition = from + pos + 1
      BY <1>3, <1>5, <2>1
    <2>4. TakeByte(Text[pos + 1])
      BY <1>3, <2>1, <2>3
    <2>5. Took(b)
      BY <1>2, <1>3, <1>5, <2>1, <2>2, <2>3, <2>4, TakesByte
    <2> QED
      BY <1>2, <1>3, <1>4, <2>2, <2>5, QueuedAfter DEF Opened
  <1>7. CASE ReadByte
    <2>1. /\ ~pushed /\ Read(1)
          /\ IF last'.data = <<>> THEN EndOfBytes ELSE TakeByte(content[Head(last'.data) + 1])
      BY <1>7 DEF ReadByte
    <2>2. IInv' /\ size' = size
      BY <2>1, ReadOne
    <2>3. GetCurrentPosition = from + pos
      BY <1>3, <1>5, <2>1
    <2>4. CASE GetCurrentPosition < size
      <3>1. /\ GetCurrentPosition' = from + pos + 1
            /\ last'.data # <<>> /\ Head(last'.data) = from + pos
        BY <1>3, <2>1, <2>3, <2>4, ReadOne
      <3>2. pos < Len(Text) /\ pos + 1 \in 1 .. Len(Text) /\ from + pos + 1 = from + (pos + 1)
        BY <1>3, <1>5, <2>3, <2>4
      <3>3. TakeByte(Text[pos + 1])
        BY <1>3, <2>1, <3>1, <3>2
      <3>4. Took(b)
        BY <1>2, <1>3, <1>5, <3>1, <3>2, <3>3, TakesByte
      <3> QED
        BY <1>2, <1>3, <1>4, <2>2, <3>4, QueuedAfter DEF Opened
    <2>5. CASE ~(GetCurrentPosition < size)
      <3>1. GetCurrentPosition' = from + pos /\ last'.data = <<>>
        BY <1>3, <2>1, <2>3, <2>5, ReadOne
      <3>2. pos = Len(Text)
        BY <1>3, <1>5, <2>3, <2>5
      <3>3. Took(b) \/ (token' = End /\ b = Len(Tokens) /\ Reading(b, pos)')
        BY <1>2, <1>3, <1>5, <2>1, <3>1, <3>2, TakesEnd
      <3> QED
        BY <1>2, <1>3, <1>4, <2>2, <3>3, QueuedAfter DEF Opened
    <2> QED
      BY <2>4, <2>5
  <1>8. CASE MeetEnd
    <2>1. ~pushed /\ ~NotEnded /\ EndOfBytes /\ UNCHANGED vars
      BY <1>8 DEF MeetEnd
    <2>2. IInv' /\ GetCurrentPosition' = GetCurrentPosition /\ size' = size
      BY <2>1, StutterStep DEF Opened
    <2>3. GetCurrentPosition = from + pos /\ GetCurrentPosition >= size
      <3>1. EndIsReal
        BY Typing DEF Opened, IInv, EndIsAtEnd, EndIsReal, NotEnded, GetCurrentPosition
      <3> QED
        BY <1>3, <1>5, <2>1, <3>1 DEF EndIsReal
    <2>4. pos = Len(Text)
      BY <1>3, <1>5, <2>3
    <2>5. Took(b) \/ (token' = End /\ b = Len(Tokens) /\ Reading(b, pos)')
      BY <1>2, <1>3, <1>5, <2>1, <2>2, <2>3, <2>4, TakesEnd
    <2> QED
      BY <1>2, <1>3, <1>4, <2>2, <2>5, QueuedAfter DEF Opened
  <1> QED
    BY <1>6, <1>7, <1>8

LEMMA OpenedStays ==
    ASSUME Opened, UNCHANGED <<vars, content, from>>
    PROVE  Opened' /\ TextTyped
  <1>1. IInv' /\ size' = size
    BY StutterStep DEF Opened, vars
  <1> QED
    BY <1>1, OpenedText DEF Opened

(* A token was taken, and which one it is.                                 *)
LEMMA Seen ==
    ASSUME Opened, NEW here, NEW n, Looks(here, n), token # NoToken
    PROVE  /\ here \in Nat \ {0} /\ Len(Tokens) \in Nat
           /\ \/ token = End /\ n = 0 /\ here = Len(Tokens) + 1 /\ tokenBuffer = <<>>
              \/ /\ token # End /\ here \in 1 .. Len(Tokens) /\ token = Unit(here)
                 /\ n \in 0 .. 1 /\ tokenBuffer = Ahead(here + 1, n)
           /\ here \in 1 .. Len(Tokens) + 1
  <1>1. TextTyped /\ Len(Tokens) \in Nat
    BY OpenedText, TokensTyped
  <1>2. PICK b, pos : Queued(b, pos, here, n)
    BY DEF Looks
  <1>3. n \in 0 .. 2 /\ here \in 1 .. Len(Tokens) + 1
    BY <1>2 DEF Queued
  <1>4. CASE token = End /\ tokenBuffer = <<>> /\ n = 0 /\ here = Len(Tokens) + 1
    BY <1>1, <1>3, <1>4
  <1>5. CASE here <= Len(Tokens) /\ token = Unit(here) /\ n <= 1 /\ tokenBuffer = Ahead(here + 1, n)
    <2>1. here \in 1 .. Len(Tokens) /\ n \in 0 .. 1
      BY <1>1, <1>3, <1>5
    <2>2. token # End
      BY <1>1, <1>5, <2>1, UnitIs
    <2> QED
      BY <1>1, <1>3, <1>5, <2>1, <2>2
  <1> QED
    BY <1>2, <1>4, <1>5 DEF Queued

(* The next token waits already.                                           *)
LEMMA BufferStep ==
    ASSUME Opened, NEW here, NEW n, Looks(here, n), GetNextTokenFromBuffer
    PROVE  /\ Opened' /\ Looks(here, n - 1)' /\ n \in 1 .. 2
           /\ token = NoToken /\ token' \notin {NoToken, End} /\ tokenBuffer # <<>>
  <1>1. PICK b, pos : Reading(b, pos) /\ Queued(b, pos, here, n)
    BY DEF Looks
  <1>2. /\ token = NoToken /\ tokenBuffer # <<>> /\ token' = Head(tokenBuffer)
        /\ tokenBuffer' = Tail(tokenBuffer) /\ UNCHANGED <<vars, content, from, pushed, partial>>
    BY DEF GetNextTokenFromBuffer, AwaitsToken, callerVars
  <1>3. TextTyped /\ Len(Tokens) \in Nat /\ Opened' /\ Tokens' = Tokens
    BY <1>2, OpenedStays, TokensTyped, TextStays
  <1>4. /\ n \in 0 .. 2 /\ here \in 1 .. Len(Tokens) + 1
        /\ tokenBuffer = Ahead(here, n) /\ b = here - 1 + n
        /\ n > 0 => AtStream(b, pos)
    <2>1. n \in 0 .. 2 /\ here \in 1 .. Len(Tokens) + 1 /\ NoToken # End
      BY <1>1 DEF Queued, NoToken, End
    <2>2. ASSUME here <= Len(Tokens) PROVE token # Unit(here)
      <3>1. here \in 1 .. Len(Tokens)
        BY <1>3, <2>1, <2>2
      <3> QED
        BY <1>2, <1>3, <3>1, UnitIs
    <2> QED
      BY <1>1, <1>2, <2>1, <2>2 DEF Queued
  <1>5. n \in 1 .. 2 /\ token' = Unit(here) /\ tokenBuffer' = Ahead(here + 1, n - 1)
    <2>1. n # 0
      BY <1>2, <1>4, NothingAhead
    <2>2. n \in 1 .. 2
      BY <1>4, <2>1
    <2>3. Head(Ahead(here, n)) = Unit(here) /\ Tail(Ahead(here, n)) = Ahead(here + 1, n - 1)
      BY <1>4, <2>1, NothingAhead
    <2> QED
      BY <1>2, <1>4, <2>2, <2>3
  <1>6. Reading(b, pos)'
    <2>1. GetCurrentPosition' = GetCurrentPosition
      BY <1>2 DEF vars, GetCurrentPosition
    <2> QED
      BY <1>1, <1>2, <2>1, ReadingAfter DEF Reading
  <1>7. b \in 0 .. Len(Tokens)
    BY <1>1 DEF Reading, ReadsAt, Remains
  <1>8. /\ here \in 1 .. Len(Tokens) /\ here <= Len(Tokens)
        /\ n - 1 <= 1 /\ n - 1 \in 0 .. 2 /\ b = here + (n - 1) /\ n > 0
    BY <1>3, <1>4, <1>5, <1>7
  <1>9. token' \notin {NoToken, End}
    BY <1>3, <1>5, <1>8, UnitIs
  <1>10. Queued(b, pos, here, n - 1)'
    <2>1. AtStream(b, pos)'
      BY <1>2, <1>3, <1>4, <1>8 DEF AtStream, Unit
    <2>2. token' = Unit(here)' /\ tokenBuffer' = Ahead(here + 1, n - 1)'
      BY <1>3, <1>5 DEF Unit, Ahead
    <2> QED
      BY <1>3, <1>4, <1>8, <2>1, <2>2 DEF Queued
  <1> QED
    BY <1>2, <1>3, <1>5, <1>6, <1>9, <1>10 DEF Looks

LEMMA Joined ==
    ASSUME NEW a, NEW b
    PROVE  /\ <<a>> \o <<>> = <<a>> /\ <<>> \o <<a>> = <<a>>
           /\ <<a>> \o <<b>> = <<a, b>> /\ <<>> \o <<a, b>> = <<a, b>>
  <1>1. /\ <<>> \in Seq({a, b}) /\ <<a>> \in Seq({a, b}) /\ <<b>> \in Seq({a, b}) /\ <<a, b>> \in Seq({a, b})
        /\ Len(<<>>) = 0 /\ Len(<<a>>) = 1 /\ Len(<<b>>) = 1 /\ Len(<<a, b>>) = 2
    OBVIOUS
  <1>2. <<a>> \o <<>> = <<a>> /\ <<>> \o <<a>> = <<a>> /\ <<>> \o <<a, b>> = <<a, b>>
    BY <1>1, ConcatEmptySeq
  <1>3. /\ <<a>> \o <<b>> \in Seq({a, b}) /\ Len(<<a>> \o <<b>>) = 2
        /\ \A i \in 1 .. 2 : (<<a>> \o <<b>>)[i] = IF i <= 1 THEN <<a>>[i] ELSE <<b>>[i - 1]
    <2>1. /\ <<a>> \o <<b>> \in Seq({a, b}) /\ Len(<<a>> \o <<b>>) = Len(<<a>>) + Len(<<b>>)
          /\ \A i \in 1 .. Len(<<a>>) + Len(<<b>>) :
                (<<a>> \o <<b>>)[i] = IF i <= Len(<<a>>) THEN <<a>>[i] ELSE <<b>>[i - Len(<<a>>)]
      BY <1>1, ConcatProperties, Zenon
    <2> QED
      BY <1>1, <2>1
  <1>4. \A i \in 1 .. 2 : (<<a>> \o <<b>>)[i] = <<a, b>>[i]
    <2>1. (<<a>> \o <<b>>)[1] = a /\ (<<a>> \o <<b>>)[2] = b
      BY <1>3
    <2>2. \A i \in 1 .. 2 : i = 1 \/ i = 2
      OBVIOUS
    <2> QED
      BY <2>1, <2>2
  <1>5. <<a>> \o <<b>> = <<a, b>>
    BY <1>1, <1>3, <1>4, SeqEqual
  <1> QED
    BY <1>2, <1>5

(* The parser uses a token, or puts tokens back.                           *)
UsesToken == token # NoToken /\ token' = NoToken /\ UNCHANGED <<vars, content, from, pushed, partial>>

LEMMA LooksAgain ==
    ASSUME Opened, UsesToken, NEW b, NEW pos, Reading(b, pos),
           NEW here \in 1 .. Len(Tokens) + 1, NEW n \in 0 .. 2, b = here - 1 + n,
           tokenBuffer' = Ahead(here, n), n > 0 => AtStream(b, pos)
    PROVE  Opened' /\ Looks(here, n)'
  <1>1. TextTyped /\ Len(Tokens) \in Nat /\ Opened' /\ Tokens' = Tokens
    BY OpenedStays, TokensTyped, TextStays DEF UsesToken
  <1>2. Reading(b, pos)'
    <2>1. GetCurrentPosition' = GetCurrentPosition
      BY DEF vars, GetCurrentPosition, UsesToken
    <2> QED
      BY <2>1, ReadingAfter DEF Reading, UsesToken
  <1>3. Ahead(here, n)' = Ahead(here, n) /\ (AtStream(b, pos) => AtStream(b, pos)')
    BY <1>1 DEF Ahead, Unit, AtStream, UsesToken
  <1>4. Queued(b, pos, here, n)'
    BY <1>1, <1>3 DEF Queued, UsesToken
  <1> QED
    BY <1>1, <1>2, <1>4 DEF Looks

(* The ways of using a token.                                              *)
LEMMA TokenUsed ==
    ASSUME Opened, UsesToken, NEW here, NEW n, Looks(here, n)
    PROVE  /\ Opened'
           /\ token # End /\ tokenBuffer' = tokenBuffer => Looks(here + 1, n)'
           /\ token # End /\ ReturnToken => Looks(here, n + 1)'
           /\ n = 0 /\ token # End /\ SaveTokens(<<token>>) => Looks(here, 1)'
           /\ token = End /\ (tokenBuffer' = tokenBuffer \/ SaveTokens(<<>>)) => Looks(here, 0)'
           /\ \A second : n = 0 /\ token # End /\ here > 1 /\ second = Unit(here - 1)
                            /\ SaveTokens(<<second, token>>) => Looks(here - 1, 2)'
  <1>1. PICK b, pos : Reading(b, pos) /\ Queued(b, pos, here, n)
    BY DEF Looks
  <1>2. Opened'
    BY OpenedStays DEF UsesToken
  <1>3. /\ here \in Nat \ {0} /\ Len(Tokens) \in Nat /\ here \in 1 .. Len(Tokens) + 1
        /\ \/ token = End /\ n = 0 /\ here = Len(Tokens) + 1 /\ tokenBuffer = <<>>
           \/ /\ token # End /\ here \in 1 .. Len(Tokens) /\ token = Unit(here)
              /\ n \in 0 .. 1 /\ tokenBuffer = Ahead(here + 1, n)
    BY Seen DEF UsesToken
  <1>4. CASE token = End
    <2>1. b = here - 1 + 0
      <3>1. ASSUME here <= Len(Tokens) PROVE FALSE
        BY <1>3, <1>4, <3>1
      <3>2. b = Len(Tokens)
        BY <1>1, <1>3, <1>4, <3>1 DEF Queued, UsesToken
      <3> QED
        BY <1>3, <1>4, <3>2
    <2>2. SaveTokens(<<>>) => tokenBuffer' = <<>>
      BY <1>3, <1>4 DEF SaveTokens
    <2>3. (tokenBuffer' = tokenBuffer \/ SaveTokens(<<>>)) => tokenBuffer' = Ahead(here, 0)
      BY <1>3, <1>4, <2>2 DEF Ahead
    <2> QED
      BY <1>1, <1>2, <1>3, <1>4, <2>1, <2>3, LooksAgain
  <1>5. CASE token # End
    <2>1. b = here + n /\ AtStream(b, pos)
      BY <1>1, <1>3, <1>5 DEF Queued, UsesToken
    <2>2. ASSUME tokenBuffer' = tokenBuffer PROVE Looks(here + 1, n)'
      <3> DEFINE next == here + 1
      <3>1. next \in 1 .. Len(Tokens) + 1 /\ n \in 0 .. 2 /\ b = next - 1 + n /\ tokenBuffer' = Ahead(next, n)
        BY <1>3, <1>5, <2>1, <2>2
      <3> HIDE DEF next
      <3>2. Looks(next, n)'
        BY <1>1, <2>1, <3>1, LooksAgain
      <3> QED
        BY <3>2 DEF next
    <2>3. ASSUME ReturnToken PROVE Looks(here, n + 1)'
      <3> DEFINE m == n + 1
      <3>1. m \in 0 .. 2 /\ b = here - 1 + m
        BY <1>3, <1>5, <2>1
      <3>2. tokenBuffer' = Ahead(here, m)
        <4>1. CASE n = 0
          <5>1. tokenBuffer = <<>> /\ token = Unit(here)
            BY <1>3, <1>5, <4>1, NothingAhead
          <5> QED
            BY <2>3, <4>1, <5>1, Joined DEF Ahead, ReturnToken
        <4>2. CASE n = 1
          <5>1. tokenBuffer = <<Unit(here + 1)>> /\ token = Unit(here)
            BY <1>3, <1>5, <4>2 DEF Ahead
          <5>2. m = 2
            BY <4>2
          <5> QED
            BY <2>3, <5>1, <5>2, Joined DEF Ahead, ReturnToken
        <4> QED
          BY <1>3, <1>5, <4>1, <4>2
      <3> HIDE DEF m
      <3>3. Looks(here, m)'
        BY <1>1, <1>3, <2>1, <3>1, <3>2, LooksAgain
      <3> QED
        BY <3>3 DEF m
    <2>4. ASSUME n = 0, SaveTokens(<<token>>) PROVE Looks(here, 1)'
      <3>1. tokenBuffer' = Ahead(here, 1) /\ 1 \in 0 .. 2 /\ b = here - 1 + 1
        <4>1. tokenBuffer = <<>> /\ token = Unit(here)
          BY <1>3, <1>5, <2>4, NothingAhead
        <4>2. tokenBuffer' = <<token>>
          BY <2>4, <4>1, Joined DEF SaveTokens
        <4> QED
          BY <1>3, <2>1, <2>4, <4>1, <4>2 DEF Ahead
      <3> QED
        BY <1>1, <1>3, <2>1, <3>1, LooksAgain
    <2>5. ASSUME NEW second, n = 0, here > 1, second = Unit(here - 1), SaveTokens(<<second, token>>)
          PROVE  Looks(here - 1, 2)'
      <3> DEFINE back == here - 1
      <3>1. /\ back \in 1 .. Len(Tokens) + 1 /\ 2 \in 0 .. 2 /\ b = back - 1 + 2 /\ back + 1 = here
            /\ tokenBuffer = <<>> /\ tokenBuffer' = tokenBuffer \o <<Unit(back), Unit(here)>>
        BY <1>3, <1>5, <2>1, <2>5 DEF Ahead, SaveTokens
      <3> HIDE DEF back
      <3>2. tokenBuffer' = Ahead(back, 2)
        BY <3>1 DEF Ahead
      <3>3. Looks(back, 2)'
        BY <1>1, <2>1, <3>1, <3>2, LooksAgain
      <3> QED
        BY <3>3 DEF back
    <2> QED
      BY <1>2, <1>5, <2>2, <2>3, <2>4, <2>5
  <1> QED
    BY <1>4, <1>5

(* After the keyword stream the bytes of the stream begin.                 *)
LEMMA StreamStartIs ==
    ASSUME Opened, NEW here, Looks(here, 0), token = <<"stream">>
    PROVE  StreamStart = from + Tokens[here].start + 1
  <1>1. PICK b, pos : Reading(b, pos) /\ Queued(b, pos, here, 0)
    BY DEF Looks
  <1>2. token # NoToken /\ token # End
    <2>1. token[1] = "stream" /\ Len(token) = 1
      OBVIOUS
    <2> QED
      BY <2>1 DEF NoToken, End
  <1>3. here \in 1 .. Len(Tokens) /\ token = Unit(here) /\ here \in Nat
    BY <1>2, Seen
  <1>4. b = here /\ AtStream(b, pos)
    BY <1>1, <1>2, <1>3 DEF Queued
  <1>5. pos = Tokens[here].start + 1 /\ ~pushed
    BY <1>3, <1>4 DEF AtStream
  <1>6. from \in Nat /\ Tokens[here].start \in Nat
    BY <1>3, OpenedText, UnitIs DEF Opened
  <1>7. GetCurrentPosition = from + pos
    BY <1>1, <1>5, <1>6 DEF Reading
  <1> QED
    BY <1>5, <1>6, <1>7 DEF StreamStart
-----------------------------------------------------------------------------
(***************************************************************************)
(* Sequences, whatever they are of.                                        *)
(***************************************************************************)
IsSeq(s) == \E S : s \in Seq(S)

LEMMA SameSet ==
    ASSUME NEW s, NEW t, IsSeq(s), IsSeq(t)
    PROVE  \E S : s \in Seq(S) /\ t \in Seq(S)
  <1>1. PICK S, T : s \in Seq(S) /\ t \in Seq(T)
    BY DEF IsSeq
  <1>2. s \in Seq(S \cup T) /\ t \in Seq(S \cup T)
    BY <1>1, SeqMonotonic
  <1> QED
    BY <1>2

LEMMA Singles ==
    ASSUME NEW x
    PROVE  IsSeq(<<>>) /\ IsSeq(<<x>>) /\ Len(<<>>) = 0 /\ Len(<<x>>) = 1 /\ <<x>>[1] = x
  <1>1. <<>> \in Seq({x}) /\ <<x>> \in Seq({x})
    OBVIOUS
  <1> QED
    BY <1>1 DEF IsSeq

LEMMA SeqsJoin ==
    ASSUME NEW s, NEW t, IsSeq(s), IsSeq(t)
    PROVE  /\ IsSeq(s \o t) /\ Len(s \o t) = Len(s) + Len(t) /\ Len(s) \in Nat /\ Len(t) \in Nat
           /\ s \o <<>> = s /\ <<>> \o s = s
  <1>1. PICK S : s \in Seq(S) /\ t \in Seq(S)
    BY SameSet
  <1>2. s \o t \in Seq(S) /\ Len(s \o t) = Len(s) + Len(t)
    BY <1>1, ConcatProperties
  <1>3. s \o <<>> = s /\ <<>> \o s = s
    BY <1>1, ConcatEmptySeq
  <1> QED
    BY <1>1, <1>2, <1>3 DEF IsSeq

LEMMA SeqsAssociate ==
    ASSUME NEW s, NEW t, NEW u, IsSeq(s), IsSeq(t), IsSeq(u)
    PROVE  (s \o t) \o u = s \o (t \o u)
  <1>1. PICK S, T, U : s \in Seq(S) /\ t \in Seq(T) /\ u \in Seq(U)
    BY DEF IsSeq
  <1>2. s \in Seq(S \cup T \cup U) /\ t \in Seq(S \cup T \cup U) /\ u \in Seq(S \cup T \cup U)
    BY <1>1, SeqMonotonic
  <1> QED
    BY <1>2, ConcatAssociative

LEMMA SeqGrows ==
    ASSUME NEW s, NEW x, IsSeq(s)
    PROVE  /\ IsSeq(Append(s, x)) /\ Append(s, x) = s \o <<x>>
           /\ Len(s) \in Nat /\ Len(Append(s, x)) = Len(s) + 1 /\ Append(s, x) # <<>>
           /\ \A i \in 1 .. Len(s) : Append(s, x)[i] = s[i]
           /\ Append(s, x)[Len(s) + 1] = x
  <1>1. PICK S : s \in Seq(S) /\ <<x>> \in Seq(S)
    BY SameSet, Singles
  <1>2. x \in S
    <2>1. 1 \in 1 .. Len(<<x>>) /\ <<x>>[1] = x
      BY Singles
    <2> QED
      BY <1>1, <2>1, ElementOfSeq
  <1>3. Append(s, x) = s \o <<x>>
    BY <1>1, <1>2, AppendIsConcat
  <1>4. Append(s, x) \in Seq(S) /\ Append(s, x) # <<>>
    BY <1>1, <1>2, AppendProperties
  <1>5. /\ Len(s) \in Nat /\ Len(Append(s, x)) = Len(s) + 1
        /\ \A i \in 1 .. Len(s) : Append(s, x)[i] = s[i]
        /\ Append(s, x)[Len(s) + 1] = x
    BY <1>1, <1>2, AppendProperties
  <1> QED
    BY <1>3, <1>4, <1>5 DEF IsSeq

LEMMA SeqShrinks ==
    ASSUME NEW s, IsSeq(s), s # <<>>
    PROVE  /\ IsSeq(Front(s)) /\ Len(s) \in Nat /\ Len(s) >= 1 /\ Len(Front(s)) = Len(s) - 1
           /\ \A i \in 1 .. Len(s) - 1 : Front(s)[i] = s[i]
           /\ Last(s) = s[Len(s)]
  <1>1. PICK S : s \in Seq(S)
    BY DEF IsSeq
  <1>2. Len(s) \in Nat /\ Len(s) >= 1
    BY <1>1, EmptySeq
  <1> DEFINE n == Len(s) - 1
  <1>3. n \in Nat /\ 1 \in Int /\ n \in Int /\ \A i \in 1 .. n : i \in 1 .. Len(s)
    BY <1>2
  <1>4. \A i \in 1 .. n : s[i] \in S
    BY <1>1, <1>3, ElementOfSeq
  <1> HIDE DEF n
  <1>5. /\ SubSeq(s, 1, n) \in Seq(S) /\ Len(SubSeq(s, 1, n)) = IF 1 <= n THEN n - 1 + 1 ELSE 0
        /\ \A i \in 1 .. n - 1 + 1 : SubSeq(s, 1, n)[i] = s[1 + i - 1]
    BY <1>3, <1>4, SubSeqProperties
  <1>6. Front(s) = SubSeq(s, 1, n) /\ Last(s) = s[Len(s)]
    BY DEF Front, Last, n
  <1>7. Len(Front(s)) = n /\ \A i \in 1 .. n : Front(s)[i] = s[i]
    <2>1. (IF 1 <= n THEN n - 1 + 1 ELSE 0) = n /\ n - 1 + 1 = n
      BY <1>3
    <2>2. \A i \in 1 .. n : 1 + i - 1 = i
      BY <1>3
    <2> QED
      BY <1>5, <1>6, <2>1, <2>2
  <1> QED
    BY <1>2, <1>5, <1>6, <1>7 DEF IsSeq, n

-----------------------------------------------------------------------------
(***************************************************************************)
(* The grammar: what begins with a token depends on what begins with the   *)
(* later ones only, and ends later.                                        *)
(***************************************************************************)
G == Grammar(Tokens)
Places == 1 .. Len(Tokens) + 1
Later(p) == {0} \cup p + 1 .. Len(Tokens) + 1
Kinds == {"array", "stream", "dictionary", "reference", "integer", "name", "symbol"}

ObjectFits(r, p) ==
    /\ r.next \in Later(p) /\ r.height \in Nat
    /\ r.next = 0 => r.object = Null
    /\ r.next # 0 => r.object.kind \in Kinds
    /\ r.object.kind \in {"name", "integer"} => r.next = p + 1 /\ r.height = 0

ListFits(r, p) ==
    r.next \in Later(p) /\ r.height \in Nat /\ (r.next # 0 => IsSeq(r.object))

Fits(f, p) ==
    /\ ObjectFits(f[p].object, p) /\ ListFits(f[p].members, p) /\ ListFits(f[p].pairs, p)
    /\ IsSeq(f[p].objects)

LEMMA SimpleIs ==
    ASSUME NEW t
    PROVE  Simple(t).kind \in {"integer", "name", "symbol"} /\ Simple(t) # Null /\ Simple(t) # None
  <1>1. Simple(t).kind \in {"integer", "name", "symbol"}
    BY DEF Simple, Object
  <1>2. Null.kind = "NULL" /\ None.kind = "none"
    BY DEF Null, None, Object
  <1> QED
    BY <1>1, <1>2

LEMMA ParsedIs ==
    ASSUME NEW o, NEW n, NEW h
    PROVE  Parsed(o, n, h).object = o /\ Parsed(o, n, h).next = n /\ Parsed(o, n, h).height = h
  BY DEF Parsed

LEMMA FailedIs == Failed.object = Null /\ Failed.next = 0 /\ Failed.height = 0
  BY DEF Failed

LEMMA ObjectIs ==
    ASSUME NEW kind, NEW parts, NEW start
    PROVE  Object(kind, parts, start).kind = kind /\ Object(kind, parts, start).parts = parts
  BY DEF Object

LEMMA LargerIs ==
    ASSUME NEW a \in Nat, NEW b \in Nat
    PROVE  Larger(a, b) \in Nat /\ Larger(a, b) >= a /\ Larger(a, b) >= b
           /\ \A c \in Int : Larger(a, b) <= c <=> a <= c /\ b <= c
  BY DEF Larger

LEMMA FailedFits ==
    ASSUME NEW p
    PROVE  ObjectFits(Failed, p) /\ ListFits(Failed, p)
  <1>1. Null.kind = "NULL"
    BY DEF Null, Object
  <1> QED
    BY <1>1, FailedIs DEF ObjectFits, ListFits, Later

LEMMA ParsedFits ==
    ASSUME NEW p, NEW kind \in Kinds, NEW parts, NEW start, NEW n, n \in Later(p), n # 0,
           NEW h \in Nat, kind \in {"name", "integer"} => n = p + 1 /\ h = 0
    PROVE  ObjectFits(Parsed(Object(kind, parts, start), n, h), p)
  BY ParsedIs, ObjectIs DEF ObjectFits

LEMMA ObjectAtFits ==
    ASSUME TextTyped, NEW f, NEW p \in Places, p <= Len(Tokens) => Fits(f, p + 1)
    PROVE  ObjectFits(ObjectAt(Tokens, f, p), p)
  <1> DEFINE t == Tokens[p].units  members == f[p + 1].members  pairs == f[p + 1].pairs
             o == ObjectAt(Tokens, f, p)
  <1> SUFFICES ObjectFits(o, p)
    OBVIOUS
  <1>1. Len(Tokens) \in Nat /\ p \in Nat /\ p >= 1 /\ p <= Len(Tokens) + 1
    BY TokensTyped DEF Places
  <1>2. CASE p > Len(Tokens)
    <2>1. o = Failed
      BY <1>2 DEF ObjectAt
    <2> QED
      BY <2>1, FailedFits
  <1>3. CASE ~(p > Len(Tokens))
    <2>1. /\ members.next \in {0} \cup p + 2 .. Len(Tokens) + 1 /\ members.height \in Nat
          /\ pairs.next \in {0} \cup p + 2 .. Len(Tokens) + 1 /\ pairs.height \in Nat
      <3>1. ListFits(members, p + 1) /\ ListFits(pairs, p + 1) /\ p + 1 + 1 = p + 2
        BY <1>1, <1>3 DEF Fits
      <3> QED
        BY <3>1 DEF ListFits, Later
    <2>2. DOMAIN Tokens = 1 .. Len(Tokens)
      BY TokensTyped
    <2> HIDE DEF members, pairs
    <2>3. CASE t = <<"[">>
      <3>1. o = IF members.next = 0 THEN Failed
                ELSE Parsed(Object("array", members.object, 0), members.next, members.height + 1)
        BY <1>3, <2>3 DEF ObjectAt, members
      <3>2. CASE members.next = 0
        BY <3>1, <3>2, FailedFits
      <3>3. CASE members.next # 0
        <4>1. /\ members.next \in Later(p) /\ members.height + 1 \in Nat
              /\ "array" \in Kinds /\ "array" \notin {"name", "integer"}
          BY <1>1, <2>1, <3>3 DEF Later, Kinds
        <4>2. o = Parsed(Object("array", members.object, 0), members.next, members.height + 1)
          BY <3>1, <3>3
        <4> HIDE DEF o
        <4> QED
          BY <3>3, <4>1, <4>2, ParsedFits
      <3> QED
        BY <3>2, <3>3
    <2>4. CASE t = <<"<<">>
      <3>0. t # <<"[">>
        BY <2>4
      <3>1. o = IF pairs.next = 0 THEN Failed
                ELSE IF Is(Tokens, pairs.next, "stream")
                THEN Parsed(Object("stream", pairs.object, from + Tokens[pairs.next].start + 1),
                            pairs.next + 1, pairs.height + 1)
                ELSE Parsed(Object("dictionary", pairs.object, 0), pairs.next, pairs.height + 1)
        BY <1>3, <2>4, <3>0 DEF ObjectAt, pairs
      <3> HIDE DEF o
      <3>2. CASE pairs.next = 0
        BY <3>1, <3>2, FailedFits
      <3>3. CASE pairs.next # 0 /\ Is(Tokens, pairs.next, "stream")
        <4>1. /\ pairs.next + 1 \in Later(p) /\ pairs.height + 1 \in Nat /\ pairs.next + 1 # 0
              /\ "stream" \in Kinds /\ "stream" \notin {"name", "integer"}
          BY <1>1, <2>1, <2>2, <3>3 DEF Later, Kinds, Is
        <4> QED
          BY <3>1, <3>3, <4>1, ParsedFits
      <3>4. CASE pairs.next # 0 /\ ~Is(Tokens, pairs.next, "stream")
        <4>1. /\ pairs.next \in Later(p) /\ pairs.height + 1 \in Nat
              /\ "dictionary" \in Kinds /\ "dictionary" \notin {"name", "integer"}
          BY <1>1, <2>1, <3>4 DEF Later, Kinds
        <4> QED
          BY <3>1, <3>4, <4>1, ParsedFits
      <3> QED
        BY <3>2, <3>3, <3>4
    <2>5. CASE t # <<"[">> /\ t # <<"<<">>
      <3>1. o = IF /\ IsPositive(t)
                   /\ p + 1 \in DOMAIN Tokens /\ IsNonnegative(Tokens[p + 1].units)
                   /\ Is(Tokens, p + 2, "R")
                THEN Parsed(Object("reference", <<t, Tokens[p + 1].units>>, 0), p + 3, 0)
                ELSE Parsed(Simple(t), p + 1, 0)
        BY <1>3, <2>5 DEF ObjectAt
      <3> HIDE DEF o, t
      <3>2. ASSUME Is(Tokens, p + 2, "R")
            PROVE  ObjectFits(Parsed(Object("reference", <<t, Tokens[p + 1].units>>, 0), p + 3, 0), p)
        <4> DEFINE n == p + 3
        <4>1. n \in Later(p) /\ n # 0 /\ 0 \in Nat /\ "reference" \in Kinds /\ "reference" \notin {"name", "integer"}
          BY <1>1, <2>2, <3>2 DEF Later, Kinds, Is
        <4> HIDE DEF n
        <4>2. ObjectFits(Parsed(Object("reference", <<t, Tokens[p + 1].units>>, 0), n, 0), p)
          BY <4>1, ParsedFits
        <4> QED
          BY <4>2 DEF n
      <3>3. ObjectFits(Parsed(Simple(t), p + 1, 0), p)
        <4> DEFINE kind == IF IsNumber(t) THEN "integer" ELSE IF IsName(t) THEN "name" ELSE "symbol"
                   n == p + 1
        <4>1. Simple(t) = Object(kind, t, 0) /\ kind \in Kinds
          BY DEF Simple, Kinds
        <4>2. n \in Later(p) /\ n # 0 /\ 0 \in Nat /\ n = p + 1
          BY <1>1, <1>3 DEF Later
        <4> HIDE DEF kind, n
        <4>3. ObjectFits(Parsed(Object(kind, t, 0), n, 0), p)
          BY <4>1, <4>2, ParsedFits
        <4> QED
          BY <4>1, <4>2, <4>3
      <3> QED
        BY <3>1, <3>2, <3>3
    <2> QED
      BY <2>3, <2>4, <2>5
  <1> QED
    BY <1>2, <1>3

LEMMA AfterFits ==
    ASSUME NEW p \in Nat, NEW q \in Nat, q > p, NEW first, NEW others, NEW member,
           first.height \in Nat, ListFits(others, q)
    PROVE  ListFits(After(first, others, member), p)
  <1>1. CASE first.next = 0 \/ others.next = 0
    BY <1>1, FailedFits DEF After
  <1>2. CASE ~(first.next = 0 \/ others.next = 0)
    <2>1. others.height \in Nat /\ others.next \in {0} \cup q + 1 .. Len(Tokens) + 1
      BY DEF ListFits, Later
    <2>2. Larger(first.height, others.height) \in Nat
      BY <2>1, LargerIs
    <2>3. others.next \in {0} \cup p + 1 .. Len(Tokens) + 1
      BY <2>1
    <2>4. others.next \in Later(p)
      BY <2>3 DEF Later
    <2>5. IsSeq(<<member>> \o others.object)
      BY <1>2, Singles, SeqsJoin DEF ListFits
    <2> QED
      BY <1>2, <2>2, <2>4, <2>5, ParsedIs DEF After, ListFits
  <1> QED
    BY <1>1, <1>2

LEMMA MembersFit ==
    ASSUME TextTyped, NEW f, NEW p \in Places, \A j \in p + 1 .. Len(Tokens) + 1 : Fits(f, j),
           NEW o, ObjectFits(o, p)
    PROVE  ListFits(MembersAt(Tokens, f, p, o), p)
  <1>1. Len(Tokens) \in Nat /\ p \in Nat /\ DOMAIN Tokens = 1 .. Len(Tokens)
    BY TokensTyped DEF Places
  <1>2. o.next \in Later(p) /\ o.height \in Nat
    BY DEF ObjectFits
  <1>3. CASE Is(Tokens, p, "]")
    <2>1. p + 1 \in Later(p) /\ 0 \in Nat
      BY <1>1, <1>3 DEF Is, Later
    <2>2. IsSeq(<<>>)
      BY Singles
    <2>3. MembersAt(Tokens, f, p, o) = Parsed(<<>>, p + 1, 0)
      BY <1>3 DEF MembersAt
    <2> QED
      BY <2>1, <2>2, <2>3, ParsedIs DEF ListFits
  <1>4. CASE ~Is(Tokens, p, "]") /\ o.next = 0
    BY <1>4, FailedFits DEF MembersAt
  <1>5. CASE ~Is(Tokens, p, "]") /\ o.next # 0
    <2>1. o.next \in p + 1 .. Len(Tokens) + 1 /\ o.next \in Nat /\ o.next > p
      BY <1>1, <1>2, <1>5 DEF Later
    <2>2. ListFits(f[o.next].members, o.next)
      BY <2>1 DEF Fits
    <2> QED
      BY <1>1, <1>2, <1>5, <2>1, <2>2, AfterFits DEF MembersAt
  <1> QED
    BY <1>3, <1>4, <1>5

LEMMA PairsFit ==
    ASSUME TextTyped, NEW f, NEW p \in Places, \A j \in p + 1 .. Len(Tokens) + 1 : Fits(f, j),
           NEW o, ObjectFits(o, p)
    PROVE  ListFits(PairsAt(Tokens, f, p, o), p)
  <1>1. Len(Tokens) \in Nat /\ p \in Nat /\ DOMAIN Tokens = 1 .. Len(Tokens)
    BY TokensTyped DEF Places
  <1>2. CASE Is(Tokens, p, ">>")
    <2>1. p + 1 \in Later(p) /\ 0 \in Nat
      BY <1>1, <1>2 DEF Is, Later
    <2>2. IsSeq(<<>>)
      BY Singles
    <2>3. PairsAt(Tokens, f, p, o) = Parsed(<<>>, p + 1, 0)
      BY <1>2 DEF PairsAt
    <2> QED
      BY <2>1, <2>2, <2>3, ParsedIs DEF ListFits
  <1>3. CASE ~Is(Tokens, p, ">>") /\ o.object.kind # "name"
    BY <1>3, FailedFits DEF PairsAt
  <1>4. CASE ~Is(Tokens, p, ">>") /\ o.object.kind = "name"
    <2> DEFINE value == f[o.next].object
    <2>1. o.next = p + 1 /\ o.next \in Later(p)
      BY <1>4 DEF ObjectFits
    <2>2. o.next \in p + 1 .. Len(Tokens) + 1 /\ o.next \in Nat
      BY <1>1, <2>1 DEF Later
    <2>3. value.next \in Later(o.next) /\ value.height \in Nat
      BY <2>2 DEF Fits, ObjectFits
    <2>4. PairsAt(Tokens, f, p, o) =
            IF value.next = 0 THEN Failed
            ELSE After(value, f[value.next].pairs, <<o.object, value.object>>)
      BY <1>4 DEF PairsAt
    <2> HIDE DEF value
    <2>5. CASE value.next = 0
      BY <2>4, <2>5, FailedFits
    <2>6. CASE value.next # 0
      <3>1. value.next \in p + 1 .. Len(Tokens) + 1 /\ value.next \in Nat /\ value.next > p
        BY <1>1, <2>2, <2>3, <2>6 DEF Later
      <3>2. ListFits(f[value.next].pairs, value.next)
        BY <3>1 DEF Fits
      <3>3. ListFits(After(value, f[value.next].pairs, <<o.object, value.object>>), p)
        BY <1>1, <2>3, <3>1, <3>2, AfterFits
      <3> QED
        BY <2>4, <2>6, <3>3
    <2> QED
      BY <2>5, <2>6
  <1> QED
    BY <1>2, <1>3, <1>4

LEMMA ObjectsFit ==
    ASSUME TextTyped, NEW f, NEW p \in Places, \A j \in p + 1 .. Len(Tokens) + 1 : Fits(f, j),
           NEW o, ObjectFits(o, p)
    PROVE  IsSeq(ObjectsAt(f, o))
  <1>1. CASE o.next = 0 \/ o.height > MaxObjectDepth
    BY <1>1, Singles DEF ObjectsAt
  <1>2. CASE ~(o.next = 0 \/ o.height > MaxObjectDepth)
    <2>1. o.next \in p + 1 .. Len(Tokens) + 1
      BY <1>2 DEF ObjectFits, Later
    <2>2. IsSeq(f[o.next].objects)
      BY <2>1 DEF Fits
    <2> QED
      BY <1>2, <2>2, Singles, SeqsJoin DEF ObjectsAt
  <1> QED
    BY <1>1, <1>2

LEMMA GrammarAtIs ==
    ASSUME NEW f, NEW p
    PROVE  LET o == ObjectAt(Tokens, f, p)
               r == GrammarAt(Tokens, f, p)
           IN  /\ r.object = o /\ r.members = MembersAt(Tokens, f, p, o)
               /\ r.pairs = PairsAt(Tokens, f, p, o) /\ r.objects = ObjectsAt(f, o)
  BY DEF GrammarAt

LEMMA GrammarFits ==
    ASSUME TextTyped, NEW f, NEW p \in Places, \A j \in p + 1 .. Len(Tokens) + 1 : Fits(f, j),
           f[p] = GrammarAt(Tokens, f, p)
    PROVE  Fits(f, p)
  <1>1. p <= Len(Tokens) => Fits(f, p + 1)
    BY TokensTyped DEF Places
  <1>2. ObjectFits(ObjectAt(Tokens, f, p), p)
    BY <1>1, ObjectAtFits
  <1>3. /\ ListFits(MembersAt(Tokens, f, p, ObjectAt(Tokens, f, p)), p)
        /\ ListFits(PairsAt(Tokens, f, p, ObjectAt(Tokens, f, p)), p)
    BY <1>2, MembersFit, PairsFit
  <1>4. IsSeq(ObjectsAt(f, ObjectAt(Tokens, f, p)))
    BY <1>2, ObjectsFit
  <1> QED
    BY <1>2, <1>3, <1>4, GrammarAtIs DEF Fits

(* Only what begins later matters.                                         *)
LEMMA GrammarDepends ==
    ASSUME TextTyped, NEW f, NEW g, NEW p \in Places,
           \A j \in p + 1 .. Len(Tokens) + 1 : Fits(f, j) /\ f[j] = g[j]
    PROVE  GrammarAt(Tokens, f, p) = GrammarAt(Tokens, g, p)
  <1> DEFINE o == ObjectAt(Tokens, f, p)
  <1>1. Len(Tokens) \in Nat /\ p \in Nat /\ p <= Len(Tokens) + 1
    BY TokensTyped DEF Places
  <1>2. o = ObjectAt(Tokens, g, p)
    <2>1. CASE p > Len(Tokens)
      BY <2>1 DEF ObjectAt
    <2>2. CASE ~(p > Len(Tokens))
      <3>1. f[p + 1] = g[p + 1]
        BY <1>1, <2>2
      <3> QED
        BY <3>1 DEF ObjectAt
    <2> QED
      BY <2>1, <2>2
  <1>3. ObjectFits(o, p)
    <2>1. p <= Len(Tokens) => Fits(f, p + 1)
      BY <1>1
    <2> QED
      BY <2>1, ObjectAtFits
  <1> HIDE DEF o
  <1>4. o.next # 0 => o.next \in p + 1 .. Len(Tokens) + 1 /\ f[o.next] = g[o.next]
    BY <1>3 DEF ObjectFits, Later
  <1>5. MembersAt(Tokens, f, p, o) = MembersAt(Tokens, g, p, o)
    BY <1>4 DEF MembersAt
  <1>6. ObjectsAt(f, o) = ObjectsAt(g, o)
    BY <1>4 DEF ObjectsAt
  <1>7. PairsAt(Tokens, f, p, o) = PairsAt(Tokens, g, p, o)
    <2>1. CASE o.object.kind # "name"
      BY <2>1 DEF PairsAt
    <2>2. CASE o.object.kind = "name"
      <3>1. o.next = p + 1 /\ o.next # 0 /\ o.next \in p + 1 .. Len(Tokens) + 1
        BY <1>1, <1>3, <1>4, <2>2 DEF ObjectFits
      <3>2. f[o.next] = g[o.next] /\ f[o.next].object.next \in Later(o.next)
        BY <1>4, <3>1 DEF Fits, ObjectFits
      <3> DEFINE v == f[o.next].object.next
      <3>3. v # 0 => v \in p + 1 .. Len(Tokens) + 1
        BY <1>1, <3>1, <3>2 DEF Later
      <3>4. v # 0 => f[v] = g[v]
        BY <3>3
      <3> QED
        BY <3>2, <3>4 DEF PairsAt
    <2> QED
      BY <2>1, <2>2
  <1> QED
    BY <1>2, <1>5, <1>6, <1>7 DEF GrammarAt, o

(* A function that follows the grammar from a place on fits there.         *)
LEMMA SolutionFits ==
    ASSUME TextTyped, NEW f, NEW k \in Places,
           \A i \in k .. Len(Tokens) + 1 : f[i] = GrammarAt(Tokens, f, i)
    PROVE  \A i \in k .. Len(Tokens) + 1 : Fits(f, i)
  <1> DEFINE n == Len(Tokens) + 1  S == {i \in 1 .. n : i >= k => Fits(f, i)}
  <1>1. n \in Nat /\ k \in 1 .. n
    BY TokensTyped DEF Places
  <1>2. ASSUME NEW i \in 1 .. n, \A j \in i + 1 .. n : j \in S
        PROVE  i \in S
    <2>1. CASE i >= k
      <3>1. \A j \in i + 1 .. n : Fits(f, j)
        BY <1>1, <1>2, <2>1
      <3>2. f[i] = GrammarAt(Tokens, f, i) /\ i \in Places
        BY <1>1, <2>1 DEF Places
      <3>3. Fits(f, i)
        BY <3>1, <3>2, GrammarFits
      <3> QED
        BY <3>3
    <2>2. CASE ~(i >= k)
      BY <2>2
    <2> QED
      BY <2>1, <2>2
  <1>3. \A i \in 1 .. n : i \in S
    <2> HIDE DEF S, n
    <2> QED
      BY <1>1, <1>2, FromTheEnd
  <1> QED
    BY <1>1, <1>3

LEMMA GrammarIs ==
    ASSUME TextTyped
    PROVE  \A p \in Places : G[p] = GrammarAt(Tokens, G, p) /\ Fits(G, p)
  <1> DEFINE n == Len(Tokens) + 1
             S == {k \in 1 .. n : \E f : \A i \in k .. n : f[i] = GrammarAt(Tokens, f, i)}
  <1>1. n \in Nat /\ 1 \in 1 .. n
    BY TokensTyped
  <1>2. ASSUME NEW k \in 1 .. n, \A j \in k + 1 .. n : j \in S
        PROVE  k \in S
    <2>1. PICK f : \A i \in k + 1 .. n : f[i] = GrammarAt(Tokens, f, i)
      <3>1. CASE k = n
        <4>1. \A i \in k + 1 .. n : FALSE
          BY <1>1, <3>1
        <4> QED
          BY <4>1
      <3>2. CASE k # n
        <4>1. k + 1 \in k + 1 .. n
          BY <1>1, <3>2
        <4>2. k + 1 \in S
          <5> HIDE DEF S
          <5> QED
            BY <1>2, <4>1
        <4> QED
          BY <4>2
      <3> QED
        BY <3>1, <3>2
    <2> DEFINE g == [i \in 1 .. n |-> IF i = k THEN GrammarAt(Tokens, f, k) ELSE f[i]]
    <2>2. \A i \in k + 1 .. n : Fits(f, i) /\ f[i] = g[i]
      <3>1. CASE k = n
        BY <1>1, <3>1
      <3>2. CASE k # n
        <4>1. k + 1 \in Places
          BY <1>1, <3>2 DEF Places
        <4>2. \A i \in k + 1 .. n : Fits(f, i)
          <5> DEFINE m == k + 1
          <5>1. m \in Places /\ \A i \in m .. Len(Tokens) + 1 : f[i] = GrammarAt(Tokens, f, i)
            BY <2>1, <4>1
          <5> HIDE DEF m
          <5>2. \A i \in m .. Len(Tokens) + 1 : Fits(f, i)
            BY <5>1, SolutionFits
          <5> QED
            BY <5>2 DEF m
        <4>3. \A i \in k + 1 .. n : i \in 1 .. n /\ i # k
          BY <1>1
        <4> QED
          BY <4>2, <4>3
      <3> QED
        BY <3>1, <3>2
    <2>3. g[k] = GrammarAt(Tokens, f, k)
      OBVIOUS
    <2> HIDE DEF g
    <2>4. ASSUME NEW i \in k .. n
          PROVE  g[i] = GrammarAt(Tokens, g, i)
      <3>1. /\ i \in Places
            /\ \A j \in i + 1 .. Len(Tokens) + 1 : Fits(f, j) /\ f[j] = g[j]
        BY <1>1, <2>2 DEF Places
      <3>2. GrammarAt(Tokens, f, i) = GrammarAt(Tokens, g, i)
        BY <3>1, GrammarDepends
      <3>3. CASE i = k
        BY <2>3, <3>2, <3>3
      <3>4. CASE i # k
        <4>1. i \in k + 1 .. n
          BY <1>1, <3>4
        <4>2. f[i] = GrammarAt(Tokens, f, i) /\ f[i] = g[i]
          BY <2>1, <2>2, <4>1
        <4> QED
          BY <3>2, <4>2
      <3> QED
        BY <3>3, <3>4
    <2> QED
      BY <2>4
  <1>3. 1 \in S
    <2> HIDE DEF S, n
    <2>1. \A k \in 1 .. n : k \in S
      BY <1>1, <1>2, FromTheEnd
    <2> QED
      BY <1>1, <2>1
  <1>4. PICK f : \A i \in 1 .. n : f[i] = GrammarAt(Tokens, f, i)
    BY <1>3
  <1> DEFINE h == [i \in 1 .. n |-> f[i]]
  <1>5. h = [p \in 1 .. Len(Tokens) + 1 |-> GrammarAt(Tokens, h, p)]
    <2>1. ASSUME NEW i \in 1 .. n
          PROVE  h[i] = GrammarAt(Tokens, h, i)
      <3>1. i \in Places /\ 1 \in Places /\ \A j \in i + 1 .. n : j \in 1 .. n
        BY <1>1 DEF Places
      <3>2. \A j \in 1 .. n : Fits(f, j)
        BY <1>4, <3>1, SolutionFits
      <3>3. \A j \in i + 1 .. Len(Tokens) + 1 : Fits(f, j) /\ f[j] = h[j]
        BY <3>1, <3>2
      <3> HIDE DEF h
      <3>4. GrammarAt(Tokens, f, i) = GrammarAt(Tokens, h, i)
        BY <3>1, <3>3, GrammarDepends
      <3> QED
        BY <1>4, <3>4 DEF h
    <2> QED
      BY <2>1
  <1> HIDE DEF h
  <1>6. G = [p \in 1 .. Len(Tokens) + 1 |-> GrammarAt(Tokens, G, p)]
    <2> DEFINE Follows(g) == g = [p \in 1 .. Len(Tokens) + 1 |-> GrammarAt(Tokens, g, p)]
    <2>1. G = CHOOSE g : Follows(g)
      BY DEF G, Grammar
    <2>2. Follows(h)
      BY <1>5
    <2> HIDE DEF Follows
    <2>3. Follows(G)
      BY <2>1, <2>2
    <2> QED
      BY <2>3 DEF Follows
  <1>7. \A p \in 1 .. Len(Tokens) + 1 : G[p] = GrammarAt(Tokens, G, p)
    BY <1>6
  <1>8. 1 \in Places
    BY <1>1 DEF Places
  <1> QED
    BY <1>7, <1>8, SolutionFits DEF Places
-----------------------------------------------------------------------------
(***************************************************************************)
(* What is read of an array or a dictionary: the calls' view of the        *)
(* grammar.  A call stands l arrays and dictionaries deep.                 *)
(***************************************************************************)
Good(r, l) == r.next # 0 /\ l + r.height <= MaxObjectDepth

Rest(step, q) == IF step = "items" THEN G[q].members ELSE G[q].pairs

EndedObject(step, parts, next) ==
    IF step = "items" THEN Object("array", parts, 0)
    ELSE IF Is(Tokens, next, "stream") THEN Object("stream", parts, from + Tokens[next].start + 1)
    ELSE Object("dictionary", parts, 0)
EndedNext(step, next) ==
    IF step # "items" /\ Is(Tokens, next, "stream") THEN next + 1 ELSE next

(* From p on to q, an array or a dictionary has these items.               *)
Goes(step, p, q, items, l) ==
    /\ p \in Places /\ q \in Places /\ l \in Nat /\ l + 1 <= MaxObjectDepth /\ IsSeq(items)
    /\ Good(G[p].object, l) <=> Good(Rest(step, q), l + 1)
    /\ Good(Rest(step, q), l + 1) =>
          /\ G[p].object.object = EndedObject(step, items \o Rest(step, q).object, Rest(step, q).next)
          /\ G[p].object.next = EndedNext(step, Rest(step, q).next)

LEMMA GIs ==
    ASSUME TextTyped, NEW p \in Places
    PROVE  /\ G[p].object = ObjectAt(Tokens, G, p)
           /\ G[p].members = MembersAt(Tokens, G, p, G[p].object)
           /\ G[p].pairs = PairsAt(Tokens, G, p, G[p].object)
           /\ G[p].objects = ObjectsAt(G, G[p].object)
           /\ ObjectFits(G[p].object, p) /\ ListFits(G[p].members, p) /\ ListFits(G[p].pairs, p)
           /\ IsSeq(G[p].objects)
  BY GrammarIs, GrammarAtIs DEF Fits

LEMMA PlacesAre ==
    ASSUME TextTyped
    PROVE  /\ Len(Tokens) \in Nat /\ DOMAIN Tokens = 1 .. Len(Tokens) /\ MaxObjectDepth \in Nat
           /\ \A p \in Places : p \in Nat /\ p >= 1 /\ p <= Len(Tokens) + 1
           /\ \A p \in 1 .. Len(Tokens) : p \in Places /\ p + 1 \in Places
           /\ \A p \in Places : \A n \in Later(p) : n # 0 => n \in Places /\ n > p
           /\ Len(Tokens) + 1 \in Places /\ 1 \in Places
  BY TokensTyped, MaxObjectDepthAssumption DEF Places, Later

(* An array or a dictionary begins.                                        *)
LEMMA GoesStart ==
    ASSUME TextTyped, NEW p \in 1 .. Len(Tokens), NEW l \in Nat, NEW step \in {"items", "key"},
           Unit(p) = IF step = "items" THEN <<"[">> ELSE <<"<<">>
    PROVE  /\ l + 1 <= MaxObjectDepth => Goes(step, p, p + 1, <<>>, l)
           /\ l >= MaxObjectDepth => ~Good(G[p].object, l)
  <1> DEFINE r == Rest(step, p + 1)  o == G[p].object
  <1>1. /\ p \in Places /\ p + 1 \in Places /\ MaxObjectDepth \in Nat /\ ~(p > Len(Tokens))
    BY PlacesAre
  <1>2. ListFits(r, p + 1) /\ o = ObjectAt(Tokens, G, p)
    BY <1>1, GIs DEF Rest
  <1>3. <<"[">> # <<"<<">>
    OBVIOUS
  <1>4. o = IF r.next = 0 THEN Failed
            ELSE Parsed(EndedObject(step, r.object, r.next), EndedNext(step, r.next), r.height + 1)
    <2>1. CASE step = "items"
      <3>1. Tokens[p].units = <<"[">> /\ r = G[p + 1].members
        BY <2>1 DEF Unit, Rest
      <3>2. o = IF r.next = 0 THEN Failed ELSE Parsed(Object("array", r.object, 0), r.next, r.height + 1)
        <4> HIDE DEF o
        <4> QED
          BY <1>1, <1>2, <3>1 DEF ObjectAt
      <3> HIDE DEF o, r
      <3> QED
        BY <2>1, <3>2 DEF EndedObject, EndedNext
    <2>2. CASE step = "key"
      <3>1. Tokens[p].units = <<"<<">> /\ r = G[p + 1].pairs /\ step # "items"
        BY <2>2 DEF Unit, Rest
      <3>2. o = IF r.next = 0 THEN Failed
                ELSE IF Is(Tokens, r.next, "stream")
                THEN Parsed(Object("stream", r.object, from + Tokens[r.next].start + 1),
                            r.next + 1, r.height + 1)
                ELSE Parsed(Object("dictionary", r.object, 0), r.next, r.height + 1)
        <4> HIDE DEF o
        <4> QED
          BY <1>1, <1>2, <1>3, <3>1 DEF ObjectAt
      <3> HIDE DEF o, r
      <3> QED
        BY <3>1, <3>2 DEF EndedObject, EndedNext
    <2> QED
      BY <2>1, <2>2
  <1>5. r.height \in Nat /\ (r.next # 0 => IsSeq(r.object)) /\ r.next \in Later(p + 1)
    BY <1>2 DEF ListFits
  <1>6. r.next # 0 => EndedNext(step, r.next) # 0
    <2>1. r.next # 0 => r.next \in Nat
      BY <1>1, <1>5, PlacesAre
    <2> QED
      BY <2>1 DEF EndedNext
  <1> HIDE DEF r, o
  <1>7. Good(o, l) <=> Good(r, l + 1)
    <2>1. CASE r.next = 0
      BY <1>4, <2>1, FailedIs DEF Good
    <2>2. CASE r.next # 0
      <3>1. o.next # 0 /\ o.height = r.height + 1
        BY <1>4, <1>6, <2>2, ParsedIs
      <3> QED
        BY <1>1, <1>5, <2>2, <3>1 DEF Good
    <2> QED
      BY <2>1, <2>2
  <1>8. ASSUME Good(r, l + 1)
        PROVE  /\ o.object = EndedObject(step, <<>> \o r.object, r.next)
               /\ o.next = EndedNext(step, r.next)
    <2>1. r.next # 0 /\ <<>> \o r.object = r.object
      BY <1>5, <1>8, SeqsJoin DEF Good
    <2> QED
      BY <1>4, <2>1, ParsedIs
  <1>9. l + 1 <= MaxObjectDepth => Goes(step, p, p + 1, <<>>, l)
    <2>1. IsSeq(<<>>)
      BY Singles
    <2> QED
      BY <1>1, <1>7, <1>8, <2>1 DEF Goes, r, o
  <1>10. l >= MaxObjectDepth => ~Good(o, l)
    <2>1. l >= MaxObjectDepth => ~Good(r, l + 1)
      BY <1>1, <1>5 DEF Good
    <2> QED
      BY <1>7, <2>1
  <1> QED
    BY <1>9, <1>10 DEF o

(* The mark that ends it.                                                  *)
LEMMA GoesEnd ==
    ASSUME TextTyped, NEW p, NEW q, NEW items, NEW l, NEW step \in {"items", "key"},
           Goes(step, p, q, items, l), Is(Tokens, q, IF step = "items" THEN "]" ELSE ">>")
    PROVE  /\ Good(G[p].object, l) /\ q + 1 \in Places
           /\ G[p].object.object = EndedObject(step, items, q + 1)
           /\ G[p].object.next = EndedNext(step, q + 1)
  <1> DEFINE r == Rest(step, q)
  <1>1. /\ q \in Places /\ l \in Nat /\ l + 1 <= MaxObjectDepth /\ IsSeq(items)
        /\ Good(G[p].object, l) <=> Good(r, l + 1)
        /\ Good(r, l + 1) =>
              /\ G[p].object.object = EndedObject(step, items \o r.object, r.next)
              /\ G[p].object.next = EndedNext(step, r.next)
    BY DEF Goes
  <1>2. q \in 1 .. Len(Tokens) /\ q \in Nat /\ q + 1 \in Places /\ MaxObjectDepth \in Nat
    <2>1. q \in 1 .. Len(Tokens)
      BY PlacesAre DEF Is
    <2> QED
      BY <2>1, PlacesAre
  <1>3. r = Parsed(<<>>, q + 1, 0)
    <2>1. CASE step = "items"
      BY <1>1, <2>1, GIs DEF Rest, MembersAt
    <2>2. CASE step = "key"
      BY <1>1, <2>2, GIs DEF Rest, PairsAt
    <2> QED
      BY <2>1, <2>2
  <1> HIDE DEF r
  <1>4. r.object = <<>> /\ r.next = q + 1 /\ r.height = 0
    BY <1>3, ParsedIs
  <1>5. Good(r, l + 1)
    BY <1>1, <1>2, <1>4 DEF Good
  <1>6. items \o r.object = items
    BY <1>1, <1>4, Singles, SeqsJoin
  <1> QED
    BY <1>1, <1>2, <1>4, <1>5, <1>6

(* One more member or pair, which is as high as what it is of.             *)
LEMMA GoodAfter ==
    ASSUME NEW first, NEW others, NEW member, NEW l \in Nat, MaxObjectDepth \in Nat,
           first.height \in Nat, others.height \in Nat, others.next = 0 \/ others.next \in Nat
    PROVE  /\ Good(After(first, others, member), l) <=> Good(first, l) /\ Good(others, l)
           /\ Good(others, l) /\ Good(first, l) =>
                 /\ After(first, others, member).object = <<member>> \o others.object
                 /\ After(first, others, member).next = others.next
  <1>1. CASE first.next = 0 \/ others.next = 0
    BY <1>1, FailedIs DEF After, Good
  <1>2. CASE ~(first.next = 0 \/ others.next = 0)
    <2> DEFINE larger == Larger(first.height, others.height)
    <2>1. larger \in Nat /\ \A c \in Int : larger <= c <=> first.height <= c /\ others.height <= c
      BY LargerIs
    <2>2. /\ After(first, others, member).object = <<member>> \o others.object
          /\ After(first, others, member).next = others.next
          /\ After(first, others, member).height = larger
      <3>1. After(first, others, member) = Parsed(<<member>> \o others.object, others.next, larger)
        BY <1>2 DEF After
      <3> DEFINE parts == <<member>> \o others.object
      <3> HIDE DEF larger, parts
      <3>2. /\ Parsed(parts, others.next, larger).object = parts
            /\ Parsed(parts, others.next, larger).next = others.next
            /\ Parsed(parts, others.next, larger).height = larger
        BY ParsedIs
      <3> QED
        BY <3>1, <3>2 DEF parts
    <2> HIDE DEF larger
    <2>3. larger <= MaxObjectDepth - l <=> first.height <= MaxObjectDepth - l /\ others.height <= MaxObjectDepth - l
      BY <2>1
    <2>4. l + larger <= MaxObjectDepth <=> l + first.height <= MaxObjectDepth /\ l + others.height <= MaxObjectDepth
      BY <2>1, <2>3
    <2> QED
      BY <1>2, <2>2, <2>4 DEF Good
  <1> QED
    BY <1>1, <1>2

(* The rest after a member, or after a pair.                               *)
LEMMA GoesOn ==
    ASSUME TextTyped, NEW p, NEW q, NEW items, NEW l, NEW step \in {"items", "key"},
           Goes(step, p, q, items, l), NEW first, NEW member, first.height \in Nat,
           first.next # 0 => first.next \in Places,
           Rest(step, q) = IF first.next = 0 THEN Failed
                           ELSE After(first, Rest(step, first.next), member)
    PROVE  /\ ~Good(first, l + 1) => ~Good(G[p].object, l)
           /\ Good(first, l + 1) => Goes(step, p, first.next, Append(items, member), l)
  <1> DEFINE r == Rest(step, q)
  <1>1. /\ p \in Places /\ q \in Places /\ l \in Nat /\ l + 1 <= MaxObjectDepth /\ IsSeq(items)
        /\ Good(G[p].object, l) <=> Good(r, l + 1)
        /\ Good(r, l + 1) =>
              /\ G[p].object.object = EndedObject(step, items \o r.object, r.next)
              /\ G[p].object.next = EndedNext(step, r.next)
    BY DEF Goes
  <1>2. MaxObjectDepth \in Nat /\ l + 1 \in Nat
    BY <1>1, PlacesAre
  <1>3. CASE first.next = 0
    <2>1. r = Failed /\ ~Good(first, l + 1)
      BY <1>3 DEF Good
    <2>2. ~Good(r, l + 1)
      BY <2>1, FailedIs DEF Good
    <2> QED
      BY <1>1, <2>1, <2>2
  <1>4. CASE first.next # 0
    <2> DEFINE s == Rest(step, first.next)
    <2>1. r = After(first, s, member) /\ first.next \in Places
      BY <1>4
    <2>2. ListFits(s, first.next)
      BY <2>1, GIs DEF Rest
    <2>3. s.height \in Nat /\ (s.next = 0 \/ s.next \in Nat) /\ (s.next # 0 => IsSeq(s.object))
      BY <2>1, <2>2, PlacesAre DEF ListFits
    <2> HIDE DEF s, r
    <2>4. /\ Good(r, l + 1) <=> Good(first, l + 1) /\ Good(s, l + 1)
          /\ Good(s, l + 1) /\ Good(first, l + 1) => r.object = <<member>> \o s.object /\ r.next = s.next
      BY <1>2, <2>1, <2>3, GoodAfter
    <2>5. ASSUME Good(first, l + 1)
          PROVE  Goes(step, p, first.next, Append(items, member), l)
      <3>1. IsSeq(Append(items, member)) /\ Append(items, member) = items \o <<member>>
        BY <1>1, SeqGrows
      <3>2. Good(s, l + 1) => items \o r.object = Append(items, member) \o s.object
        <4>1. ASSUME Good(s, l + 1)
              PROVE  (items \o <<member>>) \o s.object = items \o (<<member>> \o s.object)
          <5>1. s.next # 0
            BY <4>1 DEF Good
          <5>2. IsSeq(items) /\ IsSeq(s.object) /\ IsSeq(<<member>>)
            BY <1>1, <2>3, <5>1, Singles
          <5> DEFINE one == <<member>>  others == s.object
          <5>3. IsSeq(items) /\ IsSeq(others) /\ IsSeq(one)
            BY <5>2
          <5> HIDE DEF one, others
          <5>4. (items \o one) \o others = items \o (one \o others)
            BY <5>3, SeqsAssociate
          <5> QED
            BY <5>4 DEF one, others
        <4> QED
          BY <2>4, <2>5, <3>1, <4>1
      <3>3. Good(G[p].object, l) <=> Good(s, l + 1)
        BY <1>1, <2>4, <2>5
      <3>4. Good(s, l + 1) =>
              /\ G[p].object.object = EndedObject(step, Append(items, member) \o s.object, s.next)
              /\ G[p].object.next = EndedNext(step, s.next)
        BY <1>1, <2>4, <2>5, <3>2
      <3> QED
        BY <1>1, <2>1, <3>1, <3>3, <3>4 DEF Goes, s
    <2> QED
      BY <1>1, <2>4, <2>5
  <1> QED
    BY <1>3, <1>4

LEMMA ItemsGoOn ==
    ASSUME TextTyped, NEW p, NEW q, NEW items, NEW l, Goes("items", p, q, items, l), ~Is(Tokens, q, "]")
    PROVE  /\ ~Good(G[q].object, l + 1) => ~Good(G[p].object, l)
           /\ Good(G[q].object, l + 1) =>
                 Goes("items", p, G[q].object.next, Append(items, G[q].object.object), l)
  <1> DEFINE o == G[q].object
  <1>1. q \in Places
    BY DEF Goes
  <1>2. /\ G[q].members = MembersAt(Tokens, G, q, o) /\ o.height \in Nat
        /\ o.next # 0 => o.next \in Places
    BY <1>1, GIs, PlacesAre DEF ObjectFits
  <1> HIDE DEF o
  <1>3. Rest("items", q) = IF o.next = 0 THEN Failed ELSE After(o, Rest("items", o.next), o.object)
    BY <1>2 DEF MembersAt, Rest
  <1>4. /\ ~Good(o, l + 1) => ~Good(G[p].object, l)
        /\ Good(o, l + 1) => Goes("items", p, o.next, Append(items, o.object), l)
    BY <1>2, <1>3, GoesOn
  <1> QED
    BY <1>4 DEF o

LEMMA PairsGoOn ==
    ASSUME TextTyped, NEW p, NEW q, NEW items, NEW l, Goes("key", p, q, items, l), ~Is(Tokens, q, ">>")
    PROVE  /\ G[q].object.object.kind # "name" => ~Good(G[p].object, l)
           /\ G[q].object.object.kind = "name" =>
                 /\ G[q].object.next = q + 1 /\ q + 1 \in Places /\ Good(G[q].object, l + 1)
                 /\ ~Good(G[q + 1].object, l + 1) => ~Good(G[p].object, l)
                 /\ Good(G[q + 1].object, l + 1) =>
                      Goes("key", p, G[q + 1].object.next,
                           Append(items, <<G[q].object.object, G[q + 1].object.object>>), l)
  <1> DEFINE o == G[q].object
  <1>1. q \in Places /\ l \in Nat /\ l + 1 <= MaxObjectDepth
    BY DEF Goes
  <1>2. G[q].pairs = PairsAt(Tokens, G, q, o) /\ ObjectFits(o, q)
    BY <1>1, GIs
  <1>3. CASE o.object.kind # "name"
    <2>1. Rest("key", q) = Failed
      BY <1>2, <1>3 DEF PairsAt, Rest
    <2>2. ~Good(Rest("key", q), l + 1)
      BY <2>1, FailedIs DEF Good
    <2> QED
      BY <1>3, <2>2 DEF Goes
  <1>4. CASE o.object.kind = "name"
    <2> DEFINE v == G[q + 1].object
    <2>1. o.next = q + 1 /\ o.height = 0 /\ o.next \in Later(q)
      BY <1>2, <1>4 DEF ObjectFits
    <2>2. q + 1 # 0 /\ q + 1 \in Places
      BY <1>1, <2>1, PlacesAre
    <2>3. v.height \in Nat /\ (v.next # 0 => v.next \in Places)
      BY <2>2, GIs, PlacesAre DEF ObjectFits
    <2>4. Rest("key", q) = IF v.next = 0 THEN Failed
                           ELSE After(v, Rest("key", v.next), <<o.object, v.object>>)
      <3>1. G[q].pairs = PairsAt(Tokens, G, q, o) /\ G[o.next].object = v
        BY <1>2, <2>1
      <3> HIDE DEF o, v
      <3> QED
        BY <1>4, <3>1 DEF PairsAt, Rest
    <2>5. Good(o, l + 1)
      BY <1>1, <2>1, <2>2, PlacesAre DEF Good
    <2> HIDE DEF o, v
    <2>6. /\ ~Good(v, l + 1) => ~Good(G[p].object, l)
          /\ Good(v, l + 1) => Goes("key", p, v.next, Append(items, <<o.object, v.object>>), l)
      BY <2>3, <2>4, GoesOn
    <2> QED
      BY <1>4, <2>1, <2>2, <2>5, <2>6 DEF o, v
  <1> QED
    BY <1>3, <1>4

(* What a single token is, and the two integers and the R of a reference.  *)
LEMMA MarksAreNoNumbers ==
    /\ ~IsNumber(<<"[">>) /\ ~IsNumber(<<"<<">>) /\ ~IsNumber(End)
  <1>1. Head(<<"[">>) = "[" /\ Head(<<"<<">>) = "<<" /\ Head(End) = "end"
    BY DEF End
  <1> QED
    BY <1>1 DEF IsNumber, Digits

LEMMA EndFails ==
    ASSUME TextTyped, NEW l
    PROVE  ~Good(G[Len(Tokens) + 1].object, l)
  <1> DEFINE p == Len(Tokens) + 1
  <1>1. p \in Places /\ p > Len(Tokens)
    BY PlacesAre
  <1>2. G[p].object = Failed
    BY <1>1, GIs DEF ObjectAt
  <1> HIDE DEF p
  <1>3. ~Good(G[p].object, l)
    BY <1>2, FailedIs DEF Good
  <1> QED
    BY <1>3 DEF p

SaysReference(p) ==
    IsPositive(Unit(p)) /\ p + 1 \in 1 .. Len(Tokens) /\ IsNonnegative(Unit(p + 1)) /\ Is(Tokens, p + 2, "R")

LEMMA TokenIsObject ==
    ASSUME TextTyped, NEW p \in 1 .. Len(Tokens), Unit(p) \notin {<<"[">>, <<"<<">>}, ~SaysReference(p),
           NEW l \in Nat, l <= MaxObjectDepth
    PROVE  /\ Good(G[p].object, l)
           /\ G[p].object.object = Simple(Unit(p)) /\ G[p].object.next = p + 1
  <1> DEFINE t == Unit(p)  o == G[p].object
  <1>1. /\ p \in Places /\ MaxObjectDepth \in Nat /\ ~(p > Len(Tokens)) /\ DOMAIN Tokens = 1 .. Len(Tokens)
        /\ p + 1 # 0
    BY PlacesAre
  <1>2. o = ObjectAt(Tokens, G, p)
    BY <1>1, GIs
  <1>3. Tokens[p].units = t /\ Tokens[p + 1].units = Unit(p + 1)
    BY DEF Unit
  <1> HIDE DEF t, o
  <1>4. o = Parsed(Simple(t), p + 1, 0)
    BY <1>1, <1>2, <1>3 DEF ObjectAt, SaysReference, t
  <1>5. o.object = Simple(t) /\ o.next = p + 1 /\ o.height = 0
    BY <1>4, ParsedIs
  <1>6. Good(o, l)
    BY <1>1, <1>5 DEF Good
  <1> QED
    BY <1>5, <1>6 DEF o, t

LEMMA ReferenceIsObject ==
    ASSUME TextTyped, NEW p \in 1 .. Len(Tokens), SaysReference(p), NEW l \in Nat, l <= MaxObjectDepth
    PROVE  /\ Good(G[p].object, l)
           /\ G[p].object.object = Object("reference", <<Unit(p), Unit(p + 1)>>, 0)
           /\ G[p].object.next = p + 3
  <1> DEFINE t == Unit(p)  second == Unit(p + 1)  o == G[p].object
             whole == Object("reference", <<t, second>>, 0)
  <1>1. /\ p \in Places /\ MaxObjectDepth \in Nat /\ ~(p > Len(Tokens)) /\ DOMAIN Tokens = 1 .. Len(Tokens)
        /\ p + 3 # 0
    BY PlacesAre
  <1>2. o = ObjectAt(Tokens, G, p)
    BY <1>1, GIs
  <1>3. Tokens[p].units = t /\ Tokens[p + 1].units = second
    BY DEF Unit
  <1>4. t # <<"[">> /\ t # <<"<<">>
    BY MarksAreNoNumbers DEF SaysReference, IsPositive, IsNonnegative
  <1> HIDE DEF t, o, second
  <1>5. o = Parsed(whole, p + 3, 0)
    BY <1>1, <1>2, <1>3, <1>4 DEF ObjectAt, SaysReference, t, second
  <1> HIDE DEF whole
  <1>6. o.object = whole /\ o.next = p + 3 /\ o.height = 0
    BY <1>5, ParsedIs
  <1>7. Good(o, l)
    BY <1>1, <1>6 DEF Good
  <1> QED
    BY <1>6, <1>7 DEF o, t, second, whole

-----------------------------------------------------------------------------
(***************************************************************************)
(* The calls: each one but the last waits for a member of the array or     *)
(* dictionary that it reads, the last one stands at the next token.        *)
(***************************************************************************)
IsCall(call) == call = [step |-> call.step, object |-> call.object, second |-> call.second, items |-> call.items]

Waits(call, p, q, l) ==
    /\ IsCall(call)
    /\ \/ call.step = "items" /\ Goes("items", p, q, call.items, l) /\ ~Is(Tokens, q, "]")
       \/ call.step = "key" /\ Goes("key", p, q, call.items, l) /\ ~Is(Tokens, q, ">>")
       \/ /\ call.step = "value"
          /\ \E k : /\ q = k + 1 /\ Goes("key", p, k, call.items, l) /\ ~Is(Tokens, k, ">>")
                    /\ G[k].object.object.kind = "name" /\ call.object = G[k].object.object

StandsAt(call, p, here, l) ==
    \/ call.step = "object" /\ here = p
    \/ /\ call.step = "version" /\ p \in 1 .. Len(Tokens) /\ here = p + 1
       /\ IsPositive(Unit(p)) /\ call.object = Simple(Unit(p))
    \/ /\ call.step = "keyword" /\ p \in 1 .. Len(Tokens) /\ p + 1 \in 1 .. Len(Tokens) /\ here = p + 2
       /\ IsPositive(Unit(p)) /\ IsNonnegative(Unit(p + 1))
       /\ call.object = Simple(Unit(p)) /\ call.second = Unit(p + 1)
    \/ call.step \in {"items", "key"} /\ Goes(call.step, p, here, call.items, l)
    \/ /\ call.step = "stream" /\ Good(G[p].object, l)
       /\ G[p].object.object = EndedObject("key", call.items, here)
       /\ G[p].object.next = EndedNext("key", here)

Stands(call, p, here, l) ==
    /\ IsCall(call) /\ p \in Places /\ here \in Places /\ l \in Nat /\ l <= MaxObjectDepth
    /\ StandsAt(call, p, here, l)

LEMMA WaitsFor ==
    ASSUME TextTyped, NEW call, NEW p, NEW q, NEW l, Waits(call, p, q, l)
    PROVE  /\ p \in Places /\ q \in Places /\ l \in Nat /\ l + 1 <= MaxObjectDepth
           /\ ~Good(G[q].object, l + 1) => ~Good(G[p].object, l)
  <1>1. CASE call.step = "items" /\ Goes("items", p, q, call.items, l) /\ ~Is(Tokens, q, "]")
    BY <1>1, ItemsGoOn DEF Goes
  <1>2. CASE call.step = "key" /\ Goes("key", p, q, call.items, l) /\ ~Is(Tokens, q, ">>")
    BY <1>2, PairsGoOn DEF Goes
  <1>3. CASE \E k : /\ q = k + 1 /\ Goes("key", p, k, call.items, l) /\ ~Is(Tokens, k, ">>")
                    /\ G[k].object.object.kind = "name" /\ call.object = G[k].object.object
    <2>1. PICK k : /\ q = k + 1 /\ Goes("key", p, k, call.items, l) /\ ~Is(Tokens, k, ">>")
                   /\ G[k].object.object.kind = "name"
      BY <1>3
    <2>2. k + 1 \in Places /\ (~Good(G[k + 1].object, l + 1) => ~Good(G[p].object, l))
      BY <2>1, PairsGoOn
    <2> QED
      BY <2>1, <2>2 DEF Goes
  <1> QED
    BY <1>1, <1>2, <1>3 DEF Waits

Callers(st, ps, k) == \A i \in 1 .. k : Waits(st[i], ps[i], ps[i + 1], i - 1)

(* What fails fails as a whole.                                            *)
LEMMA AllFail ==
    ASSUME TextTyped, NEW st, NEW ps, NEW k \in Nat, Callers(st, ps, k), ps[1] \in Places,
           ~Good(G[ps[k + 1]].object, k)
    PROVE  G[ps[1]].objects = <<>>
  <1> DEFINE n == k + 1  S == {i \in 1 .. n : ~Good(G[ps[i]].object, i - 1)}
  <1>1. ASSUME NEW i \in 1 .. n, \A j \in i + 1 .. n : j \in S
        PROVE  i \in S
    <2>1. CASE i = n
      <3>1. i - 1 = k
        BY <2>1
      <3> QED
        BY <2>1, <3>1
    <2>2. CASE i # n
      <3>1. i \in 1 .. k /\ i + 1 \in i + 1 .. n /\ i - 1 + 1 = i + 1 - 1
        BY <2>2
      <3>2. i + 1 \in S
        <4> HIDE DEF S
        <4> QED
          BY <1>1, <3>1
      <3>3. ~Good(G[ps[i + 1]].object, i - 1 + 1)
        BY <3>1, <3>2
      <3>4. Waits(st[i], ps[i], ps[i + 1], i - 1)
        BY <3>1 DEF Callers
      <3>5. ~Good(G[ps[i]].object, i - 1)
        <4> DEFINE l == i - 1
        <4> HIDE DEF l
        <4>1. Waits(st[i], ps[i], ps[i + 1], l) /\ ~Good(G[ps[i + 1]].object, l + 1)
          BY <3>3, <3>4 DEF l
        <4>2. ~Good(G[ps[i]].object, l)
          BY <4>1, WaitsFor
        <4> QED
          BY <4>2 DEF l
      <3> QED
        BY <3>5
    <2> QED
      BY <2>1, <2>2
  <1>2. 1 \in S
    <2> HIDE DEF S
    <2>1. n \in Nat /\ 1 \in 1 .. n
      OBVIOUS
    <2> HIDE DEF n
    <2>2. \A i \in 1 .. n : i \in S
      BY <1>1, <2>1, FromTheEnd
    <2> QED
      BY <2>1, <2>2
  <1>3. 1 - 1 = 0
    OBVIOUS
  <1>4. ~Good(G[ps[1]].object, 0)
    BY <1>2, <1>3
  <1>5. G[ps[1]].objects = ObjectsAt(G, G[ps[1]].object) /\ ObjectFits(G[ps[1]].object, ps[1])
    BY GIs
  <1> DEFINE o == G[ps[1]].object
  <1>6. o.height \in Nat /\ MaxObjectDepth \in Nat
    BY <1>5, PlacesAre DEF ObjectFits
  <1>7. o.next = 0 \/ o.height > MaxObjectDepth
    <2> HIDE DEF o
    <2>1. ~Good(o, 0)
      BY <1>4 DEF o
    <2> QED
      BY <1>6, <2>1 DEF Good
  <1> QED
    BY <1>5, <1>7 DEF ObjectsAt

Running(st, ps, here) ==
    /\ IsSeq(st) /\ st # <<>> /\ Callers(st, ps, Len(st) - 1)
    /\ Stands(Last(st), ps[Len(st)], here, Len(st) - 1)

Returning(st, ret, ps, here) ==
    /\ IsSeq(st) /\ Callers(st, ps, Len(st))
    /\ ps[Len(st) + 1] \in Places /\ Good(G[ps[Len(st) + 1]].object, Len(st))
    /\ ret = G[ps[Len(st) + 1]].object.object /\ here = G[ps[Len(st) + 1]].object.next

LEMMA TopReplaced ==
    ASSUME NEW st, IsSeq(st), st # <<>>, NEW call
    PROVE  LET new == Append(Front(st), call)
           IN  /\ IsSeq(new) /\ Len(new) = Len(st) /\ new # <<>> /\ Last(new) = call
               /\ Len(st) \in Nat \ {0} /\ new[Len(st)] = call
               /\ \A i \in 1 .. Len(st) - 1 : new[i] = st[i]
  <1> DEFINE front == Front(st)  new == Append(front, call)
  <1>1. /\ IsSeq(front) /\ Len(st) \in Nat /\ Len(st) >= 1 /\ Len(front) = Len(st) - 1
        /\ \A i \in 1 .. Len(st) - 1 : front[i] = st[i]
    BY SeqShrinks
  <1> HIDE DEF front
  <1>2. /\ IsSeq(new) /\ new # <<>> /\ Len(new) = Len(front) + 1
        /\ \A i \in 1 .. Len(front) : new[i] = front[i]
        /\ new[Len(front) + 1] = call
    BY <1>1, SeqGrows
  <1> HIDE DEF new
  <1>3. Len(front) + 1 = Len(st)
    BY <1>1
  <1>4. Last(new) = new[Len(new)]
    BY <1>2, SeqShrinks
  <1>5. /\ IsSeq(new) /\ Len(new) = Len(st) /\ new # <<>> /\ Last(new) = call
        /\ Len(st) \in Nat \ {0} /\ new[Len(st)] = call
        /\ \A i \in 1 .. Len(st) - 1 : new[i] = st[i]
    BY <1>1, <1>2, <1>3, <1>4
  <1> QED
    BY <1>5 DEF new, front

(* The last call goes on.                                                  *)
LEMMA GoesFurther ==
    ASSUME NEW st, IsSeq(st), st # <<>>, NEW ps, NEW here, NEW call, Callers(st, ps, Len(st) - 1),
           Stands(call, ps[Len(st)], here, Len(st) - 1)
    PROVE  LET new == Append(Front(st), call)
           IN  Running(new, ps, here) /\ Len(new) = Len(st) /\ Last(new) = call
  <1> DEFINE new == Append(Front(st), call)
  <1>1. /\ IsSeq(new) /\ Len(new) = Len(st) /\ new # <<>> /\ Last(new) = call
        /\ \A i \in 1 .. Len(st) - 1 : new[i] = st[i]
    BY TopReplaced
  <1> HIDE DEF new
  <1>2. Callers(new, ps, Len(new) - 1)
    BY <1>1 DEF Callers
  <1>3. Running(new, ps, here)
    BY <1>1, <1>2 DEF Running
  <1> QED
    BY <1>1, <1>3 DEF new

(* The last call waits for a member, which begins here.                    *)
LEMMA CallsForMember ==
    ASSUME TextTyped, NEW st, IsSeq(st), st # <<>>, NEW ps \in [Nat -> Places], NEW here, NEW call,
           Callers(st, ps, Len(st) - 1), Waits(call, ps[Len(st)], here, Len(st) - 1)
    PROVE  LET new == Append(Append(Front(st), call), Call("object"))
               ps2 == [ps EXCEPT ![Len(st) + 1] = here]
           IN  /\ ps2 \in [Nat -> Places] /\ ps2[1] = ps[1]
               /\ Running(new, ps2, here) /\ Len(new) = Len(st) + 1 /\ Last(new) = Call("object")
  <1> DEFINE waiting == Append(Front(st), call)  new == Append(waiting, Call("object"))
             ps2 == [ps EXCEPT ![Len(st) + 1] = here]
  <1>1. /\ IsSeq(waiting) /\ Len(waiting) = Len(st) /\ waiting[Len(st)] = call
        /\ \A i \in 1 .. Len(st) - 1 : waiting[i] = st[i]
        /\ Len(st) \in Nat \ {0}
    BY TopReplaced
  <1> HIDE DEF waiting
  <1>2. /\ IsSeq(new) /\ new # <<>> /\ Len(new) = Len(waiting) + 1
        /\ \A i \in 1 .. Len(waiting) : new[i] = waiting[i]
        /\ new[Len(waiting) + 1] = Call("object")
    BY <1>1, SeqGrows
  <1> HIDE DEF new
  <1>3. Len(new) = Len(st) + 1 /\ Last(new) = Call("object")
    BY <1>1, <1>2, SeqShrinks
  <1>4. here \in Places /\ Len(st) <= MaxObjectDepth
    <2> DEFINE l == Len(st) - 1
    <2>1. l + 1 = Len(st)
      BY <1>1
    <2> HIDE DEF l
    <2>2. Waits(call, ps[Len(st)], here, l)
      BY DEF l
    <2> QED
      BY <2>1, <2>2, WaitsFor
  <1>5. /\ ps2 \in [Nat -> Places] /\ ps2[Len(st) + 1] = here
        /\ \A i \in 1 .. Len(st) : ps2[i] = ps[i]
    BY <1>1, <1>4
  <1> HIDE DEF ps2
  <1>6. Callers(new, ps2, Len(st))
    <2>1. ASSUME NEW i \in 1 .. Len(st)
          PROVE  Waits(new[i], ps2[i], ps2[i + 1], i - 1)
      <3>1. CASE i = Len(st)
        <4>1. new[i] = call /\ ps2[i] = ps[Len(st)] /\ ps2[i + 1] = here /\ i - 1 = Len(st) - 1
          BY <1>1, <1>2, <1>5, <3>1
        <4> QED
          BY <4>1
      <3>2. CASE i # Len(st)
        <4>1. i \in 1 .. Len(st) - 1 /\ i \in 1 .. Len(waiting) /\ i + 1 \in 1 .. Len(st)
          BY <1>1, <3>2
        <4>2. new[i] = st[i] /\ ps2[i] = ps[i] /\ ps2[i + 1] = ps[i + 1]
          BY <1>1, <1>2, <1>5, <4>1
        <4> QED
          BY <4>1, <4>2 DEF Callers
      <3> QED
        BY <3>1, <3>2
    <2> QED
      BY <2>1 DEF Callers
  <1>7. Len(st) = Len(new) - 1 /\ Len(st) \in Nat
    BY <1>1, <1>3
  <1>8. Stands(Call("object"), here, here, Len(st))
    <2>1. IsCall(Call("object")) /\ Call("object").step = "object"
      BY DEF Call, IsCall
    <2> QED
      BY <1>4, <1>7, <2>1 DEF Stands, StandsAt
  <1>9. Running(new, ps2, here)
    BY <1>2, <1>3, <1>5, <1>6, <1>7, <1>8 DEF Running
  <1>10. ps2[1] = ps[1]
    BY <1>1, <1>5
  <1> QED
    BY <1>3, <1>5, <1>9, <1>10 DEF new, waiting, ps2

(* The last call returns what it has read.                                 *)
LEMMA Returns ==
    ASSUME TextTyped, NEW st, NEW ps, NEW here, Running(st, ps, here),
           Good(G[ps[Len(st)]].object, Len(st) - 1)
    PROVE  /\ Returning(Front(st), G[ps[Len(st)]].object.object, ps, G[ps[Len(st)]].object.next)
           /\ Len(Front(st)) = Len(st) - 1
  <1> DEFINE front == Front(st)
  <1>1. /\ IsSeq(front) /\ Len(st) \in Nat /\ Len(st) >= 1 /\ Len(front) = Len(st) - 1
        /\ \A i \in 1 .. Len(st) - 1 : front[i] = st[i]
    BY SeqShrinks DEF Running
  <1> HIDE DEF front
  <1>2. Callers(front, ps, Len(front))
    BY <1>1 DEF Callers, Running
  <1>3. Len(front) + 1 = Len(st) /\ ps[Len(st)] \in Places
    BY <1>1 DEF Running, Stands
  <1>4. Returning(front, G[ps[Len(st)]].object.object, ps, G[ps[Len(st)]].object.next)
    BY <1>1, <1>2, <1>3 DEF Returning
  <1> QED
    BY <1>1, <1>4 DEF front

-----------------------------------------------------------------------------
(***************************************************************************)
(* The parser at a place of the text: what it has returned and what is     *)
(* here make up what is written.                                           *)
(***************************************************************************)
DepthOf(st, ret) ==
    IF ret = None /\ st # <<>> /\ Last(st).step \notin {"items", "key"} THEN Len(st) - 1 ELSE Len(st)

Stacked(st, ret, objs, deep, ps, here) ==
    /\ IsSeq(st) /\ IsSeq(objs) /\ ps \in [Nat -> Places] /\ here \in Places
    /\ deep = DepthOf(st, ret)
    /\ \/ st = <<>> /\ ret = None /\ objs \o G[here].objects = Written
       \/ /\ ret = None /\ Running(st, ps, here) /\ objs \o G[ps[1]].objects = Written
       \/ /\ ret # None /\ Returning(st, ret, ps, here) /\ objs \o G[ps[1]].objects = Written

(* There is room for what looking ahead puts back.                         *)
Room(n) ==
    stack # <<>> /\ returned = None =>
        /\ Top.step \in {"version", "stream"} => n = 0 \/ (n = 1 /\ token = NoToken)
        /\ Top.step = "keyword" => n = 0

Calm(ps, here, n) ==
    /\ Opened /\ Looks(here, n) /\ Room(n) /\ finished = FALSE
    /\ Stacked(stack, returned, objects, depth, ps, here)

Told(objs) == objs = Written \/ (EndsInTwoIntegers /\ objs = Front(Written))

(* What is left of the text is broken or too deep, or it is at its end.    *)
Failing ==
    /\ Opened /\ Told(objects) /\ IsSeq(tokenBuffer) /\ Len(tokenBuffer) <= 2 /\ IsSeq(stack)
    /\ \/ returned = Null /\ finished = FALSE
       \/ returned = None /\ finished = TRUE /\ stack = <<>>
       \/ returned = None /\ finished = FALSE /\ stack # <<>> /\ Top.step = "failed"

(* The version of what might have been a reference was forgotten.          *)
Lost ==
    /\ Opened /\ finished = FALSE /\ IsSeq(stack)
    /\ \E here : here = Len(Tokens) + 1 /\ Looks(here, 0)
    /\ \/ /\ stack = <<>> /\ depth = 0 /\ returned # Null
          /\ \E objs : Told(objs) /\ objs = IF returned = None THEN objects ELSE Append(objects, returned)
       \/ /\ stack # <<>> /\ Told(objects) /\ returned = None
          /\ (Top.step = "object" \/ (IsCall(Top) /\ Top.step \in {"items", "key"}))
       \/ /\ stack # <<>> /\ Told(objects) /\ returned.kind = "integer"
          /\ IsCall(Top) /\ Top.step \in {"items", "key", "value"}

(* The same text.                                                          *)
Same == content' = content /\ from' = from

LEMMA GrammarStays ==
    ASSUME Same
    PROVE  Tokens' = Tokens /\ G' = G /\ Written' = Written /\ (EndsInTwoIntegers' <=> EndsInTwoIntegers)
  <1>1. Tokens' = Tokens /\ from' = from
    BY TextStays DEF Same
  <1>2. Grammar(Tokens)' = Grammar(Tokens)
    BY <1>1 DEF Grammar, GrammarAt, ObjectAt, MembersAt, PairsAt, ObjectsAt
  <1>3. EndsInTwoIntegers' <=> EndsInTwoIntegers
    BY <1>1 DEF EndsInTwoIntegers
  <1> QED
    BY <1>1, <1>2, <1>3 DEF G, Written

LEMMA ToldStays ==
    ASSUME Same, NEW objs
    PROVE  /\ Told(objs) => Told(objs)'
           /\ objs = objects' /\ Told(objs) => Told(objects)'
  BY GrammarStays DEF Told

LEMMA GoesStays ==
    ASSUME Same, NEW step, NEW p, NEW q, NEW items, NEW l
    PROVE  Goes(step, p, q, items, l)' <=> Goes(step, p, q, items, l)
  <1>1. Tokens' = Tokens /\ from' = from /\ G' = G
    BY GrammarStays DEF Same
  <1> QED
    BY <1>1 DEF Goes, Good, Rest, Is, EndedObject, EndedNext, Places

LEMMA WaitsStays ==
    ASSUME Same, NEW call, NEW p, NEW q, NEW l
    PROVE  Waits(call, p, q, l)' <=> Waits(call, p, q, l)
  <1>1. Tokens' = Tokens /\ G' = G
    BY GrammarStays
  <1>2. \A step, r, s, items : Goes(step, r, s, items, l)' <=> Goes(step, r, s, items, l)
    BY GoesStays
  <1> QED
    BY <1>1, <1>2 DEF Waits, Is

LEMMA StandsStays ==
    ASSUME Same, NEW call, NEW p, NEW here, NEW l
    PROVE  Stands(call, p, here, l)' <=> Stands(call, p, here, l)
  <1>1. Tokens' = Tokens /\ G' = G /\ from' = from
    BY GrammarStays DEF Same
  <1>2. \A step, items : Goes(step, p, here, items, l)' <=> Goes(step, p, here, items, l)
    BY GoesStays
  <1> QED
    BY <1>1, <1>2 DEF Stands, StandsAt, Is, Good, EndedObject, EndedNext, Places, Unit

LEMMA StackedStays ==
    ASSUME Same, NEW ps, NEW here, Stacked(stack', returned', objects', depth', ps, here)
    PROVE  Stacked(stack, returned, objects, depth, ps, here)'
  <1>1. Tokens' = Tokens /\ G' = G /\ Written' = Written
    BY GrammarStays
  <1>2. PICK st : st = stack'
    OBVIOUS
  <1>3. \A call, p, q, l : Waits(call, p, q, l)' <=> Waits(call, p, q, l)
    BY WaitsStays
  <1>4. \A call, p, l : Stands(call, p, here, l)' <=> Stands(call, p, here, l)
    BY StandsStays
  <1>5. \A k : Callers(st, ps, k) => Callers(stack, ps, k)'
    BY <1>2, <1>3 DEF Callers
  <1>6. Running(st, ps, here) => Running(stack, ps, here)'
    BY <1>2, <1>4, <1>5 DEF Running
  <1>7. Returning(st, returned', ps, here) => Returning(stack, returned, ps, here)'
    BY <1>1, <1>2, <1>5 DEF Returning, Good, Places
  <1> QED
    BY <1>1, <1>2, <1>6, <1>7 DEF Stacked, Places

LEMMA QueueIs ==
    ASSUME NEW here, NEW n, Looks(here, n)
    PROVE  IsSeq(tokenBuffer) /\ Len(tokenBuffer) <= 2 /\ here \in Places
  <1>1. PICK b, pos : Queued(b, pos, here, n)
    BY DEF Looks
  <1>2. ASSUME NEW i, NEW m \in 0 .. 2
        PROVE  IsSeq(Ahead(i, m)) /\ Len(Ahead(i, m)) <= 2
    <2>1. Len(Ahead(i, m)) = m
      BY NothingAhead
    <2>2. Ahead(i, m) \in Seq({Unit(i), Unit(i + 1)})
      <3>1. /\ <<>> \in Seq({Unit(i), Unit(i + 1)}) /\ <<Unit(i)>> \in Seq({Unit(i), Unit(i + 1)})
            /\ <<Unit(i), Unit(i + 1)>> \in Seq({Unit(i), Unit(i + 1)})
        OBVIOUS
      <3> QED
        BY <3>1 DEF Ahead
    <2> QED
      BY <2>1, <2>2 DEF IsSeq
  <1>3. IsSeq(<<>>) /\ Len(<<>>) <= 2
    <2>1. IsSeq(<<>>) /\ Len(<<>>) = 0
      BY Singles, Zenon
    <2> QED
      BY <2>1
  <1>4. n \in 0 .. 2 /\ here \in Places
    BY <1>1 DEF Queued, Places
  <1> QED
    BY <1>1, <1>2, <1>3, <1>4 DEF Queued

Framed(ps) ==
    /\ IsSeq(stack) /\ stack # <<>> /\ IsSeq(objects) /\ ps \in [Nat -> Places]
    /\ Callers(stack, ps, Len(stack) - 1) /\ objects \o G[ps[1]].objects = Written

LEMMA NoneIsNone ==
    None.kind = "none" /\ Null.kind = "NULL" /\ Null # None
  <1>1. None.kind = "none" /\ Null.kind = "NULL"
    BY DEF None, Null, Object
  <1> QED
    BY <1>1

LEMMA GoodIsSome ==
    ASSUME TextTyped, NEW p \in Places, NEW l, Good(G[p].object, l)
    PROVE  /\ G[p].object.object # None /\ G[p].object.object # Null
           /\ G[p].object.next \in Places /\ G[p].object.object.kind \in Kinds
  <1>1. ObjectFits(G[p].object, p) /\ G[p].object.next # 0
    BY GIs DEF Good
  <1> QED
    BY <1>1, NoneIsNone, PlacesAre DEF ObjectFits, Kinds

(* The last call goes on, or another one takes its place.                  *)
LEMMA GoesOnCalmly ==
    ASSUME Opened, Same, Opened', UNCHANGED objects, finished' = FALSE, NEW ps, Framed(ps),
           NEW call, NEW here, NEW n, Looks(here, n)', Stands(call, ps[Len(stack)], here, Len(stack) - 1),
           stack' = Append(Front(stack), call), returned' = None,
           depth' = IF call.step \in {"items", "key"} THEN Len(stack) ELSE Len(stack) - 1,
           call.step \in {"version", "stream"} => n = 0 \/ (n = 1 /\ token' = NoToken),
           call.step = "keyword" => n = 0
    PROVE  Calm(ps, here, n)'
  <1>1. Running(stack', ps, here) /\ Len(stack') = Len(stack) /\ Last(stack') = call
    BY GoesFurther DEF Framed
  <1>2. IsSeq(stack') /\ stack' # <<>> /\ here \in Places
    BY <1>1 DEF Running, Stands
  <1>3. depth' = DepthOf(stack', returned')
    BY <1>1, <1>2 DEF DepthOf
  <1>4. Stacked(stack', returned', objects', depth', ps, here)
    BY <1>1, <1>2, <1>3 DEF Stacked, Framed
  <1>5. Stacked(stack, returned, objects, depth, ps, here)'
    BY <1>4, StackedStays
  <1>6. Room(n)'
    BY <1>1 DEF Room, Top
  <1> QED
    BY <1>5, <1>6 DEF Calm

(* It calls for a member.                                                  *)
LEMMA CallsCalmly ==
    ASSUME Opened, Same, Opened', UNCHANGED objects, finished' = FALSE, NEW ps, Framed(ps),
           NEW call, NEW here, NEW n, Looks(here, n)', Waits(call, ps[Len(stack)], here, Len(stack) - 1),
           stack' = Append(Append(Front(stack), call), Call("object")), returned' = None,
           depth' = Len(stack)
    PROVE  \E ps2 : Calm(ps2, here, n)'
  <1>0. PICK ps2 : ps2 = [ps EXCEPT ![Len(stack) + 1] = here]
    OBVIOUS
  <1>1. /\ ps2 \in [Nat -> Places] /\ ps2[1] = ps[1] /\ Running(stack', ps2, here)
        /\ Len(stack') = Len(stack) + 1 /\ Last(stack') = Call("object")
    <2>1. TextTyped /\ IsSeq(stack) /\ stack # <<>> /\ ps \in [Nat -> Places] /\ Callers(stack, ps, Len(stack) - 1)
      BY OpenedText DEF Framed
    <2> DEFINE more == Append(Append(Front(stack), call), Call("object"))
    <2>2. /\ ps2 \in [Nat -> Places] /\ ps2[1] = ps[1] /\ Running(more, ps2, here)
          /\ Len(more) = Len(stack) + 1 /\ Last(more) = Call("object")
      BY <1>0, <2>1, CallsForMember
    <2>3. stack' = more
      OBVIOUS
    <2> HIDE DEF more
    <2> QED
      BY <2>2, <2>3
  <1>2. IsSeq(stack') /\ stack' # <<>> /\ here \in Places /\ Call("object").step = "object"
    BY <1>1 DEF Running, Stands, Call
  <1>3. depth' = DepthOf(stack', returned')
    <2>1. Len(stack) \in Nat
      BY SeqShrinks DEF Framed
    <2> QED
      BY <1>1, <1>2, <2>1 DEF DepthOf
  <1>4. Stacked(stack', returned', objects', depth', ps2, here)
    BY <1>1, <1>2, <1>3 DEF Stacked, Framed
  <1>5. Stacked(stack, returned, objects, depth, ps2, here)'
    BY <1>4, StackedStays
  <1>6. Room(n)'
    BY <1>1, <1>2 DEF Room, Top
  <1> QED
    BY <1>5, <1>6 DEF Calm

(* It returns its object.                                                  *)
LEMMA ReturnsCalmly ==
    ASSUME Opened, Same, Opened', UNCHANGED objects, finished' = FALSE, NEW ps, Framed(ps),
           NEW here, Running(stack, ps, here), NEW next, NEW n, Looks(next, n)',
           Good(G[ps[Len(stack)]].object, Len(stack) - 1), next = G[ps[Len(stack)]].object.next,
           Return(G[ps[Len(stack)]].object.object), depth' = Len(stack) - 1
    PROVE  Calm(ps, next, n)'
  <1>1. /\ TextTyped /\ stack' = Front(stack) /\ returned' = G[ps[Len(stack)]].object.object
        /\ ps[Len(stack)] \in Places
    BY OpenedText DEF Return, Running, Stands
  <1>2. Returning(stack', returned', ps, next) /\ Len(stack') = Len(stack) - 1
    BY <1>1, Returns
  <1>3. returned' # None /\ next \in Places
    BY <1>1, GoodIsSome
  <1>4. IsSeq(stack') /\ depth' = DepthOf(stack', returned')
    BY <1>2, <1>3 DEF DepthOf, Returning
  <1>5. Stacked(stack', returned', objects', depth', ps, next)
    BY <1>2, <1>3, <1>4 DEF Stacked, Framed
  <1>6. Stacked(stack, returned, objects, depth, ps, next)'
    BY <1>5, StackedStays
  <1>7. Room(n)'
    BY <1>3 DEF Room
  <1> QED
    BY <1>6, <1>7 DEF Calm

(* What cannot be read fails.                                              *)
LEMMA NothingFollows ==
    ASSUME TextTyped, IsSeq(objects), NEW ps \in [Nat -> Places], NEW k \in Nat, Callers(stack, ps, k),
           ~Good(G[ps[k + 1]].object, k), objects \o G[ps[1]].objects = Written
    PROVE  objects = Written
  <1>1. G[ps[1]].objects = <<>>
    BY AllFail
  <1>2. objects \o <<>> = objects
    BY SeqsJoin
  <1> QED
    BY <1>1, <1>2

LEMMA FailsCalmly ==
    ASSUME Opened, Same, Opened', UNCHANGED <<objects, tokenBuffer>>, finished' = FALSE,
           NEW here, NEW n, Looks(here, n), IsSeq(stack), stack # <<>>,
           NEW ps \in [Nat -> Places], NEW k \in Nat, Callers(stack, ps, k),
           ~Good(G[ps[k + 1]].object, k), IsSeq(objects), objects \o G[ps[1]].objects = Written,
           \/ Return(Null)
           \/ ReplaceTop(Call("failed")) /\ returned' = None
    PROVE  Failing'
  <1>1. Told(objects)'
    <2>1. objects = Written
      BY OpenedText, NothingFollows
    <2> QED
      BY <2>1, ToldStays DEF Told
  <1>2. IsSeq(tokenBuffer') /\ Len(tokenBuffer') <= 2
    BY QueueIs
  <1>3. CASE Return(Null)
    <2>1. IsSeq(stack') /\ returned' = Null
      BY <1>3, SeqShrinks DEF Return
    <2>2. IsSeq(stack)' /\ IsSeq(tokenBuffer)'
      BY <1>2, <2>1
    <2> QED
      BY <1>1, <1>2, <2>1, <2>2 DEF Failing
  <1>4. CASE ReplaceTop(Call("failed")) /\ returned' = None
    <2>1. IsSeq(stack') /\ stack' # <<>> /\ Last(stack') = Call("failed")
      BY <1>4, TopReplaced DEF ReplaceTop
    <2>2. Call("failed").step = "failed"
      BY DEF Call
    <2>3. IsSeq(stack)' /\ IsSeq(tokenBuffer)'
      BY <1>2, <2>1
    <2> QED
      BY <1>1, <1>2, <1>4, <2>1, <2>2, <2>3 DEF Failing, Top
  <1> QED
    BY <1>3, <1>4

-----------------------------------------------------------------------------
(***************************************************************************)
(* The steps of the parser while all that it has read is right.            *)
(***************************************************************************)
Calmly == \E ps, here, n : Calm(ps, here, n)

LEMMA LooksStays ==
    ASSUME Opened, UNCHANGED <<vars, content, from, tokenizerVars, tokenBuffer>>, NEW here, NEW n, Looks(here, n)
    PROVE  Opened' /\ Looks(here, n)' /\ Same
  <1>1. PICK b, pos : Reading(b, pos) /\ Queued(b, pos, here, n)
    BY DEF Looks
  <1>2. UNCHANGED <<vars, content, from, pushed, partial, token, tokenBuffer>>
    BY DEF tokenizerVars
  <1>3. Opened' /\ TextTyped /\ Tokens' = Tokens
    BY <1>2, OpenedStays, TextStays
  <1>4. Reading(b, pos)'
    <2>1. GetCurrentPosition' = GetCurrentPosition
      BY <1>2 DEF vars, GetCurrentPosition
    <2> QED
      BY <1>1, <1>2, <2>1, ReadingAfter DEF Reading
  <1>5. Queued(b, pos, here, n)'
    BY <1>1, <1>2, <1>3 DEF Queued, Ahead, Unit, AtStream
  <1> QED
    BY <1>2, <1>3, <1>4, <1>5 DEF Looks, Same

LEMMA CalmCall ==
    ASSUME NEW ps, NEW here, NEW n, Calm(ps, here, n), stack # <<>>, returned = None
    PROVE  /\ TextTyped /\ Framed(ps) /\ Running(stack, ps, here)
           /\ Len(stack) - 1 \in Nat /\ Len(stack) - 1 + 1 = Len(stack)
           /\ IsCall(Top) /\ StandsAt(Top, ps[Len(stack)], here, Len(stack) - 1)
           /\ ps[Len(stack)] \in Places /\ here \in Places /\ Len(stack) - 1 <= MaxObjectDepth
           /\ depth = IF Top.step \in {"items", "key"} THEN Len(stack) ELSE Len(stack) - 1
  <1>1. TextTyped
    BY OpenedText DEF Calm
  <1>2. /\ Running(stack, ps, here) /\ IsSeq(stack) /\ IsSeq(objects) /\ ps \in [Nat -> Places]
        /\ objects \o G[ps[1]].objects = Written /\ depth = DepthOf(stack, returned)
    BY DEF Calm, Stacked
  <1>3. Len(stack) \in Nat /\ Len(stack) >= 1
    BY <1>2, SeqShrinks
  <1> QED
    BY <1>1, <1>2, <1>3 DEF Framed, Running, Stands, DepthOf, Top

TokenIs(here, n) ==
    \/ token = End /\ n = 0 /\ here = Len(Tokens) + 1
    \/ token # End /\ here \in 1 .. Len(Tokens) /\ token = Unit(here) /\ n \in 0 .. 1

(* A token is used.                                                        *)
LEMMA CalmParses ==
    ASSUME NEW ps, NEW here, NEW n, Calm(ps, here, n), NEW step, Has(step), Parses
    PROVE  /\ stack # <<>> /\ returned = None /\ Top.step = step /\ token # NoToken /\ token' = NoToken
           /\ Opened /\ Looks(here, n) /\ UsesToken /\ Same /\ Opened' /\ UNCHANGED objects /\ finished' = FALSE
           /\ token # End /\ tokenBuffer' = tokenBuffer => Looks(here + 1, n)'
           /\ token # End /\ ReturnToken => Looks(here, n + 1)'
           /\ n = 0 /\ token # End /\ SaveTokens(<<token>>) => Looks(here, 1)'
           /\ token = End /\ (tokenBuffer' = tokenBuffer \/ SaveTokens(<<>>)) => Looks(here, 0)'
           /\ TokenIs(here, n)
  <1>1. /\ stack # <<>> /\ returned = None /\ Top.step = step /\ token # NoToken /\ token' = NoToken
        /\ Opened /\ Looks(here, n) /\ UsesToken /\ Same /\ UNCHANGED objects /\ finished' = FALSE
    BY DEF Calm, Has, Parses, callerVars, UsesToken, Same
  <1>2. /\ Opened'
        /\ token # End /\ tokenBuffer' = tokenBuffer => Looks(here + 1, n)'
        /\ token # End /\ ReturnToken => Looks(here, n + 1)'
        /\ n = 0 /\ token # End /\ SaveTokens(<<token>>) => Looks(here, 1)'
        /\ token = End /\ (tokenBuffer' = tokenBuffer \/ SaveTokens(<<>>)) => Looks(here, 0)'
    BY <1>1, TokenUsed
  <1>3. TokenIs(here, n)
    BY <1>1, Seen DEF TokenIs
  <1> QED
    BY <1>1, <1>2, <1>3

LEMMA CalmToken ==
    ASSUME NEW ps, NEW here, NEW n, Calm(ps, here, n),
           \/ GetNextTokenFromBuffer
           \/ TakePushedByte \/ ReadByte \/ MeetEnd
    PROVE  Calmly'
  <1>1. /\ UNCHANGED <<stack, depth, returned, content, from, objects, finished>>
        /\ stack # <<>> /\ returned = None /\ token = NoToken
    BY DEF GetNextTokenFromBuffer, TakePushedByte, ReadByte, MeetEnd, Tokenizes, AwaitsToken,
           parserVars, callerVars
  <1>2. Stacked(stack, returned, objects, depth, ps, here)'
    <2>1. Stacked(stack', returned', objects', depth', ps, here)
      BY <1>1 DEF Calm
    <2> QED
      BY <1>1, <2>1, StackedStays DEF Same
  <1>3. CASE GetNextTokenFromBuffer
    <2>1. Opened' /\ Looks(here, n - 1)' /\ n \in 1 .. 2
      BY <1>3, BufferStep DEF Calm
    <2>2. Room(n - 1)'
      BY <1>1, <2>1 DEF Calm, Room, Top
    <2> DEFINE m == n - 1
    <2>3. Calm(ps, here, m)'
      BY <1>1, <1>2, <2>1, <2>2 DEF Calm
    <2> QED
      BY <2>3 DEF Calmly
  <1>4. CASE TakePushedByte \/ ReadByte \/ MeetEnd
    <2>1. Opened' /\ Looks(here, 0)'
      BY <1>4, TokenizerStep DEF Calm
    <2>2. Room(0)'
      BY DEF Room
    <2>3. Calm(ps, here, 0)'
      BY <1>1, <1>2, <2>1, <2>2 DEF Calm
    <2> QED
      BY <2>3 DEF Calmly
  <1> QED
    BY <1>3, <1>4

LEMMA CalmStartObject ==
    ASSUME NEW ps, NEW here, NEW n, Calm(ps, here, n), StartObject
    PROVE  Calmly' \/ Failing'
  <1> DEFINE p == ps[Len(stack)]  l == Len(stack) - 1
  <1>1. Has("object") /\ Parses /\ tokenBuffer' = tokenBuffer
    BY DEF StartObject
  <1>2. /\ stack # <<>> /\ returned = None /\ Top.step = "object" /\ token' = NoToken
        /\ Opened /\ Looks(here, n) /\ Same /\ Opened' /\ UNCHANGED objects /\ finished' = FALSE
        /\ token # End => Looks(here + 1, n)'
        /\ TokenIs(here, n)
    BY <1>1, CalmParses
  <1>3. /\ TextTyped /\ Framed(ps) /\ Running(stack, ps, here) /\ l \in Nat /\ l + 1 = Len(stack)
        /\ StandsAt(Top, p, here, l) /\ p \in Places /\ l <= MaxObjectDepth /\ depth = l
    BY <1>2, CalmCall
  <1>4. here = p /\ (here \in 1 .. Len(Tokens) => here + 1 \in Places)
    BY <1>2, <1>3, PlacesAre DEF StandsAt
  <1>5. ASSUME ~Good(G[here].object, l), Return(Null)
        PROVE  Failing'
    <2>1. /\ IsSeq(stack) /\ ps \in [Nat -> Places] /\ Callers(stack, ps, l) /\ IsSeq(objects)
          /\ objects \o G[ps[1]].objects = Written /\ ~Good(G[ps[l + 1]].object, l)
      BY <1>3, <1>4, <1>5 DEF Framed
    <2> HIDE DEF l
    <2> QED
      BY <1>1, <1>2, <1>3, <1>5, <2>1, FailsCalmly
  <1>6. CASE token = End /\ Return(Null)
    BY <1>2, <1>3, <1>5, <1>6, EndFails DEF TokenIs
  <1>7. CASE IsPositive(token) /\ ReplaceTop([Call("version") EXCEPT !.object = Simple(token)])
             /\ UNCHANGED <<returned, depth>>
    <2>1. here \in 1 .. Len(Tokens) /\ token = Unit(here) /\ n \in 0 .. 1 /\ Looks(here + 1, n)'
      BY <1>2, <1>7, MarksAreNoNumbers DEF TokenIs, IsPositive, IsNonnegative
    <2>2. PICK call : call = [Call("version") EXCEPT !.object = Simple(token)]
      OBVIOUS
    <2>3. IsCall(call) /\ call.step = "version" /\ call.object = Simple(token)
      BY <2>2 DEF Call, IsCall
    <2>4. Stands(call, p, here + 1, l)
      BY <1>3, <1>4, <1>7, <2>1, <2>3 DEF Stands, StandsAt
    <2>5. stack' = Append(Front(stack), call)
      BY <1>7, <2>2 DEF ReplaceTop
    <2>6. returned' = None /\ depth' = IF call.step \in {"items", "key"} THEN Len(stack) ELSE Len(stack) - 1
      BY <1>2, <1>3, <1>7, <2>3
    <2>7. call.step \in {"version", "stream"} => n = 0 \/ (n = 1 /\ token' = NoToken)
      BY <1>2, <2>1
    <2>8. call.step = "keyword" => n = 0
      BY <2>3
    <2>9. PICK m : m = here + 1
      OBVIOUS
    <2>10. Calm(ps, m, n)'
      BY <1>2, <1>3, <2>1, <2>4, <2>5, <2>6, <2>7, <2>8, <2>9, GoesOnCalmly
    <2> QED
      BY <2>10 DEF Calmly
  <1>8. CASE /\ token \in {<<"[">>, <<"<<">>} /\ depth' = depth + 1
             /\ IF depth = MaxObjectDepth THEN Return(Null)
                ELSE /\ ReplaceTop(Call(IF token = <<"[">> THEN "items" ELSE "key"))
                     /\ UNCHANGED returned
    <2>0. <<"[">> # End /\ <<"<<">> # End
      BY MarksAreNoNumbers DEF End
    <2>1. here \in 1 .. Len(Tokens) /\ token = Unit(here) /\ n \in 0 .. 1 /\ Looks(here + 1, n)'
      BY <1>2, <1>8, <2>0 DEF TokenIs
    <2>2. PICK step \in {"items", "key"} : step = IF token = <<"[">> THEN "items" ELSE "key"
      OBVIOUS
    <2>3. Unit(here) = IF step = "items" THEN <<"[">> ELSE <<"<<">>
      BY <1>8, <2>1, <2>2
    <2>4. /\ l + 1 <= MaxObjectDepth => Goes(step, here, here + 1, <<>>, l)
          /\ l >= MaxObjectDepth => ~Good(G[here].object, l)
      BY <1>3, <2>1, <2>3, GoesStart
    <2>5. CASE depth = MaxObjectDepth
      BY <1>3, <1>5, <1>8, <2>4, <2>5
    <2>6. CASE depth # MaxObjectDepth
      <3>1. l + 1 <= MaxObjectDepth
        BY <1>3, <2>6, PlacesAre
      <3>2. PICK call : call = Call(step)
        OBVIOUS
      <3>3. IsCall(call) /\ call.step = step /\ call.items = <<>>
        BY <3>2 DEF Call, IsCall
      <3>4. Stands(call, p, here + 1, l)
        BY <1>3, <1>4, <2>1, <2>4, <3>1, <3>3 DEF Stands, StandsAt
      <3>5. stack' = Append(Front(stack), call)
        BY <1>8, <2>2, <2>6, <3>2 DEF ReplaceTop
      <3>6. returned' = None /\ depth' = IF call.step \in {"items", "key"} THEN Len(stack) ELSE Len(stack) - 1
        BY <1>2, <1>3, <1>8, <2>6, <3>3
      <3>7. call.step # "version" /\ call.step # "stream" /\ call.step # "keyword"
        BY <3>3
      <3>8. PICK m : m = here + 1
        OBVIOUS
      <3>9. Calm(ps, m, n)'
        BY <1>2, <1>3, <2>1, <3>4, <3>5, <3>6, <3>7, <3>8, GoesOnCalmly
      <3> QED
        BY <3>9 DEF Calmly
    <2> QED
      BY <2>5, <2>6
  <1>9. CASE token # End /\ ~IsPositive(token) /\ token \notin {<<"[">>, <<"<<">>}
             /\ Return(Simple(token)) /\ depth' = depth
    <2>1. here \in 1 .. Len(Tokens) /\ token = Unit(here) /\ n \in 0 .. 1 /\ Looks(here + 1, n)'
      BY <1>2, <1>9 DEF TokenIs
    <2>2. ~SaysReference(here)
      BY <1>9, <2>1 DEF SaysReference
    <2>3. /\ Good(G[here].object, l)
          /\ G[here].object.object = Simple(Unit(here)) /\ G[here].object.next = here + 1
      BY <1>3, <1>9, <2>1, <2>2, TokenIsObject
    <2>4. PICK m : m = here + 1
      OBVIOUS
    <2>5. Calm(ps, m, n)'
      BY <1>2, <1>3, <1>4, <1>9, <2>1, <2>3, <2>4, ReturnsCalmly
    <2> QED
      BY <2>5 DEF Calmly
  <1> QED
    BY <1>6, <1>7, <1>8, <1>9 DEF StartObject

LEMMA CalmLookForVersion ==
    ASSUME NEW ps, NEW here, NEW n, Calm(ps, here, n), LookForVersion
    PROVE  Calmly'
  <1> DEFINE p == ps[Len(stack)]  l == Len(stack) - 1
  <1>1. Has("version") /\ Parses /\ depth' = depth
    BY DEF LookForVersion
  <1>2. /\ stack # <<>> /\ returned = None /\ Top.step = "version" /\ token # NoToken /\ token' = NoToken
        /\ Opened /\ Looks(here, n) /\ Same /\ Opened' /\ UNCHANGED objects /\ finished' = FALSE
        /\ token # End /\ tokenBuffer' = tokenBuffer => Looks(here + 1, n)'
        /\ n = 0 /\ token # End /\ SaveTokens(<<token>>) => Looks(here, 1)'
        /\ token = End /\ SaveTokens(<<>>) => Looks(here, 0)'
        /\ TokenIs(here, n)
    BY <1>1, CalmParses
  <1>3. /\ TextTyped /\ Framed(ps) /\ Running(stack, ps, here) /\ l \in Nat /\ l + 1 = Len(stack)
        /\ IsCall(Top) /\ StandsAt(Top, p, here, l) /\ p \in Places /\ l <= MaxObjectDepth /\ depth = l
        /\ here \in Places
    BY <1>2, CalmCall
  <1>4. /\ p \in 1 .. Len(Tokens) /\ here = p + 1 /\ IsPositive(Unit(p)) /\ Top.object = Simple(Unit(p))
    BY <1>2, <1>3 DEF StandsAt
  <1>5. n = 0
    BY <1>2 DEF Calm, Room
  <1>6. CASE IsNonnegative(token)
    <2>1. here \in 1 .. Len(Tokens) /\ token = Unit(here) /\ token # End
      BY <1>2, <1>6, MarksAreNoNumbers DEF TokenIs, IsNonnegative
    <2>2. /\ ReplaceTop([Top EXCEPT !.step = "keyword", !.second = token])
          /\ returned' = returned /\ tokenBuffer' = tokenBuffer
      BY <1>6 DEF LookForVersion
    <2>3. PICK call : call = [Top EXCEPT !.step = "keyword", !.second = token]
      OBVIOUS
    <2>4. IsCall(call) /\ call.step = "keyword" /\ call.object = Top.object /\ call.second = token
      <3>1. PICK top : top = Top
        OBVIOUS
      <3>2. top = [step |-> top.step, object |-> top.object, second |-> top.second, items |-> top.items]
        BY <1>3, <3>1 DEF IsCall
      <3>3. call = [step |-> "keyword", object |-> top.object, second |-> token, items |-> top.items]
        BY <2>3, <3>1, <3>2
      <3> QED
        BY <3>1, <3>3 DEF IsCall
    <2>5. PICK m : m = here + 1
      OBVIOUS
    <2>6. m \in Places /\ m = p + 2 /\ p + 1 \in 1 .. Len(Tokens)
      BY <1>3, <1>4, <2>1, <2>5, PlacesAre
    <2>7. Stands(call, p, m, l)
      BY <1>3, <1>4, <1>6, <2>1, <2>4, <2>6 DEF Stands, StandsAt
    <2>8. stack' = Append(Front(stack), call) /\ returned' = None /\ Looks(m, n)'
      BY <1>2, <2>1, <2>2, <2>3, <2>5 DEF ReplaceTop
    <2>9. depth' = IF call.step \in {"items", "key"} THEN Len(stack) ELSE Len(stack) - 1
      BY <1>1, <1>3, <2>4
    <2>10. Calm(ps, m, n)'
      BY <1>2, <1>3, <1>5, <2>7, <2>8, <2>9, GoesOnCalmly
    <2> QED
      BY <2>10 DEF Calmly
  <1>7. CASE ~IsNonnegative(token)
    <2>1. Return(Top.object) /\ SaveTokens(IF token = End THEN <<>> ELSE <<token>>)
      BY <1>7 DEF LookForVersion
    <2>2. ~SaysReference(p)
      BY <1>2, <1>4, <1>7 DEF SaysReference, TokenIs
    <2>3. Unit(p) \notin {<<"[">>, <<"<<">>}
      BY <1>4, MarksAreNoNumbers DEF IsPositive, IsNonnegative
    <2>4. /\ Good(G[p].object, l)
          /\ G[p].object.object = Top.object /\ G[p].object.next = here
      BY <1>3, <1>4, <2>2, <2>3, TokenIsObject
    <2>5. PICK m : m = IF token = End THEN 0 ELSE 1
      OBVIOUS
    <2>6. Looks(here, m)'
      BY <1>2, <1>5, <2>1, <2>5
    <2>7. Calm(ps, here, m)'
      BY <1>1, <1>2, <1>3, <2>1, <2>4, <2>6, ReturnsCalmly
    <2> QED
      BY <2>7 DEF Calmly
  <1> QED
    BY <1>6, <1>7

(* The last two tokens are integers, and are not enough for a reference.   *)
LEMMA LastTwo ==
    ASSUME TextTyped, NEW p \in 1 .. Len(Tokens), Len(Tokens) = p + 1,
           IsPositive(Unit(p)), IsNonnegative(Unit(p + 1))
    PROVE  /\ \A i \in {p, p + 1} :
                 /\ G[i].object.object = Simple(Unit(i)) /\ G[i].object.next = i + 1
                 /\ \A l \in Nat : l <= MaxObjectDepth => Good(G[i].object, l)
                 /\ Simple(Unit(i)).kind = "integer"
                 /\ ~Is(Tokens, i, "]") /\ ~Is(Tokens, i, ">>")
           /\ G[p].objects = <<Simple(Unit(p))>> \o <<Simple(Unit(p + 1))>>
           /\ EndsInTwoIntegers
  <1>1. /\ Len(Tokens) \in Nat /\ p + 1 \in 1 .. Len(Tokens) /\ p \in Nat /\ DOMAIN Tokens = 1 .. Len(Tokens)
        /\ MaxObjectDepth \in Nat /\ p \in Places /\ p + 1 \in Places /\ p + 2 \in Places /\ p + 2 = Len(Tokens) + 1
    BY PlacesAre DEF Places
  <1>2. ASSUME NEW i \in {p, p + 1}
        PROVE  /\ G[i].object.object = Simple(Unit(i)) /\ G[i].object.next = i + 1
               /\ \A l \in Nat : l <= MaxObjectDepth => Good(G[i].object, l)
               /\ Simple(Unit(i)).kind = "integer"
               /\ ~Is(Tokens, i, "]") /\ ~Is(Tokens, i, ">>")
    <2>1. i \in 1 .. Len(Tokens) /\ IsNumber(Unit(i))
      BY <1>1 DEF IsPositive, IsNonnegative
    <2>2. ~SaysReference(i)
      <3>1. i + 2 \notin DOMAIN Tokens
        BY <1>1
      <3> QED
        BY <3>1 DEF SaysReference, Is
    <2>3. Unit(i) \notin {<<"[">>, <<"<<">>}
      BY <2>1, MarksAreNoNumbers
    <2>4. ~IsNumber(<<"]">>) /\ ~IsNumber(<<">>">>)
      <3>1. Head(<<"]">>) = "]" /\ Head(<<">>">>) = ">>"
        OBVIOUS
      <3> QED
        BY <3>1 DEF IsNumber, Digits
    <2>5. Simple(Unit(i)).kind = "integer"
      BY <2>1, ObjectIs DEF Simple
    <2>6. ~Is(Tokens, i, "]") /\ ~Is(Tokens, i, ">>")
      BY <2>1, <2>4 DEF Is, Unit
    <2>7. \A l \in Nat : l <= MaxObjectDepth => Good(G[i].object, l)
      BY <2>1, <2>2, <2>3, TokenIsObject
    <2>8. G[i].object.object = Simple(Unit(i)) /\ G[i].object.next = i + 1
      <3>1. 0 \in Nat /\ 0 <= MaxObjectDepth
        BY <1>1
      <3> QED
        BY <2>1, <2>2, <2>3, <3>1, TokenIsObject
    <2> QED
      BY <2>5, <2>6, <2>7, <2>8
  <1> DEFINE first == Simple(Unit(p))  second == Simple(Unit(p + 1))  q == p + 1  r == p + 2
  <1>3. /\ G[p].object.object = first /\ G[p].object.next = q /\ Good(G[p].object, 0)
        /\ G[q].object.object = second /\ G[q].object.next = r /\ Good(G[q].object, 0)
        /\ ~Good(G[r].object, 0)
    <2>1. p \in {p, p + 1} /\ p + 1 \in {p, p + 1} /\ 0 \in Nat /\ 0 <= MaxObjectDepth /\ p + 1 + 1 = p + 2
      BY <1>1
    <2>2. ~Good(G[p + 2].object, 0)
      BY <1>1, EndFails
    <2> QED
      BY <1>2, <2>1, <2>2
  <1>4. \A i \in Places : G[i].objects = IF Good(G[i].object, 0)
                                          THEN <<G[i].object.object>> \o G[G[i].object.next].objects
                                          ELSE <<>>
    <2>1. ASSUME NEW i \in Places
          PROVE  G[i].objects = IF Good(G[i].object, 0)
                                 THEN <<G[i].object.object>> \o G[G[i].object.next].objects
                                 ELSE <<>>
      <3> DEFINE o == G[i].object
      <3>1. G[i].objects = ObjectsAt(G, o) /\ o.height \in Nat
        BY GIs DEF ObjectFits
      <3> HIDE DEF o
      <3>2. Good(o, 0) <=> ~(o.next = 0 \/ o.height > MaxObjectDepth)
        BY <1>1, <3>1 DEF Good
      <3>3. G[i].objects = IF Good(o, 0) THEN <<o.object>> \o G[o.next].objects ELSE <<>>
        BY <3>1, <3>2 DEF ObjectsAt
      <3> QED
        BY <3>3 DEF o
    <2> QED
      BY <2>1
  <1>5. G[p].objects = <<first>> \o <<second>>
    <2>1. p \in Places /\ q \in Places /\ r \in Places
      BY <1>1
    <2> HIDE DEF first, second, q, r
    <2>2. G[r].objects = <<>>
      BY <1>3, <1>4, <2>1
    <2>3. G[q].objects = <<second>> \o <<>>
      BY <1>3, <1>4, <2>1, <2>2
    <2>4. G[q].objects = <<second>>
      BY <2>3, Joined
    <2> QED
      BY <1>3, <1>4, <2>1, <2>4
  <1>6. EndsInTwoIntegers
    <2>1. Len(Tokens) >= 2 /\ Len(Tokens) - 1 = p
      BY <1>1
    <2> QED
      BY <2>1 DEF EndsInTwoIntegers, Unit
  <1> QED
    BY <1>2, <1>5, <1>6

(* No array or dictionary is closed after them.                            *)
LEMMA LastTwoFail ==
    ASSUME TextTyped, NEW p \in 1 .. Len(Tokens), Len(Tokens) = p + 1,
           IsPositive(Unit(p)), IsNonnegative(Unit(p + 1)),
           NEW call, NEW start, NEW l, Waits(call, start, p, l)
    PROVE  ~Good(G[start].object, l)
  <1> DEFINE q == p + 1  r == p + 2
  <1>1. /\ G[p].object.object.kind = "integer" /\ G[p].object.object.kind # "name" /\ G[p].object.next = q
        /\ G[q].object.object.kind = "integer" /\ G[q].object.object.kind # "name" /\ G[q].object.next = r
        /\ \A m \in Nat : m <= MaxObjectDepth => Good(G[p].object, m) /\ Good(G[q].object, m)
        /\ ~Is(Tokens, p, "]") /\ ~Is(Tokens, p, ">>") /\ ~Is(Tokens, q, "]") /\ ~Is(Tokens, q, ">>")
    <2>1. p \in {p, p + 1} /\ p + 1 \in {p, p + 1} /\ p + 1 + 1 = p + 2
      OBVIOUS
    <2> QED
      BY <2>1, LastTwo
  <1>2. r = Len(Tokens) + 1 /\ ~Is(Tokens, r, "]")
    <2>1. r = Len(Tokens) + 1 /\ r \notin DOMAIN Tokens
      BY PlacesAre
    <2> QED
      BY <2>1 DEF Is
  <1>3. \A m : ~Good(G[r].object, m)
    BY <1>2, EndFails
  <1>4. l \in Nat /\ l + 1 \in Nat /\ l + 1 <= MaxObjectDepth /\ q = p + 1
    BY WaitsFor
  <1> HIDE DEF q, r
  <1>5. CASE Goes("items", start, p, call.items, l)
    <2>1. PICK items : Goes("items", start, q, items, l)
      BY <1>1, <1>4, <1>5, ItemsGoOn
    <2>2. PICK more : Goes("items", start, r, more, l)
      BY <1>1, <1>4, <2>1, ItemsGoOn
    <2> QED
      BY <1>2, <1>3, <2>2, ItemsGoOn
  <1>6. CASE Goes("key", start, p, call.items, l)
    BY <1>1, <1>6, PairsGoOn
  <1>7. CASE \E k : /\ p = k + 1 /\ Goes("key", start, k, call.items, l) /\ ~Is(Tokens, k, ">>")
                    /\ G[k].object.object.kind = "name" /\ call.object = G[k].object.object
    <2>1. PICK k : /\ p = k + 1 /\ Goes("key", start, k, call.items, l) /\ ~Is(Tokens, k, ">>")
                   /\ G[k].object.object.kind = "name"
      BY <1>7
    <2>2. Good(G[k + 1].object, l + 1) =>
             Goes("key", start, G[k + 1].object.next,
                  Append(call.items, <<G[k].object.object, G[k + 1].object.object>>), l)
      BY <2>1, PairsGoOn
    <2>3. PICK items : Goes("key", start, q, items, l)
      BY <1>1, <1>4, <2>1, <2>2
    <2> QED
      BY <1>1, <2>3, PairsGoOn
  <1> QED
    BY <1>5, <1>6, <1>7 DEF Waits

LEMMA CalmLookForKeyword ==
    ASSUME NEW ps, NEW here, NEW n, Calm(ps, here, n), LookForKeyword
    PROVE  Calmly' \/ Lost'
  <1> DEFINE p == ps[Len(stack)]  l == Len(stack) - 1
  <1>1. Has("keyword") /\ Parses /\ depth' = depth
    BY DEF LookForKeyword
  <1>2. /\ stack # <<>> /\ returned = None /\ Top.step = "keyword" /\ token # NoToken /\ token' = NoToken
        /\ Opened /\ Looks(here, n) /\ UsesToken /\ Same /\ Opened' /\ UNCHANGED objects /\ finished' = FALSE
        /\ token # End /\ tokenBuffer' = tokenBuffer => Looks(here + 1, n)'
        /\ token = End /\ SaveTokens(<<>>) => Looks(here, 0)'
        /\ TokenIs(here, n)
    BY <1>1, CalmParses
  <1>3. /\ TextTyped /\ Framed(ps) /\ Running(stack, ps, here) /\ l \in Nat /\ l + 1 = Len(stack)
        /\ IsCall(Top) /\ StandsAt(Top, p, here, l) /\ p \in Places /\ l <= MaxObjectDepth /\ depth = l
        /\ here \in Places
    BY <1>2, CalmCall
  <1>4. /\ p \in 1 .. Len(Tokens) /\ p + 1 \in 1 .. Len(Tokens) /\ here = p + 2
        /\ IsPositive(Unit(p)) /\ IsNonnegative(Unit(p + 1))
        /\ Top.object = Simple(Unit(p)) /\ Top.second = Unit(p + 1)
    BY <1>2, <1>3 DEF StandsAt
  <1>5. n = 0
    BY <1>2 DEF Calm, Room
  <1>6. CASE token = <<"R">>
    <2>1. token # End
      BY <1>6 DEF End
    <2>2. here \in 1 .. Len(Tokens) /\ token = Unit(here) /\ DOMAIN Tokens = 1 .. Len(Tokens)
      BY <1>2, <1>3, <2>1, PlacesAre DEF TokenIs
    <2>3. SaysReference(p)
      BY <1>4, <1>6, <2>2 DEF SaysReference, Is, Unit
    <2>4. Simple(Unit(p)).parts = Unit(p)
      BY ObjectIs DEF Simple
    <2>5. /\ Return(Object("reference", <<Unit(p), Unit(p + 1)>>, 0)) /\ tokenBuffer' = tokenBuffer
      BY <1>4, <1>6, <2>4 DEF LookForKeyword
    <2>6. PICK m : m = here + 1
      OBVIOUS
    <2>7. /\ Good(G[p].object, l)
          /\ G[p].object.object = Object("reference", <<Unit(p), Unit(p + 1)>>, 0)
          /\ G[p].object.next = m
      <3>1. p + 3 = m
        BY <1>4, <2>6
      <3> QED
        BY <1>3, <1>4, <2>3, <3>1, ReferenceIsObject
    <2>8. Looks(m, n)'
      BY <1>2, <2>1, <2>5, <2>6
    <2>9. Return(G[p].object.object)
      BY <2>5, <2>7
    <2>10. Calm(ps, m, n)'
      BY <1>1, <1>2, <1>3, <2>7, <2>8, <2>9, ReturnsCalmly
    <2> QED
      BY <2>10 DEF Calmly
  <1>7. CASE token # <<"R">> /\ token # End
    <2>1. here \in 1 .. Len(Tokens) /\ token = Unit(here)
      BY <1>2, <1>7 DEF TokenIs
    <2>2. ~SaysReference(p)
      BY <1>4, <1>7, <2>1 DEF SaysReference, Is, Unit
    <2>3. Unit(p) \notin {<<"[">>, <<"<<">>}
      BY <1>4, MarksAreNoNumbers DEF IsPositive, IsNonnegative
    <2>4. /\ Good(G[p].object, l)
          /\ G[p].object.object = Top.object /\ G[p].object.next = p + 1
      BY <1>3, <1>4, <2>2, <2>3, TokenIsObject
    <2>5. Return(Top.object) /\ SaveTokens(<<Top.second, token>>)
      BY <1>7 DEF LookForKeyword
    <2>6. PICK m : m = p + 1
      OBVIOUS
    <2>7. m = here - 1 /\ here > 1
      BY <1>4, <2>6
    <2>8. Looks(m, 2)'
      <3>1. PICK second : second = Top.second
        OBVIOUS
      <3>2. second = Unit(here - 1) /\ SaveTokens(<<second, token>>)
        BY <1>4, <2>5, <2>6, <2>7, <3>1
      <3>3. Looks(here - 1, 2)'
        BY <1>2, <1>5, <1>7, <2>7, <3>2, TokenUsed
      <3> QED
        BY <2>7, <3>3
    <2>9. Calm(ps, m, 2)'
      BY <1>1, <1>2, <1>3, <2>4, <2>5, <2>6, <2>8, ReturnsCalmly
    <2> QED
      BY <2>9 DEF Calmly
  <1>8. CASE token = End
    <2>1. here = Len(Tokens) + 1 /\ Len(Tokens) = p + 1 /\ Len(Tokens) \in Nat
      BY <1>2, <1>3, <1>4, <1>8, PlacesAre DEF TokenIs
    <2>2. <<"R">> # End
      BY DEF End
    <2>3. Return(Top.object) /\ SaveTokens(<<>>)
      BY <1>8, <2>2 DEF LookForKeyword
    <2>4. Looks(here, 0)'
      BY <1>2, <1>8, <2>3
    <2>5. \E next : next = Len(Tokens)' + 1 /\ Looks(next, 0)'
      BY <1>2, <2>1, <2>4, GrammarStays
    <2>6. /\ stack' = Front(stack) /\ IsSeq(stack') /\ Len(stack') = l
          /\ \A i \in 1 .. l : stack'[i] = stack[i]
          /\ stack' # <<>> => Last(stack') = stack'[l] /\ l >= 1
          /\ stack' = <<>> => l = 0
      <3>1. stack' = Front(stack)
        BY <2>3 DEF Return
      <3>2. /\ IsSeq(stack') /\ Len(stack') = l /\ \A i \in 1 .. l : stack'[i] = stack[i]
        BY <1>3, <3>1, SeqShrinks DEF Framed
      <3>3. stack' # <<>> => Last(stack') = stack'[l] /\ l >= 1
        BY <3>2, SeqShrinks
      <3>4. stack' = <<>> => l = 0
        BY <3>2
      <3> QED
        BY <3>1, <3>2, <3>3, <3>4
    <2>7. /\ returned' = Simple(Unit(p)) /\ returned'.kind = "integer"
          /\ G[p].objects = <<Simple(Unit(p))>> \o <<Simple(Unit(p + 1))>> /\ EndsInTwoIntegers
      BY <1>3, <1>4, <2>1, <2>3, LastTwo DEF Return
    <2>8. returned' # None /\ returned' # Null
      BY <2>7, NoneIsNone
    <2>9. CASE stack' = <<>>
      <3>1. Len(stack) = 1 /\ depth' = 0 /\ objects \o G[p].objects = Written /\ IsSeq(objects)
        <4>1. l = 0
          BY <2>6, <2>9
        <4>2. Len(stack) = 1 /\ depth' = 0
          <5> HIDE DEF l, p
          <5> QED
            BY <1>1, <1>3, <4>1
        <4>3. p = ps[1]
          BY <4>2
        <4> HIDE DEF p, l
        <4> QED
          BY <1>3, <4>2, <4>3 DEF Framed
      <3> DEFINE a == Simple(Unit(p))  b == Simple(Unit(p + 1))
      <3>2. PICK objs : objs = Append(objects, a)
        OBVIOUS
      <3>3. objs = objects \o <<a>> /\ IsSeq(objs)
        BY <3>1, <3>2, SeqGrows
      <3>4. Written = Append(objs, b)
        <4> DEFINE one == <<a>>  two == <<b>>
        <4>1. IsSeq(one) /\ IsSeq(two)
          BY Singles
        <4>2. objects \o (one \o two) = Written
          BY <2>7, <3>1
        <4>3. objs = objects \o one /\ Append(objs, b) = objs \o two
          BY <3>3, SeqGrows
        <4> HIDE DEF one, two
        <4>4. (objects \o one) \o two = objects \o (one \o two)
          BY <3>1, <4>1, SeqsAssociate
        <4> QED
          BY <4>2, <4>3, <4>4
      <3>5. objs = Front(Written)
        <4> HIDE DEF a, b
        <4>1. /\ IsSeq(Written) /\ Written # <<>> /\ Len(Written) = Len(objs) + 1 /\ Len(objs) \in Nat
              /\ \A i \in 1 .. Len(objs) : Written[i] = objs[i]
          <5> DEFINE all == Append(objs, b)
          <5>1. /\ IsSeq(all) /\ all # <<>> /\ Len(all) = Len(objs) + 1 /\ Len(objs) \in Nat
                /\ \A i \in 1 .. Len(objs) : all[i] = objs[i]
            <6>1. IsSeq(objs)
              BY <3>3
            <6> QED
              BY <6>1, SeqGrows
          <5>2. Written = all
            BY <3>4
          <5> HIDE DEF all
          <5> QED
            BY <5>1, <5>2
        <4>2. /\ IsSeq(Front(Written)) /\ Len(Front(Written)) = Len(objs)
              /\ \A i \in 1 .. Len(objs) : Front(Written)[i] = Written[i]
          <5>1. Len(Written) - 1 = Len(objs)
            BY <4>1
          <5> QED
            BY <4>1, <5>1, SeqShrinks
        <4>3. PICK S : objs \in Seq(S) /\ Front(Written) \in Seq(S)
          BY <3>3, <4>2, SameSet
        <4> QED
          BY <4>1, <4>2, <4>3, SeqEqual
      <3>6. Told(objs)'
        BY <1>2, <2>7, <3>5, ToldStays DEF Told
      <3>7. objs = Append(objects', returned')
        BY <1>2, <2>7, <3>2
      <3>8. \E os : Told(os)' /\ os = IF returned' = None THEN objects' ELSE Append(objects', returned')
        BY <2>8, <3>6, <3>7
      <3> QED
        BY <1>2, <2>5, <2>6, <2>8, <2>9, <3>1, <3>8 DEF Lost
    <2>10. CASE stack' # <<>>
      <3> DEFINE k == l - 1
      <3>1. k \in Nat /\ k + 1 = l /\ l \in 1 .. l /\ Top' = stack[l]
        BY <1>3, <2>6, <2>10 DEF Top
      <3>2. Waits(stack[l], ps[l], p, k)
        <4>1. Waits(stack[l], ps[l], ps[l + 1], l - 1)
          BY <1>3, <3>1 DEF Framed, Callers
        <4> QED
          BY <1>3, <4>1
      <3> HIDE DEF k
      <3>3. ~Good(G[ps[k + 1]].object, k)
        <4> HIDE DEF p
        <4>1. ~Good(G[ps[l]].object, k)
          BY <1>3, <1>4, <2>1, <3>2, LastTwoFail
        <4> QED
          BY <3>1, <4>1
      <3>4. Callers(stack, ps, k)
        BY <1>3, <3>1 DEF Framed, Callers
      <3>5. objects = Written
        BY <1>3, <3>1, <3>3, <3>4, NothingFollows DEF Framed
      <3>6. Told(objects)'
        BY <1>2, <3>5, ToldStays DEF Told
      <3>7. IsCall(Top') /\ Top'.step \in {"items", "key", "value"}
        BY <3>1, <3>2 DEF Waits
      <3>8. IsCall(Top)'
        BY <3>7
      <3> QED
        BY <1>2, <2>5, <2>6, <2>7, <2>10, <3>6, <3>7, <3>8 DEF Lost
    <2> QED
      BY <2>9, <2>10
  <1> QED
    BY <1>6, <1>7, <1>8

(* A member or a key is called for.                                        *)
LEMMA CalmCalls ==
    ASSUME NEW ps, NEW here, NEW n, Calm(ps, here, n), NEW step \in {"items", "key"}, Has(step), Parses,
           token # End, token # IF step = "items" THEN <<"]">> ELSE <<">>">>,
           CallForMember(Top), ReturnToken, depth' = depth
    PROVE  Calmly'
  <1> DEFINE p == ps[Len(stack)]  l == Len(stack) - 1
  <1>1. /\ stack # <<>> /\ returned = None /\ Top.step = step
        /\ Opened /\ Same /\ Opened' /\ UNCHANGED objects /\ finished' = FALSE
        /\ Looks(here, n + 1)' /\ TokenIs(here, n)
    BY CalmParses
  <1>2. /\ TextTyped /\ Framed(ps) /\ IsCall(Top) /\ StandsAt(Top, p, here, l) /\ depth = Len(stack)
    BY <1>1, CalmCall
  <1>3. Goes(step, p, here, Top.items, l)
    BY <1>1, <1>2 DEF StandsAt
  <1>4. here \in 1 .. Len(Tokens) /\ token = Unit(here)
    BY <1>1 DEF TokenIs
  <1>5. PICK call : call = Top
    OBVIOUS
  <1>6. Waits(call, p, here, l)
    <2>1. ~Is(Tokens, here, IF step = "items" THEN "]" ELSE ">>")
      BY <1>4 DEF Is, Unit
    <2> QED
      BY <1>1, <1>2, <1>3, <1>5, <2>1 DEF Waits
  <1>7. stack' = Append(Append(Front(stack), call), Call("object")) /\ returned' = None /\ depth' = Len(stack)
    BY <1>1, <1>2, <1>5 DEF CallForMember
  <1>8. PICK m : m = n + 1
    OBVIOUS
  <1>9. Looks(here, m)'
    BY <1>1, <1>8
  <1>10. PICK ps2 : Calm(ps2, here, m)'
    BY <1>1, <1>2, <1>6, <1>7, <1>9, CallsCalmly
  <1> QED
    BY <1>10 DEF Calmly

(* An array or a dictionary is not closed.                                 *)
LEMMA CalmEnds ==
    ASSUME NEW ps, NEW here, NEW n, Calm(ps, here, n), NEW step \in {"items", "key"}, Has(step), Parses,
           token = End, Return(Null), tokenBuffer' = tokenBuffer
    PROVE  Failing'
  <1> DEFINE p == ps[Len(stack)]  l == Len(stack) - 1
  <1>1. /\ stack # <<>> /\ returned = None /\ Top.step = step
        /\ Opened /\ Looks(here, n) /\ Same /\ Opened' /\ UNCHANGED objects /\ finished' = FALSE
        /\ TokenIs(here, n)
    BY CalmParses
  <1>2. /\ TextTyped /\ Framed(ps) /\ IsCall(Top) /\ StandsAt(Top, p, here, l) /\ l \in Nat /\ l + 1 = Len(stack)
    BY <1>1, CalmCall
  <1>3. Goes(step, p, here, Top.items, l)
    BY <1>1, <1>2 DEF StandsAt
  <1>4. here = Len(Tokens) + 1 /\ here \notin DOMAIN Tokens
    BY <1>1, <1>2, PlacesAre DEF TokenIs
  <1>5. Waits(Top, p, here, l)
    BY <1>1, <1>2, <1>3, <1>4 DEF Waits, Is
  <1>6. ~Good(G[p].object, l)
    <2>1. ~Good(G[here].object, l + 1)
      BY <1>2, <1>4, EndFails
    <2> HIDE DEF p, l
    <2> QED
      BY <1>2, <1>5, <2>1, WaitsFor
  <1>7. /\ IsSeq(stack) /\ ps \in [Nat -> Places] /\ Callers(stack, ps, l) /\ IsSeq(objects)
        /\ objects \o G[ps[1]].objects = Written /\ ~Good(G[ps[l + 1]].object, l)
    BY <1>2, <1>6 DEF Framed
  <1> HIDE DEF l
  <1> QED
    BY <1>1, <1>2, <1>7, FailsCalmly

LEMMA CalmNextMember ==
    ASSUME NEW ps, NEW here, NEW n, Calm(ps, here, n), NextMember
    PROVE  Calmly' \/ Failing'
  <1> DEFINE p == ps[Len(stack)]  l == Len(stack) - 1
  <1>1. Has("items") /\ Parses /\ "items" \in {"items", "key"} /\ <<"]">> # End
    BY DEF NextMember, End
  <1>2. CASE token = End
    <2>1. Return(Null) /\ tokenBuffer' = tokenBuffer
      BY <1>2 DEF NextMember
    <2> QED
      BY <1>1, <1>2, <2>1, CalmEnds
  <1>3. CASE token # End /\ token # <<"]">>
    <2>1. CallForMember(Top) /\ ReturnToken /\ depth' = depth
      BY <1>3 DEF NextMember
    <2> QED
      BY <1>1, <1>3, <2>1, CalmCalls
  <1>4. CASE token = <<"]">>
    <2>1. Return(Object("array", Top.items, 0)) /\ depth' = depth - 1 /\ tokenBuffer' = tokenBuffer
      BY <1>1, <1>4 DEF NextMember
    <2>2. /\ stack # <<>> /\ returned = None /\ Top.step = "items"
          /\ Opened /\ Same /\ Opened' /\ UNCHANGED objects /\ finished' = FALSE
          /\ Looks(here + 1, n)' /\ TokenIs(here, n)
      BY <1>1, <1>4, <2>1, CalmParses
    <2>3. /\ TextTyped /\ Framed(ps) /\ Running(stack, ps, here) /\ StandsAt(Top, p, here, l)
          /\ depth = Len(stack)
      BY <2>2, CalmCall
    <2>4. Goes("items", p, here, Top.items, l)
      BY <2>2, <2>3 DEF StandsAt
    <2>5. Is(Tokens, here, "]")
      <3>1. here \in 1 .. Len(Tokens) /\ token = Unit(here)
        BY <1>1, <1>4, <2>2 DEF TokenIs
      <3> QED
        BY <1>4, <2>3, <3>1, PlacesAre DEF Is, Unit
    <2>6. PICK m : m = here + 1
      OBVIOUS
    <2>7. /\ Good(G[p].object, l) /\ G[p].object.object = EndedObject("items", Top.items, here + 1)
          /\ G[p].object.next = EndedNext("items", here + 1)
      BY <1>1, <2>3, <2>4, <2>5, GoesEnd
    <2>8. /\ Good(G[p].object, l) /\ G[p].object.object = Object("array", Top.items, 0) /\ G[p].object.next = m
      <3>1. /\ EndedObject("items", Top.items, here + 1) = Object("array", Top.items, 0)
            /\ EndedNext("items", here + 1) = here + 1
        BY DEF EndedObject, EndedNext
      <3> QED
        BY <2>6, <2>7, <3>1
    <2>9. Looks(m, n)' /\ Return(G[p].object.object) /\ depth' = l
      BY <2>1, <2>2, <2>3, <2>6, <2>8
    <2>10. Calm(ps, m, n)'
      BY <2>2, <2>3, <2>8, <2>9, ReturnsCalmly
    <2> QED
      BY <2>10 DEF Calmly
  <1> QED
    BY <1>2, <1>3, <1>4

LEMMA CalmNextKey ==
    ASSUME NEW ps, NEW here, NEW n, Calm(ps, here, n), NextKey
    PROVE  Calmly' \/ Failing'
  <1> DEFINE p == ps[Len(stack)]  l == Len(stack) - 1
  <1>1. Has("key") /\ Parses /\ "key" \in {"items", "key"} /\ "key" # "items" /\ <<">>">> # End
    BY DEF NextKey, End
  <1>2. CASE token = End
    <2>1. Return(Null) /\ tokenBuffer' = tokenBuffer
      BY <1>1, <1>2 DEF NextKey
    <2> QED
      BY <1>1, <1>2, <2>1, CalmEnds
  <1>3. CASE token # End /\ token # <<">>">>
    <2>1. CallForMember(Top) /\ ReturnToken /\ depth' = depth
      BY <1>3 DEF NextKey
    <2> QED
      BY <1>1, <1>3, <2>1, CalmCalls
  <1>4. CASE token = <<">>">>
    <2>1. /\ ReplaceTop([Call("stream") EXCEPT !.items = Top.items])
          /\ depth' = depth - 1 /\ returned' = returned /\ tokenBuffer' = tokenBuffer
      BY <1>4 DEF NextKey
    <2>2. /\ stack # <<>> /\ returned = None /\ Top.step = "key" /\ token' = NoToken
          /\ Opened /\ Same /\ Opened' /\ UNCHANGED objects /\ finished' = FALSE
          /\ Looks(here + 1, n)' /\ TokenIs(here, n)
      BY <1>1, <1>4, <2>1, CalmParses
    <2>3. /\ TextTyped /\ Framed(ps) /\ Running(stack, ps, here) /\ StandsAt(Top, p, here, l)
          /\ depth = Len(stack) /\ l \in Nat /\ p \in Places /\ l <= MaxObjectDepth
      BY <2>2, CalmCall
    <2>4. Goes("key", p, here, Top.items, l)
      BY <2>2, <2>3 DEF StandsAt
    <2>5. Is(Tokens, here, ">>") /\ n \in 0 .. 1
      <3>1. here \in 1 .. Len(Tokens) /\ token = Unit(here) /\ n \in 0 .. 1
        BY <1>1, <1>4, <2>2 DEF TokenIs
      <3> QED
        BY <1>4, <2>3, <3>1, PlacesAre DEF Is, Unit
    <2>6. PICK m : m = here + 1
      OBVIOUS
    <2>7. /\ Good(G[p].object, l) /\ m \in Places
          /\ G[p].object.object = EndedObject("key", Top.items, m)
          /\ G[p].object.next = EndedNext("key", m)
      BY <1>1, <2>3, <2>4, <2>5, <2>6, GoesEnd
    <2>8. PICK call : call = [Call("stream") EXCEPT !.items = Top.items]
      OBVIOUS
    <2>9. IsCall(call) /\ call.step = "stream" /\ call.items = Top.items
      BY <2>8 DEF Call, IsCall
    <2>10. Stands(call, p, m, l)
      BY <2>3, <2>7, <2>9 DEF Stands, StandsAt
    <2>11. /\ stack' = Append(Front(stack), call) /\ returned' = None /\ Looks(m, n)'
           /\ depth' = IF call.step \in {"items", "key"} THEN Len(stack) ELSE Len(stack) - 1
           /\ call.step \in {"version", "stream"} => n = 0 \/ (n = 1 /\ token' = NoToken)
           /\ call.step = "keyword" => n = 0
      BY <2>1, <2>2, <2>3, <2>5, <2>6, <2>8, <2>9 DEF ReplaceTop
    <2>12. Calm(ps, m, n)'
      BY <2>2, <2>3, <2>10, <2>11, GoesOnCalmly
    <2> QED
      BY <2>12 DEF Calmly
  <1> QED
    BY <1>2, <1>3, <1>4

LEMMA CalmLookForStream ==
    ASSUME NEW ps, NEW here, NEW n, Calm(ps, here, n), LookForStream
    PROVE  Calmly'
  <1> DEFINE p == ps[Len(stack)]  l == Len(stack) - 1
  <1>1. Has("stream") /\ Parses /\ depth' = depth
    BY DEF LookForStream
  <1>2. /\ stack # <<>> /\ returned = None /\ Top.step = "stream" /\ token # NoToken /\ token' = NoToken
        /\ Opened /\ Looks(here, n) /\ Same /\ Opened' /\ UNCHANGED objects /\ finished' = FALSE
        /\ token # End /\ tokenBuffer' = tokenBuffer => Looks(here + 1, n)'
        /\ n = 0 /\ token # End /\ SaveTokens(<<token>>) => Looks(here, 1)'
        /\ token = End /\ SaveTokens(<<>>) => Looks(here, 0)'
        /\ TokenIs(here, n)
    BY <1>1, CalmParses
  <1>3. /\ TextTyped /\ Framed(ps) /\ Running(stack, ps, here) /\ l \in Nat
        /\ StandsAt(Top, p, here, l) /\ p \in Places /\ depth = l /\ here \in Places
    BY <1>2, CalmCall
  <1>4. /\ Good(G[p].object, l) /\ G[p].object.object = EndedObject("key", Top.items, here)
        /\ G[p].object.next = EndedNext("key", here)
    BY <1>2, <1>3 DEF StandsAt
  <1>5. n = 0 /\ "key" # "items" /\ DOMAIN Tokens = 1 .. Len(Tokens)
    BY <1>2, <1>3, PlacesAre DEF Calm, Room
  <1>6. CASE token = <<"stream">>
    <2>1. token # End
      BY <1>6 DEF End
    <2>2. here \in 1 .. Len(Tokens) /\ token = Unit(here)
      BY <1>2, <2>1 DEF TokenIs
    <2>3. Is(Tokens, here, "stream")
      BY <1>5, <1>6, <2>2 DEF Is, Unit
    <2>4. StreamStart = from + Tokens[here].start + 1
      BY <1>2, <1>5, <1>6, StreamStartIs
    <2>5. Return(Object("stream", Top.items, StreamStart)) /\ tokenBuffer' = tokenBuffer
      BY <1>6 DEF LookForStream
    <2>6. PICK m : m = here + 1
      OBVIOUS
    <2>7. G[p].object.object = Object("stream", Top.items, StreamStart) /\ G[p].object.next = m
      BY <1>4, <1>5, <2>3, <2>4, <2>6 DEF EndedObject, EndedNext
    <2>8. Looks(m, n)' /\ Return(G[p].object.object) /\ depth' = l
      BY <1>1, <1>2, <1>3, <2>1, <2>5, <2>6, <2>7
    <2>9. Calm(ps, m, n)'
      BY <1>2, <1>3, <1>4, <2>7, <2>8, ReturnsCalmly
    <2> QED
      BY <2>9 DEF Calmly
  <1>7. CASE token # <<"stream">>
    <2>1. /\ Return(Object("dictionary", Top.items, 0))
          /\ SaveTokens(IF token = End THEN <<>> ELSE <<token>>)
      BY <1>7 DEF LookForStream
    <2>2. ~Is(Tokens, here, "stream")
      <3>1. CASE token = End
        <4>1. here \notin DOMAIN Tokens
          BY <1>2, <1>3, <1>5, <3>1, PlacesAre DEF TokenIs
        <4> QED
          BY <4>1 DEF Is
      <3>2. CASE token # End
        BY <1>2, <1>7, <3>2 DEF TokenIs, Is, Unit
      <3> QED
        BY <3>1, <3>2
    <2>3. G[p].object.object = Object("dictionary", Top.items, 0) /\ G[p].object.next = here
      BY <1>4, <1>5, <2>2 DEF EndedObject, EndedNext
    <2>4. PICK m : m = IF token = End THEN 0 ELSE 1
      OBVIOUS
    <2>5. Looks(here, m)'
      BY <1>2, <1>5, <2>1, <2>4
    <2>6. Return(G[p].object.object) /\ depth' = l
      BY <1>1, <1>3, <2>1, <2>3
    <2>7. Calm(ps, here, m)'
      BY <1>2, <1>3, <1>4, <2>3, <2>5, <2>6, ReturnsCalmly
    <2> QED
      BY <2>7 DEF Calmly
  <1> QED
    BY <1>6, <1>7

LEMMA CalmLeaveArray ==
    ASSUME NEW ps, NEW here, NEW n, Calm(ps, here, n), LeaveArray
    PROVE  FALSE
  <1>1. stack # <<>> /\ returned = None /\ Top.step = "failed"
    BY DEF LeaveArray, Has
  <1>2. StandsAt(Top, ps[Len(stack)], here, Len(stack) - 1)
    BY <1>1, CalmCall
  <1> QED
    BY <1>1, <1>2 DEF StandsAt

(* A member is back: what it is, and what waits for it.                    *)
LEMMA CalmResumes ==
    ASSUME NEW ps, NEW here, NEW n, Calm(ps, here, n), Resumes
    PROVE  /\ stack # <<>> /\ TextTyped /\ Framed(ps) /\ Len(stack) - 1 \in Nat /\ Len(stack) - 1 + 1 = Len(stack)
           /\ Waits(Top, ps[Len(stack)], ps[Len(stack) + 1], Len(stack) - 1)
           /\ Good(G[ps[Len(stack) + 1]].object, Len(stack))
           /\ returned = G[ps[Len(stack) + 1]].object.object /\ here = G[ps[Len(stack) + 1]].object.next
           /\ returned # Null /\ here \in Places /\ depth = Len(stack)
           /\ Opened /\ Same /\ Opened' /\ UNCHANGED <<objects, tokenBuffer>> /\ finished' = FALSE
           /\ Looks(here, n) /\ Looks(here, n)'
  <1>1. stack # <<>> /\ returned # None /\ UNCHANGED <<vars, tokenizerVars, tokenBuffer, callerVars>>
    BY DEF Resumes
  <1>2. /\ Opened /\ Looks(here, n) /\ UNCHANGED <<vars, content, from, tokenizerVars, tokenBuffer>>
        /\ UNCHANGED objects /\ finished' = FALSE
    BY <1>1 DEF Calm, callerVars
  <1>3. TextTyped /\ Opened' /\ Same /\ Looks(here, n)'
    BY <1>2, LooksStays, OpenedText
  <1>4. /\ IsSeq(stack) /\ IsSeq(objects) /\ ps \in [Nat -> Places] /\ here \in Places
        /\ objects \o G[ps[1]].objects = Written /\ depth = DepthOf(stack, returned)
        /\ Returning(stack, returned, ps, here)
    BY <1>1 DEF Calm, Stacked
  <1>5. Len(stack) \in Nat /\ Len(stack) >= 1 /\ Top = stack[Len(stack)]
    BY <1>1, <1>4, SeqShrinks DEF Top
  <1>6. /\ Callers(stack, ps, Len(stack)) /\ ps[Len(stack) + 1] \in Places
        /\ Good(G[ps[Len(stack) + 1]].object, Len(stack))
        /\ returned = G[ps[Len(stack) + 1]].object.object /\ here = G[ps[Len(stack) + 1]].object.next
    BY <1>4 DEF Returning
  <1>7. Waits(Top, ps[Len(stack)], ps[Len(stack) + 1], Len(stack) - 1)
    <2>1. Len(stack) \in 1 .. Len(stack)
      BY <1>5
    <2>2. Waits(stack[Len(stack)], ps[Len(stack)], ps[Len(stack) + 1], Len(stack) - 1)
      BY <1>6, <2>1 DEF Callers
    <2> QED
      BY <1>5, <2>2
  <1>8. Framed(ps)
    <2>1. Callers(stack, ps, Len(stack) - 1)
      BY <1>5, <1>6 DEF Callers
    <2> QED
      BY <1>1, <1>4, <2>1 DEF Framed
  <1>9. returned # Null
    BY <1>3, <1>6, GoodIsSome
  <1>10. depth = Len(stack)
    BY <1>1, <1>4 DEF DepthOf
  <1>11. Len(stack) - 1 \in Nat /\ Len(stack) - 1 + 1 = Len(stack)
    BY <1>5
  <1> QED
    BY <1>1, <1>2, <1>3, <1>4, <1>6, <1>7, <1>8, <1>9, <1>10, <1>11

LEMMA CalmAppendMember ==
    ASSUME NEW ps, NEW here, NEW n, Calm(ps, here, n), AppendMember
    PROVE  Calmly'
  <1> DEFINE p == ps[Len(stack)]  q == ps[Len(stack) + 1]  l == Len(stack) - 1
  <1>1. Resumes /\ Top.step = "items"
    BY DEF AppendMember
  <1>2. /\ stack # <<>> /\ TextTyped /\ Framed(ps) /\ l \in Nat /\ l + 1 = Len(stack)
        /\ Waits(Top, p, q, l) /\ Good(G[q].object, l + 1)
        /\ returned = G[q].object.object /\ here = G[q].object.next
        /\ returned # Null /\ here \in Places /\ depth = Len(stack)
        /\ Opened /\ Same /\ Opened' /\ UNCHANGED objects /\ finished' = FALSE /\ Looks(here, n)'
    BY <1>1, CalmResumes
  <1>3. /\ ReplaceTop([Top EXCEPT !.items = Append(@, returned)]) /\ returned' = None /\ depth' = depth
    BY <1>2 DEF AppendMember
  <1>4. PICK call : call = [Top EXCEPT !.items = Append(@, returned)]
    OBVIOUS
  <1>5. IsCall(Top) /\ Goes("items", p, q, Top.items, l) /\ ~Is(Tokens, q, "]")
    BY <1>1, <1>2 DEF Waits
  <1>6. IsCall(call) /\ call.step = "items" /\ call.items = Append(Top.items, returned)
    <2>1. PICK top : top = Top
      OBVIOUS
    <2>2. top = [step |-> top.step, object |-> top.object, second |-> top.second, items |-> top.items]
      BY <1>5, <2>1 DEF IsCall
    <2>3. call = [step |-> top.step, object |-> top.object, second |-> top.second,
                  items |-> Append(top.items, returned)]
      BY <1>4, <2>1, <2>2
    <2> QED
      BY <1>1, <2>1, <2>3 DEF IsCall
  <1>7. Goes("items", p, here, call.items, l)
    <2> HIDE DEF l, p, q
    <2>1. Goes("items", p, G[q].object.next, Append(Top.items, G[q].object.object), l)
      BY <1>2, <1>5, ItemsGoOn
    <2> QED
      BY <1>2, <1>6, <2>1
  <1>8. Stands(call, p, here, l)
    <2>1. p \in Places /\ l <= MaxObjectDepth
      <3>1. l + 1 <= MaxObjectDepth /\ p \in Places
        BY <1>7 DEF Goes
      <3> HIDE DEF l
      <3> QED
        BY <1>2, <3>1, PlacesAre
    <2> QED
      BY <1>2, <1>6, <1>7, <2>1 DEF Stands, StandsAt
  <1>9. /\ stack' = Append(Front(stack), call)
        /\ depth' = IF call.step \in {"items", "key"} THEN Len(stack) ELSE Len(stack) - 1
        /\ call.step # "version" /\ call.step # "stream" /\ call.step # "keyword"
    BY <1>2, <1>3, <1>4, <1>6 DEF ReplaceTop
  <1>10. Calm(ps, here, n)'
    BY <1>2, <1>3, <1>8, <1>9, GoesOnCalmly
  <1> QED
    BY <1>10 DEF Calmly

LEMMA CalmTakeKey ==
    ASSUME NEW ps, NEW here, NEW n, Calm(ps, here, n), TakeKey
    PROVE  Calmly' \/ Failing'
  <1> DEFINE p == ps[Len(stack)]  q == ps[Len(stack) + 1]  l == Len(stack) - 1
  <1>1. Resumes /\ Top.step = "key"
    BY DEF TakeKey
  <1>2. /\ stack # <<>> /\ TextTyped /\ Framed(ps) /\ l \in Nat /\ l + 1 = Len(stack)
        /\ Waits(Top, p, q, l)
        /\ returned = G[q].object.object /\ here = G[q].object.next
        /\ Opened /\ Same /\ Opened' /\ UNCHANGED <<objects, tokenBuffer>> /\ finished' = FALSE
        /\ Looks(here, n) /\ Looks(here, n)' /\ depth = Len(stack)
    BY <1>1, CalmResumes
  <1>3. IsCall(Top) /\ Goes("key", p, q, Top.items, l) /\ ~Is(Tokens, q, ">>")
    BY <1>1, <1>2 DEF Waits
  <1>4. CASE returned.kind # "name"
    <2>1. Return(Null)
      BY <1>4 DEF TakeKey, FailDictionary
    <2>2. ~Good(G[p].object, l)
      <3> HIDE DEF p, q, l
      <3> QED
        BY <1>2, <1>3, <1>4, PairsGoOn
    <2>3. /\ IsSeq(stack) /\ ps \in [Nat -> Places] /\ Callers(stack, ps, l) /\ IsSeq(objects)
          /\ objects \o G[ps[1]].objects = Written /\ ~Good(G[ps[l + 1]].object, l)
      BY <1>2, <2>2 DEF Framed
    <2> HIDE DEF l
    <2> QED
      BY <1>2, <2>1, <2>3, FailsCalmly
  <1>5. CASE returned.kind = "name"
    <2>1. /\ stack' = Append(Append(Front(stack), [Top EXCEPT !.step = "value", !.object = returned]),
                             Call("object"))
          /\ returned' = None /\ depth' = depth
      BY <1>5 DEF TakeKey
    <2>2. PICK call : call = [Top EXCEPT !.step = "value", !.object = returned]
      OBVIOUS
    <2>3. IsCall(call) /\ call.step = "value" /\ call.items = Top.items /\ call.object = returned
      <3>1. PICK top : top = Top
        OBVIOUS
      <3>2. top = [step |-> top.step, object |-> top.object, second |-> top.second, items |-> top.items]
        BY <1>3, <3>1 DEF IsCall
      <3>3. call = [step |-> "value", object |-> returned, second |-> top.second, items |-> top.items]
        BY <2>2, <3>1, <3>2
      <3> QED
        BY <3>1, <3>3 DEF IsCall
    <2>4. G[q].object.next = q + 1
      <3> HIDE DEF p, q, l
      <3> QED
        BY <1>2, <1>3, <1>5, PairsGoOn
    <2>5. Waits(call, p, here, l)
      BY <1>2, <1>3, <1>5, <2>3, <2>4 DEF Waits
    <2>6. stack' = Append(Append(Front(stack), call), Call("object")) /\ depth' = Len(stack)
      BY <1>2, <2>1, <2>2
    <2>7. PICK ps2 : Calm(ps2, here, n)'
      BY <1>2, <2>1, <2>5, <2>6, CallsCalmly
    <2> QED
      BY <2>7 DEF Calmly
  <1> QED
    BY <1>4, <1>5

LEMMA CalmTakeValue ==
    ASSUME NEW ps, NEW here, NEW n, Calm(ps, here, n), TakeValue
    PROVE  Calmly'
  <1> DEFINE p == ps[Len(stack)]  q == ps[Len(stack) + 1]  l == Len(stack) - 1
  <1>1. Resumes /\ Top.step = "value"
    BY DEF TakeValue
  <1>2. /\ stack # <<>> /\ TextTyped /\ Framed(ps) /\ l \in Nat /\ l + 1 = Len(stack)
        /\ Waits(Top, p, q, l) /\ Good(G[q].object, l + 1)
        /\ returned = G[q].object.object /\ here = G[q].object.next
        /\ returned # Null /\ here \in Places /\ depth = Len(stack)
        /\ Opened /\ Same /\ Opened' /\ UNCHANGED objects /\ finished' = FALSE /\ Looks(here, n)'
    BY <1>1, CalmResumes
  <1>3. /\ ReplaceTop([Call("key") EXCEPT !.items = Append(Top.items, <<Top.object, returned>>)])
        /\ returned' = None /\ depth' = depth
    BY <1>2 DEF TakeValue
  <1>4. PICK call : call = [Call("key") EXCEPT !.items = Append(Top.items, <<Top.object, returned>>)]
    OBVIOUS
  <1>5. PICK k : /\ q = k + 1 /\ Goes("key", p, k, Top.items, l) /\ ~Is(Tokens, k, ">>")
                 /\ G[k].object.object.kind = "name" /\ Top.object = G[k].object.object
    BY <1>1, <1>2 DEF Waits
  <1>6. IsCall(call) /\ call.step = "key" /\ call.items = Append(Top.items, <<Top.object, returned>>)
    BY <1>4 DEF Call, IsCall
  <1>7. Goes("key", p, here, call.items, l)
    <2> HIDE DEF l, p
    <2>1. Good(G[k + 1].object, l + 1)
      BY <1>2, <1>5
    <2>2. Goes("key", p, G[k + 1].object.next,
               Append(Top.items, <<G[k].object.object, G[k + 1].object.object>>), l)
      BY <1>2, <1>5, <2>1, PairsGoOn
    <2> QED
      BY <1>2, <1>5, <1>6, <2>2
  <1>8. Stands(call, p, here, l)
    <2>1. p \in Places /\ l <= MaxObjectDepth
      <3>1. l + 1 <= MaxObjectDepth /\ p \in Places
        BY <1>7 DEF Goes
      <3> HIDE DEF l
      <3> QED
        BY <1>2, <3>1, PlacesAre
    <2> QED
      BY <1>2, <1>6, <1>7, <2>1 DEF Stands, StandsAt
  <1>9. /\ stack' = Append(Front(stack), call)
        /\ depth' = IF call.step \in {"items", "key"} THEN Len(stack) ELSE Len(stack) - 1
        /\ call.step # "version" /\ call.step # "stream" /\ call.step # "keyword"
    BY <1>2, <1>3, <1>4, <1>6 DEF ReplaceTop
  <1>10. Calm(ps, here, n)'
    BY <1>2, <1>3, <1>8, <1>9, GoesOnCalmly
  <1> QED
    BY <1>10 DEF Calmly

LEMMA CalmParseNewObject ==
    ASSUME NEW ps, NEW here, NEW n, Calm(ps, here, n), ParseNewObject
    PROVE  Calmly'
  <1>1. /\ stack = <<>> /\ returned = None /\ stack' = <<Call("object")>>
        /\ UNCHANGED <<vars, content, from, tokenizerVars, tokenBuffer, depth, returned, objects, finished>>
    BY DEF ParseNewObject, callerVars
  <1>2. Opened /\ Looks(here, n) /\ finished' = FALSE
    BY <1>1 DEF Calm
  <1>3. TextTyped /\ Opened' /\ Looks(here, n)' /\ Same
    BY <1>1, <1>2, OpenedText, LooksStays
  <1>4. /\ IsSeq(objects) /\ ps \in [Nat -> Places] /\ here \in Places
        /\ objects \o G[here].objects = Written /\ depth = 0
    <2>1. ~Running(stack, ps, here)
      BY <1>1 DEF Running
    <2>2. Len(<<>>) = 0
      OBVIOUS
    <2> QED
      BY <1>1, <2>1, <2>2 DEF Calm, Stacked, DepthOf
  <1>5. PICK ps2 : ps2 = [ps EXCEPT ![1] = here]
    OBVIOUS
  <1>6. ps2 \in [Nat -> Places] /\ ps2[1] = here
    BY <1>4, <1>5
  <1>7. PICK call : call = Call("object")
    OBVIOUS
  <1>8. IsCall(call) /\ call.step = "object"
    BY <1>7 DEF Call, IsCall
  <1>9. /\ IsSeq(stack') /\ stack' # <<>> /\ Len(stack') = 1 /\ Last(stack') = call
    <2>1. PICK st : st = <<call>>
      OBVIOUS
    <2>2. IsSeq(st) /\ Len(st) = 1 /\ st[1] = call
      BY <2>1, Singles
    <2>3. st # <<>>
      BY <2>1
    <2>4. Last(st) = call
      BY <2>2, <2>3, SeqShrinks
    <2>5. stack' = st
      BY <1>1, <1>7, <2>1
    <2> QED
      BY <2>2, <2>3, <2>4, <2>5
  <1>10. Running(stack', ps2, here)
    <2>1. Callers(stack', ps2, Len(stack') - 1)
      <3>1. Len(stack') - 1 = 0
        BY <1>9
      <3>2. Callers(stack', ps2, 0)
        BY DEF Callers
      <3> QED
        BY <3>1, <3>2
    <2>2. Stands(call, here, here, 0)
      BY <1>3, <1>4, <1>8, PlacesAre DEF Stands, StandsAt
    <2>3. Len(stack') - 1 = 0 /\ ps2[Len(stack')] = here
      BY <1>6, <1>9
    <2> QED
      BY <1>9, <2>1, <2>2, <2>3 DEF Running
  <1>11. Stacked(stack', returned', objects', depth', ps2, here)
    <2>1. depth' = DepthOf(stack', returned')
      BY <1>1, <1>4, <1>8, <1>9 DEF DepthOf
    <2> QED
      BY <1>1, <1>4, <1>6, <1>9, <1>10, <2>1 DEF Stacked
  <1>12. Stacked(stack, returned, objects, depth, ps2, here)'
    BY <1>3, <1>11, StackedStays
  <1>13. Room(n)'
    BY <1>8, <1>9 DEF Room, Top
  <1>14. Calm(ps2, here, n)'
    BY <1>2, <1>3, <1>12, <1>13 DEF Calm
  <1> QED
    BY <1>14 DEF Calmly

LEMMA CalmTakeObject ==
    ASSUME NEW ps, NEW here, NEW n, Calm(ps, here, n), TakeObject
    PROVE  Calmly'
  <1>1. /\ stack = <<>> /\ returned # None /\ returned' = None
        /\ objects' = (IF returned = Null THEN objects ELSE Append(objects, returned))
        /\ finished' = (returned = Null)
        /\ UNCHANGED <<vars, content, from, tokenizerVars, tokenBuffer, stack, depth>>
    BY DEF TakeObject
  <1>2. Opened /\ Looks(here, n)
    BY DEF Calm
  <1>3. TextTyped /\ Opened' /\ Looks(here, n)' /\ Same
    BY <1>1, <1>2, OpenedText, LooksStays
  <1>4. /\ IsSeq(objects) /\ ps \in [Nat -> Places] /\ here \in Places
        /\ objects \o G[ps[1]].objects = Written /\ depth = DepthOf(stack, returned)
        /\ Returning(stack, returned, ps, here)
    BY <1>1 DEF Calm, Stacked
  <1>5. Len(stack) = 0
    BY <1>1
  <1>6. /\ ps[1] \in Places /\ Good(G[ps[1]].object, 0)
        /\ returned = G[ps[1]].object.object /\ here = G[ps[1]].object.next
    BY <1>4, <1>5 DEF Returning
  <1>7. returned # Null
    BY <1>3, <1>6, GoodIsSome
  <1>8. G[ps[1]].objects = <<returned>> \o G[here].objects
    <2> DEFINE o == G[ps[1]].object
    <2>1. G[ps[1]].objects = ObjectsAt(G, o) /\ o.height \in Nat /\ MaxObjectDepth \in Nat
      BY <1>3, <1>6, GIs, PlacesAre DEF ObjectFits
    <2>2. Good(o, 0) /\ returned = o.object /\ here = o.next
      BY <1>6
    <2> HIDE DEF o
    <2>3. ~(o.next = 0 \/ o.height > MaxObjectDepth)
      BY <2>1, <2>2 DEF Good
    <2>4. ObjectsAt(G, o) = <<o.object>> \o G[o.next].objects
      BY <2>3 DEF ObjectsAt
    <2> QED
      BY <2>1, <2>2, <2>4
  <1>9. objects' = Append(objects, returned) /\ finished' = FALSE
    BY <1>1, <1>7
  <1>10. IsSeq(objects') /\ objects' \o G[here].objects = Written
    <2> DEFINE one == <<returned>>  rest == G[here].objects
    <2>1. IsSeq(one) /\ IsSeq(rest)
      BY <1>3, <1>4, Singles, GIs
    <2>2. objects' = objects \o one /\ IsSeq(objects')
      BY <1>4, <1>9, SeqGrows
    <2>3. objects \o (one \o rest) = Written
      BY <1>4, <1>8
    <2> HIDE DEF one, rest
    <2>4. (objects \o one) \o rest = objects \o (one \o rest)
      BY <1>4, <2>1, SeqsAssociate
    <2>5. objects' \o rest = Written
      BY <2>2, <2>3, <2>4
    <2> QED
      BY <2>2, <2>5 DEF rest
  <1>11. Stacked(stack', returned', objects', depth', ps, here)
    <2>1. IsSeq(stack') /\ stack' = <<>>
      BY <1>1, Singles
    <2>2. depth' = DepthOf(stack', returned')
      BY <1>1, <1>4 DEF DepthOf
    <2> QED
      BY <1>1, <1>4, <1>10, <2>1, <2>2 DEF Stacked
  <1>12. Stacked(stack, returned, objects, depth, ps, here)'
    BY <1>3, <1>11, StackedStays
  <1>13. Room(n)'
    BY <1>1 DEF Room
  <1>14. Calm(ps, here, n)'
    BY <1>3, <1>9, <1>12, <1>13 DEF Calm
  <1> QED
    BY <1>14 DEF Calmly

(* Whatever the parser does.                                               *)
LEMMA CalmStep ==
    ASSUME Calmly, ParserStep \/ ParseNewObject \/ TakeObject
    PROVE  Calmly' \/ Failing' \/ Lost'
  <1>1. PICK ps, here, n : Calm(ps, here, n)
    BY DEF Calmly
  <1>2. CASE GetNextTokenFromBuffer \/ TakePushedByte \/ ReadByte \/ MeetEnd
    BY <1>1, <1>2, CalmToken
  <1>3. CASE StartObject
    BY <1>1, <1>3, CalmStartObject
  <1>4. CASE LookForVersion
    BY <1>1, <1>4, CalmLookForVersion
  <1>5. CASE LookForKeyword
    BY <1>1, <1>5, CalmLookForKeyword
  <1>6. CASE NextMember
    BY <1>1, <1>6, CalmNextMember
  <1>7. CASE LeaveArray
    BY <1>1, <1>7, CalmLeaveArray
  <1>8. CASE NextKey
    BY <1>1, <1>8, CalmNextKey
  <1>9. CASE LookForStream
    BY <1>1, <1>9, CalmLookForStream
  <1>10. CASE AppendMember
    BY <1>1, <1>10, CalmAppendMember
  <1>11. CASE TakeKey
    BY <1>1, <1>11, CalmTakeKey
  <1>12. CASE TakeValue
    BY <1>1, <1>12, CalmTakeValue
  <1>13. CASE ParseNewObject
    BY <1>1, <1>13, CalmParseNewObject
  <1>14. CASE TakeObject
    BY <1>1, <1>14, CalmTakeObject
  <1> QED
    BY <1>2, <1>3, <1>4, <1>5, <1>6, <1>7, <1>8, <1>9, <1>10, <1>11, <1>12, <1>13, <1>14 DEF ParserStep

-----------------------------------------------------------------------------
(***************************************************************************)
(* The steps of the parser once the rest of the text is broken or too      *)
(* deep, and after it forgot a version: no other object is told of.        *)
(***************************************************************************)
LEMMA FailsOn ==
    ASSUME Opened', Same, UNCHANGED objects, Told(objects),
           IsSeq(tokenBuffer'), Len(tokenBuffer') <= 2, IsSeq(stack'),
           \/ returned' = Null /\ finished' = FALSE
           \/ returned' = None /\ finished' = TRUE /\ stack' = <<>>
           \/ returned' = None /\ finished' = FALSE /\ stack' # <<>> /\ Last(stack').step = "failed"
    PROVE  Failing'
  <1>1. Told(objects)'
    BY ToldStays
  <1>2. IsSeq(tokenBuffer)' /\ IsSeq(stack)'
    OBVIOUS
  <1>3. Len(tokenBuffer)' <= 2
    OBVIOUS
  <1> QED
    BY <1>1, <1>2, <1>3 DEF Failing, Top

(* Reading a byte leaves all but the tokenizer and the stream.             *)
LEMMA ByteStep ==
    ASSUME Opened, TakePushedByte \/ ReadByte \/ MeetEnd
    PROVE  /\ Opened' /\ Same /\ stack # <<>> /\ returned = None
           /\ UNCHANGED <<tokenBuffer, stack, depth, returned, objects, finished>>
  <1>1. /\ stack # <<>> /\ returned = None
        /\ UNCHANGED <<content, from, tokenBuffer, stack, depth, returned, objects, finished>>
    BY DEF TakePushedByte, ReadByte, MeetEnd, Tokenizes, AwaitsToken, parserVars, callerVars
  <1>2. Opened'
    <2>1. CASE UNCHANGED vars
      BY <1>1, <2>1, OpenedStays
    <2>2. CASE Read(1)
      <3>1. IInv' /\ size' = size
        BY <2>2, ReadOne
      <3> QED
        BY <1>1, <3>1 DEF Opened
    <2> QED
      BY <2>1, <2>2 DEF TakePushedByte, ReadByte, MeetEnd
  <1> QED
    BY <1>1, <1>2 DEF Same

LEMMA TailIs ==
    ASSUME NEW s, IsSeq(s), s # <<>>
    PROVE  IsSeq(Tail(s)) /\ Len(Tail(s)) <= Len(s)
  <1>1. PICK S : s \in Seq(S)
    BY DEF IsSeq
  <1>2. Tail(s) \in Seq(S) /\ Len(Tail(s)) <= Len(s)
    BY <1>1
  <1> QED
    BY <1>2 DEF IsSeq

LEMMA FailingStep ==
    ASSUME Failing, ParserStep \/ ParseNewObject \/ TakeObject
    PROVE  Failing'
  <1>1. /\ Opened /\ Told(objects) /\ IsSeq(tokenBuffer) /\ Len(tokenBuffer) <= 2 /\ IsSeq(stack)
        /\ \/ returned = Null /\ finished = FALSE
           \/ returned = None /\ finished = TRUE /\ stack = <<>>
           \/ returned = None /\ finished = FALSE /\ stack # <<>> /\ Top.step = "failed"
    BY DEF Failing
  <1>2. CASE GetNextTokenFromBuffer
    <2>1. /\ stack # <<>> /\ returned = None /\ tokenBuffer # <<>> /\ tokenBuffer' = Tail(tokenBuffer)
          /\ UNCHANGED <<vars, content, from, stack, returned, objects, finished>>
      BY <1>2 DEF GetNextTokenFromBuffer, AwaitsToken, callerVars
    <2>2. Opened' /\ Same
      BY <1>1, <2>1, OpenedStays DEF Same
    <2>3. IsSeq(tokenBuffer') /\ Len(tokenBuffer') <= 2
      <3>1. PICK s : s = tokenBuffer
        OBVIOUS
      <3>2. IsSeq(Tail(s)) /\ Len(Tail(s)) <= Len(s) /\ Len(Tail(s)) \in Nat /\ Len(s) \in Nat
        <4>1. IsSeq(s) /\ s # <<>>
          BY <1>1, <2>1, <3>1
        <4>2. IsSeq(Tail(s)) /\ Len(Tail(s)) <= Len(s)
          BY <4>1, TailIs
        <4> QED
          BY <4>1, <4>2, SeqsJoin
      <3> QED
        BY <1>1, <2>1, <3>1, <3>2
    <2>4. finished' = FALSE /\ Last(stack').step = "failed" /\ IsSeq(stack')
      BY <1>1, <2>1, NoneIsNone DEF Top
    <2> QED
      BY <1>1, <2>1, <2>2, <2>3, <2>4, FailsOn
  <1>3. CASE TakePushedByte \/ ReadByte \/ MeetEnd
    <2>1. /\ Opened' /\ Same /\ stack # <<>> /\ returned = None
          /\ UNCHANGED <<tokenBuffer, stack, returned, objects, finished>>
      BY <1>1, <1>3, ByteStep
    <2>2. finished' = FALSE /\ Last(stack').step = "failed"
      BY <1>1, <2>1, NoneIsNone DEF Top
    <2>3. IsSeq(tokenBuffer') /\ Len(tokenBuffer') <= 2 /\ IsSeq(stack')
      BY <1>1, <2>1
    <2> QED
      BY <1>1, <2>1, <2>2, <2>3, FailsOn
  <1>4. ASSUME Has("object") \/ Has("version") \/ Has("keyword") \/ Has("items") \/ Has("key") \/ Has("stream")
        PROVE  FALSE
    BY <1>1, <1>4, NoneIsNone DEF Has
  <1>5. CASE LeaveArray
    <2>1. /\ Has("failed") /\ Parses /\ Return(Null) /\ UNCHANGED tokenBuffer
      BY <1>5 DEF LeaveArray
    <2>2. /\ stack # <<>> /\ returned = None /\ returned' = Null /\ stack' = Front(stack)
          /\ UNCHANGED <<vars, content, from, objects, finished>>
      BY <2>1 DEF Has, Parses, Return, callerVars
    <2>3. Opened' /\ Same
      BY <1>1, <2>2, OpenedStays DEF Same
    <2>4. IsSeq(stack') /\ IsSeq(tokenBuffer') /\ Len(tokenBuffer') <= 2 /\ finished' = FALSE
      BY <1>1, <2>1, <2>2, SeqShrinks, NoneIsNone
    <2> QED
      BY <1>1, <2>2, <2>3, <2>4, FailsOn
  <1>6. CASE AppendMember \/ TakeKey \/ TakeValue
    <2>1. Resumes
      BY <1>6 DEF AppendMember, TakeKey, TakeValue
    <2>2. /\ stack # <<>> /\ returned = Null /\ finished' = FALSE
          /\ UNCHANGED <<vars, content, from, tokenBuffer, objects>>
      BY <1>1, <2>1 DEF Resumes, callerVars
    <2>3. Opened' /\ Same
      BY <1>1, <2>2, OpenedStays DEF Same
    <2>4. IsSeq(tokenBuffer') /\ Len(tokenBuffer') <= 2
      BY <1>1, <2>2
    <2>5. CASE AppendMember
      <3>1. stack' = Append(Front(stack), Call("failed")) /\ returned' = None
        BY <2>2, <2>5 DEF AppendMember, ReplaceTop
      <3>2. IsSeq(stack') /\ stack' # <<>> /\ Last(stack') = Call("failed") /\ Call("failed").step = "failed"
        BY <1>1, <2>2, <3>1, TopReplaced DEF Call
      <3> QED
        BY <1>1, <2>2, <2>3, <2>4, <3>1, <3>2, FailsOn
    <2>6. CASE TakeKey \/ TakeValue
      <3>1. returned' = Null /\ stack' = Front(stack)
        BY <2>2, <2>6, NoneIsNone DEF TakeKey, TakeValue, FailDictionary, Return
      <3>2. IsSeq(stack')
        BY <1>1, <2>2, <3>1, SeqShrinks
      <3> QED
        BY <1>1, <2>2, <2>3, <2>4, <3>1, <3>2, FailsOn
    <2> QED
      BY <1>6, <2>5, <2>6
  <1>7. CASE ParseNewObject
    BY <1>1, <1>7, NoneIsNone DEF ParseNewObject
  <1>8. CASE TakeObject
    <2>1. /\ stack = <<>> /\ returned # None
          /\ objects' = (IF returned = Null THEN objects ELSE Append(objects, returned))
          /\ finished' = (returned = Null) /\ returned' = None
          /\ UNCHANGED <<vars, content, from, tokenBuffer, stack>>
      BY <1>8 DEF TakeObject
    <2>2. returned = Null
      BY <1>1, <2>1
    <2>3. Opened' /\ Same
      BY <1>1, <2>1, OpenedStays DEF Same
    <2>4. UNCHANGED objects /\ finished' = TRUE /\ returned' = None /\ stack' = <<>>
      BY <2>1, <2>2
    <2>5. IsSeq(tokenBuffer') /\ Len(tokenBuffer') <= 2 /\ IsSeq(stack')
      BY <1>1, <2>1
    <2> QED
      BY <1>1, <2>3, <2>4, <2>5, FailsOn
  <1> QED
    BY <1>2, <1>3, <1>4, <1>5, <1>6, <1>7, <1>8
       DEF ParserStep, StartObject, LookForVersion, LookForKeyword, NextMember, NextKey, LookForStream

LEMMA LosesOn ==
    ASSUME Opened', Same, NEW here, here = Len(Tokens) + 1, Looks(here, 0)', finished' = FALSE,
           IsSeq(stack'), returned' = None, NEW objs, objs = objects', Told(objs),
           \/ stack' = <<>> /\ depth' = 0
           \/ /\ stack' # <<>>
              /\ (Last(stack').step = "object"
                    \/ (IsCall(Last(stack')) /\ Last(stack').step \in {"items", "key"}))
    PROVE  Lost'
  <1>1. Told(objs)' /\ Told(objects)'
    BY ToldStays
  <1>2. here = (Len(Tokens) + 1)'
    BY GrammarStays
  <1>3. IsSeq(stack)'
    OBVIOUS
  <1>4. CASE stack' = <<>> /\ depth' = 0
    <2>1. returned' # Null
      BY NoneIsNone
    <2> QED
      BY <1>1, <1>2, <1>3, <1>4, <2>1 DEF Lost
  <1>5. CASE /\ stack' # <<>>
             /\ (Last(stack').step = "object"
                   \/ (IsCall(Last(stack')) /\ Last(stack').step \in {"items", "key"}))
    <2>1. PICK top : top = Last(stack')
      OBVIOUS
    <2>2. top = Top'
      BY <2>1 DEF Top
    <2>3. IsCall(top) => IsCall(Top)'
      BY <2>2 DEF IsCall
    <2>4. top.step = "object" \/ (IsCall(top) /\ top.step \in {"items", "key"})
      BY <1>5, <2>1
    <2>5. (Top.step = "object" \/ (IsCall(Top) /\ Top.step \in {"items", "key"}))'
      BY <2>2, <2>3, <2>4
    <2> QED
      BY <1>1, <1>2, <1>3, <1>5, <2>5 DEF Lost
  <1> QED
    BY <1>4, <1>5

(* Nothing is left but the end.                                            *)
LEMMA EndIsLeft ==
    ASSUME TextTyped, NEW here, here = Len(Tokens) + 1, Looks(here, 0)
    PROVE  tokenBuffer = <<>> /\ token \in {NoToken, End}
  <1>1. PICK b, pos : Queued(b, pos, here, 0)
    BY DEF Looks
  <1>2. Len(Tokens) \in Nat /\ ~(here <= Len(Tokens))
    BY PlacesAre
  <1> QED
    BY <1>1, <1>2 DEF Queued, Ahead

LEMMA LostStep ==
    ASSUME Lost, ParserStep \/ ParseNewObject \/ TakeObject
    PROVE  Lost' \/ Failing'
  <1>1. Opened /\ finished = FALSE /\ IsSeq(stack) /\ TextTyped
    BY OpenedText DEF Lost
  <1>2. PICK here : here = Len(Tokens) + 1 /\ Looks(here, 0)
    BY DEF Lost
  <1>3. \/ /\ stack = <<>> /\ depth = 0 /\ returned # Null
           /\ \E objs : Told(objs) /\ objs = IF returned = None THEN objects ELSE Append(objects, returned)
        \/ /\ stack # <<>> /\ Told(objects) /\ returned = None
           /\ (Top.step = "object" \/ (IsCall(Top) /\ Top.step \in {"items", "key"}))
        \/ /\ stack # <<>> /\ Told(objects) /\ returned.kind = "integer"
           /\ IsCall(Top) /\ Top.step \in {"items", "key", "value"}
    BY DEF Lost
  <1>4. tokenBuffer = <<>> /\ token \in {NoToken, End}
    BY <1>1, <1>2, EndIsLeft
  <1>5. stack # <<>> => Told(objects)
    BY <1>3
  <1>6. CASE GetNextTokenFromBuffer
    BY <1>4, <1>6 DEF GetNextTokenFromBuffer
  <1>7. CASE TakePushedByte \/ ReadByte \/ MeetEnd
    <2>1. /\ Opened' /\ Same /\ stack # <<>> /\ returned = None
          /\ UNCHANGED <<stack, returned, objects, finished>>
      BY <1>1, <1>7, ByteStep
    <2>2. Looks(here, 0)'
      BY <1>1, <1>2, <1>7, TokenizerStep
    <2>3. Last(stack').step = "object" \/ (IsCall(Last(stack')) /\ Last(stack').step \in {"items", "key"})
      BY <1>3, <2>1, NoneIsNone DEF Top
    <2>4. PICK objs : objs = objects
      OBVIOUS
    <2> QED
      BY <1>1, <1>2, <1>5, <2>1, <2>2, <2>3, <2>4, LosesOn
  <1>8. ASSUME NEW step, Has(step), Parses
        PROVE  /\ token = End /\ step \in {"object", "items", "key"} /\ stack # <<>>
               /\ tokenBuffer' = tokenBuffer /\ Return(Null) => Failing'
    <2>1. stack # <<>> /\ returned = None /\ Top.step = step /\ token = End
      BY <1>4, <1>8 DEF Has
    <2>2. step \in {"object", "items", "key"}
      BY <1>3, <2>1, NoneIsNone
    <2>3. UNCHANGED <<vars, content, from, objects, finished>>
      BY <1>8 DEF Parses, callerVars
    <2>4. Opened' /\ Same
      BY <1>1, <2>3, OpenedStays DEF Same
    <2>5. ASSUME tokenBuffer' = tokenBuffer, Return(Null)
          PROVE  Failing'
      <3>1. stack' = Front(stack) /\ returned' = Null
        BY <2>5 DEF Return
      <3>2. IsSeq(stack')
        BY <1>1, <2>1, <3>1, SeqShrinks
      <3>3. IsSeq(tokenBuffer') /\ Len(tokenBuffer') <= 2
        BY <1>2, <2>5, QueueIs
      <3> QED
        BY <1>1, <1>5, <2>1, <2>3, <2>4, <3>1, <3>2, <3>3, FailsOn
    <2> QED
      BY <2>1, <2>2, <2>5
  <1>9. CASE StartObject
    <2>1. Has("object") /\ Parses /\ tokenBuffer' = tokenBuffer
      BY <1>9 DEF StartObject
    <2>2. token = End /\ (Return(Null) => Failing')
      BY <1>8, <2>1
    <2>3. ~IsPositive(End) /\ End \notin {<<"[">>, <<"<<">>}
      BY MarksAreNoNumbers DEF IsPositive, IsNonnegative, End
    <2> QED
      BY <1>9, <2>2, <2>3 DEF StartObject
  <1>10. CASE NextMember
    <2>1. Has("items") /\ Parses
      BY <1>10 DEF NextMember
    <2>2. token = End /\ (tokenBuffer' = tokenBuffer /\ Return(Null) => Failing')
      BY <1>8, <2>1
    <2> QED
      BY <1>10, <2>2 DEF NextMember
  <1>11. CASE NextKey
    <2>1. Has("key") /\ Parses
      BY <1>11 DEF NextKey
    <2>2. token = End /\ (tokenBuffer' = tokenBuffer /\ Return(Null) => Failing')
      BY <1>8, <2>1
    <2>3. End # <<">>">>
      BY DEF End
    <2> QED
      BY <1>11, <2>2, <2>3 DEF NextKey
  <1>12. CASE LookForVersion \/ LookForKeyword \/ LookForStream \/ LeaveArray
    <2>1. PICK step \in {"version", "keyword", "stream", "failed"} : Has(step) /\ Parses
      BY <1>12 DEF LookForVersion, LookForKeyword, LookForStream, LeaveArray
    <2>2. step \in {"object", "items", "key"}
      BY <1>8, <2>1
    <2> QED
      BY <2>1, <2>2
  <1>13. CASE AppendMember \/ TakeKey \/ TakeValue
    <2>1. Resumes
      BY <1>13 DEF AppendMember, TakeKey, TakeValue
    <2>2. /\ stack # <<>> /\ returned # None /\ finished' = FALSE
          /\ UNCHANGED <<vars, content, from, tokenizerVars, tokenBuffer, objects>>
      BY <1>1, <2>1 DEF Resumes, callerVars
    <2>3. Opened' /\ Same /\ Looks(here, 0)'
      BY <1>1, <1>2, <2>2, LooksStays
    <2>4. returned.kind = "integer" /\ returned # Null /\ IsCall(Top)
      BY <1>3, <2>2, NoneIsNone
    <2>5. PICK objs : objs = objects
      OBVIOUS
    <2>6. ASSUME NEW call, ReplaceTop(call), returned' = None, IsCall(call), call.step \in {"items", "key"}
          PROVE  Lost'
      <3>1. IsSeq(stack') /\ stack' # <<>> /\ Last(stack') = call
        BY <1>1, <2>2, <2>6, TopReplaced DEF ReplaceTop
      <3> QED
        BY <1>2, <1>5, <2>2, <2>3, <2>5, <2>6, <3>1, LosesOn
    <2>7. CASE AppendMember
      <3>1. PICK top : top = Top
        OBVIOUS
      <3>2. /\ top = [step |-> top.step, object |-> top.object, second |-> top.second, items |-> top.items]
            /\ top.step = "items"
        BY <2>4, <2>7, <3>1 DEF IsCall, AppendMember
      <3>3. PICK call : call = [top EXCEPT !.items = Append(@, returned)]
        OBVIOUS
      <3>4. call = [step |-> top.step, object |-> top.object, second |-> top.second,
                    items |-> Append(top.items, returned)]
        BY <3>2, <3>3
      <3>5. IsCall(call) /\ call.step = "items"
        BY <3>2, <3>4 DEF IsCall
      <3>6. ReplaceTop(call) /\ returned' = None
        BY <2>4, <2>7, <3>1, <3>3 DEF AppendMember
      <3> QED
        BY <2>6, <3>5, <3>6
    <2>8. CASE TakeValue
      <3>1. PICK call : call = [Call("key") EXCEPT !.items = Append(Top.items, <<Top.object, returned>>)]
        OBVIOUS
      <3>2. IsCall(call) /\ call.step = "key"
        BY <3>1 DEF Call, IsCall
      <3>3. ReplaceTop(call) /\ returned' = None
        BY <2>4, <2>8, <3>1 DEF TakeValue
      <3> QED
        BY <2>6, <3>2, <3>3
    <2>9. CASE TakeKey
      <3>1. returned' = Null /\ stack' = Front(stack)
        BY <2>4, <2>9 DEF TakeKey, FailDictionary, Return
      <3>2. IsSeq(stack')
        BY <1>1, <2>2, <3>1, SeqShrinks
      <3>3. IsSeq(tokenBuffer') /\ Len(tokenBuffer') <= 2
        BY <1>2, <2>2, QueueIs
      <3> QED
        BY <1>5, <2>2, <2>3, <3>1, <3>2, <3>3, FailsOn
    <2> QED
      BY <1>13, <2>7, <2>8, <2>9
  <1>14. CASE ParseNewObject
    <2>1. /\ stack = <<>> /\ returned = None /\ returned' = None /\ stack' = <<Call("object")>>
          /\ UNCHANGED <<vars, content, from, tokenizerVars, tokenBuffer, objects, finished>>
      BY <1>14 DEF ParseNewObject, callerVars
    <2>2. Opened' /\ Same /\ Looks(here, 0)'
      BY <1>1, <1>2, <2>1, LooksStays
    <2>3. PICK objs : Told(objs) /\ objs = objects
      BY <1>3, <2>1
    <2>4. IsSeq(stack') /\ stack' # <<>> /\ Last(stack').step = "object"
      <3>1. PICK call : call = Call("object")
        OBVIOUS
      <3>2. PICK st : st = <<call>>
        OBVIOUS
      <3>3. IsSeq(st) /\ Len(st) = 1 /\ st[1] = call /\ st # <<>>
        BY <3>2, Singles
      <3>4. Last(st) = call
        BY <3>3, SeqShrinks
      <3>5. call.step = "object"
        BY <3>1 DEF Call
      <3> QED
        BY <2>1, <3>1, <3>2, <3>3, <3>4, <3>5
    <2> QED
      BY <1>1, <1>2, <2>1, <2>2, <2>3, <2>4, LosesOn
  <1>15. CASE TakeObject
    <2>1. /\ stack = <<>> /\ returned # None /\ returned' = None
          /\ objects' = (IF returned = Null THEN objects ELSE Append(objects, returned))
          /\ finished' = (returned = Null)
          /\ UNCHANGED <<vars, content, from, tokenizerVars, tokenBuffer, stack, depth>>
      BY <1>15 DEF TakeObject
    <2>2. Opened' /\ Same /\ Looks(here, 0)'
      BY <1>1, <1>2, <2>1, LooksStays
    <2>3. PICK objs : Told(objs) /\ objs = Append(objects, returned)
      BY <1>3, <2>1
    <2>4. objs = objects' /\ finished' = FALSE /\ depth' = 0 /\ stack' = <<>> /\ IsSeq(stack')
      BY <1>1, <1>3, <2>1, <2>3
    <2> QED
      BY <1>2, <2>1, <2>2, <2>3, <2>4, LosesOn
  <1> QED
    BY <1>6, <1>7, <1>9, <1>10, <1>11, <1>12, <1>13, <1>14, <1>15 DEF ParserStep

-----------------------------------------------------------------------------
(***************************************************************************)
(* A parser that was just given its file, or was moved.                    *)
(***************************************************************************)
Fresh ==
    /\ Opened /\ GetCurrentPosition = from
    /\ pushed = FALSE /\ partial = <<>> /\ token = NoToken /\ tokenBuffer = <<>>
    /\ stack = <<>> /\ depth = 0 /\ returned = None /\ objects = <<>> /\ finished = FALSE

LEMMA FreshLooks ==
    ASSUME Fresh
    PROVE  Looks(1, 0)
  <1>1. TextTyped /\ Len(Text) \in Nat /\ from \in Nat
    BY OpenedText, TokensTyped DEF Fresh, Opened
  <1>2. PICK pos \in 0 .. Len(Text) : pos = 0
    BY <1>1
  <1>3. PICK i : i = pos + 1
    OBVIOUS
  <1>4. i = 1 /\ ~IsJoined(i)
    BY <1>2, <1>3 DEF IsJoined
  <1>5. Remains(pos + 1, 0) /\ ~IsJoined(pos + 1)
    BY <1>1, <1>3, <1>4, RemainsAtFirst
  <1>6. ReadsAt(0, pos, <<>>, FALSE)
    BY <1>1, <1>5, ReadsBetween
  <1>7. Reading(0, pos)
    <2>1. partial = <<>> /\ pushed = FALSE
      BY DEF Fresh
    <2>2. ReadsAt(0, pos, partial, pushed)
      BY <1>6, <2>1, Zenon
    <2>3. GetCurrentPosition = from + pos + 0
      BY <1>1, <1>2 DEF Fresh
    <2> QED
      BY <2>1, <2>2, <2>3, Zenon DEF Reading
  <1>8. Queued(0, pos, 1, 0)
    <2>1. Len(Tokens) \in Nat
      BY <1>1, PlacesAre
    <2> QED
      BY <2>1 DEF Fresh, Queued, Ahead
  <1> QED
    BY <1>7, <1>8 DEF Looks

LEMMA Begins ==
    ASSUME Fresh
    PROVE  Calmly
  <1>1. TextTyped
    BY OpenedText DEF Fresh
  <1>2. 1 \in Places
    BY <1>1, PlacesAre
  <1>3. PICK ps : ps = [i \in Nat |-> 1]
    OBVIOUS
  <1>4. ps \in [Nat -> Places]
    BY <1>2, <1>3
  <1>5. IsSeq(stack) /\ IsSeq(objects) /\ depth = DepthOf(stack, returned)
    <2>1. IsSeq(<<>>) /\ Len(<<>>) = 0
      BY Singles, Zenon
    <2> QED
      BY <2>1 DEF Fresh, DepthOf
  <1>6. objects \o G[1].objects = Written
    <2>1. IsSeq(G[1].objects)
      BY <1>1, <1>2, GIs
    <2>2. <<>> \o G[1].objects = G[1].objects
      BY <2>1, SeqsJoin
    <2> QED
      BY <2>2 DEF Fresh, Written, G
  <1>7. Stacked(stack, returned, objects, depth, ps, 1)
    BY <1>2, <1>4, <1>5, <1>6 DEF Stacked, Fresh
  <1>8. Calm(ps, 1, 0)
    BY <1>7, FreshLooks DEF Calm, Fresh, Room
  <1> QED
    BY <1>8 DEF Calmly

(* Before a parser has the file.                                           *)
Unattached ==
    /\ attached = FALSE /\ IInv /\ (last.call = "OpenFile" => GetCurrentPosition = 0)
    /\ pushed = FALSE /\ partial = <<>> /\ token = NoToken /\ tokenBuffer = <<>>
    /\ stack = <<>> /\ depth = 0 /\ returned = None
    /\ from = 0 /\ objects = <<>> /\ finished = FALSE

PInv == Unattached \/ (attached = TRUE /\ (Fresh \/ Calmly \/ Failing \/ Lost))

LEMMA PInitInv ==
    ASSUME ParserInit
    PROVE  Unattached
  <1>1. IInv
    BY InitInv DEF ParserInit
  <1>2. GetCurrentPosition = 0
    <2>1. Len(<<>>) = 0
      BY Singles, Zenon
    <2>2. at = 0 /\ unread = <<>>
      BY DEF ParserInit, Init
    <2>3. 0 - 0 = 0
      OBVIOUS
    <2> QED
      BY <2>1, <2>2, <2>3, Zenon DEF GetCurrentPosition
  <1> QED
    BY <1>1, <1>2 DEF ParserInit, Unattached

LEMMA Sought ==
    ASSUME NEW p \in Nat, at' = p, unread' = <<>>
    PROVE  GetCurrentPosition' = p
  <1>1. Len(<<>>) = 0
    BY Singles, Zenon
  <1> QED
    BY <1>1 DEF GetCurrentPosition

LEMMA UnparsedStep ==
    ASSUME Unattached, ReadUnparsed
    PROVE  Unattached'
  <1>1. IInv /\ Next /\ UNCHANGED <<tokenizerVars, parserVars, callerVars>>
    BY DEF Unattached, ReadUnparsed
  <1>2. IInv'
    BY <1>1, NextStep
  <1>3. last'.call = "OpenFile" => GetCurrentPosition' = 0
    <2>1. CASE OpenFile
      BY <2>1, Sought DEF OpenFile, FileSeek
    <2>2. CASE ~OpenFile
      <3>1. \/ \E n \in ReadSizes : Read(n) \/ Skip(n)
            \/ \E p \in 0 .. MaxPosition : SetPosition(p) \/ SetPositionFromEnd(p)
            \/ GetFileSize
        BY <1>1, <2>2 DEF Next
      <3>2. \E call \in {"Read", "Skip", "SetPosition", "SetPositionFromEnd", "GetFileSize"} :
                \E arg, data : Done(call, arg, data)
        BY <3>1 DEF Read, ReadFromBuffer, ReadAtEnd, ReadFromFile, Skip, SetPosition, SetPositionFromEnd,
                    GetFileSize
      <3> QED
        BY <3>2 DEF Done
    <2> QED
      BY <2>1, <2>2
  <1> QED
    BY <1>1, <1>2, <1>3 DEF Unattached, tokenizerVars, parserVars, callerVars

LEMMA GivenFile ==
    ASSUME Unattached, SetReadStream
    PROVE  Fresh' /\ attached' = TRUE
  <1>1. /\ last.call = "OpenFile" /\ content' \in Contents /\ Len(content') = size /\ attached' = TRUE
        /\ ResetReadState /\ UNCHANGED <<vars, stack, returned, from, objects, finished>>
    BY DEF SetReadStream
  <1>2. IInv' /\ size' = size /\ GetCurrentPosition' = GetCurrentPosition
    BY <1>1, StutterStep DEF Unattached
  <1>3. Opened'
    BY <1>1, <1>2 DEF Opened, Unattached
  <1> QED
    BY <1>1, <1>2, <1>3 DEF Fresh, Unattached, ResetReadState

LEMMA Moved ==
    ASSUME Opened, NEW p \in Moves, MovePositionInStream(p)
    PROVE  Fresh' /\ attached' = TRUE /\ SetPosition(p) /\ p \in 0 .. MaxPosition
  <1>1. /\ stack = <<>> /\ returned = None /\ SetPosition(p) /\ ResetReadState
        /\ from' = p /\ objects' = <<>> /\ finished' = FALSE /\ attached = TRUE
        /\ UNCHANGED <<stack, returned, attached, content>>
    BY DEF MovePositionInStream
  <1>2. p \in 0 .. MaxPosition /\ p \in Nat
    BY MaxObjectDepthAssumption, MaxPositionAssumption
  <1>3. IInv' /\ size' = size
    BY <1>1, <1>2, SetPositionStep DEF Opened
  <1>4. GetCurrentPosition' = p
    BY <1>1, <1>2, Sought DEF SetPosition, FileSeek
  <1>5. Opened'
    BY <1>1, <1>2, <1>3 DEF Opened
  <1> QED
    BY <1>1, <1>2, <1>4, <1>5 DEF Fresh, ResetReadState

LEMMA StepsOfCalls ==
    ASSUME ParserStep
    PROVE  attached' = attached /\ stack # <<>>
  BY DEF ParserStep, GetNextTokenFromBuffer, TakePushedByte, ReadByte, MeetEnd, Tokenizes, AwaitsToken,
         StartObject, LookForVersion, LookForKeyword, NextMember, LeaveArray, NextKey, LookForStream,
         Parses, Has, AppendMember, TakeKey, TakeValue, Resumes, callerVars

LEMMA OpenedIn ==
    ASSUME Fresh \/ Calmly \/ Failing \/ Lost
    PROVE  Opened
  BY DEF Fresh, Calmly, Calm, Failing, Lost

LEMMA ParserStutters ==
    ASSUME PInv, UNCHANGED allVars
    PROVE  PInv'
  <1>1. /\ UNCHANGED <<vars, tokenizerVars, parserVars, callerVars>>
        /\ UNCHANGED <<pushed, partial, token, tokenBuffer, stack, depth, returned>>
        /\ UNCHANGED <<attached, content, from, objects, finished>>
    BY DEF allVars, tokenizerVars, parserVars, callerVars
  <1>2. IInv => IInv' /\ GetCurrentPosition' = GetCurrentPosition
    BY <1>1, StutterStep
  <1>3. Opened => Opened' /\ Same
    BY <1>1, OpenedStays DEF Same
  <1>4. ASSUME Opened, NEW here, NEW n, Looks(here, n)
        PROVE  Looks(here, n)'
    BY <1>1, <1>4, LooksStays
  <1>5. CASE Unattached
    <2>1. last' = last
      BY <1>1 DEF vars
    <2> QED
      BY <1>1, <1>2, <1>5, <2>1 DEF Unattached, PInv
  <1>6. CASE attached = TRUE /\ Fresh
    BY <1>1, <1>2, <1>3, <1>6 DEF Fresh, Opened, PInv
  <1>7. CASE attached = TRUE /\ Calmly
    <2>1. PICK ps, here, n : Calm(ps, here, n)
      BY <1>7 DEF Calmly
    <2>2. Opened /\ Looks(here, n) /\ Room(n) /\ finished = FALSE
          /\ Stacked(stack, returned, objects, depth, ps, here)
      BY <2>1 DEF Calm
    <2>3. Opened' /\ Same /\ Looks(here, n)'
      BY <1>3, <1>4, <2>2
    <2>4. Stacked(stack', returned', objects', depth', ps, here)
      BY <1>1, <2>2
    <2>5. Stacked(stack, returned, objects, depth, ps, here)'
      BY <2>3, <2>4, StackedStays
    <2>6. Room(n)' /\ finished' = FALSE
      BY <1>1, <2>2 DEF Room, Top
    <2>7. Calm(ps, here, n)'
      BY <2>3, <2>5, <2>6 DEF Calm
    <2> QED
      BY <1>1, <1>7, <2>7 DEF Calmly, PInv
  <1>8. CASE attached = TRUE /\ Failing
    <2>1. Opened' /\ Same
      BY <1>3, <1>8 DEF Failing
    <2>2. Failing'
      BY <1>1, <1>8, <2>1, FailsOn DEF Failing, Top
    <2> QED
      BY <1>1, <1>8, <2>2 DEF PInv
  <1>9. CASE attached = TRUE /\ Lost
    <2>1. Opened' /\ Same
      BY <1>3, <1>9 DEF Lost
    <2>2. PICK here : here = Len(Tokens) + 1 /\ Looks(here, 0)
      BY <1>9 DEF Lost
    <2>3. here = (Len(Tokens) + 1)' /\ Looks(here, 0)'
      BY <1>4, <1>9, <2>1, <2>2, GrammarStays DEF Lost
    <2>4. \A objs : Told(objs) => Told(objs)'
      BY <2>1, ToldStays
    <2>5. Told(objects) => Told(objects)'
      BY <1>1, <2>1, ToldStays
    <2>6. Top' = Top /\ (IsCall(Top) => IsCall(Top)')
      BY <1>1 DEF Top, IsCall
    <2>7. Lost'
      BY <1>1, <1>9, <2>1, <2>3, <2>4, <2>5, <2>6 DEF Lost, IsSeq
    <2> QED
      BY <1>1, <1>9, <2>7 DEF PInv
  <1> QED
    BY <1>5, <1>6, <1>7, <1>8, <1>9 DEF PInv

LEMMA ParserKeeps ==
    ASSUME PInv, [ParserNext]_allVars
    PROVE  PInv'
  <1>1. CASE UNCHANGED allVars
    BY <1>1, ParserStutters
  <1>2. CASE ReadUnparsed
    <2>1. Unattached
      BY <1>2 DEF PInv, ReadUnparsed
    <2> QED
      BY <1>2, <2>1, UnparsedStep DEF PInv
  <1>3. CASE SetReadStream
    <2>1. Unattached
      BY <1>3 DEF PInv, SetReadStream
    <2> QED
      BY <1>3, <2>1, GivenFile DEF PInv
  <1>4. CASE \E p \in Moves : MovePositionInStream(p)
    <2>1. PICK p \in Moves : MovePositionInStream(p)
      BY <1>4
    <2>2. ~Unattached
      BY <2>1 DEF MovePositionInStream, Unattached
    <2>3. Opened
      BY <2>2, OpenedIn DEF PInv
    <2> QED
      BY <2>1, <2>3, Moved DEF PInv
  <1>5. CASE ParserStep \/ ParseNewObject \/ TakeObject
    <2>1. attached' = attached /\ ~Unattached
      BY <1>5, StepsOfCalls DEF ParseNewObject, TakeObject, Unattached, callerVars
    <2>2. attached = TRUE /\ (Fresh \/ Calmly \/ Failing \/ Lost)
      BY <2>1 DEF PInv
    <2>3. CASE Fresh \/ Calmly
      <3>1. Calmly
        BY <2>3, Begins
      <3> QED
        BY <1>5, <2>1, <2>2, <3>1, CalmStep DEF PInv
    <2>4. CASE Failing
      BY <1>5, <2>1, <2>2, <2>4, FailingStep DEF PInv
    <2>5. CASE Lost
      BY <1>5, <2>1, <2>2, <2>5, LostStep DEF PInv
    <2> QED
      BY <2>2, <2>3, <2>4, <2>5
  <1> QED
    BY <1>1, <1>2, <1>3, <1>4, <1>5 DEF ParserNext

LEMMA CalmIsRight ==
    ASSUME Calmly
    PROVE  ParserIsRight
  <1>1. PICK ps, here, n : Calm(ps, here, n)
    BY DEF Calmly
  <1>2. Looks(here, n) /\ finished = FALSE /\ depth = DepthOf(stack, returned)
    BY <1>1 DEF Calm, Stacked
  <1>3. ReadsTwoAhead
    BY <1>2, QueueIs DEF ReadsTwoAhead
  <1>4. NestingIsUndone
    <2>1. Len(<<>>) = 0
      BY Singles, Zenon
    <2> QED
      BY <1>2, <2>1 DEF DepthOf, NestingIsUndone
  <1> QED
    BY <1>2, <1>3, <1>4 DEF ParserIsRight, ObjectsAsWritten

LEMMA ParserFits ==
    ASSUME PInv
    PROVE  IInv /\ ParserIsRight
  <1>0. Len(<<>>) = 0
    BY Singles, Zenon
  <1>1. CASE Unattached
    BY <1>0, <1>1 DEF Unattached, ParserIsRight, ObjectsAsWritten, NestingIsUndone, ReadsTwoAhead
  <1>2. CASE Fresh \/ Calmly
    BY <1>2, OpenedIn, Begins, CalmIsRight DEF Opened
  <1>3. CASE Failing
    <2>1. ObjectsAsWritten /\ ReadsTwoAhead
      BY <1>3 DEF Failing, ObjectsAsWritten, ReadsTwoAhead, Told
    <2>2. NestingIsUndone
      BY <1>3, NoneIsNone DEF Failing, NestingIsUndone
    <2> QED
      BY <1>3, <2>1, <2>2 DEF Failing, Opened, ParserIsRight
  <1>4. CASE Lost
    <2>1. ObjectsAsWritten /\ NestingIsUndone
      BY <1>4, NoneIsNone DEF Lost, ObjectsAsWritten, NestingIsUndone
    <2>2. ReadsTwoAhead
      BY <1>4, QueueIs DEF Lost, ReadsTwoAhead
    <2> QED
      BY <1>4, <2>1, <2>2 DEF Lost, Opened, ParserIsRight
  <1> QED
    BY <1>1, <1>2, <1>3, <1>4 DEF PInv

LEMMA ParserReadsOnly ==
    ASSUME [ParserNext]_allVars
    PROVE  [Next]_vars
  <1>1. CASE ReadUnparsed
    BY <1>1 DEF ReadUnparsed
  <1>2. CASE \E p \in Moves : MovePositionInStream(p)
    <2>1. PICK p \in Moves : MovePositionInStream(p)
      BY <1>2
    <2>2. SetPosition(p) /\ p \in 0 .. MaxPosition
      BY <2>1, MaxObjectDepthAssumption DEF MovePositionInStream
    <2> QED
      BY <2>2 DEF Next
  <1>3. CASE ReadByte
    BY <1>3, TokenizerReadsBytes DEF ReadByte, Next
  <1>4. CASE UNCHANGED allVars \/ SetReadStream \/ ParseNewObject \/ TakeObject
    BY <1>4 DEF allVars, SetReadStream, ParseNewObject, TakeObject
  <1>5. CASE ParserStep /\ ~ReadByte
    BY <1>5 DEF ParserStep, GetNextTokenFromBuffer, TakePushedByte, MeetEnd,
         StartObject, LookForVersion, LookForKeyword, NextMember, LeaveArray, NextKey, LookForStream,
         Parses, AppendMember, TakeKey, TakeValue, Resumes
  <1> QED
    BY <1>1, <1>2, <1>3, <1>4, <1>5 DEF ParserNext

-----------------------------------------------------------------------------
(* The inductive invariant: before a file is given; while all that was     *)
(* read is right; once the rest is broken or too deep; or after a version  *)
(* was forgotten (PDFObjectParser.cpp:75-600).                             *)
THEOREM ParserStaysRight == ParserSpec => []PInv
  <1>1. ParserInit => PInv
    BY PInitInv DEF PInv
  <1>2. PInv /\ [ParserNext]_allVars => PInv'
    BY ParserKeeps
  <1> QED
    BY <1>1, <1>2, PTL DEF ParserSpec

(* For every text: the objects that were read until none was returned are  *)
(* those that are written, every array and dictionary that was entered is  *)
(* left, and at most two tokens wait (PDFObjectParser.cpp:75-600).         *)
THEOREM ParserReads == ParserSpec => []ParserIsRight
  <1>1. PInv => ParserIsRight
    BY ParserFits
  <1> QED
    BY <1>1, ParserStaysRight, PTL

(* The parser uses the stream as its callers may: what is proved of the    *)
(* stream holds while a parser reads it (PDFParserTokenizer.cpp:66-290).   *)
THEOREM ParserIsCaller == ParserSpec => Spec
  <1>1. ParserInit => Init
    BY DEF ParserInit
  <1>2. [ParserNext]_allVars => [Next]_vars
    BY ParserReadsOnly
  <1> QED
    BY <1>1, <1>2, PTL DEF ParserSpec, Spec
=============================================================================
