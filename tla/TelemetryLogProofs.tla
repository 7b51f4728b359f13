-------------------------- MODULE TelemetryLogProofs -------------------------
(***************************************************************************)
(* Usage records and their log, proved for any number of records, any      *)
(* file an earlier version left, any limits and any number of failing      *)
(* calls and crashes.                                                      *)
(***************************************************************************)
EXTENDS TelemetryLog, SumsProofs, SequenceTheorems, FiniteSetTheorems, TLAPS
-----------------------------------------------------------------------------
(* Sequences.                                                              *)

\* The elements of a sequence.
LEMMA Elements ==
  ASSUME NEW S, NEW s \in Seq(S)
  PROVE  /\ Range(s) = {s[i] : i \in 1..Len(s)} /\ DOMAIN s = 1..Len(s) /\ Len(s) \in Nat
         /\ Range(s) \subseteq S
         /\ s = <<>> <=> Len(s) = 0
         /\ s # <<>> => s[1] \in Range(s) /\ Len(s) > 0
BY DEF Range

\* The elements of an extended sequence.
LEMMA ElementsAppend ==
  ASSUME NEW S, NEW s \in Seq(S), NEW x \in S
  PROVE  Append(s, x) \in Seq(S) /\ Range(Append(s, x)) = Range(s) \union {x}
<1>1. PICK t : t = Append(s, x)
  OBVIOUS
<1>2. /\ t \in Seq(S) /\ Len(t) = Len(s) + 1 /\ t[Len(s) + 1] = x
      /\ \A i \in 1..Len(s) : t[i] = s[i]
  BY <1>1
<1>3. Range(t) = {t[i] : i \in 1..Len(t)} /\ Range(s) = {s[i] : i \in 1..Len(s)}
  BY <1>2, Elements
<1>4. Len(s) \in Nat
  OBVIOUS
<1> QED BY <1>1, <1>2, <1>3, <1>4

\* The first n of k values of t follow the l values of s in u, the others are v's.
Shifts(l, k, n, s, t, u, v) ==
  /\ \A i \in 1..l + n : u[i] = IF i <= l THEN s[i] ELSE t[i - l]
  /\ \A i \in 1..k - n : v[i] = t[n + i]

\* The first n values of f.
First(f, n) == {f[i] : i \in 1..n}

\* The values S of s and T of t are the values U of u and V of v.
Moved(S, T, U, V, s, t, u, v, l, k, n) ==
  /\ U \union V = S \union T
  /\ V \subseteq T
  /\ (/\ \A i, j \in 1..l : s[i] = s[j] => i = j
      /\ \A i, j \in 1..k : t[i] = t[j] => i = j
      /\ S \intersect T = {}) =>
       /\ \A i, j \in 1..l + n : u[i] = u[j] => i = j
       /\ \A i, j \in 1..k - n : v[i] = v[j] => i = j
       /\ U \intersect V = {}

\* No value is lost, none comes twice.
LEMMA ValuesMove ==
  ASSUME NEW l \in Nat, NEW k \in Nat, NEW n \in 0..k, NEW s, NEW t, NEW u, NEW v,
         Shifts(l, k, n, s, t, u, v)
  PROVE  Moved(First(s, l), First(t, k), First(u, l + n), First(v, k - n), s, t, u, v, l, k, n)
<1> DEFINE S == {s[i] : i \in 1..l}
           T == {t[i] : i \in 1..k}
           U == {u[i] : i \in 1..l + n}
           V == {v[i] : i \in 1..k - n}
<1>1. /\ \A i \in 1..l : i \in 1..l + n /\ u[i] = s[i]
      /\ \A i \in 1..n : l + i \in 1..l + n /\ u[l + i] = t[i] /\ i \in 1..k
      /\ \A i \in 1..k - n : n + i \in 1..k /\ v[i] = t[n + i]
      /\ \A i \in 1..l + n : \/ i \in 1..l
                             \/ i - l \in 1..n /\ u[i] = t[i - l]
      /\ \A i \in 1..k : \/ i \in 1..n
                         \/ i - n \in 1..k - n /\ v[i - n] = t[i]
  BY DEF Shifts
<1>2. V \subseteq T
  BY <1>1
<1>3. U \subseteq S \union T
  BY <1>1
<1>4. S \subseteq U
  BY <1>1
<1>5. T \subseteq U \union V
  <2> SUFFICES ASSUME NEW i \in 1..k PROVE t[i] \in U \union V
    OBVIOUS
  <2>1. CASE i \in 1..n
    <3>1. l + i \in 1..l + n /\ u[l + i] = t[i]
      BY <1>1, <2>1
    <3> QED BY <3>1
  <2>2. CASE i - n \in 1..k - n /\ v[i - n] = t[i]
    BY <2>2
  <2> QED BY <1>1, <2>1, <2>2
<1>6. ASSUME \A i, j \in 1..l : s[i] = s[j] => i = j,
             \A i, j \in 1..k : t[i] = t[j] => i = j,
             S \intersect T = {}
      PROVE  /\ \A i, j \in 1..l + n : u[i] = u[j] => i = j
             /\ \A i, j \in 1..k - n : v[i] = v[j] => i = j
             /\ U \intersect V = {}
  <2>1. \A i \in 1..l, j \in 1..k : s[i] # t[j]
    BY <1>6
  <2>2. ASSUME NEW i \in 1..l + n, NEW j \in 1..l + n, u[i] = u[j] PROVE i = j
    <3>1. CASE i \in 1..l /\ j \in 1..l
      BY <1>1, <1>6, <2>2, <3>1
    <3>2. CASE i - l \in 1..n /\ u[i] = t[i - l] /\ j - l \in 1..n /\ u[j] = t[j - l]
      <4>1. i - l = j - l
        BY <1>1, <1>6, <2>2, <3>2
      <4> QED BY <4>1
    <3>3. CASE i \in 1..l /\ j - l \in 1..n /\ u[j] = t[j - l]
      BY <1>1, <2>1, <2>2, <3>3
    <3>4. CASE j \in 1..l /\ i - l \in 1..n /\ u[i] = t[i - l]
      BY <1>1, <2>1, <2>2, <3>4
    <3> QED BY <1>1, <3>1, <3>2, <3>3, <3>4
  <2>3. ASSUME NEW i \in 1..k - n, NEW j \in 1..k - n, v[i] = v[j] PROVE i = j
    <3>1. n + i = n + j
      BY <1>1, <1>6, <2>3
    <3> QED BY <3>1
  <2>4. ASSUME NEW i \in 1..l + n, NEW j \in 1..k - n PROVE u[i] # v[j]
    <3>1. CASE i \in 1..l
      BY <1>1, <2>1, <3>1
    <3>2. CASE i - l \in 1..n /\ u[i] = t[i - l]
      <4>1. i - l # n + j /\ i - l \in 1..k /\ n + j \in 1..k
        BY <1>1, <3>2
      <4> QED BY <1>1, <1>6, <3>2, <4>1
    <3> QED BY <1>1, <3>1, <3>2
  <2> QED BY <2>2, <2>3, <2>4
<1>7. U \union V = S \union T
  BY <1>2, <1>3, <1>4, <1>5
<1> HIDE DEF S, T, U, V
<1>8. Moved(S, T, U, V, s, t, u, v, l, k, n)
  BY <1>2, <1>6, <1>7 DEF Moved
<1> QED BY <1>8 DEF S, T, U, V, First

\* The front of t moves to the end of s.
Moves(s, t, u, v, n) ==
  /\ u = s \o SubSeq(t, 1, n)
  /\ v = SubSeq(t, n + 1, Len(t))

\* No element is lost, none comes twice.
LEMMA FrontMoves ==
  ASSUME NEW S, NEW s \in Seq(S), NEW t \in Seq(S), NEW n \in 0..Len(t),
         NEW u, NEW v, Moves(s, t, u, v, n)
  PROVE  /\ u \in Seq(S) /\ v \in Seq(S) /\ Len(u) = Len(s) + n /\ Len(v) = Len(t) - n
         /\ Range(u) \union Range(v) = Range(s) \union Range(t)
         /\ Range(v) \subseteq Range(t)
         /\ IsInjective(s) /\ IsInjective(t) /\ Range(s) \intersect Range(t) = {} =>
              IsInjective(u) /\ IsInjective(v) /\ Range(u) \intersect Range(v) = {}
<1>1. PICK l \in Nat, k \in Nat : l = Len(s) /\ k = Len(t)
  OBVIOUS
<1>2. n \in 0..k /\ \A i \in 1..k : t[i] \in S
  BY <1>1
<1>3. PICK f : f = SubSeq(t, 1, n)
  OBVIOUS
<1>4. /\ f \in Seq(S) /\ Len(f) = n /\ \A i \in 1..n : f[i] = t[i]
  BY <1>1, <1>2, <1>3, SubSeqProperties
<1>5. /\ v \in Seq(S) /\ Len(v) = k - n /\ \A i \in 1..k - n : v[i] = t[n + i]
  <2>1. n + 1 \in Int /\ \A i \in n + 1..k : t[i] \in S
    BY <1>2
  <2>2. /\ v \in Seq(S) /\ Len(v) = (IF n + 1 <= k THEN k - (n + 1) + 1 ELSE 0)
        /\ \A i \in 1..k - (n + 1) + 1 : v[i] = t[(n + 1) + i - 1]
    BY <1>1, <2>1, SubSeqProperties DEF Moves
  <2> QED BY <1>2, <2>2
<1>6. /\ u \in Seq(S) /\ Len(u) = l + n
      /\ \A i \in 1..l + n : u[i] = IF i <= l THEN s[i] ELSE t[i - l]
  <2>1. u = s \o f
    BY <1>3 DEF Moves
  <2>2. /\ u \in Seq(S) /\ Len(u) = Len(s) + Len(f)
        /\ \A i \in 1..Len(s) + Len(f) : u[i] = IF i <= Len(s) THEN s[i] ELSE f[i - Len(s)]
    BY <1>4, <2>1, ConcatProperties
  <2>3. \A i \in 1..l + n : u[i] = IF i <= l THEN s[i] ELSE f[i - l]
    BY <1>1, <1>4, <2>2
  <2>4. \A i \in 1..l + n : i > l => i - l \in 1..n
    OBVIOUS
  <2> QED BY <1>1, <1>4, <2>2, <2>3, <2>4
<1>7. /\ Range(s) = {s[i] : i \in 1..l} /\ Range(t) = {t[i] : i \in 1..k}
      /\ Range(u) = {u[i] : i \in 1..l + n} /\ Range(v) = {v[i] : i \in 1..k - n}
      /\ DOMAIN s = 1..l /\ DOMAIN t = 1..k
      /\ DOMAIN u = 1..l + n /\ DOMAIN v = 1..k - n
  BY <1>1, <1>5, <1>6, Elements
<1>8. Moved(Range(s), Range(t), Range(u), Range(v), s, t, u, v, l, k, n)
  <2>1. Shifts(l, k, n, s, t, u, v)
    BY <1>5, <1>6 DEF Shifts
  <2>2. n \in 0..k
    BY <1>2
  <2>3. Moved(First(s, l), First(t, k), First(u, l + n), First(v, k - n), s, t, u, v, l, k, n)
    BY <2>1, <2>2, ValuesMove
  <2> QED BY <1>7, <2>3, Zenon DEF First
<1> QED BY <1>1, <1>5, <1>6, <1>7, <1>8, Zenon DEF IsInjective, Moved

\* Its first element does.
LEMMA HeadMoves ==
  ASSUME NEW S, NEW s \in Seq(S), NEW t \in Seq(S), t # <<>>
  PROVE  Moves(s, t, Append(s, Head(t)), Tail(t), 1)
<1>1. Tail(t) = SubSeq(t, 2, Len(t))
  BY TailIsSubSeq
<1>2. SubSeq(t, 1, 1) = <<Head(t)>>
  <2>1. 1 \in 1..Len(t) /\ Head(t) = t[1]
    OBVIOUS
  <2>2. SubSeq(t, 1, 1) = <<t[1]>> \o SubSeq(t, 2, 1)
    BY <2>1, SubSeqRecursiveFirst
  <2>3. SubSeq(t, 2, 1) = <<>>
    BY SubSeqEmpty
  <2>4. <<t[1]>> \in Seq(S)
    BY <2>1
  <2>5. <<t[1]>> \o <<>> = <<t[1]>>
    BY <2>4, ConcatEmptySeq
  <2> QED BY <2>1, <2>2, <2>3, <2>5
<1>3. Append(s, Head(t)) = s \o <<Head(t)>>
  BY AppendIsConcat
<1> QED BY <1>1, <1>2, <1>3 DEF Moves
-----------------------------------------------------------------------------
(* The inductive invariant.                                                *)

Line == Records \union {Blank, Torn, Bad}
File == [id : Nat, lines : Seq(Line), offset : Nat]
Task == [at : {"idle", "insert", "spill", "replay", "commit"}, batch : Seq(Records), end : Nat]

Typed ==
  /\ channel \in Seq(Records) /\ buf \in Seq(Records) /\ fresh \in Seq(Records)
  /\ task \in Task
  /\ files \in Seq(File) /\ active \in Nat /\ next \in Nat
  /\ rows \in [Records -> Nat] /\ tokens \subseteq Seq(Records)

\* The batch in memory.
Carried(t) == IF t.at \in {"insert", "spill"} THEN t.batch ELSE <<>>

\* No record is in two places of memory, or not made yet and in memory: batch b, buffer u,
\* channel c and the records n to come.
Apart(b, u, c, n) ==
  /\ IsInjective(b) /\ IsInjective(u) /\ IsInjective(c) /\ IsInjective(n)
  /\ Range(b) \intersect Range(u) = {} /\ Range(b) \intersect Range(c) = {}
  /\ Range(b) \intersect Range(n) = {} /\ Range(u) \intersect Range(c) = {}
  /\ Range(u) \intersect Range(n) = {} /\ Range(c) \intersect Range(n) = {}

\* The records of the log fs that are still to be replayed.
Lines(f) == f.offset + 1..Len(f.lines)
Pending(f) == {r \in Records : \E n \in Lines(f) : f.lines[n] = r}
Disk(fs) == {r \in Records : \E i \in DOMAIN fs : r \in Pending(fs[i])}

\* The files fs, ids below m, are in order.
Ordered(fs, m) ==
  /\ \A i, j \in DOMAIN fs : i < j => fs[i].id < fs[j].id
  /\ \A i \in DOMAIN fs : fs[i].id >= Legacy /\ fs[i].id < m

\* A file that can be read, where a is the one that is appended to: that one ends with
\* a batch's end.
Readable(f, a) ==
  /\ f.offset <= Len(f.lines)
  /\ \A n \in DOMAIN f.lines :
       /\ f.lines[n] = Torn => n = Len(f.lines)
       /\ f.lines[n] = Bad => f.id = Legacy
  /\ f.id = a => f.lines # <<>> /\ f.lines[Len(f.lines)] = Blank

\* A record is in a file once, and in one file.
Single(f) ==
  \A n, m \in Lines(f) : f.lines[n] = f.lines[m] /\ f.lines[n] \in Records => n = m
Unique(fs) ==
  /\ \A i \in DOMAIN fs : Single(fs[i])
  /\ \A i, j \in DOMAIN fs : i # j => Pending(fs[i]) \intersect Pending(fs[j]) = {}

\* The log fs: a is the file that is appended to, m the id of the next.
Sound(fs, a, m) ==
  /\ fs \in Seq(File) /\ a \in Nat /\ m \in Nat
  /\ Ordered(fs, m) /\ a # Legacy /\ a < m /\ m > Legacy
  /\ \A i \in DOMAIN fs : Readable(fs[i], a)
  /\ Unique(fs)

\* The batch b is in file f from line p on, for read_batch to find as one.
BatchAt(f, b, p) ==
  /\ Len(b) > 0
  /\ p \in Lines(f) /\ p + Len(b) - 1 \in Lines(f)
  /\ \A k \in 1..Len(b) : f.lines[p + k - 1] = b[k]
  /\ p = f.offset + 1 \/ f.lines[p - 1] \notin Records
  /\ Len(b) = BatchMax \/ p + Len(b) > Len(f.lines) \/ f.lines[p + Len(b)] \notin Records

Holds(f, n, b) == \E p : BatchAt(f, b, p) /\ n \in p..p + Len(b) - 1

\* A record of the file f that is in the table, its rows v, will be replayed with its
\* token, one of w; records in t excepted.
Covers(f, t, v, w) ==
  \A n \in Lines(f) :
    f.lines[n] \in Records \ t /\ v[f.lines[n]] > 0 => \E b \in w : Holds(f, n, b)
Covered(fs, t, v, w) == \A i \in DOMAIN fs : Covers(fs[i], t, v, w)

\* What replay read of the file f: the batch, and nothing else up to the end.
Reads(f, t) ==
  /\ t.end \in f.offset..Len(f.lines)
  /\ Len(t.batch) <= BatchMax
  /\ \A n \in f.offset + 1..t.end : f.lines[n] \in Records => Holds(f, n, t.batch)
  /\ t.batch # <<>> => \E p : BatchAt(f, t.batch, p) /\ p + Len(t.batch) - 1 <= t.end

\* Memory.
MemoryInv ==
  /\ Len(buf) < BatchMax /\ Len(Carried(task)) <= BatchMax
  /\ Apart(Carried(task), buf, channel, fresh)
  /\ task.at \in {"insert", "spill"} => task.batch # <<>>

\* The log.
LogInv ==
  /\ Sound(files, active, next)
  /\ Disk(files) \intersect (InMemory \union Range(fresh)) = {}
  /\ task.at \in {"replay", "commit"} => files # <<>> /\ Reads(files[1], task)

Bounded ==
  Size <= Max({MaxSize, Len(Left)}) /\ Segments <= MaxSegments

\* Tokens.
TokenInv ==
  /\ \A b \in tokens : Len(b) <= BatchMax /\ \A r \in Range(b) : rows[r] > 0
  /\ task.at = "commit" => \A r \in Range(task.batch) : rows[r] > 0

OnceInv ==
  /\ InsertedOnce
  /\ \A r \in Records \ torn : rows[r] > 0 =>
       /\ r \notin Range(fresh) \union Range(channel) \union Range(buf)
       /\ task.at = "insert" => r \notin Range(task.batch)
       /\ task.at = "spill" /\ r \in Range(task.batch) => task.batch \in tokens
  /\ Covered(files, torn, rows, tokens)

DrainInv ==
  /\ owed \intersect Range(fresh) = {}
  /\ drain = "last" => owed \intersect (Range(channel) \union Range(buf)) = {}
-----------------------------------------------------------------------------
(* Reading a file.                                                         *)

\* The least of a set of numbers.
LEMMA MinIs ==
  ASSUME NEW S, S \subseteq Nat, S # {}
  PROVE  Min(S) \in S /\ \A x \in S : Min(S) <= x
<1>1. \E x \in S : \A y \in S : x <= y
  BY LeastNat
<1> QED BY <1>1, Zenon DEF Min

\* The constants the proofs below rely on.
LEMMA LineKinds ==
  /\ Blank \notin Records /\ Torn \notin Records /\ Bad \notin Records
  /\ Blank # Torn /\ Blank # Bad /\ Torn # Bad
  /\ Records \subseteq Line /\ Blank \in Line /\ Torn \in Line /\ Bad \in Line
  /\ BatchMax \in Nat /\ BatchMax > 0
BY LogAssumption DEF Line

\* What read_batch returns for the l lines of s from o on: the batch of the lines a to z - 1.
Found(s, o, l, a, z, v) ==
  /\ a \in o + 1..l + 1 /\ z \in a..l + 1 /\ z <= a + BatchMax
  /\ \A i \in o + 1..a - 1 : s[i] = Blank
  /\ a <= l => s[a] # Blank
  /\ \A i \in a..z - 1 : s[i] \in Records
  /\ z <= l /\ z < a + BatchMax => s[z] \notin Records
  /\ v.records = SubSeq(s, a, z - 1)
  /\ v.end = IF z <= l /\ z < a + BatchMax /\ s[z] # Bad THEN z ELSE z - 1

\* read_batch skips blank lines and takes records up to a line that is none.
LEMMA ReadBatch ==
  ASSUME NEW s \in Seq(Line), NEW o \in 0..Len(s)
  PROVE  \E a, z : Found(s, o, Len(s), a, z, read_batch(s, o))
<1>1. PICK l \in Nat : l = Len(s)
  OBVIOUS
<1>2. o \in 0..l /\ BatchMax \in Nat /\ BatchMax > 0
  BY <1>1, LineKinds
<1> DEFINE A == {i \in o + 1..l : s[i] # Blank} \union {l + 1}
<1>3. PICK a : a = Min(A)
  OBVIOUS
<1>4. a \in A /\ \A x \in A : a <= x
  <2>1. A \subseteq Nat /\ A # {}
    BY <1>2
  <2> HIDE DEF A
  <2> QED BY <1>3, <2>1, MinIs
<1>5. /\ a \in o + 1..l + 1
      /\ \A i \in o + 1..a - 1 : s[i] = Blank
      /\ a <= l => s[a] # Blank
  BY <1>2, <1>4
<1> DEFINE Z == {i \in a..l : s[i] \notin Records} \union {l + 1, a + BatchMax}
<1>6. PICK z : z = Min(Z)
  OBVIOUS
<1>7. z \in Z /\ \A x \in Z : z <= x
  <2>1. Z \subseteq Nat /\ Z # {}
    BY <1>2, <1>5
  <2> HIDE DEF Z
  <2> QED BY <1>6, <2>1, MinIs
<1>8. /\ z \in a..l + 1 /\ z <= a + BatchMax
      /\ \A i \in a..z - 1 : s[i] \in Records
      /\ z <= l /\ z < a + BatchMax => s[z] \notin Records
  BY <1>2, <1>5, <1>7
<1>9. read_batch(s, o) =
        [records |-> SubSeq(s, a, z - 1),
         end |-> IF z <= l /\ z < a + BatchMax /\ s[z] # Bad THEN z ELSE z - 1]
  BY <1>1, <1>3, <1>6 DEF read_batch
<1>10. Found(s, o, l, a, z, read_batch(s, o))
  BY <1>5, <1>8, <1>9 DEF Found
<1> QED BY <1>1, <1>10

\* The batch it returns is one that BatchAt knows, and has all records up to the end.
LEMMA FoundReads ==
  ASSUME NEW f \in File, f.offset <= Len(f.lines),
         NEW a, NEW z, NEW v, Found(f.lines, f.offset, Len(f.lines), a, z, v)
  PROVE  /\ v.records \in Seq(Records) /\ v.end \in f.offset..Len(f.lines)
         /\ Len(v.records) = z - a /\ Len(v.records) <= BatchMax
         /\ \A n \in f.offset + 1..v.end : f.lines[n] \in Records => n \in a..z - 1
         /\ z - 1 <= v.end
         /\ v.records # <<>> => BatchAt(f, v.records, a) /\ a \in Lines(f)
<1>1. PICK s \in Seq(Line), o \in Nat, l \in Nat : s = f.lines /\ o = f.offset /\ l = Len(s)
  BY DEF File
<1>2. /\ a \in o + 1..l + 1 /\ z \in a..l + 1 /\ z <= a + BatchMax
      /\ \A i \in o + 1..a - 1 : s[i] = Blank
      /\ \A i \in a..z - 1 : s[i] \in Records
      /\ z <= l /\ z < a + BatchMax => s[z] \notin Records
      /\ v.records = SubSeq(s, a, z - 1)
      /\ v.end = IF z <= l /\ z < a + BatchMax /\ s[z] # Bad THEN z ELSE z - 1
      /\ a <= l => s[a] # Blank
  BY <1>1 DEF Found
<1>3. o <= l /\ BatchMax \in Nat /\ BatchMax > 0 /\ Blank \notin Records
  BY <1>1, LineKinds
<1>4. PICK b : b = v.records
  OBVIOUS
<1>5. /\ b \in Seq(Records) /\ Len(b) = z - a
      /\ \A k \in 1..z - a : b[k] = s[a + k - 1]
  <2>1. a \in Int /\ z - 1 \in Int /\ (z - 1) - a + 1 = z - a
    BY <1>2, <1>1
  <2>2. /\ SubSeq(s, a, z - 1) \in Seq(Records)
        /\ Len(SubSeq(s, a, z - 1)) = IF a <= z - 1 THEN (z - 1) - a + 1 ELSE 0
        /\ \A i \in 1..(z - 1) - a + 1 : SubSeq(s, a, z - 1)[i] = s[a + i - 1]
    BY <1>2, <2>1, SubSeqProperties
  <2> QED BY <1>2, <1>4, <2>1, <2>2
<1>6. /\ v.end \in o..l /\ z - 1 <= v.end /\ z - a <= BatchMax
      /\ \A n \in o + 1..v.end : s[n] \in Records => n \in a..z - 1
  <2>1. PICK e : e = v.end
    OBVIOUS
  <2>2. /\ a \in Nat /\ z \in Nat /\ o + 1 <= a /\ a <= z /\ z <= l + 1 /\ z <= a + BatchMax
        /\ e = z \/ e = z - 1
        /\ e = z => z <= l /\ s[z] \notin Records
    BY <1>1, <1>2, <1>3, <2>1
  <2>3. e \in o..l /\ z - 1 <= e /\ z - a <= BatchMax
    BY <1>3, <2>2
  <2>4. ASSUME NEW n \in o + 1..e, s[n] \in Records PROVE n \in a..z - 1
    <3>1. n # z
      BY <2>2, <2>3, <2>4
    <3>2. n >= a
      BY <1>2, <1>3, <2>4, <2>2
    <3> QED BY <2>2, <2>3, <3>1, <3>2
  <2> QED BY <2>1, <2>3, <2>4
<1>7. ASSUME b # <<>> PROVE BatchAt(f, b, a) /\ a \in Lines(f)
  <2>1. Len(b) > 0
    BY <1>5, <1>7
  <2>2. a < z /\ a \in o + 1..l /\ a + Len(b) = z /\ z - 1 \in o + 1..l
    BY <1>2, <1>3, <1>5, <2>1
  <2>3. a = o + 1 \/ s[a - 1] \notin Records
    BY <1>2, <1>3
  <2>4. Len(b) = BatchMax \/ a + Len(b) > l \/ s[a + Len(b)] \notin Records
    BY <1>2, <1>3, <1>5, <2>2
  <2>5. \A k \in 1..Len(b) : s[a + k - 1] = b[k]
    BY <1>5
  <2> QED BY <1>1, <2>1, <2>2, <2>3, <2>4, <2>5 DEF BatchAt, Lines
<1> QED BY <1>1, <1>4, <1>5, <1>6, <1>7

\* The lines of a batch are records.
LEMMA BatchLines ==
  ASSUME NEW f \in File, NEW b \in Seq(Records), NEW p, BatchAt(f, b, p)
  PROVE  /\ p \in Nat /\ f.offset < p /\ p + Len(b) - 1 <= Len(f.lines) /\ f.offset \in Nat
         /\ Len(b) \in Nat /\ Len(b) > 0 /\ Len(f.lines) \in Nat
         /\ \A i \in p..p + Len(b) - 1 : f.lines[i] = b[i - p + 1] /\ f.lines[i] \in Records
<1>1. PICK s \in Seq(Line), o \in Nat, l \in Nat : s = f.lines /\ o = f.offset /\ l = Len(s)
  BY DEF File
<1>2. PICK k \in Nat : k = Len(b)
  OBVIOUS
<1>3. p \in o + 1..l /\ p + k - 1 \in o + 1..l /\ \A i \in 1..k : s[p + i - 1] = b[i]
  BY <1>1, <1>2 DEF BatchAt, Lines
<1>4. \A i \in 1..k : b[i] \in Records
  BY <1>2
<1>5. k > 0
  BY <1>2 DEF BatchAt
<1>6. ASSUME NEW i \in p..p + k - 1
      PROVE  s[i] = b[i - p + 1] /\ s[i] \in Records
  <2>1. i - p + 1 \in 1..k /\ p + (i - p + 1) - 1 = i
    BY <1>3
  <2> QED BY <1>3, <1>4, <2>1
<1> QED BY <1>1, <1>2, <1>3, <1>5, <1>6

\* Two batches that share a line are the same.
LEMMA SameBatch ==
  ASSUME NEW f \in File, NEW b \in Seq(Records), NEW c \in Seq(Records), NEW p, NEW q,
         BatchAt(f, b, p), BatchAt(f, c, q), Len(b) <= BatchMax, Len(c) <= BatchMax,
         NEW n \in p..p + Len(b) - 1, n \in q..q + Len(c) - 1
  PROVE  p = q /\ b = c
<1>1. PICK s \in Seq(Line), o \in Nat, l \in Nat : s = f.lines /\ o = f.offset /\ l = Len(s)
  BY DEF File
<1>2. PICK k \in Nat, m \in Nat : k = Len(b) /\ m = Len(c)
  OBVIOUS
<1>3. /\ p \in Nat /\ o < p /\ p + k - 1 <= l /\ k > 0
      /\ \A i \in p..p + k - 1 : s[i] = b[i - p + 1] /\ s[i] \in Records
  BY <1>1, <1>2, BatchLines
<1>4. /\ q \in Nat /\ o < q /\ q + m - 1 <= l /\ m > 0
      /\ \A i \in q..q + m - 1 : s[i] = c[i - q + 1] /\ s[i] \in Records
  BY <1>1, <1>2, BatchLines
<1>5. /\ p = o + 1 \/ s[p - 1] \notin Records
      /\ q = o + 1 \/ s[q - 1] \notin Records
      /\ k = BatchMax \/ p + k > l \/ s[p + k] \notin Records
      /\ m = BatchMax \/ q + m > l \/ s[q + m] \notin Records
  BY <1>1, <1>2 DEF BatchAt
<1>6. n \in p..p + k - 1 /\ n \in q..q + m - 1 /\ BatchMax \in Nat /\ k <= BatchMax /\ m <= BatchMax
  BY <1>2, LineKinds
<1>7. p = q
  <2>0. /\ p \in Nat /\ q \in Nat /\ n \in Int /\ o < p /\ o < q
        /\ p <= n /\ n <= p + k - 1 /\ q <= n /\ n <= q + m - 1
    BY <1>3, <1>4, <1>6
  <2>1. CASE p < q
    <3>1. q - 1 \in p..p + k - 1 /\ q # o + 1
      BY <2>0, <2>1
    <3> QED BY <1>3, <1>5, <3>1
  <2>2. CASE q < p
    <3>1. p - 1 \in q..q + m - 1 /\ p # o + 1
      BY <2>0, <2>2
    <3> QED BY <1>4, <1>5, <3>1
  <2> QED BY <2>0, <2>1, <2>2
<1>8. k = m
  <2>1. CASE k < m
    <3>1. p + k \in q..q + m - 1 /\ k # BatchMax /\ ~(p + k > l)
      BY <1>3, <1>4, <1>6, <1>7, <2>1
    <3> QED BY <1>4, <1>5, <3>1
  <2>2. CASE m < k
    <3>1. q + m \in p..p + k - 1 /\ m # BatchMax /\ ~(q + m > l)
      BY <1>3, <1>4, <1>6, <1>7, <2>2
    <3> QED BY <1>3, <1>5, <3>1
  <2> QED BY <2>1, <2>2
<1>9. ASSUME NEW i \in 1..k PROVE b[i] = c[i]
  <2>1. p + i - 1 \in p..p + k - 1 /\ (p + i - 1) - p + 1 = i
    BY <1>3
  <2> QED BY <1>3, <1>4, <1>7, <1>8, <2>1
<1>10. b = c
  BY <1>2, <1>8, <1>9, SeqEqual
<1> QED BY <1>7, <1>10

\* Where next_batch goes on after lines that do not parse.
LEMMA PastBad ==
  ASSUME NEW f \in File, NEW a, Readable(f, a)
  PROVE  \E o \in f.offset..Len(f.lines) :
           /\ past_bad(f) = [f EXCEPT !.offset = o]
           /\ \A i \in f.offset + 1..o : f.lines[i] \notin Records
           /\ ~bad_record(f.lines, o)
<1>1. PICK s \in Seq(Line), o \in Nat, l \in Nat : s = f.lines /\ o = f.offset /\ l = Len(s)
  BY DEF File
<1>2. /\ o <= l /\ \A i \in 1..l : s[i] = Torn => i = l
  BY <1>1 DEF Readable
<1>3. CASE ~bad_record(s, o)
  <2>1. past_bad(f) = f
    BY <1>1, <1>3 DEF past_bad
  <2>2. f = [f EXCEPT !.offset = o]
    BY <1>1 DEF File
  <2>3. o \in o..l /\ \A i \in o + 1..o : s[i] \notin Records
    BY <1>2
  <2> QED BY <1>1, <1>3, <2>1, <2>2, <2>3
<1>4. CASE bad_record(s, o)
  <2> DEFINE G == {n \in o..l : ~bad_record(s, n) /\ \A i \in o + 1..n : s[i] \in {Bad, Blank}}
             M == {i \in o + 1..l : s[i] \notin {Bad, Blank}} \union {l + 1}
  <2>1. PICK m : m = Min(M)
    OBVIOUS
  <2>2. m \in M /\ \A x \in M : m <= x
    <3>1. M \subseteq Nat /\ M # {}
      OBVIOUS
    <3> HIDE DEF M
    <3> QED BY <2>1, <3>1, MinIs
  <2>3. /\ m \in o + 1..l + 1 /\ m - 1 \in o..l
        /\ \A i \in o + 1..m - 1 : s[i] \in {Bad, Blank}
        /\ m <= l => s[m] \notin {Bad, Blank}
    BY <1>2, <2>2
  <2>4. ~bad_record(s, m - 1)
    <3>1. PICK x, z : Found(s, m - 1, l, x, z, read_batch(s, m - 1))
      <4>1. m - 1 \in 0..Len(s)
        BY <1>1, <1>2, <2>3
      <4> QED BY <1>1, <4>1, ReadBatch
    <3>2. PICK v : v = read_batch(s, m - 1)
      OBVIOUS
    <3>3. /\ x \in m..l + 1 /\ z \in x..l + 1 /\ z <= x + BatchMax
          /\ \A i \in m..x - 1 : s[i] = Blank
          /\ \A i \in x..z - 1 : s[i] \in Records
          /\ z <= l /\ z < x + BatchMax => s[z] \notin Records
          /\ v.end = IF z <= l /\ z < x + BatchMax /\ s[z] # Bad THEN z ELSE z - 1
      BY <2>3, <3>1, <3>2 DEF Found
    <3>4. BatchMax \in Nat /\ BatchMax > 0 /\ Torn \notin Records /\ Torn # Bad
      BY LineKinds
    <3>5. x = m
      BY <2>3, <3>3
    <3>6. CASE m = l + 1
      <4>1. v.end = l
        BY <3>3, <3>5, <3>6
      <4> QED BY <1>1, <3>2, <4>1 DEF bad_record
    <3>7. CASE m <= l /\ s[m] \in Records
      <4>1. m < z
        BY <2>3, <3>3, <3>4, <3>5, <3>7
      <4>2. z - 1 \in Int /\ m \in Int /\ \A i \in m..z - 1 : s[i] \in Records
        BY <2>3, <3>3, <3>5
      <4>3. Len(SubSeq(s, m, z - 1)) = IF m <= z - 1 THEN (z - 1) - m + 1 ELSE 0
        BY <4>2, SubSeqProperties
      <4>4. Len(v.records) # 0
        BY <3>1, <3>2, <3>3, <3>5, <4>1, <4>2, <4>3 DEF Found
      <4>5. v.records # <<>>
        BY <4>4
      <4> QED BY <3>2, <4>5 DEF bad_record
    <3>8. CASE m <= l /\ s[m] = Torn
      <4>1. m = l
        BY <1>2, <2>3, <3>8
      <4>2. z = m
        BY <2>3, <3>3, <3>4, <3>5, <3>8, <4>1
      <4>3. v.end = l
        BY <3>3, <3>4, <3>5, <3>8, <4>1, <4>2
      <4> QED BY <1>1, <3>2, <4>3 DEF bad_record
    <3>9. m <= l => s[m] \in Records \/ s[m] = Torn
      <4>1. m <= l => s[m] \in Line
        BY <1>1, <2>3
      <4> QED BY <2>3, <4>1 DEF Line
    <3> QED BY <2>3, <3>6, <3>7, <3>8, <3>9
  <2>5. m - 1 \in G
    BY <2>3, <2>4
  <2>6. PICK g : g = Min(G)
    OBVIOUS
  <2>7. g \in G
    <3>1. G \subseteq Nat /\ G # {}
      BY <2>5
    <3> HIDE DEF G
    <3> QED BY <2>6, <3>1, MinIs
  <2>8. past_bad(f) = [f EXCEPT !.offset = g]
    BY <1>1, <1>4, <2>6 DEF past_bad
  <2>9. \A i \in o + 1..g : s[i] \notin Records
    BY <2>7, LineKinds
  <2> QED BY <1>1, <2>7, <2>8, <2>9
<1> QED BY <1>3, <1>4
-----------------------------------------------------------------------------
(* What becomes of the log.                                                *)

\* The parts of a file.
LEMMA FileParts ==
  ASSUME NEW f \in File
  PROVE  /\ f.id \in Nat /\ f.offset \in Nat /\ f.lines \in Seq(Line) /\ Len(f.lines) \in Nat
         /\ DOMAIN f.lines = 1..Len(f.lines)
         /\ \A n \in 1..Len(f.lines) : f.lines[n] \in Line
BY DEF File

\* The files of a log.
LEMMA FilesOf ==
  ASSUME NEW fs \in Seq(File)
  PROVE  /\ DOMAIN fs = 1..Len(fs) /\ Len(fs) \in Nat
         /\ \A i \in 1..Len(fs) : fs[i] \in File
         /\ fs # <<>> <=> 1 \in 1..Len(fs)
OBVIOUS

\* File k of the log fs becomes g in gs, where c is the file appended to.
Replaces(fs, a, k, g, c, gs) ==
  /\ gs = [fs EXCEPT ![k] = g]
  /\ k \in DOMAIN fs /\ g \in File /\ g.id = fs[k].id
  /\ c \in {a, 0} /\ Readable(g, c) /\ Single(g)
  /\ \A j \in DOMAIN fs : j # k => Pending(g) \intersect Pending(fs[j]) = {}

\* One file of a log is replaced.
LEMMA OneFile ==
  ASSUME NEW fs, NEW a, NEW m, Sound(fs, a, m), NEW k, NEW g, NEW c,
         NEW gs, Replaces(fs, a, k, g, c, gs)
  PROVE  /\ Sound(gs, c, m) /\ DOMAIN gs = DOMAIN fs /\ Len(gs) = Len(fs) /\ gs[k] = g
         /\ \A j \in DOMAIN fs : j # k => gs[j] = fs[j]
         /\ Disk(gs) = (Disk(fs) \ Pending(fs[k])) \union Pending(g)
         /\ \A i \in DOMAIN fs : gs[i].id = fs[i].id
<1> USE DEF Replaces
<1>1. /\ fs \in Seq(File) /\ a \in Nat /\ m \in Nat
      /\ Ordered(fs, m) /\ a # Legacy /\ a < m /\ m > Legacy
      /\ \A i \in DOMAIN fs : Readable(fs[i], a)
      /\ Unique(fs)
  BY DEF Sound
<1>2. gs \in Seq(File) /\ Len(gs) = Len(fs) /\ DOMAIN gs = DOMAIN fs
  BY <1>1
<1>3. gs[k] = g /\ \A j \in DOMAIN fs : j # k => gs[j] = fs[j]
  BY <1>1
<1>4. \A i \in DOMAIN fs : gs[i].id = fs[i].id
  BY <1>3
<1>5. Ordered(gs, m)
  BY <1>1, <1>2, <1>4 DEF Ordered
<1>6. \A i \in DOMAIN gs : Readable(gs[i], c)
  <2> SUFFICES ASSUME NEW i \in DOMAIN fs, i # k PROVE Readable(fs[i], c)
    BY <1>2, <1>3
  <2>1. Readable(fs[i], a) /\ fs[i].id # 0
    BY <1>1 DEF Ordered, Legacy
  <2> QED BY <2>1 DEF Readable
<1>7. Unique(gs)
  <2>1. \A i \in DOMAIN gs : Single(gs[i])
    BY <1>1, <1>2, <1>3 DEF Unique
  <2>2. ASSUME NEW i \in DOMAIN fs, NEW j \in DOMAIN fs, i # j
        PROVE  Pending(gs[i]) \intersect Pending(gs[j]) = {}
    <3>1. CASE i = k
      BY <1>3, <2>2, <3>1
    <3>2. CASE j = k
      BY <1>3, <2>2, <3>2
    <3>3. CASE i # k /\ j # k
      BY <1>1, <1>3, <2>2, <3>3 DEF Unique
    <3> QED BY <3>1, <3>2, <3>3
  <2> QED BY <1>2, <2>1, <2>2 DEF Unique
<1>8. Disk(gs) = (Disk(fs) \ Pending(fs[k])) \union Pending(g)
  <2>1. \A r \in Pending(g) : r \in Records
    BY DEF Pending
  <2>2. \A r : r \in Disk(gs) <=> r \in Records /\ \E i \in DOMAIN fs : r \in Pending(gs[i])
    BY <1>2 DEF Disk
  <2>3. \A r : r \in Disk(fs) <=> r \in Records /\ \E i \in DOMAIN fs : r \in Pending(fs[i])
    BY DEF Disk
  <2>4. \A i, j \in DOMAIN fs : i # j => Pending(fs[i]) \intersect Pending(fs[j]) = {}
    BY <1>1 DEF Unique
  <2>5. ASSUME NEW r \in Disk(gs) PROVE r \in (Disk(fs) \ Pending(fs[k])) \union Pending(g)
    <3>1. PICK i \in DOMAIN fs : r \in Pending(gs[i])
      BY <2>2
    <3>2. CASE i = k
      BY <1>3, <3>1, <3>2
    <3>3. CASE i # k
      BY <1>3, <2>2, <2>3, <2>4, <3>1, <3>3
    <3> QED BY <3>2, <3>3
  <2>6. ASSUME NEW r \in Disk(fs), r \notin Pending(fs[k]) PROVE r \in Disk(gs)
    BY <1>3, <2>2, <2>3, <2>6
  <2>7. \A r \in Pending(g) : r \in Disk(gs)
    BY <1>3, <2>1, <2>2
  <2> QED BY <2>5, <2>6, <2>7
<1>9. c \in Nat /\ c # Legacy /\ c < m
  BY <1>1 DEF Legacy
<1>10. Sound(gs, c, m)
  BY <1>1, <1>2, <1>5, <1>6, <1>7, <1>9 DEF Sound
<1> QED BY <1>2, <1>3, <1>4, <1>8, <1>10

\* The first file is read up to o.
Skips(fs, gs, o) == gs = [fs EXCEPT ![1] = [fs[1] EXCEPT !.offset = o]]

\* A log of which more is read is a log with less to replay.
LEMMA SkipSound ==
  ASSUME NEW fs, NEW a, NEW m, Sound(fs, a, m), fs # <<>>,
         NEW o \in fs[1].offset..Len(fs[1].lines), NEW gs, Skips(fs, gs, o)
  PROVE  /\ Sound(gs, a, m) /\ DOMAIN gs = DOMAIN fs /\ Len(gs) = Len(fs)
         /\ 1 \in DOMAIN fs /\ gs[1] = [fs[1] EXCEPT !.offset = o] /\ gs[1] \in File
         /\ \A j \in DOMAIN fs : j # 1 => gs[j] = fs[j]
         /\ Disk(gs) \subseteq Disk(fs)
         /\ \A r \in Disk(fs) : r \notin Disk(gs) =>
              \E n \in fs[1].offset + 1..o : fs[1].lines[n] = r
         /\ \A i \in DOMAIN fs : gs[i].id = fs[i].id /\ gs[i].lines = fs[i].lines
<1> DEFINE f == fs[1]
           g == [f EXCEPT !.offset = o]
<1>1. fs \in Seq(File) /\ 1 \in DOMAIN fs /\ f \in File /\ Readable(f, a) /\ Unique(fs)
  BY DEF Sound
<1>2. f.offset \in Nat /\ Len(f.lines) \in Nat /\ o \in Nat
  BY <1>1, FileParts
<1>3. g \in File /\ g.id = f.id /\ g.lines = f.lines /\ g.offset = o
  BY <1>1, <1>2 DEF File
<1>4. Lines(g) \subseteq Lines(f)
  BY <1>2, <1>3 DEF Lines
<1>5. Readable(g, a)
  <2>1. o <= Len(f.lines)
    BY <1>2
  <2> HIDE DEF g
  <2> QED BY <1>1, <1>3, <2>1 DEF Readable
<1>6. Pending(g) \subseteq Pending(f)
  <2> HIDE DEF g
  <2> QED BY <1>3, <1>4 DEF Pending
<1>7. Single(g)
  <2>1. Single(f)
    BY <1>1 DEF Unique
  <2> HIDE DEF g
  <2> QED BY <1>3, <1>4, <2>1 DEF Single
<1>8. \A j \in DOMAIN fs : j # 1 => Pending(g) \intersect Pending(fs[j]) = {}
  <2>1. \A j \in DOMAIN fs : j # 1 => Pending(f) \intersect Pending(fs[j]) = {}
    BY <1>1 DEF Unique
  <2> HIDE DEF g
  <2> QED BY <1>6, <2>1
<1>9. gs = [fs EXCEPT ![1] = g]
  BY DEF Skips
<1>10. \A r \in Pending(f) : r \notin Pending(g) => \E n \in f.offset + 1..o : f.lines[n] = r
  <2> SUFFICES ASSUME NEW r \in Pending(f), r \notin Pending(g)
               PROVE  \E n \in f.offset + 1..o : f.lines[n] = r
    OBVIOUS
  <2>1. PICK n \in f.offset + 1..Len(f.lines) : f.lines[n] = r
    BY DEF Pending, Lines
  <2>2. r \in Records
    BY DEF Pending
  <2>3. ~(n \in o + 1..Len(f.lines))
    BY <1>3, <2>1, <2>2 DEF Pending, Lines
  <2>4. n \in f.offset + 1..o
    BY <1>2, <2>1, <2>3
  <2> QED BY <2>1, <2>4
<1> HIDE DEF g
<1>11. /\ Sound(gs, a, m) /\ DOMAIN gs = DOMAIN fs /\ Len(gs) = Len(fs) /\ gs[1] = g
       /\ \A j \in DOMAIN fs : j # 1 => gs[j] = fs[j]
       /\ Disk(gs) = (Disk(fs) \ Pending(f)) \union Pending(g)
       /\ \A i \in DOMAIN fs : gs[i].id = fs[i].id
  <2>1. Replaces(fs, a, 1, g, a, gs)
    BY <1>1, <1>3, <1>5, <1>7, <1>8, <1>9 DEF Replaces
  <2> QED BY <2>1, OneFile
<1>12. Pending(f) \subseteq Disk(fs)
  BY <1>1 DEF Disk, Pending
<1>13. \A i \in DOMAIN fs : gs[i].lines = fs[i].lines
  BY <1>3, <1>11
<1>14. Disk(gs) \subseteq Disk(fs)
  BY <1>6, <1>11, <1>12
<1>15. \A r \in Disk(fs) : r \notin Disk(gs) => r \in Pending(f) /\ r \notin Pending(g)
  BY <1>11
<1>16. \A r \in Disk(fs) : r \notin Disk(gs) => \E n \in f.offset + 1..o : f.lines[n] = r
  BY <1>10, <1>15
<1>17. g = [f EXCEPT !.offset = o]
  BY DEF g
<1> QED BY <1>1, <1>3, <1>11, <1>13, <1>14, <1>16, <1>17

\* Batches are found as before when the file is read up to the end of one.
LEMMA SkipCovered ==
  ASSUME NEW fs, NEW a, NEW m, Sound(fs, a, m), fs # <<>>,
         NEW o \in fs[1].offset..Len(fs[1].lines), NEW gs, Skips(fs, gs, o),
         NEW t, NEW v, NEW w, Covered(fs, t, v, w), w \subseteq Seq(Records),
         \A b \in w : \A p : BatchAt(fs[1], b, p) /\ p <= o => p + Len(b) - 1 <= o
  PROVE  Covered(gs, t, v, w)
<1> DEFINE f == fs[1]
           g == [f EXCEPT !.offset = o]
<1>1. /\ DOMAIN gs = DOMAIN fs /\ 1 \in DOMAIN fs /\ gs[1] = g
      /\ \A j \in DOMAIN fs : j # 1 => gs[j] = fs[j]
  BY SkipSound
<1>2. f \in File
  BY <1>1 DEF Sound
<1>3. f.offset \in Nat /\ Len(f.lines) \in Nat /\ o \in Nat /\ f.offset <= o
  BY <1>2, FileParts
<1>4. g.lines = f.lines /\ g.offset = o
  BY <1>2 DEF File
<1>5. Covers(f, t, v, w)
  BY <1>1 DEF Covered
<1> HIDE DEF g
<1>6. ASSUME NEW n \in Lines(g), g.lines[n] \in Records \ t, v[g.lines[n]] > 0
      PROVE  \E b \in w : Holds(g, n, b)
  <2>1. n \in Lines(f) /\ n > o
    BY <1>3, <1>4 DEF Lines
  <2>2. PICK b \in w : Holds(f, n, b)
    BY <1>4, <1>5, <1>6, <2>1 DEF Covers
  <2>3. PICK p : BatchAt(f, b, p) /\ n \in p..p + Len(b) - 1
    BY <2>2 DEF Holds
  <2>4. /\ p \in Nat /\ p + Len(b) - 1 <= Len(f.lines) /\ Len(b) \in Nat /\ Len(b) > 0
        /\ f.offset < p
    BY <1>2, <2>3, BatchLines
  <2>5. p > o
    BY <2>1, <2>3, <2>4
  <2>6. p \in Lines(g) /\ p + Len(b) - 1 \in Lines(g)
    BY <1>3, <1>4, <2>4, <2>5 DEF Lines
  <2>7. p = o + 1 \/ f.lines[p - 1] \notin Records
    <3>1. p = f.offset + 1 \/ f.lines[p - 1] \notin Records
      BY <2>3 DEF BatchAt
    <3> QED BY <1>3, <2>4, <2>5, <3>1
  <2>8. BatchAt(g, b, p)
    BY <1>4, <2>3, <2>6, <2>7 DEF BatchAt
  <2> QED BY <2>3, <2>8 DEF Holds
<1>7. Covers(g, t, v, w)
  BY <1>6 DEF Covers
<1> QED BY <1>1, <1>7 DEF Covered

\* The first file goes.
LEMMA DropSound ==
  ASSUME NEW fs, NEW a, NEW m, Sound(fs, a, m), fs # <<>>, NEW gs, gs = Tail(fs)
  PROVE  /\ Sound(gs, a, m) /\ Len(gs) = Len(fs) - 1 /\ 1 \in DOMAIN fs
         /\ \A i \in DOMAIN gs : i + 1 \in DOMAIN fs /\ gs[i] = fs[i + 1]
         /\ Disk(gs) \subseteq Disk(fs)
         /\ \A r \in Disk(fs) : r \notin Disk(gs) => r \in Pending(fs[1])
         /\ \A t, v, w : Covered(fs, t, v, w) => Covered(gs, t, v, w)
<1>1. /\ fs \in Seq(File) /\ a \in Nat /\ m \in Nat
      /\ Ordered(fs, m) /\ a # Legacy /\ a < m /\ m > Legacy
      /\ \A i \in DOMAIN fs : Readable(fs[i], a)
      /\ Unique(fs)
  BY DEF Sound
<1>2. PICK l \in Nat : l = Len(fs)
  BY <1>1
<1>3. l > 0 /\ DOMAIN fs = 1..l
  BY <1>1, <1>2
<1>4. /\ gs \in Seq(File) /\ Len(gs) = l - 1 /\ DOMAIN gs = 1..l - 1
      /\ \A i \in 1..l - 1 : gs[i] = fs[i + 1]
  BY <1>1, <1>2, <1>3
<1>5. \A i \in 1..l - 1 : i + 1 \in 1..l /\ gs[i] = fs[i + 1]
  BY <1>3, <1>4
<1>6. Ordered(gs, m)
  <2>1. ASSUME NEW i \in 1..l - 1, NEW j \in 1..l - 1, i < j PROVE gs[i].id < gs[j].id
    <3>1. i + 1 \in 1..l /\ j + 1 \in 1..l /\ i + 1 < j + 1
      BY <2>1
    <3> QED BY <1>1, <1>3, <1>5, <3>1 DEF Ordered
  <2>2. \A i \in 1..l - 1 : gs[i].id >= Legacy /\ gs[i].id < m
    BY <1>1, <1>3, <1>5 DEF Ordered
  <2> QED BY <1>4, <2>1, <2>2 DEF Ordered
<1>7. \A i \in DOMAIN gs : Readable(gs[i], a)
  BY <1>1, <1>3, <1>4, <1>5
<1>8. Unique(gs)
  <2>1. \A i \in 1..l - 1 : Single(gs[i])
    BY <1>1, <1>3, <1>5 DEF Unique
  <2>2. ASSUME NEW i \in 1..l - 1, NEW j \in 1..l - 1, i # j
        PROVE  Pending(gs[i]) \intersect Pending(gs[j]) = {}
    <3>1. i + 1 \in 1..l /\ j + 1 \in 1..l /\ i + 1 # j + 1
      BY <2>2
    <3> QED BY <1>1, <1>3, <1>5, <3>1 DEF Unique
  <2> QED BY <1>4, <2>1, <2>2 DEF Unique
<1>9. Sound(gs, a, m)
  BY <1>1, <1>4, <1>6, <1>7, <1>8 DEF Sound
<1>10. Disk(gs) \subseteq Disk(fs)
  BY <1>3, <1>4, <1>5 DEF Disk
<1>11. ASSUME NEW r \in Disk(fs), r \notin Disk(gs) PROVE r \in Pending(fs[1])
  <2>1. PICK i \in 1..l : r \in Pending(fs[i]) /\ r \in Records
    BY <1>3 DEF Disk
  <2>2. CASE i > 1
    <3>1. i - 1 \in 1..l - 1 /\ (i - 1) + 1 = i
      BY <2>2
    <3>2. r \in Pending(gs[i - 1])
      BY <1>5, <2>1, <3>1
    <3> QED BY <1>4, <1>11, <2>1, <3>1, <3>2 DEF Disk
  <2> QED BY <2>1, <2>2
<1>12. \A t, v, w : Covered(fs, t, v, w) => Covered(gs, t, v, w)
  BY <1>3, <1>4, <1>5 DEF Covered
<1> QED BY <1>2, <1>3, <1>4, <1>5, <1>9, <1>10, <1>11, <1>12

\* Lines s that may be written: records once, and a broken one at most at the end.
Piece(s) ==
  /\ s \in Seq(Line)
  /\ \A i \in 1..Len(s) : s[i] # Bad /\ (s[i] = Torn => i = Len(s))
  /\ \A i, j \in 1..Len(s) : s[i] = s[j] /\ s[i] \in Records => i = j

\* They hold the batch b as a whole.
Carries(s, b) ==
  /\ Len(b) > 0 /\ Len(b) <= Len(s)
  /\ \A i \in 1..Len(b) : s[i] = b[i]
  /\ \A i \in Len(b) + 1..Len(s) : s[i] \notin Records

\* A file that is empty or ends with a batch's end, and has no broken line, grows by s.
Grows(f, s, g) ==
  /\ f \in File /\ f.offset <= Len(f.lines)
  /\ f.lines # <<>> => f.lines[Len(f.lines)] = Blank
  /\ \A n \in 1..Len(f.lines) : f.lines[n] # Torn /\ (f.lines[n] = Bad => f.id = Legacy)
  /\ Piece(s)
  /\ g = [f EXCEPT !.lines = f.lines \o s]

\* The lines of such a file.
LEMMA GrownLines ==
  ASSUME NEW f, NEW s, NEW g, Grows(f, s, g)
  PROVE  /\ g \in File /\ g.id = f.id /\ g.offset = f.offset
         /\ Len(g.lines) = Len(f.lines) + Len(s)
         /\ Len(f.lines) \in Nat /\ Len(s) \in Nat /\ f.offset \in Nat
         /\ \A n \in 1..Len(f.lines) : g.lines[n] = f.lines[n]
         /\ \A i \in 1..Len(s) : g.lines[Len(f.lines) + i] = s[i]
         /\ \A n \in 1..Len(g.lines) : \/ n \in 1..Len(f.lines)
                                       \/ n - Len(f.lines) \in 1..Len(s)
<1>1. f \in File /\ f.lines \in Seq(Line) /\ s \in Seq(Line) /\ f.offset \in Nat
  BY FileParts DEF Grows, Piece
<1>2. PICK h : h = f.lines \o s
  OBVIOUS
<1>3. /\ h \in Seq(Line) /\ Len(h) = Len(f.lines) + Len(s)
      /\ \A i \in 1..Len(f.lines) + Len(s) :
           h[i] = IF i <= Len(f.lines) THEN f.lines[i] ELSE s[i - Len(f.lines)]
  BY <1>1, <1>2, ConcatProperties
<1>4. g = [f EXCEPT !.lines = h]
  BY <1>2 DEF Grows
<1>5. g \in File /\ g.id = f.id /\ g.offset = f.offset /\ g.lines = h
  BY <1>1, <1>3, <1>4 DEF File
<1>6. PICK l \in Nat, k \in Nat : l = Len(f.lines) /\ k = Len(s)
  BY <1>1
<1>7. /\ \A n \in 1..l : h[n] = f.lines[n]
      /\ \A i \in 1..k : h[l + i] = s[i]
      /\ \A n \in 1..l + k : n \in 1..l \/ n - l \in 1..k
  <2>1. \A i \in 1..l + k : h[i] = IF i <= l THEN f.lines[i] ELSE s[i - l]
    BY <1>3, <1>6
  <2>2. \A i \in 1..k : l + i \in 1..l + k /\ ~(l + i <= l) /\ (l + i) - l = i
    OBVIOUS
  <2>3. \A n \in 1..l : n \in 1..l + k /\ n <= l
    OBVIOUS
  <2> QED BY <2>1, <2>2, <2>3
<1> QED BY <1>1, <1>3, <1>5, <1>6, <1>7

\* What such a file has to replay.
LEMMA GrownFile ==
  ASSUME NEW f, NEW s, NEW g, Grows(f, s, g)
  PROVE  /\ Pending(g) = Pending(f) \union (Range(s) \intersect Records)
         /\ Single(f) /\ Pending(f) \intersect Range(s) = {} => Single(g)
         /\ \A c : (g.id = c => s # <<>> /\ s[Len(s)] = Blank) => Readable(g, c)
<1>1. PICK l \in Nat, k \in Nat, o \in Nat : l = Len(f.lines) /\ k = Len(s) /\ o = f.offset
  BY GrownLines
<1>2. PICK x, h : x = f.lines /\ h = g.lines
  OBVIOUS
<1>3. /\ g \in File /\ g.id = f.id /\ g.offset = o /\ Len(h) = l + k
      /\ \A n \in 1..l : h[n] = x[n]
      /\ \A i \in 1..k : h[l + i] = s[i]
      /\ \A n \in 1..l + k : n \in 1..l \/ n - l \in 1..k
  BY <1>1, <1>2, GrownLines
<1>4. /\ o <= l /\ Piece(s)
      /\ \A n \in 1..l : x[n] # Torn /\ (x[n] = Bad => f.id = Legacy)
  BY <1>1, <1>2 DEF Grows
<1>5. Lines(f) = o + 1..l /\ Lines(g) = o + 1..l + k
  BY <1>1, <1>2, <1>3 DEF Lines
<1>6. /\ \A n \in o + 1..l : n \in o + 1..l + k /\ h[n] = x[n]
      /\ \A i \in 1..k : l + i \in o + 1..l + k /\ h[l + i] = s[i]
      /\ \A n \in o + 1..l + k : \/ n \in o + 1..l
                                 \/ n - l \in 1..k /\ h[n] = s[n - l]
  <2>1. \A n \in o + 1..l : n \in 1..l /\ n \in o + 1..l + k
    OBVIOUS
  <2>2. \A i \in 1..k : l + i \in o + 1..l + k
    BY <1>4
  <2>3. \A n \in o + 1..l + k : n \in o + 1..l \/ (n - l \in 1..k /\ l + (n - l) = n)
    OBVIOUS
  <2> QED BY <1>3, <2>1, <2>2, <2>3
<1>7. Range(s) = {s[i] : i \in 1..k}
  BY <1>1, <1>4, Elements DEF Piece
<1>8. Pending(g) = Pending(f) \union (Range(s) \intersect Records)
  <2>1. \A r : r \in Pending(g) <=> r \in Records /\ \E n \in o + 1..l + k : h[n] = r
    BY <1>2, <1>5 DEF Pending
  <2>2. \A r : r \in Pending(f) <=> r \in Records /\ \E n \in o + 1..l : x[n] = r
    BY <1>2, <1>5 DEF Pending
  <2>3. ASSUME NEW r \in Pending(g) PROVE r \in Pending(f) \union (Range(s) \intersect Records)
    <3>1. PICK n \in o + 1..l + k : h[n] = r /\ r \in Records
      BY <2>1
    <3>2. CASE n \in o + 1..l
      BY <1>6, <2>2, <3>1, <3>2
    <3>3. CASE n - l \in 1..k /\ h[n] = s[n - l]
      BY <1>7, <3>1, <3>3
    <3> QED BY <1>6, <3>2, <3>3
  <2>4. ASSUME NEW r \in Pending(f) PROVE r \in Pending(g)
    BY <1>6, <2>1, <2>2
  <2>5. ASSUME NEW r \in Range(s), r \in Records PROVE r \in Pending(g)
    <3>1. PICK i \in 1..k : s[i] = r
      BY <1>7
    <3>2. l + i \in o + 1..l + k /\ h[l + i] = r
      BY <1>6, <3>1
    <3> QED BY <2>1, <2>5, <3>2
  <2> QED BY <2>3, <2>4, <2>5
<1>9. ASSUME Single(f), Pending(f) \intersect Range(s) = {}
      PROVE  Single(g)
  <2>1. \A n, m \in o + 1..l : x[n] = x[m] /\ x[n] \in Records => n = m
    BY <1>2, <1>5, <1>9 DEF Single
  <2>2. \A i, j \in 1..k : s[i] = s[j] /\ s[i] \in Records => i = j
    BY <1>1, <1>4 DEF Piece
  <2>3. \A n \in o + 1..l, i \in 1..k : x[n] \in Records => x[n] # s[i]
    <3>1. \A n \in o + 1..l : x[n] \in Records => x[n] \in Pending(f)
      BY <1>2, <1>5 DEF Pending
    <3>2. \A i \in 1..k : s[i] \in Range(s)
      BY <1>7
    <3> QED BY <1>9, <3>1, <3>2
  <2>4. ASSUME NEW n \in o + 1..l + k, NEW m \in o + 1..l + k, h[n] = h[m], h[n] \in Records
        PROVE  n = m
    <3>1. CASE n \in o + 1..l /\ m \in o + 1..l
      BY <1>6, <2>1, <2>4, <3>1
    <3>2. CASE n - l \in 1..k /\ h[n] = s[n - l] /\ m - l \in 1..k /\ h[m] = s[m - l]
      <4>1. n - l = m - l
        BY <2>2, <2>4, <3>2
      <4> QED BY <4>1
    <3>3. CASE n \in o + 1..l /\ m - l \in 1..k /\ h[m] = s[m - l]
      BY <1>6, <2>3, <2>4, <3>3
    <3>4. CASE m \in o + 1..l /\ n - l \in 1..k /\ h[n] = s[n - l]
      BY <1>6, <2>3, <2>4, <3>4
    <3> QED BY <1>6, <3>1, <3>2, <3>3, <3>4
  <2> QED BY <1>2, <1>5, <2>4 DEF Single
<1>10. ASSUME NEW c, g.id = c => s # <<>> /\ s[Len(s)] = Blank
       PROVE  Readable(g, c)
  <2>1. \A i \in 1..k : s[i] # Bad /\ (s[i] = Torn => i = k)
    BY <1>1, <1>4 DEF Piece
  <2>2. DOMAIN h = 1..l + k
    BY <1>2, <1>3, FileParts
  <2>3. ASSUME NEW n \in 1..l + k
        PROVE  (h[n] = Torn => n = l + k) /\ (h[n] = Bad => g.id = Legacy)
    <3>1. CASE n \in 1..l
      BY <1>3, <1>4, <3>1
    <3>2. CASE n - l \in 1..k
      <4>1. h[n] = s[n - l]
        <5>1. l + (n - l) = n
          OBVIOUS
        <5> QED BY <1>3, <3>2, <5>1
      <4> QED BY <2>1, <3>2, <4>1
    <3> QED BY <1>3, <3>1, <3>2
  <2>4. ASSUME g.id = c PROVE h # <<>> /\ h[Len(h)] = Blank
    <3>1. k > 0 /\ s[k] = Blank
      BY <1>1, <1>4, <1>10, <2>4 DEF Piece
    <3>2. h[l + k] = Blank /\ l + k > 0
      BY <1>3, <3>1
    <3>3. Len(h) # 0
      BY <1>3, <3>2
    <3> QED BY <1>3, <3>2, <3>3
  <2>5. g.offset <= Len(g.lines)
    BY <1>2, <1>3, <1>4
  <2> QED BY <1>2, <1>3, <2>2, <2>3, <2>4, <2>5 DEF Readable
<1> QED BY <1>8, <1>9, <1>10

\* Batches of the file are found as before, and so is the one that is written.
LEMMA GrownCovers ==
  ASSUME NEW f, NEW s, NEW g, Grows(f, s, g), NEW t, NEW u, NEW v, NEW w,
         Covers(f, t, v, w), t \subseteq u, w \subseteq Seq(Records),
         \A i \in 1..Len(s) : s[i] \in Records \ u /\ v[s[i]] > 0 => \E b \in w : Carries(s, b)
  PROVE  Covers(g, u, v, w)
<1>1. PICK l \in Nat, k \in Nat, o \in Nat : l = Len(f.lines) /\ k = Len(s) /\ o = f.offset
  BY GrownLines
<1>2. PICK x, h : x = f.lines /\ h = g.lines
  OBVIOUS
<1>3. /\ g \in File /\ g.offset = o /\ Len(h) = l + k
      /\ \A n \in 1..l : h[n] = x[n]
      /\ \A i \in 1..k : h[l + i] = s[i]
      /\ \A n \in 1..l + k : n \in 1..l \/ n - l \in 1..k
  BY <1>1, <1>2, GrownLines
<1>4. f \in File /\ o <= l /\ (l > 0 => x[l] = Blank) /\ Blank \notin Records
  <2>1. f \in File /\ o <= l /\ (x # <<>> => x[l] = Blank)
    BY <1>1, <1>2 DEF Grows
  <2>2. l > 0 => x # <<>>
    BY <1>1, <1>2, <2>1, FileParts
  <2> QED BY <2>1, <2>2, LineKinds
<1>5. Lines(f) = o + 1..l /\ Lines(g) = o + 1..l + k
  BY <1>1, <1>2, <1>3 DEF Lines
<1>6. ASSUME NEW n \in o + 1..l + k, h[n] \in Records \ u, v[h[n]] > 0
      PROVE  \E b \in w : Holds(g, n, b)
  <2>1. CASE n \in 1..l
    <3>1. n \in Lines(f) /\ h[n] = x[n] /\ x[n] \in Records \ t
      BY <1>3, <1>5, <1>6, <2>1
    <3>2. PICK b \in w : Holds(f, n, b)
      BY <1>2, <1>6, <3>1 DEF Covers
    <3>3. PICK p : BatchAt(f, b, p) /\ n \in p..p + Len(b) - 1
      BY <3>2 DEF Holds
    <3>4. PICK q \in Nat : q = Len(b)
      OBVIOUS
    <3>5. /\ p \in Nat /\ o < p /\ p + q - 1 <= l /\ q > 0
          /\ \A i \in p..p + q - 1 : x[i] \in Records
      BY <1>1, <1>2, <1>4, <3>3, <3>4, BatchLines
    <3>6. p + q - 1 < l
      <4>1. p + q - 1 \in p..p + q - 1
        BY <3>5
      <4>2. x[p + q - 1] \in Records
        BY <3>5, <4>1
      <4> QED BY <1>4, <3>5, <4>2
    <3>7. /\ \A i \in 1..q : x[p + i - 1] = b[i]
          /\ p = o + 1 \/ x[p - 1] \notin Records
          /\ q = BatchMax \/ p + q > l \/ x[p + q] \notin Records
      BY <1>1, <1>2, <3>3, <3>4 DEF BatchAt
    <3>8. /\ \A i \in 1..q : h[p + i - 1] = b[i]
          /\ p = o + 1 \/ h[p - 1] \notin Records
          /\ q = BatchMax \/ h[p + q] \notin Records
      <4>1. \A i \in 1..q : p + i - 1 \in 1..l
        BY <3>5
      <4>2. p # o + 1 => p - 1 \in 1..l
        BY <3>5
      <4>3. p + q \in 1..l /\ ~(p + q > l)
        BY <3>5, <3>6
      <4> QED BY <1>3, <3>7, <4>1, <4>2, <4>3
    <3>9. p \in o + 1..l + k /\ p + q - 1 \in o + 1..l + k
      BY <3>5
    <3>10. BatchAt(g, b, p)
      BY <1>2, <1>3, <1>5, <3>4, <3>5, <3>8, <3>9 DEF BatchAt
    <3> QED BY <3>3, <3>10 DEF Holds
  <2>2. CASE n - l \in 1..k
    <3>1. h[n] = s[n - l]
      <4>1. l + (n - l) = n
        OBVIOUS
      <4> QED BY <1>3, <2>2, <4>1
    <3>2. PICK b \in w : Carries(s, b)
      BY <1>1, <1>6, <2>2, <3>1
    <3>3. PICK q \in Nat : q = Len(b)
      OBVIOUS
    <3>4. /\ q > 0 /\ q <= k /\ \A i \in 1..q : s[i] = b[i]
          /\ \A i \in q + 1..k : s[i] \notin Records
      BY <1>1, <3>2, <3>3 DEF Carries
    <3>5. n - l <= q
      BY <1>6, <2>2, <3>1, <3>4
    <3>6. \A i \in 1..q : h[(l + 1) + i - 1] = b[i]
      <4>1. \A i \in 1..q : (l + 1) + i - 1 = l + i /\ i \in 1..k
        BY <3>4
      <4> QED BY <1>3, <3>4, <4>1
    <3>7. l + 1 = o + 1 \/ h[(l + 1) - 1] \notin Records
      <4>1. CASE l = 0
        BY <1>4, <4>1
      <4>2. CASE l > 0
        <5>1. (l + 1) - 1 = l /\ l \in 1..l
          BY <4>2
        <5> QED BY <1>3, <1>4, <4>2, <5>1
      <4> QED BY <4>1, <4>2
    <3>8. (l + 1) + q > l + k \/ h[(l + 1) + q] \notin Records
      <4>1. CASE q < k
        <5>1. q + 1 \in 1..k /\ q + 1 \in q + 1..k /\ l + (q + 1) = (l + 1) + q
          BY <4>1
        <5> QED BY <1>3, <3>4, <5>1
      <4> QED BY <3>4, <4>1
    <3>9. l + 1 \in o + 1..l + k /\ (l + 1) + q - 1 \in o + 1..l + k
      BY <1>4, <3>4
    <3>10. BatchAt(g, b, l + 1)
      BY <1>2, <1>3, <1>5, <3>3, <3>4, <3>6, <3>7, <3>8, <3>9 DEF BatchAt
    <3>11. n \in l + 1..(l + 1) + Len(b) - 1
      BY <2>2, <3>3, <3>5
    <3> QED BY <3>10, <3>11 DEF Holds
  <2> QED BY <1>3, <1>6, <2>1, <2>2
<1> QED BY <1>2, <1>5, <1>6 DEF Covers

\* A record of the lines s that is in the table, its rows v, is written with its whole
\* batch, one of w; records in u excepted.
Told(s, u, v, w) ==
  \A i \in 1..Len(s) : s[i] \in Records \ u /\ v[s[i]] > 0 => \E b \in w : Carries(s, b)

\* The log gs is fs with the records of s in addition, found as one batch.
Extended(fs, gs, s) ==
  /\ Disk(gs) = Disk(fs) \union (Range(s) \intersect Records)
  /\ \A t, u, v, w : Covered(fs, t, v, w) /\ t \subseteq u /\ w \subseteq Seq(Records)
                     /\ Told(s, u, v, w) => Covered(gs, u, v, w)

\* Lines s that are new to the log fs; a file they close is the one to append to, c.
NewTo(fs, s, c) ==
  /\ Piece(s) /\ Disk(fs) \intersect Range(s) = {}
  /\ c = 0 \/ (s # <<>> /\ s[Len(s)] = Blank)

\* They are written to file k of fs, which is a, the one to append to.
Appends(fs, a, k, s, c, gs) ==
  /\ k \in DOMAIN fs /\ fs[k].id = a /\ c \in {a, 0} /\ NewTo(fs, s, c)
  /\ gs = [fs EXCEPT ![k] = [fs[k] EXCEPT !.lines = fs[k].lines \o s]]

\* Writing to the active file.
LEMMA AppendSound ==
  ASSUME NEW fs, NEW a, NEW m, Sound(fs, a, m), NEW k, NEW s, NEW c, NEW gs,
         Appends(fs, a, k, s, c, gs)
  PROVE  /\ Sound(gs, c, m) /\ Extended(fs, gs, s)
         /\ DOMAIN gs = DOMAIN fs /\ Len(gs) = Len(fs) /\ \A i \in DOMAIN fs : gs[i].id = fs[i].id
         /\ \A j \in DOMAIN fs : j # k => gs[j] = fs[j]
         /\ Len(gs[k].lines) = Len(fs[k].lines) + Len(s)
<1>1. /\ fs \in Seq(File) /\ Ordered(fs, m) /\ k \in DOMAIN fs /\ fs[k].id = a /\ c \in {a, 0}
      /\ Readable(fs[k], a) /\ Unique(fs) /\ fs[k] \in File /\ a # Legacy
  BY DEF Sound, Appends
<1>2. PICK f, g : f = fs[k] /\ g = [f EXCEPT !.lines = f.lines \o s]
  OBVIOUS
<1>3. Piece(s) /\ Disk(fs) \intersect Range(s) = {} /\ (c = 0 \/ (s # <<>> /\ s[Len(s)] = Blank))
  BY DEF Appends, NewTo
<1>4. Grows(f, s, g)
  <2>1. f.lines # <<>> /\ f.lines[Len(f.lines)] = Blank /\ f.offset <= Len(f.lines) /\ f \in File
    BY <1>1, <1>2 DEF Readable
  <2>2. \A n \in 1..Len(f.lines) : f.lines[n] # Torn /\ (f.lines[n] = Bad => f.id = Legacy)
    <3>1. \A n \in 1..Len(f.lines) :
            (f.lines[n] = Torn => n = Len(f.lines)) /\ (f.lines[n] = Bad => f.id = Legacy)
      BY <1>1, <1>2, <2>1, FileParts DEF Readable
    <3> QED BY <2>1, <3>1, LineKinds
  <2> QED BY <1>2, <1>3, <2>1, <2>2 DEF Grows
<1>5. g \in File /\ g.id = f.id /\ Len(g.lines) = Len(f.lines) + Len(s)
  BY <1>4, GrownLines
<1>6. Pending(f) \subseteq Disk(fs)
  BY <1>1, <1>2 DEF Disk, Pending
<1>7. Single(f)
  BY <1>1, <1>2 DEF Unique
<1>8. /\ Pending(g) = Pending(f) \union (Range(s) \intersect Records)
      /\ Single(g)
  <2>1. Pending(f) \intersect Range(s) = {}
    BY <1>3, <1>6
  <2> QED BY <1>4, <1>7, <2>1, GrownFile
<1>9. Readable(g, c)
  <2>1. g.id = c => c # 0
    <3>1. g.id >= Legacy
      BY <1>1, <1>2, <1>5 DEF Ordered
    <3> QED BY <3>1 DEF Legacy
  <2>2. g.id = c => s # <<>> /\ s[Len(s)] = Blank
    BY <1>3, <2>1
  <2> QED BY <1>4, <2>2, GrownFile
<1>10. \A j \in DOMAIN fs : j # k => Pending(g) \intersect Pending(fs[j]) = {}
  <2>1. \A j \in DOMAIN fs : j # k => Pending(f) \intersect Pending(fs[j]) = {}
    BY <1>1, <1>2 DEF Unique
  <2>2. \A j \in DOMAIN fs : Pending(fs[j]) \subseteq Disk(fs)
    BY DEF Disk, Pending
  <2> QED BY <1>3, <1>8, <2>1, <2>2
<1>11. gs = [fs EXCEPT ![k] = g]
  BY <1>2 DEF Appends
<1>12. Replaces(fs, a, k, g, c, gs)
  BY <1>1, <1>2, <1>5, <1>8, <1>9, <1>10, <1>11 DEF Replaces
<1>13. /\ Sound(gs, c, m) /\ DOMAIN gs = DOMAIN fs /\ Len(gs) = Len(fs) /\ gs[k] = g
       /\ \A j \in DOMAIN fs : j # k => gs[j] = fs[j]
       /\ Disk(gs) = (Disk(fs) \ Pending(f)) \union Pending(g)
       /\ \A i \in DOMAIN fs : gs[i].id = fs[i].id
  <2>1. /\ Sound(gs, c, m) /\ DOMAIN gs = DOMAIN fs /\ Len(gs) = Len(fs) /\ gs[k] = g
        /\ \A j \in DOMAIN fs : j # k => gs[j] = fs[j]
        /\ Disk(gs) = (Disk(fs) \ Pending(fs[k])) \union Pending(g)
        /\ \A i \in DOMAIN fs : gs[i].id = fs[i].id
    BY <1>12, OneFile
  <2> QED BY <1>2, <2>1
<1>14. Disk(gs) = Disk(fs) \union (Range(s) \intersect Records)
  BY <1>6, <1>8, <1>13
<1>15. ASSUME NEW t, NEW u, NEW v, NEW w,
              Covered(fs, t, v, w), t \subseteq u, w \subseteq Seq(Records), Told(s, u, v, w)
       PROVE  Covered(gs, u, v, w)
  <2>1. Covers(g, u, v, w)
    <3>1. Covers(f, t, v, w)
      BY <1>1, <1>2, <1>15 DEF Covered
    <3> QED BY <1>4, <1>15, <3>1, GrownCovers DEF Told
  <2>2. ASSUME NEW j \in DOMAIN fs, j # k PROVE Covers(gs[j], u, v, w)
    <3>1. Covers(fs[j], t, v, w) /\ gs[j] = fs[j]
      BY <1>13, <1>15, <2>2 DEF Covered
    <3> QED BY <1>15, <3>1 DEF Covers
  <2> QED BY <1>13, <2>1, <2>2 DEF Covered
<1>16. Extended(fs, gs, s)
  BY <1>14, <1>15 DEF Extended
<1> QED BY <1>2, <1>5, <1>13, <1>16

\* They are written to a new file.
Opens(fs, m, s, c, gs) ==
  /\ c \in {m, 0} /\ NewTo(fs, s, c)
  /\ gs = Append(fs, [id |-> m, lines |-> s, offset |-> 0])

\* Writing to a new file.
LEMMA OpenSound ==
  ASSUME NEW fs, NEW a, NEW m, Sound(fs, a, m), NEW s, NEW c, NEW gs, Opens(fs, m, s, c, gs)
  PROVE  /\ Sound(gs, c, m + 1) /\ Extended(fs, gs, s)
         /\ Len(gs) = Len(fs) + 1 /\ \A i \in DOMAIN fs : gs[i] = fs[i]
         /\ gs[Len(fs) + 1] = [id |-> m, lines |-> s, offset |-> 0]
<1>1. /\ fs \in Seq(File) /\ a \in Nat /\ m \in Nat
      /\ Ordered(fs, m) /\ m > Legacy
      /\ \A i \in DOMAIN fs : Readable(fs[i], a)
      /\ Unique(fs)
  BY DEF Sound
<1>2. PICK l \in Nat : l = Len(fs)
  BY <1>1
<1>3. Piece(s) /\ Disk(fs) \intersect Range(s) = {} /\ (c = 0 \/ (s # <<>> /\ s[Len(s)] = Blank))
      /\ c \in {m, 0}
  BY DEF Opens, NewTo
<1>4. PICK f, g : f = [id |-> m, lines |-> <<>>, offset |-> 0]
                  /\ g = [id |-> m, lines |-> s, offset |-> 0]
  OBVIOUS
<1>5. f \in File /\ f.lines = <<>> /\ f.id = m /\ f.offset = 0 /\ Len(f.lines) = 0
  BY <1>1, <1>4 DEF File
<1>6. g = [f EXCEPT !.lines = f.lines \o s]
  <2>1. <<>> \o s = s
    BY <1>3, ConcatEmptySeq DEF Piece
  <2> QED BY <1>4, <1>5, <2>1
<1>7. Grows(f, s, g)
  BY <1>3, <1>5, <1>6 DEF Grows
<1>8. g \in File /\ g.id = m
  BY <1>5, <1>7, GrownLines
<1>9. Pending(f) = {} /\ Single(f) /\ \A t, v, w : Covers(f, t, v, w)
  <2>1. Lines(f) = {}
    BY <1>5 DEF Lines
  <2> QED BY <2>1 DEF Pending, Single, Covers
<1>10. Pending(g) = Range(s) \intersect Records /\ Single(g)
  BY <1>7, <1>9, GrownFile
<1>11. Readable(g, c)
  <2>1. g.id # 0
    BY <1>1, <1>8 DEF Legacy
  <2>2. g.id = c => s # <<>> /\ s[Len(s)] = Blank
    BY <1>3, <2>1
  <2> QED BY <1>7, <2>2, GrownFile
<1>12. gs = Append(fs, g)
  BY <1>4 DEF Opens
<1>13. /\ gs \in Seq(File) /\ Len(gs) = l + 1 /\ DOMAIN gs = 1..l + 1 /\ DOMAIN fs = 1..l
       /\ \A i \in 1..l : gs[i] = fs[i]
       /\ gs[l + 1] = g
  BY <1>1, <1>2, <1>8, <1>12
<1>14. /\ \A i \in 1..l : i \in 1..l + 1 /\ i # l + 1
       /\ l + 1 \in 1..l + 1
       /\ \A i \in 1..l + 1 : i \in 1..l \/ i = l + 1
  OBVIOUS
<1>15. \A i \in 1..l : fs[i].id \in Nat /\ fs[i].id >= Legacy /\ fs[i].id < m
  <2>1. \A i \in 1..l : fs[i] \in File
    BY <1>1, <1>13
  <2>2. \A i \in 1..l : fs[i].id \in Nat
    BY <2>1, FileParts
  <2> QED BY <1>1, <1>13, <2>2 DEF Ordered
<1>16. Ordered(gs, m + 1)
  <2>1. ASSUME NEW i \in 1..l + 1, NEW j \in 1..l + 1, i < j PROVE gs[i].id < gs[j].id
    <3>1. CASE j \in 1..l
      <4>1. i \in 1..l
        BY <2>1, <3>1
      <4> QED BY <1>1, <1>13, <2>1, <3>1, <4>1 DEF Ordered
    <3>2. CASE j = l + 1
      <4>1. i \in 1..l
        BY <2>1, <3>2
      <4> QED BY <1>8, <1>13, <1>15, <3>2, <4>1
    <3> QED BY <1>14, <3>1, <3>2
  <2>2. ASSUME NEW i \in 1..l + 1 PROVE gs[i].id >= Legacy /\ gs[i].id < m + 1
    <3>1. CASE i \in 1..l
      BY <1>1, <1>13, <1>15, <3>1
    <3>2. CASE i = l + 1
      BY <1>1, <1>8, <1>13, <3>2 DEF Legacy
    <3> QED BY <1>14, <3>1, <3>2
  <2> QED BY <1>13, <2>1, <2>2 DEF Ordered
<1>17. \A i \in 1..l : Readable(gs[i], c)
  <2> SUFFICES ASSUME NEW i \in 1..l PROVE Readable(fs[i], c)
    BY <1>13
  <2>1. Readable(fs[i], a) /\ fs[i].id # c
    BY <1>1, <1>3, <1>13, <1>15 DEF Legacy
  <2> QED BY <2>1 DEF Readable
<1>18. \A i \in 1..l : Pending(fs[i]) \subseteq Disk(fs)
  BY <1>13 DEF Disk, Pending
<1>19. Unique(gs)
  <2>1. \A i \in 1..l + 1 : Single(gs[i])
    BY <1>1, <1>10, <1>13, <1>14 DEF Unique
  <2>2. \A i \in 1..l : Pending(gs[i]) \intersect Pending(g) = {}
    BY <1>3, <1>10, <1>13, <1>18
  <2>3. \A i, j \in 1..l : i # j => Pending(gs[i]) \intersect Pending(gs[j]) = {}
    BY <1>1, <1>13 DEF Unique
  <2>4. ASSUME NEW i \in 1..l + 1, NEW j \in 1..l + 1, i # j
        PROVE  Pending(gs[i]) \intersect Pending(gs[j]) = {}
    BY <1>13, <1>14, <2>2, <2>3, <2>4
  <2> QED BY <1>13, <2>1, <2>4 DEF Unique
<1>20. c \in Nat /\ c # Legacy /\ c < m + 1 /\ m + 1 > Legacy /\ m + 1 \in Nat
  BY <1>1, <1>3 DEF Legacy
<1>21. Sound(gs, c, m + 1)
  BY <1>11, <1>13, <1>14, <1>16, <1>17, <1>19, <1>20 DEF Sound
<1>22. Disk(gs) = Disk(fs) \union (Range(s) \intersect Records)
  <2>1. \A r : r \in Disk(gs) <=> r \in Records /\ \E i \in 1..l + 1 : r \in Pending(gs[i])
    BY <1>13 DEF Disk
  <2>2. \A r : r \in Disk(fs) <=> r \in Records /\ \E i \in 1..l : r \in Pending(fs[i])
    BY <1>13 DEF Disk
  <2> QED BY <1>10, <1>13, <1>14, <2>1, <2>2
<1>23. ASSUME NEW t, NEW u, NEW v, NEW w,
              Covered(fs, t, v, w), t \subseteq u, w \subseteq Seq(Records), Told(s, u, v, w)
       PROVE  Covered(gs, u, v, w)
  <2>1. Covers(g, u, v, w)
    BY <1>7, <1>9, <1>23, GrownCovers DEF Told
  <2>2. ASSUME NEW j \in 1..l PROVE Covers(gs[j], u, v, w)
    <3>1. Covers(fs[j], t, v, w) /\ gs[j] = fs[j]
      BY <1>13, <1>23 DEF Covered
    <3> QED BY <1>23, <3>1 DEF Covers
  <2> QED BY <1>13, <1>14, <2>1, <2>2 DEF Covered
<1>24. Extended(fs, gs, s)
  BY <1>22, <1>23 DEF Extended
<1> QED BY <1>2, <1>4, <1>13, <1>21, <1>24
-----------------------------------------------------------------------------
(* What an append leaves.                                                  *)

\* The lines s are the first n records of the batch b, and at most a line that is none.
Begins(s, b, n) ==
  /\ s \in Seq(Line) /\ n \in 0..Len(b) /\ Len(s) \in {n, n + 1}
  /\ \A i \in 1..n : s[i] = b[i]
  /\ Len(s) = n + 1 => s[n + 1] \in {Torn, Blank}

\* What is left of a batch's lines is a beginning of it.
LEMMA PiecesBegin ==
  ASSUME NEW b \in Seq(Records), NEW s \in Pieces(LinesOf(b))
  PROVE  \E n : Begins(s, b, n)
<1>1. PICK k \in Nat : k = Len(b)
  OBVIOUS
<1>2. PICK x : x = LinesOf(b)
  OBVIOUS
<1>3. /\ x \in Seq(Line) /\ Len(x) = k + 1 /\ x[k + 1] = Blank
      /\ \A i \in 1..k : x[i] = b[i] /\ x[i] \in Records
  <2>1. b \in Seq(Line) /\ Blank \in Line
    BY LineKinds, SeqMonotonic DEF Line
  <2>2. x = Append(b, Blank)
    BY <1>2 DEF LinesOf
  <2> QED BY <1>1, <2>1, <2>2
<1>4. \/ s = x
      \/ \E n \in 0..Len(x) - 1 : s = SubSeq(x, 1, n)
      \/ \E n \in 0..Len(x) - 1 : x[n + 1] # Blank /\ s = Append(SubSeq(x, 1, n), Torn)
  BY <1>2 DEF Pieces
<1>5. CASE s = x
  <2>1. Begins(s, b, k)
    BY <1>1, <1>3, <1>5 DEF Begins
  <2> QED BY <2>1
<1>6. ASSUME NEW n \in 0..Len(x) - 1
      PROVE  /\ SubSeq(x, 1, n) \in Seq(Line) /\ Len(SubSeq(x, 1, n)) = n /\ n \in 0..k
             /\ \A i \in 1..n : SubSeq(x, 1, n)[i] = b[i]
  <2>1. n \in 0..k
    BY <1>3
  <2>2. \A i \in 1..n : x[i] \in Line
    BY <1>3, <2>1
  <2>3. /\ SubSeq(x, 1, n) \in Seq(Line)
        /\ Len(SubSeq(x, 1, n)) = IF 1 <= n THEN n - 1 + 1 ELSE 0
        /\ \A i \in 1..n - 1 + 1 : SubSeq(x, 1, n)[i] = x[1 + i - 1]
    BY <2>1, <2>2, SubSeqProperties
  <2>4. /\ Len(SubSeq(x, 1, n)) = n
        /\ \A i \in 1..n : i \in 1..n - 1 + 1 /\ 1 + i - 1 = i /\ i \in 1..k
    BY <2>1, <2>3
  <2> QED BY <1>3, <2>1, <2>3, <2>4
<1>7. ASSUME NEW n \in 0..Len(x) - 1, s = SubSeq(x, 1, n)
      PROVE  Begins(s, b, n)
  BY <1>1, <1>6, <1>7 DEF Begins
<1>8. ASSUME NEW n \in 0..Len(x) - 1, s = Append(SubSeq(x, 1, n), Torn)
      PROVE  Begins(s, b, n)
  <2>1. PICK y : y = SubSeq(x, 1, n)
    OBVIOUS
  <2>2. y \in Seq(Line) /\ Len(y) = n /\ n \in 0..k /\ \A i \in 1..n : y[i] = b[i]
    BY <1>6, <2>1
  <2>3. s \in Seq(Line) /\ Len(s) = n + 1 /\ s[n + 1] = Torn /\ \A i \in 1..n : s[i] = y[i]
    BY <1>8, <2>1, <2>2, LineKinds
  <2> QED BY <1>1, <2>2, <2>3 DEF Begins
<1> QED BY <1>4, <1>5, <1>7, <1>8

\* Such lines may be written: they hold nothing of the batch, part of it, or all of it.
LEMMA BeginsPiece ==
  ASSUME NEW b \in Seq(Records), IsInjective(b), b # <<>>, NEW s, NEW n, Begins(s, b, n)
  PROVE  /\ Piece(s) /\ Len(s) <= Len(b) + 1
         /\ Range(s) \intersect Records \subseteq Range(b)
         /\ Range(s) \intersect Records = {} \/ Partly(s, b) \/ Carries(s, b)
<1>1. PICK k \in Nat, l \in Nat : k = Len(b) /\ l = Len(s)
  BY DEF Begins
<1>2. /\ s \in Seq(Line) /\ n \in 0..k /\ l \in {n, n + 1}
      /\ \A i \in 1..n : s[i] = b[i]
      /\ l = n + 1 => s[n + 1] \in {Torn, Blank}
  BY <1>1 DEF Begins
<1>3. /\ Range(b) = {b[i] : i \in 1..k} /\ DOMAIN b = 1..k /\ Range(b) \subseteq Records /\ k > 0
      /\ Range(s) = {s[i] : i \in 1..l} /\ DOMAIN s = 1..l
  BY <1>1, <1>2, Elements
<1>4. \A i \in 1..n : i \in 1..k /\ i \in 1..l /\ s[i] = b[i] /\ b[i] \in Range(b)
  BY <1>2, <1>3
<1>5. \A i \in 1..l : i \in 1..n \/ (i = n + 1 /\ i = l /\ s[i] \in {Torn, Blank})
  BY <1>2
<1>6. \A i \in 1..l : i \in 1..n \/ (i = l /\ s[i] \notin Records /\ s[i] # Bad)
  BY <1>5, LineKinds
<1>7. Piece(s)
  <2>1. \A i \in 1..l : s[i] # Bad /\ (s[i] = Torn => i = l)
    BY <1>3, <1>4, <1>6, LineKinds
  <2>2. ASSUME NEW i \in 1..l, NEW j \in 1..l, s[i] = s[j], s[i] \in Records PROVE i = j
    <3>1. i \in 1..n /\ j \in 1..n
      BY <1>6, <2>2
    <3>2. i \in DOMAIN b /\ j \in DOMAIN b /\ b[i] = b[j]
      BY <1>3, <1>4, <2>2, <3>1
    <3> QED BY <3>2 DEF IsInjective
  <2> QED BY <1>1, <1>2, <2>1, <2>2 DEF Piece
<1>8. Range(s) \intersect Records \subseteq Range(b)
  BY <1>3, <1>4, <1>6
<1>9. CASE n = 0
  <2>1. \A i \in 1..l : s[i] \notin Records
    BY <1>6, <1>9
  <2>2. Range(s) \intersect Records = {}
    BY <1>3, <2>1
  <2> QED BY <1>1, <1>2, <1>7, <1>8, <2>2
<1>10. CASE n > 0 /\ n < k
  <2>1. 1 \in 1..n /\ n + 1 \in 1..k
    BY <1>2, <1>10
  <2>2. s[1] \in Range(s) \intersect Records
    BY <1>3, <1>4, <2>1
  <2>3. n + 1 \in DOMAIN s => s[n + 1] # b[n + 1]
    <3>1. b[n + 1] \in Records
      BY <1>3, <2>1
    <3>2. n + 1 \in 1..l => s[n + 1] \notin Records
      <4>1. n + 1 \notin 1..n
        BY <1>2
      <4> QED BY <1>6, <4>1
    <3> QED BY <1>3, <3>1, <3>2
  <2>4. Partly(s, b)
    BY <1>3, <2>1, <2>2, <2>3 DEF Partly
  <2> QED BY <1>1, <1>2, <1>7, <1>8, <2>4
<1>11. CASE n = k
  <2>1. Carries(s, b)
    <3>1. \A i \in k + 1..l : s[i] \notin Records
      <4> SUFFICES ASSUME NEW i \in k + 1..l PROVE s[i] \notin Records
        OBVIOUS
      <4>1. i \in 1..l /\ i \notin 1..n
        BY <1>11
      <4> QED BY <1>6, <4>1
    <3>2. k <= l
      BY <1>2, <1>11
    <3> QED BY <1>1, <1>2, <1>3, <1>11, <3>1, <3>2 DEF Carries
  <2> QED BY <1>1, <1>2, <1>7, <1>8, <2>1
<1> QED BY <1>2, <1>9, <1>10, <1>11

\* All of a batch's lines.
LEMMA WholeBatch ==
  ASSUME NEW b \in Seq(Records), IsInjective(b), b # <<>>, NEW s, s = LinesOf(b)
  PROVE  /\ s \in Pieces(LinesOf(b)) /\ Len(s) = Len(b) + 1
         /\ s # <<>> /\ s[Len(s)] = Blank /\ Range(b) \subseteq Range(s) /\ Carries(s, b)
<1>1. PICK k \in Nat : k = Len(b)
  OBVIOUS
<1>2. /\ s \in Seq(Line) /\ Len(s) = k + 1 /\ s[k + 1] = Blank
      /\ \A i \in 1..k : s[i] = b[i]
  <2>1. b \in Seq(Line) /\ Blank \in Line
    BY LineKinds, SeqMonotonic DEF Line
  <2> QED BY <1>1, <2>1 DEF LinesOf
<1>3. s # <<>> /\ s[Len(s)] = Blank
  BY <1>2
<1>4. /\ Range(b) = {b[i] : i \in 1..k} /\ k > 0 /\ Range(s) = {s[i] : i \in 1..k + 1}
  BY <1>1, <1>2, Elements
<1>5. Range(b) \subseteq Range(s)
  BY <1>2, <1>4
<1>6. Carries(s, b)
  <2>1. \A i \in k + 1..k + 1 : i = k + 1
    OBVIOUS
  <2> QED BY <1>1, <1>2, <1>4, <2>1, LineKinds DEF Carries
<1>7. s \in Pieces(LinesOf(b))
  BY DEF Pieces
<1> QED BY <1>1, <1>2, <1>3, <1>5, <1>6, <1>7

\* The number of lines in a log, and of its files but the one left by another version.
Total(fs) == Sum([i \in DOMAIN fs |-> Len(fs[i].lines)], Len(fs))
Named(fs) == Cardinality({fs[i].id : i \in DOMAIN fs} \ {Legacy})

\* They are numbers.
LEMMA Counts ==
  ASSUME NEW fs \in Seq(File)
  PROVE  /\ [i \in DOMAIN fs |-> Len(fs[i].lines)] \in [1..Len(fs) -> Nat]
         /\ Total(fs) \in Nat /\ Named(fs) \in Nat
         /\ IsFiniteSet({fs[i].id : i \in DOMAIN fs} \ {Legacy})
<1>1. Len(fs) \in Nat /\ DOMAIN fs = 1..Len(fs) /\ \A i \in 1..Len(fs) : fs[i] \in File
  BY FilesOf
<1>2. \A i \in 1..Len(fs) : Len(fs[i].lines) \in Nat
  BY <1>1, FileParts
<1>3. [i \in DOMAIN fs |-> Len(fs[i].lines)] \in [1..Len(fs) -> Nat]
  BY <1>1, <1>2
<1>4. Total(fs) \in Nat
  BY <1>1, <1>3, SumNat DEF Total
<1>5. IsFiniteSet(1..Len(fs))
  BY <1>1, FS_Interval
<1>6. IsFiniteSet({fs[i].id : i \in DOMAIN fs})
  <2>1. PICK S, T, h : S = 1..Len(fs) /\ T = {fs[i].id : i \in S} /\ h = [i \in S |-> fs[i].id]
    OBVIOUS
  <2>2. h \in Surjection(S, T)
    BY <2>1 DEF Surjection
  <2>3. IsFiniteSet(T)
    BY <1>5, <2>1, <2>2, FS_Surjection
  <2> QED BY <1>1, <2>1, <2>3
<1>7. IsFiniteSet({fs[i].id : i \in DOMAIN fs} \ {Legacy})
  BY <1>6, FS_Difference
<1>8. Named(fs) \in Nat
  BY <1>7, FS_CardinalityType DEF Named
<1> QED BY <1>3, <1>4, <1>7, <1>8

\* What a write leaves, where c is the file that is appended to from then on.
LEMMA LeavesSound ==
  ASSUME Sound(files, active, next), NEW s, NEW lines, NEW rolls \in Rolls(lines),
         Leaves(s, rolls), NEW c, c \in {IF rolls THEN next ELSE active, 0}, NewTo(files, s, c)
  PROVE  /\ Sound(files', c, next') /\ Extended(files, files', s)
         /\ ~rolls => \E k \in DOMAIN files : Appends(files, active, k, s, c, files')
         /\ rolls => Opens(files, next, s, c, files') /\ Segments < MaxSegments
<1>1. rolls \in BOOLEAN /\ (~rolls => Fits(lines))
  BY DEF Rolls, Fits
<1>2. /\ files \in Seq(File) /\ Ordered(files, next) /\ active # Legacy
      /\ \A i \in DOMAIN files : Readable(files[i], active)
  BY DEF Sound
<1>3. CASE rolls
  <2>1. Opens(files, next, s, c, files') /\ next' = next + 1
    BY <1>3 DEF Opens, Leaves, Written
  <2>2. Segments < MaxSegments
    <3>1. ~(Segments >= MaxSegments)
      BY <1>3 DEF Leaves, no_room
    <3>2. MaxSegments \in Nat /\ Segments \in Nat
      BY <1>2, Counts, LogAssumption DEF Segments, Named
    <3> QED BY <3>1, <3>2
  <2>3. Sound(files', c, next + 1) /\ Extended(files, files', s)
    BY <2>1, OpenSound
  <2> QED BY <1>3, <2>1, <2>2, <2>3
<1>4. CASE ~rolls
  <2>1. PICK k \in DOMAIN files : files[k].id = active
    BY <1>1, <1>4 DEF Fits
  <2>2. \A i \in DOMAIN files : files[i].id = active => i = k
    <3>1. \A i \in DOMAIN files : files[i].id \in Nat /\ i \in Nat
      BY <1>2, FilesOf, FileParts
    <3> QED BY <1>2, <2>1, <3>1 DEF Ordered
  <2>3. PICK f : f = files[k]
    OBVIOUS
  <2>4. Joined(f.lines, s) = f.lines \o s
    <3>1. f.lines[Len(f.lines)] = Blank
      BY <1>2, <2>1, <2>3 DEF Readable
    <3> QED BY <3>1, LineKinds DEF Joined
  <2>5. files' = [i \in DOMAIN files |->
                    IF files[i].id = active THEN [files[i] EXCEPT !.lines = Joined(files[i].lines, s)]
                    ELSE files[i]]
    BY <1>4 DEF Leaves, Written
  <2>6. files' = [files EXCEPT ![k] = [files[k] EXCEPT !.lines = files[k].lines \o s]]
    BY <1>2, <2>1, <2>2, <2>3, <2>4, <2>5
  <2>7. Appends(files, active, k, s, c, files') /\ next' = next
    BY <1>4, <2>1, <2>6 DEF Appends, Leaves
  <2>8. Sound(files', c, next) /\ Extended(files, files', s)
    BY <2>7, AppendSound
  <2> QED BY <1>4, <2>7, <2>8
<1> QED BY <1>1, <1>3, <1>4

\* Lines added to the active file.
LEMMA AppendCounts ==
  ASSUME NEW fs, NEW a, NEW m, Sound(fs, a, m), NEW k, NEW s, NEW c, NEW gs,
         Appends(fs, a, k, s, c, gs)
  PROVE  Total(gs) = Total(fs) + Len(s) /\ Named(gs) = Named(fs)
<1>1. /\ Sound(gs, c, m) /\ DOMAIN gs = DOMAIN fs /\ Len(gs) = Len(fs)
      /\ \A i \in DOMAIN fs : gs[i].id = fs[i].id
      /\ \A j \in DOMAIN fs : j # k => gs[j] = fs[j]
      /\ Len(gs[k].lines) = Len(fs[k].lines) + Len(s) /\ k \in DOMAIN fs
  <2>1. k \in DOMAIN fs
    BY DEF Appends
  <2> QED BY <2>1, AppendSound
<1>2. fs \in Seq(File) /\ gs \in Seq(File) /\ Len(s) \in Nat
  BY <1>1 DEF Sound, Appends, NewTo, Piece
<1>3. PICK n \in Nat : n = Len(fs)
  BY <1>2
<1>3a. PICK p, q : /\ p = [i \in DOMAIN fs |-> Len(fs[i].lines)]
                   /\ q = [i \in DOMAIN gs |-> Len(gs[i].lines)]
  OBVIOUS
<1>4. /\ p \in [1..n -> Nat] /\ q \in [1..n -> Nat] /\ DOMAIN fs = 1..n
      /\ Total(fs) = Sum(p, n) /\ Total(gs) = Sum(q, n)
  BY <1>1, <1>2, <1>3, <1>3a, Counts, FilesOf DEF Total
<1>5. q[k] = p[k] + Len(s) /\ \A i \in 1..n : i # k => q[i] = p[i]
  BY <1>1, <1>3, <1>3a, <1>4
<1>6. Total(gs) = Total(fs) + Len(s)
  <2>1. p \in [1..n -> Int] /\ q \in [1..n -> Int] /\ k \in 1..n
    BY <1>1, <1>4
  <2>2. Sum(q, n) = Sum(p, n) + q[k] - p[k]
    BY <1>5, <2>1, SumChange
  <2>3. p[k] \in Nat /\ Sum(p, n) \in Nat
    BY <1>1, <1>2, <1>4, Counts
  <2> QED BY <1>2, <1>4, <1>5, <2>2, <2>3
<1>7. {gs[i].id : i \in DOMAIN gs} = {fs[i].id : i \in DOMAIN fs}
  BY <1>1
<1> QED BY <1>6, <1>7 DEF Named

\* Lines in a new file.
LEMMA OpenCounts ==
  ASSUME NEW fs, NEW a, NEW m, Sound(fs, a, m), NEW s, NEW c, NEW gs, Opens(fs, m, s, c, gs)
  PROVE  Total(gs) = Total(fs) + Len(s) /\ Named(gs) = Named(fs) + 1
<1>1. /\ Sound(gs, c, m + 1)
      /\ Len(gs) = Len(fs) + 1 /\ \A i \in DOMAIN fs : gs[i] = fs[i]
      /\ gs[Len(fs) + 1] = [id |-> m, lines |-> s, offset |-> 0]
  BY OpenSound
<1>2. fs \in Seq(File) /\ gs \in Seq(File) /\ Ordered(fs, m) /\ m \in Nat /\ m > Legacy
  BY <1>1 DEF Sound
<1>3. PICK n \in Nat : n = Len(fs)
  BY <1>2
<1>3a. PICK p, q : /\ p = [i \in DOMAIN fs |-> Len(fs[i].lines)]
                   /\ q = [i \in DOMAIN gs |-> Len(gs[i].lines)]
  OBVIOUS
<1>4. /\ p \in [1..n -> Nat] /\ q \in [1..n + 1 -> Nat] /\ DOMAIN fs = 1..n
      /\ DOMAIN gs = 1..n + 1
      /\ Total(fs) = Sum(p, n) /\ Total(gs) = Sum(q, n + 1)
  BY <1>1, <1>2, <1>3, <1>3a, Counts, FilesOf DEF Total
<1>5. q[n + 1] = Len(s) /\ \A i \in 1..n : q[i] = p[i]
  <2>1. n + 1 \in 1..n + 1 /\ \A i \in 1..n : i \in 1..n + 1
    OBVIOUS
  <2>2. /\ \A i \in 1..n + 1 : q[i] = Len(gs[i].lines)
        /\ \A i \in 1..n : p[i] = Len(fs[i].lines) /\ gs[i] = fs[i]
    BY <1>1, <1>3a, <1>4
  <2>3. gs[n + 1].lines = s
    BY <1>1, <1>3
  <2> QED BY <2>1, <2>2, <2>3
<1>6. Total(gs) = Total(fs) + Len(s)
  <2>1. \A i \in 1..n : q[i] = p[i] /\ p[i] \in Int
    BY <1>4, <1>5
  <2>2. q[n + 1] \in Int
    <3>1. n + 1 \in 1..n + 1
      OBVIOUS
    <3> QED BY <1>4, <3>1
  <2>3. Sum(q, n + 1) = Sum(p, n) + q[n + 1]
    BY <2>1, <2>2, SumMore
  <2> QED BY <1>4, <1>5, <2>3
<1>7. {gs[i].id : i \in DOMAIN gs} = {fs[i].id : i \in DOMAIN fs} \union {m}
  <2>1. \A i \in 1..n + 1 : i \in 1..n \/ i = n + 1
    OBVIOUS
  <2>2. n + 1 \in 1..n + 1 /\ \A i \in 1..n : i \in 1..n + 1
    OBVIOUS
  <2>3. \A i \in 1..n : gs[i].id = fs[i].id
    BY <1>1, <1>4
  <2>4. gs[n + 1].id = m
    BY <1>1, <1>3, <1>3a
  <2> QED BY <1>4, <2>1, <2>2, <2>3, <2>4
<1>8. m \notin {fs[i].id : i \in DOMAIN fs} /\ m # Legacy
  <2>1. \A i \in DOMAIN fs : fs[i].id < m /\ fs[i].id \in Nat
    BY <1>2, FilesOf, FileParts DEF Ordered
  <2> QED BY <1>2, <2>1 DEF Legacy
<1>9. PICK S : S = {fs[i].id : i \in DOMAIN fs} \ {Legacy}
  OBVIOUS
<1>10. IsFiniteSet(S) /\ m \notin S /\ Named(fs) = Cardinality(S) /\ Named(gs) = Cardinality(S \union {m})
  <2>1. {gs[i].id : i \in DOMAIN gs} \ {Legacy} = S \union {m}
    BY <1>7, <1>8, <1>9
  <2> QED BY <1>2, <1>8, <1>9, <2>1, Counts DEF Named
<1>11. Cardinality(S \union {m}) = Cardinality(S) + 1
  BY <1>10, FS_AddElement
<1> QED BY <1>6, <1>10, <1>11

\* A log with the same lines in the same files.
LEMMA SameCounts ==
  ASSUME NEW fs \in Seq(File), NEW gs \in Seq(File), DOMAIN gs = DOMAIN fs, Len(gs) = Len(fs),
         \A i \in DOMAIN fs : gs[i].id = fs[i].id /\ gs[i].lines = fs[i].lines
  PROVE  Total(gs) = Total(fs) /\ Named(gs) = Named(fs)
<1>1. [i \in DOMAIN gs |-> Len(gs[i].lines)] = [i \in DOMAIN fs |-> Len(fs[i].lines)]
  OBVIOUS
<1>2. {gs[i].id : i \in DOMAIN gs} = {fs[i].id : i \in DOMAIN fs}
  OBVIOUS
<1> QED BY <1>1, <1>2 DEF Total, Named

\* A log without its first file.
LEMMA TailCounts ==
  ASSUME NEW fs \in Seq(File), fs # <<>>, NEW gs, gs = Tail(fs)
  PROVE  Total(gs) <= Total(fs) /\ Named(gs) <= Named(fs)
<1>1. PICK l \in Nat : l = Len(fs)
  OBVIOUS
<1>2. PICK n \in Nat : n = l - 1
  BY <1>1
<1>3. /\ gs \in Seq(File) /\ Len(gs) = n /\ DOMAIN gs = 1..n /\ DOMAIN fs = 1..n + 1
      /\ \A i \in 1..n : gs[i] = fs[i + 1]
  BY <1>1, <1>2
<1>4. PICK p, q : /\ p = [i \in DOMAIN fs |-> Len(fs[i].lines)]
                  /\ q = [i \in DOMAIN gs |-> Len(gs[i].lines)]
  OBVIOUS
<1>5. /\ p \in [1..n + 1 -> Nat] /\ q \in [1..n -> Nat]
      /\ Total(fs) = Sum(p, n + 1) /\ Total(gs) = Sum(q, n)
      /\ Total(gs) \in Nat /\ Named(fs) \in Nat /\ Named(gs) \in Nat
  <2>1. Len(fs) = n + 1
    BY <1>1, <1>2
  <2> QED BY <1>3, <1>4, <2>1, Counts DEF Total
<1>6. Total(gs) <= Total(fs)
  <2>1. \A i \in 1..n : i + 1 \in 1..n + 1
    OBVIOUS
  <2>2. \A i \in 1..n : q[i] = p[i + 1]
    BY <1>3, <1>4, <2>1
  <2>3. \A i \in 1..n + 1 : p[i] \in Int
    BY <1>5
  <2>4. Sum(p, n + 1) = p[1] + Sum(q, n)
    BY <2>2, <2>3, SumLess
  <2>5. p[1] \in Nat
    <3>1. 1 \in 1..n + 1
      OBVIOUS
    <3> QED BY <1>5, <3>1
  <2> QED BY <1>5, <2>4, <2>5
<1>7. Named(gs) <= Named(fs)
  <2>1. PICK S, T : /\ S = {gs[i].id : i \in DOMAIN gs} \ {Legacy}
                    /\ T = {fs[i].id : i \in DOMAIN fs} \ {Legacy}
    OBVIOUS
  <2>2. S \subseteq T
    <3>1. \A i \in 1..n : i + 1 \in 1..n + 1
      OBVIOUS
    <3> QED BY <1>3, <2>1, <3>1
  <2>3. IsFiniteSet(T)
    BY <2>1, Counts
  <2>4. Cardinality(S) <= Cardinality(T)
    BY <2>2, <2>3, FS_Subset
  <2> QED BY <2>1, <2>4 DEF Named
<1> QED BY <1>6, <1>7
-----------------------------------------------------------------------------
(* The state, in the terms of the invariant.                               *)

\* The records in memory.
LEMMA MemoryIs ==
  ASSUME Typed
  PROVE  /\ Carried(task) \in Seq(Records) /\ task.batch \in Seq(Records) /\ task.end \in Nat
         /\ InMemory = Range(channel) \union Range(buf) \union Range(Carried(task))
<1>1. task.batch \in Seq(Records) /\ task.end \in Nat
  BY DEF Typed, Task
<1>2. Range(<<>>) = {} /\ <<>> \in Seq(Records)
  BY DEF Range
<1> QED BY <1>1, <1>2 DEF InMemory, Carried

\* The records on disk.
LEMMA DiskIs ==
  ASSUME NEW fs \in Seq(File), \A i \in DOMAIN fs : fs[i].offset <= Len(fs[i].lines)
  PROVE  (UNION {Unread(fs[i]) : i \in DOMAIN fs}) \intersect Records = Disk(fs)
<1>1. ASSUME NEW i \in DOMAIN fs PROVE Unread(fs[i]) \intersect Records = Pending(fs[i])
  <2>1. PICK f : f = fs[i]
    OBVIOUS
  <2>2. f \in File /\ f.offset <= Len(f.lines)
    BY <1>1, <2>1
  <2>3. PICK o \in Nat, l \in Nat : o = f.offset /\ l = Len(f.lines)
    BY <2>2, FileParts
  <2> DEFINE x == f.lines
  <2>4. o + 1 \in Int /\ o <= l /\ \A n \in o + 1..l : x[n] \in Line
    BY <2>2, <2>3, FileParts
  <2>5. PICK s : s = SubSeq(x, o + 1, l)
    OBVIOUS
  <2>6. /\ s \in Seq(Line) /\ Len(s) = (IF o + 1 <= l THEN l - (o + 1) + 1 ELSE 0)
        /\ \A n \in 1..l - (o + 1) + 1 : s[n] = x[(o + 1) + n - 1]
    BY <2>4, <2>5, SubSeqProperties
  <2> HIDE DEF x
  <2>7. Len(s) = l - o /\ \A n \in 1..l - o : s[n] = x[o + n]
    <3>1. Len(s) = l - o
      BY <2>4, <2>6
    <3>2. \A n \in 1..l - o : n \in 1..l - (o + 1) + 1 /\ (o + 1) + n - 1 = o + n
      OBVIOUS
    <3> QED BY <2>6, <3>1, <3>2
  <2>8. Range(s) = {s[n] : n \in 1..l - o}
    <3>1. Range(s) = {s[n] : n \in 1..Len(s)}
      BY <2>6, Elements
    <3> QED BY <2>7, <3>1
  <2>9. \A n \in 1..l - o : o + n \in o + 1..l
    OBVIOUS
  <2>10. \A n \in o + 1..l : n - o \in 1..l - o /\ o + (n - o) = n
    OBVIOUS
  <2>11. \A r : r \in Range(s) <=> \E n \in o + 1..l : x[n] = r
    <3>1. ASSUME NEW r \in Range(s) PROVE \E n \in o + 1..l : x[n] = r
      BY <2>7, <2>8, <2>9
    <3>2. ASSUME NEW n \in o + 1..l PROVE x[n] \in Range(s)
      <4>1. n - o \in 1..l - o /\ s[n - o] = x[n]
        BY <2>7, <2>10
      <4> QED BY <2>8, <4>1
    <3> QED BY <3>1, <3>2
  <2>12. Unread(f) = Range(s) /\ Lines(f) = o + 1..l
    BY <2>3, <2>5 DEF Unread, Lines, x
  <2> QED BY <2>1, <2>3, <2>11, <2>12 DEF Pending, x
<1>2. ASSUME NEW r
      PROVE  r \in (UNION {Unread(fs[i]) : i \in DOMAIN fs}) \intersect Records <=> r \in Disk(fs)
  <2>1. r \in UNION {Unread(fs[i]) : i \in DOMAIN fs} <=> \E i \in DOMAIN fs : r \in Unread(fs[i])
    OBVIOUS
  <2>2. r \in Disk(fs) <=> r \in Records /\ \E i \in DOMAIN fs : r \in Pending(fs[i])
    BY DEF Disk
  <2>3. \A i \in DOMAIN fs : r \in Records => (r \in Unread(fs[i]) <=> r \in Pending(fs[i]))
    BY <1>1
  <2> QED BY <2>1, <2>2, <2>3
<1> QED BY <1>2

\* The log on disk.
LEMMA LogIs ==
  ASSUME Sound(files, active, next)
  PROVE  OnDisk = Disk(files) /\ Size = Total(files) /\ Segments = Named(files)
<1>1. files \in Seq(File) /\ \A i \in DOMAIN files : files[i].offset <= Len(files[i].lines)
  BY DEF Sound, Readable
<1> QED BY <1>1, DiskIs DEF OnDisk, Size, Total, Segments, Named
-----------------------------------------------------------------------------
(* Steps within memory.                                                    *)

\* The invariant but DrainInv, which says more about the channel and the buffer.
Kept == Typed /\ MemoryInv /\ LogInv /\ Bounded /\ TokenInv /\ RecordsAccounted /\ OnceInv
Inv == Kept /\ DrainInv

\* Records to come enter the channel or are dropped, and move on from there to a batch.
MemoryStep ==
  /\ UNCHANGED <<active, files, next, rows, tokens, lost, torn>>
  /\ channel' \in Seq(Records) /\ buf' \in Seq(Records) /\ fresh' \in Seq(Records)
  /\ task' \in Task /\ MemoryInv'
  /\ Range(fresh') \subseteq Range(fresh) /\ dropped \subseteq dropped'
  /\ Range(channel) \union Range(buf) \subseteq
       Range(channel') \union Range(buf') \union Range(Carried(task)')
  /\ Range(channel') \union Range(buf') \subseteq
       Range(channel) \union Range(buf) \union Range(fresh)
  /\ Range(fresh) \subseteq Range(fresh') \union Range(channel') \union dropped'
  /\ \/ task' = task
     \/ /\ task = Idle /\ task'.at \in {"insert", "spill"}
        /\ Range(task'.batch) \subseteq Range(channel) \union Range(buf)

\* Such a step keeps what is known of the log and the table.
LEMMA MemoryStepKeeps ==
  ASSUME Kept, MemoryStep
  PROVE  Kept'
<1>1. Typed /\ MemoryInv /\ LogInv /\ Bounded /\ TokenInv /\ RecordsAccounted /\ OnceInv
  BY DEF Kept
<1>2. Typed'
  BY <1>1 DEF Typed, MemoryStep
<1>3. /\ InMemory = Range(channel) \union Range(buf) \union Range(Carried(task))
      /\ InMemory' = Range(channel') \union Range(buf') \union Range(Carried(task)')
  <2>1. Range(<<>>) = {}
    BY DEF Range
  <2> QED BY <2>1 DEF InMemory, Carried
<1>4. /\ Carried(task)' = Carried(task) \/ Range(Carried(task)) = {}
      /\ Range(Carried(task)') \subseteq Range(Carried(task)) \union Range(channel) \union Range(buf)
  <2>1. CASE task' = task
    BY <2>1 DEF Carried
  <2>2. CASE /\ task = Idle /\ task'.at \in {"insert", "spill"}
             /\ Range(task'.batch) \subseteq Range(channel) \union Range(buf)
    BY <2>2 DEF Carried, Idle, Range
  <2> QED BY <2>1, <2>2 DEF MemoryStep
<1>5. InMemory \subseteq InMemory' /\ InMemory' \subseteq InMemory \union Range(fresh)
  BY <1>3, <1>4 DEF MemoryStep
<1>6. Sound(files, active, next)' /\ OnDisk' = OnDisk
  BY <1>1 DEF LogInv, MemoryStep, Sound, OnDisk
<1>7. LogInv'
  <2>1. Disk(files') \intersect (InMemory' \union Range(fresh')) = {}
    BY <1>1, <1>5 DEF LogInv, MemoryStep
  <2>2. task'.at \in {"replay", "commit"} => files' # <<>> /\ Reads(files'[1], task')
    BY <1>1 DEF LogInv, MemoryStep
  <2> QED BY <1>6, <2>1, <2>2 DEF LogInv
<1>8. Bounded'
  BY <1>1 DEF Bounded, Size, Segments, MemoryStep
<1>9. TokenInv'
  BY <1>1 DEF TokenInv, MemoryStep
<1>10. RecordsAccounted'
  <2> SUFFICES ASSUME NEW r \in Records \ Range(fresh')
               PROVE  r \in InMemory' \union OnDisk' \union dropped' \union lost' \/ rows'[r] > 0
    BY DEF RecordsAccounted
  <2>1. CASE r \in Range(fresh)
    BY <1>3, <2>1 DEF MemoryStep
  <2>2. CASE r \notin Range(fresh)
    <3>1. r \in InMemory \union OnDisk \union dropped \union lost \/ rows[r] > 0
      BY <1>1, <2>2 DEF RecordsAccounted
    <3> QED BY <1>5, <1>6, <3>1 DEF MemoryStep
  <2> QED BY <2>1, <2>2
<1>11. OnceInv'
  <2>1. Covered(files, torn, rows, tokens)' /\ InsertedOnce'
    BY <1>1 DEF OnceInv, MemoryStep, Covered, InsertedOnce
  <2>2. ASSUME NEW r \in Records \ torn, rows[r] > 0
        PROVE  /\ r \notin Range(fresh') \union Range(channel') \union Range(buf')
               /\ task'.at = "insert" => r \notin Range(task'.batch)
               /\ task'.at = "spill" /\ r \in Range(task'.batch) => task'.batch \in tokens
    <3>1. /\ r \notin Range(fresh) \union Range(channel) \union Range(buf)
          /\ task.at = "insert" => r \notin Range(task.batch)
          /\ task.at = "spill" /\ r \in Range(task.batch) => task.batch \in tokens
      BY <1>1, <2>2 DEF OnceInv
    <3> QED BY <3>1 DEF MemoryStep
  <2> QED BY <2>1, <2>2 DEF OnceInv, MemoryStep
<1> QED BY <1>2, <1>7, <1>8, <1>9, <1>10, <1>11 DEF Kept, MemoryStep

\* What flush makes of the records it is given.
LEMMA FlushIs ==
  ASSUME task = Idle, NEW records \in Seq(Records), NEW setup, Flush(records, setup)
  PROVE  /\ buf' = <<>> /\ task' \in Task /\ task'.batch = records /\ Carried(task)' = records
         /\ task'.at \in {"insert", "spill"} => records # <<>>
         /\ task' = task \/ task'.at \in {"insert", "spill"}
<1>1. CASE records = <<>>
  <2>1. buf' = <<>> /\ task' = Idle
    BY <1>1 DEF Flush
  <2>2. task'.at = "idle" /\ task'.batch = <<>> /\ task' \in Task
    BY <2>1 DEF Idle, Task
  <2>3. Carried(task)' = <<>>
    BY <2>2 DEF Carried
  <2> QED BY <1>1, <2>1, <2>2, <2>3
<1>2. CASE records # <<>>
  <2>1. PICK at \in {"insert", "spill"} : task' = [at |-> at, batch |-> records, end |-> 0]
    BY <1>2 DEF Flush, Busy
  <2> QED BY <1>2, <2>1 DEF Task, Carried, Flush
<1> QED BY <1>1, <1>2

\* An idle flusher carries no batch.
LEMMA IdleCarries ==
  ASSUME task = Idle
  PROVE  Carried(task) = <<>> /\ Range(Carried(task)) = {} /\ IsInjective(<<>>) /\ Range(<<>>) = {}
BY DEF Idle, Carried, Range, IsInjective

\* A flush of the buffer and of n records of the channel.
LEMMA FlushStep ==
  ASSUME Kept, task = Idle, NEW n \in 0..Len(channel), NEW records, NEW setup,
         Moves(buf, channel, records, channel', n), Len(buf) + n <= BatchMax,
         Flush(records, setup),
         UNCHANGED <<active, log, table, history>>
  PROVE  MemoryStep /\ Range(buf') = {} /\ Range(channel') \subseteq Range(channel)
<1>1. /\ channel \in Seq(Records) /\ buf \in Seq(Records) /\ fresh \in Seq(Records)
      /\ Len(buf) < BatchMax /\ Apart(Carried(task), buf, channel, fresh)
  BY DEF Kept, Typed, MemoryInv
<1>2. /\ records \in Seq(Records) /\ channel' \in Seq(Records) /\ Len(records) = Len(buf) + n
      /\ Range(records) \union Range(channel') = Range(buf) \union Range(channel)
      /\ Range(channel') \subseteq Range(channel)
      /\ IsInjective(records) /\ IsInjective(channel') /\ Range(records) \intersect Range(channel') = {}
  <2>1. IsInjective(buf) /\ IsInjective(channel) /\ Range(buf) \intersect Range(channel) = {}
    BY <1>1 DEF Apart
  <2> QED BY <1>1, <2>1, FrontMoves
<1>3. /\ buf' = <<>> /\ task' \in Task /\ task'.batch = records /\ Carried(task)' = records
      /\ task'.at \in {"insert", "spill"} => records # <<>>
      /\ task' = task \/ task'.at \in {"insert", "spill"}
  BY <1>2, FlushIs
<1>4. IsInjective(<<>>) /\ Range(<<>>) = {} /\ <<>> \in Seq(Records) /\ Len(<<>>) = 0
  BY IdleCarries
<1>5. fresh' = fresh /\ dropped' = dropped /\ UNCHANGED <<active, files, next, rows, tokens, lost, torn>>
  BY DEF history, log, table
<1>6. Apart(Carried(task)', buf', channel', fresh')
  BY <1>1, <1>2, <1>3, <1>4, <1>5 DEF Apart
<1>7. MemoryInv'
  <2>1. Len(Carried(task)') <= BatchMax /\ Len(buf') < BatchMax
    BY <1>2, <1>3, <1>4, LineKinds
  <2> QED BY <1>3, <1>6, <2>1 DEF MemoryInv
<1>8. MemoryStep
  BY <1>1, <1>2, <1>3, <1>4, <1>5, <1>7 DEF MemoryStep
<1> QED BY <1>2, <1>3, <1>4, <1>8

\* A record is made.
LEMMA RecordKeeps ==
  ASSUME Inv, Record
  PROVE  Inv'
<1>1. /\ channel \in Seq(Records) /\ buf \in Seq(Records) /\ fresh \in Seq(Records) /\ task \in Task
      /\ Apart(Carried(task), buf, channel, fresh) /\ MemoryInv /\ Kept /\ DrainInv
  BY DEF Inv, Kept, Typed, MemoryInv
<1>2. /\ fresh # <<>> /\ fresh' = Tail(fresh)
      /\ \/ channel' = Append(channel, Head(fresh)) /\ dropped' = dropped
         \/ dropped' = dropped \union {Head(fresh)} /\ channel' = channel
      /\ UNCHANGED <<buf, task, drain, active, files, next, rows, tokens, lost, torn, owed>>
  BY DEF Record, log, table
<1>3. Head(fresh) \in Records /\ Head(fresh) \in Range(fresh)
  BY <1>1, <1>2, Elements
<1>4. PICK u : u = Append(channel, Head(fresh))
  OBVIOUS
<1>5. Moves(channel, fresh, u, Tail(fresh), 1) /\ 1 \in 0..Len(fresh)
  BY <1>1, <1>2, <1>4, HeadMoves
<1>6. /\ u \in Seq(Records) /\ Tail(fresh) \in Seq(Records)
      /\ Range(u) \union Range(fresh') = Range(channel) \union Range(fresh)
      /\ Range(fresh') \subseteq Range(fresh)
      /\ IsInjective(u) /\ IsInjective(fresh') /\ Range(u) \intersect Range(fresh') = {}
  <2>1. IsInjective(channel) /\ IsInjective(fresh) /\ Range(channel) \intersect Range(fresh) = {}
    BY <1>1 DEF Apart
  <2> QED BY <1>1, <1>2, <1>5, <2>1, FrontMoves
<1>7. Range(u) = Range(channel) \union {Head(fresh)}
  BY <1>1, <1>3, <1>4, ElementsAppend
<1>8. /\ Range(channel') \subseteq Range(u) /\ IsInjective(channel') /\ channel' \in Seq(Records)
      /\ Range(channel) \subseteq Range(channel')
      /\ Range(fresh) \subseteq Range(fresh') \union Range(channel') \union dropped'
  <2>1. CASE channel' = u
    BY <1>6, <1>7, <2>1
  <2>2. CASE dropped' = dropped \union {Head(fresh)} /\ channel' = channel
    <3>1. IsInjective(channel)
      BY <1>1 DEF Apart
    <3>2. Range(fresh) \subseteq Range(fresh') \union Range(channel) \union {Head(fresh)}
      BY <1>6, <1>7
    <3> QED BY <1>1, <1>7, <2>2, <3>1, <3>2
  <2> QED BY <1>2, <1>4, <2>1, <2>2
<1>9. Carried(task)' = Carried(task)
  BY <1>2 DEF Carried
<1>10. Apart(Carried(task)', buf', channel', fresh')
  <2>1. Range(channel') \intersect Range(fresh') = {}
    BY <1>6, <1>8
  <2>2. /\ Range(Carried(task)) \intersect Range(u) = {} /\ Range(buf) \intersect Range(u) = {}
    BY <1>1, <1>3, <1>7 DEF Apart
  <2> QED BY <1>1, <1>2, <1>6, <1>8, <1>9, <2>1, <2>2 DEF Apart
<1>11. MemoryInv'
  BY <1>1, <1>2, <1>9, <1>10 DEF MemoryInv
<1>12. MemoryStep
  <2>1. fresh' \in Seq(Records) /\ dropped \subseteq dropped'
    BY <1>2, <1>6
  <2>2. Range(channel') \union Range(buf') \subseteq Range(channel) \union Range(buf) \union Range(fresh)
    BY <1>2, <1>3, <1>7, <1>8
  <2> QED BY <1>1, <1>2, <1>6, <1>8, <1>11, <2>1, <2>2 DEF MemoryStep
<1>13. DrainInv'
  BY <1>1, <1>2, <1>3, <1>6, <1>7, <1>8 DEF DrainInv
<1> QED BY <1>1, <1>12, <1>13, MemoryStepKeeps DEF Inv

\* A record is received.
LEMMA ReceiveKeeps ==
  ASSUME Inv, Receive
  PROVE  Inv'
<1>1. /\ channel \in Seq(Records) /\ buf \in Seq(Records) /\ fresh \in Seq(Records) /\ task \in Task
      /\ Apart(Carried(task), buf, channel, fresh) /\ MemoryInv /\ Kept /\ DrainInv
      /\ Len(buf) < BatchMax
  BY DEF Inv, Kept, Typed, MemoryInv
<1>2. PICK u : u = Append(buf, Head(channel))
  OBVIOUS
<1>3. /\ channel # <<>> /\ channel' = Tail(channel) /\ task = Idle
      /\ \/ Len(u) >= BatchMax /\ Flush(u, TRUE)
         \/ Len(u) < BatchMax /\ buf' = u /\ task' = task
      /\ UNCHANGED <<drain, active, log, table, history>>
  <2>1. Len(u) \in Nat /\ BatchMax \in Nat
    BY <1>1, <1>2, LineKinds
  <2>2. /\ channel # <<>> /\ channel' = Tail(channel) /\ task = Idle
        /\ IF Len(u) >= BatchMax THEN Flush(u, TRUE)
           ELSE buf' = u /\ Fine /\ UNCHANGED <<task, ready, backoff>>
        /\ UNCHANGED <<drain, active, log, table, history>>
    BY <1>2 DEF Receive
  <2>3. Len(u) >= BatchMax \/ Len(u) < BatchMax
    BY <2>1
  <2> QED BY <2>1, <2>2, <2>3
<1>4. Moves(buf, channel, u, channel', 1) /\ 1 \in 0..Len(channel) /\ Len(buf) + 1 <= BatchMax
  BY <1>1, <1>2, <1>3, HeadMoves, LineKinds
<1>5. UNCHANGED <<active, files, next, rows, tokens, lost, torn, fresh, dropped, owed, drain>>
  BY <1>3 DEF log, table, history
<1>6. /\ u \in Seq(Records) /\ channel' \in Seq(Records)
      /\ Range(u) \union Range(channel') = Range(buf) \union Range(channel)
      /\ Range(channel') \subseteq Range(channel)
      /\ IsInjective(u) /\ IsInjective(channel') /\ Range(u) \intersect Range(channel') = {}
  <2>1. IsInjective(buf) /\ IsInjective(channel) /\ Range(buf) \intersect Range(channel) = {}
    BY <1>1 DEF Apart
  <2> QED BY <1>1, <1>4, <2>1, FrontMoves
<1>7. MemoryStep /\ Range(channel') \union Range(buf') \subseteq Range(channel) \union Range(buf)
  <2>1. CASE Flush(u, TRUE)
    <3>1. MemoryStep /\ Range(buf') = {} /\ Range(channel') \subseteq Range(channel)
      BY <1>1, <1>3, <1>4, <2>1, FlushStep
    <3> QED BY <3>1
  <2>2. CASE Len(u) < BatchMax /\ buf' = u /\ task' = task
    <3>1. Carried(task)' = Carried(task) /\ Range(Carried(task)) = {}
      BY <1>3, <2>2, IdleCarries DEF Carried
    <3>2. Apart(Carried(task)', buf', channel', fresh')
      BY <1>1, <1>5, <1>6, <2>2, <3>1 DEF Apart
    <3>3. MemoryInv'
      BY <1>1, <2>2, <3>1, <3>2 DEF MemoryInv
    <3>4. MemoryStep
      BY <1>1, <1>5, <1>6, <2>2, <3>3 DEF MemoryStep
    <3> QED BY <1>6, <2>2, <3>4
  <2> QED BY <1>3, <2>1, <2>2
<1>8. DrainInv'
  BY <1>1, <1>5, <1>7 DEF DrainInv
<1> QED BY <1>1, <1>7, <1>8, MemoryStepKeeps DEF Inv

\* Nothing moves.
LEMMA NoneMove ==
  ASSUME NEW s \in Seq(Records), NEW t \in Seq(Records)
  PROVE  Moves(s, t, s, t, 0)
<1>1. SubSeq(t, 1, 0) = <<>>
  BY SubSeqEmpty
<1>2. SubSeq(t, 0 + 1, Len(t)) = t
  BY SubSeqFull
<1>3. s \o <<>> = s
  BY ConcatEmptySeq
<1> QED BY <1>1, <1>2, <1>3 DEF Moves

\* The flush interval is over.
LEMMA TickKeeps ==
  ASSUME Inv, Tick
  PROVE  Inv'
<1>1. /\ channel \in Seq(Records) /\ buf \in Seq(Records) /\ Kept /\ DrainInv /\ Len(buf) < BatchMax
  BY DEF Inv, Kept, Typed, MemoryInv
<1>2. /\ task = Idle /\ Flush(buf, TRUE)
      /\ UNCHANGED <<channel, drain, active, log, table, history>>
  BY DEF Tick
<1>3. Moves(buf, channel, buf, channel', 0) /\ 0 \in 0..Len(channel) /\ Len(buf) + 0 <= BatchMax
  BY <1>1, <1>2, NoneMove, LineKinds
<1>4. MemoryStep /\ Range(buf') = {} /\ Range(channel') \subseteq Range(channel)
  BY <1>1, <1>2, <1>3, FlushStep
<1>5. DrainInv'
  BY <1>1, <1>2, <1>4 DEF DrainInv, history
<1> QED BY <1>1, <1>4, <1>5, MemoryStepKeeps DEF Inv

\* A shutdown is asked for, or a wait is over.
LEMMA UnmovedKeeps ==
  ASSUME Inv, Shutdown \/ BackoffOver \/ ReplayBackoffOver
  PROVE  Inv'
<1>1. /\ channel \in Seq(Records) /\ buf \in Seq(Records) /\ fresh \in Seq(Records) /\ task \in Task
      /\ Apart(Carried(task), buf, channel, fresh) /\ MemoryInv /\ Kept /\ DrainInv /\ Typed
  BY DEF Inv, Kept, Typed, MemoryInv
<1>2. UNCHANGED <<channel, buf, task, active, files, next, rows, tokens, lost, torn, fresh, dropped>>
  BY DEF Shutdown, BackoffOver, ReplayBackoffOver, log, table, history
<1>3. Carried(task)' = Carried(task)
  BY <1>2 DEF Carried
<1>4. MemoryInv'
  BY <1>1, <1>2, <1>3 DEF MemoryInv
<1>5. MemoryStep
  BY <1>1, <1>2, <1>4 DEF MemoryStep
<1>6. DrainInv'
  <2>1. CASE Shutdown
    <3>1. drain' = "asked" /\ owed' = InMemory
      BY <2>1 DEF Shutdown
    <3>2. InMemory \intersect Range(fresh) = {}
      BY <1>1, MemoryIs DEF Apart
    <3> QED BY <1>2, <3>1, <3>2 DEF DrainInv
  <2>2. CASE BackoffOver \/ ReplayBackoffOver
    <3>1. drain' = drain /\ owed' = owed
      BY <2>2 DEF BackoffOver, ReplayBackoffOver, history
    <3> QED BY <1>1, <1>2, <3>1 DEF DrainInv
  <2> QED BY <2>1, <2>2
<1> QED BY <1>1, <1>5, <1>6, MemoryStepKeeps DEF Inv

\* A drain takes what is queued: all of it, when its batch is not full.
LEMMA DrainKeeps ==
  ASSUME Inv, Drain
  PROVE  Inv'
<1>1. /\ channel \in Seq(Records) /\ buf \in Seq(Records) /\ Kept /\ DrainInv /\ Len(buf) < BatchMax
  BY DEF Inv, Kept, Typed, MemoryInv
<1>2. PICK k \in Nat, l \in Nat : k = Len(channel) /\ l = Len(buf)
  BY <1>1
<1>3. PICK n : n = Min({BatchMax - Len(buf), Len(channel)})
  OBVIOUS
<1>4. n \in 0..k /\ l + n <= BatchMax /\ (l + n < BatchMax => n = k)
  <2>1. PICK m \in Nat : m = BatchMax - l
    BY <1>1, <1>2, LineKinds
  <2>2. {m, k} \subseteq Nat /\ {m, k} # {}
    OBVIOUS
  <2>3. n \in {m, k} /\ n <= m /\ n <= k
    BY <1>2, <1>3, <2>1, <2>2, MinIs
  <2> QED BY <2>1, <2>3, LineKinds
<1>5. PICK u : u = buf \o SubSeq(channel, 1, n)
  OBVIOUS
<1>6. Len(SubSeq(channel, 1, n)) = n
  <2>1. \A i \in 1..n : channel[i] \in Records
    BY <1>1, <1>2, <1>4
  <2>2. Len(SubSeq(channel, 1, n)) = IF 1 <= n THEN n - 1 + 1 ELSE 0
    BY <1>4, <2>1, SubSeqProperties
  <2> QED BY <1>4, <2>2
<1>7. /\ task = Idle /\ Flush(u, FALSE)
      /\ channel' = SubSeq(channel, n + 1, Len(channel))
      /\ drain' = IF Len(u) < BatchMax THEN "last" ELSE drain
      /\ drain = "asked"
      /\ UNCHANGED <<active, log, table, history>>
  BY <1>3, <1>5, <1>6 DEF Drain, drainable
<1>8. Moves(buf, channel, u, channel', n)
  BY <1>5, <1>7 DEF Moves
<1>9. n \in 0..Len(channel) /\ Len(buf) + n <= BatchMax
  BY <1>2, <1>4
<1>10. MemoryStep /\ Range(buf') = {} /\ Range(channel') \subseteq Range(channel)
  BY <1>1, <1>7, <1>8, <1>9, FlushStep
<1>11. Len(u) = l + n /\ Len(channel') = k - n /\ channel' \in Seq(Records)
  <2>1. Len(u) = Len(buf) + n /\ Len(channel') = Len(channel) - n /\ channel' \in Seq(Records)
    BY <1>1, <1>8, <1>9, FrontMoves
  <2> QED BY <1>2, <2>1
<1>12. drain' = "last" => Range(channel') = {}
  <2> SUFFICES ASSUME Len(u) < BatchMax PROVE Range(channel') = {}
    BY <1>7
  <2>1. Len(channel') = 0
    BY <1>4, <1>11
  <2>2. 1..Len(channel') = {}
    BY <2>1
  <2> QED BY <1>11, <2>2, Elements
<1>13. DrainInv'
  BY <1>1, <1>7, <1>10, <1>12 DEF DrainInv, history
<1> QED BY <1>1, <1>10, <1>13, MemoryStepKeeps DEF Inv
-----------------------------------------------------------------------------
(* Steps of the table.                                                     *)

\* What an insert may do to the rows and the tokens.
Inserts(b) ==
  /\ rows' \in [Records -> Nat] /\ tokens' \subseteq Seq(Records)
  /\ tokens \subseteq tokens' /\ tokens' \subseteq tokens \union {b}
  /\ \A r \in Records : \/ rows'[r] = rows[r]
                        \/ rows'[r] = rows[r] + 1 /\ r \in Range(b) /\ b \notin tokens /\ b \in tokens'
  /\ \A c \in tokens' : Len(c) <= BatchMax /\ \A r \in Range(c) : rows'[r] > 0

\* It adds a row for each of a batch's records, if its token is new.
LEMMA InsertIs ==
  ASSUME Typed, TokenInv, NEW b \in Seq(Records), Len(b) <= BatchMax, NEW ok \in BOOLEAN, Insert(b, ok)
  PROVE  Inserts(b) /\ (ok => b \in tokens')
<1>1. /\ rows \in [Records -> Nat] /\ tokens \subseteq Seq(Records)
      /\ \A c \in tokens : Len(c) <= BatchMax /\ \A r \in Range(c) : rows[r] > 0
  BY DEF Typed, TokenInv
<1>2. Range(b) \subseteq Records
  BY Elements
<1>3. CASE ~ok /\ UNCHANGED table
  BY <1>1, <1>3 DEF table, Inserts
<1>4. CASE Apply(b)
  <2>1. tokens' = tokens \union {b}
    BY <1>4 DEF Apply, dedup_token
  <2>2. rows' = [r \in Records |-> IF b \notin tokens /\ r \in Range(b) THEN rows[r] + 1 ELSE rows[r]]
    BY <1>4 DEF Apply, dedup_token
  <2>3. rows' \in [Records -> Nat]
    BY <1>1, <2>2
  <2>4. \A r \in Records : \/ rows'[r] = rows[r]
                           \/ rows'[r] = rows[r] + 1 /\ r \in Range(b) /\ b \notin tokens
    BY <2>2
  <2>5. \A r \in Records : rows[r] \in Nat /\ rows'[r] >= rows[r]
    BY <1>1, <2>4
  <2>6. \A r \in Range(b) : rows'[r] > 0
    <3> SUFFICES ASSUME NEW r \in Range(b) PROVE rows'[r] > 0
      OBVIOUS
    <3>1. CASE b \in tokens
      BY <1>1, <1>2, <2>2, <3>1
    <3>2. CASE b \notin tokens
      BY <1>1, <1>2, <2>2, <3>2
    <3> QED BY <3>1, <3>2
  <2>7. ASSUME NEW c \in tokens, NEW r \in Range(c) PROVE rows'[r] > 0
    <3>1. r \in Records
      BY <1>1, <2>7, Elements
    <3>2. rows[r] > 0 /\ rows[r] \in Nat /\ rows'[r] \in Nat /\ rows'[r] >= rows[r]
      BY <1>1, <2>3, <2>5, <2>7, <3>1
    <3> QED BY <3>2
  <2>8. \A c \in tokens' : Len(c) <= BatchMax /\ \A r \in Range(c) : rows'[r] > 0
    BY <1>1, <2>1, <2>6, <2>7
  <2> QED BY <1>1, <2>1, <2>3, <2>4, <2>8 DEF Inserts
<1> QED BY <1>3, <1>4 DEF Insert

\* Records that stay accounted for.
LEMMA RowsAccounted ==
  ASSUME RecordsAccounted, Typed, NEW b, Inserts(b),
         InMemory \subseteq InMemory' \union {r \in Records : rows'[r] > 0},
         UNCHANGED <<files, fresh, dropped, lost>>
  PROVE  RecordsAccounted'
<1>1. OnDisk' = OnDisk
  BY DEF OnDisk
<1> SUFFICES ASSUME NEW r \in Records \ Range(fresh)
             PROVE  r \in InMemory' \union OnDisk' \union dropped \union lost \/ rows'[r] > 0
  BY DEF RecordsAccounted
<1>2. r \in InMemory \union OnDisk \union dropped \union lost \/ rows[r] > 0
  BY DEF RecordsAccounted
<1>3. rows[r] > 0 => rows'[r] > 0
  <2>1. rows[r] \in Nat /\ (rows'[r] = rows[r] \/ rows'[r] = rows[r] + 1)
    BY DEF Typed, Inserts
  <2> QED BY <2>1
<1> QED BY <1>1, <1>2, <1>3

\* A batch is inserted, or goes on to be spilled.
LEMMA InsertBatchKeeps ==
  ASSUME Inv, InsertBatch
  PROVE  Inv'
<1>1. Typed /\ MemoryInv /\ LogInv /\ Bounded /\ TokenInv /\ RecordsAccounted /\ OnceInv /\ DrainInv
  BY DEF Inv, Kept
<1>2. /\ task.at = "insert"
      /\ UNCHANGED <<channel, buf, drain, active, files, next, fresh, dropped, lost, torn, owed>>
  BY DEF InsertBatch, log, history
<1>3. PICK ok \in BOOLEAN : Insert(task.batch, ok) /\ task' = after_insert(ok)
  BY DEF InsertBatch
<1>4. PICK b : b = task.batch
  OBVIOUS
<1>5. /\ task \in Task /\ b \in Seq(Records) /\ Carried(task) = b /\ Len(b) <= BatchMax
      /\ Apart(b, buf, channel, fresh) /\ b # <<>>
  BY <1>1, <1>2, <1>4 DEF Typed, Task, Carried, MemoryInv
<1>6. Inserts(b) /\ (ok => b \in tokens')
  BY <1>1, <1>3, <1>4, <1>5, InsertIs
<1>7. Range(b) \subseteq Records
  BY <1>5, Elements
<1>8. /\ task' \in Task
      /\ \/ ok /\ task' = Idle /\ task'.at = "idle" /\ Carried(task)' = <<>>
         \/ ~ok /\ task'.at = "spill" /\ task'.batch = b /\ Carried(task)' = b
  <2>1. CASE ok
    <3>1. task' = Idle
      BY <1>3, <2>1 DEF after_insert
    <3>2. task'.at = "idle" /\ task' \in Task
      BY <3>1 DEF Idle, Task
    <3> QED BY <2>1, <3>1, <3>2 DEF Carried
  <2>2. CASE ~ok
    <3>1. task' = [at |-> "spill", batch |-> b, end |-> 0]
      BY <1>3, <1>4, <2>2 DEF after_insert, Busy
    <3>2. task'.at = "spill" /\ task'.batch = b /\ task' \in Task
      BY <1>5, <3>1 DEF Task
    <3> QED BY <2>2, <3>2 DEF Carried
  <2> QED BY <2>1, <2>2
<1>9. Range(<<>>) = {} /\ IsInjective(<<>>) /\ Len(<<>>) = 0
  BY DEF Range, IsInjective
<1>10. Range(Carried(task)') \subseteq Range(b)
  BY <1>8, <1>9
<1>11. /\ InMemory = Range(channel) \union Range(buf) \union Range(b)
       /\ InMemory' = Range(channel) \union Range(buf) \union Range(Carried(task)')
  BY <1>2, <1>4, <1>9 DEF InMemory, Carried
<1>12. Typed'
  BY <1>1, <1>2, <1>6, <1>8 DEF Typed, Inserts
<1>13. MemoryInv'
  <2>1. Apart(Carried(task)', buf, channel, fresh)
    BY <1>5, <1>8, <1>9 DEF Apart
  <2>2. Len(Carried(task)') <= BatchMax /\ Len(buf) < BatchMax
    BY <1>1, <1>5, <1>8, <1>9, LineKinds DEF MemoryInv
  <2> QED BY <1>2, <1>5, <1>8, <2>1, <2>2 DEF MemoryInv
<1>14. LogInv'
  <2>1. Sound(files, active, next)'
    BY <1>1, <1>2 DEF LogInv, Sound
  <2>2. Disk(files') \intersect (InMemory' \union Range(fresh')) = {}
    BY <1>1, <1>2, <1>10, <1>11 DEF LogInv
  <2> QED BY <1>8, <2>1, <2>2 DEF LogInv
<1>15. Bounded'
  BY <1>1, <1>2 DEF Bounded, Size, Segments
<1>16. TokenInv'
  BY <1>6, <1>8 DEF TokenInv, Inserts
<1>17. RecordsAccounted'
  <2>1. InMemory \subseteq InMemory' \union {r \in Records : rows'[r] > 0}
    <3>1. CASE ok
      <4>1. \A r \in Range(b) : rows'[r] > 0
        BY <1>6, <3>1 DEF Inserts
      <4> QED BY <1>7, <1>11, <4>1
    <3>2. CASE ~ok
      BY <1>8, <1>11, <3>2
    <3> QED BY <3>1, <3>2
  <2> QED BY <1>1, <1>2, <1>6, <2>1, RowsAccounted
<1>18. OnceInv'
  <2>1. \A r \in Records : rows[r] \in Nat
    BY <1>1 DEF Typed
  <2>2. \A r \in Range(b) : r \notin torn => rows[r] = 0
    BY <1>1, <1>2, <1>4, <1>7, <2>1 DEF OnceInv
  <2>3. InsertedOnce'
    <3> SUFFICES ASSUME NEW r \in Records \ torn PROVE rows'[r] <= 1
      BY <1>2 DEF InsertedOnce
    <3>1. rows[r] <= 1
      BY <1>1 DEF OnceInv, InsertedOnce
    <3> QED BY <1>6, <2>1, <2>2, <3>1 DEF Inserts
  <2>4. ASSUME NEW r \in Records \ torn, rows'[r] > 0
        PROVE  /\ r \notin Range(fresh) \union Range(channel) \union Range(buf)
               /\ task'.at = "insert" => r \notin Range(task'.batch)
               /\ task'.at = "spill" /\ r \in Range(task'.batch) => task'.batch \in tokens'
    <3>1. CASE rows[r] > 0
      <4>1. r \notin Range(b)
        BY <2>1, <2>2, <3>1
      <4>2. r \notin Range(fresh) \union Range(channel) \union Range(buf)
        BY <1>1, <3>1 DEF OnceInv
      <4> QED BY <1>8, <4>1, <4>2
    <3>2. CASE ~(rows[r] > 0)
      <4>1. r \in Range(b) /\ b \in tokens'
        BY <1>6, <2>4, <3>2 DEF Inserts
      <4>2. r \notin Range(fresh) \union Range(channel) \union Range(buf)
        BY <1>5, <4>1 DEF Apart
      <4> QED BY <1>8, <4>1, <4>2
    <3> QED BY <3>1, <3>2
  <2>5. Covered(files, torn, rows', tokens')
    <3> SUFFICES ASSUME NEW i \in DOMAIN files PROVE Covers(files[i], torn, rows', tokens')
      BY DEF Covered
    <3>1. PICK f : f = files[i]
      OBVIOUS
    <3>2. Covers(f, torn, rows, tokens)
      BY <1>1, <3>1 DEF OnceInv, Covered
    <3> SUFFICES ASSUME NEW n \in Lines(f), f.lines[n] \in Records \ torn, rows'[f.lines[n]] > 0
                 PROVE  \E c \in tokens' : Holds(f, n, c)
      BY <3>1 DEF Covers
    <3>3. f.lines[n] \in Disk(files)
      BY <3>1 DEF Disk, Pending
    <3>4. f.lines[n] \notin Range(b)
      BY <1>1, <1>11, <3>3 DEF LogInv
    <3>5. rows'[f.lines[n]] = rows[f.lines[n]]
      BY <1>6, <3>4 DEF Inserts
    <3> QED BY <1>6, <3>2, <3>5 DEF Covers, Inserts
  <2> QED BY <1>2, <2>3, <2>4, <2>5 DEF OnceInv
<1>19. DrainInv'
  BY <1>1, <1>2 DEF DrainInv
<1> QED BY <1>12, <1>13, <1>14, <1>15, <1>16, <1>17, <1>18, <1>19 DEF Inv, Kept

\* A file's batch shares no record with another place of the log.
LEMMA BatchRecords ==
  ASSUME NEW fs, NEW a, NEW m, Sound(fs, a, m), NEW k \in DOMAIN fs, NEW b \in Seq(Records), NEW p,
         BatchAt(fs[k], b, p)
  PROVE  /\ Range(b) \subseteq Pending(fs[k]) /\ Range(b) \subseteq Disk(fs)
         /\ \A i \in DOMAIN fs : \A n \in Lines(fs[i]) :
              fs[i].lines[n] \in Range(b) => i = k /\ Holds(fs[k], n, b)
<1>1. /\ fs \in Seq(File) /\ fs[k] \in File /\ Unique(fs)
  BY DEF Sound
<1>2. PICK f : f = fs[k]
  OBVIOUS
<1>3. PICK q \in Nat : q = Len(b)
  OBVIOUS
<1>4. /\ p \in Nat /\ f.offset < p /\ p + q - 1 <= Len(f.lines) /\ q > 0
      /\ f.offset \in Nat /\ Len(f.lines) \in Nat
  BY <1>1, <1>2, <1>3, BatchLines
<1>5. \A j \in 1..q : f.lines[p + j - 1] = b[j]
  BY <1>2, <1>3 DEF BatchAt
<1>6. Range(b) = {b[j] : j \in 1..q} /\ Range(b) \subseteq Records
  BY <1>3, Elements
<1>7. \A j \in 1..q : p + j - 1 \in Lines(f) /\ p + j - 1 \in p..p + q - 1
  BY <1>4 DEF Lines
<1>8. \A r \in Range(b) : \E n \in Lines(f) : f.lines[n] = r /\ n \in p..p + q - 1
  BY <1>5, <1>6, <1>7
<1>9. Range(b) \subseteq Pending(f)
  BY <1>6, <1>8 DEF Pending
<1>10. Range(b) \subseteq Disk(fs)
  BY <1>2, <1>6, <1>9 DEF Disk
<1>11. ASSUME NEW i \in DOMAIN fs, NEW n \in Lines(fs[i]), fs[i].lines[n] \in Range(b)
       PROVE  i = k /\ Holds(fs[k], n, b)
  <2>1. fs[i].lines[n] \in Pending(fs[i]) /\ fs[i].lines[n] \in Pending(f)
    BY <1>6, <1>9, <1>11 DEF Pending
  <2>2. i = k
    BY <1>1, <1>2, <2>1 DEF Unique
  <2>3. PICK l \in Lines(f) : f.lines[l] = fs[i].lines[n] /\ l \in p..p + q - 1
    BY <1>8, <1>11
  <2>4. Single(f) /\ f.lines[n] \in Records
    BY <1>1, <1>2, <1>6, <1>11, <2>2 DEF Unique
  <2>5. n = l
    BY <1>2, <1>11, <2>2, <2>3, <2>4 DEF Single
  <2> QED BY <1>2, <1>3, <2>2, <2>3, <2>5 DEF Holds
<1> QED BY <1>2, <1>9, <1>10, <1>11

\* A batch read from the log is inserted.
LEMMA InsertReplayedKeeps ==
  ASSUME Inv, InsertReplayed
  PROVE  Inv'
<1>1. Typed /\ MemoryInv /\ LogInv /\ Bounded /\ TokenInv /\ RecordsAccounted /\ OnceInv /\ DrainInv
  BY DEF Inv, Kept
<1>2. /\ task.at = "replay"
      /\ UNCHANGED <<channel, buf, drain, active, files, next, fresh, dropped, lost, torn, owed>>
  BY DEF InsertReplayed, log, history
<1>3. PICK ok \in BOOLEAN : /\ Insert(task.batch, ok)
                            /\ task' = IF ok THEN [task EXCEPT !.at = "commit"] ELSE Idle
  BY DEF InsertReplayed
<1>4. PICK b : b = task.batch
  OBVIOUS
<1>5. /\ task \in Task /\ b \in Seq(Records) /\ Len(b) <= BatchMax
      /\ Sound(files, active, next) /\ files # <<>> /\ Reads(files[1], task)
  BY <1>1, <1>2, <1>4 DEF Typed, Task, LogInv, Reads
<1>6. Inserts(b) /\ (ok => b \in tokens')
  BY <1>1, <1>3, <1>4, <1>5, InsertIs
<1>7. /\ task' \in Task /\ task'.at \in {"commit", "idle"} /\ Carried(task)' = Carried(task)
      /\ task'.at = "commit" => ok /\ task'.batch = b /\ task'.end = task.end
  <2>1. CASE ok
    <3>1. task' = [task EXCEPT !.at = "commit"]
      BY <1>3, <2>1
    <3>2. task'.at = "commit" /\ task'.batch = b /\ task'.end = task.end /\ task' \in Task
      BY <1>4, <1>5, <3>1 DEF Task
    <3> QED BY <1>2, <2>1, <3>2 DEF Carried
  <2>2. CASE ~ok
    <3>1. task'.at = "idle" /\ task' \in Task
      BY <1>3, <2>2 DEF Idle, Task
    <3> QED BY <1>2, <2>2, <3>1 DEF Carried
  <2> QED BY <2>1, <2>2
<1>8. InMemory' = InMemory /\ Carried(task) = <<>>
  <2>1. Range(<<>>) = {}
    BY DEF Range
  <2> QED BY <1>2, <1>7, <2>1 DEF InMemory, Carried
<1>9. 1 \in DOMAIN files /\ files[1] \in File /\ files \in Seq(File)
  BY <1>5 DEF Sound
<1>10. b # <<>> => \E p : BatchAt(files[1], b, p)
  BY <1>4, <1>5 DEF Reads
<1>11. /\ Range(b) \subseteq Disk(files)
       /\ \A i \in DOMAIN files : \A n \in Lines(files[i]) :
            files[i].lines[n] \in Range(b) => i = 1 /\ Holds(files[1], n, b)
  <2>1. CASE b = <<>>
    <3>1. Range(b) = {}
      BY <2>1 DEF Range
    <3> QED BY <3>1
  <2>2. CASE b # <<>>
    <3>1. PICK p : BatchAt(files[1], b, p)
      BY <1>10, <2>2
    <3> QED BY <1>5, <1>9, <3>1, BatchRecords
  <2> QED BY <2>1, <2>2
<1>12. Typed'
  BY <1>1, <1>2, <1>6, <1>7 DEF Typed, Inserts
<1>13. MemoryInv'
  BY <1>1, <1>2, <1>7 DEF MemoryInv
<1>14. LogInv'
  <2>1. Sound(files, active, next)'
    BY <1>2, <1>5 DEF Sound
  <2>2. Disk(files') \intersect (InMemory' \union Range(fresh')) = {}
    BY <1>1, <1>2, <1>8 DEF LogInv
  <2>3. task'.at = "commit" => Reads(files[1], task')
    BY <1>4, <1>5, <1>7 DEF Reads
  <2> QED BY <1>2, <1>5, <1>7, <2>1, <2>2, <2>3 DEF LogInv
<1>15. Bounded'
  BY <1>1, <1>2 DEF Bounded, Size, Segments
<1>16. TokenInv'
  BY <1>6, <1>7 DEF TokenInv, Inserts
<1>17. RecordsAccounted'
  BY <1>1, <1>2, <1>6, <1>8, RowsAccounted
<1>18. OnceInv'
  <2>1. \A r \in Records : rows[r] \in Nat
    BY <1>1 DEF Typed
  <2>2. ASSUME NEW r \in Records \ torn, rows'[r] # rows[r] PROVE rows[r] = 0
    <3>1. r \in Range(b) /\ b \notin tokens
      BY <1>6, <2>2 DEF Inserts
    <3>2. PICK n \in Lines(files[1]) : files[1].lines[n] = r
      <4>1. r \in Disk(files)
        BY <1>11, <3>1
      <4>2. PICK i \in DOMAIN files : \E n \in Lines(files[i]) : files[i].lines[n] = r
        BY <4>1 DEF Disk, Pending
      <4> QED BY <1>11, <3>1, <4>2
    <3>3. Holds(files[1], n, b)
      BY <1>9, <1>11, <3>1, <3>2
    <3>4. ASSUME rows[r] > 0 PROVE FALSE
      <4>1. Covers(files[1], torn, rows, tokens)
        BY <1>1, <1>9 DEF OnceInv, Covered
      <4>2. PICK c \in tokens : Holds(files[1], n, c)
        BY <2>2, <3>2, <3>4, <4>1 DEF Covers
      <4>3. PICK p : BatchAt(files[1], b, p) /\ n \in p..p + Len(b) - 1
        BY <3>3 DEF Holds
      <4>4. PICK q : BatchAt(files[1], c, q) /\ n \in q..q + Len(c) - 1
        BY <4>2 DEF Holds
      <4>5. c \in Seq(Records) /\ Len(c) <= BatchMax
        BY <1>1 DEF Typed, TokenInv
      <4>6. b = c
        BY <1>5, <1>9, <4>3, <4>4, <4>5, SameBatch
      <4> QED BY <3>1, <4>6
    <3> QED BY <2>1, <3>4
  <2>3. InsertedOnce'
    <3> SUFFICES ASSUME NEW r \in Records \ torn PROVE rows'[r] <= 1
      BY <1>2 DEF InsertedOnce
    <3>1. rows[r] <= 1 /\ rows[r] \in Nat
      BY <1>1, <2>1 DEF OnceInv, InsertedOnce
    <3>2. rows'[r] = rows[r] \/ rows'[r] = rows[r] + 1
      BY <1>6 DEF Inserts
    <3> QED BY <2>2, <3>1, <3>2
  <2>4. ASSUME NEW r \in Records \ torn, rows'[r] > 0
        PROVE  r \notin Range(fresh) \union Range(channel) \union Range(buf)
    <3>1. CASE rows[r] > 0
      BY <1>1, <3>1 DEF OnceInv
    <3>2. CASE ~(rows[r] > 0)
      <4>1. r \in Disk(files)
        BY <1>6, <1>11, <2>4, <3>2 DEF Inserts
      <4> QED BY <1>1, <4>1, MemoryIs DEF LogInv
    <3> QED BY <3>1, <3>2
  <2>5. Covered(files, torn, rows', tokens')
    <3> SUFFICES ASSUME NEW i \in DOMAIN files PROVE Covers(files[i], torn, rows', tokens')
      BY DEF Covered
    <3>1. PICK f : f = files[i]
      OBVIOUS
    <3>2. Covers(f, torn, rows, tokens)
      BY <1>1, <3>1 DEF OnceInv, Covered
    <3> SUFFICES ASSUME NEW n \in Lines(f), f.lines[n] \in Records \ torn, rows'[f.lines[n]] > 0
                 PROVE  \E c \in tokens' : Holds(f, n, c)
      BY <3>1 DEF Covers
    <3>3. CASE rows'[f.lines[n]] = rows[f.lines[n]]
      BY <1>6, <3>2, <3>3 DEF Covers, Inserts
    <3>4. CASE f.lines[n] \in Range(b) /\ b \in tokens'
      BY <1>11, <3>1, <3>4
    <3> QED BY <1>6, <3>3, <3>4 DEF Inserts
  <2> QED BY <1>2, <1>7, <2>3, <2>4, <2>5 DEF OnceInv
<1>19. DrainInv'
  BY <1>1, <1>2 DEF DrainInv
<1> QED BY <1>12, <1>13, <1>14, <1>15, <1>16, <1>17, <1>18, <1>19 DEF Inv, Kept
-----------------------------------------------------------------------------
(* Steps that write to the log.                                            *)

\* The log has more of the batch b than before, and no file but c to append to.
Wrote(b, c) ==
  /\ Sound(files', c, next') /\ torn \subseteq torn'
  /\ Disk(files) \subseteq Disk(files') /\ Disk(files') \subseteq Disk(files) \union Range(b)
  /\ Covered(files', torn', rows, tokens)
  /\ Total(files') <= Max({MaxSize, Len(Left)}) /\ Named(files') <= MaxSegments

\* The greatest of two numbers.
LEMMA MaxSizeLeft ==
  /\ MaxSize \in Nat /\ Len(Left) \in Nat /\ Max({MaxSize, Len(Left)}) \in Nat
  /\ MaxSize <= Max({MaxSize, Len(Left)}) /\ Len(Left) <= Max({MaxSize, Len(Left)})
<1>1. MaxSize \in Nat /\ Len(Left) \in Nat
  <2>1. Left \in Seq(Records \union {Blank, Torn, Bad}) /\ MaxSize \in Nat
    BY LogAssumption
  <2> QED BY <2>1
<1>2. PICK y \in {MaxSize, Len(Left)} : \A z \in {MaxSize, Len(Left)} : y >= z
  BY <1>1
<1>3. Max({MaxSize, Len(Left)}) = y
  <2>1. /\ Max({MaxSize, Len(Left)}) \in {MaxSize, Len(Left)}
        /\ \A z \in {MaxSize, Len(Left)} : Max({MaxSize, Len(Left)}) >= z
    BY <1>2 DEF Max
  <2> QED BY <1>1, <1>2, <2>1
<1> QED BY <1>1, <1>2, <1>3

\* What is on disk after a step.
LEMMA LogWillBe ==
  ASSUME NEW a, NEW m, Sound(files', a, m)
  PROVE  OnDisk' = Disk(files') /\ Size' = Total(files') /\ Segments' = Named(files')
<1>1. files' \in Seq(File) /\ \A i \in DOMAIN files' : files'[i].offset <= Len(files'[i].lines)
  BY DEF Sound, Readable
<1>2. (UNION {Unread(files'[i]) : i \in DOMAIN files'}) \intersect Records = Disk(files')
  BY <1>1, DiskIs
<1> QED BY <1>2 DEF OnDisk, Unread, Size, Total, Segments, Named

\* The file that is appended to is closed.
LEMMA CloseSound ==
  ASSUME NEW fs, NEW a, NEW m, Sound(fs, a, m), NEW c \in {a, 0}
  PROVE  Sound(fs, c, m)
<1>1. ASSUME NEW i \in DOMAIN fs PROVE Readable(fs[i], c)
  <2>1. Readable(fs[i], a) /\ fs[i].id # 0
    BY <1>1 DEF Sound, Ordered, Legacy
  <2> QED BY <2>1 DEF Readable
<1>2. c \in Nat /\ c # Legacy /\ c < m
  BY DEF Sound, Legacy
<1> QED BY <1>1, <1>2 DEF Sound

\* What is left of a write.
LEMMA PieceWritten ==
  ASSUME Kept, task.at = "spill",
         NEW rolls \in Rolls(LinesOf(task.batch)), NEW s \in Pieces(LinesOf(task.batch)),
         Leaves(s, rolls), ~full(LinesOf(task.batch)),
         NEW c, c = 0 \/ (c = (IF rolls THEN next ELSE active) /\ s = LinesOf(task.batch))
  PROVE  /\ Wrote(task.batch, c)
         /\ s = LinesOf(task.batch) => Range(task.batch) \subseteq Disk(files')
<1>1. Typed /\ MemoryInv /\ LogInv /\ Bounded /\ TokenInv /\ OnceInv
  BY DEF Kept
<1>2. PICK b : b = task.batch
  OBVIOUS
<1>3. b \in Seq(Records) /\ IsInjective(b) /\ b # <<>> /\ Sound(files, active, next)
  BY <1>1, <1>2 DEF Typed, Task, MemoryInv, Apart, Carried, LogInv
<1>4. Range(b) \subseteq Records /\ Range(b) \subseteq InMemory
  BY <1>2, <1>3, Elements DEF InMemory
<1>5. /\ Piece(s) /\ Len(s) <= Len(b) + 1
      /\ Range(s) \intersect Records \subseteq Range(b)
      /\ Range(s) \intersect Records = {} \/ Partly(s, b) \/ Carries(s, b)
  <2>1. PICK n : Begins(s, b, n)
    BY <1>2, <1>3, PiecesBegin
  <2> QED BY <1>3, <2>1, BeginsPiece
<1>6. s = LinesOf(b) => s # <<>> /\ s[Len(s)] = Blank /\ Range(b) \subseteq Range(s)
  BY <1>3, WholeBatch
<1>7. NewTo(files, s, c)
  <2>1. Disk(files) \subseteq Records /\ Disk(files) \intersect Range(b) = {}
    BY <1>1, <1>4 DEF LogInv, Disk
  <2>2. Disk(files) \intersect Range(s) = {}
    BY <1>5, <2>1
  <2> QED BY <1>2, <1>5, <1>6, <2>2 DEF NewTo
<1>8. /\ Sound(files', c, next') /\ Extended(files, files', s)
      /\ ~rolls => \E k \in DOMAIN files : Appends(files, active, k, s, c, files')
      /\ rolls => Opens(files, next, s, c, files') /\ Segments < MaxSegments
  BY <1>3, <1>7, LeavesSound
<1>9. Disk(files') = Disk(files) \union (Range(s) \intersect Records)
  BY <1>8 DEF Extended
<1>10. torn' = IF Partly(s, b) THEN torn \union Range(b) ELSE torn
  BY <1>2 DEF Leaves
<1>11. Covered(files', torn', rows, tokens)
  <2>1. Covered(files, torn, rows, tokens) /\ tokens \subseteq Seq(Records) /\ torn \subseteq torn'
    BY <1>1, <1>10 DEF OnceInv, Typed
  <2>2. Told(s, torn', rows, tokens)
    <3> SUFFICES ASSUME NEW i \in 1..Len(s), s[i] \in Records \ torn', rows[s[i]] > 0
                 PROVE  \E d \in tokens : Carries(s, d)
      BY DEF Told
    <3>1. s[i] \in Range(s)
      BY <1>5, Elements DEF Piece
    <3>2. s[i] \in Range(b) /\ ~Partly(s, b)
      BY <1>5, <1>10, <3>1
    <3>3. Carries(s, b)
      BY <1>5, <3>1, <3>2
    <3>4. s[i] \in Records \ torn
      BY <2>1
    <3>5. b \in tokens
      BY <1>1, <1>2, <3>2, <3>4 DEF OnceInv
    <3> QED BY <3>3, <3>5
  <2> QED BY <1>8, <2>1, <2>2 DEF Extended
<1>12. Total(files') = Total(files) + Len(s) /\ Named(files') <= MaxSegments
  <2>1. Named(files) \in Nat /\ MaxSegments \in Nat /\ Segments = Named(files)
    BY <1>3, Counts, LogIs, LogAssumption DEF Sound
  <2>2. CASE rolls
    <3>1. Total(files') = Total(files) + Len(s) /\ Named(files') = Named(files) + 1
      BY <1>3, <1>8, <2>2, OpenCounts
    <3> QED BY <1>8, <2>1, <2>2, <3>1
  <2>3. CASE ~rolls
    <3>1. PICK k \in DOMAIN files : Appends(files, active, k, s, c, files')
      BY <1>8, <2>3
    <3>2. Total(files') = Total(files) + Len(s) /\ Named(files') = Named(files)
      BY <1>3, <3>1, AppendCounts
    <3> QED BY <1>1, <2>1, <3>2 DEF Bounded
  <2> QED BY <2>2, <2>3
<1>13. Total(files') <= Max({MaxSize, Len(Left)})
  <2>1. Len(LinesOf(b)) = Len(b) + 1
    BY <1>3, WholeBatch
  <2>2. Total(files) \in Nat /\ Size = Total(files) /\ Len(s) \in Nat /\ Len(b) \in Nat
    <3>1. files \in Seq(File) /\ s \in Seq(Line)
      BY <1>3, <1>5 DEF Sound, Piece
    <3>2. Total(files) \in Nat /\ Size = Total(files)
      BY <1>3, <3>1, Counts, LogIs
    <3> QED BY <1>3, <3>1, <3>2
  <2>3. ~(Total(files) + (Len(b) + 1) > MaxSize)
    BY <1>2, <2>1, <2>2 DEF full
  <2>4. PICK x \in Nat, y \in Nat : x = MaxSize /\ y = Max({MaxSize, Len(Left)}) /\ x <= y
    BY MaxSizeLeft
  <2> QED BY <1>5, <1>12, <2>2, <2>3, <2>4
<1>14. s = LinesOf(b) => Range(b) \subseteq Disk(files')
  BY <1>4, <1>6, <1>9
<1>15. torn \subseteq torn'
  BY <1>10
<1> QED BY <1>2, <1>5, <1>8, <1>9, <1>11, <1>12, <1>13, <1>14, <1>15 DEF Wrote

\* Nothing is written.
LEMMA NoneWritten ==
  ASSUME Kept, UNCHANGED <<files, next, torn>>, NEW b, NEW c \in {active, 0}
  PROVE  Wrote(b, c)
<1>1. Sound(files, active, next) /\ Covered(files, torn, rows, tokens) /\ Bounded
  BY DEF Kept, LogInv, OnceInv
<1>2. Sound(files, c, next)
  BY <1>1, CloseSound
<1>3. Size = Total(files) /\ Segments = Named(files)
  BY <1>1, LogIs
<1> QED BY <1>1, <1>2, <1>3 DEF Wrote, Bounded

\* A step that leaves the flusher idle after it wrote.
LEMMA WroteKeeps ==
  ASSUME Inv, NEW b, Range(b) \subseteq InMemory, Wrote(b, active'), task' = Idle,
         channel' \in {channel, <<>>}, buf' \in {buf, <<>>},
         InMemory' \intersect Range(b) = {},
         \A r \in Records \ Range(fresh) :
           r \in InMemory \union dropped \union lost =>
             r \in InMemory' \union Disk(files') \union dropped' \union lost',
         UNCHANGED <<rows, tokens, fresh>>, DrainInv'
  PROVE  Inv'
<1>1. Typed /\ MemoryInv /\ LogInv /\ TokenInv /\ RecordsAccounted /\ OnceInv
  BY DEF Inv, Kept
<1>2. /\ Sound(files', active', next') /\ torn \subseteq torn'
      /\ Disk(files) \subseteq Disk(files') /\ Disk(files') \subseteq Disk(files) \union Range(b)
      /\ Covered(files', torn', rows, tokens)
      /\ Total(files') <= Max({MaxSize, Len(Left)}) /\ Named(files') <= MaxSegments
  BY DEF Wrote
<1>3. OnDisk' = Disk(files') /\ Size' = Total(files') /\ Segments' = Named(files')
  BY <1>2, LogWillBe
<1>4. task'.at = "idle" /\ task' \in Task /\ Carried(task)' = <<>>
  <2>1. task'.at = "idle" /\ task' \in Task
    BY DEF Idle, Task
  <2> QED BY <2>1 DEF Carried
<1>5. Range(<<>>) = {} /\ IsInjective(<<>>) /\ Len(<<>>) = 0 /\ <<>> \in Seq(Records)
  BY DEF Range, IsInjective
<1>6. /\ channel' \in Seq(Records) /\ buf' \in Seq(Records)
      /\ Range(channel') \subseteq Range(channel) /\ Range(buf') \subseteq Range(buf)
  BY <1>1, <1>5 DEF Typed
<1>7. InMemory' = Range(channel') \union Range(buf')
  BY <1>4 DEF InMemory
<1>8. InMemory' \subseteq InMemory
  BY <1>6, <1>7 DEF InMemory
<1>9. Typed'
  <2>1. files' \in Seq(File) /\ active' \in Nat /\ next' \in Nat
    BY <1>2 DEF Sound
  <2> QED BY <1>1, <1>4, <1>6, <2>1 DEF Typed
<1>10. MemoryInv'
  <2>1. Len(buf') < BatchMax /\ Len(Carried(task)') <= BatchMax
    BY <1>1, <1>4, <1>5, LineKinds DEF MemoryInv
  <2>2. IsInjective(channel') /\ IsInjective(buf')
    BY <1>1, <1>5 DEF MemoryInv, Apart
  <2>3. Apart(Carried(task)', buf', channel', fresh')
    BY <1>1, <1>4, <1>5, <1>6, <2>2 DEF MemoryInv, Apart
  <2> QED BY <1>4, <2>1, <2>3 DEF MemoryInv
<1>11. LogInv'
  <2>1. Range(b) \intersect Range(fresh) = {}
    BY <1>1, MemoryIs DEF MemoryInv, Apart
  <2>2. Disk(files') \intersect (InMemory' \union Range(fresh')) = {}
    BY <1>1, <1>2, <1>8, <2>1 DEF LogInv
  <2> QED BY <1>2, <1>4, <2>2 DEF LogInv
<1>12. Bounded'
  BY <1>2, <1>3 DEF Bounded
<1>13. TokenInv'
  BY <1>1, <1>4 DEF TokenInv
<1>14. RecordsAccounted'
  <2> SUFFICES ASSUME NEW r \in Records \ Range(fresh)
               PROVE  r \in InMemory' \union OnDisk' \union dropped' \union lost' \/ rows[r] > 0
    BY DEF RecordsAccounted
  <2>1. r \in InMemory \union OnDisk \union dropped \union lost \/ rows[r] > 0
    BY <1>1 DEF RecordsAccounted
  <2>2. OnDisk = Disk(files)
    BY <1>1, LogIs DEF LogInv
  <2> QED BY <1>2, <1>3, <2>1, <2>2
<1>15. OnceInv'
  <2>1. InsertedOnce'
    BY <1>1, <1>2 DEF OnceInv, InsertedOnce
  <2>2. ASSUME NEW r \in Records \ torn', rows[r] > 0
        PROVE  r \notin Range(fresh) \union Range(channel') \union Range(buf')
    BY <1>1, <1>2, <1>6, <2>2 DEF OnceInv
  <2> QED BY <1>2, <1>4, <2>1, <2>2 DEF OnceInv
<1> QED BY <1>9, <1>10, <1>11, <1>12, <1>13, <1>14, <1>15 DEF Inv, Kept

\* A batch is spilled, or counted as dropped.
LEMMA SpillKeeps ==
  ASSUME Inv, Spill
  PROVE  Inv' /\ Disk(files) \subseteq Disk(files')
<1>1. Kept /\ Typed /\ MemoryInv /\ DrainInv
  BY DEF Inv, Kept
<1>2. /\ task.at = "spill" /\ task' = Idle
      /\ UNCHANGED <<channel, buf, drain, rows, tokens, fresh, lost, owed>>
  BY DEF Spill, table
<1>3. PICK b : b = task.batch
  OBVIOUS
<1>4. append(LinesOf(b))
  BY <1>3 DEF Spill
<1>5. /\ b \in Seq(Records) /\ IsInjective(b) /\ b # <<>> /\ Carried(task) = b
      /\ Apart(b, buf, channel, fresh)
  BY <1>1, <1>2, <1>3 DEF Typed, Task, MemoryInv, Carried, Apart
<1>6. /\ Wrote(b, active') /\ dropped \subseteq dropped'
      /\ Range(b) \subseteq Disk(files') \union dropped'
  <2>1. CASE limit_reached(LinesOf(b)) \/ open_failed
    <3>1. /\ active' \in {active, 0} /\ dropped' = dropped \union Range(b)
          /\ UNCHANGED <<files, next, torn>>
      BY <1>3, <2>1 DEF limit_reached, open_failed
    <3>2. Wrote(b, active')
      BY <1>1, <3>1, NoneWritten
    <3> QED BY <3>1, <3>2
  <2>2. CASE ~full(LinesOf(b)) /\ appended(LinesOf(b))
    <3>1. PICK rolls \in Rolls(LinesOf(b)) :
            /\ Leaves(LinesOf(b), rolls)
            /\ active' = IF rolls THEN next ELSE active
            /\ dropped' = dropped
      BY <2>2 DEF appended
    <3>2. LinesOf(b) \in Pieces(LinesOf(b))
      BY DEF Pieces
    <3>3. Wrote(b, active') /\ Range(b) \subseteq Disk(files')
      BY <1>1, <1>2, <1>3, <2>2, <3>1, <3>2, PieceWritten
    <3> QED BY <3>1, <3>3
  <2>3. CASE ~full(LinesOf(b)) /\ write_failed(LinesOf(b))
    <3>1. PICK rolls \in Rolls(LinesOf(b)), s \in Pieces(LinesOf(b)) :
            /\ Leaves(s, rolls) /\ active' = 0
            /\ dropped' = dropped \union Range(b)
      BY <1>3, <2>3 DEF write_failed, closed
    <3>2. Wrote(b, active')
      BY <1>1, <1>2, <1>3, <2>3, <3>1, PieceWritten
    <3> QED BY <3>1, <3>2
  <2> QED BY <1>4, <2>1, <2>2, <2>3 DEF append
<1>7. /\ InMemory = Range(channel) \union Range(buf) \union Range(b)
      /\ InMemory' = Range(channel) \union Range(buf)
  <2>1. task'.at = "idle"
    BY <1>2 DEF Idle
  <2> QED BY <1>2, <1>3, <2>1 DEF InMemory
<1>8. InMemory' \intersect Range(b) = {}
  BY <1>5, <1>7 DEF Apart
<1>9. DrainInv'
  BY <1>1, <1>2 DEF DrainInv
<1>10. \A r \in Records \ Range(fresh) :
         r \in InMemory \union dropped \union lost =>
           r \in InMemory' \union Disk(files') \union dropped' \union lost'
  BY <1>2, <1>6, <1>7
<1>11. Range(b) \subseteq InMemory /\ channel' \in {channel, <<>>} /\ buf' \in {buf, <<>>}
  BY <1>2, <1>7
<1>12. Inv'
  BY <1>2, <1>6, <1>8, <1>9, <1>10, <1>11, WroteKeeps
<1> QED BY <1>6, <1>12 DEF Wrote

\* The process ends: what was in memory is on disk or lost.
LEMMA EndsKeeps ==
  ASSUME Inv, Ends
  PROVE  Inv' /\ Disk(files) \subseteq Disk(files')
<1>1. Kept /\ Typed /\ MemoryInv /\ DrainInv
  BY DEF Inv, Kept
<1>2. /\ cut_off(LinesOf(task.batch)) \/ UNCHANGED <<files, next, torn>>
      /\ channel' = <<>> /\ buf' = <<>> /\ task' = Idle /\ drain' = "no" /\ active' = 0
      /\ lost' = lost \union (InMemory \ OnDisk') /\ owed' = {}
      /\ UNCHANGED <<rows, tokens, fresh, dropped>>
  BY DEF Ends, table
<1>3. PICK b : Range(b) \subseteq InMemory /\ Wrote(b, active')
  <2>1. CASE cut_off(LinesOf(task.batch))
    <3>1. task.at = "spill" /\ ~full(LinesOf(task.batch))
      BY <2>1 DEF cut_off
    <3>2. PICK rolls \in Rolls(LinesOf(task.batch)), s \in Pieces(LinesOf(task.batch)) :
            Leaves(s, rolls)
      BY <2>1 DEF cut_off
    <3>3. Wrote(task.batch, active')
      BY <1>1, <1>2, <3>1, <3>2, PieceWritten
    <3>4. Range(task.batch) \subseteq InMemory
      BY <3>1 DEF InMemory
    <3> QED BY <3>3, <3>4
  <2>2. CASE UNCHANGED <<files, next, torn>>
    <3>1. Wrote(<<>>, active')
      BY <1>1, <1>2, <2>2, NoneWritten
    <3>2. Range(<<>>) = {}
      BY DEF Range
    <3> QED BY <3>1, <3>2
  <2> QED BY <1>2, <2>1, <2>2
<1>4. Range(<<>>) = {}
  BY DEF Range
<1>5. InMemory' = {}
  <2>1. task'.at = "idle"
    BY <1>2 DEF Idle
  <2> QED BY <1>2, <1>4, <2>1 DEF InMemory
<1>6. OnDisk' = Disk(files')
  BY <1>3, LogWillBe DEF Wrote
<1>7. \A r \in Records \ Range(fresh) :
        r \in InMemory \union dropped \union lost =>
          r \in InMemory' \union Disk(files') \union dropped' \union lost'
  BY <1>2, <1>6
<1>8. DrainInv'
  BY <1>2 DEF DrainInv
<1>9. channel' \in {channel, <<>>} /\ buf' \in {buf, <<>>} /\ InMemory' \intersect Range(b) = {}
      /\ UNCHANGED <<rows, tokens, fresh>> /\ task' = Idle
  BY <1>2, <1>5
<1>10. Inv'
  BY <1>3, <1>7, <1>8, <1>9, WroteKeeps
<1> QED BY <1>3, <1>10 DEF Wrote
-----------------------------------------------------------------------------
(* Steps that read the log.                                                *)

\* Less of the log is left to be replayed, and nothing that is not in the table went.
ReadOn ==
  /\ Sound(files', active, next)
  /\ Disk(files') \subseteq Disk(files)
  /\ \A r \in Disk(files) : r \notin Disk(files') => rows[r] > 0
  /\ Covered(files', torn, rows, tokens)
  /\ Total(files') <= Max({MaxSize, Len(Left)}) /\ Named(files') <= MaxSegments

\* Such a step keeps the invariant.
LEMMA ReadOnKeeps ==
  ASSUME Inv, ReadOn, task' \in Task, Carried(task) = <<>>, Carried(task)' = <<>>,
         task'.at \in {"idle", "replay", "commit"},
         task'.at \in {"replay", "commit"} => files' # <<>> /\ Reads(files'[1], task'),
         task'.at = "commit" => task'.batch = <<>>,
         UNCHANGED <<channel, buf, drain, active, next, rows, tokens, history>>
  PROVE  Inv'
<1>1. Typed /\ MemoryInv /\ LogInv /\ TokenInv /\ RecordsAccounted /\ OnceInv /\ DrainInv
  BY DEF Inv, Kept
<1>2. UNCHANGED <<fresh, dropped, lost, torn, owed>>
  BY DEF history
<1>3. OnDisk' = Disk(files') /\ Size' = Total(files') /\ Segments' = Named(files')
  BY LogWillBe DEF ReadOn
<1>4. OnDisk = Disk(files)
  BY <1>1, LogIs DEF LogInv
<1>5. InMemory' = InMemory
  <2>1. Range(<<>>) = {}
    BY DEF Range
  <2>2. /\ InMemory = Range(channel) \union Range(buf) \union Range(Carried(task))
        /\ InMemory' = Range(channel') \union Range(buf') \union Range(Carried(task)')
    BY <2>1 DEF InMemory, Carried
  <2> QED BY <2>2
<1>6. Typed'
  <2>1. files' \in Seq(File)
    BY DEF ReadOn, Sound
  <2> QED BY <1>1, <1>2, <2>1 DEF Typed
<1>7. MemoryInv'
  BY <1>1, <1>2 DEF MemoryInv
<1>8. LogInv'
  <2>1. Disk(files') \intersect (InMemory' \union Range(fresh')) = {}
    BY <1>1, <1>2, <1>5 DEF LogInv, ReadOn
  <2>2. Sound(files', active', next')
    BY DEF ReadOn
  <2> QED BY <2>1, <2>2 DEF LogInv
<1>9. Bounded'
  BY <1>3 DEF Bounded, ReadOn
<1>10. TokenInv'
  <2>1. Range(<<>>) = {}
    BY DEF Range
  <2> QED BY <1>1, <2>1 DEF TokenInv
<1>11. RecordsAccounted'
  BY <1>1, <1>2, <1>3, <1>4, <1>5 DEF RecordsAccounted, ReadOn
<1>12. OnceInv'
  <2>1. InsertedOnce'
    BY <1>1, <1>2 DEF OnceInv, InsertedOnce
  <2>2. Covered(files', torn', rows', tokens')
    BY <1>2 DEF ReadOn
  <2>3. \A r \in Records \ torn : rows[r] > 0 =>
          r \notin Range(fresh) \union Range(channel) \union Range(buf)
    BY <1>1 DEF OnceInv
  <2> QED BY <1>2, <2>1, <2>2, <2>3 DEF OnceInv
<1>13. DrainInv'
  BY <1>1, <1>2 DEF DrainInv
<1> QED BY <1>6, <1>7, <1>8, <1>9, <1>10, <1>11, <1>12, <1>13 DEF Inv, Kept

\* No file is read.
LEMMA NoneRead ==
  ASSUME Kept, UNCHANGED files
  PROVE  ReadOn
<1>1. Sound(files, active, next) /\ Covered(files, torn, rows, tokens) /\ Bounded
  BY DEF Kept, LogInv, OnceInv
<1>2. Size = Total(files) /\ Segments = Named(files)
  BY <1>1, LogIs
<1> QED BY <1>1, <1>2 DEF ReadOn, Bounded

\* The first file is read up to o, the end of a batch, and what is read is in the table.
LEMMA SkipReads ==
  ASSUME Kept, files # <<>>, NEW o \in files[1].offset..Len(files[1].lines), Skips(files, files', o),
         \A n \in files[1].offset + 1..o :
           files[1].lines[n] \in Records => rows[files[1].lines[n]] > 0,
         \A b \in tokens : \A p : BatchAt(files[1], b, p) /\ p <= o => p + Len(b) - 1 <= o
  PROVE  /\ ReadOn /\ files' # <<>> /\ files'[1] = [files[1] EXCEPT !.offset = o]
         /\ files'[1] \in File
<1>1. /\ Sound(files, active, next) /\ Covered(files, torn, rows, tokens) /\ Bounded
      /\ tokens \subseteq Seq(Records)
  BY DEF Kept, LogInv, OnceInv, Typed
<1>2. /\ Sound(files', active, next) /\ DOMAIN files' = DOMAIN files /\ Len(files') = Len(files)
      /\ 1 \in DOMAIN files /\ files'[1] = [files[1] EXCEPT !.offset = o] /\ files'[1] \in File
      /\ Disk(files') \subseteq Disk(files)
      /\ \A r \in Disk(files) : r \notin Disk(files') =>
           \E n \in files[1].offset + 1..o : files[1].lines[n] = r
      /\ \A i \in DOMAIN files : files'[i].id = files[i].id /\ files'[i].lines = files[i].lines
  BY <1>1, SkipSound
<1>3. Covered(files', torn, rows, tokens)
  BY <1>1, SkipCovered
<1>4. \A r \in Disk(files) : r \notin Disk(files') => rows[r] > 0
  <2> SUFFICES ASSUME NEW r \in Disk(files), r \notin Disk(files') PROVE rows[r] > 0
    OBVIOUS
  <2>1. PICK n \in files[1].offset + 1..o : files[1].lines[n] = r
    BY <1>2
  <2>2. r \in Records
    BY DEF Disk
  <2> QED BY <2>1, <2>2
<1>5. files \in Seq(File) /\ files' \in Seq(File)
  BY <1>1, <1>2 DEF Sound
<1>6. Total(files') = Total(files) /\ Named(files') = Named(files)
  BY <1>2, <1>5, SameCounts
<1>7. Size = Total(files) /\ Segments = Named(files)
  BY <1>1, LogIs
<1>8. ReadOn
  BY <1>1, <1>2, <1>3, <1>4, <1>6, <1>7 DEF ReadOn, Bounded
<1>9. files' # <<>>
  BY <1>2, <1>5
<1> QED BY <1>2, <1>8, <1>9

\* The log's first batch is read.
LEMMA ReplayKeeps ==
  ASSUME Inv, Replay
  PROVE  Inv' /\ \A r \in Disk(files) : r \notin Disk(files') => rows[r] > 0
<1>1. Kept /\ Typed /\ LogInv /\ Sound(files, active, next)
  BY DEF Inv, Kept, LogInv
<1>2. /\ task = Idle
      /\ UNCHANGED <<channel, buf, drain, active, next, rows, tokens, history>>
  BY DEF Replay, table
<1>3. task.at = "idle" /\ Carried(task) = <<>> /\ task \in Task
  BY <1>1, <1>2, IdleCarries DEF Idle, Typed
<1>4. CASE UNCHANGED <<task, files>>
  <2>1. ReadOn
    BY <1>1, <1>4, NoneRead
  <2>2. Carried(task)' = <<>> /\ task'.at = "idle" /\ task' \in Task
    BY <1>3, <1>4
  <2>3. Inv'
    BY <1>2, <1>3, <2>1, <2>2, ReadOnKeeps
  <2> QED BY <2>1, <2>3 DEF ReadOn
<1>5. CASE /\ files # <<>>
           /\ \E f \in {past_bad(files[1])} : \E read \in {read_batch(f.lines, f.offset)} :
                /\ files' = [files EXCEPT ![1] = f]
                /\ task' = [at |-> IF read.records = <<>> THEN "commit" ELSE "replay",
                            batch |-> read.records, end |-> read.end]
  <2>1. PICK g, v : /\ g = past_bad(files[1]) /\ v = read_batch(g.lines, g.offset)
                    /\ files' = [files EXCEPT ![1] = g]
                    /\ task' = [at |-> IF v.records = <<>> THEN "commit" ELSE "replay",
                                batch |-> v.records, end |-> v.end]
    BY <1>5
  <2>2. 1 \in DOMAIN files /\ files[1] \in File /\ Readable(files[1], active)
    BY <1>1, <1>5 DEF Sound
  <2>3. PICK o \in files[1].offset..Len(files[1].lines) :
          /\ g = [files[1] EXCEPT !.offset = o]
          /\ \A i \in files[1].offset + 1..o : files[1].lines[i] \notin Records
    BY <2>1, <2>2, PastBad
  <2>4. Skips(files, files', o)
    BY <2>1, <2>3 DEF Skips
  <2>5. \A b \in tokens : \A p : BatchAt(files[1], b, p) /\ p <= o => p + Len(b) - 1 <= o
    <3> SUFFICES ASSUME NEW b \in tokens, NEW p, BatchAt(files[1], b, p), p <= o PROVE FALSE
      OBVIOUS
    <3>1. b \in Seq(Records)
      BY <1>1 DEF Typed
    <3>2. /\ p \in Nat /\ files[1].offset < p /\ Len(b) \in Nat /\ Len(b) > 0 /\ files[1].offset \in Nat
          /\ \A i \in p..p + Len(b) - 1 : files[1].lines[i] \in Records
      BY <2>2, <3>1, BatchLines
    <3>3. p \in p..p + Len(b) - 1 /\ p \in files[1].offset + 1..o
      BY <3>2
    <3> QED BY <2>3, <3>2, <3>3
  <2>6. ReadOn /\ files' # <<>> /\ files'[1] = g /\ g \in File
    <3>1. /\ ReadOn /\ files' # <<>> /\ files'[1] = [files[1] EXCEPT !.offset = o]
          /\ files'[1] \in File
      BY <1>1, <1>5, <2>3, <2>4, <2>5, SkipReads
    <3> QED BY <2>3, <3>1
  <2>7. g.offset <= Len(g.lines)
    <3>1. 1 \in DOMAIN files'
      BY <2>6 DEF ReadOn, Sound
    <3> QED BY <2>6, <3>1 DEF ReadOn, Sound, Readable
  <2>8. g.lines \in Seq(Line) /\ g.offset \in 0..Len(g.lines)
    BY <2>6, <2>7, FileParts
  <2>9. PICK a, z : Found(g.lines, g.offset, Len(g.lines), a, z, v)
    BY <2>1, <2>8, ReadBatch
  <2>10. /\ v.records \in Seq(Records) /\ v.end \in g.offset..Len(g.lines)
         /\ Len(v.records) = z - a /\ Len(v.records) <= BatchMax
         /\ \A n \in g.offset + 1..v.end : g.lines[n] \in Records => n \in a..z - 1
         /\ z - 1 <= v.end
         /\ v.records # <<>> => BatchAt(g, v.records, a) /\ a \in Lines(g)
    BY <2>6, <2>7, <2>9, FoundReads
  <2>11. a \in Nat /\ z \in Nat /\ a <= z
    BY <2>8, <2>9 DEF Found
  <2>12. /\ task'.batch = v.records /\ task'.end = v.end /\ task' \in Task
         /\ task'.at \in {"replay", "commit"} /\ (task'.at = "commit" => v.records = <<>>)
    <3>1. v.end \in Nat
      BY <2>8, <2>10
    <3> QED BY <2>1, <2>10, <3>1 DEF Task
  <2>13. Reads(g, task')
    <3>1. PICK b \in Seq(Records) : b = task'.batch /\ b = v.records
      BY <2>10, <2>12
    <3>1a. PICK e : e = task'.end /\ e = v.end
      BY <2>12
    <3>2. a + Len(b) - 1 = z - 1
      BY <2>10, <2>11, <3>1, <3>1a
    <3>3. b # <<>> => BatchAt(g, b, a) /\ a + Len(b) - 1 <= e
      BY <2>10, <3>1, <3>1a, <3>2
    <3>4. ASSUME NEW n \in g.offset + 1..e, g.lines[n] \in Records PROVE Holds(g, n, b)
      <4>1. n \in a..z - 1
        BY <2>10, <3>1, <3>1a, <3>4
      <4>2. b # <<>>
        <5>1. Len(b) > 0
          BY <2>10, <2>11, <3>1, <3>1a, <4>1
        <5> QED BY <5>1
      <4> QED BY <3>2, <3>3, <4>1, <4>2 DEF Holds
    <3> QED BY <2>10, <3>1, <3>1a, <3>3, <3>4 DEF Reads
  <2>14. Carried(task)' = <<>>
    BY <2>12 DEF Carried
  <2>15. Inv'
    BY <1>2, <1>3, <2>6, <2>12, <2>13, <2>14, ReadOnKeeps
  <2> QED BY <2>6, <2>15 DEF ReadOn
<1> QED BY <1>4, <1>5 DEF Replay

\* What was replayed leaves the log.
LEMMA CommitKeeps ==
  ASSUME Inv, Commit
  PROVE  Inv' /\ \A r \in Disk(files) : r \notin Disk(files') => rows[r] > 0
<1>1. Kept /\ Typed /\ LogInv /\ Sound(files, active, next) /\ TokenInv /\ Bounded
      /\ Covered(files, torn, rows, tokens)
  BY DEF Inv, Kept, LogInv, OnceInv
<1>2. /\ task.at = "commit" /\ task' = Idle
      /\ files' \in {files, committed(files[1], task.end) \o Tail(files)}
      /\ UNCHANGED <<channel, buf, drain, active, next, rows, tokens, history>>
  BY DEF Commit, table
<1>3. task'.at = "idle" /\ Carried(task)' = <<>> /\ Carried(task) = <<>> /\ task' \in Task
  <2>1. task'.at = "idle" /\ task' \in Task
    BY <1>2 DEF Idle, Task
  <2> QED BY <1>2, <2>1 DEF Carried
<1>4. /\ files # <<>> /\ 1 \in DOMAIN files /\ files[1] \in File /\ files \in Seq(File)
      /\ Reads(files[1], task) /\ task \in Task
  BY <1>1, <1>2 DEF LogInv, Sound, Typed
<1>5. PICK f, b, e : f = files[1] /\ b = task.batch /\ e = task.end
  OBVIOUS
<1>6. /\ b \in Seq(Records) /\ Len(b) <= BatchMax /\ e \in f.offset..Len(f.lines)
      /\ \A n \in f.offset + 1..e : f.lines[n] \in Records => Holds(f, n, b)
      /\ b # <<>> => \E p : BatchAt(f, b, p) /\ p + Len(b) - 1 <= e
  BY <1>4, <1>5 DEF Reads, Task
<1>7. \A r \in Range(b) : rows[r] > 0
  BY <1>1, <1>2, <1>5 DEF TokenInv
<1>8. \A n \in f.offset + 1..e : f.lines[n] \in Records => rows[f.lines[n]] > 0
  <2> SUFFICES ASSUME NEW n \in f.offset + 1..e, f.lines[n] \in Records PROVE f.lines[n] \in Range(b)
    BY <1>7
  <2>1. PICK p : BatchAt(f, b, p) /\ n \in p..p + Len(b) - 1
    BY <1>6 DEF Holds
  <2>2. p \in Nat /\ Len(b) \in Nat /\ f.lines[n] = b[n - p + 1]
    BY <1>4, <1>5, <1>6, <2>1, BatchLines
  <2>3. n - p + 1 \in 1..Len(b)
    BY <2>1, <2>2
  <2> QED BY <1>6, <2>2, <2>3, Elements
<1>9. \A c \in tokens : \A p : BatchAt(f, c, p) /\ p <= e => p + Len(c) - 1 <= e
  <2> SUFFICES ASSUME NEW c \in tokens, NEW p, BatchAt(f, c, p), p <= e PROVE p + Len(c) - 1 <= e
    OBVIOUS
  <2>1. c \in Seq(Records) /\ Len(c) <= BatchMax
    BY <1>1 DEF Typed, TokenInv
  <2>2. /\ p \in Nat /\ f.offset < p /\ Len(c) \in Nat /\ Len(c) > 0 /\ f.offset \in Nat
        /\ \A i \in p..p + Len(c) - 1 : f.lines[i] \in Records
    BY <1>4, <1>5, <2>1, BatchLines
  <2>3. p \in p..p + Len(c) - 1 /\ p \in f.offset + 1..e
    BY <1>6, <2>2
  <2>4. PICK q : BatchAt(f, b, q) /\ p \in q..q + Len(b) - 1
    BY <1>6, <2>2, <2>3 DEF Holds
  <2>5. p = q /\ c = b
    BY <1>4, <1>5, <1>6, <2>1, <2>3, <2>4, SameBatch
  <2>6. PICK l : BatchAt(f, b, l) /\ l + Len(b) - 1 <= e
    <3>1. b # <<>>
      BY <2>2, <2>5
    <3> QED BY <1>6, <3>1
  <2>7. l = q
    <3>1. /\ l \in Nat /\ q \in Nat /\ l \in Lines(f) /\ q \in Lines(f) /\ Len(b) \in Nat /\ Len(b) > 0
      <4>1. l \in Nat /\ q \in Nat /\ Len(b) \in Nat /\ Len(b) > 0
        BY <1>4, <1>5, <1>6, <2>4, <2>6, BatchLines
      <4> QED BY <2>4, <2>6, <4>1 DEF BatchAt
    <3>2. 1 \in 1..Len(b) /\ l + 1 - 1 = l /\ q + 1 - 1 = q
      BY <3>1
    <3>3. f.lines[l] = b[1] /\ f.lines[q] = b[1]
      <4>1. f.lines[l + 1 - 1] = b[1] /\ f.lines[q + 1 - 1] = b[1]
        BY <2>4, <2>6, <3>2 DEF BatchAt
      <4> QED BY <3>2, <4>1
    <3>4. b[1] \in Records
      BY <1>6, <3>2
    <3>5. Single(f)
      BY <1>1, <1>4, <1>5 DEF Sound, Unique
    <3> QED BY <3>1, <3>3, <3>4, <3>5 DEF Single
  <2> QED BY <2>5, <2>6, <2>7
<1>10. ReadOn
  <2>1. CASE files' = files
    BY <1>1, <2>1, NoneRead
  <2>2. CASE files' = committed(f, e) \o Tail(files) /\ e = Len(f.lines)
    <3>1. files' = Tail(files)
      <4>1. Tail(files) \in Seq(File)
        BY <1>4
      <4>2. files' = <<>> \o Tail(files)
        BY <2>2 DEF committed
      <4> QED BY <4>1, <4>2, ConcatEmptySeq
    <3>2. /\ Sound(files', active, next)
          /\ Disk(files') \subseteq Disk(files)
          /\ \A r \in Disk(files) : r \notin Disk(files') => r \in Pending(files[1])
          /\ \A t, v, w : Covered(files, t, v, w) => Covered(files', t, v, w)
      BY <1>1, <1>4, <3>1, DropSound
    <3>3. \A r \in Pending(f) : rows[r] > 0
      <4> SUFFICES ASSUME NEW r \in Pending(f) PROVE rows[r] > 0
        OBVIOUS
      <4>1. r \in Records /\ \E n \in f.offset + 1..Len(f.lines) : f.lines[n] = r
        BY DEF Pending, Lines
      <4> QED BY <1>8, <2>2, <4>1
    <3>4. Total(files') <= Total(files) /\ Named(files') <= Named(files)
      BY <1>4, <3>1, TailCounts
    <3>5. /\ Total(files) \in Nat /\ Named(files) \in Nat /\ Total(files') \in Nat /\ Named(files') \in Nat
      <4>1. files' \in Seq(File)
        BY <3>2 DEF Sound
      <4> QED BY <1>4, <4>1, Counts
    <3>6. Size = Total(files) /\ Segments = Named(files)
      BY <1>1, LogIs
    <3>7. /\ Total(files') <= Max({MaxSize, Len(Left)}) /\ Named(files') <= MaxSegments
      <4>1. MaxSegments \in Nat /\ Max({MaxSize, Len(Left)}) \in Nat
        BY MaxSizeLeft, LogAssumption
      <4>2. Total(files) <= Max({MaxSize, Len(Left)}) /\ Named(files) <= MaxSegments
        BY <1>1, <3>6 DEF Bounded
      <4> QED BY <3>4, <3>5, <4>1, <4>2
    <3> QED BY <1>1, <1>5, <3>2, <3>3, <3>7 DEF ReadOn
  <2>3. CASE files' = committed(f, e) \o Tail(files) /\ e # Len(f.lines)
    <3>1. PICK g : g = [f EXCEPT !.offset = e]
      OBVIOUS
    <3>2. g \in File
      <4>1. e \in Nat
        BY <1>4, <1>5, <1>6, FileParts
      <4> QED BY <1>4, <1>5, <3>1, <4>1 DEF File
    <3>3. files' = <<g>> \o Tail(files)
      BY <2>3, <3>1 DEF committed
    <3>4. files' = [files EXCEPT ![1] = g]
      <4>1. PICK l \in Nat : l = Len(files) /\ l > 0
        BY <1>4
      <4>2. /\ Tail(files) \in Seq(File) /\ Len(Tail(files)) = l - 1
            /\ \A i \in 1..l - 1 : Tail(files)[i] = files[i + 1]
        BY <1>4, <4>1
      <4>3. PICK x : x = [files EXCEPT ![1] = g]
        OBVIOUS
      <4>4. x \in Seq(File) /\ Len(x) = l /\ x[1] = g /\ \A i \in 2..l : x[i] = files[i]
        BY <1>4, <3>2, <4>1, <4>3
      <4>5. /\ files' \in Seq(File) /\ Len(files') = 1 + (l - 1)
            /\ \A i \in 1..1 + (l - 1) : files'[i] = IF i <= 1 THEN <<g>>[i] ELSE Tail(files)[i - 1]
        <5>1. <<g>> \in Seq(File) /\ Len(<<g>>) = 1
          BY <3>2
        <5> QED BY <3>3, <4>2, <5>1, ConcatProperties
      <4>6. \A i \in 1..l : files'[i] = x[i]
        <5> SUFFICES ASSUME NEW i \in 1..l PROVE files'[i] = x[i]
          OBVIOUS
        <5>1. CASE i = 1
          BY <4>1, <4>4, <4>5, <5>1
        <5>2. CASE i # 1
          <6>1. i \in 2..l /\ i - 1 \in 1..l - 1 /\ (i - 1) + 1 = i /\ i \in 1..1 + (l - 1) /\ ~(i <= 1)
            BY <5>2
          <6> QED BY <4>2, <4>4, <4>5, <6>1
        <5> QED BY <5>1, <5>2
      <4>7. Len(files') = l
        BY <4>1, <4>5
      <4> QED BY <4>3, <4>4, <4>5, <4>6, <4>7, SeqEqual
    <3>5. Skips(files, files', e)
      BY <1>5, <3>1, <3>4 DEF Skips
    <3>6. e \in files[1].offset..Len(files[1].lines)
      BY <1>5, <1>6
    <3> QED BY <1>1, <1>4, <1>5, <1>8, <1>9, <3>5, <3>6, SkipReads
  <2> QED BY <1>2, <1>5, <2>1, <2>2, <2>3
<1>11. Inv'
  BY <1>2, <1>3, <1>10, ReadOnKeeps
<1> QED BY <1>10, <1>11 DEF ReadOn
-----------------------------------------------------------------------------
(* The invariant holds.                                                    *)

\* The file an earlier version left, if any.
LEMMA LeftSound ==
  ASSUME Init
  PROVE  /\ Sound(files, active, next)
         /\ Disk(files) = Range(Left) \intersect Records
         /\ Total(files) = Len(Left) /\ Named(files) = 0
<1>1. /\ Left \in Seq(Records \union {Blank, Torn, Bad})
      /\ \A i \in DOMAIN Left : Left[i] = Torn => i = Len(Left)
      /\ \A i, j \in DOMAIN Left : Left[i] = Left[j] /\ Left[i] \in Records => i = j
  BY LogAssumption
<1>2. PICK l \in Nat : l = Len(Left) /\ DOMAIN Left = 1..l
  BY <1>1
<1>3. Left \in Seq(Line)
  BY <1>1 DEF Line
<1>4. active = 0 /\ next = 2
  BY DEF Init, Legacy
<1>5. Named(files) = 0
  <2>1. {files[i].id : i \in DOMAIN files} \ {Legacy} = {}
    <3>1. CASE Left = <<>>
      <4>1. DOMAIN files = {}
        BY <3>1 DEF Init
      <4> QED BY <4>1
    <3>2. CASE Left # <<>>
      <4>1. files = <<[id |-> Legacy, lines |-> Left, offset |-> 0]>>
        BY <3>2 DEF Init
      <4>2. \A i \in DOMAIN files : files[i].id = Legacy
        BY <4>1
      <4> QED BY <4>2
    <3> QED BY <3>1, <3>2
  <2> QED BY <2>1, FS_EmptySet DEF Named
<1>6. CASE Left = <<>>
  <2>1. files = <<>> /\ DOMAIN files = {} /\ files \in Seq(File)
    BY <1>6 DEF Init
  <2>2. Sound(files, active, next)
    BY <1>4, <2>1 DEF Sound, Ordered, Unique, Legacy
  <2>3. Disk(files) = {} /\ Range(Left) = {}
    BY <1>6, <2>1 DEF Disk, Range
  <2>4. Total(files) = 0
    <3>1. PICK h : h = [i \in DOMAIN files |-> Len(files[i].lines)]
      OBVIOUS
    <3>2. \A i \in 1..0 : h[i] = 0
      OBVIOUS
    <3>3. Sum(h, 0) = 0
      BY <3>2, SumZero
    <3> QED BY <2>1, <3>1, <3>3 DEF Total
  <2> QED BY <1>5, <1>6, <2>2, <2>3, <2>4
<1>7. CASE Left # <<>>
  <2>1. PICK f : f = [id |-> Legacy, lines |-> Left, offset |-> 0]
    OBVIOUS
  <2>2. files = <<f>>
    BY <1>7, <2>1 DEF Init
  <2>3. f \in File /\ f.id = 1 /\ f.lines = Left /\ f.offset = 0
    BY <1>3, <2>1 DEF File, Legacy
  <2>4. files \in Seq(File) /\ Len(files) = 1 /\ DOMAIN files = {1} /\ files[1] = f
    BY <2>2, <2>3
  <2>5. Lines(f) = 1..l
    BY <1>2, <2>3 DEF Lines
  <2>6. Readable(f, active)
    <3>1. \A n \in 1..l : Left[n] = Torn => n = l
      BY <1>1, <1>2
    <3> QED BY <1>2, <1>4, <2>3, <3>1 DEF Readable, Legacy
  <2>7. Single(f)
    BY <1>1, <1>2, <2>3, <2>5 DEF Single
  <2>8. Sound(files, active, next)
    BY <1>4, <2>3, <2>4, <2>6, <2>7 DEF Sound, Ordered, Unique, Legacy
  <2>9. Pending(f) = Range(Left) \intersect Records
    <3>1. Range(Left) = {Left[i] : i \in 1..l}
      BY <1>2, <1>3, Elements
    <3> QED BY <2>3, <2>5, <3>1 DEF Pending
  <2>10. Disk(files) = Range(Left) \intersect Records
    BY <2>4, <2>9 DEF Disk
  <2>11. Total(files) = l
    <3>1. PICK h : h = [i \in DOMAIN files |-> Len(files[i].lines)]
      OBVIOUS
    <3>2. h[1] = l
      BY <1>2, <2>3, <2>4, <3>1
    <3>3. \A i \in 1..1 : i # 1 => h[i] = 0
      OBVIOUS
    <3>4. Sum(h, 1) = l
      BY <3>2, <3>3, SumSingle
    <3> QED BY <2>4, <3>1, <3>4 DEF Total
  <2> QED BY <1>2, <1>5, <2>8, <2>10, <2>11
<1> QED BY <1>6, <1>7

\* It holds at first.
LEMMA InitInv ==
  ASSUME Init
  PROVE  Inv
<1>1. /\ Sound(files, active, next)
      /\ Disk(files) = Range(Left) \intersect Records
      /\ Total(files) = Len(Left) /\ Named(files) = 0
  BY LeftSound
<1>2. /\ channel = <<>> /\ buf = <<>> /\ task = Idle /\ drain = "no" /\ tokens = {}
      /\ rows = [r \in Records |-> 0] /\ fresh = Arrivals /\ owed = {}
  BY DEF Init
<1>3. Range(<<>>) = {} /\ IsInjective(<<>>) /\ Len(<<>>) = 0 /\ <<>> \in Seq(Records)
  BY DEF Range, IsInjective
<1>4. task.at = "idle" /\ task \in Task /\ Carried(task) = <<>>
  <2>1. task.at = "idle" /\ task \in Task
    BY <1>2 DEF Idle, Task
  <2> QED BY <2>1 DEF Carried
<1>5. InMemory = {}
  BY <1>2, <1>3, <1>4 DEF InMemory
<1>6. Arrivals \in Seq(Records) /\ IsInjective(Arrivals) /\ Range(Left) \intersect Range(Arrivals) = {}
  BY LogAssumption
<1>7. OnDisk = Disk(files) /\ Size = Total(files) /\ Segments = Named(files)
  BY <1>1, LogIs
<1>8. Typed
  BY <1>1, <1>2, <1>3, <1>4, <1>6 DEF Typed, Sound
<1>9. MemoryInv
  <2>1. Apart(Carried(task), buf, channel, fresh)
    BY <1>2, <1>3, <1>4, <1>6 DEF Apart
  <2> QED BY <1>2, <1>3, <1>4, <2>1, LineKinds DEF MemoryInv
<1>10. LogInv
  BY <1>1, <1>2, <1>4, <1>5, <1>6 DEF LogInv
<1>11. Bounded
  <2>1. MaxSegments \in Nat
    BY LogAssumption
  <2> QED BY <1>1, <1>7, <2>1, MaxSizeLeft DEF Bounded
<1>12. TokenInv
  BY <1>2, <1>4 DEF TokenInv
<1>13. RecordsAccounted
  BY <1>1, <1>2, <1>7 DEF RecordsAccounted, Records
<1>14. OnceInv
  <2>1. \A r \in Records : rows[r] = 0
    BY <1>2
  <2>2. InsertedOnce
    BY <2>1 DEF InsertedOnce
  <2>3. Covered(files, torn, rows, tokens)
    BY <2>1 DEF Covered, Covers
  <2> QED BY <2>1, <2>2, <2>3 DEF OnceInv
<1>15. DrainInv
  BY <1>2 DEF DrainInv
<1> QED BY <1>8, <1>9, <1>10, <1>11, <1>12, <1>13, <1>14, <1>15 DEF Inv, Kept

\* A step that changes nothing the invariant speaks of.
LEMMA StutterKeeps ==
  ASSUME Inv, UNCHANGED vars
  PROVE  Inv'
<1>1. Typed /\ MemoryInv /\ LogInv /\ Bounded /\ TokenInv /\ RecordsAccounted /\ OnceInv /\ DrainInv
  BY DEF Inv, Kept
<1>2. UNCHANGED <<channel, buf, task, drain, active, files, next, rows, tokens, fresh, dropped, lost,
                  torn, owed>>
  BY DEF vars
<1>3. Carried(task)' = Carried(task)
  BY <1>2 DEF Carried
<1>4. MemoryInv'
  BY <1>1, <1>2, <1>3 DEF MemoryInv
<1>5. MemoryStep
  BY <1>1, <1>2, <1>4 DEF MemoryStep, Typed
<1>6. DrainInv'
  BY <1>1, <1>2 DEF DrainInv
<1> QED BY <1>5, <1>6, MemoryStepKeeps DEF Inv

\* Every step keeps it.
LEMMA StepInv ==
  ASSUME Inv, [Next]_vars
  PROVE  Inv'
<1>1. CASE Record BY <1>1, RecordKeeps
<1>2. CASE Receive BY <1>2, ReceiveKeeps
<1>3. CASE Tick BY <1>3, TickKeeps
<1>4. CASE Shutdown \/ BackoffOver \/ ReplayBackoffOver BY <1>4, UnmovedKeeps
<1>5. CASE Drain BY <1>5, DrainKeeps
<1>6. CASE InsertBatch BY <1>6, InsertBatchKeeps
<1>7. CASE Spill BY <1>7, SpillKeeps
<1>8. CASE Replay BY <1>8, ReplayKeeps
<1>9. CASE InsertReplayed BY <1>9, InsertReplayedKeeps
<1>10. CASE Commit BY <1>10, CommitKeeps
<1>11. CASE Ends BY <1>11, EndsKeeps
<1>12. CASE UNCHANGED vars BY <1>12, StutterKeeps
<1> QED
  BY <1>1, <1>2, <1>3, <1>4, <1>5, <1>6, <1>7, <1>8, <1>9, <1>10, <1>11, <1>12 DEF Next

\* The inductive invariant, for any records, file left, limits and failures.
THEOREM LogInvariant == Spec => []Inv
<1>1. Init => Inv
  BY InitInv
<1>2. Inv /\ [Next]_vars => Inv'
  BY StepInv
<1> QED BY <1>1, <1>2, PTL DEF Spec

\* The log can always be read: the files that append, commit and crashes leave are in
\* order, hold no more than they may, and no write goes on after a broken one.
THEOREM LogReadable == Spec => []FilesWellFormed
<1>1. Inv => FilesWellFormed
  <2> SUFFICES ASSUME Inv PROVE FilesWellFormed
    OBVIOUS
  <2>1. /\ Sound(files, active, next) /\ Bounded
        /\ task.at \in {"replay", "commit"} => files # <<>> /\ Reads(files[1], task)
    BY DEF Inv, Kept, LogInv
  <2>2. \A i, j \in DOMAIN files : i < j => files[i].id < files[j].id
    BY <2>1 DEF Sound, Ordered
  <2>3. ASSUME NEW i \in DOMAIN files
        PROVE  /\ files[i].offset \in 0..Len(files[i].lines)
               /\ \A n \in DOMAIN files[i].lines :
                    /\ files[i].lines[n] = Torn => n = Len(files[i].lines) /\ files[i].id # active
                    /\ files[i].lines[n] = Bad => files[i].id = Legacy
    <3>1. files[i] \in File /\ Readable(files[i], active)
      BY <2>1 DEF Sound
    <3>2. files[i].offset \in Nat /\ Len(files[i].lines) \in Nat
      BY <3>1, FileParts
    <3>3. files[i].offset \in 0..Len(files[i].lines)
      BY <3>1, <3>2 DEF Readable
    <3> QED BY <3>1, <3>3, LineKinds DEF Readable
  <2>4. task.at \in {"replay", "commit"} => files # <<>> /\ task.end <= Len(files[1].lines)
    <3> SUFFICES ASSUME task.at \in {"replay", "commit"}
                 PROVE  files # <<>> /\ task.end <= Len(files[1].lines)
      OBVIOUS
    <3>1. files[1] \in File /\ task.end \in files[1].offset..Len(files[1].lines)
      BY <2>1 DEF Sound, Reads
    <3>2. files[1].offset \in Nat /\ Len(files[1].lines) \in Nat
      BY <3>1, FileParts
    <3> QED BY <2>1, <3>1, <3>2
  <2> QED BY <2>1, <2>2, <2>3, <2>4 DEF FilesWellFormed, Bounded
<1> QED BY <1>1, LogInvariant, PTL

\* No record goes without a trace, whatever fails or ends in between.
THEOREM AllAccounted == Spec => []RecordsAccounted
<1>1. Inv => RecordsAccounted
  BY DEF Inv, Kept
<1> QED BY <1>1, LogInvariant, PTL

\* A record is in the table at most once, unless its batch was spilled in part: a batch
\* that is retried or replayed has the token it was inserted with.
THEOREM NoneTwice == Spec => []InsertedOnce
<1>1. Inv => InsertedOnce
  BY DEF Inv, Kept, OnceInv
<1> QED BY <1>1, LogInvariant, PTL

\* What a shutdown found in memory is out of it when its last flush is over:
\* inserted, spilled, or counted as dropped.
THEOREM AllDrained == Spec => []DrainLeavesNothing
<1>1. Inv => DrainLeavesNothing
  <2> SUFFICES ASSUME Inv, drain = "last", task = Idle PROVE owed \intersect InMemory = {}
    BY DEF DrainLeavesNothing
  <2>1. InMemory = Range(channel) \union Range(buf)
    BY DEF Idle, InMemory
  <2> QED BY <2>1 DEF Inv, DrainInv
<1> QED BY <1>1, LogInvariant, PTL

\* A record leaves the log only when it is in the table.
THEOREM NoneLeaveEarly == Spec => SpillKept
<1>1. Inv /\ Inv' /\ [Next]_vars => [\A r \in OnDisk : r \notin OnDisk' => rows[r] > 0]_vars
  <2> SUFFICES ASSUME Inv, Inv', Next PROVE \A r \in OnDisk : r \notin OnDisk' => rows[r] > 0
    BY DEF vars
  <2>1. OnDisk = Disk(files)
    BY LogIs DEF Inv, Kept, LogInv
  <2>2. OnDisk' = Disk(files')
    BY LogWillBe DEF Inv, Kept, LogInv
  <2>3. CASE Spill BY <2>1, <2>2, <2>3, SpillKeeps
  <2>4. CASE Ends BY <2>1, <2>2, <2>4, EndsKeeps
  <2>5. CASE Replay BY <2>1, <2>2, <2>5, ReplayKeeps
  <2>6. CASE Commit BY <2>1, <2>2, <2>6, CommitKeeps
  <2>7. CASE UNCHANGED files BY <2>1, <2>2, <2>7
  <2>8. UNCHANGED files \/ Spill \/ Ends \/ Replay \/ Commit
    BY DEF Next, Record, Receive, Tick, Shutdown, Drain, InsertBatch, InsertReplayed, BackoffOver,
           ReplayBackoffOver, log
  <2> QED BY <2>3, <2>4, <2>5, <2>6, <2>7, <2>8
<1> QED BY <1>1, LogInvariant, PTL DEF Spec, SpillKept

=============================================================================
