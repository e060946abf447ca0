-------------------------- MODULE CapturePathProofs --------------------------
(***************************************************************************)
(* Proofs about CapturePath for captures of any length, with any events    *)
(* the constructors make, along paths of any length.                       *)
(***************************************************************************)
EXTENDS CapturePath, FiniteSetTheorems, SequenceTheorems, TLAPS

-----------------------------------------------------------------------------
(* Selection: ranks count the positions kept without a gap.                 *)

\* A later position has a higher rank.
LEMMA RankGrows ==
  ASSUME NEW n \in Nat, NEW S \in SUBSET (1 .. n), NEW i \in S, NEW j \in S, i < j
  PROVE  Rank(S, i) < Rank(S, j)
<1> DEFINE A == {x \in S : x <= i}
           B == {x \in S : x <= j}
<1>1. IsFiniteSet(S)
  <2>1. IsFiniteSet(1 .. n)
    BY FS_Interval
  <2> QED
    BY <2>1, FS_Subset
<1>2. IsFiniteSet(B)
  BY <1>1, FS_Subset
<1>3. A \in SUBSET B /\ j \in B /\ j \notin A
  <2>1. i \in Int /\ j \in Int /\ \A x \in S : x \in Int
    OBVIOUS
  <2>2. \A x \in S : x <= i => x <= j
    BY <2>1
  <2>3. A \subseteq B
    BY <2>2
  <2>4. j \in B /\ j \notin A
    BY <2>1
  <2> QED
    BY <2>3, <2>4
<1>4. /\ Cardinality(A) <= Cardinality(B)
      /\ Cardinality(A) # Cardinality(B)
      /\ IsFiniteSet(A)
  <2> HIDE DEF A, B
  <2> QED
    BY <1>2, <1>3, FS_Subset
<1>5. Cardinality(A) \in Nat /\ Cardinality(B) \in Nat
  BY <1>2, <1>4, FS_CardinalityType
<1>6. Rank(S, i) = Cardinality(A) /\ Rank(S, j) = Cardinality(B)
  BY DEF Rank
<1> HIDE DEF A, B
<1> QED
  BY <1>4, <1>5, <1>6

\* Ranks are the numbers from 1 to the number of positions, each of one position.
LEMMA Ranks ==
  ASSUME NEW n \in Nat, NEW S \in SUBSET (1 .. n)
  PROVE  /\ Cardinality(S) \in 0 .. n
         /\ \A i \in S : Rank(S, i) \in 1 .. Cardinality(S) /\ Nth(S, Rank(S, i)) = i
         /\ \A k \in 1 .. Cardinality(S) : Nth(S, k) \in S /\ Rank(S, Nth(S, k)) = k
<1> DEFINE N == Cardinality(S)
           rank == [i \in S |-> Rank(S, i)]
<1>1. IsFiniteSet(S) /\ N \in Nat /\ N <= n
  <2>1. IsFiniteSet(1 .. n) /\ Cardinality(1 .. n) = n
    BY FS_Interval
  <2> QED
    BY <2>1, FS_Subset, FS_CardinalityType
<1>2. ASSUME NEW i \in S PROVE Rank(S, i) \in 1 .. N
  <2> DEFINE A == {j \in S : j <= i}
  <2>1. IsFiniteSet(A) /\ Cardinality(A) <= N
    BY <1>1, FS_Subset
  <2>2. i \in A
    OBVIOUS
  <2>3. Cardinality(A) \in Nat /\ Cardinality(A) # 0
    <3> HIDE DEF A
    <3> QED
      BY <2>1, <2>2, FS_CardinalityType, FS_EmptySet
  <2>4. Rank(S, i) = Cardinality(A)
    BY DEF Rank
  <2> HIDE DEF A, N
  <2> QED
    BY <1>1, <2>1, <2>3, <2>4
<1>3. ASSUME NEW i \in S, NEW j \in S, Rank(S, i) = Rank(S, j) PROVE i = j
  <2>1. i \in Nat /\ j \in Nat
    OBVIOUS
  <2>2. Rank(S, i) \in Nat /\ Rank(S, j) \in Nat
    BY <1>1, <1>2
  <2> QED
    <3>1. i < j => Rank(S, i) < Rank(S, j)
      BY RankGrows
    <3>2. j < i => Rank(S, j) < Rank(S, i)
      BY RankGrows
    <3> QED
      BY <1>3, <2>1, <2>2, <3>1, <3>2
<1>4. rank \in Injection(S, 1 .. N)
  BY <1>2, <1>3, Zenon DEF Injection, IsInjective
<1>5. IsFiniteSet(1 .. N) /\ Cardinality(1 .. N) = N
  BY <1>1, FS_Interval
<1>6. rank \in Surjection(S, 1 .. N)
  <2> HIDE DEF rank
  <2> QED
    BY <1>1, <1>4, <1>5, FS_Injection
<1>7. \A k \in 1 .. N : \E i \in S : Rank(S, i) = k
  BY <1>6 DEF Surjection
<1>8. \A k \in 1 .. N : Nth(S, k) \in S /\ Rank(S, Nth(S, k)) = k
  BY <1>7 DEF Nth
<1>9. \A i \in S : Nth(S, Rank(S, i)) = i
  BY <1>2, <1>3, <1>8
<1> QED
  BY <1>1, <1>2, <1>8, <1>9

\* What is selected stays in order.
LEMMA NthGrows ==
  ASSUME NEW n \in Nat, NEW S \in SUBSET (1 .. n),
         NEW k \in 1 .. Cardinality(S), NEW l \in 1 .. Cardinality(S), k < l
  PROVE  Nth(S, k) < Nth(S, l)
<1>1. /\ Nth(S, k) \in S /\ Rank(S, Nth(S, k)) = k
      /\ Nth(S, l) \in S /\ Rank(S, Nth(S, l)) = l
  BY Ranks
<1>2. Nth(S, k) \in Nat /\ Nth(S, l) \in Nat
  <2>1. \A i \in S : i \in Nat
    OBVIOUS
  <2> QED
    BY <1>1, <2>1
<1>3. k \in Nat /\ l \in Nat
  BY Ranks
<1>4. ASSUME Nth(S, l) < Nth(S, k) PROVE FALSE
  <2>1. Rank(S, Nth(S, l)) < Rank(S, Nth(S, k))
    BY <1>1, <1>4, RankGrows
  <2> QED
    BY <1>1, <1>3, <2>1
<1>5. Nth(S, k) # Nth(S, l)
  BY <1>1, <1>3
<1> QED
  BY <1>2, <1>4, <1>5

\* Who keeps every position keeps the sequence.
LEMMA NthOfAll ==
  ASSUME NEW n \in Nat, NEW k \in 1 .. n
  PROVE  Cardinality(1 .. n) = n /\ Nth(1 .. n, k) = k
<1>1. Cardinality(1 .. n) = n
  BY FS_Interval
<1>2. Rank(1 .. n, k) = k
  <2>1. {j \in 1 .. n : j <= k} = 1 .. k
    OBVIOUS
  <2>2. Cardinality(1 .. k) = k
    BY FS_Interval
  <2> QED
    BY <2>1, <2>2 DEF Rank
<1>3. k \in 1 .. n => Nth(1 .. n, Rank(1 .. n, k)) = k
  BY Ranks
<1> QED
  BY <1>1, <1>2, <1>3

-----------------------------------------------------------------------------
(* Rounding of times.                                                       *)

LEMMA Quotient ==
  ASSUME NEW a \in Int, NEW u \in Nat \ {0}
  PROVE  /\ a \div u \in Int
         /\ (a \div u) * u \in Int
         /\ (a \div u) * u <= a
         /\ a < (a \div u) * u + u
BY SMT

\* A rounded time is at most half a unit away.
LEMMA NearestIsNear ==
  ASSUME NEW t \in Int, NEW u \in Nat \ {0}
  PROVE  /\ Nearest(t, u) \in Int
         /\ 2 * (Nearest(t, u) - t) <= u
         /\ 2 * (t - Nearest(t, u)) <= u
<1> DEFINE h == u \div 2
           q == ((t + h) \div u) * u
<1>1. h \in Nat /\ 2 * h <= u /\ u <= 2 * h + 1
  OBVIOUS
<1>2. q \in Int /\ q <= t + h /\ t + h < q + u
  <2> HIDE DEF h
  <2> QED
    BY <1>1, Quotient
<1>3. Nearest(t, u) = q
  BY DEF Nearest
<1> HIDE DEF h, q
<1> QED
  BY <1>1, <1>2, <1>3

\* Times do not change places when they are rounded.
LEMMA NearestGrows ==
  ASSUME NEW s \in Int, NEW t \in Int, NEW u \in Nat \ {0}, s <= t
  PROVE  Nearest(s, u) <= Nearest(t, u)
<1> DEFINE h == u \div 2
           p == (s + h) \div u
           q == (t + h) \div u
<1>1. h \in Nat
  OBVIOUS
<1>2. /\ p \in Int /\ p * u \in Int /\ p * u <= s + h /\ s + h < p * u + u
      /\ q \in Int /\ q * u \in Int /\ q * u <= t + h /\ t + h < q * u + u
  <2> HIDE DEF h
  <2> QED
    BY <1>1, Quotient
<1>3. Nearest(s, u) = p * u /\ Nearest(t, u) = q * u
  BY DEF Nearest
<1> HIDE DEF h, p, q
<1>4. p * u < q * u + u
  BY <1>1, <1>2
<1>5. ASSUME p >= q + 1 PROVE FALSE
  <2>1. p * u >= (q + 1) * u
    BY <1>2, <1>5
  <2>2. (q + 1) * u = q * u + u
    BY <1>2
  <2> QED
    BY <1>2, <1>4, <2>1, <2>2
<1>6. p <= q
  BY <1>2, <1>5
<1>7. p * u <= q * u
  BY <1>2, <1>6
<1> QED
  BY <1>3, <1>7

\* The printed microseconds survive the two roundings of a reader, and the
\* rounding to f64 of the writer after it.
LEMMA AscTimeSettles ==
  ASSUME NEW t \in Int
  PROVE  AscTime(t) \in Int /\ AscTime(AscTime(t)) = AscTime(t)
<1> USE UlpAssumption DEF Microsecond
<1> DEFINE printed == Nearest(Nearest(t, SecondsUlp), Microsecond)
           parsed == Nearest(printed, SecondsUlp)
           read == Nearest(parsed, NanosUlp)
           again == Nearest(read, SecondsUlp)
           k == (Nearest(t, SecondsUlp) + 500) \div 1000
<1>1. Nearest(t, SecondsUlp) \in Int
  BY NearestIsNear
<1>2. k \in Int /\ printed = k * 1000
  BY <1>1 DEF Nearest
<1>3. printed \in Int
  BY <1>2
<1>4. parsed \in Int /\ 2 * (parsed - printed) <= SecondsUlp /\ 2 * (printed - parsed) <= SecondsUlp
  <2> HIDE DEF printed
  <2> QED
    BY <1>3, NearestIsNear
<1>5. read \in Int /\ 2 * (read - parsed) <= NanosUlp /\ 2 * (parsed - read) <= NanosUlp
  <2> HIDE DEF parsed
  <2> QED
    BY <1>4, NearestIsNear, ZenonT(60)
<1>6. again \in Int /\ 2 * (again - read) <= SecondsUlp /\ 2 * (read - again) <= SecondsUlp
  <2> HIDE DEF read
  <2> QED
    BY <1>5, NearestIsNear
<1>7. AscTime(t) = read
  BY DEF AscTime
<1>8. Nearest(again, Microsecond) = printed
  <2> HIDE DEF printed, parsed, read, again, k
  <2>1. 2 * (again - printed) < 1000 /\ 2 * (printed - again) < 1000
    BY <1>3, <1>4, <1>5, <1>6, PrecisionAssumption
  <2>2. (again + 500) \div 1000 = k
    BY <1>2, <1>6, <2>1
  <2> QED
    BY <1>2, <1>6, <2>2 DEF Nearest
<1>9. AscTime(read) = Nearest(Nearest(Nearest(again, Microsecond), SecondsUlp), NanosUlp)
  BY DEF AscTime
<1> QED
  BY <1>5, <1>7, <1>8, <1>9

LEMMA AscTimeGrows ==
  ASSUME NEW s \in Int, NEW t \in Int, s <= t
  PROVE  AscTime(s) <= AscTime(t)
<1> USE UlpAssumption DEF Microsecond
<1>1. ASSUME NEW x \in Int, NEW y \in Int, x <= y, NEW u \in {SecondsUlp, NanosUlp, 1000}
      PROVE  /\ Nearest(x, u) \in Int /\ Nearest(y, u) \in Int
             /\ Nearest(x, u) <= Nearest(y, u)
  <2>1. u \in Nat \ {0}
    OBVIOUS
  <2> QED
    BY <1>1, <2>1, NearestIsNear, NearestGrows
<1> DEFINE a(x) == Nearest(x, SecondsUlp)
           b(x) == Nearest(a(x), 1000)
           c(x) == Nearest(b(x), SecondsUlp)
<1>2. a(s) \in Int /\ a(t) \in Int /\ a(s) <= a(t)
  BY <1>1
<1> HIDE DEF a
<1>3. b(s) \in Int /\ b(t) \in Int /\ b(s) <= b(t)
  BY <1>1, <1>2
<1> HIDE DEF b
<1>4. c(s) \in Int /\ c(t) \in Int /\ c(s) <= c(t)
  BY <1>1, <1>3
<1> HIDE DEF c
<1>5. Nearest(c(s), NanosUlp) <= Nearest(c(t), NanosUlp)
  BY <1>1, <1>4
<1>6. \A x : AscTime(x) = Nearest(c(x), NanosUlp)
  BY DEF AscTime, a, b, c
<1> QED
  BY <1>5, <1>6

-----------------------------------------------------------------------------
(* Frames and events.                                                       *)

\* The constructor accepts what is as long as it should be.
LEMMA NewFrameAccepts ==
  ASSUME NEW id \in CanIds, NEW class \in Classes, NEW dlc \in Nat, NEW fd \in BOOLEAN,
         NEW flags \in FdFlags, dlc <= MaxPayload(fd)
  PROVE  /\ NewFrame(id, class, dlc, fd, flags)
              = [id |-> id, class |-> class, dlc |-> dlc, fd |-> fd, fd_flags |-> flags]
         /\ NewFrame(id, class, dlc, fd, flags) \in CanFrames
<1>1. id # Invalid
  <2>1. DOMAIN id = {"raw", "extended"}
    BY DEF CanIds
  <2>2. DOMAIN Invalid = {"invalid"}
    BY DEF Invalid
  <2> QED
    BY <2>1, <2>2
<1>2. dlc <= MaxPayload(fd) <=> ~(dlc > MaxPayload(fd))
  BY DEF MaxPayload
<1>3. NewFrame(id, class, dlc, fd, flags)
        = [id |-> id, class |-> class, dlc |-> dlc, fd |-> fd, fd_flags |-> flags]
  BY <1>1, <1>2 DEF NewFrame
<1>4. [id |-> id, class |-> class, dlc |-> dlc, fd |-> fd, fd_flags |-> flags] \in CanFrames
  BY DEF CanFrames
<1> QED
  BY <1>3, <1>4

LEMMA FrameParts ==
  ASSUME NEW f \in CanFrames
  PROVE  /\ f = [id |-> f.id, class |-> f.class, dlc |-> f.dlc, fd |-> f.fd,
                 fd_flags |-> f.fd_flags]
         /\ f.id \in CanIds /\ f.class \in Classes /\ f.dlc \in Nat /\ f.fd \in BOOLEAN
         /\ f.fd_flags \in FdFlags /\ f.dlc <= MaxPayload(f.fd)
         /\ f # Invalid
<1>1. /\ f \in [id : CanIds, class : Classes, dlc : Nat, fd : BOOLEAN, fd_flags : FdFlags]
      /\ f.dlc <= MaxPayload(f.fd)
  BY DEF CanFrames
<1>2. f # Invalid
  <2>1. DOMAIN f = {"id", "class", "dlc", "fd", "fd_flags"}
    BY <1>1
  <2>2. DOMAIN Invalid = {"invalid"}
    BY DEF Invalid
  <2> QED
    BY <2>1, <2>2
<1>3. f = [id |-> f.id, class |-> f.class, dlc |-> f.dlc, fd |-> f.fd, fd_flags |-> f.fd_flags]
  BY <1>1
<1> QED
  BY <1>1, <1>2, <1>3

LEMMA EventParts ==
  ASSUME NEW e \in Events
  PROVE  /\ e = Event(e.serial, e.time, e.name, e.index, e.direction, e.frame, e.annotated)
         /\ e.serial \in Nat /\ e.time \in Int /\ e.name \in Names
         /\ e.index \in Nat \cup {NoIndex} /\ e.direction \in {"Rx", "Tx"}
         /\ e.frame \in CanFrames /\ e.annotated \in BOOLEAN
BY DEF Events, Event

\* f is e after a conversion or on another socket: the same event, of the same
\* identifier and class, with no more data.
Heir(e, f) ==
  /\ f \in Events
  /\ f.serial = e.serial
  /\ f.frame.id = e.frame.id
  /\ f.frame.class = e.frame.class
  /\ f.frame.dlc <= e.frame.dlc

\* What is read of a line, of which n bytes are left.
Line(e, n) == AscEvent(e.serial, [AscLine(e) EXCEPT !.bytes = n])

LEMMA LineParts ==
  ASSUME NEW e \in Events, AscKeeps(e), NEW n \in 0 .. e.frame.dlc
  PROVE  /\ Heir(e, Line(e, n))
         /\ Line(e, n).direction = e.direction
         /\ Line(e, n).time = AscTime(e.time)
         /\ Line(e, n).name = IF e.name = NoName THEN "can0" ELSE e.name
         /\ Line(e, n).index = NoIndex
         /\ ~Line(e, n).annotated
         /\ Line(e, n).frame
              = [id |-> e.frame.id, class |-> e.frame.class,
                 dlc |-> IF e.frame.class = "remote" THEN 0 ELSE n,
                 fd |-> e.frame.class = "data" /\ e.frame.fd, fd_flags |-> {}]
<1> DEFINE class == e.frame.class
           fd == class = "data" /\ e.frame.fd
           dlc == IF class = "remote" THEN 0 ELSE n
           line == [AscLine(e) EXCEPT !.bytes = n]
           frame == [id |-> e.frame.id, class |-> class, dlc |-> dlc, fd |-> fd, fd_flags |-> {}]
<1>1. /\ e.frame.id \in CanIds /\ class \in Classes /\ e.frame.dlc \in Nat
      /\ e.frame.fd \in BOOLEAN /\ e.frame.dlc <= MaxPayload(e.frame.fd)
      /\ e.serial \in Nat /\ e.time \in Int /\ e.name \in Names
      /\ e.direction \in {"Rx", "Tx"}
  BY EventParts, FrameParts
<1>2. class \in {"data", "remote"}
  BY <1>1 DEF AscKeeps, Classes
<1>3. /\ line.time = AscTime(e.time) /\ line.id = e.frame.id /\ line.direction = e.direction
      /\ line.name = IF e.name = NoName THEN "can0" ELSE e.name
      /\ line.kind = IF class = "remote" THEN "r" ELSE IF fd THEN "FD" ELSE "d"
      /\ line.dlc = e.frame.dlc /\ line.bytes = n
  BY DEF AscLine
<1>4. /\ line.kind = "r" <=> class = "remote"
      /\ line.kind = "FD" <=> fd
  BY <1>2, <1>3
<1>5. AtMost(line.bytes, line.dlc) = n
  BY <1>1, <1>3 DEF AtMost
<1>6. /\ dlc \in Nat /\ dlc <= e.frame.dlc /\ dlc <= MaxPayload(fd)
      /\ {} \in FdFlags
  <2>1. n \in Nat /\ n <= e.frame.dlc
    BY <1>1
  <2>2. dlc <= MaxPayload(fd)
    BY <1>1, <1>2, <2>1 DEF MaxPayload
  <2> QED
    BY <1>1, <2>1, <2>2 DEF FdFlags
<1>7. /\ NewFrame(e.frame.id, class, dlc, fd, {}) = frame
      /\ frame \in CanFrames
  <2>1. fd \in BOOLEAN
    OBVIOUS
  <2> HIDE DEF class, fd, dlc
  <2>2. NewFrame(e.frame.id, class, dlc, fd, {}) = frame
    BY <1>1, <1>6, <2>1, NewFrameAccepts
  <2>3. NewFrame(e.frame.id, class, dlc, fd, {}) \in CanFrames
    BY <1>1, <1>6, <2>1, NewFrameAccepts
  <2> QED
    BY <2>2, <2>3
<1>8. Line(e, n) = Event(e.serial, AscTime(e.time), line.name, NoIndex, e.direction, frame, FALSE)
  <2>1. /\ (IF line.kind = "r" THEN "remote" ELSE "data") = class
        /\ (IF line.kind = "r" THEN 0 ELSE AtMost(line.bytes, line.dlc)) = dlc
        /\ (line.kind = "FD") = fd
    BY <1>2, <1>4, <1>5
  <2>2. Line(e, n) = Event(e.serial, line.time, line.name, NoIndex, line.direction,
                           NewFrame(line.id, class, dlc, fd, {}), FALSE)
    <3>1. Line(e, n) = Event(e.serial, line.time, line.name, NoIndex, line.direction,
                             NewFrame(line.id, IF line.kind = "r" THEN "remote" ELSE "data",
                                      IF line.kind = "r" THEN 0 ELSE AtMost(line.bytes, line.dlc),
                                      line.kind = "FD", {}), FALSE)
      BY DEF Line, AscEvent
    <3> HIDE DEF class, dlc, fd, line
    <3> QED
      BY <2>1, <3>1, Zenon
  <2> HIDE DEF class, dlc, fd, line, frame
  <2> QED
    BY <1>3, <1>7, <2>2
<1>9. AscTime(e.time) \in Int /\ line.name \in Names
  <2>1. AscTime(e.time) \in Int
    BY <1>1, AscTimeSettles
  <2>2. "can0" \in Names
    BY NamesAssumption
  <2>3. line.name \in {e.name, "can0"}
    BY <1>3
  <2> HIDE DEF line
  <2> QED
    BY <1>1, <2>1, <2>2, <2>3
<1>10. Line(e, n) \in Events
  <2> HIDE DEF class, dlc, fd, line, frame
  <2> QED
    BY <1>1, <1>7, <1>8, <1>9 DEF Event, Events
<1>11. /\ Line(e, n).serial = e.serial /\ Line(e, n).frame = frame
       /\ Line(e, n).time = AscTime(e.time) /\ Line(e, n).name = line.name
       /\ Line(e, n).index = NoIndex /\ Line(e, n).direction = e.direction
       /\ ~Line(e, n).annotated
  <2> HIDE DEF class, dlc, fd, line, frame
  <2> QED
    BY <1>8 DEF Event
<1>12. /\ frame.id = e.frame.id /\ frame.class = class /\ frame.dlc = dlc
  OBVIOUS
<1>13. Heir(e, Line(e, n))
  <2> HIDE DEF dlc, fd, line, frame
  <2> QED
    BY <1>6, <1>10, <1>11, <1>12 DEF Heir
<1> QED
  BY <1>3, <1>11, <1>13

LEMMA WholeLine ==
  ASSUME NEW e \in Events
  PROVE  ReadBack("asc", e) = Line(e, e.frame.dlc)
<1>1. [AscLine(e) EXCEPT !.bytes = e.frame.dlc] = AscLine(e)
  BY DEF AscLine
<1> QED
  BY <1>1 DEF ReadBack, Line

\* What is read of a BLF message: eight bytes at most, and what a payload of 33
\* bytes or more does to the bit count, which is a byte, changes nothing.
LEMMA BlfParts ==
  ASSUME NEW e \in Events
  PROVE  LET f == ReadBack("blf", e)
         IN  /\ Heir(e, f)
             /\ f.direction = e.direction
             /\ f.time = e.time
             /\ f.name = NoName
             /\ f.index = BlfChannel(e.index)
             /\ ~f.annotated
             /\ f.frame = [id |-> e.frame.id, class |-> e.frame.class,
                           dlc |-> AtMost(e.frame.dlc, 8), fd |-> FALSE, fd_flags |-> {}]
<1> DEFINE f == ReadBack("blf", e)
           m == BlfMessage(e)
           dlc == AtMost(e.frame.dlc, 8)
           bytes == IF m.dlc >= m.bit_count \div 8 THEN m.dlc ELSE m.bit_count \div 8
           frame == [id |-> e.frame.id, class |-> e.frame.class, dlc |-> dlc,
                     fd |-> FALSE, fd_flags |-> {}]
<1>1. /\ e.frame.id \in CanIds /\ e.frame.class \in Classes /\ e.frame.dlc \in Nat
      /\ e.frame.fd \in BOOLEAN /\ e.frame.dlc <= MaxPayload(e.frame.fd)
      /\ e.serial \in Nat /\ e.time \in Int /\ e.index \in Nat \cup {NoIndex}
      /\ e.direction \in {"Rx", "Tx"}
  BY EventParts, FrameParts
<1>2. e.frame.dlc <= 64
  BY <1>1 DEF MaxPayload
<1>3. /\ m.time = e.time /\ m.channel = BlfChannel(e.index) /\ m.id = e.frame.id
      /\ m.class = e.frame.class /\ m.direction = e.direction
      /\ m.dlc = e.frame.dlc /\ m.bit_count = (e.frame.dlc * 8) % 256
  BY <1>1, <1>2 DEF BlfMessage, AtMost
<1>4. bytes = e.frame.dlc
  <2>1. ((e.frame.dlc * 8) % 256) \div 8 <= e.frame.dlc
    BY <1>1, <1>2
  <2> QED
    BY <1>3, <2>1
<1>5. /\ dlc \in Nat /\ dlc <= e.frame.dlc /\ dlc <= MaxPayload(FALSE) /\ {} \in FdFlags
  BY <1>1 DEF AtMost, MaxPayload, FdFlags
<1>6. NewFrame(e.frame.id, e.frame.class, dlc, FALSE, {}) = frame /\ frame \in CanFrames
  <2> HIDE DEF dlc
  <2>1. NewFrame(e.frame.id, e.frame.class, dlc, FALSE, {}) = frame
    BY <1>1, <1>5, NewFrameAccepts, ZenonT(60)
  <2>2. NewFrame(e.frame.id, e.frame.class, dlc, FALSE, {}) \in CanFrames
    BY <1>1, <1>5, NewFrameAccepts
  <2> QED
    BY <2>1, <2>2
<1>7. f = Event(e.serial, m.time, NoName, m.channel, m.direction,
                NewFrame(m.id, m.class, AtMost(bytes, 8), FALSE, {}), FALSE)
  BY DEF ReadBack, BlfEvent
<1> HIDE DEF f, m, bytes, dlc
<1>8. f = Event(e.serial, e.time, NoName, BlfChannel(e.index), e.direction, frame, FALSE)
  <2>1. AtMost(bytes, 8) = dlc
    BY <1>4 DEF dlc
  <2> QED
    BY <1>3, <1>6, <1>7, <2>1
<1>9. BlfChannel(e.index) \in Nat /\ NoName \in Names
  BY <1>1, NamesAssumption DEF BlfChannel, NoIndex
<1>10. /\ frame.id = e.frame.id /\ frame.class = e.frame.class /\ frame.dlc = dlc
  OBVIOUS
<1> HIDE DEF frame
<1>11. /\ f.serial = e.serial /\ f.frame = frame /\ f.time = e.time /\ f.name = NoName
       /\ f.index = BlfChannel(e.index) /\ f.direction = e.direction /\ ~f.annotated
  BY <1>8 DEF Event
<1>12. f \in Events
  BY <1>1, <1>6, <1>8, <1>9 DEF Event, Events
<1>13. Heir(e, f)
  BY <1>5, <1>10, <1>11, <1>12 DEF Heir
<1> QED
  BY <1>11, <1>13 DEF f, frame, dlc

\* What is read of an MF4 record: the frame as it was.
LEMMA Mf4Parts ==
  ASSUME NEW e \in Events
  PROVE  LET f == ReadBack("mf4", e)
         IN  /\ Heir(e, f)
             /\ f.direction = e.direction
             /\ f.time = e.time
             /\ f.name = IF e.name \in LongNames THEN Cut(e.name) ELSE e.name
             /\ f.index = IF e.index = NoIndex THEN 0 ELSE e.index
             /\ ~f.annotated
             /\ f.frame = e.frame
<1> DEFINE f == ReadBack("mf4", e)
           r == Mf4Record(e)
           name == IF e.name \in LongNames THEN Cut(e.name) ELSE e.name
           index == IF e.index = NoIndex THEN 0 ELSE e.index
<1>1. /\ e.frame \in CanFrames
      /\ e.serial \in Nat /\ e.time \in Int /\ e.index \in Nat \cup {NoIndex}
      /\ e.direction \in {"Rx", "Tx"} /\ e.name \in Names
  BY EventParts
<1>2. /\ e.frame.id \in CanIds /\ e.frame.class \in Classes /\ e.frame.dlc \in Nat
      /\ e.frame.fd \in BOOLEAN /\ e.frame.fd_flags \in FdFlags
      /\ e.frame.dlc <= MaxPayload(e.frame.fd)
      /\ e.frame = [id |-> e.frame.id, class |-> e.frame.class, dlc |-> e.frame.dlc,
                    fd |-> e.frame.fd, fd_flags |-> e.frame.fd_flags]
  BY <1>1, FrameParts
<1>3. AtMost(e.frame.dlc, 64) = e.frame.dlc
  BY <1>2 DEF AtMost, MaxPayload
<1>4. /\ r.time = e.time /\ r.id = e.frame.id /\ r.class = e.frame.class
      /\ r.direction = e.direction /\ r.fd = e.frame.fd /\ r.fd_flags = e.frame.fd_flags
      /\ r.ifindex = index /\ r.data_len = e.frame.dlc /\ r.name = name
  BY <1>3 DEF Mf4Record
<1>5. NewFrame(e.frame.id, e.frame.class, e.frame.dlc, e.frame.fd, e.frame.fd_flags) = e.frame
  BY <1>2, NewFrameAccepts
<1>6. f = Event(e.serial, r.time, r.name, r.ifindex, r.direction,
                NewFrame(r.id, r.class, r.data_len, r.fd, r.fd_flags), FALSE)
  BY DEF ReadBack, Mf4Event
<1>7. index \in Nat /\ name \in Names
  BY <1>1, NamesAssumption, CutAssumption
<1> HIDE DEF f, r, name, index
<1>8. f = Event(e.serial, e.time, name, index, e.direction, e.frame, FALSE)
  BY <1>4, <1>5, <1>6
<1>9. /\ f.serial = e.serial /\ f.frame = e.frame /\ f.time = e.time /\ f.name = name
      /\ f.index = index /\ f.direction = e.direction /\ ~f.annotated
  BY <1>8 DEF Event
<1>10. f \in Events
  BY <1>1, <1>7, <1>8 DEF Event, Events
<1>11. Heir(e, f)
  BY <1>2, <1>9, <1>10 DEF Heir
<1> QED
  BY <1>9, <1>11 DEF f, name, index

LEMMA Remainder ==
  ASSUME NEW n \in Nat
  PROVE  \A x \in 0 .. n : x % (n + 1) = x /\ ~(x > n)
OBVIOUS

\* An identifier keeps its value and its width in the word of the kernel.
LEMMA IdSurvives ==
  ASSUME NEW f \in CanFrames
  PROVE  IdOf(CanIdFromFrame(f)) = f.id /\ ClassOf(CanIdFromFrame(f)) = f.class
<1>1. f.id \in CanIds /\ f.class \in {"data", "remote", "error"}
  BY FrameParts DEF Classes
<1> DEFINE word == CanIdFromFrame(f)
<1>2. /\ word.value = f.id.raw
      /\ "EFF" \in word.flags <=> f.id.extended
      /\ "RTR" \in word.flags <=> f.class = "remote"
      /\ "ERR" \in word.flags <=> f.class = "error"
  BY DEF CanIdFromFrame
<1> HIDE DEF word
<1>3. ClassOf(word) = f.class
  BY <1>1, <1>2 DEF ClassOf
<1>4. MaxStandard \in Nat /\ MaxExtended \in Nat
  BY SMT DEF MaxStandard, MaxExtended
<1>5. CASE f.id \in [raw : 0 .. MaxStandard, extended : {FALSE}]
  <2>1. f.id.raw \in 0 .. MaxStandard /\ ~f.id.extended
        /\ f.id = [raw |-> f.id.raw, extended |-> FALSE]
    BY <1>5
  <2>2. \A x \in 0 .. MaxStandard : x % (MaxStandard + 1) = x /\ ~(x > MaxStandard)
    BY <1>4, Remainder
  <2>3. f.id.raw % (MaxStandard + 1) = f.id.raw /\ ~(f.id.raw > MaxStandard)
    BY <2>1, <2>2
  <2> QED
    BY <1>2, <1>3, <2>1, <2>3 DEF IdOf, Standard, word
<1>6. CASE f.id \in [raw : 0 .. MaxExtended, extended : {TRUE}]
  <2>1. f.id.raw \in 0 .. MaxExtended /\ f.id.extended
        /\ f.id = [raw |-> f.id.raw, extended |-> TRUE]
    BY <1>6
  <2>2. \A x \in 0 .. MaxExtended : x % (MaxExtended + 1) = x /\ ~(x > MaxExtended)
    BY <1>4, Remainder
  <2>3. f.id.raw % (MaxExtended + 1) = f.id.raw /\ ~(f.id.raw > MaxExtended)
    BY <2>1, <2>2
  <2> QED
    BY <1>2, <1>3, <2>1, <2>3 DEF IdOf, Extended, word
<1> QED
  BY <1>1, <1>5, <1>6 DEF CanIds

\* The struct of the kernel has room for everything but the FD flags of a
\* classic frame.
LEMMA NativeRoundTrip ==
  ASSUME NEW f \in CanFrames
  PROVE  /\ FrameOfNative(NativeOf(f))
              = [f EXCEPT !.fd_flags = IF f.fd THEN @ ELSE {}]
         /\ FrameOfNative(NativeOf(f)) \in CanFrames
<1> DEFINE n == NativeOf(f)
           flags == IF f.fd THEN f.fd_flags ELSE {}
           held == MaxPayload(f.fd)
<1>1. /\ f = [id |-> f.id, class |-> f.class, dlc |-> f.dlc, fd |-> f.fd,
              fd_flags |-> f.fd_flags]
      /\ f.id \in CanIds /\ f.class \in Classes /\ f.dlc \in Nat /\ f.fd \in BOOLEAN
      /\ f.fd_flags \in FdFlags /\ f.dlc <= held
  BY FrameParts
<1>2. /\ n.size = IF f.fd THEN "fd" ELSE "classic"
      /\ n.can_id = CanIdFromFrame(f) /\ n.len = f.dlc /\ n.flags = flags
  BY DEF NativeOf
<1>3. (n.size = "fd") = f.fd
  BY <1>1, <1>2
<1>4. FrameOfNative(n)
        = NewFrame(IdOf(n.can_id), ClassOf(n.can_id),
                   IF n.len <= MaxPayload(n.size = "fd") THEN n.len ELSE MaxPayload(n.size = "fd"),
                   n.size = "fd", IF n.size = "fd" THEN n.flags ELSE {})
  BY DEF FrameOfNative
<1>5. flags \in FdFlags
  BY <1>1 DEF FdFlags
<1>6. (IF f.fd THEN flags ELSE {}) = flags
  OBVIOUS
<1>7. IdOf(n.can_id) = f.id /\ ClassOf(n.can_id) = f.class
  BY <1>2, IdSurvives
<1>8. (IF n.len <= held THEN n.len ELSE held) = f.dlc
  BY <1>1, <1>2
<1>9. [f EXCEPT !.fd_flags = IF f.fd THEN @ ELSE {}]
        = [id |-> f.id, class |-> f.class, dlc |-> f.dlc, fd |-> f.fd, fd_flags |-> flags]
  BY <1>1
<1>10. FrameOfNative(n) = NewFrame(f.id, f.class, f.dlc, f.fd, flags)
  <2> HIDE DEF n, flags
  <2>1. (IF n.size = "fd" THEN n.flags ELSE {}) = flags
    BY <1>2, <1>3, <1>6
  <2> QED
    BY <1>3, <1>4, <1>7, <1>8, <2>1, Zenon
<1> HIDE DEF n, flags
<1>11. /\ NewFrame(f.id, f.class, f.dlc, f.fd, flags)
            = [id |-> f.id, class |-> f.class, dlc |-> f.dlc, fd |-> f.fd, fd_flags |-> flags]
       /\ NewFrame(f.id, f.class, f.dlc, f.fd, flags) \in CanFrames
  BY <1>1, <1>5, NewFrameAccepts
<1> QED
  BY <1>9, <1>10, <1>11 DEF n, flags

-----------------------------------------------------------------------------
(* The inductive invariant.                                                 *)

Stations == {"asc", "blf", "mf4", "torn", "bus"}

PathType ==
  /\ original \in Captures
  /\ capture \in Seq(Events)
  /\ path \in Seq(Stations)
  /\ Len(capture) <= Len(original)
  /\ \A i \in DOMAIN capture : capture[i].serial \in DOMAIN original

\* The events of the last file are those that another pass through the same
\* format leaves alone.
Settled ==
  path # << >> /\ Last(path) \in Formats =>
    \A i \in DOMAIN capture :
      /\ ReadBack(Last(path), capture[i]) = capture[i]
      /\ Last(path) = "asc" => AscKeeps(capture[i])

PathInv == PathType /\ Survivors /\ TimeOrder /\ Mf4Exact /\ Settled

\* What each step does, whichever it is: event k of the new capture stems from
\* event pos[k] of the old one.
Inherits(pos) ==
  /\ capture' \in Seq(Events)
  /\ pos \in [DOMAIN capture' -> DOMAIN capture]
  /\ \A k, l \in DOMAIN capture' : k < l => pos[k] < pos[l]
  /\ \A k \in DOMAIN capture' :
       /\ Heir(capture[pos[k]], capture'[k])
       /\ "bus" \notin Range(path') => capture'[k].direction = capture[pos[k]].direction
  /\ \A k, l \in DOMAIN capture' :
       k < l /\ capture[pos[k]].time <= capture[pos[l]].time
         => capture'[k].time <= capture'[l].time
  /\ \A i \in DOMAIN capture :
       \/ \E k \in DOMAIN capture' : pos[k] = i
       \/ capture[i].frame.class = "error" /\ Range(path') \cap TextOrBus # {}
       \/ "torn" \in Range(path') /\ \A k \in DOMAIN capture' : pos[k] < i

\* Every original is a capture whose events are numbered.
LEMMA Originals ==
  ASSUME PathType
  PROVE  /\ original \in Seq(Events)
         /\ \A n \in DOMAIN original : original[n] \in Events /\ original[n].serial = n
BY CapturesAssumption DEF PathType

\* The formats a path has been through.
LEMMA PathGrows ==
  ASSUME PathType, NEW x \in Stations, path' = Append(path, x)
  PROVE  /\ path' \in Seq(Stations)
         /\ path' # << >>
         /\ Last(path') = x
         /\ Range(path') = Range(path) \cup {x}
<1>1. path \in Seq(Stations) /\ Len(path) \in Nat /\ DOMAIN path = 1 .. Len(path)
  BY LenProperties DEF PathType
<1>2. /\ path' \in Seq(Stations) /\ path' # << >> /\ Len(path') = Len(path) + 1
      /\ \A i \in 1 .. Len(path) : path'[i] = path[i]
      /\ path'[Len(path) + 1] = x
  BY <1>1, AppendProperties
<1>3. Last(path') = x
  BY <1>2 DEF Last
<1>4. DOMAIN path' = 1 .. Len(path) + 1
  BY <1>2, LenProperties
<1>5. Range(path') = Range(path) \cup {x}
  <2>1. ASSUME NEW y \in Range(path') PROVE y \in Range(path) \cup {x}
    <3>1. PICK i \in 1 .. Len(path) + 1 : y = path'[i]
      BY <1>4 DEF Range
    <3>2. i \in 1 .. Len(path) \/ i = Len(path) + 1
      BY <1>1
    <3> QED
      BY <1>1, <1>2, <3>1, <3>2 DEF Range
  <2>2. ASSUME NEW y \in Range(path) PROVE y \in Range(path')
    <3>1. PICK i \in 1 .. Len(path) : y = path[i]
      BY <1>1 DEF Range
    <3>2. i \in 1 .. Len(path) + 1
      BY <1>1
    <3> QED
      BY <1>2, <1>4, <3>1, <3>2 DEF Range
  <2>3. x \in Range(path')
    <3>1. Len(path) + 1 \in 1 .. Len(path) + 1
      BY <1>1
    <3> QED
      BY <1>2, <1>4, <3>1 DEF Range
  <2> QED
    BY <2>1, <2>2, <2>3
<1> QED
  BY <1>2, <1>3, <1>5

\* A step that selects in order does not make a capture longer.
LEMMA NoLonger ==
  ASSUME NEW m \in Nat, NEW n \in Nat, NEW pos \in [1 .. m -> 1 .. n],
         \A k, l \in 1 .. m : k < l => pos[k] < pos[l]
  PROVE  m <= n
<1>1. \A k, l \in 1 .. m : pos[k] = pos[l] => k = l
  <2> SUFFICES ASSUME NEW k \in 1 .. m, NEW l \in 1 .. m, pos[k] = pos[l], k # l PROVE FALSE
    OBVIOUS
  <2>1. k < l \/ l < k
    OBVIOUS
  <2>2. pos[k] \in Int /\ pos[l] \in Int
    OBVIOUS
  <2> QED
    BY <2>1, <2>2
<1>2. pos \in Injection(1 .. m, 1 .. n)
  BY <1>1 DEF Injection, IsInjective
<1>3. /\ IsFiniteSet(1 .. n) /\ Cardinality(1 .. n) = n
      /\ Cardinality(1 .. m) = m
  BY FS_Interval
<1> QED
  BY <1>2, <1>3, FS_Injection

\* What heirs have in common with the original, over one more step.
LEMMA HeirsKeep ==
  ASSUME PathType, Survivors, TimeOrder, original' = original,
         NEW x \in Stations, path' = Append(path, x),
         NEW pos, Inherits(pos)
  PROVE  PathType' /\ Survivors' /\ TimeOrder'
<1>1. /\ original \in Seq(Events)
      /\ \A n \in DOMAIN original : original[n] \in Events /\ original[n].serial = n
  BY Originals
<1>2. /\ path' \in Seq(Stations)
      /\ Range(path') = Range(path) \cup {x}
  BY PathGrows
<1>3. /\ Len(capture) \in Nat /\ DOMAIN capture = 1 .. Len(capture)
      /\ Len(capture') \in Nat /\ DOMAIN capture' = 1 .. Len(capture')
      /\ Len(original) \in Nat
  BY <1>1, LenProperties DEF PathType, Inherits
<1>4. ASSUME NEW k \in DOMAIN capture'
      PROVE  /\ pos[k] \in DOMAIN capture
             /\ capture[pos[k]] \in Events /\ capture'[k] \in Events
             /\ capture'[k].serial = capture[pos[k]].serial
             /\ capture'[k].serial \in DOMAIN original
             /\ capture'[k].frame.id = capture[pos[k]].frame.id
             /\ capture'[k].frame.class = capture[pos[k]].frame.class
             /\ capture'[k].frame.dlc <= capture[pos[k]].frame.dlc
  BY <1>3, <1>4 DEF Inherits, Heir, PathType
<1>5. PathType'
  <2>1. Len(capture') <= Len(capture)
    <3>1. /\ pos \in [1 .. Len(capture') -> 1 .. Len(capture)]
          /\ \A k, l \in 1 .. Len(capture') : k < l => pos[k] < pos[l]
      BY <1>3 DEF Inherits
    <3> QED
      BY <1>3, <3>1, NoLonger
  <2>2. Len(capture') <= Len(original)
    BY <1>3, <2>1 DEF PathType
  <2>3. \A k \in DOMAIN capture' : capture'[k].serial \in DOMAIN original
    BY <1>4
  <2> QED
    BY <1>2, <2>2, <2>3 DEF PathType, Inherits
<1>6. \A k, l \in DOMAIN capture' : k < l => capture'[k].serial < capture'[l].serial
  <2> SUFFICES ASSUME NEW k \in DOMAIN capture', NEW l \in DOMAIN capture', k < l
               PROVE  capture'[k].serial < capture'[l].serial
    OBVIOUS
  <2>1. pos[k] < pos[l]
    BY DEF Inherits
  <2>2. capture[pos[k]].serial < capture[pos[l]].serial
    BY <1>4, <2>1 DEF Survivors
  <2> QED
    BY <1>4, <2>2
<1>7. ASSUME NEW k \in DOMAIN capture', NEW e, e = original[capture'[k].serial]
      PROVE  /\ capture'[k].frame # Invalid
             /\ capture'[k].frame.id = e.frame.id
             /\ capture'[k].frame.class = e.frame.class
             /\ capture'[k].frame.dlc <= e.frame.dlc
             /\ "bus" \notin Range(path') => capture'[k].direction = e.direction
  <2>1. pos[k] \in DOMAIN capture /\ e = original[capture[pos[k]].serial]
    BY <1>4, <1>7
  <2>2. /\ capture[pos[k]].frame.id = e.frame.id
        /\ capture[pos[k]].frame.class = e.frame.class
        /\ capture[pos[k]].frame.dlc <= e.frame.dlc
        /\ "bus" \notin Range(path) => capture[pos[k]].direction = e.direction
    BY <2>1 DEF Survivors
  <2>3. /\ capture'[k].frame.dlc \in Nat /\ capture[pos[k]].frame.dlc \in Nat /\ e.frame.dlc \in Nat
        /\ capture'[k].frame # Invalid
    <3>1. e \in Events
      BY <1>1, <1>4, <1>7
    <3> QED
      BY <1>4, <3>1, EventParts, FrameParts
  <2>4. "bus" \notin Range(path') => capture'[k].direction = e.direction
    BY <1>2, <2>2 DEF Inherits
  <2>5. capture'[k].frame.dlc <= e.frame.dlc
    <3>1. capture'[k].frame.dlc <= capture[pos[k]].frame.dlc
      BY <1>4
    <3> QED
      BY <2>2, <2>3, <3>1
  <2> QED
    BY <1>4, <2>2, <2>3, <2>4, <2>5
<1>8. ASSUME NEW n \in DOMAIN original
      PROVE  \/ \E k \in DOMAIN capture' : capture'[k].serial = n
             \/ original[n].frame.class = "error" /\ Range(path') \cap TextOrBus # {}
             \/ "torn" \in Range(path') /\ \A k \in DOMAIN capture' : capture'[k].serial < n
  <2>1. CASE \E i \in DOMAIN capture : capture[i].serial = n
    <3>1. PICK i \in DOMAIN capture : capture[i].serial = n
      BY <2>1
    <3>2. CASE \E k \in DOMAIN capture' : pos[k] = i
      BY <1>4, <3>1, <3>2
    <3>3. CASE capture[i].frame.class = "error" /\ Range(path') \cap TextOrBus # {}
      BY <3>1, <3>3 DEF Survivors
    <3>4. CASE "torn" \in Range(path') /\ \A k \in DOMAIN capture' : pos[k] < i
      <4> SUFFICES ASSUME NEW k \in DOMAIN capture' PROVE capture'[k].serial < n
        BY <3>4
      <4>1. capture[pos[k]].serial < capture[i].serial
        BY <1>4, <3>4 DEF Survivors
      <4> QED
        BY <1>4, <3>1, <4>1
    <3> QED
      BY <3>2, <3>3, <3>4 DEF Inherits
  <2>2. CASE original[n].frame.class = "error" /\ Range(path) \cap TextOrBus # {}
    BY <1>2, <2>2
  <2>3. CASE "torn" \in Range(path) /\ \A i \in DOMAIN capture : capture[i].serial < n
    BY <1>2, <1>4, <2>3
  <2> QED
    BY <2>1, <2>2, <2>3 DEF Survivors
<1>9. Survivors'
  BY <1>6, <1>7, <1>8 DEF Survivors
<1>10. TimeOrder'
  <2> SUFFICES ASSUME NEW k \in DOMAIN capture', NEW l \in DOMAIN capture', k < l,
                      original[capture'[k].serial].time <= original[capture'[l].serial].time
               PROVE  capture'[k].time <= capture'[l].time
    BY DEF TimeOrder
  <2>1. pos[k] < pos[l]
    BY DEF Inherits
  <2>2. original[capture[pos[k]].serial].time <= original[capture[pos[l]].serial].time
    BY <1>4
  <2>3. capture[pos[k]].time <= capture[pos[l]].time
    BY <1>4, <2>1, <2>2 DEF TimeOrder
  <2> QED
    BY <2>3 DEF Inherits
<1> QED
  BY <1>5, <1>9, <1>10

-----------------------------------------------------------------------------
(* The steps.                                                               *)

\* Who keeps everything keeps the capture.
LEMMA AtAll ==
  ASSUME PathType
  PROVE  At(capture, DOMAIN capture) = capture
<1>1. /\ Len(capture) \in Nat /\ DOMAIN capture = 1 .. Len(capture)
      /\ capture = [i \in DOMAIN capture |-> capture[i]]
  BY LenProperties DEF PathType
<1>2. PICK n \in Nat : DOMAIN capture = 1 .. n
  BY <1>1
<1>3. /\ Cardinality(DOMAIN capture) = n
      /\ \A k \in 1 .. n : Nth(DOMAIN capture, k) = k
  <2>1. Cardinality(1 .. n) = n
    BY FS_Interval
  <2>2. \A k \in 1 .. n : Nth(1 .. n, k) = k
    BY NthOfAll
  <2> QED
    BY <1>2, <2>1, <2>2
<1> QED
  BY <1>1, <1>2, <1>3 DEF At

\* What is kept of a capture, and what became of it, if something did.
Follows(K, k) ==
  /\ Heir(capture[Nth(K, k)], capture'[k])
  /\ "bus" \notin Range(path') => capture'[k].direction = capture[Nth(K, k)].direction

LEMMA SelectionInherits ==
  ASSUME PathType, NEW K \in SUBSET DOMAIN capture,
         NEW g, capture' = g, DOMAIN g = 1 .. Cardinality(K),
         g = [k \in 1 .. Cardinality(K) |-> g[k]],
         \A k \in 1 .. Cardinality(K) : Follows(K, k),
         \A k, l \in 1 .. Cardinality(K) :
           k < l /\ capture[Nth(K, k)].time <= capture[Nth(K, l)].time => g[k].time <= g[l].time,
         \A i \in DOMAIN capture \ K :
           \/ capture[i].frame.class = "error" /\ Range(path') \cap TextOrBus # {}
           \/ "torn" \in Range(path') /\ \A j \in K : j < i
  PROVE  \E pos : Inherits(pos)
<1> DEFINE N == Cardinality(K)
           pos == [k \in 1 .. N |-> Nth(K, k)]
<1>1. Len(capture) \in Nat /\ DOMAIN capture = 1 .. Len(capture)
  BY LenProperties DEF PathType
<1>2. /\ N \in Nat
      /\ \A i \in K : Rank(K, i) \in 1 .. N /\ Nth(K, Rank(K, i)) = i
      /\ \A k \in 1 .. N : Nth(K, k) \in K
      /\ \A k, l \in 1 .. N : k < l => Nth(K, k) < Nth(K, l)
  BY <1>1, Ranks, NthGrows
<1> HIDE DEF N
<1>3. g \in Seq(Events)
  <2>1. \A k \in 1 .. N : g[k] \in Events
    BY DEF Heir, Follows, N
  <2>2. g \in [1 .. N -> Events]
    BY <2>1 DEF N
  <2> QED
    BY <1>2, <2>2, SeqDef
<1>4. pos \in [DOMAIN capture' -> DOMAIN capture]
  BY <1>2 DEF N
<1>5. \A k, l \in DOMAIN capture' : k < l => pos[k] < pos[l]
  BY <1>2 DEF N
<1>6. \A i \in DOMAIN capture :
        \/ \E k \in DOMAIN capture' : pos[k] = i
        \/ capture[i].frame.class = "error" /\ Range(path') \cap TextOrBus # {}
        \/ "torn" \in Range(path') /\ \A k \in DOMAIN capture' : pos[k] < i
  <2> TAKE i \in DOMAIN capture
  <2>1. CASE i \in K
    <3>1. Rank(K, i) \in DOMAIN capture' /\ pos[Rank(K, i)] = i
      BY <1>2, <2>1 DEF N
    <3> QED
      BY <3>1
  <2>2. CASE i \notin K
    <3>1. \A k \in DOMAIN capture' : pos[k] \in K
      BY <1>2 DEF N
    <3> QED
      BY <2>2, <3>1
  <2> QED
    BY <2>1, <2>2
<1>7. \A k \in DOMAIN capture' :
        /\ Heir(capture[pos[k]], capture'[k])
        /\ "bus" \notin Range(path') => capture'[k].direction = capture[pos[k]].direction
  BY DEF Follows, N
<1>8. \A k, l \in DOMAIN capture' :
        k < l /\ capture[pos[k]].time <= capture[pos[l]].time
          => capture'[k].time <= capture'[l].time
  BY DEF N
<1>9. Inherits(pos)
  <2> HIDE DEF pos
  <2> QED
    BY <1>3, <1>4, <1>5, <1>6, <1>7, <1>8 DEF Inherits
<1> QED
  BY <1>9

\* A file in ASC.
LEMMA AscInherits ==
  ASSUME PathType, Rewrite("asc")
  PROVE  /\ \E pos : Inherits(pos)
         /\ \A k \in DOMAIN capture' :
              \E e \in Events : AscKeeps(e) /\ capture'[k] = Line(e, e.frame.dlc)
<1> DEFINE K == AscKept(capture)
           N == Cardinality(K)
           g == [k \in 1 .. N |-> ReadBack("asc", capture[Nth(K, k)])]
<1>1. /\ Len(capture) \in Nat /\ DOMAIN capture = 1 .. Len(capture)
      /\ \A i \in DOMAIN capture : capture[i] \in Events
  BY LenProperties DEF PathType
<1>2. K \in SUBSET DOMAIN capture /\ \A i \in K : AscKeeps(capture[i])
  BY DEF AscKept
<1>3. \A k \in 1 .. N : Nth(K, k) \in K
  <2> HIDE DEF K
  <2> QED
    BY <1>1, <1>2, Ranks
<1>4. capture' = g
  <2>1. WrittenEvents("asc", capture) = [k \in 1 .. N |-> capture[Nth(K, k)]]
    BY DEF WrittenEvents, At
  <2>2. capture' = [k \in DOMAIN WrittenEvents("asc", capture)
                      |-> ReadBack("asc", WrittenEvents("asc", capture)[k])]
    BY DEF Rewrite
  <2> HIDE DEF K, N
  <2> QED
    BY <2>1, <2>2
<1>5. "asc" \in Range(path')
  BY PathGrows DEF Stations, Rewrite
<1> HIDE DEF K
<1>6. ASSUME NEW k \in 1 .. N
      PROVE  LET e == capture[Nth(K, k)]
             IN  /\ e \in Events /\ AscKeeps(e) /\ e.frame.dlc \in 0 .. e.frame.dlc
                 /\ g[k] = Line(e, e.frame.dlc)
  <2>1. capture[Nth(K, k)] \in Events /\ AscKeeps(capture[Nth(K, k)])
    BY <1>1, <1>2, <1>3
  <2>2. g[k] = Line(capture[Nth(K, k)], capture[Nth(K, k)].frame.dlc)
    BY <2>1, WholeLine
  <2>3. capture[Nth(K, k)].frame.dlc \in Nat
    BY <2>1, EventParts, FrameParts
  <2> QED
    BY <2>1, <2>2, <2>3
<1>7. \A k \in 1 .. N :
        /\ Heir(capture[Nth(K, k)], g[k])
        /\ g[k].direction = capture[Nth(K, k)].direction
        /\ g[k].time = AscTime(capture[Nth(K, k)].time)
        /\ capture[Nth(K, k)].time \in Int
  <2> TAKE k \in 1 .. N
  <2>1. PICK e \in Events : e = capture[Nth(K, k)] /\ AscKeeps(e) /\ g[k] = Line(e, e.frame.dlc)
    BY <1>6
  <2>2. e.frame.dlc \in 0 .. e.frame.dlc
    BY <1>6, <2>1
  <2>3. /\ Heir(e, Line(e, e.frame.dlc))
        /\ Line(e, e.frame.dlc).direction = e.direction
        /\ Line(e, e.frame.dlc).time = AscTime(e.time)
    BY <2>1, <2>2, LineParts
  <2>4. e.time \in Int
    BY EventParts
  <2> QED
    BY <2>1, <2>3, <2>4
<1> HIDE DEF g
<1>8. DOMAIN g = 1 .. N /\ g = [k \in 1 .. N |-> g[k]]
  BY DEF g
<1>9. \A k \in 1 .. N : Follows(K, k)
  BY <1>4, <1>7 DEF Follows
<1>10. \A k, l \in 1 .. N :
         k < l /\ capture[Nth(K, k)].time <= capture[Nth(K, l)].time => g[k].time <= g[l].time
  BY <1>7, AscTimeGrows
<1>11. \A i \in DOMAIN capture \ K :
         capture[i].frame.class = "error" /\ Range(path') \cap TextOrBus # {}
  BY <1>5 DEF K, AscKept, AscKeeps, TextOrBus
<1>12. \E pos : Inherits(pos)
  BY <1>2, <1>4, <1>8, <1>9, <1>10, <1>11, SelectionInherits
<1> QED
  BY <1>4, <1>6, <1>8, <1>12

\* A file in one of the formats that keep every event.
LEMMA BinaryInherits ==
  ASSUME PathType, NEW format \in {"blf", "mf4"}, Rewrite(format)
  PROVE  /\ \E pos : Inherits(pos)
         /\ DOMAIN capture' = DOMAIN capture
         /\ \A k \in DOMAIN capture :
              capture[k] \in Events /\ capture'[k] = ReadBack(format, capture[k])
<1> DEFINE K == DOMAIN capture
           N == Cardinality(K)
           g == [k \in DOMAIN capture |-> ReadBack(format, capture[k])]
<1>1. /\ Len(capture) \in Nat /\ DOMAIN capture = 1 .. Len(capture)
      /\ \A i \in DOMAIN capture : capture[i] \in Events
  BY LenProperties DEF PathType
<1>2. K = 1 .. N /\ \A k \in 1 .. N : Nth(K, k) = k
  <2>1. PICK n \in Nat : K = 1 .. n
    BY <1>1
  <2>2. N = n
    BY <2>1, FS_Interval
  <2> HIDE DEF K, N
  <2> QED
    BY <2>1, <2>2, NthOfAll
<1>3. capture' = g
  BY DEF Rewrite, WrittenEvents
<1>4. \A k \in 1 .. N :
        /\ capture[k] \in Events
        /\ Heir(capture[k], g[k])
        /\ g[k].direction = capture[k].direction
        /\ g[k].time = capture[k].time
  <2> TAKE k \in 1 .. N
  <2>1. capture[k] \in Events /\ g[k] = ReadBack(format, capture[k])
    <3>1. k \in DOMAIN capture
      BY <1>2
    <3> QED
      BY <1>1, <3>1
  <2>2. \A e \in Events :
          /\ Heir(e, ReadBack("blf", e))
          /\ ReadBack("blf", e).direction = e.direction
          /\ ReadBack("blf", e).time = e.time
    BY BlfParts
  <2>3. \A e \in Events :
          /\ Heir(e, ReadBack("mf4", e))
          /\ ReadBack("mf4", e).direction = e.direction
          /\ ReadBack("mf4", e).time = e.time
    BY Mf4Parts
  <2> HIDE DEF g, K, N
  <2>4. CASE format = "blf"
    BY <2>1, <2>2, <2>4
  <2>5. CASE format = "mf4"
    BY <2>1, <2>3, <2>5
  <2> QED
    BY <2>4, <2>5
<1>5. DOMAIN g = K /\ g = [k \in K |-> g[k]]
  OBVIOUS
<1>6. \A k \in DOMAIN capture : capture[k] \in Events /\ g[k] = ReadBack(format, capture[k])
  BY <1>1
<1> HIDE DEF g, K, N
<1>7. \A k \in 1 .. N : Follows(K, k)
  BY <1>2, <1>3, <1>4 DEF Follows
<1>8. \A k, l \in 1 .. N :
        k < l /\ capture[Nth(K, k)].time <= capture[Nth(K, l)].time => g[k].time <= g[l].time
  BY <1>2, <1>4
<1>9. K \in SUBSET DOMAIN capture /\ DOMAIN capture \ K = {}
  BY DEF K
<1>10. \E pos : Inherits(pos)
  <2>1. /\ DOMAIN g = 1 .. Cardinality(K)
        /\ g = [k \in 1 .. Cardinality(K) |-> g[k]]
        /\ \A k \in 1 .. Cardinality(K) : Follows(K, k)
        /\ \A k, l \in 1 .. Cardinality(K) :
             k < l /\ capture[Nth(K, k)].time <= capture[Nth(K, l)].time => g[k].time <= g[l].time
    BY <1>2, <1>5, <1>7, <1>8 DEF N
  <2> QED
    BY <1>3, <1>9, <2>1, SelectionInherits
<1> QED
  BY <1>3, <1>5, <1>6, <1>10 DEF K

\* A file in ASC that was cut off in the line of event n.
LEMMA TornInherits ==
  ASSUME PathType, TornRewrite
  PROVE  \E pos : Inherits(pos)
<1>1. PICK n \in DOMAIN capture :
        LET whole == At(capture, AscKept(capture) \cap 1 .. n - 1)
        IN  \E last \in AscTornEvents(capture[n]) :
              capture' = [i \in DOMAIN whole |-> ReadBack("asc", whole[i])] \o last
  BY DEF TornRewrite
<1> DEFINE K == AscKept(capture) \cap 1 .. n - 1
           N == Cardinality(K)
           g == [k \in 1 .. N |-> ReadBack("asc", capture[Nth(K, k)])]
<1>2. /\ Len(capture) \in Nat /\ DOMAIN capture = 1 .. Len(capture)
      /\ \A i \in DOMAIN capture : capture[i] \in Events
  BY LenProperties DEF PathType
<1>3. /\ K \in SUBSET DOMAIN capture /\ n \in Nat
      /\ \A i \in K : AscKeeps(capture[i]) /\ i < n
      /\ \A i \in DOMAIN capture : i < n /\ i \notin K => capture[i].frame.class = "error"
  BY <1>2 DEF AscKept, AscKeeps
<1>4. "torn" \in Range(path') /\ Range(path') \cap TextOrBus # {}
  BY PathGrows DEF Stations, TextOrBus, TornRewrite
<1>5. /\ N \in Nat
      /\ \A k \in 1 .. N : Nth(K, k) \in K
      /\ \A i \in K : Rank(K, i) \in 1 .. N /\ Nth(K, Rank(K, i)) = i
      /\ \A k, l \in 1 .. N : k < l => Nth(K, k) < Nth(K, l)
  <2> HIDE DEF K
  <2> QED
    <3>1. K \in SUBSET (1 .. Len(capture))
      BY <1>2, <1>3
    <3>2. /\ N \in Nat
          /\ \A k \in 1 .. N : Nth(K, k) \in K
          /\ \A i \in K : Rank(K, i) \in 1 .. N /\ Nth(K, Rank(K, i)) = i
      BY <1>2, <3>1, Ranks
    <3>3. \A k, l \in 1 .. N : k < l => Nth(K, k) < Nth(K, l)
      BY <1>2, <3>1, NthGrows
    <3> QED
      BY <3>2, <3>3
<1>6. PICK last \in AscTornEvents(capture[n]) : capture' = g \o last
  <2>1. At(capture, K) = [k \in 1 .. N |-> capture[Nth(K, k)]]
    BY DEF At
  <2>2. [i \in DOMAIN At(capture, K) |-> ReadBack("asc", At(capture, K)[i])] = g
    <3> HIDE DEF K, N
    <3> QED
      BY <2>1
  <2> QED
    BY <1>1, <2>2
<1> HIDE DEF K
<1>7. \A k \in 1 .. N :
        /\ Heir(capture[Nth(K, k)], g[k])
        /\ g[k].direction = capture[Nth(K, k)].direction
        /\ g[k].time = AscTime(capture[Nth(K, k)].time)
        /\ capture[Nth(K, k)].time \in Int
  <2> TAKE k \in 1 .. N
  <2>1. PICK e \in Events : e = capture[Nth(K, k)] /\ AscKeeps(e)
    BY <1>2, <1>3, <1>5
  <2>2. g[k] = Line(e, e.frame.dlc)
    BY <2>1, WholeLine
  <2>3. e.frame.dlc \in 0 .. e.frame.dlc
    BY EventParts, FrameParts
  <2>4. /\ Heir(e, Line(e, e.frame.dlc))
        /\ Line(e, e.frame.dlc).direction = e.direction
        /\ Line(e, e.frame.dlc).time = AscTime(e.time)
    BY <2>1, <2>3, LineParts
  <2>5. e.time \in Int
    BY EventParts
  <2> QED
    BY <2>1, <2>2, <2>4, <2>5
<1>8. DOMAIN g = 1 .. N /\ g = [k \in 1 .. N |-> g[k]]
  OBVIOUS
<1> HIDE DEF g, N
<1>9. g \in Seq(Events) /\ Len(g) = N
  <2>1. g \in [1 .. N -> Events]
    BY <1>7, <1>8 DEF Heir
  <2>2. g \in Seq(Events)
    BY <1>5, <2>1, SeqDef
  <2> QED
    BY <1>5, <1>8, <2>2, LenProperties
<1>10. \A k, l \in 1 .. N :
         k < l /\ capture[Nth(K, k)].time <= capture[Nth(K, l)].time => g[k].time <= g[l].time
  BY <1>7, AscTimeGrows
<1>11. CASE last = << >>
  <2>1. capture' = g
    BY <1>6, <1>9, <1>11, ConcatEmptySeq
  <2>2. \A k \in 1 .. Cardinality(K) : Follows(K, k)
    BY <1>7, <2>1 DEF Follows, N
  <2>3. \A i \in DOMAIN capture \ K :
          \/ capture[i].frame.class = "error" /\ Range(path') \cap TextOrBus # {}
          \/ "torn" \in Range(path') /\ \A j \in K : j < i
    <3> TAKE i \in DOMAIN capture \ K
    <3>1. CASE i < n
      BY <1>3, <1>4, <3>1
    <3>2. CASE ~(i < n)
      <4>1. i \in Int /\ \A j \in K : j \in Int /\ j < n
        BY <1>2, <1>3
      <4>2. \A j \in K : j < i
        BY <1>3, <3>2, <4>1
      <4> QED
        BY <1>4, <4>2
    <3> QED
      BY <3>1, <3>2
  <2>4. /\ DOMAIN g = 1 .. Cardinality(K)
        /\ g = [k \in 1 .. Cardinality(K) |-> g[k]]
        /\ \A k, l \in 1 .. Cardinality(K) :
             k < l /\ capture[Nth(K, k)].time <= capture[Nth(K, l)].time => g[k].time <= g[l].time
    BY <1>8, <1>10 DEF N
  <2> QED
    BY <1>3, <2>1, <2>2, <2>3, <2>4, SelectionInherits
<1>12. CASE last # << >>
  <2>1. PICK m \in 0 .. capture[n].frame.dlc :
          AscKeeps(capture[n]) /\ last = <<Line(capture[n], m)>>
    BY <1>6, <1>12 DEF AscTornEvents, Line
  <2> DEFINE f == Line(capture[n], m)
             pos == [k \in 1 .. N + 1 |-> IF k = N + 1 THEN n ELSE Nth(K, k)]
  <2>2. /\ capture[n] \in Events /\ Heir(capture[n], f) /\ f.direction = capture[n].direction
        /\ f.time = AscTime(capture[n].time) /\ capture[n].time \in Int
    BY <1>2, <2>1, LineParts, EventParts
  <2>3. f \in Events
    BY <2>2 DEF Heir
  <2> HIDE DEF f
  <2>4. <<f>> \in Seq(Events) /\ Len(<<f>>) = 1 /\ <<f>>[1] = f
    BY <2>3
  <2>5. /\ capture' \in Seq(Events)
        /\ DOMAIN capture' = 1 .. N + 1
        /\ \A k \in 1 .. N + 1 : capture'[k] = IF k = N + 1 THEN f ELSE g[k]
    <3>1. capture' = g \o <<f>>
      BY <1>6, <2>1 DEF f
    <3>2. /\ capture' \in Seq(Events) /\ Len(capture') = N + 1
          /\ \A k \in 1 .. N + 1 : capture'[k] = IF k <= N THEN g[k] ELSE <<f>>[k - N]
      BY <1>9, <2>4, <3>1, ConcatProperties
    <3>3. \A k \in 1 .. N + 1 : k <= N <=> k # N + 1
      BY <1>5
    <3>4. DOMAIN capture' = 1 .. N + 1
      BY <3>2, LenProperties
    <3>5. \A k \in 1 .. N + 1 : capture'[k] = IF k = N + 1 THEN f ELSE g[k]
      <4> TAKE k \in 1 .. N + 1
      <4>1. CASE k = N + 1
        <5>1. capture'[k] = <<f>>[k - N]
          BY <3>2, <3>3, <4>1
        <5>2. k - N = 1
          BY <1>5, <4>1
        <5>3. capture'[k] = f
          BY <2>4, <5>1, <5>2, Zenon
        <5> QED
          BY <4>1, <5>3, Zenon
      <4>2. CASE k # N + 1
        BY <3>2, <3>3, <4>2
      <4> QED
        BY <4>1, <4>2
    <3> QED
      BY <3>2, <3>4, <3>5
  <2>6. ASSUME NEW k \in 1 .. N + 1, k # N + 1
        PROVE  k \in 1 .. N /\ pos[k] = Nth(K, k) /\ capture'[k] = g[k] /\ Nth(K, k) \in K
    <3>1. k \in 1 .. N
      BY <1>5, <2>6
    <3> QED
      BY <1>5, <2>5, <2>6, <3>1
  <2>7. pos[N + 1] = n /\ capture'[N + 1] = f /\ N + 1 \in 1 .. N + 1
    BY <1>5, <2>5
  <2>8. pos \in [DOMAIN capture' -> DOMAIN capture]
    BY <1>3, <2>5, <2>6
  <2>9. \A k, l \in DOMAIN capture' : k < l => pos[k] < pos[l]
    <3> SUFFICES ASSUME NEW k \in 1 .. N + 1, NEW l \in 1 .. N + 1, k < l PROVE pos[k] < pos[l]
      BY <2>5
    <3>1. k # N + 1
      BY <1>5
    <3>2. CASE l = N + 1
      BY <1>3, <2>6, <2>7, <3>1, <3>2
    <3>3. CASE l # N + 1
      BY <1>5, <2>6, <3>1, <3>3
    <3> QED
      BY <3>2, <3>3
  <2>10. ASSUME NEW k \in DOMAIN capture'
         PROVE  /\ Heir(capture[pos[k]], capture'[k])
                /\ capture'[k].direction = capture[pos[k]].direction
                /\ capture'[k].time = AscTime(capture[pos[k]].time)
                /\ capture[pos[k]].time \in Int
    <3>1. CASE k = N + 1
      BY <2>2, <2>7, <3>1
    <3>2. CASE k # N + 1
      BY <1>7, <2>5, <2>6, <3>2
    <3> QED
      BY <3>1, <3>2
  <2>11. \A k, l \in DOMAIN capture' :
           k < l /\ capture[pos[k]].time <= capture[pos[l]].time
             => capture'[k].time <= capture'[l].time
    <3> TAKE k, l \in DOMAIN capture'
    <3>1. /\ capture[pos[k]].time \in Int /\ capture'[k].time = AscTime(capture[pos[k]].time)
          /\ capture[pos[l]].time \in Int /\ capture'[l].time = AscTime(capture[pos[l]].time)
      BY <2>10
    <3>2. capture[pos[k]].time <= capture[pos[l]].time
            => AscTime(capture[pos[k]].time) <= AscTime(capture[pos[l]].time)
      BY <3>1, AscTimeGrows
    <3> QED
      BY <3>1, <3>2
  <2>12. \A i \in DOMAIN capture :
           \/ \E k \in DOMAIN capture' : pos[k] = i
           \/ capture[i].frame.class = "error" /\ Range(path') \cap TextOrBus # {}
           \/ "torn" \in Range(path') /\ \A k \in DOMAIN capture' : pos[k] < i
    <3> TAKE i \in DOMAIN capture
    <3>0. i \in Int
      BY <1>2
    <3>1. CASE i \in K
      <4>1. Rank(K, i) \in 1 .. N + 1 /\ Rank(K, i) # N + 1
        BY <1>5, <3>1
      <4> QED
        BY <1>5, <2>5, <2>6, <3>1, <4>1
    <3>2. CASE i \notin K /\ i < n
      BY <1>3, <1>4, <3>2
    <3>3. CASE i = n
      BY <2>5, <2>7, <3>3
    <3>4. CASE i > n
      <4>1. ASSUME NEW k \in 1 .. N + 1 PROVE pos[k] < i
        <5>1. CASE k = N + 1
          BY <2>7, <3>4, <5>1
        <5>2. CASE k # N + 1
          <6>1. Nth(K, k) < n /\ Nth(K, k) \in Int
            BY <1>2, <1>3, <2>6, <5>2
          <6> QED
            BY <1>3, <2>6, <3>0, <3>4, <5>2, <6>1
        <5> QED
          BY <5>1, <5>2
      <4> QED
        BY <1>4, <2>5, <4>1
    <3>5. i \in K \/ (i \notin K /\ i < n) \/ i = n \/ i > n
      BY <1>3, <3>0
    <3> QED
      BY <3>1, <3>2, <3>3, <3>4, <3>5, Zenon
  <2>13. Inherits(pos)
    <3> HIDE DEF pos
    <3> QED
      BY <2>5, <2>8, <2>9, <2>10, <2>11, <2>12 DEF Inherits
  <2> QED
    BY <2>13
<1> QED
  BY <1>11, <1>12

\* What another socket makes of the frame of an event.
LEMMA ReceivedParts ==
  ASSUME NEW e \in Events, NEW i, RecvTime(i) \in Int
  PROVE  /\ Heir(e, Received(i, e))
         /\ Received(i, e).time = RecvTime(i)
         /\ Received(i, e).frame = [e.frame EXCEPT !.fd_flags = IF e.frame.fd THEN @ ELSE {}]
<1> DEFINE frame == FrameOfNative(NativeOf(e.frame))
<1>1. e.serial \in Nat /\ e.frame \in CanFrames /\ e.frame.dlc \in Nat
  BY EventParts, FrameParts
<1>2. frame \in CanFrames /\ frame = [e.frame EXCEPT !.fd_flags = IF e.frame.fd THEN @ ELSE {}]
  BY <1>1, NativeRoundTrip
<1>3. frame.id = e.frame.id /\ frame.class = e.frame.class /\ frame.dlc = e.frame.dlc
  <2>1. e.frame = [id |-> e.frame.id, class |-> e.frame.class, dlc |-> e.frame.dlc,
                   fd |-> e.frame.fd, fd_flags |-> e.frame.fd_flags]
    BY <1>1, FrameParts
  <2> HIDE DEF frame
  <2> QED
    BY <1>2, <2>1
<1>4. Received(i, e) = Event(e.serial, RecvTime(i), Recorder[1], Recorder[2], "Rx", frame, FALSE)
  BY DEF Received
<1> HIDE DEF frame
<1>5. /\ Received(i, e).serial = e.serial /\ Received(i, e).frame = frame
      /\ Received(i, e).time = RecvTime(i)
  BY <1>4 DEF Event
<1>6. Received(i, e) \in Events
  BY <1>1, <1>2, <1>4, RecorderAssumption DEF Event, Events
<1>7. Heir(e, Received(i, e))
  BY <1>1, <1>3, <1>5, <1>6 DEF Heir
<1> QED
  BY <1>2, <1>5, <1>7

\* A replay.
LEMMA BusInherits ==
  ASSUME PathType, ReplayOntoBus
  PROVE  /\ \E pos : Inherits(pos)
         /\ \A k \in DOMAIN capture' :
              \E e \in Events :
                /\ \E i \in DOMAIN capture : e = capture[i]
                /\ capture'[k].serial = e.serial
                /\ capture'[k].frame = [e.frame EXCEPT !.fd_flags = IF e.frame.fd THEN @ ELSE {}]
<1> DEFINE Audible == {i \in DOMAIN capture : capture[i].frame.class # "error"}
<1>1. PICK arriving \in {capture, At(capture, Audible)} :
        capture' = [i \in DOMAIN arriving |-> Received(i, arriving[i])]
  BY DEF ReplayOntoBus
<1>2. /\ Len(capture) \in Nat /\ DOMAIN capture = 1 .. Len(capture)
      /\ \A i \in DOMAIN capture : capture[i] \in Events
      /\ capture = [i \in DOMAIN capture |-> capture[i]]
  BY LenProperties DEF PathType
<1>3. At(capture, DOMAIN capture) = capture
  BY AtAll
<1>4. PICK K \in {DOMAIN capture, Audible} : arriving = At(capture, K)
  BY <1>3
<1> DEFINE N == Cardinality(K)
           g == [k \in 1 .. N |-> Received(k, capture[Nth(K, k)])]
<1>5. capture' = g
  <2>1. arriving = [k \in 1 .. N |-> capture[Nth(K, k)]]
    BY <1>4 DEF At
  <2> HIDE DEF N
  <2> QED
    BY <1>1, <2>1
<1>6. /\ K \in SUBSET DOMAIN capture
      /\ \A i \in DOMAIN capture \ K : capture[i].frame.class = "error"
  BY <1>4
<1>7. "bus" \in Range(path') /\ Range(path') \cap TextOrBus # {}
  BY PathGrows DEF Stations, TextOrBus, ReplayOntoBus
<1> HIDE DEF Audible
<1>8. N \in 0 .. Len(capture) /\ \A k \in 1 .. N : Nth(K, k) \in K
  <2>1. K \in SUBSET (1 .. Len(capture))
    BY <1>2, <1>6
  <2> QED
    BY <1>2, <2>1, Ranks
<1>9. \A k, l \in 1 .. N : RecvTime(k) \in Int /\ (k <= l => RecvTime(k) <= RecvTime(l))
  <2>1. original \in Captures /\ Len(original) \in Nat /\ DOMAIN original = 1 .. Len(original)
    BY Originals, LenProperties DEF PathType
  <2>2. 1 .. N \subseteq DOMAIN original
    BY <1>2, <1>8, <2>1 DEF PathType
  <2> QED
    BY <2>1, <2>2, ClockAssumption
<1>10. \A k \in 1 .. N :
         /\ Nth(K, k) \in DOMAIN capture
         /\ capture[Nth(K, k)] \in Events
         /\ Heir(capture[Nth(K, k)], g[k])
         /\ g[k].time = RecvTime(k)
         /\ g[k].frame = [capture[Nth(K, k)].frame EXCEPT
                            !.fd_flags = IF capture[Nth(K, k)].frame.fd THEN @ ELSE {}]
  <2> TAKE k \in 1 .. N
  <2>1. PICK e \in Events : e = capture[Nth(K, k)] /\ Nth(K, k) \in DOMAIN capture
    BY <1>2, <1>6, <1>8
  <2>2. g[k] = Received(k, e)
    BY <2>1
  <2>3. /\ Heir(e, Received(k, e)) /\ Received(k, e).time = RecvTime(k)
        /\ Received(k, e).frame = [e.frame EXCEPT !.fd_flags = IF e.frame.fd THEN @ ELSE {}]
    BY <1>9, ReceivedParts
  <2> HIDE DEF g
  <2> QED
    BY <2>1, <2>2, <2>3, Zenon
<1>11. DOMAIN g = 1 .. N /\ g = [k \in 1 .. N |-> g[k]]
  OBVIOUS
<1> HIDE DEF g
<1>12. \A k \in 1 .. N : Follows(K, k)
  BY <1>5, <1>7, <1>10 DEF Follows
<1>13. \A k, l \in 1 .. N :
         k < l /\ capture[Nth(K, k)].time <= capture[Nth(K, l)].time => g[k].time <= g[l].time
  <2> SUFFICES ASSUME NEW k \in 1 .. N, NEW l \in 1 .. N, k < l PROVE g[k].time <= g[l].time
    OBVIOUS
  <2>1. k <= l
    BY <1>8
  <2> QED
    BY <1>9, <1>10, <2>1, ZenonT(60)
<1>14. \A i \in DOMAIN capture \ K :
         capture[i].frame.class = "error" /\ Range(path') \cap TextOrBus # {}
  BY <1>6, <1>7
<1>15. \E pos : Inherits(pos)
  BY <1>5, <1>6, <1>11, <1>12, <1>13, <1>14, SelectionInherits
<1>16. ASSUME NEW k \in DOMAIN capture'
       PROVE  \E e \in Events :
                /\ \E i \in DOMAIN capture : e = capture[i]
                /\ capture'[k].serial = e.serial
                /\ capture'[k].frame = [e.frame EXCEPT !.fd_flags = IF e.frame.fd THEN @ ELSE {}]
  <2>1. PICK e \in Events : e = capture[Nth(K, k)]
    BY <1>5, <1>10, <1>11, <1>16
  <2>2. \E i \in DOMAIN capture : e = capture[i]
    BY <1>5, <1>10, <1>11, <1>16, <2>1
  <2>3. capture'[k].frame = [e.frame EXCEPT !.fd_flags = IF e.frame.fd THEN @ ELSE {}]
    BY <1>5, <1>10, <1>11, <1>16, <2>1, Zenon
  <2>4. capture'[k].serial = e.serial
    BY <1>5, <1>10, <1>11, <1>16, <2>1 DEF Heir
  <2> QED
    BY <2>2, <2>3, <2>4
<1> QED
  BY <1>15, <1>16

-----------------------------------------------------------------------------
(* What a second pass does.                                                 *)

\* A line that was read is written as the same line.
LEMMA LineSettles ==
  ASSUME NEW e \in Events, AscKeeps(e)
  PROVE  LET f == Line(e, e.frame.dlc)
         IN  f \in Events /\ AscKeeps(f) /\ ReadBack("asc", f) = f
<1> DEFINE f == Line(e, e.frame.dlc)
           g == ReadBack("asc", f)
           frame == [id |-> e.frame.id, class |-> e.frame.class,
                     dlc |-> IF e.frame.class = "remote" THEN 0 ELSE e.frame.dlc,
                     fd |-> e.frame.class = "data" /\ e.frame.fd, fd_flags |-> {}]
<1>1. e.time \in Int /\ e.frame.dlc \in Nat /\ e.frame.dlc \in 0 .. e.frame.dlc
  BY EventParts, FrameParts
<1>2. /\ Heir(e, f) /\ f.direction = e.direction /\ f.time = AscTime(e.time)
      /\ f.name = IF e.name = NoName THEN "can0" ELSE e.name
      /\ f.index = NoIndex /\ ~f.annotated /\ f.frame = frame
  BY <1>1, LineParts
<1>3. f \in Events /\ AscKeeps(f)
  BY <1>2 DEF Heir, AscKeeps
<1>4. f.frame.dlc \in Nat /\ f.frame.dlc \in 0 .. f.frame.dlc
  BY <1>3, EventParts, FrameParts
<1>5. g = Line(f, f.frame.dlc)
  BY <1>3, WholeLine
<1> HIDE DEF f, g
<1>6. /\ Heir(f, g) /\ g.direction = f.direction /\ g.time = AscTime(f.time)
      /\ g.name = IF f.name = NoName THEN "can0" ELSE f.name
      /\ g.index = NoIndex /\ ~g.annotated
      /\ g.frame = [id |-> f.frame.id, class |-> f.frame.class,
                    dlc |-> IF f.frame.class = "remote" THEN 0 ELSE f.frame.dlc,
                    fd |-> f.frame.class = "data" /\ f.frame.fd, fd_flags |-> {}]
  BY <1>3, <1>4, <1>5, LineParts
<1>7. g.time = f.time
  BY <1>1, <1>2, <1>6, AscTimeSettles
<1>8. g.name = f.name
  BY <1>2, <1>6 DEF NoName
<1>9. g.frame = f.frame
  <2>1. /\ f.frame.id = e.frame.id /\ f.frame.class = e.frame.class
        /\ f.frame.dlc = IF e.frame.class = "remote" THEN 0 ELSE e.frame.dlc
        /\ f.frame.fd = (e.frame.class = "data" /\ e.frame.fd)
    BY <1>2
  <2>2. (IF f.frame.class = "remote" THEN 0 ELSE f.frame.dlc)
          = IF e.frame.class = "remote" THEN 0 ELSE e.frame.dlc
    BY <2>1
  <2>3. (f.frame.class = "data" /\ f.frame.fd) = (e.frame.class = "data" /\ e.frame.fd)
    BY <2>1
  <2> QED
    BY <1>2, <1>6, <2>1, <2>2, <2>3
<1>10. g.serial = f.serial /\ g \in Events
  BY <1>6 DEF Heir
<1>11. g.annotated = f.annotated
  <2>1. g.annotated \in BOOLEAN /\ f.annotated \in BOOLEAN
    BY <1>3, <1>10, EventParts
  <2> QED
    BY <1>2, <1>6, <2>1
<1>12. g = f
  <2>1. /\ g = Event(g.serial, g.time, g.name, g.index, g.direction, g.frame, g.annotated)
        /\ f = Event(f.serial, f.time, f.name, f.index, f.direction, f.frame, f.annotated)
    BY <1>3, <1>10, EventParts
  <2>2. g.index = f.index /\ g.direction = f.direction
    BY <1>2, <1>6
  <2> QED
    BY <1>7, <1>8, <1>9, <1>10, <1>11, <2>1, <2>2, Zenon
<1> QED
  BY <1>3, <1>12 DEF f, g

\* So is a BLF message.
LEMMA BlfSettles ==
  ASSUME NEW e \in Events
  PROVE  LET f == ReadBack("blf", e)
         IN  f \in Events /\ ReadBack("blf", f) = f
<1> DEFINE f == ReadBack("blf", e)
           g == ReadBack("blf", f)
<1>1. /\ Heir(e, f) /\ f.direction = e.direction /\ f.time = e.time /\ f.name = NoName
      /\ f.index = BlfChannel(e.index) /\ ~f.annotated
      /\ f.frame = [id |-> e.frame.id, class |-> e.frame.class,
                    dlc |-> AtMost(e.frame.dlc, 8), fd |-> FALSE, fd_flags |-> {}]
  BY BlfParts
<1>2. f \in Events
  BY <1>1 DEF Heir
<1> HIDE DEF f
<1>3. /\ Heir(f, g) /\ g.direction = f.direction /\ g.time = f.time /\ g.name = NoName
      /\ g.index = BlfChannel(f.index) /\ ~g.annotated
      /\ g.frame = [id |-> f.frame.id, class |-> f.frame.class,
                    dlc |-> AtMost(f.frame.dlc, 8), fd |-> FALSE, fd_flags |-> {}]
  BY <1>2, BlfParts
<1> HIDE DEF g
<1>4. g.frame = f.frame
  <2>1. e.frame.dlc \in Nat
    BY EventParts, FrameParts
  <2>2. AtMost(AtMost(e.frame.dlc, 8), 8) = AtMost(e.frame.dlc, 8)
    BY <2>1 DEF AtMost
  <2>3. /\ f.frame.id = e.frame.id /\ f.frame.class = e.frame.class
        /\ f.frame.dlc = AtMost(e.frame.dlc, 8)
    BY <1>1
  <2> QED
    BY <1>1, <1>3, <2>2, <2>3
<1>5. g.index = f.index
  <2>1. e.index \in Nat \cup {NoIndex}
    BY EventParts
  <2>2. BlfChannel(BlfChannel(e.index)) = BlfChannel(e.index)
    BY <2>1 DEF BlfChannel, NoIndex
  <2> QED
    BY <1>1, <1>3, <2>2
<1>6. g.serial = f.serial /\ g \in Events
  BY <1>3 DEF Heir
<1>7. g.annotated = f.annotated
  <2>1. g.annotated \in BOOLEAN /\ f.annotated \in BOOLEAN
    BY <1>2, <1>6, EventParts
  <2> QED
    BY <1>1, <1>3, <2>1
<1>8. g = f
  <2>1. /\ g = Event(g.serial, g.time, g.name, g.index, g.direction, g.frame, g.annotated)
        /\ f = Event(f.serial, f.time, f.name, f.index, f.direction, f.frame, f.annotated)
    BY <1>2, <1>6, EventParts
  <2>2. g.name = f.name /\ g.direction = f.direction /\ g.time = f.time
    BY <1>1, <1>3
  <2> QED
    BY <1>4, <1>5, <1>6, <1>7, <2>1, <2>2, Zenon
<1> QED
  BY <1>2, <1>8 DEF f, g

\* So is an MF4 record; and what a socket captured is it from the start.
LEMMA Mf4Settles ==
  ASSUME NEW e \in Events
  PROVE  LET f == ReadBack("mf4", e)
         IN  /\ f \in Events /\ ReadBack("mf4", f) = f
             /\ FromSocket(e) => f = e
<1> DEFINE f == ReadBack("mf4", e)
           g == ReadBack("mf4", f)
<1>1. \A x \in Events :
        LET y == ReadBack("mf4", x)
        IN  /\ Heir(x, y) /\ y.direction = x.direction /\ y.time = x.time
            /\ y.name = IF x.name \in LongNames THEN Cut(x.name) ELSE x.name
            /\ y.index = IF x.index = NoIndex THEN 0 ELSE x.index
            /\ ~y.annotated
            /\ y.frame = x.frame
  BY Mf4Parts
<1>2. f \in Events
  BY <1>1 DEF Heir
<1>3. ASSUME NEW x \in Events, ~x.annotated, x.name \notin LongNames, x.index # NoIndex
      PROVE  ReadBack("mf4", x) = x
  <2> DEFINE y == ReadBack("mf4", x)
  <2>1. /\ Heir(x, y) /\ y.direction = x.direction /\ y.time = x.time
        /\ y.name = IF x.name \in LongNames THEN Cut(x.name) ELSE x.name
        /\ y.index = IF x.index = NoIndex THEN 0 ELSE x.index
        /\ ~y.annotated
        /\ y.frame = x.frame
    BY <1>1
  <2> HIDE DEF y
  <2>2. y.name = x.name /\ y.index = x.index
    BY <1>3, <2>1
  <2>3. y \in Events /\ y.serial = x.serial
    BY <2>1 DEF Heir
  <2>4. y.annotated = x.annotated
    <3>1. y.annotated \in BOOLEAN /\ x.annotated \in BOOLEAN
      BY <2>3, EventParts
    <3> QED
      BY <1>3, <2>1, <3>1
  <2>5. /\ x = Event(x.serial, x.time, x.name, x.index, x.direction, x.frame, x.annotated)
        /\ y = Event(y.serial, y.time, y.name, y.index, y.direction, y.frame, y.annotated)
    BY <2>3, EventParts
  <2>6. y = x
    BY <2>1, <2>2, <2>3, <2>4, <2>5, Zenon
  <2> QED
    BY <2>6 DEF y
<1>4. ~f.annotated /\ f.name \notin LongNames /\ f.index # NoIndex
  <2>1. /\ f.name = IF e.name \in LongNames THEN Cut(e.name) ELSE e.name
        /\ f.index = IF e.index = NoIndex THEN 0 ELSE e.index
        /\ ~f.annotated
    BY <1>1
  <2> HIDE DEF f
  <2> QED
    BY <2>1, CutAssumption DEF NoIndex
<1>5. g = f
  <2> HIDE DEF f
  <2> QED
    BY <1>2, <1>3, <1>4
<1>6. FromSocket(e) => f = e
  BY <1>3 DEF FromSocket
<1> QED
  BY <1>2, <1>5, <1>6

-----------------------------------------------------------------------------
(* The invariant is inductive.                                              *)

LEMMA InitPathInv == Init => PathInv
<1> SUFFICES ASSUME Init PROVE PathInv
  OBVIOUS
<1>1. /\ original \in Captures /\ capture = original /\ path = << >>
      /\ original \in Seq(Events) /\ \A n \in DOMAIN original : original[n].serial = n
  BY CapturesAssumption DEF Init
<1>2. Len(original) \in Nat /\ DOMAIN original = 1 .. Len(original)
  BY <1>1, LenProperties
<1>3. PathType
  BY <1>1, <1>2 DEF PathType
<1>4. Survivors
  <2>1. \A n \in DOMAIN original : original[n].frame # Invalid /\ original[n].frame.dlc \in Nat
    BY <1>1, <1>2, EventParts, FrameParts
  <2> QED
    BY <1>1, <1>2, <2>1 DEF Survivors
<1>5. TimeOrder
  BY <1>1 DEF TimeOrder
<1>6. Mf4Exact
  BY <1>1 DEF Mf4Exact
<1>7. Settled
  BY <1>1 DEF Settled
<1> QED
  BY <1>3, <1>4, <1>5, <1>6, <1>7 DEF PathInv

\* A step appends the station it stands for to the path.
LEMMA Stops ==
  ASSUME PathType, NEW x \in Stations, path' = Append(path, x)
  PROVE  /\ Last(path') = x
         /\ (\A i \in DOMAIN path' : path'[i] = "mf4")
              => x = "mf4" /\ \A i \in DOMAIN path : path[i] = "mf4"
<1>1. Len(path) \in Nat /\ DOMAIN path = 1 .. Len(path)
  BY LenProperties DEF PathType
<1>2. /\ path' \in Seq(Stations) /\ Len(path') = Len(path) + 1
      /\ \A i \in 1 .. Len(path) : path'[i] = path[i]
      /\ path'[Len(path) + 1] = x
  BY <1>1, AppendProperties DEF PathType
<1>3. DOMAIN path' = 1 .. Len(path) + 1
  BY <1>2, LenProperties
<1>4. Last(path') = x
  BY PathGrows
<1>5. ASSUME \A i \in DOMAIN path' : path'[i] = "mf4"
      PROVE  x = "mf4" /\ \A i \in DOMAIN path : path[i] = "mf4"
  <2>1. Len(path) + 1 \in DOMAIN path' /\ \A i \in 1 .. Len(path) : i \in DOMAIN path'
    BY <1>1, <1>3
  <2> QED
    BY <1>1, <1>2, <1>5, <2>1
<1> QED
  BY <1>4, <1>5

LEMMA NextPathInv == PathInv /\ [Next]_vars => PathInv'
<1> SUFFICES ASSUME PathInv, [Next]_vars PROVE PathInv'
  OBVIOUS
<1>1. PathType /\ Survivors /\ TimeOrder /\ Mf4Exact /\ Settled
  BY DEF PathInv
<1>2. CASE ReplayOntoBus
  <2>1. path' = Append(path, "bus") /\ original' = original /\ "bus" \in Stations
    BY <1>2 DEF ReplayOntoBus, Stations
  <2>2. PathType' /\ Survivors' /\ TimeOrder'
    BY <1>1, <1>2, <2>1, BusInherits, HeirsKeep
  <2>3. Last(path') = "bus" /\ ~ \A i \in DOMAIN path' : path'[i] = "mf4"
    BY <1>1, <2>1, Stops
  <2>4. Mf4Exact' /\ Settled'
    BY <2>3, FormatsAssumption DEF Mf4Exact, Settled
  <2> QED
    BY <2>2, <2>4 DEF PathInv
<1>3. CASE TornRewrite
  <2>1. path' = Append(path, "torn") /\ original' = original /\ "torn" \in Stations
    BY <1>3 DEF TornRewrite, Stations
  <2>2. PathType' /\ Survivors' /\ TimeOrder'
    BY <1>1, <1>3, <2>1, TornInherits, HeirsKeep
  <2>3. Last(path') = "torn" /\ ~ \A i \in DOMAIN path' : path'[i] = "mf4"
    BY <1>1, <2>1, Stops
  <2>4. Mf4Exact' /\ Settled'
    BY <2>3, FormatsAssumption DEF Mf4Exact, Settled
  <2> QED
    BY <2>2, <2>4 DEF PathInv
<1>4. CASE Rewrite("asc")
  <2>1. path' = Append(path, "asc") /\ original' = original /\ "asc" \in Stations
    BY <1>4 DEF Rewrite, Stations
  <2>2. PathType' /\ Survivors' /\ TimeOrder'
    BY <1>1, <1>4, <2>1, AscInherits, HeirsKeep
  <2>3. Last(path') = "asc" /\ ~ \A i \in DOMAIN path' : path'[i] = "mf4"
    BY <1>1, <2>1, Stops
  <2>4. Mf4Exact'
    BY <2>3 DEF Mf4Exact
  <2>5. ASSUME NEW k \in DOMAIN capture'
        PROVE  ReadBack("asc", capture'[k]) = capture'[k] /\ AscKeeps(capture'[k])
    <3>1. PICK e \in Events : AscKeeps(e) /\ capture'[k] = Line(e, e.frame.dlc)
      BY <1>1, <1>4, AscInherits
    <3> QED
      BY <3>1, LineSettles
  <2>6. Settled'
    BY <2>3, <2>5 DEF Settled
  <2> QED
    BY <2>2, <2>4, <2>6 DEF PathInv
<1>5. ASSUME NEW format \in {"blf", "mf4"}, Rewrite(format) PROVE PathInv'
  <2>1. path' = Append(path, format) /\ original' = original /\ format \in Stations
    BY <1>5 DEF Rewrite, Stations
  <2>2. PathType' /\ Survivors' /\ TimeOrder'
    BY <1>1, <1>5, <2>1, BinaryInherits, HeirsKeep
  <2>3. /\ Last(path') = format
        /\ (\A i \in DOMAIN path' : path'[i] = "mf4")
             => format = "mf4" /\ \A i \in DOMAIN path : path[i] = "mf4"
    BY <1>1, <2>1, Stops
  <2>4. /\ DOMAIN capture' = DOMAIN capture
        /\ \A k \in DOMAIN capture :
             capture[k] \in Events /\ capture'[k] = ReadBack(format, capture[k])
    BY <1>1, <1>5, BinaryInherits
  <2>5. ASSUME NEW k \in DOMAIN capture' PROVE ReadBack(format, capture'[k]) = capture'[k]
    <3>1. PICK e \in Events : capture'[k] = ReadBack(format, e)
      BY <2>4
    <3>2. CASE format = "blf"
      BY <3>1, <3>2, BlfSettles
    <3>3. CASE format = "mf4"
      BY <3>1, <3>3, Mf4Settles
    <3> QED
      BY <3>2, <3>3
  <2>6. Settled'
    BY <2>3, <2>5 DEF Settled
  <2>7. Mf4Exact'
    <3> SUFFICES ASSUME \A i \in DOMAIN path' : path'[i] = "mf4"
                 PROVE  /\ DOMAIN capture' = DOMAIN original
                        /\ \A i \in DOMAIN capture' : FromSocket(original[i]) => capture'[i] = original[i]
      BY <2>1 DEF Mf4Exact
    <3>1. format = "mf4" /\ \A i \in DOMAIN path : path[i] = "mf4"
      BY <2>3
    <3>2. /\ DOMAIN capture = DOMAIN original
          /\ \A i \in DOMAIN capture : FromSocket(original[i]) => capture[i] = original[i]
      BY <1>1, <3>1 DEF Mf4Exact
    <3>3. ASSUME NEW i \in DOMAIN capture', FromSocket(original[i]) PROVE capture'[i] = original[i]
      <4>1. PICK e \in Events : e = capture[i] /\ capture'[i] = ReadBack("mf4", e)
        BY <2>4, <3>1
      <4>2. e = original[i] /\ FromSocket(e)
        BY <2>4, <3>2, <3>3, <4>1
      <4> QED
        BY <4>1, <4>2, Mf4Settles
    <3> QED
      BY <2>4, <3>2, <3>3
  <2> QED
    BY <2>2, <2>6, <2>7 DEF PathInv
<1>6. CASE UNCHANGED vars
  BY <1>1, <1>6 DEF vars, PathInv, PathType, Survivors, TimeOrder, Mf4Exact, Settled
<1>7. \A format \in Formats : format \in {"asc", "blf", "mf4"}
  BY FormatsAssumption
<1> QED
  BY <1>2, <1>3, <1>4, <1>5, <1>6, <1>7 DEF Next

LEMMA PathInvariant == Spec => []PathInv
BY InitPathInv, NextPathInv, PTL DEF Spec

-----------------------------------------------------------------------------
(* What single steps do.                                                    *)

\* Events of the same serial number are the same event.
LEMMA SerialsDiffer ==
  ASSUME PathInv, NEW i \in DOMAIN capture, NEW j \in DOMAIN capture,
         capture[i].serial = capture[j].serial
  PROVE  i = j
<1>1. i \in Int /\ j \in Int
  BY LenProperties DEF PathInv, PathType
<1>2. capture[i].serial \in Nat /\ capture[j].serial \in Nat
  <2>1. capture[i] \in Events /\ capture[j] \in Events
    BY LenProperties DEF PathInv, PathType
  <2> QED
    BY <2>1, EventParts
<1>3. (i < j => capture[i].serial < capture[j].serial)
      /\ (j < i => capture[j].serial < capture[i].serial)
  BY DEF PathInv, Survivors
<1> QED
  BY <1>1, <1>2, <1>3

\* The last stop tells which step was taken.
LEMMA StepOfStop ==
  ASSUME PathInv, Next
  PROVE  /\ Last(path') = "bus" => ReplayOntoBus
         /\ Last(path') \in Formats => Rewrite(Last(path'))
         /\ \A x \in Stations : path' = Append(path, x) => Last(path') = x
<1>1. PathType
  BY DEF PathInv
<1>2. \A x \in Stations : path' = Append(path, x) => Last(path') = x
  BY <1>1, Stops
<1>3. ReplayOntoBus => Last(path') = "bus"
  BY <1>2 DEF ReplayOntoBus, Stations
<1>4. TornRewrite => Last(path') = "torn"
  BY <1>2 DEF TornRewrite, Stations
<1>5. \A format \in Formats : Rewrite(format) => Last(path') = format
  BY <1>2, FormatsAssumption DEF Rewrite, Stations
<1>6. Last(path') = "bus" => ReplayOntoBus
  BY <1>4, <1>5, FormatsAssumption DEF Next
<1>7. Last(path') \in Formats => Rewrite(Last(path'))
  BY <1>3, <1>4, <1>5, FormatsAssumption DEF Next
<1> QED
  BY <1>2, <1>6, <1>7

(***************************************************************************)
(* Along any path of conversions, torn files and replays a capture keeps   *)
(* its events, their order, identifiers and classes; only error frames go, *)
(* and what comes after the place where a file was torn.                   *)
(***************************************************************************)
THEOREM EventsSurvive == Spec => []Survivors
BY PathInvariant, PTL DEF PathInv

(***************************************************************************)
(* No path makes two events change places in time, whatever the rounding   *)
(* of the f64 that ASC goes through.                                       *)
(***************************************************************************)
THEOREM TimesKeepOrder == Spec => []TimeOrder
BY PathInvariant, PTL DEF PathInv

(***************************************************************************)
(* What a socket captured comes back from MF4 without any difference,      *)
(* however often it is rewritten.                                          *)
(***************************************************************************)
THEOREM Mf4IsExact == Spec => []Mf4Exact
BY PathInvariant, PTL DEF PathInv

(***************************************************************************)
(* Every frame arrives on the bus as the file had it, except for the FD    *)
(* flags of a classic frame.                                               *)
(***************************************************************************)
THEOREM ReplaysRoundTrip == Spec => RoundTrip
<1> DEFINE Same ==
      path' = Append(path, "bus") =>
        \A i \in DOMAIN capture, j \in DOMAIN capture' :
          capture'[j].serial = capture[i].serial =>
            LET f == capture[i].frame
            IN  capture'[j].frame = [f EXCEPT !.fd_flags = IF f.fd THEN @ ELSE {}]
<1>1. ASSUME PathInv, Next PROVE Same
  <2> SUFFICES ASSUME path' = Append(path, "bus"),
                      NEW i \in DOMAIN capture, NEW j \in DOMAIN capture',
                      capture'[j].serial = capture[i].serial
               PROVE  capture'[j].frame
                        = [capture[i].frame EXCEPT !.fd_flags = IF capture[i].frame.fd THEN @ ELSE {}]
    OBVIOUS
  <2>1. ReplayOntoBus
    BY <1>1, StepOfStop DEF Stations
  <2>2. PICK e \in Events :
          /\ \E k \in DOMAIN capture : e = capture[k]
          /\ capture'[j].serial = e.serial
          /\ capture'[j].frame = [e.frame EXCEPT !.fd_flags = IF e.frame.fd THEN @ ELSE {}]
    BY <1>1, <2>1, BusInherits DEF PathInv
  <2>3. PICK k \in DOMAIN capture : e = capture[k]
    BY <2>2
  <2>4. k = i
    BY <1>1, <2>2, <2>3, SerialsDiffer
  <2> QED
    BY <2>2, <2>3, <2>4, Zenon
<1>2. PathInv /\ [Next]_vars => [Same]_vars
  BY <1>1
<1> QED
  BY <1>2, PathInvariant, PTL DEF Spec, RoundTrip

(***************************************************************************)
(* Writing a capture to the format it was just read from changes nothing.  *)
(***************************************************************************)
THEOREM RewritesSettle == Spec => Stable
<1> DEFINE Same ==
      path # << >> /\ Last(path') = Last(path) /\ Last(path') \in Formats => capture' = capture
<1>1. ASSUME PathInv, Next PROVE Same
  <2> SUFFICES ASSUME path # << >>, Last(path') = Last(path), Last(path') \in Formats
               PROVE  capture' = capture
    OBVIOUS
  <2>1. PICK format \in Formats : format = Last(path) /\ Rewrite(format)
    BY <1>1, StepOfStop
  <2>2. \A i \in DOMAIN capture :
          /\ ReadBack(format, capture[i]) = capture[i]
          /\ format = "asc" => AscKeeps(capture[i])
    BY <1>1, <2>1 DEF PathInv, Settled
  <2>3. WrittenEvents(format, capture) = capture
    <3>1. CASE format = "asc"
      <4>1. AscKept(capture) = DOMAIN capture
        BY <2>2, <3>1 DEF AscKept
      <4> QED
        BY <1>1, <3>1, <4>1, AtAll DEF WrittenEvents, PathInv
    <3>2. CASE format # "asc"
      BY <3>2 DEF WrittenEvents
    <3> QED
      BY <3>1, <3>2
  <2>4. capture' = [i \in DOMAIN capture |-> capture[i]]
    BY <2>1, <2>2, <2>3 DEF Rewrite
  <2>5. capture = [i \in DOMAIN capture |-> capture[i]]
    BY <1>1, LenProperties DEF PathInv, PathType
  <2> QED
    BY <2>4, <2>5
<1>2. PathInv /\ [Next]_vars => [Same]_vars
  BY <1>1
<1> QED
  BY <1>2, PathInvariant, PTL DEF Spec, Stable

(***************************************************************************)
(* What BLF and MF4 change of a frame, of its annotations or of the event  *)
(* itself is covered by a note on the event.                               *)
(***************************************************************************)
THEOREM BinaryLossesNoted == Spec => FrameLossNoted
<1> DEFINE Watched == FrameFields \cup {"annotated", "event"}
           Noting ==
             Last(path') \in {"blf", "mf4"} =>
               \A i \in DOMAIN capture : Lost(capture[i], capture') \cap Watched \subseteq Noted(i)
<1>1. ASSUME PathInv, Next PROVE Noting
  <2> SUFFICES ASSUME Last(path') \in {"blf", "mf4"}, NEW i \in DOMAIN capture,
                      NEW x \in Lost(capture[i], capture') \cap Watched
               PROVE  x \in Noted(i)
    OBVIOUS
  <2>1. PICK format \in {"blf", "mf4"} : Rewrite(format)
    <3>1. ~ReplayOntoBus /\ ~TornRewrite
      BY <1>1, StepOfStop DEF ReplayOntoBus, TornRewrite, Stations
    <3>2. PICK format \in Formats : Rewrite(format)
      BY <1>1, <3>1 DEF Next
    <3>3. format \in Stations
      BY FormatsAssumption DEF Stations
    <3>4. format = Last(path')
      BY <1>1, <3>2, <3>3, StepOfStop DEF Rewrite
    <3> QED
      BY <3>2, <3>4
  <2>2. /\ DOMAIN capture' = DOMAIN capture
        /\ \A k \in DOMAIN capture :
             capture[k] \in Events /\ capture'[k] = ReadBack(format, capture[k])
    BY <1>1, <2>1, BinaryInherits DEF PathInv
  <2>3. PICK e \in Events : e = capture[i]
    BY <2>2
  <2>4. PICK f : f = ReadBack(format, e) /\ f = capture'[i]
    BY <2>2, <2>3
  <2>13. \A y \in Events : ReadBack(format, y).serial = y.serial /\ ~ReadBack(format, y).annotated
    <3>1. \A y \in Events : ReadBack("blf", y).serial = y.serial /\ ~ReadBack("blf", y).annotated
      BY BlfParts DEF Heir
    <3>2. \A y \in Events : ReadBack("mf4", y).serial = y.serial /\ ~ReadBack("mf4", y).annotated
      BY Mf4Parts DEF Heir
    <3>3. format = "blf" \/ format = "mf4"
      BY <2>1
    <3> QED
      BY <3>1, <3>2, <3>3
  <2>5. \A k \in DOMAIN capture' : capture'[k].serial = e.serial => k = i
    <3> SUFFICES ASSUME NEW k \in DOMAIN capture', capture'[k].serial = e.serial PROVE k = i
      OBVIOUS
    <3>1. capture'[k].serial = capture[k].serial
      <4>1. PICK y \in Events : y = capture[k] /\ capture'[k] = ReadBack(format, y)
        BY <2>2
      <4> QED
        BY <4>1, <2>13
    <3> QED
      BY <1>1, <2>2, <2>3, <3>1, SerialsDiffer
  <2>6. f.serial = e.serial /\ ~f.annotated
    BY <2>4, <2>13
  <2>7. {k \in DOMAIN capture' : capture'[k].serial = e.serial} = {i}
    BY <2>2, <2>4, <2>5, <2>6
  <2>8. Lost(e, capture') = Difference(e, f)
    BY <2>4, <2>7 DEF Lost
  <2>9. x \in Difference(e, f) /\ x \in {"annotated", "id", "class", "dlc", "fd", "fd_flags"}
    BY <2>3, <2>8 DEF Difference, FrameFields
  <2>10. Noted(i) = UNION {Covers[field] : field \in NotesOf(format, e)}
    BY <2>1, <2>3 DEF Noted, Rewrite
  <2>11. ASSUME x = "annotated" PROVE x \in Noted(i)
    <3>1. e.annotated
      <4>1. e.annotated # f.annotated
        BY <2>9, <2>11 DEF Difference, FrameFields
      <4>2. f.annotated \in BOOLEAN /\ e.annotated \in BOOLEAN
        <5>1. PICK y \in Events : y = e
          OBVIOUS
        <5> QED
          BY <2>4, <5>1, BlfParts, Mf4Parts, ZenonT(60) DEF Heir, Events
      <4> QED
        BY <2>6, <4>1, <4>2
    <3>2. "annotations" \in NotesOf(format, e)
      BY <3>1 DEF NotesOf, BlfNotes, Mf4Notes
    <3> QED
      BY <2>10, <2>11, <3>2 DEF Covers
  <2>12. ASSUME x # "annotated" PROVE x \in Noted(i)
    <3>1. e.frame[x] # f.frame[x]
      BY <2>9, <2>12 DEF Difference
    <3>2. CASE format = "mf4"
      BY <2>4, <3>1, <3>2, Mf4Parts
    <3>3. CASE format = "blf"
      <4>1. f.frame = [id |-> e.frame.id, class |-> e.frame.class,
                       dlc |-> AtMost(e.frame.dlc, 8), fd |-> FALSE, fd_flags |-> {}]
        BY <2>4, <3>3, BlfParts
      <4>2. x # "id" /\ x # "class"
        BY <3>1, <4>1
      <4>3. x \in {"dlc", "fd", "fd_flags"}
        BY <2>9, <2>12, <4>2
      <4>4. "payload" \in NotesOf(format, e)
        BY <3>3 DEF NotesOf, BlfNotes
      <4> QED
        BY <2>10, <4>3, <4>4 DEF Covers
    <3> QED
      BY <3>2, <3>3
  <2> QED
    BY <2>11, <2>12
<1>2. PathInv /\ [Next]_vars => [Noting]_vars
  BY <1>1
<1> QED
  BY <1>2, PathInvariant, PTL DEF Spec, FrameLossNoted
=============================================================================
