---------------------------- MODULE FramingProofs ----------------------------
(***************************************************************************)
(* Proofs about StreamFraming: for bodies, streams of lines and log texts  *)
(* of any length, cut into any pieces and broken off anywhere.             *)
(***************************************************************************)
EXTENDS StreamFraming, SequencePartsProofs

-----------------------------------------------------------------------------
\* Parts of a stream.

\* What a part of a stream consists of.
LEMMA PartShape ==
    ASSUME NEW b \in Seq(Int), NEW c \in Nat, NEW n \in Nat, c <= n, n <= Len(b)
    PROVE  /\ SubSeq(b, c + 1, n) \in Seq(Int)
           /\ Len(SubSeq(b, c + 1, n)) = n - c
           /\ \A i \in 1 .. n - c : SubSeq(b, c + 1, n)[i] = b[c + i]
OBVIOUS

\* A part of a part.
LEMMA PartOfStream ==
    ASSUME NEW b \in Seq(Int), NEW c \in Nat, NEW n \in Nat, c <= n, n <= Len(b)
    PROVE  LET p == SubSeq(b, c + 1, n) IN
           /\ p \in Seq(Int) /\ Len(p) = n - c
           /\ \A i \in 1 .. n - c : p[i] = b[c + i]
           /\ \A k \in 0 .. n - c : /\ Rest(p, k) = SubSeq(b, c + k + 1, n)
                                    /\ Left(p, k) = SubSeq(b, c + 1, c + k)
           /\ \A k \in 0 .. n - c, l \in 0 .. n - c :
                 k <= l => SubSeq(p, k + 1, l) = SubSeq(b, c + k + 1, c + l)
           /\ \A l \in n .. Len(b) : p \o SubSeq(b, n + 1, l) = SubSeq(b, c + 1, l)
<1> DEFINE p == SubSeq(b, c + 1, n)
<1>1. p \in Seq(Int) /\ Len(p) = n - c /\ \A i \in 1 .. n - c : p[i] = b[c + i]
  BY PartShape
<1>2. ASSUME NEW k \in 0 .. n - c, NEW l \in 0 .. n - c, k <= l
      PROVE  SubSeq(p, k + 1, l) = SubSeq(b, c + k + 1, c + l)
  <2> DEFINE x == SubSeq(p, k + 1, l)
             y == SubSeq(b, c + k + 1, c + l)
  <2>0. k \in Nat /\ l \in Nat /\ c + k \in Nat /\ c + l \in Nat /\ c + k <= c + l /\ c + l <= Len(b)
        /\ l <= Len(p) /\ (c + l) - (c + k) = l - k
    BY <1>1, <1>2
  <2>1. x \in Seq(Int) /\ Len(x) = l - k /\ \A i \in 1 .. l - k : x[i] = p[k + i]
    <3> HIDE DEF p
    <3> QED
      BY <1>1, <1>2, <2>0, PartShape, SMTT(30)
  <2>2. y \in Seq(Int) /\ Len(y) = l - k /\ \A i \in 1 .. l - k : y[i] = b[c + k + i]
    BY <2>0, PartShape
  <2>3. ASSUME NEW i \in 1 .. l - k PROVE x[i] = y[i]
    <3>1. k + i \in 1 .. n - c /\ c + (k + i) = c + k + i
      BY <1>2, <2>0
    <3> HIDE DEF p, x, y
    <3> QED
      BY <1>1, <2>1, <2>2, <3>1
  <2> HIDE DEF p, x, y
  <2>4. Len(x) = Len(y) /\ \A i \in 1 .. Len(y) : x[i] = y[i]
    BY <2>1, <2>2, <2>3
  <2>5. x = y
    BY <2>1, <2>2, <2>4, SameSequence
  <2> QED
    BY <2>5 DEF x, y
<1>3. ASSUME NEW k \in 0 .. n - c
      PROVE  Rest(p, k) = SubSeq(b, c + k + 1, n) /\ Left(p, k) = SubSeq(b, c + 1, c + k)
  <2>1. SubSeq(p, k + 1, n - c) = SubSeq(b, c + k + 1, c + (n - c))
    BY <1>2
  <2>2. SubSeq(p, 0 + 1, k) = SubSeq(b, c + 0 + 1, c + k)
    BY <1>2
  <2>3. 0 + 1 = 1 /\ c + 0 + 1 = c + 1 /\ c + (n - c) = n
    OBVIOUS
  <2> HIDE DEF p
  <2> QED
    BY <1>1, <2>1, <2>2, <2>3 DEF Rest, Left
<1>4. ASSUME NEW l \in n .. Len(b)
      PROVE  p \o SubSeq(b, n + 1, l) = SubSeq(b, c + 1, l)
  <2> DEFINE x == p \o SubSeq(b, n + 1, l)
             y == SubSeq(b, c + 1, l)
             z == SubSeq(b, n + 1, l)
  <2>0. l \in Nat /\ n <= l /\ c <= l /\ l <= Len(b)
    OBVIOUS
  <2>1. z \in Seq(Int) /\ Len(z) = l - n /\ \A i \in 1 .. l - n : z[i] = b[n + i]
    BY <2>0, PartShape
  <2>2. x \in Seq(Int) /\ Len(x) = l - c /\ \A i \in 1 .. l - c : x[i] = b[c + i]
    <3> HIDE DEF p, z
    <3>0. x = p \o z
      BY DEF z
    <3>1. /\ x \in Seq(Int) /\ Len(x) = l - c
          /\ \A i \in 1 .. Len(p) + Len(z) : x[i] = IF i <= Len(p) THEN p[i] ELSE z[i - Len(p)]
      <4>1. Len(p) + Len(z) = l - c
        BY <1>1, <2>0, <2>1
      <4>2. /\ p \o z \in Seq(Int) /\ Len(p \o z) = Len(p) + Len(z)
            /\ \A i \in 1 .. Len(p) + Len(z) : (p \o z)[i] = IF i <= Len(p) THEN p[i] ELSE z[i - Len(p)]
        BY <1>1, <2>1, ConcatShape
      <4> HIDE DEF x
      <4> QED
        BY <3>0, <4>1, <4>2
    <3> HIDE DEF x
    <3>2. ASSUME NEW i \in 1 .. l - c PROVE x[i] = b[c + i]
      <4>0. x[i] = IF i <= n - c THEN p[i] ELSE z[i - (n - c)]
        <5>1. i \in 1 .. Len(p) + Len(z)
          BY <1>1, <2>0, <2>1, SMTT(30)
        <5> HIDE DEF x
        <5> QED
          BY <1>1, <2>1, <3>1, <5>1
      <4>1. CASE i <= n - c
        BY <1>1, <4>0, <4>1
      <4>2. CASE i > n - c
        <5>1. i - (n - c) \in 1 .. l - n /\ n + (i - (n - c)) = c + i /\ ~(i <= n - c)
          BY <2>0, <4>2
        <5> HIDE DEF x
        <5> QED
          BY <2>1, <4>0, <5>1
      <4> QED
        BY <4>1, <4>2
    <3> QED
      BY <3>1, <3>2
  <2>3. y \in Seq(Int) /\ Len(y) = l - c /\ \A i \in 1 .. l - c : y[i] = b[c + i]
    BY <2>0, PartShape
  <2> HIDE DEF x, y
  <2>4. x = y
    BY <2>2, <2>3, SameSequence
  <2> QED
    BY <2>4 DEF x, y, z
<1> QED
  BY <1>1, <1>2, <1>3, <1>4

\* The least element that a definition chooses.
LEMMA ChosenLeast ==
    ASSUME NEW E \in SUBSET Nat, E # {}
    PROVE  LET m == CHOOSE i \in E : \A j \in E : i <= j IN m \in E /\ \A j \in E : m <= j
BY LeastNumber

-----------------------------------------------------------------------------
\* Lines of JSON.

JsonReaders == [buffer : Seq(Int), objects : Int, malformed : Int, dropped : Int, dropping : BOOLEAN]

LEMMA NewlineShape ==
    ASSUME NEW s \in Seq(Int)
    PROVE  \/ Newline(s) = 0 /\ \A i \in 1 .. Len(s) : s[i] # LF
           \/ /\ Newline(s) \in 1 .. Len(s) /\ s[Newline(s)] = LF
              /\ \A i \in 1 .. Newline(s) - 1 : s[i] # LF
<1> DEFINE E == {i \in 1 .. Len(s) : s[i] = LF}
           m == CHOOSE i \in E : \A j \in E : i <= j
<1>1. CASE E = {}
  BY <1>1 DEF Newline
<1>2. CASE E # {}
  <2>1. Newline(s) = m
    BY <1>2 DEF Newline
  <2>2. m \in E /\ \A j \in E : m <= j
    <3>1. E \in SUBSET Nat
      OBVIOUS
    <3> HIDE DEF E
    <3> QED
      BY <1>2, <3>1, ChosenLeast
  <2> HIDE DEF m
  <2>3. ASSUME NEW i \in 1 .. m - 1 PROVE s[i] # LF
    BY <2>2
  <2> QED
    BY <2>1, <2>2, <2>3
<1> QED
  BY <1>1, <1>2

\* The byte after a and those up to c belong to one line.
LineIs(b, a, c) ==
    a \in 0 .. c /\ (a = 0 \/ b[a] = LF) /\ \A k \in a + 1 .. c : b[k] # LF

LEMMA LineStartIs ==
    ASSUME NEW b \in Seq(Int), NEW c \in Nat, c <= Len(b), NEW a, LineIs(b, a, c)
    PROVE  /\ LineBefore(b, c + 1) = SubSeq(b, a + 1, c)
           /\ Len(LineBefore(b, c + 1)) = c - a
<1> DEFINE Good(j) == (j = 0 \/ b[j] = LF) /\ \A k \in j + 1 .. c : b[k] # LF
<1>1. a \in 0 .. c /\ Good(a)
  BY DEF LineIs
<1>2. ASSUME NEW j \in 0 .. c, Good(j) PROVE j = a
  <2>1. ~ (j < a)
    BY <1>1, <1>2
  <2>2. ~ (a < j)
    BY <1>1, <1>2
  <2> QED
    BY <1>1, <2>1, <2>2
<1>3. (c + 1) - 1 = c
  OBVIOUS
<1>4. LineStart(b, c + 1) = CHOOSE j \in 0 .. c : Good(j)
  BY <1>3 DEF LineStart
<1>5. LineStart(b, c + 1) = a
  <2> HIDE DEF Good
  <2> QED
    BY <1>1, <1>2, <1>4
<1>6. a \in Nat /\ a <= c
  BY <1>1
<1>7. LineBefore(b, c + 1) = SubSeq(b, a + 1, c)
  <2> HIDE DEF Good
  <2>1. LineBefore(b, c + 1) = SubSeq(b, LineStart(b, c + 1) + 1, (c + 1) - 1)
    BY DEF LineBefore
  <2> QED
    BY <1>3, <1>5, <2>1, Zenon
<1> QED
  BY <1>6, <1>7, PartShape

\* One more line.
LEMMA CountsGrow ==
    ASSUME NEW b, NEW ends, IsFiniteSet(ends), NEW i, i \notin ends
    PROVE  LET line == LineBefore(b, i)
               long == Len(line) > MaxLineBytes
               all  == ends \cup {i}
           IN  /\ Cardinality(Longs(b, all)) = Cardinality(Longs(b, ends)) + (IF long THEN 1 ELSE 0)
               /\ Cardinality(Objects(b, all))
                     = Cardinality(Objects(b, ends)) + (IF ~long /\ IsObject(line) THEN 1 ELSE 0)
               /\ Cardinality(Others(b, all))
                     = Cardinality(Others(b, ends))
                           + (IF ~long /\ ~IsObject(line) /\ ~IsBlank(line) THEN 1 ELSE 0)
<1> DEFINE line == LineBefore(b, i)
           long == Len(line) > MaxLineBytes
           all  == ends \cup {i}
<1>1. Longs(b, all) = IF long THEN Longs(b, ends) \cup {i} ELSE Longs(b, ends)
  BY DEF Longs
<1>2. Objects(b, all) = IF ~long /\ IsObject(line) THEN Objects(b, ends) \cup {i} ELSE Objects(b, ends)
  BY DEF Objects, Longs
<1>3. Others(b, all) = IF ~long /\ ~IsObject(line) /\ ~IsBlank(line)
                       THEN Others(b, ends) \cup {i} ELSE Others(b, ends)
  BY DEF Others, Longs
<1>4. /\ Longs(b, ends) \subseteq ends /\ Objects(b, ends) \subseteq ends /\ Others(b, ends) \subseteq ends
  BY DEF Longs, Objects, Others
<1>5. ASSUME NEW T \in SUBSET ends
      PROVE  /\ Cardinality(T) \in Nat /\ Cardinality(T \cup {i}) = Cardinality(T) + 1
  <2>1. IsFiniteSet(T) /\ i \notin T
    BY FS_Subset
  <2> QED
    BY <2>1, FS_AddElement, FS_CardinalityType
<1> HIDE DEF line, long, all
<1>6. Cardinality(Longs(b, all)) = Cardinality(Longs(b, ends)) + (IF long THEN 1 ELSE 0)
  BY <1>1, <1>4, <1>5
<1>7. Cardinality(Objects(b, all)) = Cardinality(Objects(b, ends)) + (IF ~long /\ IsObject(line) THEN 1 ELSE 0)
  BY <1>2, <1>4, <1>5
<1>8. Cardinality(Others(b, all))
         = Cardinality(Others(b, ends)) + (IF ~long /\ ~IsObject(line) /\ ~IsBlank(line) THEN 1 ELSE 0)
  BY <1>3, <1>4, <1>5
<1> QED
  BY <1>6, <1>7, <1>8 DEF line, long, all

\* A line with or without the carriage return at its end.
LEMMA LineIsConsumed ==
    ASSUME NEW r \in JsonReaders, NEW line \in Seq(Int)
    PROVE  LET t == ConsumeLine(r, line) IN
           /\ t \in JsonReaders
           /\ t.buffer = r.buffer /\ t.dropping = r.dropping /\ t.dropped = r.dropped
           /\ t.objects = r.objects + (IF IsObject(line) THEN 1 ELSE 0)
           /\ t.malformed = r.malformed + (IF ~IsObject(line) /\ ~IsBlank(line) THEN 1 ELSE 0)
<1> DEFINE size == Len(line)
           candidate == IF size > 0 /\ line[size] = CR THEN Left(line, size - 1) ELSE line
<1>1. IsBlank(candidate) = IsBlank(line) /\ IsObject(candidate) = IsObject(line)
  <2>1. CASE ~(size > 0 /\ line[size] = CR)
    BY <2>1
  <2>2. CASE size > 0 /\ line[size] = CR
    <3>1. candidate = SubSeq(line, 1, size - 1)
      BY <2>2 DEF Left
    <3>2. Len(candidate) = size - 1 /\ \A k \in 1 .. size - 1 : candidate[k] = line[k]
      BY <2>2, <3>1
    <3> HIDE DEF candidate
    <3>3. IsBlank(candidate) = IsBlank(line)
      BY <2>2, <3>2, SMTT(30) DEF IsBlank, Whitespace, CR
    <3>4. line[size] \in Whitespace /\ line[size] # LEFT_BRACE /\ line[size] # RIGHT_BRACE
      BY <2>2 DEF Whitespace, CR, LEFT_BRACE, RIGHT_BRACE
    <3>5. ASSUME IsObject(candidate) PROVE IsObject(line)
      <4>1. PICK i \in 1 .. size - 1, j \in 1 .. size - 1 :
               /\ i < j /\ candidate[i] = LEFT_BRACE /\ candidate[j] = RIGHT_BRACE
               /\ \A k \in 1 .. size - 1 : k \in {i, j} \/ candidate[k] \in Whitespace
        BY <3>2, <3>5 DEF IsObject
      <4>2. ASSUME NEW k \in 1 .. size PROVE k \in {i, j} \/ line[k] \in Whitespace
        <5>1. CASE k = size
          BY <3>4, <5>1
        <5>2. CASE k # size
          <6>1. k \in 1 .. size - 1
            BY <5>2
          <6> QED
            BY <3>2, <4>1, <6>1
        <5> QED
          BY <5>1, <5>2
      <4>3. i \in 1 .. size /\ j \in 1 .. size /\ line[i] = LEFT_BRACE /\ line[j] = RIGHT_BRACE
        BY <3>2, <4>1, SMTT(30)
      <4> QED
        BY <4>1, <4>2, <4>3 DEF IsObject
    <3>6. ASSUME IsObject(line) PROVE IsObject(candidate)
      <4>1. PICK i \in 1 .. size, j \in 1 .. size :
               /\ i < j /\ line[i] = LEFT_BRACE /\ line[j] = RIGHT_BRACE
               /\ \A k \in 1 .. size : k \in {i, j} \/ line[k] \in Whitespace
        BY <3>6 DEF IsObject
      <4>2. i \in 1 .. size - 1 /\ j \in 1 .. size - 1
        BY <3>4, <4>1
      <4>3. ASSUME NEW k \in 1 .. size - 1 PROVE k \in {i, j} \/ candidate[k] \in Whitespace
        BY <3>2, <4>1
      <4> QED
        BY <3>2, <4>1, <4>2, <4>3 DEF IsObject
    <3>7. IsObject(candidate) \in BOOLEAN /\ IsObject(line) \in BOOLEAN
      BY DEF IsObject
    <3> QED
      BY <3>3, <3>5, <3>6, <3>7
  <2> QED
    BY <2>1, <2>2
<1>2. ~ (IsBlank(line) /\ IsObject(line))
  BY SMTT(30) DEF IsBlank, IsObject, Whitespace, LF, CR, LEFT_BRACE, RIGHT_BRACE
<1>3. ConsumeLine(r, line)
        = CASE IsBlank(candidate)  -> r
            [] IsObject(candidate) -> [r EXCEPT !.objects = @ + 1]
            [] ~IsBlank(candidate) /\ ~IsObject(candidate) -> [r EXCEPT !.malformed = @ + 1]
  BY DEF ConsumeLine
<1> HIDE DEF candidate
<1>4. CASE IsBlank(line)
  <2>1. ConsumeLine(r, line) = r
    BY <1>1, <1>2, <1>3, <1>4
  <2> QED
    BY <1>2, <1>4, <2>1 DEF JsonReaders
<1>5. CASE IsObject(line)
  <2>1. ConsumeLine(r, line) = [r EXCEPT !.objects = @ + 1]
    BY <1>1, <1>2, <1>3, <1>5
  <2> QED
    BY <1>2, <1>5, <2>1, SMTT(30) DEF JsonReaders
<1>6. CASE ~IsBlank(line) /\ ~IsObject(line)
  <2>1. ConsumeLine(r, line) = [r EXCEPT !.malformed = @ + 1]
    BY <1>1, <1>2, <1>3, <1>6
  <2> QED
    BY <1>6, <2>1, SMTT(30) DEF JsonReaders
<1> QED
  BY <1>4, <1>5, <1>6

\* The reader has dealt with the first c bytes, and holds the others up to n; a is where the line
\* began that it is in.
JsonAt(b, n, q, a, c) ==
    /\ q \in JsonReaders
    /\ c \in 0 .. n /\ LineIs(b, a, c)
    /\ q.buffer = SubSeq(b, c + 1, n)
    /\ q.dropping = (a # c)
    /\ q.dropping => c - a > MaxLineBytes
    /\ q.objects = Cardinality(Objects(b, NewlinesTo(b, c)))
    /\ q.malformed = Cardinality(Others(b, NewlinesTo(b, c)))
    /\ q.dropped = Cardinality(Longs(b, NewlinesTo(b, c))) + (IF q.dropping THEN 1 ELSE 0)

\* A pass of the loop takes the bytes up to the next newline, if there is one.
LEMMA LineIsTaken ==
    ASSUME NEW b \in Seq(Int), NEW n \in Nat, n <= Len(b), NEW q, NEW a, NEW c, JsonAt(b, n, q, a, c)
    PROVE  \/ Newline(q.buffer) = 0 /\ TakeLine(q) = q
           \/ \E d \in c + 1 .. n : JsonAt(b, n, TakeLine(q), d, d)
<1> DEFINE i == Newline(q.buffer)
           d == c + i
           line == Left(q.buffer, i - 1)
           rest == [q EXCEPT !.buffer = Rest(@, i)]
<1>1. /\ q \in JsonReaders /\ c \in Nat /\ c <= n /\ a \in Nat /\ a <= c
      /\ q.buffer \in Seq(Int) /\ Len(q.buffer) = n - c /\ q.buffer = SubSeq(b, c + 1, n)
      /\ \A k \in 1 .. n - c : q.buffer[k] = b[c + k]
  <2>1. c \in Nat /\ c <= n /\ a \in Nat /\ a <= c /\ q \in JsonReaders /\ q.buffer = SubSeq(b, c + 1, n)
    BY DEF JsonAt, LineIs
  <2> QED
    BY <2>1, PartShape, SMTT(30)
<1>2. CASE i = 0
  BY <1>2 DEF TakeLine
<1>3. CASE i # 0
  <2>1. /\ i \in 1 .. n - c /\ b[d] = LF
        /\ \A k \in 1 .. i - 1 : b[c + k] # LF
    <3>1. i \in 1 .. n - c /\ q.buffer[i] = LF /\ \A k \in 1 .. i - 1 : q.buffer[k] # LF
      BY <1>1, <1>3, NewlineShape
    <3> HIDE DEF i
    <3>2. ASSUME NEW k \in 1 .. n - c PROVE q.buffer[k] = b[c + k]
      BY <1>1
    <3>3. ASSUME NEW k \in 1 .. i - 1 PROVE b[c + k] # LF
      <4>1. k \in 1 .. n - c
        BY <1>1, <3>1
      <4> QED
        BY <3>1, <3>2, <4>1
    <3> QED
      BY <3>1, <3>2, <3>3
  <2> HIDE DEF i
  <2>2. d \in c + 1 .. n /\ d \in Nat /\ (d - 1) + 1 = d /\ d - 1 \in Nat /\ d - 1 <= Len(b) /\ d <= Len(b)
    BY <1>1, <2>1
  <2>3. LineIs(b, a, d - 1)
    <3>1. a \in 0 .. d - 1 /\ (a = 0 \/ b[a] = LF) /\ \A k \in a + 1 .. c : b[k] # LF
      BY <1>1, <2>2 DEF JsonAt, LineIs
    <3>2. ASSUME NEW k \in a + 1 .. d - 1 PROVE b[k] # LF
      <4>1. CASE k <= c
        BY <1>1, <3>1, <4>1
      <4>2. CASE k > c
        <5>1. k - c \in 1 .. i - 1 /\ c + (k - c) = k
          BY <1>1, <2>1, <4>2
        <5> QED
          BY <2>1, <5>1
      <4> QED
        BY <1>1, <2>2, <4>1, <4>2
    <3> QED
      BY <3>1, <3>2 DEF LineIs
  <2>4. LineBefore(b, d) = SubSeq(b, a + 1, d - 1) /\ Len(LineBefore(b, d)) = (d - 1) - a
    <3>1. LineBefore(b, (d - 1) + 1) = SubSeq(b, a + 1, d - 1) /\ Len(LineBefore(b, (d - 1) + 1)) = (d - 1) - a
      BY <2>2, <2>3, LineStartIs
    <3> QED
      BY <2>2, <3>1
  <2>5. LineIs(b, d, d)
    BY <2>1, <2>2 DEF LineIs
  <2>6. NewlinesTo(b, d) = NewlinesTo(b, c) \cup {d}
    <3>1. ASSUME NEW k \in 1 .. d, b[k] = LF, k # d PROVE k \in 1 .. c
      <4>1. CASE k > c
        <5>0. i \in 1 .. n - c /\ c \in Nat /\ k \in 1 .. c + i /\ k # c + i
          BY <1>1, <2>1, <3>1
        <5>1. k - c \in 1 .. i - 1 /\ c + (k - c) = k
          BY <4>1, <5>0
        <5> QED
          BY <2>1, <3>1, <5>1
      <4> QED
        BY <1>1, <4>1
    <3>2. \A k \in 1 .. c : k \in 1 .. d
      BY <1>1, <2>2
    <3>3. d \in 1 .. d
      BY <2>2
    <3> HIDE DEF d
    <3> QED
      BY <2>1, <3>1, <3>2, <3>3 DEF NewlinesTo
  <2>7. d \notin NewlinesTo(b, c) /\ IsFiniteSet(NewlinesTo(b, c))
    <3>1. NewlinesTo(b, c) \in SUBSET (1 .. c) /\ d \notin 1 .. c
      BY <1>1, <2>2, SMTT(30) DEF NewlinesTo
    <3>2. IsFiniteSet(1 .. c)
      BY <1>1, FS_Interval
    <3> HIDE DEF d
    <3> QED
      BY <3>1, <3>2, FS_Subset
  <2> DEFINE text == LineBefore(b, d)
             long == Len(text) > MaxLineBytes
  <2>8. /\ Cardinality(Longs(b, NewlinesTo(b, d)))
              = Cardinality(Longs(b, NewlinesTo(b, c))) + (IF long THEN 1 ELSE 0)
        /\ Cardinality(Objects(b, NewlinesTo(b, d)))
              = Cardinality(Objects(b, NewlinesTo(b, c))) + (IF ~long /\ IsObject(text) THEN 1 ELSE 0)
        /\ Cardinality(Others(b, NewlinesTo(b, d)))
              = Cardinality(Others(b, NewlinesTo(b, c)))
                    + (IF ~long /\ ~IsObject(text) /\ ~IsBlank(text) THEN 1 ELSE 0)
    <3> DEFINE ends == NewlinesTo(b, c)
    <3>1. IsFiniteSet(ends) /\ d \notin ends /\ NewlinesTo(b, d) = ends \cup {d}
      BY <2>6, <2>7
    <3> HIDE DEF d, ends
    <3>2. /\ Cardinality(Longs(b, ends \cup {d})) = Cardinality(Longs(b, ends)) + (IF long THEN 1 ELSE 0)
          /\ Cardinality(Objects(b, ends \cup {d}))
                = Cardinality(Objects(b, ends)) + (IF ~long /\ IsObject(text) THEN 1 ELSE 0)
          /\ Cardinality(Others(b, ends \cup {d}))
                = Cardinality(Others(b, ends)) + (IF ~long /\ ~IsObject(text) /\ ~IsBlank(text) THEN 1 ELSE 0)
      BY <3>1, CountsGrow, ZenonT(30)
    <3> QED
      BY <3>1, <3>2 DEF ends
  <2>9. Rest(q.buffer, i) = SubSeq(b, d + 1, n) /\ Left(q.buffer, i - 1) = SubSeq(b, c + 1, d - 1)
        /\ Rest(q.buffer, i) \in Seq(Int)
    <3>1. i \in 0 .. n - c /\ i - 1 \in 0 .. n - c /\ c + (i - 1) = d - 1
      BY <1>1, <2>1
    <3>2. Rest(q.buffer, i) = SubSeq(b, c + i + 1, n) /\ Left(q.buffer, i - 1) = SubSeq(b, c + 1, c + (i - 1))
      BY <1>1, <3>1, PartOfStream, SMTT(30)
    <3>3. SubSeq(b, d + 1, n) \in Seq(Int)
      BY <2>2, PartShape
    <3> QED
      BY <3>1, <3>2, <3>3
  <2>10. rest \in JsonReaders /\ rest.buffer = SubSeq(b, d + 1, n) /\ rest.dropping = q.dropping
         /\ rest.objects = q.objects /\ rest.malformed = q.malformed /\ rest.dropped = q.dropped
    BY <1>1, <2>9 DEF JsonReaders
  <2>11. TakeLine(q) =
           IF q.dropping THEN [rest EXCEPT !.dropping = FALSE]
           ELSE IF Len(line) > MaxLineBytes THEN [rest EXCEPT !.dropped = @ + 1]
           ELSE ConsumeLine(rest, line)
    BY <1>1, <1>3 DEF TakeLine, JsonReaders, i
  <2>12. JsonAt(b, n, TakeLine(q), d, d)
    <3> DEFINE t == TakeLine(q)
    <3> SUFFICES /\ t \in JsonReaders /\ t.buffer = SubSeq(b, d + 1, n) /\ t.dropping = FALSE
                 /\ t.objects = q.objects + (IF ~long /\ IsObject(text) THEN 1 ELSE 0)
                 /\ t.malformed = q.malformed + (IF ~long /\ ~IsObject(text) /\ ~IsBlank(text) THEN 1 ELSE 0)
                 /\ t.dropped = q.dropped - (IF q.dropping THEN 1 ELSE 0) + (IF long THEN 1 ELSE 0)
      <4>1. /\ q.objects = Cardinality(Objects(b, NewlinesTo(b, c)))
            /\ q.malformed = Cardinality(Others(b, NewlinesTo(b, c)))
            /\ q.dropped = Cardinality(Longs(b, NewlinesTo(b, c))) + (IF q.dropping THEN 1 ELSE 0)
        BY DEF JsonAt
      <4>2. Cardinality(Longs(b, NewlinesTo(b, c))) \in Int
        <5>1. Longs(b, NewlinesTo(b, c)) \subseteq NewlinesTo(b, c)
          BY DEF Longs
        <5> QED
          BY <2>7, <5>1, FS_Subset, FS_CardinalityType
      <4>3. d \in 0 .. n
        BY <2>2
      <4>4. t.objects = Cardinality(Objects(b, NewlinesTo(b, d))) /\ t.malformed = Cardinality(Others(b, NewlinesTo(b, d)))
        <5> HIDE DEF text, long, d, t
        <5> QED
          BY <2>8, <4>1
      <4>5. t.dropped = Cardinality(Longs(b, NewlinesTo(b, d))) + 0
        <5> HIDE DEF text, long, d, t
        <5>1. CASE q.dropping
          BY <2>8, <4>1, <4>2, <5>1
        <5>2. CASE ~q.dropping
          BY <2>8, <4>1, <4>2, <5>2
        <5> QED
          BY <5>1, <5>2
      <4>6. (d # d) = FALSE
        OBVIOUS
      <4> HIDE DEF text, long, d, t
      <4>7. JsonAt(b, n, t, d, d)
        BY <2>5, <4>3, <4>4, <4>5, <4>6 DEF JsonAt
      <4> QED
        BY <4>7 DEF t
    <3>1. CASE q.dropping
      <4>1. long
        <5>1. c - a > MaxLineBytes
          BY <3>1 DEF JsonAt
        <5> QED
          BY <1>1, <2>2, <2>4, <5>1, MaxLineBytesAssumption, SMTT(30)
      <4> HIDE DEF rest, line, text, long, d
      <4>2. t = [rest EXCEPT !.dropping = FALSE]
        BY <2>11, <3>1
      <4> HIDE DEF t
      <4>3. t \in JsonReaders /\ t.buffer = rest.buffer /\ t.dropping = FALSE
            /\ t.objects = rest.objects /\ t.malformed = rest.malformed /\ t.dropped = rest.dropped
        BY <2>10, <4>2 DEF JsonReaders
      <4>4. q.dropped \in Int /\ q.objects \in Int /\ q.malformed \in Int
        BY <1>1 DEF JsonReaders
      <4> QED
        BY <2>10, <3>1, <4>1, <4>3, <4>4
    <3>2. CASE ~q.dropping
      <4>1. a = c
        BY <3>2 DEF JsonAt
      <4>2. line = text /\ text \in Seq(Int)
        <5>1. SubSeq(b, c + 1, d - 1) \in Seq(Int)
          BY <1>1, <2>2, PartShape
        <5> QED
          BY <2>4, <2>9, <4>1, <5>1
      <4> HIDE DEF rest, line, text, d
      <4>3. CASE long
        <5>1. t = [rest EXCEPT !.dropped = @ + 1]
          BY <2>11, <3>2, <4>2, <4>3
        <5> HIDE DEF t, long
        <5>2. t \in JsonReaders /\ t.buffer = rest.buffer /\ t.dropping = rest.dropping
              /\ t.objects = rest.objects /\ t.malformed = rest.malformed /\ t.dropped = rest.dropped + 1
          <6>1. rest \in JsonReaders
            BY <2>10
          <6> QED
            BY <5>1, <6>1 DEF JsonReaders
        <5>3. q.dropped \in Int /\ q.objects \in Int /\ q.malformed \in Int /\ q.dropping = FALSE
          BY <1>1, <3>2 DEF JsonReaders
        <5> QED
          BY <2>10, <4>3, <5>2, <5>3
      <4>4. CASE ~long
        <5>1. t = ConsumeLine(rest, text)
          BY <2>11, <3>2, <4>2, <4>4
        <5>2. /\ t \in JsonReaders
              /\ t.buffer = rest.buffer /\ t.dropping = rest.dropping /\ t.dropped = rest.dropped
              /\ t.objects = rest.objects + (IF IsObject(text) THEN 1 ELSE 0)
              /\ t.malformed = rest.malformed + (IF ~IsObject(text) /\ ~IsBlank(text) THEN 1 ELSE 0)
          BY <2>10, <4>2, <5>1, LineIsConsumed
        <5> HIDE DEF t, long
        <5>3. q.dropped \in Int /\ q.objects \in Int /\ q.malformed \in Int /\ q.dropping = FALSE
          BY <1>1, <3>2 DEF JsonReaders
        <5> QED
          BY <2>10, <4>4, <5>2, <5>3
      <4> QED
        BY <4>3, <4>4
    <3> QED
      BY <3>1, <3>2, <1>1 DEF JsonReaders
  <2> QED
    BY <2>2, <2>12
<1> QED
  BY <1>2, <1>3

\* The passes of the loop, one after the other.
LEMMA LinePasses ==
    ASSUME NEW r, Len(r.buffer) \in Nat
    PROVE  \E f : /\ TakeCompleteLines(r) = KeepRest(f[Len(r.buffer)])
                  /\ f[0] = r
                  /\ \A k \in 1 .. Len(r.buffer) : f[k] = TakeLine(f[k - 1])
<1> DEFINE n == Len(r.buffer)
           Def(f, m) == f = [k \in 0 .. m |-> IF k = 0 THEN r ELSE TakeLine(f[k - 1])]
           G == {m \in Nat : \E f : Def(f, m)}
           pass == CHOOSE f : Def(f, n)
<1>0. TakeCompleteLines(r) = KeepRest(pass[n])
  BY DEF TakeCompleteLines
<1> HIDE DEF pass
<1>1. 0 \in G
  <2>1. Def([k \in 0 .. 0 |-> r], 0)
    OBVIOUS
  <2> QED
    BY <2>1
<1>2. ASSUME NEW m \in Nat, m \in G PROVE m + 1 \in G
  <2>1. PICK f : Def(f, m)
    BY <1>2
  <2> DEFINE h == [k \in 0 .. m + 1 |-> IF k = m + 1 THEN TakeLine(f[m]) ELSE f[k]]
  <2>2. ASSUME NEW k \in 0 .. m + 1 PROVE h[k] = IF k = 0 THEN r ELSE TakeLine(h[k - 1])
    <3>1. CASE k \in 0 .. m
      <4>1. h[k] = f[k] /\ (k # 0 => h[k - 1] = f[k - 1])
        BY <3>1
      <4> HIDE DEF h
      <4> QED
        BY <2>1, <3>1, <4>1
    <3>2. CASE k = m + 1
      BY <3>2
    <3> QED
      BY <3>1, <3>2
  <2>3. h = [k \in 0 .. m + 1 |-> IF k = 0 THEN r ELSE TakeLine(h[k - 1])]
    BY <2>2
  <2> HIDE DEF h
  <2>4. \E g : Def(g, m + 1)
    BY <2>3
  <2> HIDE DEF Def
  <2> QED
    BY <2>4
<1> HIDE DEF Def
<1>3. n \in G
  <2> HIDE DEF G, n
  <2>1. n \in Nat
    BY DEF n
  <2> QED
    BY <1>1, <1>2, <2>1, NatSetInduction
<1>4. Def(pass, n)
  BY <1>3 DEF pass
<1>5. pass = [k \in 0 .. n |-> IF k = 0 THEN r ELSE TakeLine(pass[k - 1])]
  BY <1>4 DEF Def
<1>6. pass[0] = r /\ \A k \in 1 .. n : pass[k] = TakeLine(pass[k - 1])
  <2>1. n \in Nat
    OBVIOUS
  <2>2. 0 \in 0 .. n /\ \A k \in 1 .. n : k \in 0 .. n /\ k # 0
    BY <2>1
  <2> HIDE DEF n
  <2> QED
    BY <1>5, <2>2
<1> QED
  BY <1>0, <1>6

\* Between two pieces the reader holds the beginning of the last line, unless it is too long.
JsonRests(b, n, q) ==
    \E a, c \in Nat :
        /\ JsonAt(b, n, q, a, c)
        /\ \A k \in c + 1 .. n : b[k] # LF
        /\ IF a = c THEN n - c <= MaxLineBytes ELSE c = n

\* The rest after the last newline.
LEMMA RestIsKept ==
    ASSUME NEW b \in Seq(Int), NEW n \in Nat, n <= Len(b), NEW q, NEW a, NEW c, JsonAt(b, n, q, a, c),
           Newline(q.buffer) = 0
    PROVE  JsonRests(b, n, KeepRest(q))
<1> DEFINE t == KeepRest(q)
<1>1. /\ q \in JsonReaders /\ c \in Nat /\ c <= n /\ a \in Nat /\ a <= c /\ n \in 0 .. n
      /\ q.buffer \in Seq(Int) /\ Len(q.buffer) = n - c /\ q.buffer = SubSeq(b, c + 1, n)
      /\ \A k \in 1 .. n - c : q.buffer[k] = b[c + k]
  <2>1. c \in Nat /\ c <= n /\ a \in Nat /\ a <= c /\ q \in JsonReaders /\ q.buffer = SubSeq(b, c + 1, n)
    BY DEF JsonAt, LineIs
  <2> QED
    BY <2>1, PartShape, SMTT(30)
<1>2. ASSUME NEW k \in c + 1 .. n PROVE b[k] # LF
  <2>1. k - c \in 1 .. n - c /\ c + (k - c) = k
    BY <1>1
  <2>2. \A i \in 1 .. n - c : q.buffer[i] # LF
    <3>0. q.buffer \in Seq(Int)
      BY <1>1
    <3>1. \A i \in 1 .. Len(q.buffer) : q.buffer[i] # LF
      BY <3>0, NewlineShape
    <3> QED
      BY <1>1, <3>1
  <2> QED
    BY <1>1, <2>1, <2>2
<1>3. CASE a = c /\ n - c <= MaxLineBytes
  <2>1. t = q
    <3>1. q.dropping = FALSE
      BY <1>3 DEF JsonAt
    <3> QED
      BY <1>1, <1>3, <3>1, MaxLineBytesAssumption DEF KeepRest
  <2>2. JsonAt(b, n, t, a, c)
    BY <2>1
  <2> HIDE DEF t
  <2>3. JsonRests(b, n, t)
    BY <1>1, <1>2, <1>3, <2>2 DEF JsonRests
  <2> QED
    BY <2>3 DEF t
<1>4. CASE a # c \/ n - c > MaxLineBytes
  <2>1. LineIs(b, a, n)
    <3>1. a \in 0 .. n /\ (a = 0 \/ b[a] = LF) /\ \A k \in a + 1 .. c : b[k] # LF
      BY <1>1 DEF JsonAt, LineIs
    <3>2. ASSUME NEW k \in a + 1 .. n PROVE b[k] # LF
      BY <1>1, <1>2, <3>1, SMTT(30)
    <3> QED
      BY <3>1, <3>2 DEF LineIs
  <2>2. NewlinesTo(b, n) = NewlinesTo(b, c)
    BY <1>1, <1>2 DEF NewlinesTo
  <2>3. n - a > MaxLineBytes /\ a # n
    <3>1. a # c => c - a > MaxLineBytes
      BY DEF JsonAt
    <3> QED
      BY <1>1, <1>4, <3>1, MaxLineBytesAssumption
  <2>4. SubSeq(b, n + 1, n) = <<>>
    OBVIOUS
  <2>5. t = IF q.dropping THEN [q EXCEPT !.buffer = <<>>]
            ELSE [q EXCEPT !.buffer = <<>>, !.dropping = TRUE, !.dropped = @ + 1]
    BY <1>1, <1>4 DEF KeepRest, JsonAt
  <2> HIDE DEF t
  <2>6. /\ t \in JsonReaders /\ t.buffer = <<>> /\ t.dropping = TRUE
        /\ t.objects = q.objects /\ t.malformed = q.malformed
        /\ t.dropped = q.dropped + (IF q.dropping THEN 0 ELSE 1)
    <3>0. q \in JsonReaders /\ <<>> \in Seq(Int)
      BY <1>1
    <3>1. CASE q.dropping
      <4>1. t = [q EXCEPT !.buffer = <<>>]
        BY <2>5, <3>1
      <4>2. t \in JsonReaders
        BY <3>0, <4>1 DEF JsonReaders
      <4> QED
        BY <3>0, <3>1, <4>1, <4>2 DEF JsonReaders
    <3>2. CASE ~q.dropping
      <4>1. t = [q EXCEPT !.buffer = <<>>, !.dropping = TRUE, !.dropped = @ + 1]
        BY <2>5, <3>2
      <4>2. t \in JsonReaders
        <5>1. q.dropped + 1 \in Int
          BY <3>0 DEF JsonReaders
        <5> QED
          BY <3>0, <4>1, <5>1 DEF JsonReaders
      <4> QED
        BY <3>0, <3>2, <4>1, <4>2 DEF JsonReaders
    <3> QED
      BY <3>1, <3>2
  <2>7. /\ t.objects = Cardinality(Objects(b, NewlinesTo(b, n)))
        /\ t.malformed = Cardinality(Others(b, NewlinesTo(b, n)))
    BY <2>2, <2>6 DEF JsonAt
  <2>8. t.dropped = Cardinality(Longs(b, NewlinesTo(b, n))) + 1
    <3>1. q.dropped = Cardinality(Longs(b, NewlinesTo(b, n))) + (IF q.dropping THEN 1 ELSE 0)
      BY <2>2 DEF JsonAt
    <3>2. Cardinality(Longs(b, NewlinesTo(b, n))) \in Int
      <4>1. Longs(b, NewlinesTo(b, n)) \subseteq 1 .. n
        BY DEF Longs, NewlinesTo
      <4>2. IsFiniteSet(1 .. n)
        BY FS_Interval
      <4> QED
        BY <4>1, <4>2, FS_Subset, FS_CardinalityType
    <3>3. CASE q.dropping
      BY <2>6, <3>1, <3>2, <3>3
    <3>4. CASE ~q.dropping
      BY <2>6, <3>1, <3>2, <3>4
    <3> QED
      BY <3>3, <3>4
  <2>9. JsonAt(b, n, t, a, n)
    BY <1>1, <2>1, <2>3, <2>4, <2>6, <2>7, <2>8 DEF JsonAt
  <2>10. JsonRests(b, n, t)
    <3>1. \A k \in n + 1 .. n : b[k] # LF
      OBVIOUS
    <3> QED
      BY <1>1, <2>3, <2>9, <3>1 DEF JsonRests
  <2> QED
    BY <2>10 DEF t
<1> QED
  BY <1>1, <1>3, <1>4, MaxLineBytesAssumption

\* The loop deals with every line that is complete.
LEMMA LinesAreTaken ==
    ASSUME NEW b \in Seq(Int), NEW n \in Nat, n <= Len(b), NEW r, NEW a0, NEW c0, JsonAt(b, n, r, a0, c0)
    PROVE  JsonRests(b, n, TakeCompleteLines(r))
<1> DEFINE L == Len(r.buffer)
<1>1. c0 \in Nat /\ c0 <= n /\ L = n - c0 /\ L \in Nat
  <2>1. c0 \in Nat /\ c0 <= n /\ r.buffer = SubSeq(b, c0 + 1, n)
    BY DEF JsonAt
  <2> QED
    BY <2>1, PartShape
<1>2. PICK f : /\ TakeCompleteLines(r) = KeepRest(f[L])
               /\ f[0] = r
               /\ \A k \in 1 .. L : f[k] = TakeLine(f[k - 1])
  BY <1>1, LinePasses
<1>4. f[0] = r /\ \A k \in 1 .. L : f[k] = TakeLine(f[k - 1])
  BY <1>2
<1> HIDE DEF L
<1> DEFINE Good(k, x, d) == JsonAt(b, n, f[k], x, d) /\ (Newline(f[k].buffer) = 0 \/ d >= c0 + k)
           G == {k \in Nat : k <= L => \E x, d \in Nat : Good(k, x, d)}
<1>5. 0 \in G
  <2>1. Good(0, a0, c0) /\ a0 \in Nat /\ c0 \in Nat
    BY <1>1, <1>4 DEF JsonAt, LineIs
  <2> HIDE DEF Good
  <2> QED
    BY <2>1
<1>6. ASSUME NEW k \in Nat, k \in G PROVE k + 1 \in G
  <2> SUFFICES ASSUME k + 1 <= L PROVE \E x, d \in Nat : Good(k + 1, x, d)
    OBVIOUS
  <2>1. PICK x \in Nat, d \in Nat : Good(k, x, d)
    BY <1>1, <1>6
  <2>2. f[k + 1] = TakeLine(f[k])
    <3>1. k + 1 \in 1 .. L /\ (k + 1) - 1 = k
      BY <1>1
    <3> QED
      BY <1>4, <3>1
  <2>3. CASE Newline(f[k].buffer) = 0
    <3>1. f[k + 1] = f[k]
      BY <2>2, <2>3 DEF TakeLine
    <3>2. Good(k + 1, x, d)
      BY <2>1, <2>3, <3>1
    <3> HIDE DEF Good
    <3> QED
      BY <3>2
  <2>4. CASE Newline(f[k].buffer) # 0
    <3>1. JsonAt(b, n, f[k], x, d)
      BY <2>1
    <3>2. PICK e \in d + 1 .. n : JsonAt(b, n, f[k + 1], e, e)
      BY <2>2, <2>4, <3>1, LineIsTaken
    <3>3. Good(k + 1, e, e) /\ e \in Nat
      <4>1. d >= c0 + k
        BY <2>1, <2>4
      <4>2. e \in Nat /\ e >= c0 + (k + 1)
        BY <1>1, <4>1, <3>2
      <4> QED
        BY <3>2, <4>2
    <3> HIDE DEF Good
    <3> QED
      BY <3>3
  <2> QED
    BY <2>3, <2>4
<1>7. L \in G
  <2> HIDE DEF G
  <2> QED
    BY <1>1, <1>5, <1>6, NatSetInduction
<1>8. PICK x \in Nat, d \in Nat : Good(L, x, d)
  BY <1>1, <1>7
<1>9. Newline(f[L].buffer) = 0
  <2>1. CASE d >= c0 + L
    <3>1. d \in 0 .. n /\ f[L].buffer = SubSeq(b, d + 1, n)
      BY <1>8 DEF JsonAt
    <3>2. d = n
      BY <1>1, <2>1, <3>1
    <3>3. f[L].buffer \in Seq(Int) /\ Len(f[L].buffer) = 0
      BY <3>1, <3>2, PartShape
    <3> QED
      BY <3>3, NewlineShape
  <2> QED
    BY <1>8, <2>1
<1> QED
  BY <1>2, <1>8, <1>9, RestIsKept


\* What a reader reports of the lines that end at ends, and of the too long ones that end at cuts.
JsonReports(b, q, ends, cuts) ==
    /\ q.objects = Cardinality(Objects(b, ends))
    /\ q.malformed = Cardinality(Others(b, ends))
    /\ q.dropped = Cardinality(Longs(b, cuts))

\* The last line, complete or not, at rest.
LEMMA LastLine ==
    ASSUME NEW b \in Seq(Int), NEW n \in Nat, n <= Len(b), NEW q, NEW a \in Nat, NEW c \in Nat, JsonAt(b, n, q, a, c),
           \A k \in c + 1 .. n : b[k] # LF,
           IF a = c THEN n - c <= MaxLineBytes ELSE c = n
    PROVE  LET newlines == NewlinesTo(b, n)
               last     == LineBefore(b, n + 1)
               ends     == newlines \cup {n + 1}
           IN  /\ q \in JsonReaders /\ q.buffer \in Seq(Int) /\ Len(q.buffer) = n - c
               /\ (Len(last) > MaxLineBytes) = q.dropping
               /\ ~q.dropping => last = q.buffer /\ Len(q.buffer) <= MaxLineBytes
               /\ JsonReports(b, q, newlines, ends)
               /\ Cardinality(Objects(b, ends))
                     = q.objects + (IF ~q.dropping /\ IsObject(last) THEN 1 ELSE 0)
               /\ Cardinality(Others(b, ends))
                     = q.malformed + (IF ~q.dropping /\ ~IsObject(last) /\ ~IsBlank(last) THEN 1 ELSE 0)
<1> DEFINE newlines == NewlinesTo(b, n)
           last == LineBefore(b, n + 1)
           ends == newlines \cup {n + 1}
<1>1. /\ q \in JsonReaders /\ c <= n /\ a <= c /\ LineIs(b, a, c) /\ q.buffer = SubSeq(b, c + 1, n)
      /\ q.dropping = (a # c) /\ (a # c => c - a > MaxLineBytes)
  <2>1. /\ q \in JsonReaders /\ c \in 0 .. n /\ LineIs(b, a, c) /\ q.buffer = SubSeq(b, c + 1, n)
        /\ q.dropping = (a # c) /\ (q.dropping => c - a > MaxLineBytes)
    BY DEF JsonAt
  <2>2. a \in 0 .. c
    BY <2>1 DEF LineIs
  <2>3. a <= c /\ c <= n
    BY <2>1, <2>2
  <2> QED
    BY <2>1, <2>3, Zenon
<1>2. q.buffer \in Seq(Int) /\ Len(q.buffer) = n - c
  BY <1>1, PartShape
<1>3. newlines = NewlinesTo(b, c)
  BY <1>1 DEF NewlinesTo
<1>4. LineIs(b, a, n)
  <2>1. a \in 0 .. n /\ (a = 0 \/ b[a] = LF) /\ \A k \in a + 1 .. c : b[k] # LF
    BY <1>1 DEF LineIs
  <2>2. ASSUME NEW k \in a + 1 .. n PROVE b[k] # LF
    BY <1>1, <2>1
  <2> QED
    BY <2>1, <2>2 DEF LineIs
<1>5. last = SubSeq(b, a + 1, n) /\ Len(last) = n - a
  BY <1>4, LineStartIs
<1>6. (Len(last) > MaxLineBytes) = q.dropping
  <2>1. CASE a = c
    BY <1>1, <1>5, <2>1, MaxLineBytesAssumption
  <2>2. CASE a # c
    BY <1>1, <1>5, <2>2, MaxLineBytesAssumption
  <2> QED
    BY <2>1, <2>2
<1>7. ~q.dropping => last = q.buffer /\ Len(q.buffer) <= MaxLineBytes
  BY <1>1, <1>2, <1>5
<1>8. IsFiniteSet(newlines) /\ n + 1 \notin newlines
  <2>1. newlines \subseteq 1 .. n /\ IsFiniteSet(1 .. n) /\ n + 1 \notin 1 .. n
    BY FS_Interval DEF NewlinesTo
  <2> HIDE DEF newlines
  <2> QED
    BY <2>1, FS_Subset
<1> HIDE DEF newlines, last
<1>9. /\ Cardinality(Longs(b, ends)) = Cardinality(Longs(b, newlines)) + (IF q.dropping THEN 1 ELSE 0)
      /\ Cardinality(Objects(b, ends))
            = Cardinality(Objects(b, newlines)) + (IF ~q.dropping /\ IsObject(last) THEN 1 ELSE 0)
      /\ Cardinality(Others(b, ends))
            = Cardinality(Others(b, newlines)) + (IF ~q.dropping /\ ~IsObject(last) /\ ~IsBlank(last) THEN 1 ELSE 0)
  <2> DEFINE text == LineBefore(b, n + 1)
             long == Len(text) > MaxLineBytes
  <2>1. /\ Cardinality(Longs(b, ends)) = Cardinality(Longs(b, newlines)) + (IF long THEN 1 ELSE 0)
        /\ Cardinality(Objects(b, ends))
              = Cardinality(Objects(b, newlines)) + (IF ~long /\ IsObject(text) THEN 1 ELSE 0)
        /\ Cardinality(Others(b, ends))
              = Cardinality(Others(b, newlines)) + (IF ~long /\ ~IsObject(text) /\ ~IsBlank(text) THEN 1 ELSE 0)
    BY <1>8, CountsGrow, ZenonT(30)
  <2>2. text = last
    BY DEF last
  <2>3. long = q.dropping
    BY <1>6, <2>2
  <2> HIDE DEF text, long, ends
  <2> QED
    BY <2>1, <2>2, <2>3
<1>10. /\ q.objects = Cardinality(Objects(b, newlines)) /\ q.malformed = Cardinality(Others(b, newlines))
       /\ q.dropped = Cardinality(Longs(b, newlines)) + (IF q.dropping THEN 1 ELSE 0)
  BY <1>3 DEF JsonAt
<1> HIDE DEF ends
<1>11. /\ JsonReports(b, q, newlines, ends)
       /\ Cardinality(Objects(b, ends)) = q.objects + (IF ~q.dropping /\ IsObject(last) THEN 1 ELSE 0)
       /\ Cardinality(Others(b, ends))
             = q.malformed + (IF ~q.dropping /\ ~IsObject(last) /\ ~IsBlank(last) THEN 1 ELSE 0)
  BY <1>9, <1>10 DEF JsonReports
<1> QED
  BY <1>1, <1>2, <1>6, <1>7, <1>11 DEF newlines, last, ends

\* A piece of the stream.
LEMMA LinesAreFed ==
    ASSUME NEW b \in Seq(Int), NEW n \in Nat, NEW l \in Nat, n <= l, l <= Len(b), NEW q, JsonRests(b, n, q)
    PROVE  JsonRests(b, l, JsonFeed(q, SubSeq(b, n + 1, l)))
<1>1. PICK a \in Nat, c \in Nat : JsonAt(b, n, q, a, c)
  BY DEF JsonRests
<1> DEFINE piece == SubSeq(b, n + 1, l)
           r == [q EXCEPT !.buffer = @ \o piece]
<1>2. q \in JsonReaders /\ c <= n /\ q.buffer = SubSeq(b, c + 1, n)
  BY <1>1 DEF JsonAt
<1>3. q.buffer \o piece = SubSeq(b, c + 1, l) /\ SubSeq(b, c + 1, l) \in Seq(Int)
  <2>1. l \in n .. Len(b) /\ n <= Len(b) /\ c <= l
    BY <1>2
  <2>2. SubSeq(b, c + 1, n) \o piece = SubSeq(b, c + 1, l)
    BY <1>2, <2>1, PartOfStream, SMTT(20), ZenonT(20)
  <2> QED
    BY <1>2, <2>1, <2>2, PartShape
<1> HIDE DEF piece
<1>4. /\ r \in JsonReaders /\ r.buffer = SubSeq(b, c + 1, l) /\ r.dropping = q.dropping
      /\ r.objects = q.objects /\ r.malformed = q.malformed /\ r.dropped = q.dropped
  BY <1>2, <1>3 DEF JsonReaders
<1>5. JsonFeed(q, piece) = TakeCompleteLines(r)
  BY DEF JsonFeed
<1> HIDE DEF r
<1>6. JsonAt(b, l, r, a, c)
  <2>1. c \in 0 .. l
    BY <1>2
  <2> QED
    BY <1>1, <1>4, <2>1 DEF JsonAt
<1>7. JsonRests(b, l, TakeCompleteLines(r))
  BY <1>6, LinesAreTaken
<1> QED
  BY <1>5, <1>7 DEF piece

\* What is known while the stream goes on.
LEMMA LinesAreReported ==
    ASSUME NEW b \in Seq(Int), NEW n \in Nat, n <= Len(b), NEW q, JsonRests(b, n, q)
    PROVE  JsonReports(b, q, NewlinesTo(b, n), NewlinesTo(b, n) \cup {n + 1})
<1>1. PICK a \in Nat, c \in Nat : /\ JsonAt(b, n, q, a, c)
                                  /\ \A k \in c + 1 .. n : b[k] # LF
                                  /\ IF a = c THEN n - c <= MaxLineBytes ELSE c = n
  BY DEF JsonRests
<1> QED
  BY <1>1, LastLine

\* What the end of the stream adds.
LEMMA LinesAreFinished ==
    ASSUME NEW b \in Seq(Int), NEW n \in Nat, n <= Len(b), NEW q, JsonRests(b, n, q)
    PROVE  JsonReports(b, JsonFinish(q), NewlinesTo(b, n) \cup {n + 1}, NewlinesTo(b, n) \cup {n + 1})
<1> DEFINE t == JsonFinish(q)
           last == LineBefore(b, n + 1)
           ends == NewlinesTo(b, n) \cup {n + 1}
<1>1. PICK a \in Nat, c \in Nat : /\ JsonAt(b, n, q, a, c)
                                  /\ \A k \in c + 1 .. n : b[k] # LF
                                  /\ IF a = c THEN n - c <= MaxLineBytes ELSE c = n
  BY DEF JsonRests
<1>2. /\ q \in JsonReaders /\ q.buffer \in Seq(Int)
      /\ (Len(last) > MaxLineBytes) = q.dropping
      /\ ~q.dropping => last = q.buffer /\ Len(q.buffer) <= MaxLineBytes
      /\ JsonReports(b, q, NewlinesTo(b, n), ends)
      /\ Cardinality(Objects(b, ends)) = q.objects + (IF ~q.dropping /\ IsObject(last) THEN 1 ELSE 0)
      /\ Cardinality(Others(b, ends))
            = q.malformed + (IF ~q.dropping /\ ~IsObject(last) /\ ~IsBlank(last) THEN 1 ELSE 0)
  BY <1>1, LastLine, ZenonT(30)
<1>3. q.dropped = Cardinality(Longs(b, ends))
  BY <1>2 DEF JsonReports
<1> HIDE DEF last, ends
<1> SUFFICES /\ t.objects = q.objects + (IF ~q.dropping /\ IsObject(last) THEN 1 ELSE 0)
             /\ t.malformed = q.malformed + (IF ~q.dropping /\ ~IsObject(last) /\ ~IsBlank(last) THEN 1 ELSE 0)
             /\ t.dropped = q.dropped
  <2> HIDE DEF t
  <2>1. JsonReports(b, t, ends, ends)
    BY <1>2, <1>3 DEF JsonReports
  <2> QED
    BY <2>1 DEF t, ends
<1>4. q.objects \in Int /\ q.malformed \in Int /\ q.dropped \in Int
  BY <1>2 DEF JsonReaders
<1>5. CASE q.dropping
  <2>1. t = [q EXCEPT !.buffer = <<>>, !.dropping = FALSE]
    BY <1>5 DEF JsonFinish
  <2> HIDE DEF t
  <2>2. t.objects = q.objects /\ t.malformed = q.malformed /\ t.dropped = q.dropped
    BY <1>2, <2>1 DEF JsonReaders
  <2> QED
    BY <1>4, <1>5, <2>2
<1>6. CASE ~q.dropping /\ q.buffer = <<>>
  <2>1. t = [q EXCEPT !.buffer = <<>>, !.dropping = FALSE]
    BY <1>6 DEF JsonFinish
  <2> HIDE DEF t
  <2>2. t.objects = q.objects /\ t.malformed = q.malformed /\ t.dropped = q.dropped
    BY <1>2, <2>1 DEF JsonReaders
  <2>3. IsBlank(last) /\ ~IsObject(last)
    <3>1. last = <<>> /\ Len(last) = 0
      BY <1>2, <1>6
    <3> QED
      BY <3>1 DEF IsBlank, IsObject
  <2> QED
    BY <1>4, <1>6, <2>2, <2>3
<1>7. CASE ~q.dropping /\ q.buffer # <<>>
  <2> DEFINE m == ConsumeLine(q, q.buffer)
  <2>0. Len(q.buffer) <= MaxLineBytes /\ ~(Len(q.buffer) > MaxLineBytes)
    BY <1>2, <1>7, MaxLineBytesAssumption
  <2>1. t = [m EXCEPT !.buffer = <<>>, !.dropping = FALSE]
    BY <1>7, <2>0 DEF JsonFinish
  <2>2. /\ m \in JsonReaders
        /\ m.dropped = q.dropped
        /\ m.objects = q.objects + (IF IsObject(last) THEN 1 ELSE 0)
        /\ m.malformed = q.malformed + (IF ~IsObject(last) /\ ~IsBlank(last) THEN 1 ELSE 0)
    <3>1. last = q.buffer
      BY <1>2, <1>7
    <3> QED
      BY <1>2, <3>1, LineIsConsumed
  <2> HIDE DEF m, t
  <2>3. t.objects = m.objects /\ t.malformed = m.malformed /\ t.dropped = m.dropped
    BY <2>1, <2>2 DEF JsonReaders
  <2> QED
    BY <1>4, <1>7, <2>2, <2>3
<1> QED
  BY <1>5, <1>6, <1>7

-----------------------------------------------------------------------------
\* Responses.

ParserStates == {"StatusLine", "Headers", "Body", "ChunkSize", "ChunkData", "ChunkTerminator", "Trailers",
                 "Complete", "Failed"}
BodyModes == {"None", "Chunked", "ContentLength", "UntilEof"}
Parsers ==
    [state : ParserStates, mode : BodyModes, buffer : Seq(Int), body : Seq(Int), taken : Nat, expected : Int,
     headers : SUBSET Int, status : Int]

\* A line of no symbols or of one, among what is left of a response.
LEMMA LineEndIs ==
    ASSUME NEW b \in Seq(Int), NEW c \in Nat, NEW n \in Nat, c <= n, n <= Len(b),
           NEW len \in 0 .. 1, b[c + len + 1] = CR, b[c + len + 2] = LF, len = 1 => b[c + 1] # CR
    PROVE  LineEnd(SubSeq(b, c + 1, n)) = IF n >= c + len + 2 THEN len + 1 ELSE 0
<1> DEFINE s == SubSeq(b, c + 1, n)
           E == {i \in 1 .. Len(s) - 1 : s[i] = CR /\ s[i + 1] = LF}
           m == CHOOSE i \in E : \A j \in E : i <= j
<1>1. s \in Seq(Int) /\ Len(s) = n - c /\ \A i \in 1 .. n - c : s[i] = b[c + i]
  BY PartShape
<1>2. LineEnd(s) = IF E = {} THEN 0 ELSE m
  BY DEF LineEnd
<1>3. ASSUME NEW i \in E PROVE i \in Nat /\ i >= len + 1 /\ i + 1 <= n - c
  <2>1. i \in 1 .. n - c - 1 /\ s[i] = CR
    BY <1>1
  <2>2. s[i] = b[c + i]
    BY <1>1, <2>1
  <2>3. CASE len = 0
    BY <2>1, <2>3
  <2>4. CASE len = 1
    <3>1. i # 1
      BY <2>1, <2>2, <2>4
    <3> QED
      BY <2>1, <2>4, <3>1
  <2> QED
    BY <2>3, <2>4
<1>4. CASE n >= c + len + 2
  <2>1. len + 1 \in E
    <3>1. len + 1 \in 1 .. Len(s) - 1 /\ len + 1 \in 1 .. n - c /\ len + 2 \in 1 .. n - c
          /\ (len + 1) + 1 = len + 2 /\ c + (len + 1) = c + len + 1 /\ c + (len + 2) = c + len + 2
      BY <1>1, <1>4
    <3>2. s[len + 1] = CR /\ s[len + 2] = LF
      <4> HIDE DEF s
      <4> QED
        BY <1>1, <3>1
    <3> HIDE DEF s
    <3> QED
      BY <3>1, <3>2
  <2>2. m \in E /\ \A j \in E : m <= j
    <3>1. E \in SUBSET Nat
      BY <1>3
    <3> HIDE DEF E
    <3> QED
      BY <2>1, <3>1, ChosenLeast
  <2>3. m = len + 1
    <3>1. m \in Nat /\ m >= len + 1 /\ m <= len + 1
      <4> HIDE DEF m, E
      <4> QED
        BY <1>3, <2>1, <2>2
    <3> HIDE DEF m
    <3> QED
      BY <3>1
  <2> HIDE DEF m, E, s
  <2>4. LineEnd(s) = len + 1
    BY <1>2, <2>1, <2>3
  <2> QED
    BY <1>4, <2>4 DEF s
<1>5. CASE ~(n >= c + len + 2)
  <2>1. E = {}
    <3> SUFFICES ASSUME NEW i \in E PROVE FALSE
      OBVIOUS
    <3> HIDE DEF E
    <3> QED
      BY <1>3, <1>5
  <2> HIDE DEF m, E, s
  <2>2. LineEnd(s) = 0
    BY <1>2, <2>1
  <2> QED
    BY <1>5, <2>2 DEF s
<1> QED
  BY <1>4, <1>5

LineOf(p) == Left(p.buffer, LineEnd(p.buffer) - 1)
Beyond(p) == Consume(p, Len(LineOf(p)) + 2)

\* The line, and the parser beyond it.
LEMMA LineIsParsed ==
    ASSUME NEW b \in Seq(Int), NEW c \in Nat, NEW n \in Nat, c <= n, n <= Len(b),
           NEW p \in Parsers, p.buffer = SubSeq(b, c + 1, n),
           NEW len \in 0 .. 1, b[c + len + 1] = CR, b[c + len + 2] = LF, len = 1 => b[c + 1] # CR
    PROVE  /\ LineEnd(p.buffer) = 0 <=> n < c + len + 2
           /\ n >= c + len + 2 =>
                 /\ LineOf(p) = IF len = 0 THEN <<>> ELSE <<b[c + 1]>>
                 /\ Beyond(p) = [p EXCEPT !.buffer = SubSeq(b, (c + len + 2) + 1, n)]
                 /\ Beyond(p) \in Parsers
<1>1. LineEnd(p.buffer) = IF n >= c + len + 2 THEN len + 1 ELSE 0
  BY LineEndIs, SMTT(20), ZenonT(20)
<1>2. LineEnd(p.buffer) = 0 <=> n < c + len + 2
  <2>1. len + 1 # 0 /\ (n < c + len + 2 <=> ~(n >= c + len + 2))
    OBVIOUS
  <2> QED
    BY <1>1, <2>1
<1>3. ASSUME n >= c + len + 2
      PROVE  /\ LineOf(p) = IF len = 0 THEN <<>> ELSE <<b[c + 1]>>
             /\ Beyond(p) = [p EXCEPT !.buffer = SubSeq(b, (c + len + 2) + 1, n)]
             /\ Beyond(p) \in Parsers
  <2>1. LineEnd(p.buffer) = len + 1 /\ (len + 1) - 1 = len
    BY <1>1, <1>3
  <2>2. len \in 0 .. n - c /\ len + 2 \in 0 .. n - c
    BY <1>3
  <2>3. LineOf(p) = SubSeq(b, c + 1, c + len)
    <3>1. Left(SubSeq(b, c + 1, n), len) = SubSeq(b, c + 1, c + len)
      BY <2>2, PartOfStream, SMTT(20), ZenonT(20)
    <3> QED
      BY <2>1, <3>1 DEF LineOf
  <2>4. LineOf(p) = IF len = 0 THEN <<>> ELSE <<b[c + 1]>>
    <3>0. c + len <= Len(b) /\ c + len \in Nat /\ c <= c + len /\ (c + len) - c = len
      BY <2>2
    <3>1. LineOf(p) \in Seq(Int) /\ Len(LineOf(p)) = len /\ \A i \in 1 .. len : LineOf(p)[i] = b[c + i]
      <4> DEFINE x == SubSeq(b, c + 1, c + len)
      <4>1. x \in Seq(Int) /\ Len(x) = (c + len) - c /\ \A i \in 1 .. (c + len) - c : x[i] = b[c + i]
        BY <3>0, PartShape
      <4>2. LineOf(p) = x
        BY <2>3
      <4> HIDE DEF x
      <4> QED
        BY <3>0, <4>1, <4>2
    <3>2. CASE len = 0
      <4>1. Len(LineOf(p)) = 0
        BY <3>1, <3>2
      <4> QED
        BY <3>1, <3>2, <4>1
    <3>3. CASE len = 1
      <4>1. Len(LineOf(p)) = 1 /\ LineOf(p)[1] = b[c + 1]
        BY <3>1, <3>3
      <4> DEFINE l == LineOf(p)
      <4> HIDE DEF l
      <4>2. l \in Seq(Int) /\ Len(l) = 1 /\ l[1] = b[c + 1]
        BY <3>1, <4>1 DEF l
      <4>3. l = <<b[c + 1]>>
        BY <4>2
      <4> QED
        BY <3>3, <4>3 DEF l
    <3> QED
      BY <3>2, <3>3
  <2>5. Len(LineOf(p)) = len
    BY <2>4
  <2>6. Rest(p.buffer, len + 2) = SubSeq(b, (c + len + 2) + 1, n)
    <3>1. Rest(SubSeq(b, c + 1, n), len + 2) = SubSeq(b, c + (len + 2) + 1, n)
      BY <2>2, PartOfStream, SMTT(20), ZenonT(20)
    <3>2. c + (len + 2) + 1 = (c + len + 2) + 1
      OBVIOUS
    <3> QED
      BY <3>1, <3>2
  <2>7. SubSeq(b, (c + len + 2) + 1, n) \in Seq(Int)
    BY <2>2, <1>3, PartShape
  <2>8. Beyond(p) = [p EXCEPT !.buffer = SubSeq(b, (c + len + 2) + 1, n)]
    BY <2>5, <2>6 DEF Beyond, Consume
  <2>9. Beyond(p) \in Parsers
    BY <2>7, <2>8 DEF Parsers
  <2> QED
    BY <2>4, <2>8, <2>9
<1> QED
  BY <1>2, <1>3, Zenon

\* One part of a stream and the part that follows it.
Joined(x, y) == x \o y

LEMMA PartsJoin ==
    ASSUME NEW b \in Seq(Int), NEW g \in Nat, NEW n \in Nat, NEW l \in Nat, 1 <= g, g - 1 <= n, n <= l, l <= Len(b)
    PROVE  Joined(SubSeq(b, g, n), SubSeq(b, n + 1, l)) = SubSeq(b, g, l)
<1>0. PICK c \in Nat : g = c + 1 /\ c <= n
  <2>1. g - 1 \in Nat /\ g = (g - 1) + 1
    OBVIOUS
  <2> QED
    BY <2>1
<1> DEFINE z == SubSeq(b, n + 1, l)
<1>1. SubSeq(b, c + 1, n) \o z = SubSeq(b, c + 1, l)
  <2>1. Len(b) \in Nat
    OBVIOUS
  <2>2. l \in n .. Len(b) /\ n <= Len(b)
    BY <2>1
  <2> QED
    BY <1>0, <2>2, PartOfStream
<1> HIDE DEF z
<1>2. Joined(SubSeq(b, c + 1, n), z) = SubSeq(b, c + 1, l)
  BY <1>1 DEF Joined
<1> QED
  BY <1>0, <1>2 DEF z

\* A piece of the body that comes next.
SamePart(b, c, f, w, a, e) ==
    /\ c \in Nat /\ f \in Nat /\ c <= f /\ f <= Len(b)
    /\ a \in Nat /\ e \in Nat /\ e <= Len(w) /\ e - a = f - c
    /\ \A i \in 1 .. f - c : b[c + i] = w[a + i]

LEMMA BodyGrows ==
    ASSUME NEW b \in Seq(Int), NEW w \in Seq(Int), NEW c, NEW f, NEW a, NEW e, SamePart(b, c, f, w, a, e)
    PROVE  Joined(Left(w, a), SubSeq(b, c + 1, f)) = Left(w, e)
<1> DEFINE x == SubSeq(b, c + 1, f)
           y == SubSeq(w, a + 1, e)
<1>0. /\ c \in Nat /\ f \in Nat /\ c <= f /\ f <= Len(b)
      /\ a \in Nat /\ e \in Nat /\ e <= Len(w) /\ e - a = f - c /\ a <= e
      /\ \A i \in 1 .. f - c : b[c + i] = w[a + i]
  <2>1. /\ c \in Nat /\ f \in Nat /\ c <= f /\ f <= Len(b)
        /\ a \in Nat /\ e \in Nat /\ e <= Len(w) /\ e - a = f - c
        /\ \A i \in 1 .. f - c : b[c + i] = w[a + i]
    BY DEF SamePart
  <2>2. a <= e
    BY <2>1
  <2> QED
    BY <2>1, <2>2
<1>1. x \in Seq(Int) /\ Len(x) = f - c /\ \A i \in 1 .. f - c : x[i] = b[c + i]
  BY <1>0, PartShape
<1>2. y \in Seq(Int) /\ Len(y) = e - a /\ \A i \in 1 .. e - a : y[i] = w[a + i]
  BY <1>0, PartShape
<1>3. x = y
  <2> HIDE DEF x, y
  <2>1. Len(x) = Len(y) /\ \A i \in 1 .. Len(y) : x[i] = y[i]
    BY <1>0, <1>1, <1>2
  <2> QED
    BY <1>1, <1>2, <2>1, SameSequence
<1>4. 1 \in Nat /\ 1 <= 1 /\ 1 - 1 <= a
  BY <1>0
<1>5. Joined(SubSeq(w, 1, a), SubSeq(w, a + 1, e)) = SubSeq(w, 1, e)
  BY <1>0, <1>4, PartsJoin
<1> HIDE DEF x
<1>6. Joined(Left(w, a), x) = Left(w, e)
  BY <1>3, <1>5 DEF Left
<1> QED
  BY <1>6 DEF x

\* One part of a stream after another.
LEMMA StreamJoin ==
    ASSUME NEW x \in Seq(Int), NEW y \in Seq(Int)
    PROVE  /\ x \o y \in Seq(Int) /\ Len(x \o y) = Len(x) + Len(y)
           /\ \A k \in 1 .. Len(x) + Len(y) : (x \o y)[k] = IF k <= Len(x) THEN x[k] ELSE y[k - Len(x)]
BY ConcatShape

\* Up to where the bytes of a chunk have arrived.
Clamp(x, m) == IF x <= 0 THEN 0 ELSE IF x < m THEN x ELSE m

LEMMA ClampRange ==
    ASSUME NEW x \in Int, NEW m \in Nat
    PROVE  Clamp(x, m) \in 0 .. m
BY DEF Clamp

Size(length) == IF length = 0 THEN 0 ELSE length + 5
ChunkBase(s, k) == s.head + (IF k >= 2 THEN Size(Len(s.chunks[1])) ELSE 0)
                          + (IF k = 3 THEN Size(Len(s.chunks[2])) ELSE 0)
StatusOf(s) == IF s.mode = "None" THEN 204 ELSE 200
HeaderOf(s) == IF s.mode = "Chunked" THEN CHUNKED ELSE Number(Len(s.chunks[1]))
HeadersOf(s) == IF s.mode \in {"Chunked", "ContentLength"} THEN {HeaderOf(s)} ELSE {}

\* Where a response has which symbols.
ChunkShape(s, k) ==
    LET size == Len(s.chunks[k])
        base == ChunkBase(s, k)
    IN  /\ s.bytes[base + 1] = Number(size) /\ s.bytes[base + 2] = CR /\ s.bytes[base + 3] = LF
        /\ \A i \in 1 .. size : s.bytes[base + 3 + i] = s.chunks[k][i]
        /\ s.bytes[base + 3 + size + 1] = CR /\ s.bytes[base + 3 + size + 2] = LF
LastChunkShape(s) ==
    LET base == ChunkBase(s, 3)
        size == Len(s.bytes)
    IN  /\ size \in {base + 5, base + 8}
        /\ s.bytes[base + 1] = Number(0) /\ s.bytes[base + 2] = CR /\ s.bytes[base + 3] = LF
        /\ size = base + 8 =>
              s.bytes[base + 4] = CHUNKED /\ s.bytes[base + 5] = CR /\ s.bytes[base + 6] = LF
        /\ s.bytes[size - 1] = CR /\ s.bytes[size] = LF
HeadShape(s) ==
    /\ s.head = IF s.mode \in {"Chunked", "ContentLength"} THEN 8 ELSE 5
    /\ s.head <= Len(s.bytes)
    /\ s.bytes[1] = Number(StatusOf(s)) /\ s.bytes[2] = CR /\ s.bytes[3] = LF
    /\ s.head = 8 => s.bytes[4] = HeaderOf(s) /\ s.bytes[5] = CR /\ s.bytes[6] = LF
    /\ s.bytes[s.head - 1] = CR /\ s.bytes[s.head] = LF
BodyShape(s) ==
    /\ s.chunks[2] = <<>> /\ Len(s.bytes) = s.head + Len(s.chunks[1])
    /\ \A i \in 1 .. Len(s.chunks[1]) : s.bytes[s.head + i] = s.chunks[1][i]
    /\ s.mode = "None" => s.chunks[1] = <<>>
ResponseShape(s) ==
    /\ s.bytes \in Seq(Int) /\ s.chunks[1] \in Seq(Int) /\ s.chunks[2] \in Seq(Int)
    /\ s.mode \in {"Chunked", "ContentLength", "UntilEof", "None"}
    /\ HeadShape(s)
    /\ s.mode = "Chunked" => /\ \A k \in 1 .. 2 : s.chunks[k] # <<>> => ChunkShape(s, k)
                             /\ LastChunkShape(s)
    /\ s.mode # "Chunked" => BodyShape(s)

\* How much of the body there is in the first c symbols, and what the parser has of it.
ArrivedTo(s, c) == Arrived(s, 1, c) + Arrived(s, 2, c)
BodyAt(s, c) ==
    IF s.mode = "ContentLength" /\ c < Len(s.bytes) THEN <<>> ELSE Left(BodyOf(s), ArrivedTo(s, c))

\* What the parser is in the middle of when it has dealt with the first c symbols.
Place(s, c, p) ==
    \/ p.state = "StatusLine" /\ c = 0 /\ p.headers = {}
    \/ p.state = "Headers" /\ s.head = 8 /\ c = 3 /\ p.headers = {} /\ p.status = StatusOf(s)
    \/ p.state = "Headers" /\ c = s.head - 2 /\ p.headers = HeadersOf(s) /\ p.status = StatusOf(s)
    \/ /\ s.mode = "Chunked" /\ p.mode = "Chunked"
       /\ \/ /\ p.state = "ChunkSize"
             /\ \E k \in 1 .. 3 : c = ChunkBase(s, k) /\ (k # 3 => s.chunks[k] # <<>>)
          \/ /\ p.state = "ChunkData"
             /\ \E k \in 1 .. 2 : LET end == ChunkBase(s, k) + 3 + Len(s.chunks[k])
                                  IN  c \in ChunkBase(s, k) + 3 .. end - 1 /\ p.expected = end - c
          \/ /\ p.state = "ChunkTerminator"
             /\ \E k \in 1 .. 2 : s.chunks[k] # <<>> /\ c = ChunkBase(s, k) + 3 + Len(s.chunks[k])
          \/ /\ p.state = "Trailers"
             /\ c = ChunkBase(s, 3) + 3 \/ c = Len(s.bytes) - 2
    \/ /\ s.mode = "ContentLength" /\ p.mode = "ContentLength" /\ p.state = "Body"
       /\ c = s.head /\ p.expected = Len(s.chunks[1]) /\ s.chunks[1] # <<>>
    \/ s.mode = "UntilEof" /\ p.mode = "UntilEof" /\ p.state = "Body" /\ c >= s.head
    \/ s.mode # "UntilEof" /\ p.state = "Complete" /\ c = Len(s.bytes)

HttpAt(s, n, c, p, t) ==
    /\ p \in Parsers /\ c \in 0 .. n
    /\ p.buffer = SubSeq(s.bytes, c + 1, n) /\ p.body = BodyAt(s, c) /\ p.taken = t
    /\ Place(s, c, p)

\* There is nothing more to find out from the first n symbols than from the first c.
EndOf(s) == IF s.mode = "UntilEof" THEN s.head ELSE Len(s.bytes)
Settled(s, n, c) ==
    /\ BodyAt(s, c) = BodyAt(s, n)
    /\ c >= EndOf(s) <=> n >= EndOf(s)
    /\ s.mode = "UntilEof" /\ c >= s.head => c = n

\* A pass of the loop that gets further, or that has come to the end of what there is.
Progress(s, n, c, p, t) ==
    \/ HttpAt(s, n, c, ParseStep(p), t) /\ Settled(s, n, c) /\ (c = n \/ ParseStep(p) = p)
    \/ \E d \in c + 1 .. n : HttpAt(s, n, d, ParseStep(p), t)

LEMMA ResponseNumbers ==
    ASSUME NEW s, ResponseShape(s)
    PROVE  /\ Len(s.bytes) \in Nat /\ Len(s.chunks[1]) \in Nat /\ Len(s.chunks[2]) \in Nat
           /\ (s.chunks[1] = <<>> <=> Len(s.chunks[1]) = 0) /\ (s.chunks[2] = <<>> <=> Len(s.chunks[2]) = 0)
           /\ s.bytes \in Seq(Int) /\ s.chunks[1] \in Seq(Int) /\ s.chunks[2] \in Seq(Int)
           /\ s.head \in {5, 8} /\ s.head \in Nat /\ 5 <= s.head /\ s.head <= Len(s.bytes)
           /\ ChunkBase(s, 1) = s.head
           /\ ChunkBase(s, 2) = s.head + Size(Len(s.chunks[1]))
           /\ ChunkBase(s, 3) = s.head + Size(Len(s.chunks[1])) + Size(Len(s.chunks[2]))
           /\ Size(Len(s.chunks[1])) \in Nat /\ Size(Len(s.chunks[2])) \in Nat
           /\ Len(BodyOf(s)) = Len(s.chunks[1]) + Len(s.chunks[2]) /\ BodyOf(s) \in Seq(Int)
<1>1. s.chunks[1] \in Seq(Int) /\ s.chunks[2] \in Seq(Int) /\ s.bytes \in Seq(Int)
      /\ s.head \in {5, 8} /\ s.head \in Nat /\ 5 <= s.head /\ s.head <= Len(s.bytes)
  <2>1. s.head = 5 \/ s.head = 8
    BY DEF ResponseShape, HeadShape
  <2>2. s.head \in Nat /\ 5 <= s.head
    BY <2>1
  <2> QED
    BY <2>1, <2>2 DEF ResponseShape, HeadShape
<1>2. Len(BodyOf(s)) = Len(s.chunks[1]) + Len(s.chunks[2]) /\ BodyOf(s) \in Seq(Int)
  BY <1>1, ConcatShape DEF BodyOf
<1>3. /\ Len(s.bytes) \in Nat /\ Len(s.chunks[1]) \in Nat /\ Len(s.chunks[2]) \in Nat
      /\ (s.chunks[1] = <<>> <=> Len(s.chunks[1]) = 0) /\ (s.chunks[2] = <<>> <=> Len(s.chunks[2]) = 0)
  <2>1. \A d \in Seq(Int) : Len(d) \in Nat /\ (d = <<>> <=> Len(d) = 0)
    OBVIOUS
  <2> QED
    BY <1>1, <2>1
<1>4. /\ ChunkBase(s, 1) = s.head
      /\ ChunkBase(s, 2) = s.head + Size(Len(s.chunks[1]))
      /\ ChunkBase(s, 3) = s.head + Size(Len(s.chunks[1])) + Size(Len(s.chunks[2]))
      /\ Size(Len(s.chunks[1])) \in Nat /\ Size(Len(s.chunks[2])) \in Nat
  <2>1. Size(Len(s.chunks[1])) \in Nat /\ Size(Len(s.chunks[2])) \in Nat
    BY <1>3 DEF Size
  <2>2. s.head \in Nat
    BY <1>1
  <2> QED
    BY <2>1, <2>2 DEF ChunkBase
<1> QED
  BY <1>1, <1>2, <1>3, <1>4

LEMMA ChunkSize ==
    ASSUME NEW d \in Seq(Int)
    PROVE  Len(Chunk(d)) = Size(Len(d)) /\ Chunk(d) \in Seq(Int)
<1>1. CASE d = <<>>
  BY <1>1 DEF Chunk, Size
<1>2. CASE d # <<>>
  <2> DEFINE x == <<Number(Len(d)), CR, LF>>
             y == <<CR, LF>>
  <2>1. x \in Seq(Int) /\ Len(x) = 3 /\ y \in Seq(Int) /\ Len(y) = 2 /\ Len(d) \in Nat /\ Len(d) # 0
    BY <1>2 DEF Number, CR, LF
  <2>2. Chunk(d) = (x \o d) \o y
    BY <1>2 DEF Chunk
  <2> HIDE DEF x, y
  <2>3. x \o d \in Seq(Int) /\ Len(x \o d) = 3 + Len(d)
    <3>1. Len(x \o d) = Len(x) + Len(d) /\ x \o d \in Seq(Int)
      BY <2>1, StreamJoin
    <3> QED
      BY <2>1, <3>1
  <2>4. (x \o d) \o y \in Seq(Int) /\ Len((x \o d) \o y) = 3 + Len(d) + 2
    BY <2>1, <2>3, StreamJoin, ZenonT(30)
  <2> QED
    BY <2>1, <2>2, <2>4 DEF Size
<1> QED
  BY <1>1, <1>2

\* How far the body has arrived, in numbers.
LEMMA ArrivedIs ==
    ASSUME NEW s, ResponseShape(s), NEW c \in Nat
    PROVE  /\ ArrivedTo(s, c) =
                 IF s.mode = "Chunked"
                 THEN Clamp(c - (s.head + 3), Len(s.chunks[1]))
                        + Clamp(c - (s.head + 3 + Size(Len(s.chunks[1]))), Len(s.chunks[2]))
                 ELSE Clamp(c - s.head, Len(s.chunks[1]))
           /\ ArrivedTo(s, c) \in 0 .. Len(BodyOf(s))
<1> DEFINE l1 == Len(s.chunks[1])
           l2 == Len(s.chunks[2])
<1>1. l1 \in Nat /\ l2 \in Nat /\ s.head \in Nat /\ s.chunks[1] \in Seq(Int) /\ Len(BodyOf(s)) = l1 + l2
  BY ResponseNumbers
<1>2. Len(Chunk(s.chunks[1])) = Size(l1) /\ Size(l1) \in Nat
  BY <1>1, ChunkSize DEF Size
<1>3. Arrived(s, 1, c) = Clamp(c - ChunkStart(s, 1), l1) /\ Arrived(s, 2, c) = Clamp(c - ChunkStart(s, 2), l2)
  BY DEF Arrived, Clamp
<1>4. s.mode # "Chunked" => l2 = 0
  <2>1. s.mode # "Chunked" => s.chunks[2] = <<>>
    BY DEF ResponseShape, BodyShape
  <2> QED
    BY <2>1
<1> HIDE DEF l1, l2
<1>5. CASE s.mode = "Chunked"
  <2>1. ChunkStart(s, 1) = s.head + 3 /\ ChunkStart(s, 2) = s.head + 3 + Size(l1)
    BY <1>1, <1>2, <1>5 DEF ChunkStart
  <2>2. ArrivedTo(s, c) = Clamp(c - (s.head + 3), l1) + Clamp(c - (s.head + 3 + Size(l1)), l2)
    BY <1>3, <2>1 DEF ArrivedTo
  <2>3. Clamp(c - (s.head + 3), l1) \in 0 .. l1 /\ Clamp(c - (s.head + 3 + Size(l1)), l2) \in 0 .. l2
    <3>1. c - (s.head + 3) \in Int /\ c - (s.head + 3 + Size(l1)) \in Int
      BY <1>1, <1>2
    <3> QED
      BY <1>1, <3>1, ClampRange
  <2>4. ArrivedTo(s, c) \in 0 .. Len(BodyOf(s))
    BY <1>1, <2>2, <2>3, SMTT(30)
  <2> QED
    BY <1>5, <2>2, <2>4 DEF l1, l2
<1>6. CASE s.mode # "Chunked"
  <2>1. ChunkStart(s, 1) = s.head /\ ChunkStart(s, 2) = s.head + Size(l1)
    BY <1>1, <1>2, <1>6 DEF ChunkStart
  <2>2. Clamp(c - ChunkStart(s, 2), l2) = 0
    BY <1>1, <1>2, <1>4, <1>6, <2>1 DEF Clamp
  <2>3. Clamp(c - s.head, l1) \in 0 .. l1
    BY <1>1 DEF Clamp
  <2>4. ArrivedTo(s, c) = Clamp(c - s.head, l1)
    BY <1>3, <2>1, <2>2, <2>3 DEF ArrivedTo
  <2> QED
    BY <1>1, <1>6, <2>3, <2>4 DEF l1
<1> QED
  BY <1>5, <1>6

\* Symbols that add nothing to the body.
LEMMA BodyStays ==
    ASSUME NEW s, ResponseShape(s), NEW c \in Nat, NEW m \in Nat, ArrivedTo(s, c) = ArrivedTo(s, m),
           s.mode = "ContentLength" => ArrivedTo(s, m) = 0
    PROVE  BodyAt(s, c) = BodyAt(s, m)
<1>1. CASE s.mode # "ContentLength"
  BY <1>1 DEF BodyAt
<1>2. CASE s.mode = "ContentLength"
  <2>1. Left(BodyOf(s), 0) = <<>>
    <3>1. BodyOf(s) \in Seq(Int)
      BY ResponseNumbers
    <3> HIDE DEF BodyOf
    <3> QED
      BY <3>1 DEF Left
  <2> QED
    BY <1>2, <2>1 DEF BodyAt
<1> QED
  BY <1>1, <1>2

\* The head of a response has nothing of its body.
LEMMA NothingArrived ==
    ASSUME NEW s, ResponseShape(s), NEW m \in Nat, m <= s.head
    PROVE  ArrivedTo(s, m) = 0 /\ BodyAt(s, 0) = BodyAt(s, m)
<1>1. /\ s.head \in Nat /\ Len(s.chunks[1]) \in Nat /\ Len(s.chunks[2]) \in Nat /\ Size(Len(s.chunks[1])) \in Nat
  BY ResponseNumbers
<1>2. ASSUME NEW k \in Nat, k <= s.head PROVE ArrivedTo(s, k) = 0
  <2>1. /\ k - (s.head + 3) <= 0 /\ k - s.head <= 0 /\ k - (s.head + 3 + Size(Len(s.chunks[1]))) <= 0
    BY <1>1, <1>2
  <2>2. /\ Clamp(k - (s.head + 3), Len(s.chunks[1])) = 0
        /\ Clamp(k - (s.head + 3 + Size(Len(s.chunks[1]))), Len(s.chunks[2])) = 0
        /\ Clamp(k - s.head, Len(s.chunks[1])) = 0
    BY <2>1 DEF Clamp
  <2>3. ArrivedTo(s, k) = IF s.mode = "Chunked" THEN 0 + 0 ELSE 0
    BY <2>2, ArrivedIs
  <2> QED
    BY <2>3
<1>3. ArrivedTo(s, 0) = 0 /\ ArrivedTo(s, m) = 0
  BY <1>1, <1>2
<1> QED
  BY <1>3, BodyStays

\* A pass of the loop in a state that waits for a line.
LineStates == {"StatusLine", "Headers", "ChunkSize", "Trailers"}
LineTaken(s, n, c, p, t, d, line) ==
    /\ d \in c + 1 .. n
    /\ ParseStep(p) = ParseLine(p) /\ LineOf(p) = line
    /\ Beyond(p) \in Parsers
    /\ Beyond(p).buffer = SubSeq(s.bytes, d + 1, n) /\ Beyond(p).body = BodyAt(s, d)
    /\ Beyond(p).taken = t /\ Beyond(p).state = p.state /\ Beyond(p).mode = p.mode
    /\ Beyond(p).headers = p.headers /\ Beyond(p).status = p.status

LEMMA LineStep ==
    ASSUME NEW s, ResponseShape(s), NEW n \in 0 .. Len(s.bytes), NEW c, NEW p, NEW t, HttpAt(s, n, c, p, t),
           p.state \in LineStates,
           NEW len \in 0 .. 1, NEW d, d = c + len + 2, s.bytes[c + len + 1] = CR, s.bytes[d] = LF,
           len = 1 => s.bytes[c + 1] # CR,
           d <= EndOf(s), \A m \in c .. d : BodyAt(s, c) = BodyAt(s, m)
    PROVE  \/ ParseStep(p) = p /\ Settled(s, n, c)
           \/ LineTaken(s, n, c, p, t, d, IF len = 0 THEN <<>> ELSE <<s.bytes[c + 1]>>)
<1>1. /\ s.bytes \in Seq(Int) /\ Len(s.bytes) \in Nat /\ s.head \in Nat /\ s.head <= Len(s.bytes)
  BY ResponseNumbers
<1>2. /\ p \in Parsers /\ c \in Nat /\ c <= n /\ n \in Nat /\ n <= Len(s.bytes)
      /\ p.buffer = SubSeq(s.bytes, c + 1, n) /\ p.body = BodyAt(s, c) /\ p.taken = t
  BY <1>1 DEF HttpAt
<1>3. /\ LineEnd(p.buffer) = 0 <=> n < d
      /\ n >= d => /\ LineOf(p) = IF len = 0 THEN <<>> ELSE <<s.bytes[c + 1]>>
                   /\ Beyond(p) = [p EXCEPT !.buffer = SubSeq(s.bytes, d + 1, n)]
                   /\ Beyond(p) \in Parsers
  <2>1. s.bytes[c + len + 2] = LF
    OBVIOUS
  <2>2. /\ LineEnd(p.buffer) = 0 <=> n < c + len + 2
        /\ n >= c + len + 2 =>
              /\ LineOf(p) = IF len = 0 THEN <<>> ELSE <<s.bytes[c + 1]>>
              /\ Beyond(p) = [p EXCEPT !.buffer = SubSeq(s.bytes, (c + len + 2) + 1, n)]
              /\ Beyond(p) \in Parsers
    BY <1>1, <1>2, <2>1, LineIsParsed
  <2> QED
    BY <2>2
<1>4. ParseStep(p) = IF LineEnd(p.buffer) = 0 THEN p ELSE ParseLine(p)
  BY DEF ParseStep, Ended, LineStates
<1>5. CASE n < d
  <2>1. ParseStep(p) = p
    BY <1>3, <1>4, <1>5
  <2>2. BodyAt(s, c) = BodyAt(s, n)
    <3>1. n \in c .. d
      BY <1>2, <1>5
    <3> QED
      BY <3>1
  <2>3. ~(c >= EndOf(s)) /\ ~(n >= EndOf(s)) /\ (s.mode = "UntilEof" => ~(c >= s.head))
    <3>1. EndOf(s) \in Nat /\ (s.mode = "UntilEof" => EndOf(s) = s.head)
      BY <1>1 DEF EndOf
    <3> QED
      BY <1>1, <1>2, <1>5, <3>1
  <2> QED
    BY <2>1, <2>2, <2>3 DEF Settled
<1>6. CASE n >= d
  <2>1. d \in c + 1 .. n /\ d \in c .. d /\ ~(n < d)
    BY <1>2, <1>6, SMTT(30)
  <2>2. ParseStep(p) = ParseLine(p)
    BY <1>3, <1>4, <2>1
  <2>3. BodyAt(s, c) = BodyAt(s, d)
    BY <2>1
  <2>4. /\ Beyond(p).buffer = SubSeq(s.bytes, d + 1, n) /\ Beyond(p).body = BodyAt(s, d)
        /\ Beyond(p).taken = t /\ Beyond(p).state = p.state /\ Beyond(p).mode = p.mode
        /\ Beyond(p).headers = p.headers /\ Beyond(p).status = p.status
    BY <1>2, <1>3, <1>6, <2>3 DEF Parsers
  <2>5. LineTaken(s, n, c, p, t, d, IF len = 0 THEN <<>> ELSE <<s.bytes[c + 1]>>)
    BY <1>3, <1>6, <2>1, <2>2, <2>4 DEF LineTaken
  <2> QED
    BY <2>5
<1> QED
  BY <1>2, <1>5, <1>6

\* Waiting for a symbol and a line end, or for a line end alone.
LEMMA SymbolLineStep ==
    ASSUME NEW s, ResponseShape(s), NEW n \in 0 .. Len(s.bytes), NEW c, NEW p, NEW t, HttpAt(s, n, c, p, t),
           p.state \in LineStates,
           s.bytes[c + 1] # CR, s.bytes[c + 2] = CR, s.bytes[c + 3] = LF,
           c + 3 <= EndOf(s), \A m \in c .. c + 3 : BodyAt(s, c) = BodyAt(s, m)
    PROVE  \/ ParseStep(p) = p /\ Settled(s, n, c)
           \/ LineTaken(s, n, c, p, t, c + 3, <<s.bytes[c + 1]>>)
<1> DEFINE len == 1
           d == c + 3
<1>1. c \in Int
  BY ResponseNumbers DEF HttpAt
<1>2. len \in 0 .. 1 /\ d = c + len + 2 /\ c + len + 1 = c + 2 /\ len # 0
  BY <1>1
<1> HIDE DEF len
<1>3. s.bytes[c + len + 1] = CR /\ s.bytes[d] = LF
  BY <1>2
<1> HIDE DEF d
<1>4. d <= EndOf(s) /\ \A m \in c .. d : BodyAt(s, c) = BodyAt(s, m)
  BY DEF d
<1>5. \/ ParseStep(p) = p /\ Settled(s, n, c)
      \/ LineTaken(s, n, c, p, t, d, IF len = 0 THEN <<>> ELSE <<s.bytes[c + 1]>>)
  BY <1>2, <1>3, <1>4, LineStep
<1> QED
  BY <1>2, <1>5 DEF d

LEMMA EmptyLineStep ==
    ASSUME NEW s, ResponseShape(s), NEW n \in 0 .. Len(s.bytes), NEW c, NEW p, NEW t, HttpAt(s, n, c, p, t),
           p.state \in LineStates,
           s.bytes[c + 1] = CR, s.bytes[c + 2] = LF,
           c + 2 <= EndOf(s), \A m \in c .. c + 2 : BodyAt(s, c) = BodyAt(s, m)
    PROVE  \/ ParseStep(p) = p /\ Settled(s, n, c)
           \/ LineTaken(s, n, c, p, t, c + 2, <<>>)
<1> DEFINE len == 0
           d == c + 2
<1>1. c \in Int
  BY ResponseNumbers DEF HttpAt
<1>2. len \in 0 .. 1 /\ d = c + len + 2 /\ c + len + 1 = c + 1 /\ len = 0 /\ len # 1
  BY <1>1
<1> HIDE DEF len
<1>3. s.bytes[c + len + 1] = CR /\ s.bytes[d] = LF
  BY <1>2
<1> HIDE DEF d
<1>4. d <= EndOf(s) /\ \A m \in c .. d : BodyAt(s, c) = BodyAt(s, m)
  BY DEF d
<1>5. \/ ParseStep(p) = p /\ Settled(s, n, c)
      \/ LineTaken(s, n, c, p, t, d, IF len = 0 THEN <<>> ELSE <<s.bytes[c + 1]>>)
  BY <1>2, <1>3, <1>4, LineStep
<1> QED
  BY <1>2, <1>5 DEF d

LEMMA StatusLineStep ==
    ASSUME NEW s, ResponseShape(s), NEW n \in 0 .. Len(s.bytes), NEW c, NEW p, NEW t, HttpAt(s, n, c, p, t),
           p.state = "StatusLine"
    PROVE  Progress(s, n, c, p, t)
<1>1. c = 0 /\ p.headers = {} /\ p.state \in LineStates
  BY DEF HttpAt, Place, LineStates
<1>2. /\ s.head \in Nat /\ s.head \in {5, 8} /\ s.head <= Len(s.bytes) /\ Len(s.bytes) \in Nat
      /\ Len(s.chunks[1]) \in Nat /\ Len(s.chunks[2]) \in Nat /\ Size(Len(s.chunks[1])) \in Nat
  BY ResponseNumbers
<1>3. s.bytes[1] = Number(StatusOf(s)) /\ s.bytes[2] = CR /\ s.bytes[3] = LF
      /\ (s.head = 8 <=> s.mode \in {"Chunked", "ContentLength"})
  BY DEF ResponseShape, HeadShape
<1>4. ASSUME NEW m \in 0 .. 3 PROVE BodyAt(s, 0) = BodyAt(s, m)
  BY <1>2, NothingArrived
<1>5. s.bytes[0 + 2] = CR /\ s.bytes[0 + 3] = LF /\ s.bytes[0 + 1] # CR /\ 0 + 3 = 3 /\ 0 + 3 <= EndOf(s)
  <2>1. Number(StatusOf(s)) # CR
    BY DEF Number, StatusOf, CR
  <2> QED
    BY <1>2, <1>3, <2>1 DEF EndOf
<1>6. \/ ParseStep(p) = p /\ Settled(s, n, 0)
      \/ LineTaken(s, n, 0, p, t, 0 + 3, <<s.bytes[0 + 1]>>)
  BY <1>1, <1>4, <1>5, SymbolLineStep
<1>7. CASE ParseStep(p) = p /\ Settled(s, n, 0)
  BY <1>1, <1>7 DEF Progress
<1>8. CASE LineTaken(s, n, 0, p, t, 0 + 3, <<s.bytes[0 + 1]>>)
  <2> DEFINE q == Beyond(p)
             r == [q EXCEPT !.status = StatusOf(s), !.state = "Headers"]
  <2>1. /\ 3 \in 1 .. n /\ ParseStep(p) = ParseLine(p) /\ LineOf(p) = <<Number(StatusOf(s))>>
        /\ q \in Parsers /\ q.buffer = SubSeq(s.bytes, 3 + 1, n) /\ q.body = BodyAt(s, 3)
        /\ q.taken = t /\ q.headers = {}
    BY <1>1, <1>3, <1>8 DEF LineTaken
  <2>2. ParseLine(p) = r
    <3>1. IsNumber(Number(StatusOf(s))) /\ NumberOf(Number(StatusOf(s))) = StatusOf(s)
      BY DEF IsNumber, Number, NumberOf, StatusOf
    <3>2. Len(LineOf(p)) = 1 /\ LineOf(p)[1] = Number(StatusOf(s))
      BY <2>1
    <3> QED
      BY <3>1, <3>2 DEF ParseLine, LineOf, Beyond
  <2> HIDE DEF q
  <2>3. /\ r \in Parsers /\ r.buffer = q.buffer /\ r.body = q.body /\ r.taken = q.taken
        /\ r.headers = q.headers /\ r.status = StatusOf(s) /\ r.state = "Headers"
    <3>1. StatusOf(s) \in Int
      BY DEF StatusOf
    <3> QED
      BY <2>1, <3>1 DEF Parsers, ParserStates
  <2> HIDE DEF r
  <2>4. Place(s, 3, r)
    <3>1. CASE s.head = 8
      BY <2>1, <2>3, <3>1 DEF Place
    <3>2. CASE s.head # 8
      <4>1. 3 = s.head - 2 /\ HeadersOf(s) = {}
        BY <1>2, <1>3, <3>2 DEF HeadersOf
      <4> QED
        BY <2>1, <2>3, <4>1 DEF Place
    <3> QED
      BY <3>1, <3>2
  <2>5. HttpAt(s, n, 3, r, t)
    BY <2>1, <2>3, <2>4 DEF HttpAt
  <2>6. 3 \in c + 1 .. n
    BY <1>1, <2>1
  <2> QED
    BY <2>1, <2>2, <2>5, <2>6 DEF Progress
<1> QED
  BY <1>6, <1>7, <1>8

\* The two ways a pass of the loop can go.
LEMMA Stays ==
    ASSUME NEW s, NEW n, NEW c, NEW p, NEW t, HttpAt(s, n, c, p, t), ParseStep(p) = p, Settled(s, n, c)
    PROVE  Progress(s, n, c, p, t)
BY DEF Progress

LEMMA Advances ==
    ASSUME NEW s, NEW n \in Nat, NEW c, NEW p, NEW t, HttpAt(s, n, c, p, t), NEW r \in Parsers, ParseStep(p) = r,
           NEW d \in c + 1 .. n, r.buffer = SubSeq(s.bytes, d + 1, n), r.body = BodyAt(s, d), r.taken = t,
           Place(s, d, r)
    PROVE  Progress(s, n, c, p, t)
<1>1. c \in 0 .. n
  BY DEF HttpAt
<1>2. d \in 0 .. n
  BY <1>1
<1>3. HttpAt(s, n, d, r, t)
  BY <1>2 DEF HttpAt
<1> QED
  BY <1>3 DEF Progress

LEMMA HeaderStep ==
    ASSUME NEW s, ResponseShape(s), NEW n \in 0 .. Len(s.bytes), NEW c, NEW p, NEW t, HttpAt(s, n, c, p, t),
           p.state = "Headers", s.head = 8, c = 3, p.headers = {}, p.status = StatusOf(s)
    PROVE  Progress(s, n, c, p, t)
<1>2. /\ s.head \in Nat /\ s.head <= Len(s.bytes) /\ Len(s.bytes) \in Nat /\ Len(s.chunks[1]) \in Nat
  BY ResponseNumbers
<1>3. s.bytes[4] = HeaderOf(s) /\ s.bytes[5] = CR /\ s.bytes[6] = LF /\ s.mode \in {"Chunked", "ContentLength"}
  BY DEF ResponseShape, HeadShape
<1>4. ASSUME NEW m \in 3 .. 3 + 3 PROVE BodyAt(s, 3) = BodyAt(s, m)
  <2>1. BodyAt(s, 0) = BodyAt(s, 3) /\ BodyAt(s, 0) = BodyAt(s, m)
    BY <1>2, NothingArrived
  <2> QED
    BY <2>1
<1>5. HeaderOf(s) \in Int /\ HeaderOf(s) # CR
  BY <1>2 DEF HeaderOf, CHUNKED, Number, CR
<1>6. \/ ParseStep(p) = p /\ Settled(s, n, 3)
      \/ LineTaken(s, n, 3, p, t, 3 + 3, <<s.bytes[3 + 1]>>)
  <2>1. s.bytes[3 + 1] # CR /\ s.bytes[3 + 2] = CR /\ s.bytes[3 + 3] = LF /\ 3 + 3 <= EndOf(s)
    BY <1>2, <1>3, <1>5 DEF EndOf
  <2>2. p.state \in LineStates
    BY DEF LineStates
  <2> QED
    BY <1>4, <2>1, <2>2, SymbolLineStep
<1>7. CASE ParseStep(p) = p /\ Settled(s, n, 3)
  BY <1>7, Stays
<1>8. CASE LineTaken(s, n, 3, p, t, 3 + 3, <<s.bytes[3 + 1]>>)
  <2> DEFINE q == Beyond(p)
             r == [q EXCEPT !.headers = @ \cup {HeaderOf(s)}]
  <2>1. /\ 6 \in c + 1 .. n /\ ParseStep(p) = ParseLine(p) /\ LineOf(p) = <<HeaderOf(s)>>
        /\ q \in Parsers /\ q.buffer = SubSeq(s.bytes, 6 + 1, n) /\ q.body = BodyAt(s, 6)
        /\ q.taken = t /\ q.headers = {} /\ q.status = StatusOf(s) /\ q.state = "Headers"
    BY <1>3, <1>8 DEF LineTaken
  <2>2. ParseLine(p) = r
    <3>1. LineOf(p) # <<>> /\ LineOf(p)[1] = HeaderOf(s)
      BY <2>1
    <3> QED
      BY <3>1 DEF ParseLine, LineOf, Beyond
  <2> HIDE DEF q
  <2>3. /\ r \in Parsers /\ r.buffer = q.buffer /\ r.body = q.body /\ r.taken = q.taken
        /\ r.headers = {HeaderOf(s)} /\ r.status = q.status /\ r.state = q.state
    BY <1>5, <2>1 DEF Parsers
  <2> HIDE DEF r
  <2>4. Place(s, 6, r)
    <3>1. 6 = s.head - 2 /\ HeadersOf(s) = {HeaderOf(s)}
      BY <1>3 DEF HeadersOf
    <3> QED
      BY <2>1, <2>3, <3>1 DEF Place
  <2>5. /\ ParseStep(p) = r /\ n \in Nat /\ 6 \in c + 1 .. n
        /\ r.buffer = SubSeq(s.bytes, 6 + 1, n) /\ r.body = BodyAt(s, 6) /\ r.taken = t
    BY <1>2, <2>1, <2>2, <2>3
  <2> QED
    BY <2>3, <2>4, <2>5, Advances
<1> QED
  BY <1>6, <1>7, <1>8

\* The first chunk, or the last.
LEMMA FirstChunkPlace ==
    ASSUME NEW s, ResponseShape(s)
    PROVE  \E k \in 1 .. 3 : s.head = ChunkBase(s, k) /\ (k # 3 => s.chunks[k] # <<>>)
<1>1. /\ s.head \in Nat
      /\ ChunkBase(s, 1) = s.head
      /\ ChunkBase(s, 2) = s.head + Size(Len(s.chunks[1]))
      /\ ChunkBase(s, 3) = s.head + Size(Len(s.chunks[1])) + Size(Len(s.chunks[2]))
      /\ s.chunks[1] = <<>> => Size(Len(s.chunks[1])) = 0
      /\ s.chunks[2] = <<>> => Size(Len(s.chunks[2])) = 0
  BY ResponseNumbers DEF Size
<1>2. CASE s.chunks[1] # <<>>
  BY <1>1, <1>2
<1>3. CASE s.chunks[1] = <<>> /\ s.chunks[2] # <<>>
  BY <1>1, <1>3
<1>4. CASE s.chunks[1] = <<>> /\ s.chunks[2] = <<>>
  BY <1>1, <1>4
<1> QED
  BY <1>2, <1>3, <1>4

LEMMA HeadersEndStep ==
    ASSUME NEW s, ResponseShape(s), NEW n \in 0 .. Len(s.bytes), NEW c, NEW p, NEW t, HttpAt(s, n, c, p, t),
           p.state = "Headers", c = s.head - 2, p.headers = HeadersOf(s), p.status = StatusOf(s)
    PROVE  Progress(s, n, c, p, t)
<1>2. /\ s.head \in Nat /\ s.head \in {5, 8} /\ s.head <= Len(s.bytes) /\ Len(s.bytes) \in Nat
      /\ Len(s.chunks[1]) \in Nat /\ (s.chunks[1] = <<>> <=> Len(s.chunks[1]) = 0)
      /\ c \in Nat /\ c + 2 = s.head /\ c + 1 = s.head - 1 /\ n \in Nat
  <2>1. /\ s.head \in Nat /\ s.head \in {5, 8} /\ s.head <= Len(s.bytes) /\ Len(s.bytes) \in Nat /\ 5 <= s.head
        /\ Len(s.chunks[1]) \in Nat /\ (s.chunks[1] = <<>> <=> Len(s.chunks[1]) = 0)
    BY ResponseNumbers
  <2>2. c \in Nat /\ c + 2 = s.head /\ c + 1 = s.head - 1 /\ n \in Nat
    BY <2>1
  <2> QED
    BY <2>1, <2>2
<1>3. s.bytes[s.head - 1] = CR /\ s.bytes[s.head] = LF
  BY DEF ResponseShape, HeadShape
<1>4. ASSUME NEW m \in c .. c + 2 PROVE BodyAt(s, c) = BodyAt(s, m)
  <2>1. BodyAt(s, 0) = BodyAt(s, c) /\ BodyAt(s, 0) = BodyAt(s, m)
    BY <1>2, NothingArrived
  <2> QED
    BY <2>1
<1>6. \/ ParseStep(p) = p /\ Settled(s, n, c)
      \/ LineTaken(s, n, c, p, t, c + 2, <<>>)
  <2>1. s.bytes[c + 1] = CR /\ s.bytes[c + 2] = LF /\ c + 2 <= EndOf(s)
    BY <1>2, <1>3, SMTT(30) DEF EndOf
  <2>2. p.state \in LineStates
    BY DEF LineStates
  <2> QED
    BY <1>4, <2>1, <2>2, EmptyLineStep
<1>7. CASE ParseStep(p) = p /\ Settled(s, n, c)
  BY <1>7, Stays
<1>8. CASE LineTaken(s, n, c, p, t, c + 2, <<>>)
  <2> DEFINE q == Beyond(p)
             r == HeadersEnd(q)
  <2>1. /\ s.head \in c + 1 .. n /\ ParseStep(p) = ParseLine(p) /\ LineOf(p) = <<>>
        /\ q \in Parsers /\ q.buffer = SubSeq(s.bytes, s.head + 1, n) /\ q.body = BodyAt(s, s.head)
        /\ q.taken = t /\ q.headers = HeadersOf(s) /\ q.status = StatusOf(s) /\ q.state = "Headers"
    BY <1>2, <1>8 DEF LineTaken
  <2>2. ParseStep(p) = r
    <3>1. ParseLine(p) = r
      BY <2>1 DEF ParseLine, LineOf, Beyond
    <3> QED
      BY <2>1, <3>1
  <2> SUFFICES r \in Parsers /\ r.buffer = q.buffer /\ r.body = q.body /\ r.taken = q.taken /\ Place(s, s.head, r)
    <3> HIDE DEF q, r
    <3> QED
      BY <1>2, <2>1, <2>2, Advances
  <2> HIDE DEF q
  <2>3. s.mode \in {"Chunked", "ContentLength", "UntilEof", "None"}
    BY DEF ResponseShape
  <2>4. CASE s.mode = "Chunked"
    <3>1. CHUNKED \in q.headers
      BY <2>1, <2>4 DEF HeadersOf, HeaderOf
    <3>2. r = [q EXCEPT !.mode = "Chunked", !.state = "ChunkSize"]
      BY <3>1 DEF HeadersEnd
    <3> HIDE DEF r
    <3>3. /\ r \in Parsers /\ r.buffer = q.buffer /\ r.body = q.body /\ r.taken = q.taken
          /\ r.mode = "Chunked" /\ r.state = "ChunkSize"
      BY <2>1, <3>2 DEF Parsers, ParserStates, BodyModes
    <3>4. Place(s, s.head, r)
      BY <2>4, <3>3, FirstChunkPlace DEF Place
    <3> QED
      BY <3>3, <3>4
  <2>5. CASE s.mode = "ContentLength"
    <3> DEFINE l1 == Len(s.chunks[1])
    <3>0. Len(s.bytes) = s.head + l1
      BY <2>5 DEF ResponseShape, BodyShape
    <3>1. q.headers = {Number(l1)} /\ CHUNKED \notin q.headers
      <4>1. HeadersOf(s) = {Number(l1)}
        BY <2>5 DEF HeadersOf, HeaderOf
      <4>2. Number(l1) # CHUNKED
        BY <1>2, SMTT(30) DEF Number, CHUNKED
      <4> HIDE DEF l1
      <4> QED
        BY <2>1, <4>1, <4>2
    <3>2. {h \in q.headers : IsNumber(h)} = {Number(l1)}
      BY <1>2, <3>1, SMTT(30) DEF IsNumber, Number
    <3>3. NumberOf(CHOOSE h \in {Number(l1)} : TRUE) = l1
      BY <1>2 DEF Number, NumberOf
    <3>4. r = [q EXCEPT !.mode = "ContentLength", !.expected = l1,
                        !.state = IF l1 = 0 THEN "Complete" ELSE "Body"]
      <4>1. {Number(l1)} # {}
        OBVIOUS
      <4> HIDE DEF l1
      <4> QED
        BY <3>1, <3>2, <3>3, <4>1 DEF HeadersEnd
    <3> HIDE DEF r
    <3>5. /\ r \in Parsers /\ r.buffer = q.buffer /\ r.body = q.body /\ r.taken = q.taken
          /\ r.mode = "ContentLength" /\ r.expected = l1 /\ r.state = IF l1 = 0 THEN "Complete" ELSE "Body"
      <4> DEFINE state == IF l1 = 0 THEN "Complete" ELSE "Body"
      <4>1. l1 \in Int /\ q \in Parsers /\ state \in ParserStates
        BY <1>2, <2>1 DEF ParserStates
      <4>2. r = [q EXCEPT !.mode = "ContentLength", !.expected = l1, !.state = state]
        BY <3>4
      <4> HIDE DEF l1, state
      <4>3. r \in Parsers /\ r.buffer = q.buffer /\ r.body = q.body /\ r.taken = q.taken
            /\ r.mode = "ContentLength" /\ r.expected = l1 /\ r.state = state
        BY <4>1, <4>2 DEF Parsers, BodyModes
      <4> QED
        BY <4>3 DEF state
    <3>6. CASE l1 = 0
      <4>1. s.head = Len(s.bytes) /\ r.state = "Complete"
        BY <1>2, <3>0, <3>5, <3>6
      <4>2. Place(s, s.head, r)
        BY <2>5, <4>1 DEF Place
      <4> QED
        BY <3>5, <4>2
    <3>7. CASE l1 # 0
      <4>1. Place(s, s.head, r)
        BY <1>2, <2>5, <3>5, <3>7 DEF Place
      <4> QED
        BY <3>5, <4>1
    <3> QED
      BY <3>6, <3>7
  <2>6. CASE s.mode = "UntilEof"
    <3>1. q.headers = {} /\ q.status = 200
      BY <2>1, <2>6 DEF HeadersOf, StatusOf
    <3>2. r = [q EXCEPT !.mode = "UntilEof", !.state = "Body"]
      <4>1. {h \in q.headers : IsNumber(h)} = {} /\ CHUNKED \notin q.headers /\ q.status \notin {100, 204, 304}
        BY <3>1
      <4> QED
        BY <4>1 DEF HeadersEnd
    <3> HIDE DEF r
    <3>3. /\ r \in Parsers /\ r.buffer = q.buffer /\ r.body = q.body /\ r.taken = q.taken
          /\ r.mode = "UntilEof" /\ r.state = "Body"
      BY <2>1, <3>2 DEF Parsers, ParserStates, BodyModes
    <3>4. Place(s, s.head, r)
      BY <1>2, <2>6, <3>3 DEF Place
    <3> QED
      BY <3>3, <3>4
  <2>7. CASE s.mode = "None"
    <3>1. q.headers = {} /\ q.status = 204
      BY <2>1, <2>7 DEF HeadersOf, StatusOf
    <3>2. r = [q EXCEPT !.state = "Complete"]
      <4>1. {h \in q.headers : IsNumber(h)} = {} /\ CHUNKED \notin q.headers /\ q.status \in {100, 204, 304}
        BY <3>1
      <4> QED
        BY <4>1 DEF HeadersEnd
    <3> HIDE DEF r
    <3>3. /\ r \in Parsers /\ r.buffer = q.buffer /\ r.body = q.body /\ r.taken = q.taken
          /\ r.state = "Complete"
      BY <2>1, <3>2 DEF Parsers, ParserStates
    <3>4. Place(s, s.head, r)
      <4>1. s.chunks[1] = <<>> /\ Len(s.bytes) = s.head + Len(s.chunks[1])
        BY <2>7 DEF ResponseShape, BodyShape
      <4>2. Len(s.bytes) = s.head
        BY <1>2, <4>1
      <4> QED
        BY <2>7, <3>3, <4>2 DEF Place
    <3> QED
      BY <3>3, <3>4
  <2> QED
    BY <2>3, <2>4, <2>5, <2>6, <2>7
<1> QED
  BY <1>6, <1>7, <1>8

\* Chunks: where they begin, and how far the body has arrived in them.
LEMMA ChunkedNumbers ==
    ASSUME NEW s, ResponseShape(s), s.mode = "Chunked", NEW m \in Nat
    PROVE  LET l1 == Len(s.chunks[1])
               l2 == Len(s.chunks[2])
               b1 == ChunkBase(s, 1)
               b2 == ChunkBase(s, 2)
               b3 == ChunkBase(s, 3)
           IN  /\ b1 = 8 /\ s.head = 8 /\ b2 \in Nat /\ b3 \in Nat
               /\ b2 = IF l1 = 0 THEN b1 ELSE b1 + l1 + 5
               /\ b3 = IF l2 = 0 THEN b2 ELSE b2 + l2 + 5
               /\ Len(s.bytes) \in {b3 + 5, b3 + 8}
               /\ m <= b1 + 3 => ArrivedTo(s, m) = 0
               /\ b1 + 3 <= m /\ m <= b1 + 3 + l1 => ArrivedTo(s, m) = m - (b1 + 3)
               /\ b1 + 3 + l1 <= m /\ m <= b2 + 3 => ArrivedTo(s, m) = l1
               /\ b2 + 3 <= m /\ m <= b2 + 3 + l2 => ArrivedTo(s, m) = l1 + (m - (b2 + 3))
               /\ b2 + 3 + l2 <= m => ArrivedTo(s, m) = l1 + l2
               /\ EndOf(s) = Len(s.bytes) /\ BodyAt(s, m) = Left(BodyOf(s), ArrivedTo(s, m))
<1> DEFINE l1 == Len(s.chunks[1])
           l2 == Len(s.chunks[2])
           b1 == ChunkBase(s, 1)
           b2 == ChunkBase(s, 2)
           b3 == ChunkBase(s, 3)
<1>1. l1 \in Nat /\ l2 \in Nat /\ b1 = s.head /\ b2 = s.head + Size(l1) /\ b3 = s.head + Size(l1) + Size(l2)
  BY ResponseNumbers
<1>2. s.head = 8 /\ Len(s.bytes) \in {b3 + 5, b3 + 8}
  BY DEF ResponseShape, HeadShape, LastChunkShape
<1>3. ArrivedTo(s, m) = Clamp(m - (s.head + 3), l1) + Clamp(m - (s.head + 3 + Size(l1)), l2)
  BY ArrivedIs
<1>4. EndOf(s) = Len(s.bytes) /\ BodyAt(s, m) = Left(BodyOf(s), ArrivedTo(s, m))
  BY DEF EndOf, BodyAt
<1> HIDE DEF l1, l2, b1, b2, b3
<1>5. /\ b1 = 8 /\ b2 \in Nat /\ b3 \in Nat
      /\ b2 = IF l1 = 0 THEN b1 ELSE b1 + l1 + 5
      /\ b3 = IF l2 = 0 THEN b2 ELSE b2 + l2 + 5
  BY <1>1, <1>2 DEF Size
<1>6. ArrivedTo(s, m) = Clamp(m - (b1 + 3), l1) + Clamp(m - (b2 + 3), l2)
  <2>1. s.head + 3 = b1 + 3 /\ s.head + 3 + Size(l1) = b2 + 3
    BY <1>1, <1>2 DEF Size
  <2> QED
    BY <1>3, <2>1
<1>7. /\ m <= b1 + 3 => ArrivedTo(s, m) = 0
      /\ b1 + 3 <= m /\ m <= b1 + 3 + l1 => ArrivedTo(s, m) = m - (b1 + 3)
      /\ b1 + 3 + l1 <= m /\ m <= b2 + 3 => ArrivedTo(s, m) = l1
      /\ b2 + 3 <= m /\ m <= b2 + 3 + l2 => ArrivedTo(s, m) = l1 + (m - (b2 + 3))
      /\ b2 + 3 + l2 <= m => ArrivedTo(s, m) = l1 + l2
  <2>1. CASE l1 = 0
    BY <1>1, <1>5, <1>6, <2>1 DEF Clamp
  <2>2. CASE l1 # 0
    BY <1>1, <1>5, <1>6, <2>2 DEF Clamp
  <2> QED
    BY <2>1, <2>2
<1> QED
  BY <1>2, <1>4, <1>5, <1>7 DEF l1, l2, b1, b2, b3

\* The line that begins a chunk.
LEMMA ChunkLine ==
    ASSUME NEW s, ResponseShape(s), s.mode = "Chunked", NEW k \in 1 .. 3, k # 3 => s.chunks[k] # <<>>
    PROVE  LET c    == ChunkBase(s, k)
               size == IF k = 3 THEN 0 ELSE Len(s.chunks[k])
           IN  /\ c \in Nat /\ size \in Nat /\ (size = 0 <=> k = 3)
               /\ c + 3 + size + 2 <= Len(s.bytes)
               /\ s.bytes[c + 1] = Number(size) /\ s.bytes[c + 2] = CR /\ s.bytes[c + 3] = LF
               /\ \A m \in c .. c + 3 : BodyAt(s, c) = BodyAt(s, m)
<1> DEFINE l1 == Len(s.chunks[1])
           l2 == Len(s.chunks[2])
           b1 == ChunkBase(s, 1)
           b2 == ChunkBase(s, 2)
           b3 == ChunkBase(s, 3)
<1>1. /\ l1 \in Nat /\ l2 \in Nat /\ (s.chunks[1] = <<>> <=> l1 = 0) /\ (s.chunks[2] = <<>> <=> l2 = 0)
      /\ Len(s.bytes) \in Nat
  BY ResponseNumbers
<1>2. /\ b1 = 8 /\ b2 \in Nat /\ b3 \in Nat
      /\ b2 = IF l1 = 0 THEN b1 ELSE b1 + l1 + 5
      /\ b3 = IF l2 = 0 THEN b2 ELSE b2 + l2 + 5
      /\ b3 + 5 <= Len(s.bytes)
  <2>1. 0 \in Nat
    OBVIOUS
  <2>2. /\ b1 = 8 /\ b2 \in Nat /\ b3 \in Nat
        /\ b2 = IF l1 = 0 THEN b1 ELSE b1 + l1 + 5
        /\ b3 = IF l2 = 0 THEN b2 ELSE b2 + l2 + 5
        /\ Len(s.bytes) \in {b3 + 5, b3 + 8}
    BY <2>1, ChunkedNumbers
  <2> HIDE DEF l1, l2, b1, b2, b3
  <2>3. Len(s.bytes) = b3 + 5 \/ Len(s.bytes) = b3 + 8
    BY <2>2
  <2>4. b3 + 5 <= Len(s.bytes)
    BY <2>2, <2>3
  <2> QED
    BY <2>2, <2>4
<1>3. ASSUME NEW x \in Nat, NEW y \in Nat, ArrivedTo(s, x) = ArrivedTo(s, y) PROVE BodyAt(s, x) = BodyAt(s, y)
  BY <1>3 DEF BodyAt
<1>4. ASSUME NEW m \in Nat
      PROVE  /\ m <= b1 + 3 => ArrivedTo(s, m) = 0
             /\ b1 + 3 + l1 <= m /\ m <= b2 + 3 => ArrivedTo(s, m) = l1
             /\ b2 + 3 + l2 <= m => ArrivedTo(s, m) = l1 + l2
  BY ChunkedNumbers
<1>5. CASE k = 1
  <2>1. s.bytes[b1 + 1] = Number(l1) /\ s.bytes[b1 + 2] = CR /\ s.bytes[b1 + 3] = LF
    BY <1>5 DEF ResponseShape, ChunkShape
  <2> HIDE DEF l1, l2, b1, b2, b3
  <2>2. l1 # 0
    BY <1>1, <1>5
  <2>3. b1 + 3 + l1 + 2 <= Len(s.bytes)
    BY <1>1, <1>2, <2>2
  <2>4. \A m \in b1 .. b1 + 3 : BodyAt(s, b1) = BodyAt(s, m)
    <3>1. ASSUME NEW m \in b1 .. b1 + 3 PROVE BodyAt(s, b1) = BodyAt(s, m)
      <4>1. m \in Nat /\ b1 \in Nat /\ m <= b1 + 3 /\ b1 <= b1 + 3
        BY <1>2
      <4> QED
        BY <1>3, <1>4, <4>1
    <3> QED
      BY <3>1
  <2> QED
    BY <1>1, <1>2, <1>5, <2>1, <2>2, <2>3, <2>4 DEF b1, l1
<1>6. CASE k = 2
  <2>1. s.bytes[b2 + 1] = Number(l2) /\ s.bytes[b2 + 2] = CR /\ s.bytes[b2 + 3] = LF
    BY <1>6 DEF ResponseShape, ChunkShape
  <2> HIDE DEF l1, l2, b1, b2, b3
  <2>2. l2 # 0
    BY <1>1, <1>6
  <2>3. b2 + 3 + l2 + 2 <= Len(s.bytes)
    BY <1>1, <1>2, <2>2
  <2>4. \A m \in b2 .. b2 + 3 : BodyAt(s, b2) = BodyAt(s, m)
    <3>1. ASSUME NEW m \in b2 .. b2 + 3 PROVE ArrivedTo(s, m) = l1
      <4>1. m \in Nat /\ m <= b2 + 3
        BY <1>2
      <4>2. CASE l1 = 0
        BY <1>2, <1>4, <4>1, <4>2
      <4>3. CASE l1 # 0
        <5>1. b1 + 3 + l1 <= m
          BY <1>1, <1>2, <4>3
        <5> QED
          BY <1>4, <4>1, <5>1
      <4> QED
        BY <4>2, <4>3
    <3>2. ASSUME NEW m \in b2 .. b2 + 3 PROVE BodyAt(s, b2) = BodyAt(s, m)
      <4>1. m \in Nat /\ b2 \in b2 .. b2 + 3
        BY <1>2
      <4> QED
        BY <1>2, <1>3, <3>1, <4>1
    <3> QED
      BY <3>2
  <2> QED
    BY <1>1, <1>2, <1>6, <2>1, <2>2, <2>3, <2>4 DEF b2, l2
<1>7. CASE k = 3
  <2>1. s.bytes[b3 + 1] = Number(0) /\ s.bytes[b3 + 2] = CR /\ s.bytes[b3 + 3] = LF
    BY DEF ResponseShape, LastChunkShape
  <2> HIDE DEF l1, l2, b1, b2, b3
  <2>3. b3 + 3 + 0 + 2 <= Len(s.bytes)
    BY <1>1, <1>2
  <2>4. \A m \in b3 .. b3 + 3 : BodyAt(s, b3) = BodyAt(s, m)
    <3>1. ASSUME NEW m \in b3 .. b3 + 3 PROVE ArrivedTo(s, m) = l1 + l2
      <4>1. m \in Nat /\ b3 <= m /\ m <= b3 + 3
        BY <1>2
      <4>2. CASE l2 # 0
        <5>1. b2 + 3 + l2 <= m
          BY <1>1, <1>2, <4>1, <4>2
        <5> QED
          BY <1>4, <4>1, <5>1
      <4>3. CASE l2 = 0 /\ l1 # 0
        <5>1. b1 + 3 + l1 <= m /\ m <= b2 + 3 /\ l1 + l2 = l1
          BY <1>1, <1>2, <4>1, <4>3
        <5> QED
          BY <1>4, <4>1, <5>1
      <4>4. CASE l2 = 0 /\ l1 = 0
        <5>1. m <= b1 + 3 /\ l1 + l2 = 0
          BY <1>1, <1>2, <4>1, <4>4
        <5> QED
          BY <1>4, <4>1, <5>1
      <4> QED
        BY <4>2, <4>3, <4>4
    <3>2. ASSUME NEW m \in b3 .. b3 + 3 PROVE BodyAt(s, b3) = BodyAt(s, m)
      <4>1. m \in Nat /\ b3 \in b3 .. b3 + 3
        BY <1>2
      <4> QED
        BY <1>2, <1>3, <3>1, <4>1
    <3> QED
      BY <3>2
  <2> QED
    BY <1>1, <1>2, <1>7, <2>1, <2>3, <2>4 DEF b3
<1> QED
  BY <1>5, <1>6, <1>7

LEMMA ChunkSizeStep ==
    ASSUME NEW s, ResponseShape(s), NEW n \in 0 .. Len(s.bytes), NEW c, NEW p, NEW t, HttpAt(s, n, c, p, t),
           s.mode = "Chunked", p.mode = "Chunked", p.state = "ChunkSize",
           NEW k \in 1 .. 3, c = ChunkBase(s, k), k # 3 => s.chunks[k] # <<>>
    PROVE  Progress(s, n, c, p, t)
<1> DEFINE size == IF k = 3 THEN 0 ELSE Len(s.chunks[k])
<1>1. /\ c \in Nat /\ size \in Nat /\ (size = 0 <=> k = 3)
      /\ c + 3 + size + 2 <= Len(s.bytes)
      /\ s.bytes[c + 1] = Number(size) /\ s.bytes[c + 2] = CR /\ s.bytes[c + 3] = LF
      /\ \A m \in c .. c + 3 : BodyAt(s, c) = BodyAt(s, m)
  BY ChunkLine
<1>2. EndOf(s) = Len(s.bytes) /\ Len(s.bytes) \in Nat /\ n \in Nat
  BY ResponseNumbers DEF EndOf
<1> HIDE DEF size
<1>0. size \in Nat
  BY <1>1
<1>3. Number(size) # CR /\ IsNumber(Number(size)) /\ NumberOf(Number(size)) = size
  BY <1>0 DEF Number, CR, IsNumber, NumberOf
<1>6. \/ ParseStep(p) = p /\ Settled(s, n, c)
      \/ LineTaken(s, n, c, p, t, c + 3, <<s.bytes[c + 1]>>)
  <2>1. s.bytes[c + 1] # CR /\ c + 3 <= EndOf(s)
    BY <1>1, <1>2, <1>3
  <2>2. p.state \in LineStates
    BY DEF LineStates
  <2> QED
    BY <1>1, <2>1, <2>2, SymbolLineStep
<1>7. CASE ParseStep(p) = p /\ Settled(s, n, c)
  BY <1>7, Stays
<1>8. CASE LineTaken(s, n, c, p, t, c + 3, <<s.bytes[c + 1]>>)
  <2> DEFINE q == Beyond(p)
             state == IF size = 0 THEN "Trailers" ELSE "ChunkData"
             r == [q EXCEPT !.expected = size, !.state = state]
  <2>1. /\ c + 3 \in c + 1 .. n /\ ParseStep(p) = ParseLine(p) /\ LineOf(p) = <<Number(size)>>
        /\ q \in Parsers /\ q.buffer = SubSeq(s.bytes, (c + 3) + 1, n) /\ q.body = BodyAt(s, c + 3)
        /\ q.taken = t /\ q.mode = "Chunked"
    BY <1>1, <1>8 DEF LineTaken
  <2>2. ParseStep(p) = r
    <3>1. Len(LineOf(p)) = 1 /\ LineOf(p)[1] = Number(size)
      BY <2>1
    <3>2. ParseLine(p) = r
      BY <1>3, <3>1 DEF ParseLine, LineOf, Beyond
    <3> QED
      BY <2>1, <3>2
  <2>3. state \in ParserStates
    BY DEF ParserStates
  <2> HIDE DEF q, state
  <2>4. /\ r \in Parsers /\ r.buffer = q.buffer /\ r.body = q.body /\ r.taken = q.taken
        /\ r.mode = q.mode /\ r.expected = size /\ r.state = state
    <3>1. q \in Parsers /\ size \in Int
      BY <1>0, <2>1
    <3> QED
      BY <2>3, <3>1 DEF Parsers
  <2> HIDE DEF r
  <2>5. Place(s, c + 3, r)
    <3>1. CASE k = 3
      <4>1. r.state = "Trailers" /\ c + 3 = ChunkBase(s, 3) + 3
        BY <1>1, <2>4, <3>1 DEF state
      <4> QED
        BY <2>1, <2>4, <4>1 DEF Place
    <3>2. CASE k # 3
      <4>1. r.state = "ChunkData" /\ size = Len(s.chunks[k]) /\ size # 0 /\ k \in 1 .. 2
        BY <1>1, <2>4, <3>2 DEF state, size
      <4> DEFINE end == ChunkBase(s, k) + 3 + Len(s.chunks[k])
      <4>2. c + 3 \in ChunkBase(s, k) + 3 .. end - 1 /\ r.expected = end - (c + 3)
        <5>1. end = c + 3 + size /\ ChunkBase(s, k) + 3 = c + 3 /\ c \in Nat
          BY <1>1, <4>1
        <5>2. r.expected = size
          BY <2>4
        <5> HIDE DEF end
        <5> QED
          BY <1>0, <4>1, <5>1, <5>2
      <4> QED
        BY <2>1, <2>4, <4>1, <4>2 DEF Place
    <3> QED
      BY <3>1, <3>2
  <2>6. r.buffer = SubSeq(s.bytes, (c + 3) + 1, n) /\ r.body = BodyAt(s, c + 3) /\ r.taken = t
    BY <2>1, <2>4
  <2> QED
    BY <1>2, <2>1, <2>2, <2>4, <2>5, <2>6, Advances
<1> QED
  BY <1>6, <1>7, <1>8

\* A trailer, or the empty line that ends the response.
LEMMA TrailersStep ==
    ASSUME NEW s, ResponseShape(s), NEW n \in 0 .. Len(s.bytes), NEW c, NEW p, NEW t, HttpAt(s, n, c, p, t),
           s.mode = "Chunked", p.mode = "Chunked", p.state = "Trailers",
           c = ChunkBase(s, 3) + 3 \/ c = Len(s.bytes) - 2
    PROVE  Progress(s, n, c, p, t)
<1> DEFINE b3 == ChunkBase(s, 3)
           size == Len(s.bytes)
<1>1. b3 \in Nat /\ size \in Nat /\ (size = b3 + 5 \/ size = b3 + 8) /\ EndOf(s) = size
  <2>1. 0 \in Nat
    OBVIOUS
  <2>2. b3 \in Nat /\ size \in {b3 + 5, b3 + 8} /\ EndOf(s) = size
    BY <2>1, ChunkedNumbers
  <2>3. size \in Nat
    BY ResponseNumbers
  <2> QED
    BY <2>2, <2>3
<1>2. ASSUME NEW x \in Nat, NEW y \in Nat, x >= b3 + 3, y >= b3 + 3 PROVE BodyAt(s, x) = BodyAt(s, y)
  <2> DEFINE l1 == Len(s.chunks[1])
             l2 == Len(s.chunks[2])
             b2 == ChunkBase(s, 2)
  <2>1. l1 \in Nat /\ l2 \in Nat
    BY ResponseNumbers
  <2>2. ASSUME NEW m \in Nat, m >= b3 + 3
        PROVE  b2 + 3 + l2 <= m /\ (b2 + 3 + l2 <= m => ArrivedTo(s, m) = l1 + l2)
               /\ BodyAt(s, m) = Left(BodyOf(s), ArrivedTo(s, m))
    <3>1. /\ b2 \in Nat /\ b3 = IF l2 = 0 THEN b2 ELSE b2 + l2 + 5
          /\ b2 + 3 + l2 <= m => ArrivedTo(s, m) = l1 + l2
          /\ BodyAt(s, m) = Left(BodyOf(s), ArrivedTo(s, m))
      BY ChunkedNumbers
    <3> HIDE DEF l1, l2, b2, b3
    <3>2. b2 + 3 + l2 <= m
      BY <2>1, <2>2, <3>1
    <3> QED
      BY <3>1, <3>2
  <2> HIDE DEF l1, l2, b2, b3
  <2>3. BodyAt(s, x) = Left(BodyOf(s), l1 + l2) /\ BodyAt(s, y) = Left(BodyOf(s), l1 + l2)
    BY <1>2, <2>2
  <2> QED
    BY <2>3
<1>3. LastChunkShape(s)
  BY DEF ResponseShape
<1>4. p.state \in LineStates
  BY DEF LineStates
<1>5. CASE c # size - 2
  <2>1. c = b3 + 3 /\ size = b3 + 8 /\ c \in Nat /\ c + 3 = size - 2 /\ c + 1 = b3 + 4 /\ c + 2 = b3 + 5 /\ c + 3 = b3 + 6
    BY <1>1, <1>5, SMTT(30)
  <2>2. s.bytes[c + 1] = CHUNKED /\ s.bytes[c + 2] = CR /\ s.bytes[c + 3] = LF
    <3>1. s.bytes[b3 + 4] = CHUNKED /\ s.bytes[b3 + 5] = CR /\ s.bytes[b3 + 6] = LF
      BY <1>3, <2>1 DEF LastChunkShape
    <3> HIDE DEF b3
    <3> QED
      BY <2>1, <3>1
  <2>3. CHUNKED # CR
    BY DEF CHUNKED, CR
  <2>4. \A m \in c .. c + 3 : BodyAt(s, c) = BodyAt(s, m)
    <3>1. ASSUME NEW m \in c .. c + 3 PROVE BodyAt(s, c) = BodyAt(s, m)
      <4>1. m \in Nat /\ c >= b3 + 3 /\ m >= b3 + 3
        BY <1>1, <2>1, SMTT(30)
      <4> QED
        BY <1>2, <2>1, <4>1
    <3> QED
      BY <3>1
  <2>5. c + 3 <= EndOf(s)
    BY <1>1, <2>1, SMTT(30)
  <2>6. \/ ParseStep(p) = p /\ Settled(s, n, c)
        \/ LineTaken(s, n, c, p, t, c + 3, <<s.bytes[c + 1]>>)
    BY <1>4, <2>2, <2>3, <2>4, <2>5, SymbolLineStep
  <2>7. CASE ParseStep(p) = p /\ Settled(s, n, c)
    BY <2>7, Stays
  <2>8. CASE LineTaken(s, n, c, p, t, c + 3, <<s.bytes[c + 1]>>)
    <3> DEFINE r == Beyond(p)
    <3>1. /\ c + 3 \in c + 1 .. n /\ ParseStep(p) = ParseLine(p) /\ LineOf(p) # <<>>
          /\ r \in Parsers /\ r.buffer = SubSeq(s.bytes, (c + 3) + 1, n) /\ r.body = BodyAt(s, c + 3)
          /\ r.taken = t /\ r.mode = "Chunked" /\ r.state = "Trailers"
      BY <2>8 DEF LineTaken
    <3>2. ParseStep(p) = r
      <4>1. ParseLine(p) = r
        BY <3>1 DEF ParseLine, LineOf, Beyond
      <4> QED
        BY <3>1, <4>1
    <3> HIDE DEF r
    <3>3. Place(s, c + 3, r)
      BY <2>1, <3>1 DEF Place
    <3>4. n \in Nat
      BY <1>1
    <3> QED
      BY <3>1, <3>2, <3>3, <3>4, Advances
  <2> QED
    BY <2>6, <2>7, <2>8
<1>6. CASE c = size - 2
  <2>1. c \in Nat /\ c + 1 = size - 1 /\ c + 2 = size /\ c >= b3 + 3
    BY <1>1, <1>6
  <2>2. s.bytes[c + 1] = CR /\ s.bytes[c + 2] = LF
    BY <1>3, <2>1 DEF LastChunkShape
  <2>4. \A m \in c .. c + 2 : BodyAt(s, c) = BodyAt(s, m)
    <3>1. ASSUME NEW m \in c .. c + 2 PROVE BodyAt(s, c) = BodyAt(s, m)
      <4>1. m \in Nat /\ m >= b3 + 3
        BY <1>1, <2>1
      <4> QED
        BY <1>2, <2>1, <4>1
    <3> QED
      BY <3>1
  <2>5. c + 2 <= EndOf(s)
    BY <1>1, <2>1
  <2>6. \/ ParseStep(p) = p /\ Settled(s, n, c)
        \/ LineTaken(s, n, c, p, t, c + 2, <<>>)
    BY <1>4, <2>2, <2>4, <2>5, EmptyLineStep
  <2>7. CASE ParseStep(p) = p /\ Settled(s, n, c)
    BY <2>7, Stays
  <2>8. CASE LineTaken(s, n, c, p, t, c + 2, <<>>)
    <3> DEFINE q == Beyond(p)
               r == [q EXCEPT !.state = "Complete"]
    <3>1. /\ c + 2 \in c + 1 .. n /\ ParseStep(p) = ParseLine(p) /\ LineOf(p) = <<>>
          /\ q \in Parsers /\ q.buffer = SubSeq(s.bytes, (c + 2) + 1, n) /\ q.body = BodyAt(s, c + 2)
          /\ q.taken = t
      BY <2>8 DEF LineTaken
    <3>2. ParseStep(p) = r
      <4>1. ParseLine(p) = r
        BY <3>1 DEF ParseLine, LineOf, Beyond
      <4> QED
        BY <3>1, <4>1
    <3> HIDE DEF q
    <3>3. /\ r \in Parsers /\ r.buffer = q.buffer /\ r.body = q.body /\ r.taken = q.taken /\ r.state = "Complete"
      BY <3>1 DEF Parsers, ParserStates
    <3> HIDE DEF r
    <3>4. Place(s, c + 2, r)
      BY <2>1, <3>3 DEF Place
    <3>5. n \in Nat /\ r.buffer = SubSeq(s.bytes, (c + 2) + 1, n) /\ r.body = BodyAt(s, c + 2) /\ r.taken = t
      BY <1>1, <3>1, <3>3
    <3> QED
      BY <3>1, <3>2, <3>3, <3>4, <3>5, Advances
  <2> QED
    BY <2>6, <2>7, <2>8
<1> QED
  BY <1>5, <1>6

\* The data of a chunk: its place in the stream and in the body.
LEMMA ChunkDataShape ==
    ASSUME NEW s, ResponseShape(s), s.mode = "Chunked", NEW k \in 1 .. 2, s.chunks[k] # <<>>
    PROVE  LET base == ChunkBase(s, k) + 3
               size == Len(s.chunks[k])
               last == base + size
           IN  /\ base \in Nat /\ size \in Nat /\ size # 0 /\ last + 2 <= Len(s.bytes)
               /\ s.bytes[last + 1] = CR /\ s.bytes[last + 2] = LF
               /\ \E j \in 1 .. 3 : last + 2 = ChunkBase(s, j) /\ (j # 3 => s.chunks[j] # <<>>)
               /\ \A m \in last .. last + 2 : BodyAt(s, last) = BodyAt(s, m)
               /\ \E a \in Nat : /\ \A m \in base .. last : ArrivedTo(s, m) = a + (m - base)
                                 /\ a + size <= Len(BodyOf(s))
                                 /\ \A i \in 1 .. size : s.bytes[base + i] = BodyOf(s)[a + i]
<1> DEFINE l1 == Len(s.chunks[1])
           l2 == Len(s.chunks[2])
           b1 == ChunkBase(s, 1)
           b2 == ChunkBase(s, 2)
           b3 == ChunkBase(s, 3)
<1>1. /\ l1 \in Nat /\ l2 \in Nat /\ (s.chunks[1] = <<>> <=> l1 = 0) /\ (s.chunks[2] = <<>> <=> l2 = 0)
      /\ Len(s.bytes) \in Nat /\ Len(BodyOf(s)) = l1 + l2
      /\ s.chunks[1] \in Seq(Int) /\ s.chunks[2] \in Seq(Int)
  BY ResponseNumbers
<1>2. /\ b1 = 8 /\ b2 \in Nat /\ b3 \in Nat
      /\ b2 = IF l1 = 0 THEN b1 ELSE b1 + l1 + 5
      /\ b3 = IF l2 = 0 THEN b2 ELSE b2 + l2 + 5
      /\ b3 + 5 <= Len(s.bytes)
  <2>1. 0 \in Nat
    OBVIOUS
  <2>2. /\ b1 = 8 /\ b2 \in Nat /\ b3 \in Nat
        /\ b2 = IF l1 = 0 THEN b1 ELSE b1 + l1 + 5
        /\ b3 = IF l2 = 0 THEN b2 ELSE b2 + l2 + 5
        /\ Len(s.bytes) \in {b3 + 5, b3 + 8}
    BY <2>1, ChunkedNumbers
  <2> HIDE DEF l1, l2, b1, b2, b3
  <2>3. Len(s.bytes) = b3 + 5 \/ Len(s.bytes) = b3 + 8
    BY <2>2
  <2>4. b3 + 5 <= Len(s.bytes)
    BY <2>2, <2>3
  <2> QED
    BY <2>2, <2>4
<1>3. ASSUME NEW x \in Nat, NEW y \in Nat, ArrivedTo(s, x) = ArrivedTo(s, y) PROVE BodyAt(s, x) = BodyAt(s, y)
  BY <1>3 DEF BodyAt
<1>4. ASSUME NEW m \in Nat
      PROVE  /\ b1 + 3 <= m /\ m <= b1 + 3 + l1 => ArrivedTo(s, m) = m - (b1 + 3)
             /\ b1 + 3 + l1 <= m /\ m <= b2 + 3 => ArrivedTo(s, m) = l1
             /\ b2 + 3 <= m /\ m <= b2 + 3 + l2 => ArrivedTo(s, m) = l1 + (m - (b2 + 3))
             /\ b2 + 3 + l2 <= m => ArrivedTo(s, m) = l1 + l2
  BY ChunkedNumbers
<1>5. \A i \in 1 .. l1 + l2 : BodyOf(s)[i] = IF i <= l1 THEN s.chunks[1][i] ELSE s.chunks[2][i - l1]
  BY <1>1, StreamJoin DEF BodyOf
<1>6. CASE k = 1
  <2> DEFINE base == b1 + 3
             last == base + l1
  <2>1. /\ \A i \in 1 .. l1 : s.bytes[b1 + 3 + i] = s.chunks[1][i]
        /\ s.bytes[b1 + 3 + l1 + 1] = CR /\ s.bytes[b1 + 3 + l1 + 2] = LF
    BY <1>6 DEF ResponseShape, ChunkShape
  <2>2. \E j \in 1 .. 3 : b2 = ChunkBase(s, j) /\ (j # 3 => s.chunks[j] # <<>>)
    <3>1. CASE s.chunks[2] # <<>>
      BY <3>1
    <3>2. CASE s.chunks[2] = <<>>
      <4>1. b2 = b3
        BY <1>1, <1>2, <3>2
      <4> QED
        BY <4>1
    <3> QED
      BY <3>1, <3>2
  <2> HIDE DEF l1, l2, b1, b2, b3
  <2>3. /\ base \in Nat /\ l1 # 0 /\ last \in Nat /\ last + 2 = b2 /\ last + 2 <= Len(s.bytes)
    BY <1>1, <1>2, <1>6
  <2>4. ASSUME NEW m \in last .. last + 2 PROVE BodyAt(s, last) = BodyAt(s, m)
    <3>1. m \in Nat /\ ArrivedTo(s, m) = l1 /\ ArrivedTo(s, last) = l1
      <4>1. m \in Nat /\ b1 + 3 + l1 <= m /\ m <= b2 + 3 /\ b1 + 3 + l1 <= last /\ last <= b2 + 3
        BY <1>1, <1>2, <2>3
      <4> QED
        BY <1>4, <2>3, <4>1
    <3> QED
      BY <1>3, <2>3, <3>1
  <2>5. ASSUME NEW m \in base .. last PROVE ArrivedTo(s, m) = 0 + (m - base)
    <3>1. m \in Nat /\ b1 + 3 <= m /\ m <= b1 + 3 + l1 /\ 0 + (m - base) = m - (b1 + 3)
      BY <1>1, <2>3
    <3> QED
      BY <1>4, <3>1
  <2>6. ASSUME NEW i \in 1 .. l1 PROVE s.bytes[base + i] = BodyOf(s)[0 + i]
    <3>1. i \in 1 .. l1 + l2 /\ i <= l1 /\ 0 + i = i
      BY <1>1
    <3>2. BodyOf(s)[i] = s.chunks[1][i]
      BY <1>5, <3>1
    <3> QED
      BY <2>1, <3>1, <3>2
  <2>7. 0 \in Nat /\ 0 + l1 <= Len(BodyOf(s))
    BY <1>1
  <2>8. s.bytes[last + 1] = CR /\ s.bytes[last + 2] = LF
    BY <2>1
  <2>9. \E a \in Nat : /\ \A m \in base .. last : ArrivedTo(s, m) = a + (m - base)
                       /\ a + l1 <= Len(BodyOf(s))
                       /\ \A i \in 1 .. l1 : s.bytes[base + i] = BodyOf(s)[a + i]
    <3> HIDE DEF base, last
    <3> QED
      BY <2>5, <2>6, <2>7
  <2>10. \E j \in 1 .. 3 : last + 2 = ChunkBase(s, j) /\ (j # 3 => s.chunks[j] # <<>>)
    BY <2>2, <2>3
  <2>11. base = ChunkBase(s, k) + 3 /\ l1 = Len(s.chunks[k])
    BY <1>6 DEF b1, l1
  <2>12. l1 \in Nat
    BY <1>1
  <2> HIDE DEF base
  <2> QED
    BY <2>3, <2>4, <2>8, <2>9, <2>10, <2>11, <2>12
<1>7. CASE k = 2
  <2> DEFINE base == b2 + 3
             last == base + l2
  <2>1. /\ \A i \in 1 .. l2 : s.bytes[b2 + 3 + i] = s.chunks[2][i]
        /\ s.bytes[b2 + 3 + l2 + 1] = CR /\ s.bytes[b2 + 3 + l2 + 2] = LF
    BY <1>7 DEF ResponseShape, ChunkShape
  <2>2. \E j \in 1 .. 3 : b3 = ChunkBase(s, j) /\ (j # 3 => s.chunks[j] # <<>>)
    OBVIOUS
  <2> HIDE DEF l1, l2, b1, b2, b3
  <2>3. /\ base \in Nat /\ l2 # 0 /\ last \in Nat /\ last + 2 = b3 /\ last + 2 <= Len(s.bytes)
    BY <1>1, <1>2, <1>7
  <2>4. ASSUME NEW m \in last .. last + 2 PROVE BodyAt(s, last) = BodyAt(s, m)
    <3>1. m \in Nat /\ ArrivedTo(s, m) = l1 + l2 /\ ArrivedTo(s, last) = l1 + l2
      <4>1. m \in Nat /\ b2 + 3 + l2 <= m /\ b2 + 3 + l2 <= last
        BY <1>1, <1>2, <2>3
      <4> QED
        BY <1>4, <2>3, <4>1
    <3> QED
      BY <1>3, <2>3, <3>1
  <2>5. ASSUME NEW m \in base .. last PROVE ArrivedTo(s, m) = l1 + (m - base)
    <3>1. m \in Nat /\ b2 + 3 <= m /\ m <= b2 + 3 + l2
      BY <1>1, <2>3
    <3> QED
      BY <1>4, <3>1
  <2>6. ASSUME NEW i \in 1 .. l2 PROVE s.bytes[base + i] = BodyOf(s)[l1 + i]
    <3>1. l1 + i \in 1 .. l1 + l2 /\ ~(l1 + i <= l1) /\ (l1 + i) - l1 = i
      BY <1>1
    <3>2. BodyOf(s)[l1 + i] = s.chunks[2][i]
      BY <1>5, <3>1
    <3> QED
      BY <2>1, <3>1, <3>2
  <2>7. l1 \in Nat /\ l1 + l2 <= Len(BodyOf(s))
    BY <1>1
  <2>8. s.bytes[last + 1] = CR /\ s.bytes[last + 2] = LF
    BY <2>1
  <2>9. \E a \in Nat : /\ \A m \in base .. last : ArrivedTo(s, m) = a + (m - base)
                       /\ a + l2 <= Len(BodyOf(s))
                       /\ \A i \in 1 .. l2 : s.bytes[base + i] = BodyOf(s)[a + i]
    <3> HIDE DEF base, last
    <3> QED
      BY <2>5, <2>6, <2>7
  <2>10. \E j \in 1 .. 3 : last + 2 = ChunkBase(s, j) /\ (j # 3 => s.chunks[j] # <<>>)
    BY <2>2, <2>3
  <2>11. base = ChunkBase(s, k) + 3 /\ l2 = Len(s.chunks[k])
    BY <1>7 DEF b2, l2
  <2>12. l2 \in Nat
    BY <1>1
  <2> HIDE DEF base
  <2> QED
    BY <2>3, <2>4, <2>8, <2>9, <2>10, <2>11, <2>12
<1> QED
  BY <1>6, <1>7

\* A part of the stream that is a part of the body, from one place in the stream to another.
Run(s, base, last, a) ==
    /\ base <= last /\ last <= Len(s.bytes) /\ a + (last - base) <= Len(BodyOf(s))
    /\ \A m \in base .. last : ArrivedTo(s, m) = a + (m - base)
    /\ \A i \in 1 .. last - base : s.bytes[base + i] = BodyOf(s)[a + i]

InRun(s, c, d) ==
    \E base \in Nat, last \in Nat, a \in Nat : Run(s, base, last, a) /\ base <= c /\ c <= d /\ d <= last

LEMMA RunGrows ==
    ASSUME NEW s, ResponseShape(s), NEW c \in Nat, NEW d \in Nat, InRun(s, c, d)
    PROVE  /\ Joined(Left(BodyOf(s), ArrivedTo(s, c)), SubSeq(s.bytes, c + 1, d)) = Left(BodyOf(s), ArrivedTo(s, d))
           /\ Left(BodyOf(s), ArrivedTo(s, d)) \in Seq(Int)
<1>0. PICK base \in Nat, last \in Nat, a \in Nat : Run(s, base, last, a) /\ base <= c /\ c <= d /\ d <= last
  BY DEF InRun
<1> DEFINE b == s.bytes
           w == BodyOf(s)
<1>1. b \in Seq(Int) /\ w \in Seq(Int) /\ Len(b) \in Nat /\ Len(w) \in Nat
  <2>1. b \in Seq(Int) /\ w \in Seq(Int)
    BY ResponseNumbers
  <2> HIDE DEF b, w
  <2> QED
    BY <2>1
<1>2. /\ base <= last /\ last <= Len(b) /\ a + (last - base) <= Len(w)
      /\ \A i \in 1 .. last - base : b[base + i] = w[a + i]
  BY <1>0 DEF Run
<1> HIDE DEF b, w
<1>3. PICK x \in Nat : x = a + (c - base)
  BY <1>0
<1>4. PICK m \in Nat : m = d - c
  BY <1>0
<1>5. PICK y \in Nat : y = a + (d - base)
  BY <1>0
<1>6. x + m = y /\ c + m = d /\ x + m <= Len(w) /\ c + m <= Len(b) /\ y <= Len(w)
  BY <1>0, <1>1, <1>2, <1>3, <1>4, <1>5
<1>7. ASSUME NEW i \in 1 .. m PROVE b[c + i] = w[x + i]
  <2>1. PICK j \in 1 .. last - base : j = (c - base) + i
    BY <1>0, <1>4
  <2>2. base + j = c + i /\ a + j = x + i
    BY <1>3, <2>1
  <2>3. b[base + j] = w[a + j]
    BY <1>2
  <2> QED
    BY <2>2, <2>3
<1>8. SamePart(b, c, d, w, x, y)
  <2>1. d - c = m /\ y - x = d - c /\ d <= Len(b) /\ c <= d
    BY <1>0, <1>1, <1>2, <1>4, <1>6
  <2> QED
    BY <1>6, <1>7, <2>1 DEF SamePart
<1>9. Joined(Left(w, x), SubSeq(b, c + 1, d)) = Left(w, y)
  BY <1>1, <1>8, BodyGrows
<1>10. Left(w, y) \in Seq(Int)
  BY <1>1, <1>6 DEF Left
<1>11. ArrivedTo(s, c) = x /\ ArrivedTo(s, d) = y
  <2>1. c \in base .. last /\ d \in base .. last
    BY <1>0
  <2>2. \A i \in base .. last : ArrivedTo(s, i) = a + (i - base)
    BY <1>0 DEF Run
  <2> QED
    BY <1>3, <1>5, <2>1, <2>2
<1> QED
  BY <1>9, <1>10, <1>11 DEF b, w

\* What is taken of a part of the body that goes on to a known place.
Piece(p) == IF Len(p.buffer) < p.expected THEN Len(p.buffer) ELSE p.expected
WithPiece(p) ==
    [Consume(p, Piece(p)) EXCEPT !.body = @ \o Left(p.buffer, Piece(p)), !.expected = @ - Piece(p)]

After(p, buffer, body, expected) == [p EXCEPT !.buffer = buffer, !.body = body, !.expected = expected]

PieceAt(b, c, n, p, last, d) ==
    /\ c \in Nat /\ n \in Nat /\ c <= n /\ n <= Len(b) /\ p.buffer = SubSeq(b, c + 1, n)
    /\ last \in Nat /\ c <= last /\ p.expected = last - c
    /\ d \in Nat /\ d = (IF n < last THEN n ELSE last)

PieceIs(b, c, n, p, last, d) ==
    /\ Len(p.buffer) < p.expected <=> n < last
    /\ WithPiece(p) = After(p, SubSeq(b, d + 1, n), Joined(p.body, SubSeq(b, c + 1, d)), last - d)
    /\ SubSeq(b, d + 1, n) \in Seq(Int)

LEMMA PieceTaken ==
    ASSUME NEW b \in Seq(Int), NEW c, NEW n, NEW p \in Parsers, NEW last, NEW d, PieceAt(b, c, n, p, last, d)
    PROVE  PieceIs(b, c, n, p, last, d)
<1> DEFINE available == Len(p.buffer)
           piece == Piece(p)
<1>01. /\ c \in Nat /\ n \in Nat /\ c <= n /\ n <= Len(b) /\ p.buffer = SubSeq(b, c + 1, n)
       /\ last \in Nat /\ c <= last /\ p.expected = last - c
       /\ d \in Nat /\ d = (IF n < last THEN n ELSE last)
  BY DEF PieceAt
<1>02. available = n - c
  BY <1>01, PartShape
<1>03. piece = IF available < p.expected THEN available ELSE p.expected
  BY DEF Piece
<1> HIDE DEF available, piece
<1>1. (available < p.expected <=> n < last) /\ piece = d - c /\ c <= d /\ d <= n
  BY <1>01, <1>02, <1>03
<1>2. piece \in 0 .. n - c /\ c + piece = d /\ p.expected - piece = last - d
  BY <1>01, <1>1
<1>3. Rest(p.buffer, piece) = SubSeq(b, d + 1, n) /\ Left(p.buffer, piece) = SubSeq(b, c + 1, d)
  <2>1. Rest(SubSeq(b, c + 1, n), piece) = SubSeq(b, c + piece + 1, n)
        /\ Left(SubSeq(b, c + 1, n), piece) = SubSeq(b, c + 1, c + piece)
    BY <1>01, <1>2, PartOfStream, SMTT(20), ZenonT(20)
  <2> QED
    BY <1>01, <1>2, <2>1
<1>4. SubSeq(b, d + 1, n) \in Seq(Int)
  BY <1>01, <1>1, PartShape
<1>5. WithPiece(p)
        = After(p, SubSeq(b, d + 1, n), Joined(p.body, SubSeq(b, c + 1, d)), last - d)
  <2>1. Consume(p, piece) = [p EXCEPT !.buffer = SubSeq(b, d + 1, n)]
    BY <1>3 DEF Consume
  <2>2. WithPiece(p) = [Consume(p, piece) EXCEPT !.body = @ \o Left(p.buffer, piece), !.expected = @ - piece]
    BY DEF WithPiece, piece
  <2> QED
    BY <1>2, <1>3, <2>1, <2>2 DEF Parsers, Joined, After
<1> QED
  BY <1>1, <1>4, <1>5 DEF available, PieceIs

\* The next place in a chunk.
LEMMA NextPlace ==
    ASSUME NEW n \in Nat, NEW last \in Nat, NEW c \in Nat, c <= n, c <= last
    PROVE  \E d \in Nat : d = (IF n < last THEN n ELSE last) /\ c <= d /\ d <= n /\ d <= last /\ last - d \in Int
OBVIOUS

\* The pass that takes a piece of a chunk's data.
DataPass(s, n, last, d, p, q) ==
    /\ q.buffer = SubSeq(s.bytes, d + 1, n) /\ q.body = BodyAt(s, d) /\ q.expected = last - d
    /\ q.taken = p.taken /\ q.mode = "Chunked" /\ q.state = "ChunkData"
    /\ ParseStep(p) = IF n < last THEN q ELSE [q EXCEPT !.state = "ChunkTerminator"]

LEMMA DataTaken ==
    ASSUME NEW s, ResponseShape(s), s.mode = "Chunked",
           NEW base \in Nat, NEW last \in Nat, NEW a \in Nat, Run(s, base, last, a),
           NEW c \in Nat, NEW n \in Nat, n <= Len(s.bytes), c <= n, base <= c, c <= last,
           NEW p \in Parsers, p.buffer = SubSeq(s.bytes, c + 1, n), p.body = BodyAt(s, c),
           p.mode = "Chunked", p.state = "ChunkData", p.expected = last - c,
           NEW d \in Nat, d = (IF n < last THEN n ELSE last), c <= d, d <= n, d <= last
    PROVE  \E q \in Parsers : DataPass(s, n, last, d, p, q)
<1>1. s.bytes \in Seq(Int)
  BY ResponseNumbers
<1>2. Joined(BodyAt(s, c), SubSeq(s.bytes, c + 1, d)) = BodyAt(s, d) /\ BodyAt(s, d) \in Seq(Int)
  <2>1. BodyAt(s, c) = Left(BodyOf(s), ArrivedTo(s, c)) /\ BodyAt(s, d) = Left(BodyOf(s), ArrivedTo(s, d))
    BY DEF BodyAt
  <2>2. InRun(s, c, d)
    BY DEF InRun
  <2> QED
    BY <2>1, <2>2, RunGrows
<1> DEFINE available == Len(p.buffer)
           long == WithPiece(p)
           q == After(p, SubSeq(s.bytes, d + 1, n), BodyAt(s, d), last - d)
<1>3. /\ available < p.expected <=> n < last
      /\ long = After(p, SubSeq(s.bytes, d + 1, n), Joined(p.body, SubSeq(s.bytes, c + 1, d)), last - d)
      /\ SubSeq(s.bytes, d + 1, n) \in Seq(Int)
  <2>1. PieceAt(s.bytes, c, n, p, last, d)
    BY DEF PieceAt
  <2>2. PieceIs(s.bytes, c, n, p, last, d)
    BY <1>1, <2>1, PieceTaken
  <2> QED
    BY <2>2 DEF PieceIs
<1>4. ParseStep(p) = IF available < p.expected THEN long ELSE [long EXCEPT !.state = "ChunkTerminator"]
  BY DEF ParseStep, Ended, ParseBody, WithPiece, Piece
<1> HIDE DEF long, available
<1>5. long = q
  BY <1>2, <1>3
<1>6. ParseStep(p) = IF n < last THEN q ELSE [q EXCEPT !.state = "ChunkTerminator"]
  <2> HIDE DEF q
  <2> QED
    BY <1>3, <1>4, <1>5
<1>7. /\ q \in Parsers /\ q.buffer = SubSeq(s.bytes, d + 1, n) /\ q.body = BodyAt(s, d) /\ q.expected = last - d
      /\ q.taken = p.taken /\ q.mode = "Chunked" /\ q.state = "ChunkData"
  <2>1. last - d \in Int
    OBVIOUS
  <2> QED
    BY <1>2, <1>3, <2>1 DEF Parsers, After
<1> HIDE DEF q
<1>8. DataPass(s, n, last, d, p, q)
  BY <1>6, <1>7 DEF DataPass
<1> QED
  BY <1>7, <1>8

\* A place in the data of a chunk.
InChunk(s, k, base, last) ==
    k \in 1 .. 2 /\ s.chunks[k] # <<>> /\ base = ChunkBase(s, k) + 3 /\ last = base + Len(s.chunks[k])

LEMMA InChunkPlace ==
    ASSUME NEW s, ResponseShape(s), s.mode = "Chunked", NEW base \in Nat, NEW last \in Nat, NEW k,
           InChunk(s, k, base, last), NEW p, p.mode = "Chunked"
    PROVE  /\ \A d \in Nat : /\ p.state = "ChunkData" /\ base <= d /\ d < last /\ p.expected = last - d
                             => Place(s, d, p)
           /\ p.state = "ChunkTerminator" => Place(s, last, p)
<1>1. k \in 1 .. 2 /\ s.chunks[k] # <<>> /\ base = ChunkBase(s, k) + 3 /\ last = base + Len(s.chunks[k])
  BY DEF InChunk
<1>2. ASSUME NEW d \in Nat, p.state = "ChunkData", base <= d, d < last, p.expected = last - d PROVE Place(s, d, p)
  <2>1. d \in base .. last - 1
    BY <1>2
  <2>2. \E kk \in 1 .. 2 : LET end == ChunkBase(s, kk) + 3 + Len(s.chunks[kk])
                           IN  d \in ChunkBase(s, kk) + 3 .. end - 1 /\ p.expected = end - d
    BY <1>1, <1>2, <2>1
  <2> QED
    BY <1>2, <2>2 DEF Place
<1>3. ASSUME p.state = "ChunkTerminator" PROVE Place(s, last, p)
  <2>1. \E kk \in 1 .. 2 : s.chunks[kk] # <<>> /\ last = ChunkBase(s, kk) + 3 + Len(s.chunks[kk])
    BY <1>1
  <2> QED
    BY <1>3, <2>1 DEF Place
<1> QED
  BY <1>2, <1>3

LEMMA ChunkDataStep ==
    ASSUME NEW s, ResponseShape(s), NEW n \in Nat, n <= Len(s.bytes), NEW c \in Nat, NEW p, NEW t,
           HttpAt(s, n, c, p, t),
           s.mode = "Chunked", p.mode = "Chunked", p.state = "ChunkData",
           NEW base \in Nat, NEW last \in Nat, NEW k, InChunk(s, k, base, last),
           base <= c, c < last, p.expected = last - c, NEW a \in Nat, Run(s, base, last, a)
    PROVE  Progress(s, n, c, p, t)
<1>1. /\ p \in Parsers /\ c <= n
      /\ p.buffer = SubSeq(s.bytes, c + 1, n) /\ p.body = BodyAt(s, c) /\ p.taken = t
  BY DEF HttpAt
<1>2. c <= last
  OBVIOUS
<1>3. PICK d \in Nat : d = (IF n < last THEN n ELSE last) /\ c <= d /\ d <= n /\ d <= last /\ last - d \in Int
  BY <1>1, <1>2, NextPlace
<1>0. PICK q \in Parsers : DataPass(s, n, last, d, p, q)
  BY <1>1, <1>2, <1>3, DataTaken
<1>4. /\ q.buffer = SubSeq(s.bytes, d + 1, n) /\ q.body = BodyAt(s, d) /\ q.expected = last - d
      /\ q.taken = p.taken /\ q.mode = "Chunked" /\ q.state = "ChunkData"
      /\ ParseStep(p) = IF n < last THEN q ELSE [q EXCEPT !.state = "ChunkTerminator"]
  BY <1>0 DEF DataPass
<1>5. CASE n < last
  <2>1. ParseStep(p) = q /\ d = n
    BY <1>3, <1>4, <1>5
  <2>2. Place(s, n, q)
    <3>1. base <= n /\ q.expected = last - n
      BY <1>1, <1>4, <2>1
    <3> QED
      BY <1>4, <1>5, <3>1, InChunkPlace
  <2>3. HttpAt(s, n, n, q, t)
    <3>1. n \in 0 .. n
      OBVIOUS
    <3>2. q.buffer = SubSeq(s.bytes, n + 1, n) /\ q.body = BodyAt(s, n) /\ q.taken = t
      BY <1>1, <1>4, <2>1
    <3> QED
      BY <1>4, <2>2, <3>1, <3>2 DEF HttpAt
  <2>4. CASE c = n
    BY <2>1, <2>3, <2>4 DEF Progress, Settled
  <2>5. CASE c # n
    <3>1. n \in c + 1 .. n
      BY <1>1, <2>5
    <3> QED
      BY <2>1, <2>3, <3>1 DEF Progress
  <2> QED
    BY <2>4, <2>5
<1>6. CASE ~(n < last)
  <2> DEFINE r == [q EXCEPT !.state = "ChunkTerminator"]
  <2>1. ParseStep(p) = r /\ d = last
    BY <1>3, <1>4, <1>6
  <2>2. /\ r \in Parsers /\ r.buffer = q.buffer /\ r.body = q.body /\ r.taken = q.taken
        /\ r.mode = q.mode /\ r.state = "ChunkTerminator"
    BY <1>4 DEF Parsers, ParserStates
  <2> HIDE DEF r
  <2>3. Place(s, last, r)
    <3>1. r.mode = "Chunked"
      BY <1>4, <2>2
    <3> QED
      BY <2>2, <3>1, InChunkPlace
  <2>4. last \in c + 1 .. n
    BY <1>6
  <2>5. r.buffer = SubSeq(s.bytes, last + 1, n) /\ r.body = BodyAt(s, last) /\ r.taken = t
    BY <1>1, <1>4, <2>1, <2>2
  <2> QED
    BY <2>1, <2>2, <2>3, <2>4, <2>5, Advances
<1> QED
  BY <1>5, <1>6

\* A stream without its next symbols.
LEMMA RestOfStream ==
    ASSUME NEW b \in Seq(Int), NEW c \in Nat, NEW n \in Nat, c <= n, n <= Len(b), NEW k \in 0 .. n - c
    PROVE  Rest(SubSeq(b, c + 1, n), k) = SubSeq(b, (c + k) + 1, n)
<1>1. Rest(SubSeq(b, c + 1, n), k) = SubSeq(b, c + k + 1, n)
  BY PartOfStream
<1>2. c + k + 1 = (c + k) + 1
  OBVIOUS
<1> QED
  BY <1>1, <1>2

LEMMA TerminatorStep ==
    ASSUME NEW s, ResponseShape(s), NEW n \in Nat, n <= Len(s.bytes), NEW c \in Nat, NEW p, NEW t,
           HttpAt(s, n, c, p, t),
           s.mode = "Chunked", p.mode = "Chunked", p.state = "ChunkTerminator",
           c + 2 <= Len(s.bytes), s.bytes[c + 1] = CR, s.bytes[c + 2] = LF,
           NEW j \in 1 .. 3, c + 2 = ChunkBase(s, j), j # 3 => s.chunks[j] # <<>>,
           \A m \in c .. c + 2 : BodyAt(s, c) = BodyAt(s, m)
    PROVE  Progress(s, n, c, p, t)
<1>2. s.bytes \in Seq(Int) /\ Len(s.bytes) \in Nat
  BY ResponseNumbers
<1>3. /\ p \in Parsers /\ c <= n
      /\ p.buffer = SubSeq(s.bytes, c + 1, n) /\ p.body = BodyAt(s, c) /\ p.taken = t
  BY DEF HttpAt
<1>4. p.buffer \in Seq(Int) /\ Len(p.buffer) = n - c
  BY <1>2, <1>3, PartShape, SMTT(30)
<1>5. ParseStep(p) = IF Len(p.buffer) < 2 THEN p
                     ELSE IF LineEnd(p.buffer) # 1 THEN ParserFails(p)
                     ELSE [Consume(p, 2) EXCEPT !.state = "ChunkSize"]
  BY DEF ParseStep, Ended, ParseTerminator
<1>6. CASE n < c + 2
  <2>1. ParseStep(p) = p
    BY <1>2, <1>4, <1>5, <1>6
  <2>2. Settled(s, n, c)
    <3>1. n \in c .. c + 2
      BY <1>2, <1>3, <1>6
    <3>2. BodyAt(s, c) = BodyAt(s, n)
      BY <3>1
    <3>3. EndOf(s) = Len(s.bytes)
      BY DEF EndOf
    <3>4. ~(c >= EndOf(s)) /\ ~(n >= EndOf(s))
      BY <1>2, <1>6, <3>3
    <3> QED
      BY <3>2, <3>4 DEF Settled
  <2> QED
    BY <2>1, <2>2, Stays
<1>7. CASE n >= c + 2
  <2> DEFINE r == [Consume(p, 2) EXCEPT !.state = "ChunkSize"]
             len == 0
  <2>1. LineEnd(p.buffer) = 1
    <3>1. len \in 0 .. 1 /\ len # 1 /\ c + len + 1 = c + 1 /\ c + len + 2 = c + 2 /\ len + 1 = 1
      OBVIOUS
    <3> HIDE DEF len
    <3>2. s.bytes[c + len + 1] = CR /\ s.bytes[c + len + 2] = LF
      BY <3>1
    <3>3. LineEnd(SubSeq(s.bytes, c + 1, n)) = IF n >= c + len + 2 THEN len + 1 ELSE 0
      BY <1>2, <1>3, <3>1, <3>2, LineEndIs
    <3> QED
      BY <1>3, <1>7, <3>1, <3>3
  <2>2. ParseStep(p) = r
    <3>1. ~(Len(p.buffer) < 2)
      BY <1>2, <1>4, <1>7
    <3> QED
      BY <1>5, <2>1, <3>1
  <2>3. Rest(p.buffer, 2) = SubSeq(s.bytes, (c + 2) + 1, n) /\ SubSeq(s.bytes, (c + 2) + 1, n) \in Seq(Int)
    <3>1. 2 \in 0 .. n - c
      BY <1>2, <1>7
    <3>2. Rest(SubSeq(s.bytes, c + 1, n), 2) = SubSeq(s.bytes, (c + 2) + 1, n)
      BY <1>2, <1>3, <3>1, RestOfStream
    <3>3. SubSeq(s.bytes, (c + 2) + 1, n) \in Seq(Int)
      BY <1>2, <1>7, PartShape
    <3> QED
      BY <1>3, <3>2, <3>3
  <2>4. r = [p EXCEPT !.buffer = SubSeq(s.bytes, (c + 2) + 1, n), !.state = "ChunkSize"]
    BY <1>3, <2>3 DEF Consume, Parsers
  <2> HIDE DEF r
  <2>5. /\ r \in Parsers /\ r.buffer = SubSeq(s.bytes, (c + 2) + 1, n) /\ r.body = p.body /\ r.taken = t
        /\ r.mode = "Chunked" /\ r.state = "ChunkSize"
    BY <1>3, <2>3, <2>4 DEF Parsers, ParserStates
  <2>6. p.body = BodyAt(s, c + 2)
    <3>1. c + 2 \in c .. c + 2
      OBVIOUS
    <3> QED
      BY <1>3, <3>1
  <2>7. Place(s, c + 2, r)
    <3>1. r.state = "ChunkSize" /\ c + 2 = ChunkBase(s, j) /\ (j # 3 => s.chunks[j] # <<>>)
      BY <2>5
    <3> QED
      BY <2>5, <3>1 DEF Place
  <2>8. c + 2 \in c + 1 .. n /\ r.body = BodyAt(s, c + 2)
    BY <1>2, <1>7, <2>5, <2>6
  <2> QED
    BY <1>2, <2>2, <2>5, <2>7, <2>8, Advances
<1> QED
  BY <1>2, <1>6, <1>7

\* A body that is not in chunks: its place in the stream.
LEMMA WholeBody ==
    ASSUME NEW s, ResponseShape(s), s.mode # "Chunked"
    PROVE  /\ Run(s, s.head, Len(s.bytes), 0)
           /\ Len(s.bytes) = s.head + Len(s.chunks[1])
<1> DEFINE size == Len(s.chunks[1])
<1>1. /\ s.head \in Nat /\ size \in Nat /\ s.chunks[1] \in Seq(Int) /\ s.chunks[2] \in Seq(Int)
      /\ Len(BodyOf(s)) = size + Len(s.chunks[2])
  BY ResponseNumbers
<1>2. /\ s.chunks[2] = <<>> /\ Len(s.bytes) = s.head + size
      /\ \A i \in 1 .. size : s.bytes[s.head + i] = s.chunks[1][i]
  BY DEF ResponseShape, BodyShape
<1>3. Len(s.chunks[2]) = 0
  BY <1>2
<1>4. \A i \in 1 .. size : BodyOf(s)[i] = s.chunks[1][i]
  <2>1. \A i \in 1 .. size + Len(s.chunks[2]) :
           BodyOf(s)[i] = IF i <= size THEN s.chunks[1][i] ELSE s.chunks[2][i - size]
    BY <1>1, StreamJoin DEF BodyOf
  <2> HIDE DEF size
  <2> QED
    BY <1>1, <1>3, <2>1
<1> HIDE DEF size
<1>5. PICK last \in Nat : last = Len(s.bytes)
  BY <1>1, <1>2
<1>6. /\ s.head <= last /\ 0 + (last - s.head) = size /\ last - s.head = size
      /\ 0 + (last - s.head) <= Len(BodyOf(s))
  BY <1>1, <1>2, <1>3, <1>5
<1>7. ASSUME NEW m \in s.head .. last PROVE ArrivedTo(s, m) = 0 + (m - s.head)
  <2>1. m \in Nat /\ m - s.head \in Nat /\ m - s.head <= size
    BY <1>1, <1>6
  <2>2. ArrivedTo(s, m) = Clamp(m - s.head, size)
    BY <2>1, ArrivedIs DEF size
  <2>3. Clamp(m - s.head, size) = m - s.head
    BY <1>1, <2>1 DEF Clamp
  <2> QED
    BY <1>1, <2>1, <2>2, <2>3
<1>8. ASSUME NEW i \in 1 .. last - s.head PROVE s.bytes[s.head + i] = BodyOf(s)[0 + i]
  <2>1. i \in 1 .. size /\ 0 + i = i
    BY <1>1, <1>6
  <2> QED
    BY <1>2, <1>4, <2>1
<1>9. Run(s, s.head, last, 0)
  BY <1>5, <1>6, <1>7, <1>8 DEF Run
<1> QED
  BY <1>2, <1>5, <1>9 DEF size

\* Nothing is taken of a body with a length before all of it is there.
LEMMA LengthBodyStep ==
    ASSUME NEW s, ResponseShape(s), NEW n \in Nat, n <= Len(s.bytes), NEW c, NEW p, NEW t, HttpAt(s, n, c, p, t),
           s.mode = "ContentLength", p.mode = "ContentLength", p.state = "Body",
           c = s.head, p.expected = Len(s.chunks[1]), s.chunks[1] # <<>>
    PROVE  Progress(s, n, c, p, t)
<1>1. s.bytes \in Seq(Int) /\ c \in Nat /\ Len(s.chunks[1]) \in Nat /\ Len(s.chunks[1]) # 0 /\ BodyOf(s) \in Seq(Int)
  BY ResponseNumbers
<1>2. /\ p \in Parsers /\ c <= n
      /\ p.buffer = SubSeq(s.bytes, c + 1, n) /\ p.body = BodyAt(s, c) /\ p.taken = t
  BY DEF HttpAt
<1>3. PICK last \in Nat : last = Len(s.bytes) /\ last = c + Len(s.chunks[1])
  BY <1>1, WholeBody, SMTT(30)
<1>4. c < last /\ p.expected = last - c /\ n <= last /\ c <= last
  BY <1>1, <1>3
<1>5. PieceIs(s.bytes, c, n, p, last, n)
  <2>1. PieceAt(s.bytes, c, n, p, last, n)
    <3>1. n = (IF n < last THEN n ELSE last)
      BY <1>4
    <3> QED
      BY <1>1, <1>2, <1>4, <3>1 DEF PieceAt
  <2> QED
    BY <1>1, <1>2, <2>1, PieceTaken
<1>6. /\ Len(p.buffer) < p.expected <=> n < last
      /\ WithPiece(p) = After(p, SubSeq(s.bytes, n + 1, n), Joined(p.body, SubSeq(s.bytes, c + 1, n)), last - n)
      /\ SubSeq(s.bytes, n + 1, n) \in Seq(Int)
  BY <1>5 DEF PieceIs
<1>7. ParseStep(p) = IF n < last THEN p ELSE [WithPiece(p) EXCEPT !.state = "Complete"]
  <2>1. ParseStep(p) = IF Len(p.buffer) < p.expected THEN p ELSE [WithPiece(p) EXCEPT !.state = "Complete"]
    BY DEF ParseStep, Ended, ParseBody, WithPiece, Piece
  <2> QED
    BY <1>6, <2>1
<1>8. CASE n < last
  <2>1. BodyAt(s, c) = <<>> /\ BodyAt(s, n) = <<>>
    BY <1>3, <1>4, <1>8 DEF BodyAt
  <2>2. EndOf(s) = last
    BY <1>3 DEF EndOf
  <2>3. ~(c >= last) /\ ~(n >= last)
    BY <1>1, <1>4, <1>8
  <2>4. Settled(s, n, c)
    BY <2>1, <2>2, <2>3 DEF Settled
  <2> QED
    BY <1>7, <1>8, <2>4, Stays
<1>9. CASE ~(n < last)
  <2> DEFINE w == After(p, SubSeq(s.bytes, n + 1, n), BodyAt(s, n), last - n)
             r == [w EXCEPT !.state = "Complete"]
  <2>0. n = last
    BY <1>4, <1>9
  <2>1. Joined(BodyAt(s, c), SubSeq(s.bytes, c + 1, n)) = BodyAt(s, n) /\ BodyAt(s, n) \in Seq(Int)
    <3>1. InRun(s, c, n)
      <4>1. 0 \in Nat /\ Run(s, c, last, 0) /\ c <= c
        BY <1>1, <1>3, WholeBody
      <4> QED
        BY <1>1, <1>2, <1>4, <4>1 DEF InRun
    <3>2. /\ Joined(Left(BodyOf(s), ArrivedTo(s, c)), SubSeq(s.bytes, c + 1, n)) = Left(BodyOf(s), ArrivedTo(s, n))
          /\ Left(BodyOf(s), ArrivedTo(s, n)) \in Seq(Int)
      BY <1>1, <3>1, RunGrows
    <3>3. BodyAt(s, n) = Left(BodyOf(s), ArrivedTo(s, n))
      BY <1>3, <2>0 DEF BodyAt
    <3>4. BodyAt(s, c) = <<>>
      BY <1>3, <1>4 DEF BodyAt
    <3>5. Left(BodyOf(s), ArrivedTo(s, c)) = <<>>
      <4>1. ArrivedTo(s, c) = 0
        BY <1>1, NothingArrived
      <4>2. Left(BodyOf(s), 0) = <<>>
        <5> HIDE DEF BodyOf
        <5> QED
          BY <1>1 DEF Left
      <4> QED
        BY <4>1, <4>2
    <3> QED
      BY <3>2, <3>3, <3>4, <3>5
  <2>2. WithPiece(p) = w
    BY <1>2, <1>6, <2>1
  <2>3. ParseStep(p) = r
    BY <1>7, <1>9, <2>2
  <2>4. /\ w \in Parsers /\ w.buffer = SubSeq(s.bytes, n + 1, n) /\ w.body = BodyAt(s, n) /\ w.taken = t
    <3>1. last - n \in Int
      OBVIOUS
    <3> QED
      BY <1>2, <1>6, <2>1, <3>1 DEF Parsers, After
  <2> HIDE DEF w
  <2>5. r \in Parsers /\ r.buffer = w.buffer /\ r.body = w.body /\ r.taken = w.taken /\ r.state = "Complete"
    BY <2>4 DEF Parsers, ParserStates
  <2> HIDE DEF r
  <2>6. Place(s, n, r)
    BY <1>3, <2>0, <2>5 DEF Place
  <2>7. n \in c + 1 .. n
    BY <1>1, <1>4, <2>0
  <2>8. r.buffer = SubSeq(s.bytes, n + 1, n) /\ r.body = BodyAt(s, n) /\ r.taken = t
    BY <2>4, <2>5
  <2> QED
    BY <2>3, <2>5, <2>6, <2>7, <2>8, Advances
<1> QED
  BY <1>8, <1>9

\* A body that goes on until the connection ends is taken as it comes.
TakeAll(p) == [p EXCEPT !.body = @ \o p.buffer, !.buffer = <<>>]

LEMMA AllTaken ==
    ASSUME NEW s, ResponseShape(s), NEW n \in Nat, n <= Len(s.bytes), NEW c \in Nat, c <= n, s.head <= c,
           s.mode = "UntilEof", NEW p \in Parsers, p.buffer = SubSeq(s.bytes, c + 1, n), p.body = BodyAt(s, c)
    PROVE  LET r == TakeAll(p)
           IN  /\ r \in Parsers /\ r.buffer = SubSeq(s.bytes, n + 1, n) /\ r.body = BodyAt(s, n)
               /\ r.taken = p.taken /\ r.mode = p.mode /\ r.state = p.state
<1> DEFINE r == TakeAll(p)
<1>1. s.bytes \in Seq(Int) /\ s.head \in Nat /\ Len(s.bytes) \in Nat
  BY ResponseNumbers
<1>2. Joined(BodyAt(s, c), SubSeq(s.bytes, c + 1, n)) = BodyAt(s, n) /\ BodyAt(s, n) \in Seq(Int)
  <2>1. InRun(s, c, n)
    <3>1. 0 \in Nat /\ Run(s, s.head, Len(s.bytes), 0)
      BY WholeBody
    <3> QED
      BY <1>1, <3>1 DEF InRun
  <2>2. BodyAt(s, c) = Left(BodyOf(s), ArrivedTo(s, c)) /\ BodyAt(s, n) = Left(BodyOf(s), ArrivedTo(s, n))
    BY DEF BodyAt
  <2> QED
    BY <2>1, <2>2, RunGrows
<1>3. SubSeq(s.bytes, n + 1, n) = <<>>
  <2>1. SubSeq(s.bytes, n + 1, n) \in Seq(Int) /\ Len(SubSeq(s.bytes, n + 1, n)) = n - n
    BY <1>1, PartShape
  <2> DEFINE x == SubSeq(s.bytes, n + 1, n)
  <2> HIDE DEF x
  <2>2. x \in Seq(Int) /\ Len(x) = 0
    BY <2>1 DEF x
  <2>3. x = <<>>
    BY <2>2
  <2> QED
    BY <2>3 DEF x
<1>4. p.body \o p.buffer = BodyAt(s, n)
  <2>1. Joined(p.body, p.buffer) = BodyAt(s, n)
    BY <1>2
  <2> QED
    BY <2>1 DEF Joined
<1>5. r = [p EXCEPT !.body = BodyAt(s, n), !.buffer = <<>>]
  BY <1>4 DEF TakeAll
<1> HIDE DEF r
<1>6. <<>> \in Seq(Int)
  OBVIOUS
<1>7. /\ r \in Parsers /\ r.buffer = <<>> /\ r.body = BodyAt(s, n)
      /\ r.taken = p.taken /\ r.mode = p.mode /\ r.state = p.state
  BY <1>2, <1>5, <1>6 DEF Parsers
<1> QED
  BY <1>3, <1>7 DEF r

LEMMA EofBodyStep ==
    ASSUME NEW s, ResponseShape(s), NEW n \in Nat, n <= Len(s.bytes), NEW c, NEW p, NEW t, HttpAt(s, n, c, p, t),
           s.mode = "UntilEof", p.mode = "UntilEof", p.state = "Body", c >= s.head
    PROVE  Progress(s, n, c, p, t)
<1> DEFINE r == TakeAll(p)
<1>1. /\ p \in Parsers /\ c \in 0 .. n
      /\ p.buffer = SubSeq(s.bytes, c + 1, n) /\ p.body = BodyAt(s, c) /\ p.taken = t
  BY DEF HttpAt
<1>2. c \in Nat /\ c <= n /\ s.head <= c /\ s.head \in Nat /\ n >= s.head
  <2>1. s.head \in Nat
    BY ResponseNumbers
  <2> QED
    BY <1>1, <2>1
<1>3. ParseStep(p) = r
  BY DEF ParseStep, Ended, ParseBody, TakeAll
<1>4. /\ r \in Parsers /\ r.buffer = SubSeq(s.bytes, n + 1, n) /\ r.body = BodyAt(s, n)
      /\ r.taken = p.taken /\ r.mode = p.mode /\ r.state = p.state
  BY <1>1, <1>2, AllTaken
<1> HIDE DEF r
<1>5. Place(s, n, r)
  BY <1>2, <1>4 DEF Place
<1>6. HttpAt(s, n, n, r, t)
  <2>1. n \in 0 .. n
    OBVIOUS
  <2> QED
    BY <1>1, <1>4, <1>5, <2>1 DEF HttpAt
<1>7. CASE c = n
  BY <1>3, <1>6, <1>7 DEF Progress, Settled
<1>8. CASE c # n
  <2>1. n \in c + 1 .. n
    BY <1>2, <1>8
  <2> QED
    BY <1>3, <1>6, <2>1 DEF Progress
<1> QED
  BY <1>7, <1>8

LEMMA DataRun ==
    ASSUME NEW s, ResponseShape(s), s.mode = "Chunked", NEW k \in 1 .. 2, s.chunks[k] # <<>>
    PROVE  \E base \in Nat, last \in Nat, a \in Nat :
               InChunk(s, k, base, last) /\ Run(s, base, last, a) /\ last = base + Len(s.chunks[k])
<1> DEFINE base == ChunkBase(s, k) + 3
           size == Len(s.chunks[k])
           last == base + size
<1>1. /\ base \in Nat /\ size \in Nat /\ size # 0 /\ last + 2 <= Len(s.bytes)
      /\ \E a \in Nat : /\ \A m \in base .. last : ArrivedTo(s, m) = a + (m - base)
                        /\ a + size <= Len(BodyOf(s))
                        /\ \A i \in 1 .. size : s.bytes[base + i] = BodyOf(s)[a + i]
  BY ChunkDataShape, ZenonT(30)
<1>2. InChunk(s, k, base, last)
  BY DEF InChunk
<1>3. Len(s.bytes) \in Nat
  BY ResponseNumbers
<1> HIDE DEF base, size
<1>4. PICK a \in Nat : /\ \A m \in base .. last : ArrivedTo(s, m) = a + (m - base)
                       /\ a + size <= Len(BodyOf(s))
                       /\ \A i \in 1 .. size : s.bytes[base + i] = BodyOf(s)[a + i]
  BY <1>1
<1>5. last \in Nat /\ last - base = size /\ base <= last /\ last <= Len(s.bytes)
  BY <1>1, <1>3
<1>6. Run(s, base, last, a)
  BY <1>4, <1>5 DEF Run
<1> QED
  BY <1>1, <1>2, <1>5, <1>6 DEF size

LEMMA ChunkDataPlaceStep ==
    ASSUME NEW s, ResponseShape(s), NEW n \in Nat, n <= Len(s.bytes), NEW c \in Nat, NEW p, NEW t,
           HttpAt(s, n, c, p, t),
           s.mode = "Chunked", p.mode = "Chunked", p.state = "ChunkData",
           NEW k \in 1 .. 2, NEW end, end = ChunkBase(s, k) + 3 + Len(s.chunks[k]),
           c \in ChunkBase(s, k) + 3 .. end - 1, p.expected = end - c
    PROVE  Progress(s, n, c, p, t)
<1>1. ChunkBase(s, k) \in Nat /\ Len(s.chunks[k]) \in Nat
  <2>1. CASE k = 1
    BY <2>1, ResponseNumbers
  <2>2. CASE k = 2
    <3>1. s.head \in Nat /\ Size(Len(s.chunks[1])) \in Nat /\ ChunkBase(s, 2) = s.head + Size(Len(s.chunks[1]))
          /\ Len(s.chunks[2]) \in Nat
      BY ResponseNumbers
    <3> QED
      BY <2>2, <3>1, SMTT(30)
  <2> QED
    BY <2>1, <2>2
<1>2. s.chunks[k] # <<>>
  <2>1. Len(s.chunks[k]) # 0
    BY <1>1
  <2> QED
    BY <2>1
<1>3. PICK base \in Nat, last \in Nat, a \in Nat :
          InChunk(s, k, base, last) /\ Run(s, base, last, a) /\ last = base + Len(s.chunks[k])
  BY <1>2, DataRun
<1>4. base = ChunkBase(s, k) + 3 /\ last = end
  BY <1>3 DEF InChunk
<1>5. base <= c /\ c < last /\ p.expected = last - c
  BY <1>1, <1>4
<1> QED
  BY <1>3, <1>5, ChunkDataStep

LEMMA TerminatorPlaceStep ==
    ASSUME NEW s, ResponseShape(s), NEW n \in Nat, n <= Len(s.bytes), NEW c \in Nat, NEW p, NEW t,
           HttpAt(s, n, c, p, t),
           s.mode = "Chunked", p.mode = "Chunked", p.state = "ChunkTerminator",
           NEW k \in 1 .. 2, s.chunks[k] # <<>>, c = ChunkBase(s, k) + 3 + Len(s.chunks[k])
    PROVE  Progress(s, n, c, p, t)
<1>1. /\ c + 2 <= Len(s.bytes) /\ s.bytes[c + 1] = CR /\ s.bytes[c + 2] = LF
      /\ \E j \in 1 .. 3 : c + 2 = ChunkBase(s, j) /\ (j # 3 => s.chunks[j] # <<>>)
      /\ \A m \in c .. c + 2 : BodyAt(s, c) = BodyAt(s, m)
  BY ChunkDataShape
<1>2. PICK j \in 1 .. 3 : c + 2 = ChunkBase(s, j) /\ (j # 3 => s.chunks[j] # <<>>)
  BY <1>1
<1> QED
  BY <1>1, <1>2, TerminatorStep

LEMMA CompleteStep ==
    ASSUME NEW s, ResponseShape(s), NEW n \in Nat, n <= Len(s.bytes), NEW c, NEW p, NEW t, HttpAt(s, n, c, p, t),
           p.state = "Complete", c = Len(s.bytes)
    PROVE  Progress(s, n, c, p, t)
<1>1. c \in 0 .. n
  BY DEF HttpAt
<1>2. c = n
  BY <1>1
<1>3. ParseStep(p) = p
  BY DEF ParseStep, Ended
<1>4. Settled(s, n, c)
  BY <1>2 DEF Settled
<1> QED
  BY <1>3, <1>4, Stays

\* Every pass of parse() gets further, or there is nothing more to find out.
LEMMA HttpStep ==
    ASSUME NEW s, ResponseShape(s), NEW n \in Nat, n <= Len(s.bytes), NEW c, NEW p, NEW t, HttpAt(s, n, c, p, t)
    PROVE  Progress(s, n, c, p, t)
<1>1. c \in Nat /\ n \in 0 .. Len(s.bytes)
  <2>1. c \in 0 .. n /\ Len(s.bytes) \in Nat
    BY ResponseNumbers DEF HttpAt
  <2> QED
    BY <2>1
<1>2. Place(s, c, p)
  BY DEF HttpAt
<1>3. CASE p.state = "StatusLine" /\ c = 0 /\ p.headers = {}
  BY <1>1, <1>3, StatusLineStep
<1>4. CASE p.state = "Headers" /\ s.head = 8 /\ c = 3 /\ p.headers = {} /\ p.status = StatusOf(s)
  BY <1>1, <1>4, HeaderStep
<1>5. CASE p.state = "Headers" /\ c = s.head - 2 /\ p.headers = HeadersOf(s) /\ p.status = StatusOf(s)
  BY <1>1, <1>5, HeadersEndStep
<1>6. ASSUME s.mode = "Chunked", p.mode = "Chunked", p.state = "ChunkSize",
             \E k \in 1 .. 3 : c = ChunkBase(s, k) /\ (k # 3 => s.chunks[k] # <<>>)
      PROVE  Progress(s, n, c, p, t)
  <2>1. PICK k \in 1 .. 3 : c = ChunkBase(s, k) /\ (k # 3 => s.chunks[k] # <<>>)
    BY <1>6
  <2> QED
    BY <1>1, <1>6, <2>1, ChunkSizeStep
<1>7. ASSUME s.mode = "Chunked", p.mode = "Chunked", p.state = "ChunkData",
             \E k \in 1 .. 2 : LET end == ChunkBase(s, k) + 3 + Len(s.chunks[k])
                               IN  c \in ChunkBase(s, k) + 3 .. end - 1 /\ p.expected = end - c
      PROVE  Progress(s, n, c, p, t)
  <2>1. PICK k \in 1 .. 2 : LET end == ChunkBase(s, k) + 3 + Len(s.chunks[k])
                            IN  c \in ChunkBase(s, k) + 3 .. end - 1 /\ p.expected = end - c
    BY <1>7
  <2>2. PICK end : end = ChunkBase(s, k) + 3 + Len(s.chunks[k])
    OBVIOUS
  <2>3. c \in ChunkBase(s, k) + 3 .. end - 1 /\ p.expected = end - c
    BY <2>1, <2>2
  <2> QED
    BY <1>1, <1>7, <2>2, <2>3, ChunkDataPlaceStep
<1>8. ASSUME s.mode = "Chunked", p.mode = "Chunked", p.state = "ChunkTerminator",
             \E k \in 1 .. 2 : s.chunks[k] # <<>> /\ c = ChunkBase(s, k) + 3 + Len(s.chunks[k])
      PROVE  Progress(s, n, c, p, t)
  <2>1. PICK k \in 1 .. 2 : s.chunks[k] # <<>> /\ c = ChunkBase(s, k) + 3 + Len(s.chunks[k])
    BY <1>8
  <2> QED
    BY <1>1, <1>8, <2>1, TerminatorPlaceStep
<1>9. CASE /\ s.mode = "Chunked" /\ p.mode = "Chunked" /\ p.state = "Trailers"
           /\ c = ChunkBase(s, 3) + 3 \/ c = Len(s.bytes) - 2
  BY <1>1, <1>9, TrailersStep
<1>10. CASE /\ s.mode = "ContentLength" /\ p.mode = "ContentLength" /\ p.state = "Body"
            /\ c = s.head /\ p.expected = Len(s.chunks[1]) /\ s.chunks[1] # <<>>
  BY <1>10, LengthBodyStep
<1>11. CASE s.mode = "UntilEof" /\ p.mode = "UntilEof" /\ p.state = "Body" /\ c >= s.head
  BY <1>11, EofBodyStep
<1>12. CASE s.mode # "UntilEof" /\ p.state = "Complete" /\ c = Len(s.bytes)
  BY <1>12, CompleteStep
<1> HIDE DEF Place
<1> QED
  BY <1>2, <1>3, <1>4, <1>5, <1>6, <1>7, <1>8, <1>9, <1>10, <1>11, <1>12, Zenon DEF Place

\* The loop of parse(): as many passes as there are symbols get to the end of what there is.
Stuck(s, n, c, p) == Settled(s, n, c) /\ ParseStep(p) = p
HttpPass(s, n, k, p, t) ==
    \E c \in 0 .. n : HttpAt(s, n, c, p, t) /\ (c >= k \/ c = n \/ Stuck(s, n, c, p))

LEMMA HttpPasses ==
    ASSUME NEW s, ResponseShape(s), NEW n \in Nat, n <= Len(s.bytes), NEW k \in Nat, NEW p, NEW t,
           HttpPass(s, n, k, p, t)
    PROVE  HttpPass(s, n, k + 1, ParseStep(p), t)
<1>1. PICK c \in 0 .. n : HttpAt(s, n, c, p, t) /\ (c >= k \/ c = n \/ Stuck(s, n, c, p))
  BY DEF HttpPass
<1>2. Progress(s, n, c, p, t)
  BY <1>1, HttpStep
<1>3. CASE Stuck(s, n, c, p)
  BY <1>1, <1>3 DEF HttpPass, Stuck
<1>4. CASE HttpAt(s, n, c, ParseStep(p), t) /\ c = n
  BY <1>4 DEF HttpPass
<1>5. CASE Settled(s, n, c) /\ ParseStep(p) = p
  BY <1>3, <1>5 DEF Stuck
<1>6. CASE \E d \in c + 1 .. n : HttpAt(s, n, d, ParseStep(p), t)
  <2>1. PICK d \in c + 1 .. n : HttpAt(s, n, d, ParseStep(p), t)
    BY <1>6
  <2>2. d \in 0 .. n /\ (c >= k => d >= k + 1) /\ c # n
    BY <2>1
  <2>3. CASE c >= k
    BY <2>1, <2>2, <2>3 DEF HttpPass
  <2> QED
    BY <1>1, <1>3, <2>2, <2>3
<1> QED
  BY <1>2, <1>4, <1>5, <1>6 DEF Progress

HttpSettled(s, n, p, t) == \E c \in 0 .. n : HttpAt(s, n, c, p, t) /\ Settled(s, n, c)

LEMMA ParsePasses ==
    ASSUME NEW p, Len(p.buffer) \in Nat
    PROVE  \E f : /\ Parse(p) = f[Len(p.buffer)]
                  /\ f[0] = p
                  /\ \A k \in 1 .. Len(p.buffer) : f[k] = ParseStep(f[k - 1])
<1> DEFINE n == Len(p.buffer)
           Def(f, m) == f = [k \in 0 .. m |-> IF k = 0 THEN p ELSE ParseStep(f[k - 1])]
           G == {m \in Nat : \E f : Def(f, m)}
           pass == CHOOSE f : Def(f, n)
<1>0. Parse(p) = pass[n]
  BY DEF Parse
<1> HIDE DEF pass
<1>1. 0 \in G
  <2>1. Def([k \in 0 .. 0 |-> p], 0)
    OBVIOUS
  <2> QED
    BY <2>1
<1>2. ASSUME NEW m \in Nat, m \in G PROVE m + 1 \in G
  <2>1. PICK f : Def(f, m)
    BY <1>2
  <2> DEFINE h == [k \in 0 .. m + 1 |-> IF k = m + 1 THEN ParseStep(f[m]) ELSE f[k]]
  <2>2. ASSUME NEW k \in 0 .. m + 1 PROVE h[k] = IF k = 0 THEN p ELSE ParseStep(h[k - 1])
    <3>1. CASE k \in 0 .. m
      <4>1. h[k] = f[k] /\ (k # 0 => h[k - 1] = f[k - 1])
        BY <3>1
      <4> HIDE DEF h
      <4> QED
        BY <2>1, <3>1, <4>1
    <3>2. CASE k = m + 1
      BY <3>2
    <3> QED
      BY <3>1, <3>2
  <2>3. h = [k \in 0 .. m + 1 |-> IF k = 0 THEN p ELSE ParseStep(h[k - 1])]
    BY <2>2
  <2> HIDE DEF h
  <2>4. \E g : Def(g, m + 1)
    BY <2>3
  <2> HIDE DEF Def
  <2> QED
    BY <2>4
<1> HIDE DEF Def
<1>3. n \in G
  <2> HIDE DEF G, n
  <2>1. n \in Nat
    BY DEF n
  <2> QED
    BY <1>1, <1>2, <2>1, NatSetInduction
<1>4. Def(pass, n)
  BY <1>3 DEF pass
<1>5. pass = [k \in 0 .. n |-> IF k = 0 THEN p ELSE ParseStep(pass[k - 1])]
  BY <1>4 DEF Def
<1>6. pass[0] = p /\ \A k \in 1 .. n : pass[k] = ParseStep(pass[k - 1])
  <2>1. n \in Nat
    OBVIOUS
  <2>2. 0 \in 0 .. n /\ \A k \in 1 .. n : k \in 0 .. n /\ k # 0
    BY <2>1
  <2> HIDE DEF n
  <2> QED
    BY <1>5, <2>2
<1> QED
  BY <1>0, <1>6

LEMMA HttpParse ==
    ASSUME NEW s, ResponseShape(s), NEW n \in Nat, n <= Len(s.bytes), NEW c \in Nat, NEW p, NEW t,
           HttpAt(s, n, c, p, t)
    PROVE  HttpSettled(s, n, Parse(p), t)
<1> DEFINE L == Len(p.buffer)
<1>1. c <= n /\ L = n - c /\ L \in Nat
  <2>1. c <= n /\ p.buffer = SubSeq(s.bytes, c + 1, n) /\ s.bytes \in Seq(Int)
    <3>1. c \in 0 .. n /\ p.buffer = SubSeq(s.bytes, c + 1, n)
      BY DEF HttpAt
    <3>2. s.bytes \in Seq(Int)
      BY ResponseNumbers
    <3> QED
      BY <3>1, <3>2
  <2> QED
    BY <2>1, PartShape
<1>2. PICK f : /\ Parse(p) = f[L]
               /\ f[0] = p
               /\ \A k \in 1 .. L : f[k] = ParseStep(f[k - 1])
  BY <1>1, ParsePasses
<1>3. Parse(p) = f[L] /\ f[0] = p /\ \A k \in 1 .. L : f[k] = ParseStep(f[k - 1])
  BY <1>2
<1> HIDE DEF L
<1> DEFINE G == {k \in Nat : k <= L => HttpPass(s, n, c + k, f[k], t)}
<1>4. 0 \in G
  <2>1. c + 0 = c /\ c \in 0 .. n /\ c >= c
    BY <1>1
  <2> QED
    BY <1>3, <2>1 DEF HttpPass
<1>5. ASSUME NEW k \in Nat, k \in G PROVE k + 1 \in G
  <2> SUFFICES ASSUME k + 1 <= L PROVE HttpPass(s, n, c + (k + 1), f[k + 1], t)
    OBVIOUS
  <2>1. HttpPass(s, n, c + k, f[k], t)
    BY <1>1, <1>5
  <2>2. f[k + 1] = ParseStep(f[k])
    <3>1. k + 1 \in 1 .. L /\ (k + 1) - 1 = k
      BY <1>1
    <3> QED
      BY <1>3, <3>1
  <2>3. PICK j \in Nat : j = c + k /\ j + 1 = c + (k + 1)
    OBVIOUS
  <2>4. HttpPass(s, n, j + 1, ParseStep(f[k]), t)
    BY <2>1, <2>3, HttpPasses
  <2> QED
    BY <2>2, <2>3, <2>4
<1>6. L \in G
  <2> HIDE DEF G
  <2> QED
    BY <1>1, <1>4, <1>5, NatSetInduction
<1>7. HttpPass(s, n, n, Parse(p), t)
  <2>1. c + L = n /\ L <= L
    BY <1>1
  <2> QED
    BY <1>3, <1>6, <2>1
<1>8. PICK d \in 0 .. n : HttpAt(s, n, d, Parse(p), t) /\ (d >= n \/ d = n \/ Stuck(s, n, d, Parse(p)))
  BY <1>7 DEF HttpPass
<1>9. CASE d = n
  BY <1>8, <1>9 DEF HttpSettled, Settled
<1>10. CASE Stuck(s, n, d, Parse(p))
  BY <1>8, <1>10 DEF HttpSettled, Stuck
<1> QED
  BY <1>8, <1>9, <1>10

\* What a parser is in the middle of, when more arrives.
LEMMA MoreArrives ==
    ASSUME NEW s, ResponseShape(s), NEW n \in Nat, NEW m \in Nat, n <= m, m <= Len(s.bytes),
           NEW c \in Nat, NEW p, NEW t, HttpAt(s, n, c, p, t),
           NEW q, q = [p EXCEPT !.buffer = Joined(@, SubSeq(s.bytes, n + 1, m))]
    PROVE  HttpAt(s, m, c, q, t)
<1>1. s.bytes \in Seq(Int)
  BY ResponseNumbers
<1>2. /\ p \in Parsers /\ c <= n /\ p.buffer = SubSeq(s.bytes, c + 1, n)
      /\ p.body = BodyAt(s, c) /\ p.taken = t /\ Place(s, c, p)
  BY DEF HttpAt
<1>3. Joined(SubSeq(s.bytes, c + 1, n), SubSeq(s.bytes, n + 1, m)) = SubSeq(s.bytes, c + 1, m)
  <2>1. c + 1 \in Nat /\ 1 <= c + 1 /\ (c + 1) - 1 <= n
    BY <1>2
  <2> QED
    BY <1>1, <2>1, PartsJoin
<1>4. SubSeq(s.bytes, c + 1, m) \in Seq(Int)
  BY <1>1, <1>2, PartShape, SMTT(30)
<1>5. q = [p EXCEPT !.buffer = SubSeq(s.bytes, c + 1, m)]
  BY <1>2, <1>3
<1>6. /\ q \in Parsers /\ q.buffer = SubSeq(s.bytes, c + 1, m) /\ q.body = p.body /\ q.taken = p.taken
      /\ q.state = p.state /\ q.mode = p.mode /\ q.expected = p.expected
      /\ q.headers = p.headers /\ q.status = p.status
  BY <1>2, <1>4, <1>5 DEF Parsers
<1>7. Place(s, c, q)
  <2>1. Place(s, c, p)
    BY <1>2
  <2> QED
    BY <1>6, <2>1, SMT DEF Place
<1>8. c \in 0 .. m
  BY <1>2
<1> QED
  BY <1>2, <1>6, <1>7, <1>8 DEF HttpAt

\* feed() keeps up with what has arrived.
LEMMA HttpFed ==
    ASSUME NEW s, ResponseShape(s), NEW n \in Nat, NEW m \in Nat, n < m, m <= Len(s.bytes),
           NEW p, NEW t, HttpSettled(s, n, p, t)
    PROVE  HttpSettled(s, m, HttpFeed(p, SubSeq(s.bytes, n + 1, m)), t)
<1>1. PICK c \in 0 .. n : HttpAt(s, n, c, p, t)
  BY DEF HttpSettled
<1>2. c \in Nat /\ c <= n /\ n <= m /\ Len(s.bytes) \in Nat
  BY <1>1, ResponseNumbers
<1> DEFINE piece == SubSeq(s.bytes, n + 1, m)
           q == [p EXCEPT !.buffer = Joined(@, piece)]
<1>3. ~Ended(p)
  <2>1. Place(s, c, p) /\ c # Len(s.bytes)
    BY <1>1, <1>2 DEF HttpAt
  <2> QED
    BY <2>1 DEF Place, Ended
<1>4. HttpFeed(p, piece) = Parse(q)
  <2>1. q = [p EXCEPT !.buffer = @ \o piece]
    <3> HIDE DEF piece
    <3> QED
      BY DEF Joined
  <2> HIDE DEF q, piece
  <2> QED
    BY <1>3, <2>1 DEF HttpFeed
<1> HIDE DEF q
<1>5. HttpAt(s, m, c, q, t)
  BY <1>1, <1>2, MoreArrives DEF q
<1>6. HttpSettled(s, m, Parse(q), t)
  BY <1>2, <1>5, HttpParse
<1> QED
  BY <1>4, <1>6

\* The states of a parser that is not in the middle of anything.
LEMMA PlaceEnd ==
    ASSUME NEW s, ResponseShape(s), NEW c \in Nat, c <= Len(s.bytes), NEW p, Place(s, c, p)
    PROVE  /\ p.state # "Failed"
           /\ s.mode # "UntilEof" => (p.state = "Complete" <=> c = Len(s.bytes))
           /\ s.mode # "UntilEof" => ~(p.state = "Body" /\ p.mode = "UntilEof")
           /\ s.mode = "UntilEof" => p.state # "Complete"
           /\ s.mode = "UntilEof" => (p.state = "Body" /\ p.mode = "UntilEof" <=> c >= s.head)
<1>1. /\ s.head \in Nat /\ 5 <= s.head /\ s.head <= Len(s.bytes) /\ Len(s.bytes) \in Nat
  BY ResponseNumbers
<1>2. p.state # "Failed" /\ (s.mode = "UntilEof" => p.state # "Complete")
  BY DEF Place
<1>3. s.mode # "UntilEof" /\ p.state = "Complete" => c = Len(s.bytes)
  BY DEF Place
<1>4. s.mode # "UntilEof" => ~(p.state = "Body" /\ p.mode = "UntilEof")
  BY DEF Place
<1>5. ASSUME s.mode # "UntilEof", p.state # "Complete" PROVE c < Len(s.bytes)
  <2>1. CASE p.state = "StatusLine"
    <3>1. c = 0
      BY <2>1 DEF Place
    <3> QED
      BY <1>1, <3>1
  <2>2. CASE p.state = "Headers"
    <3>1. c = 3 \/ c = s.head - 2
      BY <2>2 DEF Place
    <3> QED
      BY <1>1, <3>1
  <2>3. CASE p.state = "Body"
    <3>1. s.mode = "ContentLength" /\ c = s.head /\ s.chunks[1] # <<>>
      BY <1>5, <2>3 DEF Place
    <3>2. Len(s.bytes) = s.head + Len(s.chunks[1]) /\ Len(s.chunks[1]) # 0 /\ Len(s.chunks[1]) \in Nat
      <4>1. Len(s.bytes) = s.head + Len(s.chunks[1])
        BY <3>1, WholeBody
      <4>2. Len(s.chunks[1]) # 0 /\ Len(s.chunks[1]) \in Nat
        BY <3>1, ResponseNumbers
      <4> QED
        BY <4>1, <4>2
    <3> QED
      BY <1>1, <3>1, <3>2
  <2>4. CASE p.state \in {"ChunkSize", "ChunkData", "ChunkTerminator", "Trailers"}
    <3>1. s.mode = "Chunked"
      BY <2>4 DEF Place
    <3> DEFINE l1 == Len(s.chunks[1])
               l2 == Len(s.chunks[2])
               b1 == ChunkBase(s, 1)
               b2 == ChunkBase(s, 2)
               b3 == ChunkBase(s, 3)
    <3>2. /\ b1 = 8 /\ b2 \in Nat /\ b3 \in Nat
          /\ b2 = IF l1 = 0 THEN b1 ELSE b1 + l1 + 5
          /\ b3 = IF l2 = 0 THEN b2 ELSE b2 + l2 + 5
          /\ Len(s.bytes) \in {b3 + 5, b3 + 8}
      BY <3>1, ChunkedNumbers
    <3>3. /\ l1 \in Nat /\ l2 \in Nat /\ (s.chunks[1] = <<>> <=> l1 = 0) /\ (s.chunks[2] = <<>> <=> l2 = 0)
      BY ResponseNumbers
    <3>4. /\ p.state = "ChunkSize" => \E k \in 1 .. 3 : c = ChunkBase(s, k)
          /\ p.state = "ChunkData" =>
                \E k \in 1 .. 2 : \E end : /\ end = ChunkBase(s, k) + 3 + Len(s.chunks[k])
                                           /\ c \in ChunkBase(s, k) + 3 .. end - 1
          /\ p.state = "ChunkTerminator" =>
                \E k \in 1 .. 2 : s.chunks[k] # <<>> /\ c = ChunkBase(s, k) + 3 + Len(s.chunks[k])
          /\ p.state = "Trailers" => c = ChunkBase(s, 3) + 3 \/ c = Len(s.bytes) - 2
      <4>1. ASSUME p.state = "ChunkSize" PROVE \E k \in 1 .. 3 : c = ChunkBase(s, k)
        <5>1. \E k \in 1 .. 3 : c = ChunkBase(s, k) /\ (k # 3 => s.chunks[k] # <<>>)
          BY <4>1 DEF Place
        <5> QED
          BY <5>1
      <4>2. ASSUME p.state = "ChunkData"
            PROVE  \E k \in 1 .. 2 : \E end : /\ end = ChunkBase(s, k) + 3 + Len(s.chunks[k])
                                               /\ c \in ChunkBase(s, k) + 3 .. end - 1
        <5>1. PICK k \in 1 .. 2 : LET end == ChunkBase(s, k) + 3 + Len(s.chunks[k])
                                  IN  c \in ChunkBase(s, k) + 3 .. end - 1 /\ p.expected = end - c
          BY <4>2 DEF Place
        <5>2. PICK end : end = ChunkBase(s, k) + 3 + Len(s.chunks[k])
          OBVIOUS
        <5>3. c \in ChunkBase(s, k) + 3 .. end - 1
          BY <5>1, <5>2
        <5> QED
          BY <5>2, <5>3
      <4>3. ASSUME p.state = "ChunkTerminator"
            PROVE  \E k \in 1 .. 2 : s.chunks[k] # <<>> /\ c = ChunkBase(s, k) + 3 + Len(s.chunks[k])
        BY <4>3 DEF Place
      <4>4. ASSUME p.state = "Trailers" PROVE c = ChunkBase(s, 3) + 3 \/ c = Len(s.bytes) - 2
        BY <4>4 DEF Place
      <4> QED
        BY <4>1, <4>2, <4>3, <4>4
    <3>5. b3 + 5 <= Len(s.bytes) /\ b1 <= b3 /\ b2 <= b3 /\ (l1 # 0 => b1 + l1 + 5 <= b3)
          /\ (l2 # 0 => b2 + l2 + 5 <= b3)
      <4> HIDE DEF l1, l2, b1, b2, b3
      <4>1. Len(s.bytes) = b3 + 5 \/ Len(s.bytes) = b3 + 8
        BY <3>2
      <4>2. b2 = b1 \/ b2 = b1 + l1 + 5
        BY <3>2
      <4> QED
        BY <3>2, <3>3, <4>1, <4>2
    <3>6. CASE p.state = "ChunkSize"
      <4>1. c = b1 \/ c = b2 \/ c = b3
        BY <3>4, <3>6
      <4> HIDE DEF l1, l2, b1, b2, b3
      <4> QED
        BY <1>1, <3>2, <3>5, <4>1
    <3>7. CASE p.state = "Trailers"
      <4>1. c = b3 + 3 \/ c = Len(s.bytes) - 2
        BY <3>4, <3>7
      <4> HIDE DEF l1, l2, b1, b2, b3
      <4> QED
        BY <1>1, <3>2, <3>5, <4>1
    <3>8. ASSUME \/ l1 # 0 /\ c <= b1 + 3 + l1
                 \/ l2 # 0 /\ c <= b2 + 3 + l2
          PROVE  c < Len(s.bytes)
      <4> HIDE DEF l1, l2, b1, b2, b3
      <4> QED
        BY <1>1, <3>2, <3>3, <3>5, <3>8
    <3>9. CASE p.state = "ChunkData"
      <4>0. PICK k \in 1 .. 2 : \E end : /\ end = ChunkBase(s, k) + 3 + Len(s.chunks[k])
                                         /\ c \in ChunkBase(s, k) + 3 .. end - 1
        BY <3>4, <3>9
      <4>1. PICK end : end = ChunkBase(s, k) + 3 + Len(s.chunks[k]) /\ c \in ChunkBase(s, k) + 3 .. end - 1
        BY <4>0
      <4>2. CASE k = 1
        <5>1. c \in b1 + 3 .. end - 1 /\ end = b1 + 3 + l1
          BY <4>1, <4>2
        <5> HIDE DEF l1, l2, b1, b2, b3
        <5>2. l1 # 0 /\ c <= b1 + 3 + l1
          BY <3>2, <3>3, <5>1
        <5> QED
          BY <3>8, <5>2
      <4>3. CASE k = 2
        <5>1. c \in b2 + 3 .. end - 1 /\ end = b2 + 3 + l2
          BY <4>1, <4>3
        <5> HIDE DEF l1, l2, b1, b2, b3
        <5>2. l2 # 0 /\ c <= b2 + 3 + l2
          BY <3>2, <3>3, <5>1
        <5> QED
          BY <3>8, <5>2
      <4> QED
        BY <4>2, <4>3
    <3>10. CASE p.state = "ChunkTerminator"
      <4>1. PICK k \in 1 .. 2 : s.chunks[k] # <<>> /\ c = ChunkBase(s, k) + 3 + Len(s.chunks[k])
        BY <3>4, <3>10
      <4>2. CASE k = 1
        <5>1. c = b1 + 3 + l1 /\ l1 # 0
          BY <3>3, <4>1, <4>2
        <5> HIDE DEF l1, l2, b1, b2, b3
        <5> QED
          BY <3>2, <3>3, <3>8, <5>1
      <4>3. CASE k = 2
        <5>1. c = b2 + 3 + l2 /\ l2 # 0
          BY <3>3, <4>1, <4>3
        <5> HIDE DEF l1, l2, b1, b2, b3
        <5> QED
          BY <3>2, <3>3, <3>8, <5>1
      <4> QED
        BY <4>2, <4>3
    <3> QED
      BY <2>4, <3>6, <3>7, <3>9, <3>10
  <2>5. p.state \in {"StatusLine", "Headers", "Body", "ChunkSize", "ChunkData", "ChunkTerminator", "Trailers"}
    BY <1>5 DEF Place
  <2> QED
    BY <2>1, <2>2, <2>3, <2>4, <2>5
<1>6. ASSUME s.mode = "UntilEof" PROVE p.state = "Body" /\ p.mode = "UntilEof" <=> c >= s.head
  <2>1. s.head = 5
    BY <1>6 DEF ResponseShape, HeadShape
  <2>2. CASE p.state = "Body"
    BY <1>6, <2>2 DEF Place
  <2>3. CASE p.state # "Body"
    <3>1. c = 0 \/ c = 3
      <4>1. c = 0 \/ c = s.head - 2
        BY <1>6, <2>1, <2>3 DEF Place
      <4> QED
        BY <2>1, <4>1
    <3>2. ~(c >= s.head)
      BY <2>1, <3>1
    <3> QED
      BY <2>3, <3>2
  <2> QED
    BY <2>2, <2>3
<1>7. s.mode # "UntilEof" /\ c = Len(s.bytes) => p.state = "Complete"
  BY <1>1, <1>5
<1> QED
  BY <1>2, <1>3, <1>4, <1>6, <1>7

\* What has been handed out goes on with what has arrived since.
LEMMA BodyGoesOn ==
    ASSUME NEW s, ResponseShape(s), NEW n \in Nat, NEW m \in Nat, n <= m, m <= Len(s.bytes)
    PROVE  /\ BodyAt(s, n) \in Seq(Int) /\ BodyAt(s, m) \in Seq(Int)
           /\ Joined(BodyAt(s, n), Rest(BodyAt(s, m), Len(BodyAt(s, n)))) = BodyAt(s, m)
<1> DEFINE w == BodyOf(s)
<1>1. /\ w \in Seq(Int) /\ Len(w) \in Nat
      /\ s.head \in Nat /\ Len(s.chunks[1]) \in Nat /\ Len(s.chunks[2]) \in Nat /\ Size(Len(s.chunks[1])) \in Nat
  <2>1. w \in Seq(Int)
    BY ResponseNumbers
  <2> HIDE DEF w
  <2>2. Len(w) \in Nat
    BY <2>1
  <2> QED
    BY <2>1, <2>2, ResponseNumbers
<1>2. PICK i \in Nat : i = ArrivedTo(s, n) /\ i <= Len(w)
  <2>1. ArrivedTo(s, n) \in 0 .. Len(w)
    BY ArrivedIs
  <2> HIDE DEF w
  <2> QED
    BY <1>1, <2>1
<1>3. PICK j \in Nat : j = ArrivedTo(s, m) /\ j <= Len(w)
  <2>1. ArrivedTo(s, m) \in 0 .. Len(w)
    BY ArrivedIs
  <2> HIDE DEF w
  <2> QED
    BY <1>1, <2>1
<1>4. i <= j
  <2>1. ASSUME NEW x \in Int, NEW y \in Int, x <= y, NEW k \in Nat PROVE Clamp(x, k) <= Clamp(y, k)
    BY <2>1 DEF Clamp
  <2> DEFINE e == s.head + 3
             f == s.head + 3 + Size(Len(s.chunks[1]))
             a1 == Clamp(n - e, Len(s.chunks[1]))
             a2 == Clamp(n - f, Len(s.chunks[2]))
             d1 == Clamp(m - e, Len(s.chunks[1]))
             d2 == Clamp(m - f, Len(s.chunks[2]))
             g1 == Clamp(n - s.head, Len(s.chunks[1]))
             g2 == Clamp(m - s.head, Len(s.chunks[1]))
  <2>2. i = (IF s.mode = "Chunked" THEN a1 + a2 ELSE g1) /\ j = (IF s.mode = "Chunked" THEN d1 + d2 ELSE g2)
    BY <1>2, <1>3, ArrivedIs
  <2>3. e \in Nat /\ f \in Nat
    BY <1>1, SMTT(30)
  <2> HIDE DEF e, f
  <2>4. /\ n - e \in Int /\ m - e \in Int /\ n - e <= m - e
        /\ n - f \in Int /\ m - f \in Int /\ n - f <= m - f
        /\ n - s.head \in Int /\ m - s.head \in Int /\ n - s.head <= m - s.head
    BY <1>1, <2>3
  <2>5. a1 <= d1 /\ a2 <= d2 /\ g1 <= g2
    BY <1>1, <2>1, <2>4
  <2>6. a1 \in Int /\ a2 \in Int /\ d1 \in Int /\ d2 \in Int /\ g1 \in Int /\ g2 \in Int
    BY <1>1, <2>4 DEF Clamp
  <2> HIDE DEF a1, a2, d1, d2, g1, g2
  <2> QED
    BY <2>2, <2>5, <2>6
<1> HIDE DEF w
<1>5. ASSUME NEW x \in Seq(Int) PROVE Joined(<<>>, Rest(x, Len(<<>>))) = x
  <2>1. Len(<<>>) = 0
    OBVIOUS
  <2>2. Rest(x, 0) = x
    BY SMT DEF Rest
  <2>3. Joined(<<>>, x) = x
    BY DEF Joined
  <2> QED
    BY <2>1, <2>2, <2>3
<1>6. Left(w, i) \in Seq(Int) /\ Len(Left(w, i)) = i /\ Left(w, j) \in Seq(Int) /\ Len(Left(w, j)) = j
  BY <1>1, <1>2, <1>3, SMTT(30) DEF Left
<1>7. Joined(Left(w, i), Rest(Left(w, j), i)) = Left(w, j)
  <2> DEFINE v == Left(w, j)
  <2>1. v \in Seq(Int) /\ Len(v) = j
    BY <1>6
  <2>2. Left(w, i) = SubSeq(v, 1, i)
    <3> DEFINE x == SubSeq(w, 1, i)
               y == SubSeq(v, 1, i)
    <3>1. x \in Seq(Int) /\ Len(x) = i /\ \A k \in 1 .. i : x[k] = w[k]
      BY <1>1, <1>2, SMTT(30)
    <3>2. y \in Seq(Int) /\ Len(y) = i /\ \A k \in 1 .. i : y[k] = v[k]
      <4> HIDE DEF v
      <4> QED
        BY <1>4, <2>1
    <3>3. \A k \in 1 .. j : v[k] = w[k]
      BY <1>1, <1>3 DEF Left
    <3> HIDE DEF x, y, v
    <3>4. Len(x) = Len(y) /\ \A k \in 1 .. Len(y) : x[k] = y[k]
      <4>1. \A k \in 1 .. i : k \in 1 .. j
        BY <1>4
      <4> QED
        BY <3>1, <3>2, <3>3, <4>1
    <3>5. x = y
      BY <3>1, <3>2, <3>4, SameSequence
    <3> QED
      BY <3>5 DEF x, y, Left
  <2> HIDE DEF v
  <2>3. Joined(SubSeq(v, 1, i), SubSeq(v, i + 1, j)) = SubSeq(v, 1, j)
    <3>1. 1 \in Nat /\ 1 <= 1 /\ 1 - 1 <= i /\ j <= Len(v)
      BY <2>1
    <3> QED
      BY <1>4, <2>1, <3>1, PartsJoin, ZenonT(30)
  <2>4. SubSeq(v, 1, j) = v /\ Rest(v, i) = SubSeq(v, i + 1, j)
    BY <2>1 DEF Rest
  <2> QED
    BY <2>2, <2>3, <2>4 DEF v
<1>8. BodyAt(s, n) = <<>> \/ BodyAt(s, n) = Left(w, i)
  BY <1>2 DEF BodyAt, w
<1>9. BodyAt(s, m) = <<>> \/ BodyAt(s, m) = Left(w, j)
  BY <1>3 DEF BodyAt, w
<1>10. CASE BodyAt(s, n) = <<>>
  <2>1. <<>> \in Seq(Int)
    OBVIOUS
  <2>2. BodyAt(s, m) \in Seq(Int)
    BY <1>6, <1>9, <2>1
  <2> QED
    BY <1>5, <1>10, <2>1, <2>2
<1>11. CASE BodyAt(s, n) # <<>>
  <2>1. BodyAt(s, n) = Left(w, i)
    BY <1>8, <1>11
  <2>2. ~(s.mode = "ContentLength" /\ n < Len(s.bytes))
    BY <1>11 DEF BodyAt
  <2>3. ~(s.mode = "ContentLength" /\ m < Len(s.bytes))
    <3>1. Len(s.bytes) \in Nat
      BY ResponseNumbers
    <3> QED
      BY <2>2, <3>1
  <2>4. BodyAt(s, m) = Left(w, j)
    BY <1>3, <2>3 DEF BodyAt, w
  <2> QED
    BY <1>6, <1>7, <2>1, <2>4
<1> QED
  BY <1>10, <1>11

\* What is left of a stream when all of it is dealt with.
LEMMA NothingLeft ==
    ASSUME NEW b \in Seq(Int), NEW n \in Nat, n <= Len(b)
    PROVE  SubSeq(b, n + 1, n) = <<>>
<1> DEFINE x == SubSeq(b, n + 1, n)
<1>1. x \in Seq(Int) /\ Len(x) = n - n
  BY PartShape
<1> HIDE DEF x
<1>2. Len(x) = 0
  BY <1>1
<1>3. x = <<>>
  BY <1>1, <1>2
<1> QED
  BY <1>3 DEF x

\* The end of the connection: whether the response is over, and its body.
HttpOver(s, n) == IF s.mode = "UntilEof" THEN n >= s.head ELSE n = Len(s.bytes)

LEMMA HttpFinished ==
    ASSUME NEW s, ResponseShape(s), NEW n \in Nat, n <= Len(s.bytes), NEW p, NEW t, HttpSettled(s, n, p, t)
    PROVE  LET r == HttpFinish(p)
           IN  /\ r.body = BodyAt(s, n) /\ r.taken = t /\ r \in Parsers
               /\ r.state = "Complete" <=> HttpOver(s, n)
               /\ r.state = "Failed" <=> ~HttpOver(s, n)
<1> DEFINE q == IF Ended(p) THEN p ELSE Parse(p)
<1>1. PICK c \in Nat : HttpAt(s, n, c, q, t) /\ Settled(s, n, c) /\ c <= n
  <2>1. PICK c \in 0 .. n : HttpAt(s, n, c, p, t) /\ Settled(s, n, c)
    BY DEF HttpSettled
  <2>2. c \in Nat /\ c <= n
    BY <2>1
  <2>3. HttpSettled(s, n, Parse(p), t)
    BY <2>1, <2>2, HttpParse
  <2>4. HttpSettled(s, n, q, t)
    <3>1. CASE Ended(p)
      BY <3>1
    <3>2. CASE ~Ended(p)
      BY <2>3, <3>2
    <3> QED
      BY <3>1, <3>2
  <2> HIDE DEF q
  <2>5. PICK d \in 0 .. n : HttpAt(s, n, d, q, t) /\ Settled(s, n, d)
    BY <2>4 DEF HttpSettled
  <2> QED
    BY <2>5
<1>2. HttpFinish(p) = IF Ended(q) THEN q
                      ELSE IF q.state = "Body" /\ q.mode = "UntilEof"
                      THEN [TakeAll(q) EXCEPT !.state = "Complete"] ELSE ParserFails(q)
  <2>1. HttpFinish(p) = IF Ended(q) THEN q
                        ELSE IF q.state = "Body" /\ q.mode = "UntilEof"
                        THEN [q EXCEPT !.body = @ \o q.buffer, !.buffer = <<>>, !.state = "Complete"] ELSE ParserFails(q)
    BY DEF HttpFinish
  <2> HIDE DEF q
  <2>2. [q EXCEPT !.body = @ \o q.buffer, !.buffer = <<>>, !.state = "Complete"]
          = [TakeAll(q) EXCEPT !.state = "Complete"]
    BY DEF TakeAll
  <2> QED
    BY <2>1, <2>2
<1> HIDE DEF q
<1>3. /\ q \in Parsers /\ q.buffer = SubSeq(s.bytes, c + 1, n) /\ q.body = BodyAt(s, n) /\ q.taken = t
      /\ Place(s, c, q) /\ c <= Len(s.bytes)
  <2>1. /\ q \in Parsers /\ q.buffer = SubSeq(s.bytes, c + 1, n) /\ q.body = BodyAt(s, c) /\ q.taken = t
        /\ Place(s, c, q)
    BY <1>1 DEF HttpAt
  <2>2. BodyAt(s, c) = BodyAt(s, n)
    BY <1>1 DEF Settled
  <2>3. Len(s.bytes) \in Nat
    BY ResponseNumbers
  <2> QED
    BY <1>1, <2>1, <2>2, <2>3
<1>4. /\ q.state # "Failed"
      /\ s.mode # "UntilEof" => (q.state = "Complete" <=> c = Len(s.bytes))
      /\ s.mode # "UntilEof" => ~(q.state = "Body" /\ q.mode = "UntilEof")
      /\ s.mode = "UntilEof" => q.state # "Complete"
      /\ s.mode = "UntilEof" => (q.state = "Body" /\ q.mode = "UntilEof" <=> c >= s.head)
  BY <1>1, <1>3, PlaceEnd
<1>5. /\ c >= EndOf(s) <=> n >= EndOf(s)
      /\ s.mode = "UntilEof" /\ c >= s.head => c = n
  BY <1>1 DEF Settled
<1>6. Ended(q) <=> q.state = "Complete"
  BY <1>4 DEF Ended
<1>7. CASE s.mode # "UntilEof"
  <2>1. c = Len(s.bytes) <=> n = Len(s.bytes)
    <3>1. EndOf(s) = Len(s.bytes) /\ Len(s.bytes) \in Nat
      BY <1>7, ResponseNumbers DEF EndOf
    <3> QED
      BY <1>1, <1>5, <3>1
  <2>2. q.state = "Complete" <=> HttpOver(s, n)
    BY <1>4, <1>7, <2>1 DEF HttpOver
  <2>3. CASE q.state = "Complete"
    <3>1. HttpFinish(p) = q
      BY <1>2, <1>6, <2>3
    <3> QED
      BY <1>3, <2>2, <2>3, <3>1
  <2>4. CASE q.state # "Complete"
    <3> DEFINE r == ParserFails(q)
    <3>1. HttpFinish(p) = r
      BY <1>2, <1>4, <1>6, <1>7, <2>4
    <3>2. <<>> \in Seq(Int)
      OBVIOUS
    <3>3. r \in Parsers /\ r.body = q.body /\ r.taken = q.taken /\ r.state = "Failed"
      BY <1>3, <3>2 DEF Parsers, ParserStates, ParserFails
    <3> HIDE DEF r
    <3> QED
      BY <1>3, <2>2, <2>4, <3>1, <3>3
  <2> QED
    BY <2>3, <2>4
<1>8. CASE s.mode = "UntilEof"
  <2>1. ~Ended(q)
    BY <1>4, <1>6, <1>8
  <2>2. CASE c >= s.head
    <3> DEFINE w == TakeAll(q)
               r == [w EXCEPT !.state = "Complete"]
    <3>1. HttpFinish(p) = r
      BY <1>2, <1>4, <1>8, <2>1, <2>2
    <3>2. c = n
      BY <1>5, <1>8, <2>2
    <3>3. w \in Parsers /\ w.body = BodyAt(s, n) /\ w.taken = q.taken
      <4>1. s.head <= n /\ n <= n
        BY <2>2, <3>2
      <4>2. q.buffer = SubSeq(s.bytes, n + 1, n)
        BY <1>3, <3>2
      <4> QED
        BY <1>3, <1>8, <4>1, <4>2, AllTaken
    <3> HIDE DEF w
    <3>4. r \in Parsers /\ r.body = w.body /\ r.taken = w.taken /\ r.state = "Complete"
      BY <3>3 DEF Parsers, ParserStates
    <3> HIDE DEF r
    <3>5. HttpOver(s, n)
      BY <1>8, <2>2, <3>2 DEF HttpOver
    <3> QED
      BY <1>3, <3>1, <3>3, <3>4, <3>5
  <2>3. CASE ~(c >= s.head)
    <3> DEFINE r == ParserFails(q)
    <3>1. HttpFinish(p) = r
      BY <1>2, <1>4, <1>8, <2>1, <2>3
    <3>2. <<>> \in Seq(Int)
      OBVIOUS
    <3>3. r \in Parsers /\ r.body = q.body /\ r.taken = q.taken /\ r.state = "Failed"
      BY <1>3, <3>2 DEF Parsers, ParserStates, ParserFails
    <3> HIDE DEF r
    <3>4. ~HttpOver(s, n)
      BY <1>5, <1>8, <2>3 DEF HttpOver, EndOf
    <3> QED
      BY <1>3, <3>1, <3>3, <3>4
  <2> QED
    BY <2>2, <2>3
<1> QED
  BY <1>7, <1>8

\* While the response is being read.
LEMMA HttpReported ==
    ASSUME NEW s, ResponseShape(s), NEW n \in Nat, n <= Len(s.bytes), NEW p, NEW t, HttpSettled(s, n, p, t)
    PROVE  /\ p \in Parsers /\ p.body = BodyAt(s, n) /\ p.taken = t
           /\ p.state = "Complete" <=> s.mode # "UntilEof" /\ n = Len(s.bytes)
           /\ p.state # "Failed"
<1>1. PICK c \in 0 .. n : HttpAt(s, n, c, p, t) /\ Settled(s, n, c)
  BY DEF HttpSettled
<1>2. c \in Nat /\ c <= n /\ Len(s.bytes) \in Nat /\ c <= Len(s.bytes)
  <2>1. Len(s.bytes) \in Nat
    BY ResponseNumbers
  <2> QED
    BY <2>1
<1>3. p \in Parsers /\ p.body = BodyAt(s, c) /\ p.taken = t /\ Place(s, c, p)
  BY <1>1 DEF HttpAt
<1>4. BodyAt(s, c) = BodyAt(s, n) /\ (c >= EndOf(s) <=> n >= EndOf(s))
  BY <1>1 DEF Settled
<1>5. /\ p.state # "Failed"
      /\ s.mode # "UntilEof" => (p.state = "Complete" <=> c = Len(s.bytes))
      /\ s.mode = "UntilEof" => p.state # "Complete"
  BY <1>2, <1>3, PlaceEnd
<1>6. s.mode # "UntilEof" => (c = Len(s.bytes) <=> n = Len(s.bytes))
  <2>1. s.mode # "UntilEof" => EndOf(s) = Len(s.bytes)
    BY DEF EndOf
  <2> QED
    BY <1>2, <1>4, <2>1
<1> QED
  BY <1>3, <1>4, <1>5, <1>6

\* A new parser has nothing and is at the start.
LEMMA HttpStarts ==
    ASSUME NEW s, ResponseShape(s)
    PROVE  HttpSettled(s, 0, Reset, 0) /\ BodyAt(s, 0) = <<>>
<1>1. s.bytes \in Seq(Int) /\ s.head \in Nat /\ 5 <= s.head /\ s.head <= Len(s.bytes) /\ Len(s.bytes) \in Nat
      /\ BodyOf(s) \in Seq(Int)
  BY ResponseNumbers
<1>2. BodyAt(s, 0) = <<>>
  <2>1. ArrivedTo(s, 0) = 0
    BY <1>1, NothingArrived
  <2>2. Left(BodyOf(s), 0) = <<>>
    <3> HIDE DEF BodyOf
    <3> QED
      BY <1>1 DEF Left
  <2> QED
    BY <2>1, <2>2 DEF BodyAt
<1>3. Reset \in Parsers /\ Reset.buffer = <<>> /\ Reset.body = <<>> /\ Reset.taken = 0 /\ Reset.state = "StatusLine"
      /\ Reset.headers = {}
  <2>1. <<>> \in Seq(Int) /\ 0 \in Nat /\ 0 \in Int /\ {} \in SUBSET Int
    OBVIOUS
  <2> QED
    BY <2>1 DEF Reset, Parsers, ParserStates, BodyModes
<1>4. Place(s, 0, Reset)
  BY <1>3 DEF Place
<1>5. SubSeq(s.bytes, 0 + 1, 0) = <<>>
  <2>1. 0 \in Nat /\ 0 <= Len(s.bytes)
    BY <1>1
  <2> QED
    BY <1>1, <2>1, NothingLeft
<1>6. HttpAt(s, 0, 0, Reset, 0)
  <2>1. 0 \in 0 .. 0
    OBVIOUS
  <2> QED
    BY <1>2, <1>3, <1>4, <1>5, <2>1 DEF HttpAt
<1>7. Settled(s, 0, 0) /\ 0 \in 0 .. 0
  BY DEF Settled
<1> QED
  BY <1>2, <1>6, <1>7 DEF HttpSettled

-----------------------------------------------------------------------------
\* The layout of the responses that are sent.
LEMMA JoinedAt ==
    ASSUME NEW x \in Seq(Int), NEW y \in Seq(Int)
    PROVE  /\ Joined(x, y) \in Seq(Int) /\ Len(Joined(x, y)) = Len(x) + Len(y)
           /\ Len(x) \in Nat /\ Len(y) \in Nat
           /\ \A i \in 1 .. Len(x) : Joined(x, y)[i] = x[i]
           /\ \A i \in 1 .. Len(y) : Joined(x, y)[Len(x) + i] = y[i]
<1> DEFINE z == x \o y
<1>1. /\ z \in Seq(Int) /\ Len(z) = Len(x) + Len(y)
      /\ \A k \in 1 .. Len(x) + Len(y) : z[k] = IF k <= Len(x) THEN x[k] ELSE y[k - Len(x)]
  BY StreamJoin
<1>2. Len(x) \in Nat /\ Len(y) \in Nat
  OBVIOUS
<1>3. Joined(x, y) = z
  BY DEF Joined
<1> HIDE DEF z
<1>4. ASSUME NEW i \in 1 .. Len(x) PROVE z[i] = x[i]
  <2>1. i \in 1 .. Len(x) + Len(y) /\ i <= Len(x)
    BY <1>2
  <2> QED
    BY <1>1, <2>1
<1>5. ASSUME NEW i \in 1 .. Len(y) PROVE z[Len(x) + i] = y[i]
  <2>1. Len(x) + i \in 1 .. Len(x) + Len(y) /\ ~(Len(x) + i <= Len(x)) /\ (Len(x) + i) - Len(x) = i
    BY <1>2
  <2> QED
    BY <1>1, <2>1
<1> QED
  BY <1>1, <1>2, <1>3, <1>4, <1>5

\* A line of one symbol, then perhaps another one, then an empty line.
Lines(z, first, size, second) ==
    /\ z \in Seq(Int) /\ Len(z) = size
    /\ z[1] = first /\ z[2] = CR /\ z[3] = LF
    /\ size = 8 => z[4] = second /\ z[5] = CR /\ z[6] = LF
    /\ z[size - 1] = CR /\ z[size] = LF

LEMMA LinesLayout ==
    ASSUME NEW first \in Int, NEW second \in Int, NEW b \in Seq(Int),
           \/ b = <<>>
           \/ Len(b) = 3 /\ b[1] = second /\ b[2] = CR /\ b[3] = LF
    PROVE  Lines(Joined(Joined(<<first, CR, LF>>, b), <<CR, LF>>), first, IF b = <<>> THEN 5 ELSE 8, second)
<1> DEFINE a == <<first, CR, LF>>
           e == <<CR, LF>>
           y == Joined(a, b)
           z == Joined(y, e)
           size == IF b = <<>> THEN 5 ELSE 8
<1>1. /\ a \in Seq(Int) /\ Len(a) = 3 /\ a[1] = first /\ a[2] = CR /\ a[3] = LF
      /\ e \in Seq(Int) /\ Len(e) = 2 /\ e[1] = CR /\ e[2] = LF
  BY DEF CR, LF
<1> HIDE DEF a, e
<1>2. Len(b) = (IF b = <<>> THEN 0 ELSE 3) /\ size = 5 + Len(b)
  <2>1. CASE b = <<>>
    <3>1. Len(b) = 0 /\ size = 5
      BY <2>1
    <3> HIDE DEF size
    <3> QED
      BY <2>1, <3>1
  <2>2. CASE b # <<>>
    <3>1. Len(b) = 3 /\ size = 8
      BY <2>2
    <3> HIDE DEF size
    <3> QED
      BY <2>2, <3>1
  <2> QED
    BY <2>1, <2>2
<1>3. /\ y \in Seq(Int) /\ Len(y) = 3 + Len(b) /\ \A i \in 1 .. 3 : y[i] = a[i]
      /\ \A i \in 1 .. Len(b) : y[3 + i] = b[i]
  <2>1. /\ y \in Seq(Int) /\ Len(y) = Len(a) + Len(b) /\ \A i \in 1 .. Len(a) : y[i] = a[i]
        /\ \A i \in 1 .. Len(b) : y[Len(a) + i] = b[i]
    BY <1>1, JoinedAt
  <2> QED
    BY <1>1, <2>1
<1> HIDE DEF y
<1>4. /\ z \in Seq(Int) /\ Len(z) = Len(y) + 2 /\ \A i \in 1 .. Len(y) : z[i] = y[i]
      /\ \A i \in 1 .. 2 : z[Len(y) + i] = e[i]
  <2>1. /\ z \in Seq(Int) /\ Len(z) = Len(y) + Len(e) /\ \A i \in 1 .. Len(y) : z[i] = y[i]
        /\ \A i \in 1 .. Len(e) : z[Len(y) + i] = e[i]
    BY <1>1, <1>3, JoinedAt, ZenonT(30)
  <2> QED
    BY <1>1, <2>1
<1> HIDE DEF z
<1>5. z[1] = first /\ z[2] = CR /\ z[3] = LF
  <2>1. 1 \in 1 .. 3 /\ 2 \in 1 .. 3 /\ 3 \in 1 .. 3 /\ 1 \in 1 .. Len(y) /\ 2 \in 1 .. Len(y) /\ 3 \in 1 .. Len(y)
    BY <1>2, <1>3
  <2> QED
    BY <1>1, <1>3, <1>4, <2>1
<1>6. Len(y) = size - 2 /\ Len(z) = size /\ Len(y) + 1 = size - 1 /\ Len(y) + 2 = size
  BY <1>2, <1>3, <1>4
<1>7. z[size - 1] = CR /\ z[size] = LF
  <2>1. 1 \in 1 .. 2 /\ 2 \in 1 .. 2
    OBVIOUS
  <2>2. z[Len(y) + 1] = e[1] /\ z[Len(y) + 2] = e[2]
    BY <1>4, <2>1
  <2> QED
    BY <1>1, <1>6, <2>2
<1>8. ASSUME size = 8 PROVE z[4] = second /\ z[5] = CR /\ z[6] = LF
  <2>1. b # <<>> /\ Len(b) = 3 /\ b[1] = second /\ b[2] = CR /\ b[3] = LF /\ Len(y) = 6
    BY <1>2, <1>3, <1>8
  <2>2. 4 \in 1 .. Len(y) /\ 5 \in 1 .. Len(y) /\ 6 \in 1 .. Len(y)
    BY <2>1
  <2>3. 1 \in 1 .. Len(b) /\ 2 \in 1 .. Len(b) /\ 3 \in 1 .. Len(b) /\ 3 + 1 = 4 /\ 3 + 2 = 5 /\ 3 + 3 = 6
    BY <2>1
  <2>4. y[3 + 1] = b[1] /\ y[3 + 2] = b[2] /\ y[3 + 3] = b[3]
    BY <1>3, <2>3
  <2> QED
    BY <1>4, <2>1, <2>2, <2>3, <2>4
<1> HIDE DEF size
<1>9. Lines(z, first, size, second)
  BY <1>4, <1>5, <1>6, <1>7, <1>8 DEF Lines
<1> QED
  BY <1>9 DEF a, e, y, z, size

LEMMA HeadLayout ==
    ASSUME NEW status \in Int, NEW h \in Int
    PROVE  /\ Lines(HttpHead(status, <<>>), Number(status), 5, h)
           /\ Lines(HttpHead(status, <<h>>), Number(status), 8, h)
<1>1. Number(status) \in Int /\ <<>> \in Seq(Int)
  BY DEF Number
<1>2. Lines(HttpHead(status, <<>>), Number(status), 5, h)
  <2> DEFINE b == <<>>
  <2>1. b \in Seq(Int) /\ b = <<>>
    BY <1>1
  <2>2. HttpHead(status, <<>>) = Joined(Joined(<<Number(status), CR, LF>>, b), <<CR, LF>>)
    BY DEF HttpHead, Joined
  <2> HIDE DEF b
  <2>3. Lines(Joined(Joined(<<Number(status), CR, LF>>, b), <<CR, LF>>), Number(status), IF b = <<>> THEN 5 ELSE 8, h)
    BY <1>1, <2>1, LinesLayout
  <2>4. (IF b = <<>> THEN 5 ELSE 8) = 5
    BY <2>1
  <2> QED
    BY <2>2, <2>3, <2>4
<1>3. Lines(HttpHead(status, <<h>>), Number(status), 8, h)
  <2> DEFINE e == <<CR, LF>>
             x == <<h>>
             b == Joined(x, e)
  <2>1. e \in Seq(Int) /\ Len(e) = 2 /\ e[1] = CR /\ e[2] = LF /\ x \in Seq(Int) /\ Len(x) = 1 /\ x[1] = h /\ x # <<>>
    BY DEF CR, LF
  <2>2. HttpHead(status, <<h>>) = Joined(Joined(<<Number(status), CR, LF>>, b), <<CR, LF>>)
    BY <2>1 DEF HttpHead, Joined
  <2> HIDE DEF e, x
  <2>3. /\ b \in Seq(Int) /\ Len(b) = 1 + 2 /\ \A i \in 1 .. 1 : b[i] = x[i]
        /\ \A i \in 1 .. 2 : b[1 + i] = e[i]
    <3>1. /\ b \in Seq(Int) /\ Len(b) = Len(x) + Len(e) /\ \A i \in 1 .. Len(x) : b[i] = x[i]
          /\ \A i \in 1 .. Len(e) : b[Len(x) + i] = e[i]
      BY <2>1, JoinedAt
    <3> QED
      BY <2>1, <3>1
  <2> HIDE DEF b
  <2>4. b[1] = h /\ b[2] = CR /\ b[3] = LF /\ Len(b) = 3
    <3>1. 1 \in 1 .. 1 /\ 1 \in 1 .. 2 /\ 2 \in 1 .. 2 /\ 1 + 1 = 2 /\ 1 + 2 = 3
      OBVIOUS
    <3>2. b[1 + 1] = e[1] /\ b[1 + 2] = e[2] /\ b[1] = x[1]
      BY <2>3, <3>1
    <3> QED
      BY <2>1, <2>3, <3>1, <3>2
  <2>5. Lines(Joined(Joined(<<Number(status), CR, LF>>, b), <<CR, LF>>), Number(status), IF b = <<>> THEN 5 ELSE 8, h)
    BY <1>1, <2>3, <2>4, LinesLayout
  <2>6. (IF b = <<>> THEN 5 ELSE 8) = 8
    <3>1. b # <<>>
      BY <2>4
    <3> QED
      BY <3>1
  <2> QED
    BY <2>2, <2>5, <2>6
<1> QED
  BY <1>2, <1>3

LEMMA ChunkLayout ==
    ASSUME NEW d \in Seq(Int), d # <<>>
    PROVE  /\ Chunk(d)[1] = Number(Len(d)) /\ Chunk(d)[2] = CR /\ Chunk(d)[3] = LF
           /\ \A i \in 1 .. Len(d) : Chunk(d)[3 + i] = d[i]
           /\ Chunk(d)[3 + Len(d) + 1] = CR /\ Chunk(d)[3 + Len(d) + 2] = LF
<1> DEFINE x == <<Number(Len(d)), CR, LF>>
           y == <<CR, LF>>
           xd == Joined(x, d)
<1>1. Chunk(d) = Joined(xd, y)
  BY DEF Chunk, Joined
<1>2. /\ x \in Seq(Int) /\ Len(x) = 3 /\ x[1] = Number(Len(d)) /\ x[2] = CR /\ x[3] = LF
      /\ y \in Seq(Int) /\ Len(y) = 2 /\ y[1] = CR /\ y[2] = LF /\ Len(d) \in Nat
  BY DEF Number, CR, LF
<1> HIDE DEF x, y
<1>3. /\ xd \in Seq(Int) /\ Len(xd) = 3 + Len(d)
      /\ \A i \in 1 .. 3 : xd[i] = x[i]
      /\ \A i \in 1 .. Len(d) : xd[3 + i] = d[i]
  <2>1. /\ xd \in Seq(Int) /\ Len(xd) = Len(x) + Len(d)
        /\ \A i \in 1 .. Len(x) : xd[i] = x[i]
        /\ \A i \in 1 .. Len(d) : xd[Len(x) + i] = d[i]
    BY <1>2, JoinedAt
  <2> QED
    BY <1>2, <2>1
<1> HIDE DEF xd
<1> DEFINE z == Joined(xd, y)
<1>4. /\ \A i \in 1 .. Len(xd) : z[i] = xd[i]
      /\ \A i \in 1 .. Len(y) : z[Len(xd) + i] = y[i]
  BY <1>2, <1>3, JoinedAt
<1> HIDE DEF z
<1>5. z[1] = Number(Len(d)) /\ z[2] = CR /\ z[3] = LF
  <2>1. 1 \in 1 .. Len(xd) /\ 2 \in 1 .. Len(xd) /\ 3 \in 1 .. Len(xd) /\ 1 \in 1 .. 3 /\ 2 \in 1 .. 3 /\ 3 \in 1 .. 3
    BY <1>2, <1>3
  <2> QED
    BY <1>2, <1>3, <1>4, <2>1
<1>6. ASSUME NEW i \in 1 .. Len(d) PROVE z[3 + i] = d[i]
  <2>1. 3 + i \in 1 .. Len(xd)
    BY <1>2, <1>3
  <2> QED
    BY <1>3, <1>4, <2>1
<1>7. z[3 + Len(d) + 1] = CR /\ z[3 + Len(d) + 2] = LF
  <2>1. 1 \in 1 .. Len(y) /\ 2 \in 1 .. Len(y) /\ Len(xd) + 1 = 3 + Len(d) + 1 /\ Len(xd) + 2 = 3 + Len(d) + 2
    BY <1>2, <1>3
  <2>2. z[Len(xd) + 1] = y[1] /\ z[Len(xd) + 2] = y[2]
    BY <1>4, <2>1
  <2> QED
    BY <1>2, <2>1, <2>2
<1> QED
  BY <1>1, <1>5, <1>6, <1>7 DEF z

LEMMA LastLayout ==
    /\ Lines(LastChunk(FALSE), Number(0), 5, CHUNKED)
    /\ Lines(LastChunk(TRUE), Number(0), 8, CHUNKED)
<1>1. Number(0) \in Int /\ CHUNKED \in Int
  BY DEF Number, CHUNKED
<1>2. Lines(LastChunk(FALSE), Number(0), 5, CHUNKED)
  <2> DEFINE b == <<>>
  <2>1. b \in Seq(Int) /\ b = <<>>
    OBVIOUS
  <2>2. LastChunk(FALSE) = Joined(Joined(<<Number(0), CR, LF>>, b), <<CR, LF>>)
    BY DEF LastChunk, Joined
  <2> HIDE DEF b
  <2>3. Lines(Joined(Joined(<<Number(0), CR, LF>>, b), <<CR, LF>>), Number(0), IF b = <<>> THEN 5 ELSE 8, CHUNKED)
    BY <1>1, <2>1, LinesLayout
  <2>4. (IF b = <<>> THEN 5 ELSE 8) = 5
    BY <2>1
  <2> QED
    BY <2>2, <2>3, <2>4
<1>3. Lines(LastChunk(TRUE), Number(0), 8, CHUNKED)
  <2> DEFINE b == <<CHUNKED, CR, LF>>
  <2>1. b \in Seq(Int) /\ Len(b) = 3 /\ b[1] = CHUNKED /\ b[2] = CR /\ b[3] = LF /\ b # <<>>
    BY <1>1 DEF CR, LF
  <2>2. LastChunk(TRUE) = Joined(Joined(<<Number(0), CR, LF>>, b), <<CR, LF>>)
    BY DEF LastChunk, Joined
  <2> HIDE DEF b
  <2>3. Lines(Joined(Joined(<<Number(0), CR, LF>>, b), <<CR, LF>>), Number(0), IF b = <<>> THEN 5 ELSE 8, CHUNKED)
    BY <1>1, <2>1, LinesLayout
  <2>4. (IF b = <<>> THEN 5 ELSE 8) = 8
    BY <2>1
  <2> QED
    BY <2>2, <2>3, <2>4
<1> QED
  BY <1>2, <1>3

\* Four parts of a stream.
FourParts(b, x, y, z, w) ==
    /\ b \in Seq(Int) /\ Len(b) = Len(x) + Len(y) + Len(z) + Len(w)
    /\ \A i \in 1 .. Len(x) : b[i] = x[i]
    /\ \A i \in 1 .. Len(y) : b[Len(x) + i] = y[i]
    /\ \A i \in 1 .. Len(z) : b[Len(x) + Len(y) + i] = z[i]
    /\ \A i \in 1 .. Len(w) : b[Len(x) + Len(y) + Len(z) + i] = w[i]

LEMMA FourPartsJoined ==
    ASSUME NEW x \in Seq(Int), NEW y \in Seq(Int), NEW z \in Seq(Int), NEW w \in Seq(Int)
    PROVE  FourParts(Joined(Joined(Joined(x, y), z), w), x, y, z, w)
<1> DEFINE xy == Joined(x, y)
           xyz == Joined(xy, z)
           b == Joined(xyz, w)
<1>1. /\ xy \in Seq(Int) /\ Len(xy) = Len(x) + Len(y) /\ Len(x) \in Nat /\ Len(y) \in Nat
      /\ \A i \in 1 .. Len(x) : xy[i] = x[i]
      /\ \A i \in 1 .. Len(y) : xy[Len(x) + i] = y[i]
  BY JoinedAt
<1> HIDE DEF xy
<1>2. /\ xyz \in Seq(Int) /\ Len(xyz) = Len(xy) + Len(z) /\ Len(z) \in Nat
      /\ \A i \in 1 .. Len(xy) : xyz[i] = xy[i]
      /\ \A i \in 1 .. Len(z) : xyz[Len(xy) + i] = z[i]
  BY <1>1, JoinedAt
<1> HIDE DEF xyz
<1>3. /\ b \in Seq(Int) /\ Len(b) = Len(xyz) + Len(w) /\ Len(w) \in Nat
      /\ \A i \in 1 .. Len(xyz) : b[i] = xyz[i]
      /\ \A i \in 1 .. Len(w) : b[Len(xyz) + i] = w[i]
  BY <1>2, JoinedAt
<1> HIDE DEF b
<1>4. Len(b) = Len(x) + Len(y) + Len(z) + Len(w) /\ Len(xyz) = Len(x) + Len(y) + Len(z)
  BY <1>1, <1>2, <1>3
<1>n. Len(x) \in Nat /\ Len(y) \in Nat /\ Len(z) \in Nat /\ Len(w) \in Nat /\ Len(xy) = Len(x) + Len(y)
  BY <1>1, <1>2, <1>3
<1>5. ASSUME NEW i \in 1 .. Len(x) PROVE b[i] = x[i]
  <2>1. i \in 1 .. Len(xy) /\ i \in 1 .. Len(xyz)
    BY <1>4, <1>n
  <2> QED
    BY <1>1, <1>2, <1>3, <2>1
<1>6. ASSUME NEW i \in 1 .. Len(y) PROVE b[Len(x) + i] = y[i]
  <2>1. Len(x) + i \in 1 .. Len(xy) /\ Len(x) + i \in 1 .. Len(xyz)
    BY <1>4, <1>n
  <2>2. xy[Len(x) + i] = y[i]
    BY <1>1
  <2> QED
    BY <1>2, <1>3, <2>1, <2>2
<1>7. ASSUME NEW i \in 1 .. Len(z) PROVE b[Len(x) + Len(y) + i] = z[i]
  <2>1. Len(xy) + i \in 1 .. Len(xyz) /\ Len(xy) + i = Len(x) + Len(y) + i
    BY <1>4, <1>n
  <2>2. xyz[Len(xy) + i] = z[i]
    BY <1>2
  <2> QED
    BY <1>3, <2>1, <2>2
<1>8. ASSUME NEW i \in 1 .. Len(w) PROVE b[Len(x) + Len(y) + Len(z) + i] = w[i]
  BY <1>3, <1>4
<1>9. FourParts(b, x, y, z, w)
  BY <1>3, <1>4, <1>5, <1>6, <1>7, <1>8 DEF FourParts
<1> QED
  BY <1>9 DEF b, xyz, xy

\* The head of what is sent.
LEMMA HeadParts ==
    ASSUME NEW s, NEW x \in Seq(Int), s.bytes \in Seq(Int), Len(x) <= Len(s.bytes),
           \A i \in 1 .. Len(x) : s.bytes[i] = x[i], NEW size, size = 5 \/ size = 8,
           NEW h, Lines(x, Number(StatusOf(s)), size, h), s.head = size,
           size = 8 <=> s.mode \in {"Chunked", "ContentLength"}, size = 8 => h = HeaderOf(s)
    PROVE  HeadShape(s)
<1>1. /\ Len(x) = size /\ x[1] = Number(StatusOf(s)) /\ x[2] = CR /\ x[3] = LF
      /\ size = 8 => x[4] = h /\ x[5] = CR /\ x[6] = LF
      /\ x[size - 1] = CR /\ x[size] = LF
  BY DEF Lines
<1>l. Len(x) = size
  BY DEF Lines
<1>2. /\ 1 \in 1 .. Len(x) /\ 2 \in 1 .. Len(x) /\ 3 \in 1 .. Len(x) /\ size - 1 \in 1 .. Len(x) /\ size \in 1 .. Len(x)
      /\ size = 8 => 4 \in 1 .. Len(x) /\ 5 \in 1 .. Len(x) /\ 6 \in 1 .. Len(x)
  <2>1. CASE size = 5
    BY <1>l, <2>1
  <2>2. CASE size = 8
    BY <1>l, <2>2
  <2> QED
    BY <2>1, <2>2
<1>3. /\ s.bytes[1] = Number(StatusOf(s)) /\ s.bytes[2] = CR /\ s.bytes[3] = LF
      /\ s.bytes[size - 1] = CR /\ s.bytes[size] = LF
  BY <1>1, <1>2
<1>4. size = 8 => s.bytes[4] = h /\ s.bytes[5] = CR /\ s.bytes[6] = LF
  BY <1>1, <1>2
<1> QED
  BY <1>1, <1>3, <1>4 DEF HeadShape

LEMMA ChunkParts ==
    ASSUME NEW s, NEW k \in 1 .. 2, NEW d \in Seq(Int), s.chunks[k] = d, d # <<>>, NEW base \in Nat,
           base = ChunkBase(s, k), \A i \in 1 .. Len(Chunk(d)) : s.bytes[base + i] = Chunk(d)[i]
    PROVE  ChunkShape(s, k)
<1> DEFINE c == Chunk(d)
           b == s.bytes
<1>1. Len(c) = 3 + Len(d) + 2 /\ Len(d) \in Nat /\ Len(d) # 0
  <2>1. Len(c) = Size(Len(d)) /\ Len(d) \in Nat /\ Len(d) # 0
    BY ChunkSize
  <2> HIDE DEF c
  <2> QED
    BY <2>1 DEF Size
<1>2. /\ c[1] = Number(Len(d)) /\ c[2] = CR /\ c[3] = LF
      /\ \A i \in 1 .. Len(d) : c[3 + i] = d[i]
      /\ c[3 + Len(d) + 1] = CR /\ c[3 + Len(d) + 2] = LF
  BY ChunkLayout
<1>3. \A i \in 1 .. Len(c) : b[base + i] = c[i]
  OBVIOUS
<1> HIDE DEF c, b
<1>4. b[base + 1] = Number(Len(d)) /\ b[base + 2] = CR /\ b[base + 3] = LF
  <2>1. 1 \in 1 .. Len(c) /\ 2 \in 1 .. Len(c) /\ 3 \in 1 .. Len(c)
    BY <1>1
  <2> QED
    BY <1>2, <1>3, <2>1
<1>5. ASSUME NEW i \in 1 .. Len(d) PROVE b[base + 3 + i] = d[i]
  <2>1. 3 + i \in 1 .. Len(c) /\ base + (3 + i) = base + 3 + i
    BY <1>1
  <2>2. b[base + (3 + i)] = c[3 + i]
    BY <1>3, <2>1
  <2> QED
    BY <1>2, <2>1, <2>2
<1>6. b[base + 3 + Len(d) + 1] = CR /\ b[base + 3 + Len(d) + 2] = LF
  <2>1. 3 + Len(d) + 1 \in 1 .. Len(c) /\ base + (3 + Len(d) + 1) = base + 3 + Len(d) + 1
        /\ 3 + Len(d) + 2 \in 1 .. Len(c) /\ base + (3 + Len(d) + 2) = base + 3 + Len(d) + 2
    <3>1. Len(c) = 5 + Len(d) /\ Len(d) \in Nat
      BY <1>1
    <3> QED
      BY <3>1, SMTT(30)
  <2>2. b[base + (3 + Len(d) + 1)] = c[3 + Len(d) + 1] /\ b[base + (3 + Len(d) + 2)] = c[3 + Len(d) + 2]
    BY <1>3, <2>1
  <2> QED
    BY <1>2, <2>1, <2>2
<1> QED
  BY <1>4, <1>5, <1>6 DEF ChunkShape, b

LEMMA LastParts ==
    ASSUME NEW s, s.bytes \in Seq(Int), NEW w \in Seq(Int), NEW size, size = 5 \/ size = 8,
           Lines(w, Number(0), size, CHUNKED), NEW base \in Nat, base = ChunkBase(s, 3),
           Len(s.bytes) = base + Len(w), \A i \in 1 .. Len(w) : s.bytes[base + i] = w[i]
    PROVE  LastChunkShape(s)
<1> DEFINE b == s.bytes
<1>1. /\ Len(w) = size /\ w[1] = Number(0) /\ w[2] = CR /\ w[3] = LF
      /\ size = 8 => w[4] = CHUNKED /\ w[5] = CR /\ w[6] = LF
      /\ w[size - 1] = CR /\ w[size] = LF
  BY DEF Lines
<1>2. Len(b) = base + size /\ \A i \in 1 .. size : b[base + i] = w[i]
  BY <1>1
<1> HIDE DEF b
<1>3. b[base + 1] = Number(0) /\ b[base + 2] = CR /\ b[base + 3] = LF
  <2>1. 1 \in 1 .. size /\ 2 \in 1 .. size /\ 3 \in 1 .. size
    OBVIOUS
  <2> QED
    BY <1>1, <1>2, <2>1
<1>4. size = 8 => b[base + 4] = CHUNKED /\ b[base + 5] = CR /\ b[base + 6] = LF
  <2>1. size = 8 => 4 \in 1 .. size /\ 5 \in 1 .. size /\ 6 \in 1 .. size
    OBVIOUS
  <2> QED
    BY <1>1, <1>2, <2>1
<1>5. b[Len(b) - 1] = CR /\ b[Len(b)] = LF
  <2>1. size - 1 \in 1 .. size /\ size \in 1 .. size /\ base + (size - 1) = Len(b) - 1 /\ base + size = Len(b)
    BY <1>2, SMTT(30)
  <2>2. b[base + (size - 1)] = w[size - 1] /\ b[base + size] = w[size]
    BY <1>2, <2>1
  <2> QED
    BY <1>1, <2>1, <2>2
<1>6. Len(b) \in {base + 5, base + 8} /\ (Len(b) = base + 8 => size = 8)
  BY <1>2
<1> QED
  BY <1>3, <1>4, <1>5, <1>6 DEF LastChunkShape, b

\* Every response that is sent has the layout the parser is proved against.
LEMMA ChunkedShape ==
    ASSUME NEW s, NEW x, NEW w, NEW size, size = 5 \/ size = 8, s.mode = "Chunked", s.head = 8,
           s.chunks[1] \in Seq(Int), s.chunks[2] \in Seq(Int),
           Lines(x, Number(200), 8, CHUNKED), Lines(w, Number(0), size, CHUNKED),
           FourParts(s.bytes, x, Chunk(s.chunks[1]), Chunk(s.chunks[2]), w)
    PROVE  ResponseShape(s)
<1> DEFINE y == Chunk(s.chunks[1])
           z == Chunk(s.chunks[2])
           a == Size(Len(s.chunks[1]))
           e == Size(Len(s.chunks[2]))
<1>1. /\ Len(x) = 8 /\ x \in Seq(Int) /\ Len(w) = size /\ w \in Seq(Int) /\ Len(y) = a /\ Len(z) = e
      /\ a \in Nat /\ e \in Nat /\ y \in Seq(Int) /\ z \in Seq(Int)
  <2>1. Len(y) = a /\ Len(z) = e /\ y \in Seq(Int) /\ z \in Seq(Int)
    BY ChunkSize
  <2>2. Len(x) = 8 /\ x \in Seq(Int) /\ Len(w) = size /\ w \in Seq(Int)
    BY DEF Lines
  <2> HIDE DEF y, z
  <2>3. a \in Nat /\ e \in Nat
    <3>1. Len(s.chunks[1]) \in Nat /\ Len(s.chunks[2]) \in Nat
      OBVIOUS
    <3> QED
      BY <3>1 DEF Size
  <2> QED
    BY <2>1, <2>2, <2>3
<1>2. ChunkBase(s, 1) = 8 /\ ChunkBase(s, 2) = 8 + a /\ ChunkBase(s, 3) = 8 + a + e
  <2> HIDE DEF y, z
  <2>1. a \in Nat /\ e \in Nat
    BY <1>1
  <2> QED
    BY <2>1 DEF ChunkBase
<1> HIDE DEF y, z, a, e
<1>3. FourParts(s.bytes, x, y, z, w)
  BY DEF y, z
<1>4. /\ s.bytes \in Seq(Int) /\ Len(s.bytes) = 8 + a + e + Len(w) /\ Len(w) = size
      /\ \A i \in 1 .. Len(x) : s.bytes[i] = x[i]
      /\ \A i \in 1 .. Len(y) : s.bytes[8 + i] = y[i]
      /\ \A i \in 1 .. Len(z) : s.bytes[8 + a + i] = z[i]
      /\ \A i \in 1 .. Len(w) : s.bytes[8 + a + e + i] = w[i]
  BY <1>1, <1>3 DEF FourParts
<1>5. HeadShape(s)
  <2>1. s.head <= Len(s.bytes) /\ Len(x) <= Len(s.bytes) /\ Len(x) = 8
    BY <1>1, <1>4
  <2>2. StatusOf(s) = 200 /\ HeaderOf(s) = CHUNKED
    BY DEF StatusOf, HeaderOf
  <2>3. Lines(x, Number(StatusOf(s)), 8, CHUNKED)
    BY <2>2
  <2> DEFINE n == 8
             h == CHUNKED
  <2>4. /\ n = 5 \/ n = 8
        /\ Lines(x, Number(StatusOf(s)), n, h) /\ s.head = n
        /\ n = 8 <=> s.mode \in {"Chunked", "ContentLength"}
        /\ n = 8 => h = HeaderOf(s)
    BY <2>2, <2>3
  <2> HIDE DEF n, h
  <2> QED
    BY <1>1, <1>4, <2>1, <2>4, HeadParts
<1>6. s.chunks[1] # <<>> => ChunkShape(s, 1)
  <2> SUFFICES ASSUME s.chunks[1] # <<>> PROVE ChunkShape(s, 1)
    OBVIOUS
  <2> DEFINE k == 1
             d == s.chunks[1]
             base == 8
  <2>1. k \in 1 .. 2 /\ s.chunks[k] = d /\ d \in Seq(Int) /\ d # <<>> /\ base \in Nat /\ base = ChunkBase(s, k)
    BY <1>2
  <2>2. \A i \in 1 .. Len(Chunk(d)) : s.bytes[base + i] = Chunk(d)[i]
    BY <1>4 DEF y
  <2> HIDE DEF k, d, base
  <2>3. ChunkShape(s, k)
    BY <2>1, <2>2, ChunkParts
  <2> QED
    BY <2>3 DEF k
<1>7. s.chunks[2] # <<>> => ChunkShape(s, 2)
  <2> SUFFICES ASSUME s.chunks[2] # <<>> PROVE ChunkShape(s, 2)
    OBVIOUS
  <2> DEFINE k == 2
             d == s.chunks[2]
             base == 8 + a
  <2>1. k \in 1 .. 2 /\ s.chunks[k] = d /\ d \in Seq(Int) /\ d # <<>> /\ base \in Nat /\ base = ChunkBase(s, k)
    BY <1>1, <1>2, SMTT(30)
  <2>2. \A i \in 1 .. Len(Chunk(d)) : s.bytes[base + i] = Chunk(d)[i]
    BY <1>4 DEF z
  <2> HIDE DEF k, d, base
  <2>3. ChunkShape(s, k)
    BY <2>1, <2>2, ChunkParts
  <2> QED
    BY <2>3 DEF k
<1>8. LastChunkShape(s)
  <2> DEFINE base == 8 + a + e
  <2>1. base \in Nat /\ base = ChunkBase(s, 3) /\ Len(s.bytes) = base + Len(w)
        /\ \A i \in 1 .. Len(w) : s.bytes[base + i] = w[i]
    BY <1>1, <1>2, <1>4
  <2> HIDE DEF base
  <2> QED
    BY <1>1, <1>4, <2>1, LastParts
<1>9. \A k \in 1 .. 2 : s.chunks[k] # <<>> => ChunkShape(s, k)
  <2> SUFFICES ASSUME NEW k \in 1 .. 2, s.chunks[k] # <<>> PROVE ChunkShape(s, k)
    OBVIOUS
  <2>1. k = 1 \/ k = 2
    OBVIOUS
  <2> QED
    BY <1>6, <1>7, <2>1
<1> QED
  BY <1>4, <1>5, <1>8, <1>9 DEF ResponseShape

PlainParts(s, x, size, h) ==
    /\ s.mode \in {"ContentLength", "UntilEof", "None"}
    /\ size = (IF s.mode = "ContentLength" THEN 8 ELSE 5) /\ s.head = size
    /\ s.chunks[1] \in Seq(Int) /\ s.chunks[2] = <<>>
    /\ s.mode = "None" => s.chunks[1] = <<>>
    /\ h = Number(Len(s.chunks[1]))
    /\ Lines(x, Number(StatusOf(s)), size, h)
    /\ s.bytes = Joined(x, s.chunks[1])

LEMMA PlainShape ==
    ASSUME NEW s, NEW x, NEW size, NEW h, PlainParts(s, x, size, h)
    PROVE  ResponseShape(s)
<1> DEFINE b == s.bytes
           d == s.chunks[1]
<1> USE DEF PlainParts
<1>1. Len(x) = size /\ x \in Seq(Int) /\ (size = 5 \/ size = 8)
  BY DEF Lines
<1>2. /\ b \in Seq(Int) /\ Len(b) = size + Len(d) /\ Len(d) \in Nat
      /\ \A i \in 1 .. Len(x) : b[i] = x[i]
      /\ \A i \in 1 .. Len(d) : b[size + i] = d[i]
  <2>1. d \in Seq(Int) /\ b = Joined(x, d)
    OBVIOUS
  <2> HIDE DEF b, d
  <2>2. /\ Joined(x, d) \in Seq(Int) /\ Len(Joined(x, d)) = Len(x) + Len(d) /\ Len(d) \in Nat
        /\ \A i \in 1 .. Len(x) : Joined(x, d)[i] = x[i]
        /\ \A i \in 1 .. Len(d) : Joined(x, d)[Len(x) + i] = d[i]
    BY <1>1, <2>1, JoinedAt, ZenonT(30)
  <2> QED
    BY <1>1, <2>1, <2>2
<1>3. HeadShape(s)
  <2>1. Len(x) <= Len(b) /\ s.head = size
    <3>1. Len(d) \in Nat /\ Len(b) = size + Len(d) /\ Len(x) = size
      BY <1>1, <1>2
    <3> HIDE DEF b, d
    <3> QED
      BY <1>1, <3>1
  <2>2. /\ size = 8 <=> s.mode \in {"Chunked", "ContentLength"}
        /\ size = 8 => h = HeaderOf(s)
    BY DEF HeaderOf
  <2> QED
    BY <1>1, <1>2, <2>1, <2>2, HeadParts
<1>4. BodyShape(s)
  BY <1>2 DEF BodyShape
<1> QED
  BY <1>2, <1>3, <1>4 DEF ResponseShape

LEMMA BodiesAreBytes ==
    ASSUME NEW S, S \subseteq Byte, NEW n \in Nat, NEW b \in BoundedSeq(S, n)
    PROVE  b \in Seq(Int) /\ Len(b) <= n /\ \A i \in 1 .. Len(b) : b[i] \in S
<1>1. PICK m \in 0 .. n : b \in [1 .. m -> S]
  BY DEF BoundedSeq, SeqOf
<1>2. S \subseteq Int
  BY DEF Byte
<1>3. m \in Nat /\ m <= n
  BY <1>1
<1>4. b \in [1 .. m -> Int]
  BY <1>1, <1>2
<1>5. b \in Seq(Int) /\ Len(b) = m
  BY <1>3, <1>4
<1> QED
  BY <1>1, <1>3, <1>5

LEMMA ResponsesAreShaped ==
    ASSUME NEW s \in Responses
    PROVE  s.kind = "http" /\ ResponseShape(s)
<1>1. \A b \in Bodies : b \in Seq(Int)
  BY BodiesAreBytes, BoundsAssumption DEF Bodies
<1>2. CHUNKED \in Int /\ 200 \in Int /\ 204 \in Int
  BY DEF CHUNKED
<1>3. ASSUME NEW f \in Seq(Int), NEW g \in Seq(Int), NEW trailer \in BOOLEAN, s = Chunked(f, g, trailer)
      PROVE  s.kind = "http" /\ ResponseShape(s)
  <2> DEFINE x == HttpHead(200, <<CHUNKED>>)
             w == LastChunk(trailer)
             size == IF trailer THEN 8 ELSE 5
             y == Chunk(f)
             z == Chunk(g)
             b == Joined(Joined(Joined(x, y), z), w)
  <2>1. /\ s.kind = "http" /\ s.mode = "Chunked" /\ s.head = Len(x) /\ s.chunks[1] = f /\ s.chunks[2] = g
        /\ s.bytes = b
    BY <1>3 DEF Chunked, Joined
  <2>2. Lines(x, Number(200), 8, CHUNKED)
    BY <1>2, HeadLayout
  <2>3. Lines(w, Number(0), size, CHUNKED)
    <3>1. CASE trailer = TRUE
      <4>1. w = LastChunk(TRUE) /\ size = 8
        BY <3>1
      <4> HIDE DEF w, size
      <4> QED
        BY <4>1, LastLayout
    <3>2. CASE trailer = FALSE
      <4>1. w = LastChunk(FALSE) /\ size = 5
        BY <3>2
      <4> HIDE DEF w, size
      <4> QED
        BY <4>1, LastLayout
    <3> QED
      BY <3>1, <3>2
  <2>4. size = 5 \/ size = 8
    OBVIOUS
  <2>5. y \in Seq(Int) /\ z \in Seq(Int)
    BY ChunkSize
  <2>6. y = Chunk(s.chunks[1]) /\ z = Chunk(s.chunks[2])
    BY <2>1
  <2> HIDE DEF x, w, size, y, z
  <2>7. x \in Seq(Int) /\ Len(x) = 8 /\ w \in Seq(Int)
    BY <2>2, <2>3 DEF Lines
  <2>8. FourParts(s.bytes, x, y, z, w)
    BY <2>1, <2>5, <2>7, FourPartsJoined
  <2>9. s.head = 8 /\ s.chunks[1] \in Seq(Int) /\ s.chunks[2] \in Seq(Int)
    BY <2>1, <2>7
  <2>10. FourParts(s.bytes, x, Chunk(s.chunks[1]), Chunk(s.chunks[2]), w)
    BY <2>6, <2>8
  <2> QED
    BY <2>1, <2>2, <2>3, <2>4, <2>9, <2>10, ChunkedShape
<1>4. ASSUME NEW mode, NEW x, NEW d \in Seq(Int), mode \in {"ContentLength", "UntilEof", "None"},
             NEW size, size = (IF mode = "ContentLength" THEN 8 ELSE 5), mode = "None" => d = <<>>,
             Lines(x, Number(IF mode = "None" THEN 204 ELSE 200), size, Number(Len(d))),
             s = WithHead(mode, x, d)
      PROVE  s.kind = "http" /\ ResponseShape(s)
  <2>1. /\ s.kind = "http" /\ s.mode = mode /\ s.head = Len(x) /\ s.chunks[1] = d /\ s.chunks[2] = <<>>
        /\ s.bytes = Joined(x, d)
    BY <1>4 DEF WithHead, Joined
  <2>2. StatusOf(s) = IF mode = "None" THEN 204 ELSE 200
    BY <2>1 DEF StatusOf
  <2>3. Len(x) = size
    BY <1>4 DEF Lines
  <2> DEFINE h == Number(Len(d))
  <2>4. h = Number(Len(s.chunks[1])) /\ Lines(x, Number(StatusOf(s)), size, h)
    BY <1>4, <2>1, <2>2
  <2> HIDE DEF h
  <2>5. /\ s.mode \in {"ContentLength", "UntilEof", "None"}
        /\ size = (IF s.mode = "ContentLength" THEN 8 ELSE 5) /\ s.head = size
        /\ s.chunks[1] \in Seq(Int)
        /\ s.mode = "None" => s.chunks[1] = <<>>
        /\ s.bytes = Joined(x, s.chunks[1])
    BY <1>4, <2>1, <2>3
  <2>6. PlainParts(s, x, size, h)
    BY <2>1, <2>4, <2>5 DEF PlainParts
  <2> QED
    BY <2>1, <2>6, PlainShape
<1>5. CASE \E f \in Bodies, g \in Bodies, trailer \in BOOLEAN : s = Chunked(f, g, trailer)
  BY <1>1, <1>3, <1>5
<1>6. CASE \E b \in Bodies : s = WithHead("ContentLength", HttpHead(200, <<Number(Len(b))>>), b)
  <2>1. PICK b \in Bodies : s = WithHead("ContentLength", HttpHead(200, <<Number(Len(b))>>), b)
    BY <1>6
  <2>2. b \in Seq(Int) /\ Number(Len(b)) \in Int
    <3>1. b \in Seq(Int)
      BY <1>1
    <3> QED
      BY <3>1 DEF Number
  <2> DEFINE x == HttpHead(200, <<Number(Len(b))>>)
             mode == "ContentLength"
             size == 8
  <2>3. Lines(x, Number(200), size, Number(Len(b)))
    BY <1>2, <2>2, HeadLayout
  <2>4. s = WithHead(mode, x, b)
    BY <2>1
  <2>5. /\ mode \in {"ContentLength", "UntilEof", "None"} /\ size = (IF mode = "ContentLength" THEN 8 ELSE 5)
        /\ mode = "None" => b = <<>>
    OBVIOUS
  <2>6. Lines(x, Number(IF mode = "None" THEN 204 ELSE 200), size, Number(Len(b)))
    BY <2>3
  <2> HIDE DEF x, mode, size
  <2> QED
    BY <1>4, <2>2, <2>4, <2>5, <2>6
<1>7. CASE \E b \in Bodies : s = WithHead("UntilEof", HttpHead(200, <<>>), b)
  <2>1. PICK b \in Bodies : s = WithHead("UntilEof", HttpHead(200, <<>>), b)
    BY <1>7
  <2>2. b \in Seq(Int) /\ Number(Len(b)) \in Int
    <3>1. b \in Seq(Int)
      BY <1>1
    <3> QED
      BY <3>1 DEF Number
  <2> DEFINE x == HttpHead(200, <<>>)
             mode == "UntilEof"
             size == 5
  <2>3. Lines(x, Number(200), size, Number(Len(b)))
    BY <1>2, <2>2, HeadLayout
  <2>4. s = WithHead(mode, x, b)
    BY <2>1
  <2>5. /\ mode \in {"ContentLength", "UntilEof", "None"} /\ size = (IF mode = "ContentLength" THEN 8 ELSE 5)
        /\ mode = "None" => b = <<>>
    OBVIOUS
  <2>6. Lines(x, Number(IF mode = "None" THEN 204 ELSE 200), size, Number(Len(b)))
    BY <2>3
  <2> HIDE DEF x, mode, size
  <2> QED
    BY <1>4, <2>2, <2>4, <2>5, <2>6
<1>8. CASE s = WithHead("None", HttpHead(204, <<>>), <<>>)
  <2> DEFINE x == HttpHead(204, <<>>)
             mode == "None"
             size == 5
             b == <<>>
  <2>2. b \in Seq(Int) /\ Number(Len(b)) \in Int
    <3>1. Len(b) = 0
      OBVIOUS
    <3> QED
      BY <3>1 DEF Number
  <2>4. s = WithHead(mode, x, b)
    BY <1>8
  <2>5. /\ mode \in {"ContentLength", "UntilEof", "None"} /\ size = (IF mode = "ContentLength" THEN 8 ELSE 5)
        /\ mode = "None" => b = <<>>
    OBVIOUS
  <2> HIDE DEF b
  <2>3. Lines(x, Number(204), size, Number(Len(b)))
    BY <1>2, <2>2, HeadLayout
  <2>6. Lines(x, Number(IF mode = "None" THEN 204 ELSE 200), size, Number(Len(b)))
    BY <2>3
  <2> HIDE DEF x, mode, size
  <2> QED
    BY <1>4, <2>2, <2>4, <2>5, <2>6
<1> QED
  BY <1>5, <1>6, <1>7, <1>8 DEF Responses

LEMMA JsonStreamsAreBytes ==
    ASSUME NEW s \in JsonStreams
    PROVE  s.kind = "json" /\ s.bytes \in Seq(Int)
<1> DEFINE S == {LEFT_BRACE, RIGHT_BRACE, CR, LF}
<1>1. S \subseteq Byte
  BY DEF Byte, LEFT_BRACE, RIGHT_BRACE, CR, LF
<1> HIDE DEF S
<1>2. PICK b \in BoundedSeq(S, LinesBound) : s = [kind |-> "json", bytes |-> b]
  BY DEF JsonStreams, S
<1>3. b \in Seq(Int)
  BY <1>1, BodiesAreBytes, BoundsAssumption
<1> QED
  BY <1>2, <1>3

-----------------------------------------------------------------------------
\* Log texts: the automaton that tells what of a text is visible.

Chars == [ch : Int, stream : {"stdout", "stderr"}]
Modes == {"text", "escape", "csi", "osc", "oscEnd"}
ModeAt(w, k)  == Scan(w)[k].mode
ShownAt(w, k) == Scan(w)[k].shown

LEMMA ScanSteps ==
    ASSUME NEW w, Len(w) \in Nat
    PROVE  /\ Scan(w)[0] = [mode |-> "text", shown |-> <<>>]
           /\ \A k \in 1 .. Len(w) : Scan(w)[k] = ScanOne(Scan(w)[k - 1], w[k])
<1> DEFINE n == Len(w)
           start == [mode |-> "text", shown |-> <<>>]
           Def(f, m) == f = [k \in 0 .. m |-> IF k = 0 THEN start ELSE ScanOne(f[k - 1], w[k])]
           G == {m \in Nat : \E f : Def(f, m)}
           pass == CHOOSE f : Def(f, n)
<1>0. Scan(w) = pass
  BY DEF Scan
<1> HIDE DEF pass, start
<1>1. 0 \in G
  <2>1. Def([k \in 0 .. 0 |-> start], 0)
    OBVIOUS
  <2> QED
    BY <2>1
<1>2. ASSUME NEW m \in Nat, m \in G PROVE m + 1 \in G
  <2>1. PICK f : Def(f, m)
    BY <1>2
  <2> DEFINE h == [k \in 0 .. m + 1 |-> IF k = m + 1 THEN ScanOne(f[m], w[k]) ELSE f[k]]
  <2>2. ASSUME NEW k \in 0 .. m + 1 PROVE h[k] = IF k = 0 THEN start ELSE ScanOne(h[k - 1], w[k])
    <3>1. CASE k \in 0 .. m
      <4>1. h[k] = f[k] /\ (k # 0 => h[k - 1] = f[k - 1])
        BY <3>1
      <4> HIDE DEF h
      <4> QED
        BY <2>1, <3>1, <4>1
    <3>2. CASE k = m + 1
      BY <3>2
    <3> QED
      BY <3>1, <3>2
  <2>3. h = [k \in 0 .. m + 1 |-> IF k = 0 THEN start ELSE ScanOne(h[k - 1], w[k])]
    BY <2>2
  <2> HIDE DEF h
  <2>4. \E g : Def(g, m + 1)
    BY <2>3
  <2> HIDE DEF Def
  <2> QED
    BY <2>4
<1> HIDE DEF Def
<1>3. n \in G
  <2> HIDE DEF G, n
  <2>1. n \in Nat
    BY DEF n
  <2> QED
    BY <1>1, <1>2, <2>1, NatSetInduction
<1>4. Def(pass, n)
  BY <1>3 DEF pass
<1>5. pass = [k \in 0 .. n |-> IF k = 0 THEN start ELSE ScanOne(pass[k - 1], w[k])]
  BY <1>4 DEF Def
<1>6. pass[0] = start /\ \A k \in 1 .. n : pass[k] = ScanOne(pass[k - 1], w[k])
  <2>1. n \in Nat
    OBVIOUS
  <2>2. 0 \in 0 .. n /\ \A k \in 1 .. n : k \in 0 .. n /\ k # 0
    BY <2>1
  <2> HIDE DEF n
  <2> QED
    BY <1>5, <2>2
<1> QED
  BY <1>0, <1>6 DEF start

\* What one more character does to the scan.
ScanStep(w, k) ==
    /\ ModeAt(w, k + 1) = EscapeMode(ModeAt(w, k), w[k + 1].ch)
    /\ ShownAt(w, k + 1) = IF ModeAt(w, k) = "text" /\ ModeAt(w, k + 1) = "text"
                           THEN Append(ShownAt(w, k), w[k + 1]) ELSE ShownAt(w, k)

LEMMA ScanGoesOn ==
    ASSUME NEW w, Len(w) \in Nat, NEW k \in Nat, k < Len(w)
    PROVE  ScanStep(w, k)
<1> DEFINE q == Scan(w)[k]
           t == Scan(w)[k + 1]
<1>1. t = ScanOne(q, w[k + 1])
  <2>1. k + 1 \in 1 .. Len(w) /\ (k + 1) - 1 = k
    OBVIOUS
  <2> QED
    BY <2>1, ScanSteps
<1> HIDE DEF q, t
<1>2. t.mode = EscapeMode(q.mode, w[k + 1].ch)
      /\ t.shown = IF q.mode = "text" /\ t.mode = "text" THEN Append(q.shown, w[k + 1]) ELSE q.shown
  BY <1>1 DEF ScanOne
<1> QED
  BY <1>2 DEF ScanStep, ModeAt, ShownAt, q, t

LEMMA EscapeModes ==
    ASSUME NEW c
    PROVE  /\ EscapeMode("text", c) = IF c = ESC THEN "escape" ELSE "text"
           /\ EscapeMode("escape", c) = IF c = LEFT_BRACKET THEN "csi" ELSE IF c = RIGHT_BRACKET THEN "osc" ELSE "text"
           /\ EscapeMode("csi", c) = IF c \in CsiFinal THEN "text" ELSE "csi"
           /\ EscapeMode("osc", c) = IF c = BEL THEN "text" ELSE IF c = ESC THEN "oscEnd" ELSE "osc"
           /\ EscapeMode("oscEnd", c) = IF c \in {BEL, BACKSLASH} THEN "text" ELSE IF c = ESC THEN "oscEnd" ELSE "osc"
BY DEF EscapeMode

LEMMA ScanTypes ==
    ASSUME NEW w \in Seq(Chars), NEW n \in Nat, n <= Len(w)
    PROVE  ModeAt(w, n) \in Modes /\ ShownAt(w, n) \in Seq(Chars)
<1>1. Len(w) \in Nat
  OBVIOUS
<1> DEFINE Good(k) == ModeAt(w, k) \in Modes /\ ShownAt(w, k) \in Seq(Chars)
           G == {k \in Nat : k <= Len(w) => Good(k)}
<1>2. 0 \in G
  <2>1. ModeAt(w, 0) = "text" /\ ShownAt(w, 0) = <<>>
    BY <1>1, ScanSteps DEF ModeAt, ShownAt
  <2>2. <<>> \in Seq(Chars) /\ "text" \in Modes
    BY DEF Modes
  <2> HIDE DEF Modes
  <2>3. Good(0)
    BY <2>1, <2>2
  <2> QED
    BY <2>3
<1>3. ASSUME NEW k \in Nat, k \in G PROVE k + 1 \in G
  <2> SUFFICES ASSUME k + 1 <= Len(w) PROVE Good(k + 1)
    OBVIOUS
  <2>1. Good(k) /\ k < Len(w)
    BY <1>1, <1>3
  <2>2. ScanStep(w, k)
    BY <1>1, <2>1, ScanGoesOn
  <2>3. w[k + 1] \in Chars
    BY <1>1
  <2>4. ModeAt(w, k + 1) \in Modes
    <3> DEFINE q == ModeAt(w, k)
               c == w[k + 1].ch
    <3>1. ModeAt(w, k + 1) = EscapeMode(q, c) /\ q \in Modes
      BY <2>1, <2>2 DEF ScanStep
    <3> HIDE DEF q, c
    <3>2. EscapeMode(q, c) \in Modes
      <4>1. q = "text" \/ q = "escape" \/ q = "csi" \/ q = "osc" \/ q = "oscEnd"
        BY <3>1 DEF Modes
      <4> QED
        BY <4>1, EscapeModes DEF Modes
    <3> QED
      BY <3>1, <3>2
  <2>5. ShownAt(w, k + 1) \in Seq(Chars)
    <3> DEFINE q == ShownAt(w, k)
               c == w[k + 1]
               goes == ModeAt(w, k) = "text" /\ ModeAt(w, k + 1) = "text"
    <3>1. ShownAt(w, k + 1) = IF goes THEN Append(q, c) ELSE q
      BY <2>2 DEF ScanStep
    <3>2. q \in Seq(Chars) /\ c \in Chars
      BY <2>1, <2>3
    <3> HIDE DEF q, c, goes
    <3> HIDE DEF Good
    <3>3. Append(q, c) \in Seq(Chars)
      BY <3>2
    <3> QED
      BY <3>1, <3>2, <3>3, Zenon
  <2> QED
    BY <2>4, <2>5
<1> HIDE DEF G
<1>4. n \in G
  BY <1>2, <1>3, NatSetInduction
<1> QED
  BY <1>4 DEF G

\* The symbols of a part of a text.
Symbols(w, y, m) == [i \in 1 .. m - y |-> w[y + i].ch]

LEMMA SymbolsShape ==
    ASSUME NEW w \in Seq(Chars), NEW y \in Nat, NEW m \in Nat, y <= m, m <= Len(w)
    PROVE  /\ Symbols(w, y, m) \in Seq(Int) /\ Len(Symbols(w, y, m)) = m - y
           /\ \A i \in 1 .. m - y : Symbols(w, y, m)[i] = w[y + i].ch
<1>1. \A i \in 1 .. m - y : w[y + i].ch \in Int
  <2> SUFFICES ASSUME NEW i \in 1 .. m - y PROVE w[y + i].ch \in Int
    OBVIOUS
  <2>1. y + i \in 1 .. Len(w)
    OBVIOUS
  <2>2. w[y + i] \in Chars
    BY <2>1
  <2> QED
    BY <2>2 DEF Chars
<1> QED
  BY <1>1, SMTT(30) DEF Symbols

\* Where an escape sequence may end that opens with a bracket.
EscapeEnds(v) ==
    IF v[2] = LEFT_BRACKET THEN {j \in 3 .. Len(v) : v[j] \in CsiFinal}
    ELSE {j \in 3 .. Len(v) : v[j] = BEL \/ (j > 3 /\ v[j - 1] = ESC /\ v[j] = BACKSLASH)}

\* Character i belongs to the sequence that starts after y, and does not end it.
Inside(w, y, i) ==
    /\ ShownAt(w, i) = ShownAt(w, y)
    /\ ModeAt(w, i) = IF w[y + 2].ch = LEFT_BRACKET THEN "csi"
                      ELSE IF i >= y + 3 /\ w[i].ch = ESC THEN "oscEnd" ELSE "osc"

SequenceOpens(w, y, m) ==
    /\ w \in Seq(Chars) /\ y \in Nat /\ m \in Nat /\ y + 2 <= m /\ m <= Len(w)
    /\ ModeAt(w, y) = "text" /\ w[y + 1].ch = ESC /\ w[y + 2].ch \in {LEFT_BRACKET, RIGHT_BRACKET}

LEMMA EscapeStarts ==
    ASSUME NEW w \in Seq(Chars), NEW y \in Nat, y < Len(w), ModeAt(w, y) = "text", w[y + 1].ch = ESC
    PROVE  ModeAt(w, y + 1) = "escape" /\ ShownAt(w, y + 1) = ShownAt(w, y)
<1>1. ScanStep(w, y)
  BY ScanGoesOn
<1>2. ModeAt(w, y + 1) = "escape"
  BY <1>1, EscapeModes DEF ScanStep
<1> QED
  BY <1>1, <1>2 DEF ScanStep

LEMMA InsideGoesOn ==
    ASSUME NEW w, NEW y, NEW m, SequenceOpens(w, y, m), NEW i \in Nat, y + 2 <= i, i < m, Inside(w, y, i)
    PROVE  IF (i + 1) - y \in EscapeEnds(Symbols(w, y, m))
           THEN ModeAt(w, i + 1) = "text" /\ ShownAt(w, i + 1) = ShownAt(w, y)
           ELSE Inside(w, y, i + 1)
<1> DEFINE v == Symbols(w, y, m)
           j == (i + 1) - y
           c == w[i + 1].ch
<1>1. /\ w \in Seq(Chars) /\ y \in Nat /\ m \in Nat /\ y + 2 <= m /\ m <= Len(w) /\ y <= m
      /\ w[y + 2].ch \in {LEFT_BRACKET, RIGHT_BRACKET} /\ Len(w) \in Nat
  BY DEF SequenceOpens
<1>2. /\ ModeAt(w, i + 1) = EscapeMode(ModeAt(w, i), c)
      /\ ModeAt(w, i) # "text" => ShownAt(w, i + 1) = ShownAt(w, i)
  <2>1. ScanStep(w, i)
    BY <1>1, ScanGoesOn
  <2> QED
    BY <2>1 DEF ScanStep
<1>3. Len(v) = m - y /\ \A k \in 1 .. m - y : v[k] = w[y + k].ch
  BY <1>1, SymbolsShape
<1>4. /\ j \in 3 .. m - y /\ v[j] = c /\ v[2] = w[y + 2].ch /\ (j > 3 <=> i >= y + 3)
      /\ v[j - 1] = w[i].ch
  <2>1. /\ j \in 3 .. m - y /\ j \in 1 .. m - y /\ j - 1 \in 1 .. m - y /\ 2 \in 1 .. m - y /\ y + j = i + 1 /\ y + (j - 1) = i
        /\ (j > 3 <=> i >= y + 3)
    BY <1>1
  <2> HIDE DEF v, j
  <2> QED
    BY <1>3, <2>1
<1> HIDE DEF v, j, c
<1>5. CASE w[y + 2].ch = LEFT_BRACKET
  <2>1. ModeAt(w, i) = "csi" /\ ShownAt(w, i) = ShownAt(w, y)
    BY <1>5 DEF Inside
  <2>2. j \in EscapeEnds(v) <=> c \in CsiFinal
    BY <1>3, <1>4, <1>5 DEF EscapeEnds
  <2>3. ModeAt(w, i + 1) = IF c \in CsiFinal THEN "text" ELSE "csi"
    BY <1>2, <2>1, EscapeModes
  <2>4. ShownAt(w, i + 1) = ShownAt(w, y)
    BY <1>2, <2>1
  <2> QED
    BY <1>5, <2>2, <2>3, <2>4 DEF Inside, v, j
<1>6. CASE w[y + 2].ch = RIGHT_BRACKET
  <2>0. RIGHT_BRACKET # LEFT_BRACKET /\ BEL # ESC /\ BACKSLASH # ESC
    BY DEF RIGHT_BRACKET, LEFT_BRACKET, BEL, ESC, BACKSLASH
  <2>1. /\ ModeAt(w, i) = IF i >= y + 3 /\ w[i].ch = ESC THEN "oscEnd" ELSE "osc"
        /\ ShownAt(w, i) = ShownAt(w, y)
    BY <1>6, <2>0 DEF Inside
  <2>2. j \in EscapeEnds(v) <=> (c = BEL \/ (i >= y + 3 /\ w[i].ch = ESC /\ c = BACKSLASH))
    BY <1>3, <1>4, <1>6, <2>0 DEF EscapeEnds
  <2>3. ModeAt(w, i + 1) = IF j \in EscapeEnds(v) THEN "text" ELSE IF c = ESC THEN "oscEnd" ELSE "osc"
    <3>1. CASE i >= y + 3 /\ w[i].ch = ESC
      <4>1. ModeAt(w, i) = "oscEnd"
        BY <2>1, <3>1
      <4>2. ModeAt(w, i + 1) = IF c \in {BEL, BACKSLASH} THEN "text" ELSE IF c = ESC THEN "oscEnd" ELSE "osc"
        BY <1>2, <4>1, EscapeModes
      <4> QED
        BY <2>2, <3>1, <4>2
    <3>2. CASE ~(i >= y + 3 /\ w[i].ch = ESC)
      <4>1. ModeAt(w, i) = "osc"
        BY <2>1, <3>2
      <4>2. ModeAt(w, i + 1) = IF c = BEL THEN "text" ELSE IF c = ESC THEN "oscEnd" ELSE "osc"
        BY <1>2, <4>1, EscapeModes
      <4> QED
        BY <2>2, <3>2, <4>2
    <3> QED
      BY <3>1, <3>2
  <2>4. ShownAt(w, i + 1) = ShownAt(w, y)
    BY <1>2, <2>1
  <2>5. i + 1 >= y + 3
    BY <1>1
  <2> QED
    BY <1>6, <2>0, <2>3, <2>4, <2>5 DEF Inside, v, j, c
<1> QED
  BY <1>1, <1>5, <1>6

\* Up to position l of the sequence nothing ends it.
LEMMA InsideUpTo ==
    ASSUME NEW w, NEW y, NEW m, SequenceOpens(w, y, m), NEW l \in Nat, 2 <= l, l <= m - y,
           \A j \in 3 .. l : j \notin EscapeEnds(Symbols(w, y, m))
    PROVE  \A i \in y + 2 .. y + l : Inside(w, y, i)
<1>1. /\ w \in Seq(Chars) /\ y \in Nat /\ m \in Nat /\ y + 2 <= m /\ m <= Len(w) /\ Len(w) \in Nat
      /\ ModeAt(w, y) = "text" /\ w[y + 1].ch = ESC
      /\ w[y + 2].ch \in {LEFT_BRACKET, RIGHT_BRACKET}
  BY DEF SequenceOpens
<1> DEFINE G == {k \in Nat : 2 + k <= l => Inside(w, y, y + 2 + k)}
<1>2. 0 \in G
  <2>1. ModeAt(w, y + 1) = "escape" /\ ShownAt(w, y + 1) = ShownAt(w, y)
    BY <1>1, EscapeStarts
  <2>2. y + 1 \in Nat /\ (y + 1) + 1 = y + 2 /\ y + 1 < Len(w) /\ ~(y + 2 >= y + 3) /\ y + 2 + 0 = y + 2
    BY <1>1
  <2>3. ScanStep(w, y + 1)
    BY <1>1, <2>2, ScanGoesOn
  <2>4. /\ ModeAt(w, y + 2) = EscapeMode("escape", w[y + 2].ch)
        /\ ShownAt(w, y + 2) = ShownAt(w, y)
    BY <2>1, <2>2, <2>3 DEF ScanStep
  <2>5. RIGHT_BRACKET # LEFT_BRACKET
    BY DEF RIGHT_BRACKET, LEFT_BRACKET
  <2>6. ModeAt(w, y + 2) = IF w[y + 2].ch = LEFT_BRACKET THEN "csi" ELSE "osc"
    BY <1>1, <2>4, <2>5, EscapeModes
  <2>7. Inside(w, y, y + 2)
    BY <2>2, <2>4, <2>6 DEF Inside
  <2> QED
    BY <2>2, <2>7
<1>3. ASSUME NEW k \in Nat, k \in G PROVE k + 1 \in G
  <2> SUFFICES ASSUME 2 + (k + 1) <= l PROVE Inside(w, y, y + 2 + (k + 1))
    OBVIOUS
  <2>1. Inside(w, y, y + 2 + k)
    BY <1>3
  <2>2. PICK i \in Nat : i = y + 2 + k
    BY <1>1
  <2>3. y + 2 <= i /\ i < m /\ i + 1 = y + 2 + (k + 1) /\ (i + 1) - y \in 3 .. l
    BY <1>1, <2>2
  <2>4. (i + 1) - y \notin EscapeEnds(Symbols(w, y, m))
    BY <2>3
  <2>5. Inside(w, y, i + 1)
    BY <2>1, <2>2, <2>3, <2>4, InsideGoesOn
  <2> QED
    BY <2>3, <2>5
<1>4. \A k \in Nat : k \in G
  <2> HIDE DEF G
  <2> QED
    BY <1>2, <1>3, NatSetInduction
<1> SUFFICES ASSUME NEW i \in y + 2 .. y + l PROVE Inside(w, y, i)
  OBVIOUS
<1>5. PICK k \in Nat : i = y + 2 + k /\ 2 + k <= l
  <2>1. i - (y + 2) \in Nat /\ i = y + 2 + (i - (y + 2)) /\ 2 + (i - (y + 2)) <= l
    BY <1>1
  <2> QED
    BY <2>1
<1>6. k \in G
  BY <1>4
<1> QED
  BY <1>5, <1>6

LEMMA InsideIsHidden ==
    ASSUME NEW w, NEW y, NEW i, Inside(w, y, i)
    PROVE  ModeAt(w, i) # "text" /\ ShownAt(w, i) = ShownAt(w, y)
BY DEF Inside

\* Nothing after z is visible, up to m.
Hidden(w, z, m) ==
    \A i \in z + 1 .. m : ModeAt(w, i) # "text" /\ ShownAt(w, i) = ShownAt(w, z)

\* What the length of an escape sequence says of the scan.
EscapeTaken(w, y, m, length) ==
    /\ length \in 0 .. m - y
    /\ length = 0 => Hidden(w, y, m)
    /\ length # 0 => ModeAt(w, y + length) = "text" /\ ShownAt(w, y + length) = ShownAt(w, y)

LEMMA EscapeScan ==
    ASSUME NEW w \in Seq(Chars), NEW y \in Nat, NEW m \in Nat, y < m, m <= Len(w),
           ModeAt(w, y) = "text", w[y + 1].ch = ESC
    PROVE  EscapeTaken(w, y, m, EscapeLength(Symbols(w, y, m)))
<1> DEFINE v == Symbols(w, y, m)
           length == EscapeLength(v)
<1>1. Len(v) = m - y /\ \A k \in 1 .. m - y : v[k] = w[y + k].ch
  BY SymbolsShape
<1>2. ModeAt(w, y + 1) = "escape" /\ ShownAt(w, y + 1) = ShownAt(w, y)
  BY EscapeStarts
<1>3. Len(w) \in Nat
  OBVIOUS
<1>4. length = IF Len(v) < 2 THEN 0
               ELSE IF v[2] \notin {LEFT_BRACKET, RIGHT_BRACKET} THEN 2
               ELSE IF EscapeEnds(v) = {} THEN 0
               ELSE CHOOSE i \in EscapeEnds(v) : \A j \in EscapeEnds(v) : i <= j
  <2> HIDE DEF v
  <2> QED
    BY DEF EscapeLength, EscapeEnds
<1> HIDE DEF v, length
<1>5. CASE m = y + 1
  <2>1. Len(v) < 2 /\ 0 \in 0 .. m - y /\ \A i \in y + 1 .. m : i = y + 1
    BY <1>1, <1>5
  <2>2. length = 0
    BY <1>4, <2>1
  <2>3. EscapeTaken(w, y, m, length)
    BY <1>2, <2>1, <2>2 DEF EscapeTaken, Hidden
  <2> QED
    BY <2>3 DEF length, v
<1>6. CASE m # y + 1 /\ w[y + 2].ch \notin {LEFT_BRACKET, RIGHT_BRACKET}
  <2>1. ~(Len(v) < 2) /\ 2 \in 1 .. m - y /\ 2 \in 0 .. m - y /\ y + 1 \in Nat /\ y + 1 < Len(w) /\ (y + 1) + 1 = y + 2
    BY <1>1, <1>3, <1>6
  <2>2. length = 2
    BY <1>1, <1>4, <1>6, <2>1
  <2>3. ScanStep(w, y + 1)
    BY <1>3, <2>1, ScanGoesOn
  <2>4. ModeAt(w, y + 2) = "text" /\ ShownAt(w, y + 2) = ShownAt(w, y)
    <3>1. ModeAt(w, y + 2) = EscapeMode("escape", w[y + 2].ch)
      BY <1>2, <2>1, <2>3 DEF ScanStep
    <3>2. ModeAt(w, y + 2) = "text"
      BY <1>6, <3>1, EscapeModes
    <3>3. ShownAt(w, y + 2) = ShownAt(w, y + 1)
      BY <1>2, <2>1, <2>3 DEF ScanStep
    <3> QED
      BY <1>2, <3>2, <3>3
  <2>5. EscapeTaken(w, y, m, length)
    BY <2>1, <2>2, <2>4 DEF EscapeTaken
  <2> QED
    BY <2>5 DEF length, v
<1>7. CASE m # y + 1 /\ w[y + 2].ch \in {LEFT_BRACKET, RIGHT_BRACKET}
  <2>1. ~(Len(v) < 2) /\ 2 \in 1 .. m - y /\ y + 2 <= m /\ m - y \in Nat /\ 2 <= m - y /\ y + (m - y) = m
    BY <1>1, <1>3, <1>7
  <2>2. v[2] \in {LEFT_BRACKET, RIGHT_BRACKET}
    BY <1>1, <1>7, <2>1
  <2>3. SequenceOpens(w, y, m)
    BY <1>7, <2>1 DEF SequenceOpens
  <2>4. EscapeEnds(v) \subseteq 3 .. m - y
    BY <1>1 DEF EscapeEnds
  <2>5. CASE EscapeEnds(v) = {}
    <3>1. length = 0
      BY <1>4, <2>1, <2>2, <2>5
    <3>2. \A i \in y + 2 .. m : Inside(w, y, i)
      <4>1. \A j \in 3 .. m - y : j \notin EscapeEnds(Symbols(w, y, m))
        BY <2>5 DEF v
      <4>2. \A i \in y + 2 .. y + (m - y) : Inside(w, y, i)
        BY <2>1, <2>3, <4>1, InsideUpTo
      <4> QED
        BY <2>1, <4>2
    <3>3. Hidden(w, y, m)
      <4>1. \A i \in y + 1 .. m : i = y + 1 \/ i \in y + 2 .. m
        OBVIOUS
      <4> QED
        BY <1>2, <3>2, <4>1, InsideIsHidden DEF Hidden
    <3>4. EscapeTaken(w, y, m, length)
      <4>1. 0 \in 0 .. m - y
        BY <2>1
      <4> QED
        BY <3>1, <3>3, <4>1 DEF EscapeTaken
    <3> QED
      BY <3>4 DEF length, v
  <2>6. CASE EscapeEnds(v) # {}
    <3>1. length \in EscapeEnds(v) /\ \A j \in EscapeEnds(v) : length <= j
      <4>1. length = CHOOSE i \in EscapeEnds(v) : \A j \in EscapeEnds(v) : i <= j
        BY <1>4, <2>1, <2>2, <2>6
      <4>2. EscapeEnds(v) \in SUBSET Nat
        BY <2>4
      <4> QED
        BY <2>6, <4>1, <4>2, ChosenLeast
    <3>2. length \in 3 .. m - y /\ length - 1 \in Nat /\ 2 <= length - 1 /\ length - 1 <= m - y
      BY <2>1, <2>4, <3>1
    <3>3. \A j \in 3 .. length - 1 : j \notin EscapeEnds(v)
      BY <3>1, <3>2
    <3>4. \A i \in y + 2 .. y + (length - 1) : Inside(w, y, i)
      BY <2>3, <3>2, <3>3, InsideUpTo DEF v
    <3>5. PICK i \in Nat : i = y + (length - 1)
      BY <3>2
    <3>6. y + 2 <= i /\ i < m /\ i + 1 = y + length /\ (i + 1) - y = length /\ i \in y + 2 .. y + (length - 1)
      BY <2>1, <3>2, <3>5
    <3>7. ModeAt(w, y + length) = "text" /\ ShownAt(w, y + length) = ShownAt(w, y)
      <4>1. Inside(w, y, i) /\ (i + 1) - y \in EscapeEnds(v)
        BY <3>1, <3>4, <3>6
      <4>2. ModeAt(w, i + 1) = "text" /\ ShownAt(w, i + 1) = ShownAt(w, y)
        BY <2>3, <3>6, <4>1, InsideGoesOn DEF v
      <4> QED
        BY <3>6, <4>2
    <3>8. EscapeTaken(w, y, m, length)
      <4>1. length \in 0 .. m - y /\ length # 0
        BY <3>2
      <4> QED
        BY <3>7, <4>1 DEF EscapeTaken
    <3> QED
      BY <3>8 DEF length, v
  <2> QED
    BY <2>5, <2>6
<1> QED
  BY <1>5, <1>6, <1>7

\* What is left of a part of a text.
LEMMA SymbolsRest ==
    ASSUME NEW w \in Seq(Chars), NEW y \in Nat, NEW m \in Nat, y <= m, m <= Len(w), NEW l \in Nat, l <= m - y
    PROVE  Rest(Symbols(w, y, m), l) = Symbols(w, y + l, m)
<1> DEFINE v == Symbols(w, y, m)
           x == SubSeq(v, l + 1, m - y)
           u == Symbols(w, y + l, m)
<1>1. v \in Seq(Int) /\ Len(v) = m - y /\ \A k \in 1 .. m - y : v[k] = w[y + k].ch
  BY SymbolsShape
<1>2. /\ y + l \in Nat /\ y + l <= m /\ m - y \in Nat /\ (m - y) - l = m - (y + l)
  OBVIOUS
<1>3. u \in Seq(Int) /\ Len(u) = m - (y + l) /\ \A k \in 1 .. m - (y + l) : u[k] = w[(y + l) + k].ch
  BY <1>2, SymbolsShape
<1> HIDE DEF v, u
<1>4. x \in Seq(Int) /\ Len(x) = (m - y) - l /\ \A k \in 1 .. (m - y) - l : x[k] = v[l + k]
  <2>1. m - y <= Len(v)
    BY <1>1, <1>2
  <2> QED
    BY <1>1, <1>2, <2>1, PartShape
<1> HIDE DEF x
<1>5. ASSUME NEW k \in 1 .. m - (y + l) PROVE x[k] = u[k]
  <2>1. k \in 1 .. (m - y) - l /\ l + k \in 1 .. m - y /\ y + (l + k) = (y + l) + k
    BY <1>2
  <2> QED
    BY <1>1, <1>3, <1>4, <2>1
<1>6. x = u
  <2>1. Len(x) = Len(u) /\ \A k \in 1 .. Len(u) : x[k] = u[k]
    BY <1>2, <1>3, <1>4, <1>5
  <2> QED
    BY <1>3, <1>4, <2>1, SameSequence
<1>7. Rest(v, l) = x
  BY <1>1 DEF Rest, x
<1> QED
  BY <1>6, <1>7 DEF v, u

LEMMA SymbolsJoin ==
    ASSUME NEW w \in Seq(Chars), NEW y \in Nat, NEW n \in Nat, NEW m \in Nat, y <= n, n <= m, m <= Len(w)
    PROVE  Joined(Symbols(w, y, n), Symbols(w, n, m)) = Symbols(w, y, m)
<1> DEFINE a == Symbols(w, y, n)
           e == Symbols(w, n, m)
           u == Symbols(w, y, m)
           x == Joined(a, e)
<1>0. n <= Len(w) /\ y <= m
  OBVIOUS
<1>1. a \in Seq(Int) /\ Len(a) = n - y /\ \A k \in 1 .. n - y : a[k] = w[y + k].ch
  BY <1>0, SymbolsShape
<1>2. e \in Seq(Int) /\ Len(e) = m - n /\ \A k \in 1 .. m - n : e[k] = w[n + k].ch
  BY SymbolsShape
<1>3. u \in Seq(Int) /\ Len(u) = m - y /\ \A k \in 1 .. m - y : u[k] = w[y + k].ch
  BY <1>0, SymbolsShape
<1> HIDE DEF a, e, u
<1>4. /\ x \in Seq(Int) /\ Len(x) = Len(a) + Len(e)
      /\ \A i \in 1 .. Len(a) : x[i] = a[i]
      /\ \A i \in 1 .. Len(e) : x[Len(a) + i] = e[i]
  BY <1>1, <1>2, JoinedAt
<1> HIDE DEF x
<1>5. ASSUME NEW k \in 1 .. m - y PROVE x[k] = u[k]
  <2>1. CASE k <= n - y
    <3>1. k \in 1 .. n - y /\ k \in 1 .. Len(a)
      BY <1>1, <2>1
    <3> QED
      BY <1>1, <1>3, <1>4, <3>1
  <2>2. CASE ~(k <= n - y)
    <3>1. PICK i \in 1 .. m - n : k = (n - y) + i
      <4>1. k - (n - y) \in 1 .. m - n /\ k = (n - y) + (k - (n - y))
        BY <2>2
      <4> QED
        BY <4>1
    <3>2. n + i = y + k /\ Len(a) + i = k /\ i \in 1 .. Len(e)
      <4>1. Len(a) = n - y /\ Len(e) = m - n
        BY <1>1, <1>2
      <4> QED
        BY <3>1, <4>1
    <3>3. x[k] = e[i]
      BY <1>4, <3>2
    <3>4. e[i] = w[n + i].ch
      BY <1>2, <3>1
    <3>5. u[k] = w[y + k].ch
      BY <1>3
    <3> QED
      BY <3>2, <3>3, <3>4, <3>5
  <2> QED
    BY <2>1, <2>2
<1>6. Len(x) = Len(u) /\ \A k \in 1 .. Len(u) : x[k] = u[k]
  <2>1. Len(x) = m - y
    BY <1>1, <1>2, <1>4
  <2> QED
    BY <1>3, <1>5, <2>1
<1>7. x = u
  BY <1>3, <1>4, <1>6, SameSequence
<1> QED
  BY <1>7 DEF x, a, e, u

\* What a text shows has grown by clean, in stream st.
Grown(V0, V, clean, st) ==
    /\ V0 \in Seq(Chars) /\ V \in Seq(Chars) /\ clean \in Seq(Int)
    /\ Len(V) = Len(V0) + Len(clean)
    /\ \A i \in 1 .. Len(V0) : V[i] = V0[i]
    /\ \A k \in 1 .. Len(clean) : V[Len(V0) + k].ch = clean[k] /\ V[Len(V0) + k].stream = st

LEMMA GrowsByOne ==
    ASSUME NEW V0, NEW V, NEW clean, NEW st, Grown(V0, V, clean, st), NEW c \in Chars, c.stream = st
    PROVE  Grown(V0, Append(V, c), Append(clean, c.ch), st)
<1> DEFINE Z == Append(V, c)
           z == Append(clean, c.ch)
           n == Len(V0)
           k == Len(clean)
<1>1. /\ V0 \in Seq(Chars) /\ V \in Seq(Chars) /\ clean \in Seq(Int) /\ Len(V) = n + k
      /\ \A i \in 1 .. n : V[i] = V0[i]
      /\ \A i \in 1 .. k : V[n + i].ch = clean[i] /\ V[n + i].stream = st
  BY DEF Grown
<1>2. n \in Nat /\ k \in Nat
  BY <1>1
<1>3. c.ch \in Int
  BY DEF Chars
<1>4. /\ Z \in Seq(Chars) /\ Len(Z) = n + k + 1 /\ Z[n + k + 1] = c
      /\ \A i \in 1 .. n + k : Z[i] = V[i]
  <2>1. Len(V) = n + k
    BY <1>1
  <2> HIDE DEF n, k
  <2> QED
    BY <1>1, <1>2, <2>1
<1>5. z \in Seq(Int) /\ Len(z) = k + 1 /\ z[k + 1] = c.ch /\ \A i \in 1 .. k : z[i] = clean[i]
  BY <1>1, <1>3
<1> HIDE DEF Z, z, n, k
<1>6. Len(Z) = n + Len(z)
  BY <1>2, <1>4, <1>5
<1>7. \A i \in 1 .. n : Z[i] = V0[i]
  <2>1. \A i \in 1 .. n : i \in 1 .. n + k
    BY <1>2
  <2> QED
    BY <1>1, <1>4, <2>1
<1>8. ASSUME NEW i \in 1 .. Len(z) PROVE Z[n + i].ch = z[i] /\ Z[n + i].stream = st
  <2>1. CASE i = k + 1
    <3>1. n + i = n + k + 1
      BY <1>2, <2>1
    <3> QED
      BY <1>4, <1>5, <2>1, <3>1
  <2>2. CASE i # k + 1
    <3>1. i \in 1 .. k /\ n + i \in 1 .. n + k
      BY <1>2, <1>5, <2>2
    <3> QED
      BY <1>1, <1>4, <1>5, <3>1
  <2> QED
    BY <2>1, <2>2
<1>9. Grown(V0, Z, z, st)
  BY <1>1, <1>4, <1>5, <1>6, <1>7, <1>8 DEF Grown, n
<1> QED
  BY <1>9 DEF Z, z

\* The loop of stripAnsi() over the text after z, whose first part up to n is hidden: it is at y.
StripInput(w, z, n, m, st) ==
    /\ w \in Seq(Chars) /\ z \in Nat /\ n \in Nat /\ m \in Nat /\ z <= n /\ n <= m /\ m <= Len(w)
    /\ ModeAt(w, z) = "text" /\ Hidden(w, z, n)
    /\ \A i \in n + 1 .. m : w[i].stream = st
StripAt(w, z, m, st, y, s) ==
    /\ y \in z .. m /\ ModeAt(w, y) = "text"
    /\ s.left = Symbols(w, y, m)
    /\ Grown(ShownAt(w, z), ShownAt(w, y), s.clean, st)

StripProgress(w, z, m, st, y, s) ==
    \E d \in y .. m : StripAt(w, z, m, st, d, s) /\ (d > y \/ Hidden(w, d, m))

LEMMA StripStep ==
    ASSUME NEW w, NEW z, NEW n, NEW m, NEW st, StripInput(w, z, n, m, st), NEW y, NEW s, StripAt(w, z, m, st, y, s)
    PROVE  StripProgress(w, z, m, st, y, StripOne(s))
<1> DEFINE t == StripOne(s)
           v == Symbols(w, y, m)
<1>1. /\ w \in Seq(Chars) /\ z \in Nat /\ n \in Nat /\ m \in Nat /\ z <= n /\ n <= m /\ m <= Len(w)
      /\ Hidden(w, z, n) /\ Len(w) \in Nat
      /\ \A i \in n + 1 .. m : w[i].stream = st
  BY DEF StripInput
<1>2. /\ y \in Nat /\ z <= y /\ y <= m /\ ModeAt(w, y) = "text" /\ s.left = v
      /\ Grown(ShownAt(w, z), ShownAt(w, y), s.clean, st)
  BY <1>1 DEF StripAt
<1>3. v \in Seq(Int) /\ Len(v) = m - y /\ \A k \in 1 .. m - y : v[k] = w[y + k].ch
  BY <1>1, <1>2, SymbolsShape
<1> DEFINE length == IF v = <<>> THEN 0 ELSE IF v[1] = ESC THEN EscapeLength(v) ELSE 1
<1>4. /\ t.left = Rest(v, length)
      /\ t.clean = IF length # 0 /\ v[1] # ESC THEN Append(s.clean, v[1]) ELSE s.clean
  <2> HIDE DEF v
  <2> QED
    BY <1>2 DEF StripOne
<1>5. v = <<>> <=> y = m
  <2> HIDE DEF v
  <2>1. v = <<>> <=> Len(v) = 0
    BY <1>3
  <2> QED
    BY <1>1, <1>2, <1>3, <2>1
<1> HIDE DEF v, t
<1>6. CASE y = m
  <2>1. length = 0 /\ 0 <= m - y /\ y + 0 = y
    BY <1>1, <1>2, <1>5, <1>6
  <2> HIDE DEF length
  <2>2. t.left = v /\ t.clean = s.clean
    <3>1. Rest(v, 0) = Symbols(w, y + 0, m)
      BY <1>1, <1>2, <2>1, SymbolsRest DEF v
    <3> QED
      BY <1>4, <2>1, <3>1 DEF v
  <2>3. StripAt(w, z, m, st, y, t)
    BY <1>1, <1>2, <2>2 DEF StripAt, v
  <2>4. Hidden(w, y, m)
    BY <1>1, <1>6 DEF Hidden
  <2>5. y \in y .. m
    BY <1>2, <1>6
  <2> QED
    BY <2>3, <2>4, <2>5 DEF StripProgress, t
<1>7. CASE y # m /\ w[y + 1].ch = ESC
  <2>1. y < m /\ 1 \in 1 .. m - y
    BY <1>1, <1>2, <1>7
  <2>2. v # <<>> /\ v[1] = ESC
    BY <1>3, <1>5, <1>7, <2>1
  <2>3. length = EscapeLength(v)
    BY <2>2
  <2> HIDE DEF length
  <2>4. EscapeTaken(w, y, m, length)
    BY <1>1, <1>2, <1>7, <2>1, <2>3, EscapeScan DEF v
  <2>5. length \in 0 .. m - y
    BY <2>4 DEF EscapeTaken
  <2>6. t.left = Symbols(w, y + length, m) /\ t.clean = s.clean
    <3>1. length \in Nat /\ length <= m - y
      BY <1>1, <1>2, <2>5
    <3>2. Rest(v, length) = Symbols(w, y + length, m)
      BY <1>1, <1>2, <3>1, SymbolsRest DEF v
    <3> QED
      BY <1>4, <2>2, <3>2
  <2>7. ModeAt(w, y + length) = "text" /\ ShownAt(w, y + length) = ShownAt(w, y)
    <3>1. CASE length = 0
      <4>1. y + length = y
        BY <1>2, <3>1
      <4> QED
        BY <1>2, <4>1
    <3>2. CASE length # 0
      BY <2>4, <3>2 DEF EscapeTaken
    <3> QED
      BY <3>1, <3>2
  <2>8. y + length \in y .. m /\ y + length \in z .. m /\ (length # 0 => y + length > y) /\ (length = 0 => y + length = y)
    BY <1>1, <1>2, <2>5
  <2>9. StripAt(w, z, m, st, y + length, t)
    BY <1>2, <2>6, <2>7, <2>8 DEF StripAt
  <2>10. y + length > y \/ Hidden(w, y + length, m)
    BY <2>4, <2>8 DEF EscapeTaken
  <2> QED
    BY <2>8, <2>9, <2>10 DEF StripProgress, t
<1>8. CASE y # m /\ w[y + 1].ch # ESC
  <2>1. y < m /\ y < Len(w) /\ 1 \in 1 .. m - y /\ 1 <= m - y
    BY <1>1, <1>2, <1>8
  <2>2. v # <<>> /\ v[1] = w[y + 1].ch /\ v[1] # ESC
    BY <1>3, <1>5, <1>8, <2>1
  <2>3. length = 1
    BY <2>2
  <2> HIDE DEF length
  <2>4. t.left = Symbols(w, y + 1, m) /\ t.clean = Append(s.clean, w[y + 1].ch)
    <3>1. Rest(v, 1) = Symbols(w, y + 1, m)
      BY <1>1, <1>2, <2>1, SymbolsRest DEF v
    <3> QED
      BY <1>4, <2>2, <2>3, <3>1
  <2>5. ScanStep(w, y)
    BY <1>1, <1>2, <2>1, ScanGoesOn
  <2>6. ModeAt(w, y + 1) = "text" /\ ShownAt(w, y + 1) = Append(ShownAt(w, y), w[y + 1])
    <3>1. ModeAt(w, y + 1) = "text"
      BY <1>2, <1>8, <2>5, EscapeModes DEF ScanStep
    <3> QED
      BY <1>2, <2>5, <3>1 DEF ScanStep
  <2>7. y + 1 \in n + 1 .. m
    <3>1. y >= n
      <4> SUFFICES ASSUME y < n PROVE FALSE
        BY <1>1, <1>2
      <4>1. y = z
        <5>1. y \in z + 1 .. n => ModeAt(w, y) # "text"
          BY <1>1 DEF Hidden
        <5> QED
          BY <1>1, <1>2, <5>1
      <4>2. y + 1 \in z + 1 .. n
        BY <1>1, <1>2, <4>1
      <4>3. ModeAt(w, y + 1) # "text"
        BY <1>1, <4>2 DEF Hidden
      <4> QED
        BY <2>6, <4>3
    <3> QED
      BY <1>1, <1>2, <2>1, <3>1
  <2>8. w[y + 1].stream = st /\ w[y + 1] \in Chars
    <3>1. y + 1 \in 1 .. Len(w)
      BY <1>1, <1>2, <2>1
    <3> QED
      BY <1>1, <2>7, <3>1
  <2>9. Grown(ShownAt(w, z), ShownAt(w, y + 1), t.clean, st)
    <3> DEFINE c == w[y + 1]
    <3>1. c.stream = st /\ c \in Chars
      BY <2>8
    <3>2. t.clean = Append(s.clean, c.ch) /\ ShownAt(w, y + 1) = Append(ShownAt(w, y), c)
      BY <2>4, <2>6
    <3> HIDE DEF c
    <3>3. Grown(ShownAt(w, z), Append(ShownAt(w, y), c), Append(s.clean, c.ch), st)
      BY <1>2, <3>1, GrowsByOne
    <3> QED
      BY <3>2, <3>3
  <2>10. y + 1 \in y .. m /\ y + 1 \in z .. m /\ y + 1 > y
    BY <1>1, <1>2, <2>1
  <2>11. StripAt(w, z, m, st, y + 1, t)
    BY <2>4, <2>6, <2>9, <2>10 DEF StripAt
  <2> QED
    BY <2>10, <2>11 DEF StripProgress, t
<1> QED
  BY <1>6, <1>7, <1>8

LEMMA StripPasses ==
    ASSUME NEW v, Len(v) \in Nat
    PROVE  \E f : /\ StripAnsi(v) = f[Len(v)]
                  /\ f[0] = [left |-> v, clean |-> <<>>]
                  /\ \A k \in 1 .. Len(v) : f[k] = StripOne(f[k - 1])
<1> DEFINE n == Len(v)
           start == [left |-> v, clean |-> <<>>]
           Def(f, m) == f = [k \in 0 .. m |-> IF k = 0 THEN start ELSE StripOne(f[k - 1])]
           G == {m \in Nat : \E f : Def(f, m)}
           pass == CHOOSE f : Def(f, n)
<1>0. StripAnsi(v) = pass[n]
  BY DEF StripAnsi
<1> HIDE DEF pass, start
<1>1. 0 \in G
  <2>1. Def([k \in 0 .. 0 |-> start], 0)
    OBVIOUS
  <2> QED
    BY <2>1
<1>2. ASSUME NEW m \in Nat, m \in G PROVE m + 1 \in G
  <2>1. PICK f : Def(f, m)
    BY <1>2
  <2> DEFINE h == [k \in 0 .. m + 1 |-> IF k = m + 1 THEN StripOne(f[m]) ELSE f[k]]
  <2>2. ASSUME NEW k \in 0 .. m + 1 PROVE h[k] = IF k = 0 THEN start ELSE StripOne(h[k - 1])
    <3>1. CASE k \in 0 .. m
      <4>1. h[k] = f[k] /\ (k # 0 => h[k - 1] = f[k - 1])
        BY <3>1
      <4> HIDE DEF h
      <4> QED
        BY <2>1, <3>1, <4>1
    <3>2. CASE k = m + 1
      BY <3>2
    <3> QED
      BY <3>1, <3>2
  <2>3. h = [k \in 0 .. m + 1 |-> IF k = 0 THEN start ELSE StripOne(h[k - 1])]
    BY <2>2
  <2> HIDE DEF h
  <2>4. \E g : Def(g, m + 1)
    BY <2>3
  <2> HIDE DEF Def
  <2> QED
    BY <2>4
<1> HIDE DEF Def
<1>3. n \in G
  <2> HIDE DEF G, n
  <2>1. n \in Nat
    BY DEF n
  <2> QED
    BY <1>1, <1>2, <2>1, NatSetInduction
<1>4. Def(pass, n)
  BY <1>3 DEF pass
<1>5. pass = [k \in 0 .. n |-> IF k = 0 THEN start ELSE StripOne(pass[k - 1])]
  BY <1>4 DEF Def
<1>6. pass[0] = start /\ \A k \in 1 .. n : pass[k] = StripOne(pass[k - 1])
  <2>1. n \in Nat
    OBVIOUS
  <2>2. 0 \in 0 .. n /\ \A k \in 1 .. n : k \in 0 .. n /\ k # 0
    BY <2>1
  <2> HIDE DEF n
  <2> QED
    BY <1>5, <2>2
<1> QED
  BY <1>0, <1>6 DEF start

StripPass(w, z, m, st, k, s) ==
    \E y \in z .. m : StripAt(w, z, m, st, y, s) /\ (y >= k \/ Hidden(w, y, m))

LEMMA StripPassOn ==
    ASSUME NEW w, NEW z, NEW n, NEW m, NEW st, StripInput(w, z, n, m, st), NEW k \in Nat, NEW s,
           StripPass(w, z, m, st, k, s)
    PROVE  StripPass(w, z, m, st, k + 1, StripOne(s))
<1>1. PICK y \in z .. m : StripAt(w, z, m, st, y, s) /\ (y >= k \/ Hidden(w, y, m))
  BY DEF StripPass
<1>2. z \in Nat /\ m \in Nat
  BY DEF StripInput
<1>3. PICK d \in y .. m : StripAt(w, z, m, st, d, StripOne(s)) /\ (d > y \/ Hidden(w, d, m))
  BY <1>1, StripStep DEF StripProgress
<1>4. d \in z .. m /\ (d > y => d \in y + 1 .. m) /\ (d > y /\ y >= k => d >= k + 1)
  BY <1>1, <1>2, <1>3
<1>5. CASE Hidden(w, d, m)
  BY <1>3, <1>4, <1>5 DEF StripPass
<1>6. CASE d > y /\ y >= k
  BY <1>3, <1>4, <1>6 DEF StripPass
<1>7. ~(d > y /\ Hidden(w, y, m))
  <2> SUFFICES ASSUME d > y, Hidden(w, y, m) PROVE FALSE
    OBVIOUS
  <2>1. ModeAt(w, d) # "text"
    BY <1>4 DEF Hidden
  <2>2. ModeAt(w, d) = "text"
    BY <1>3 DEF StripAt
  <2> QED
    BY <2>1, <2>2
<1> QED
  BY <1>1, <1>3, <1>5, <1>6, <1>7

\* What is kept of a text for later: a sequence that is cut.
AnsiAt(w, m, ansi) ==
    \E y \in 0 .. m : ModeAt(w, y) = "text" /\ Hidden(w, y, m) /\ ansi = Symbols(w, y, m)

\* stripAnsi() on what was kept and the text up to m gives what is visible of that text.
Stripped(w, n, m, st, s) ==
    /\ AnsiAt(w, m, s.left)
    /\ Grown(ShownAt(w, n), ShownAt(w, m), s.clean, st)

LEMMA HiddenShows ==
    ASSUME NEW w, NEW z \in Nat, NEW n \in Nat, z <= n, Hidden(w, z, n)
    PROVE  ShownAt(w, n) = ShownAt(w, z)
<1>1. n = z \/ n \in z + 1 .. n
  OBVIOUS
<1> QED
  BY <1>1 DEF Hidden

LEMMA StripText ==
    ASSUME NEW w \in Seq(Chars), NEW n \in Nat, NEW m \in Nat, n <= m, m <= Len(w), NEW st,
           \A i \in n + 1 .. m : w[i].stream = st,
           NEW ansi, AnsiAt(w, n, ansi)
    PROVE  Stripped(w, n, m, st, StripAnsi(Joined(ansi, Symbols(w, n, m))))
<1>1. PICK z \in 0 .. n : ModeAt(w, z) = "text" /\ Hidden(w, z, n) /\ ansi = Symbols(w, z, n)
  BY DEF AnsiAt
<1>2. z \in Nat /\ z <= n /\ z <= m /\ Len(w) \in Nat /\ z \in z .. m
  BY <1>1
<1>3. StripInput(w, z, n, m, st)
  BY <1>1, <1>2 DEF StripInput
<1> DEFINE v == Symbols(w, z, m)
           L == Len(v)
<1>4. Joined(ansi, Symbols(w, n, m)) = v
  BY <1>1, <1>2, SymbolsJoin
<1>5. L = m - z /\ L \in Nat /\ v \in Seq(Int)
  <2>1. v \in Seq(Int) /\ Len(v) = m - z
    BY <1>2, SymbolsShape
  <2>2. m - z \in Nat
    BY <1>2
  <2> HIDE DEF v
  <2> QED
    BY <2>1, <2>2
<1> HIDE DEF v
<1>6. PICK f : /\ StripAnsi(v) = f[L]
               /\ f[0] = [left |-> v, clean |-> <<>>]
               /\ \A k \in 1 .. L : f[k] = StripOne(f[k - 1])
  BY <1>5, StripPasses
<1>7. StripAnsi(v) = f[L] /\ \A k \in 1 .. L : f[k] = StripOne(f[k - 1])
  BY <1>6
<1>8. f[0].left = v /\ f[0].clean = <<>>
  BY <1>6
<1> HIDE DEF L
<1> DEFINE G == {k \in Nat : k <= L => StripPass(w, z, m, st, z + k, f[k])}
<1>9. 0 \in G
  <2>1. Grown(ShownAt(w, z), ShownAt(w, z), f[0].clean, st)
    <3>1. ShownAt(w, z) \in Seq(Chars)
      <4>1. z <= Len(w)
        BY <1>2
      <4> QED
        BY <1>2, <4>1, ScanTypes
    <3>2. f[0].clean \in Seq(Int) /\ Len(f[0].clean) = 0
      <4>1. <<>> \in Seq(Int) /\ Len(<<>>) = 0
        OBVIOUS
      <4> QED
        BY <1>8, <4>1
    <3>3. Len(ShownAt(w, z)) \in Nat
      BY <3>1
    <3>4. Len(ShownAt(w, z)) = Len(ShownAt(w, z)) + Len(f[0].clean)
      BY <3>2, <3>3
    <3>5. \A k \in 1 .. Len(f[0].clean) : FALSE
      BY <3>2
    <3> QED
      BY <3>1, <3>2, <3>4, <3>5 DEF Grown
  <2>2. StripAt(w, z, m, st, z, f[0])
    BY <1>1, <1>2, <1>8, <2>1 DEF StripAt, v
  <2>3. z >= z + 0
    BY <1>2
  <2>4. StripPass(w, z, m, st, z + 0, f[0])
    BY <1>2, <2>2, <2>3 DEF StripPass
  <2> QED
    BY <2>4
<1>10. ASSUME NEW k \in Nat, k \in G PROVE k + 1 \in G
  <2> SUFFICES ASSUME k + 1 <= L PROVE StripPass(w, z, m, st, z + (k + 1), f[k + 1])
    OBVIOUS
  <2>1. StripPass(w, z, m, st, z + k, f[k])
    BY <1>5, <1>10
  <2>2. f[k + 1] = StripOne(f[k])
    <3>1. k + 1 \in 1 .. L /\ (k + 1) - 1 = k
      BY <1>5
    <3> QED
      BY <1>7, <3>1
  <2>3. PICK j \in Nat : j = z + k /\ j + 1 = z + (k + 1)
    BY <1>2
  <2>4. StripPass(w, z, m, st, j + 1, StripOne(f[k]))
    BY <1>3, <2>1, <2>3, StripPassOn
  <2> QED
    BY <2>2, <2>3, <2>4
<1>11. L \in G
  <2> HIDE DEF G
  <2> QED
    BY <1>5, <1>9, <1>10, NatSetInduction
<1>12. StripPass(w, z, m, st, m, f[L])
  <2>1. z + L = m /\ L <= L
    BY <1>2, <1>5
  <2> QED
    BY <1>11, <2>1
<1>13. PICK y \in z .. m : StripAt(w, z, m, st, y, f[L]) /\ (y >= m \/ Hidden(w, y, m))
  BY <1>12 DEF StripPass
<1>14. Hidden(w, y, m) /\ y \in 0 .. m /\ y \in Nat /\ y <= m
  <2>1. y \in 0 .. m /\ y \in Nat /\ y <= m
    BY <1>2, <1>13
  <2>2. CASE y >= m
    <3>1. \A i \in y + 1 .. m : FALSE
      BY <2>1, <2>2
    <3> QED
      BY <2>1, <3>1 DEF Hidden
  <2> QED
    BY <1>13, <2>1, <2>2
<1>15. ModeAt(w, y) = "text" /\ f[L].left = Symbols(w, y, m) /\ Grown(ShownAt(w, z), ShownAt(w, y), f[L].clean, st)
  BY <1>13 DEF StripAt
<1>16. ShownAt(w, m) = ShownAt(w, y) /\ ShownAt(w, n) = ShownAt(w, z)
  BY <1>1, <1>2, <1>14, HiddenShows
<1>17. AnsiAt(w, m, f[L].left)
  BY <1>14, <1>15 DEF AnsiAt
<1>18. Stripped(w, n, m, st, f[L])
  BY <1>15, <1>16, <1>17 DEF Stripped
<1> QED
  BY <1>4, <1>7, <1>18

-----------------------------------------------------------------------------
\* Lines of a log: what is decided when one more character is visible.

LEMMA CutsGrow ==
    ASSUME NEW V \in Seq(Chars), NEW n \in Nat, n < Len(V)
    PROVE  LET newline  == V[n + 1].ch = LF
               overwrite == n # 0 /\ V[n].ch = CR /\ V[n + 1].ch # LF
           IN  /\ \A k \in 1 .. n + 1 : k \in Cuts(V, n + 1) <=>
                     \/ k \in Cuts(V, n)
                     \/ k = n + 1 /\ newline
                     \/ k = n /\ overwrite
               /\ \A k \in 1 .. n + 1 : k \in Shown(V, n + 1) <=>
                     \/ k \in Shown(V, n)
                     \/ k = n + 1 /\ newline
                     \/ k = n /\ overwrite /\ n # 1 /\ V[n - 1].ch # LF
               /\ Cuts(V, n) \subseteq 1 .. n /\ Cuts(V, n + 1) \subseteq 1 .. n + 1
               /\ Shown(V, n) \subseteq 1 .. n /\ Shown(V, n + 1) \subseteq 1 .. n + 1
               /\ n \in Cuts(V, n) <=> n # 0 /\ V[n].ch = LF
<1>0. CR # LF
  BY DEF CR, LF
<1>1. \A k \in 1 .. n + 1 : /\ k \in Newlines(V, n + 1) <=> V[k].ch = LF
                            /\ k \in Returns(V, n + 1) <=> k <= n /\ V[k].ch = CR /\ V[k + 1].ch # LF
  BY DEF Newlines, Returns
<1>2. \A k \in 1 .. n + 1 : /\ k \in Newlines(V, n) <=> k <= n /\ V[k].ch = LF
                            /\ k \in Returns(V, n) <=> k <= n - 1 /\ V[k].ch = CR /\ V[k + 1].ch # LF
  BY DEF Newlines, Returns
<1>3. /\ Newlines(V, n) \subseteq 1 .. n /\ Newlines(V, n + 1) \subseteq 1 .. n + 1
      /\ Returns(V, n) \subseteq 1 .. n /\ Returns(V, n + 1) \subseteq 1 .. n + 1
  BY DEF Newlines, Returns
<1>4. \A k \in 1 .. n + 1 : /\ k \in Newlines(V, n + 1) <=> k \in Newlines(V, n) \/ (k = n + 1 /\ V[n + 1].ch = LF)
                            /\ k \in Returns(V, n + 1) <=> \/ k \in Returns(V, n)
                                                           \/ k = n /\ V[n].ch = CR /\ V[n + 1].ch # LF
  <2> SUFFICES ASSUME NEW k \in 1 .. n + 1
               PROVE  /\ k \in Newlines(V, n + 1) <=> k \in Newlines(V, n) \/ (k = n + 1 /\ V[n + 1].ch = LF)
                      /\ k \in Returns(V, n + 1) <=> \/ k \in Returns(V, n)
                                                     \/ k = n /\ V[n].ch = CR /\ V[n + 1].ch # LF
    OBVIOUS
  <2>1. CASE k = n + 1
    BY <1>1, <1>2, <2>1
  <2>2. CASE k = n
    BY <1>1, <1>2, <2>2
  <2>3. CASE k < n
    BY <1>1, <1>2, <2>3
  <2> QED
    BY <2>1, <2>2, <2>3
<1>5. \A k \in 1 .. n + 1 : /\ k - 1 \in Newlines(V, n + 1) <=> k # 1 /\ V[k - 1].ch = LF
                            /\ k - 1 \in Newlines(V, n) <=> k # 1 /\ k <= n + 1 /\ V[k - 1].ch = LF
  BY DEF Newlines
<1>6. \A k \in 1 .. n + 1 : k \in Cuts(V, n + 1) <=>
                     \/ k \in Cuts(V, n)
                     \/ k = n + 1 /\ V[n + 1].ch = LF
                     \/ k = n /\ (n # 0 /\ V[n].ch = CR /\ V[n + 1].ch # LF)
  BY <1>4 DEF Cuts
<1>7. \A k \in 1 .. n + 1 : k \in Shown(V, n + 1) <=>
                     \/ k \in Shown(V, n)
                     \/ k = n + 1 /\ V[n + 1].ch = LF
                     \/ k = n /\ (n # 0 /\ V[n].ch = CR /\ V[n + 1].ch # LF) /\ n # 1 /\ V[n - 1].ch # LF
  BY <1>4, <1>5 DEF Shown
<1>8. /\ Cuts(V, n) \subseteq 1 .. n /\ Cuts(V, n + 1) \subseteq 1 .. n + 1
      /\ Shown(V, n) \subseteq 1 .. n /\ Shown(V, n + 1) \subseteq 1 .. n + 1
  BY <1>3 DEF Cuts, Shown
<1>9. n \in Cuts(V, n) <=> n # 0 /\ V[n].ch = LF
  <2>1. n \in Newlines(V, n) <=> n # 0 /\ V[n].ch = LF
    BY DEF Newlines
  <2>2. n \notin Returns(V, n)
    BY DEF Returns
  <2> QED
    BY <2>1, <2>2 DEF Cuts
<1> QED
  BY <1>6, <1>7, <1>8, <1>9

\* What is shown stays shown.
LEMMA ShowsOn ==
    ASSUME NEW V \in Seq(Chars), NEW n \in Nat, n < Len(V), NEW i \in 1 .. n, NEW x, NEW done,
           Shows(x, V, n, i, done)
    PROVE  Shows(x, V, n + 1, i, done)
<1>1. ASSUME NEW from \in 0 .. i - 1, Begins(V, n, from, i) PROVE Begins(V, n + 1, from, i)
  <2>1. from \in Cuts(V, n) \cup {0} /\ \A k \in from + 1 .. i - 1 : k \notin Cuts(V, n)
    BY <1>1 DEF Begins
  <2>2. from \in Cuts(V, n + 1) \cup {0}
    <3>1. from = 0 \/ from \in 1 .. n + 1
      OBVIOUS
    <3> QED
      BY <2>1, <3>1, CutsGrow
  <2>3. ASSUME NEW k \in from + 1 .. i - 1 PROVE k \notin Cuts(V, n + 1)
    <3>1. k \in 1 .. n + 1 /\ k # n /\ k # n + 1
      OBVIOUS
    <3> QED
      BY <2>1, <3>1, CutsGrow
  <2> QED
    BY <2>2, <2>3 DEF Begins
<1> QED
  BY <1>1 DEF Shows

\* The lines that n visible characters show have been handed on.
LineShown(V, n, out, i) == Shows(out[Cardinality(Shown(V, n) \cap 1 .. i)], V, n, i, V[i].ch = LF)
Reported(V, n, out) ==
    /\ Len(out) = Cardinality(Shown(V, n))
    /\ \A i \in Shown(V, n) : LineShown(V, n, out, i)

\* One more element after all others of a set of numbers.
LEMMA LastCounted ==
    ASSUME NEW S, NEW i \in Nat \ {0}, S \subseteq 1 .. i, i \notin S
    PROVE  /\ Cardinality(S) \in Nat
           /\ Cardinality(S \cup {i}) = Cardinality(S) + 1
           /\ (S \cup {i}) \cap 1 .. i = S \cup {i}
           /\ \A k \in S : (S \cup {i}) \cap 1 .. k = S \cap 1 .. k
           /\ \A k \in S : Cardinality(S \cap 1 .. k) \in 1 .. Cardinality(S)
<1>1. IsFiniteSet(S)
  <2>1. IsFiniteSet(1 .. i)
    <3>1. 1 \in Int /\ i \in Int
      OBVIOUS
    <3> QED
      BY <3>1, FS_Interval
  <2> QED
    BY <2>1, FS_Subset
<1>2. Cardinality(S) \in Nat /\ Cardinality(S \cup {i}) = Cardinality(S) + 1
  BY <1>1, FS_AddElement, FS_CardinalityType
<1>3. \A k \in S : (S \cup {i}) \cap 1 .. k = S \cap 1 .. k
  OBVIOUS
<1>4. ASSUME NEW k \in S PROVE Cardinality(S \cap 1 .. k) \in 1 .. Cardinality(S)
  <2> DEFINE T == S \cap 1 .. k
  <2>1. T \subseteq S /\ k \in T
    OBVIOUS
  <2> HIDE DEF T
  <2>2. IsFiniteSet(T) /\ Cardinality(T) \in Nat /\ Cardinality(T) <= Cardinality(S)
    BY <1>1, <2>1, FS_Subset, FS_CardinalityType
  <2>3. Cardinality(T) # 0
    BY <2>1, <2>2, FS_EmptySet
  <2> QED
    BY <1>2, <2>2, <2>3 DEF T
<1>5. (S \cup {i}) \cap 1 .. i = S \cup {i}
  <2>1. i \in 1 .. i
    OBVIOUS
  <2> QED
    BY <2>1
<1> QED
  BY <1>2, <1>3, <1>4, <1>5

LEMMA NothingShown ==
    ASSUME NEW V \in Seq(Chars), NEW n \in Nat, n < Len(V), NEW out, Reported(V, n, out),
           Shown(V, n + 1) = Shown(V, n)
    PROVE  Reported(V, n + 1, out)
<1>1. Shown(V, n) \subseteq 1 .. n
  BY CutsGrow
<1>2. Len(out) = Cardinality(Shown(V, n + 1)) /\ \A i \in Shown(V, n) : LineShown(V, n, out, i)
  BY DEF Reported
<1>3. ASSUME NEW i \in Shown(V, n) PROVE LineShown(V, n + 1, out, i)
  <2> DEFINE x == out[Cardinality(Shown(V, n) \cap 1 .. i)]
             done == V[i].ch = LF
  <2>1. Shows(x, V, n, i, done)
    BY <1>2 DEF LineShown
  <2>2. i \in 1 .. n
    BY <1>1
  <2> HIDE DEF x, done
  <2>3. Shows(x, V, n + 1, i, done)
    BY <2>1, <2>2, ShowsOn
  <2> QED
    BY <2>3 DEF LineShown, x, done
<1> QED
  BY <1>2, <1>3 DEF Reported

LEMMA OneShown ==
    ASSUME NEW V \in Seq(Chars), NEW n \in Nat, n < Len(V), NEW X, NEW out \in Seq(X), NEW line \in X,
           Reported(V, n, out),
           NEW e \in Nat, e # 0, e \notin Shown(V, n), Shown(V, n) \subseteq 1 .. e,
           Shown(V, n + 1) = Shown(V, n) \cup {e},
           Shows(line, V, n + 1, e, V[e].ch = LF)
    PROVE  Reported(V, n + 1, Append(out, line))
<1> DEFINE S == Shown(V, n)
           T == Shown(V, n + 1)
           all == Append(out, line)
<1>1. Len(out) = Cardinality(S) /\ \A i \in S : LineShown(V, n, out, i)
  BY DEF Reported
<1>2. /\ Cardinality(S) \in Nat /\ Cardinality(T) = Cardinality(S) + 1 /\ T \cap 1 .. e = T
      /\ \A k \in S : T \cap 1 .. k = S \cap 1 .. k
      /\ \A k \in S : Cardinality(S \cap 1 .. k) \in 1 .. Cardinality(S)
  <2>1. e \in Nat \ {0} /\ T = S \cup {e}
    OBVIOUS
  <2> HIDE DEF S, T
  <2>2. S \subseteq 1 .. e /\ e \notin S
    BY DEF S
  <2>3. /\ Cardinality(S) \in Nat /\ Cardinality(S \cup {e}) = Cardinality(S) + 1
        /\ (S \cup {e}) \cap 1 .. e = S \cup {e}
        /\ \A k \in S : (S \cup {e}) \cap 1 .. k = S \cap 1 .. k
        /\ \A k \in S : Cardinality(S \cap 1 .. k) \in 1 .. Cardinality(S)
    BY <2>1, <2>2, LastCounted
  <2> QED
    BY <2>1, <2>3, Zenon
<1>3. S \subseteq 1 .. n
  BY CutsGrow
<1>4. /\ Len(all) = Cardinality(S) + 1 /\ all[Cardinality(S) + 1] = line
      /\ \A k \in 1 .. Cardinality(S) : all[k] = out[k]
  <2> HIDE DEF S, T
  <2> QED
    BY <1>1, <1>2
<1> HIDE DEF S, T, all
<1>5. ASSUME NEW i \in S PROVE LineShown(V, n + 1, all, i)
  <2> DEFINE x == out[Cardinality(S \cap 1 .. i)]
             done == V[i].ch = LF
  <2>1. Shows(x, V, n, i, done)
    BY <1>1 DEF LineShown, S
  <2>2. i \in 1 .. n
    BY <1>3
  <2>3. all[Cardinality(T \cap 1 .. i)] = x
    BY <1>2, <1>4
  <2> HIDE DEF x, done
  <2>4. Shows(x, V, n + 1, i, done)
    BY <2>1, <2>2, ShowsOn
  <2> QED
    BY <2>3, <2>4 DEF LineShown, T, done
<1>6. LineShown(V, n + 1, all, e)
  <2>1. all[Cardinality(T \cap 1 .. e)] = line
    BY <1>2, <1>4
  <2> QED
    BY <2>1 DEF LineShown, T
<1>7. \A i \in T : i \in S \/ i = e
  BY DEF S, T
<1>8. Reported(V, n + 1, all)
  BY <1>1, <1>2, <1>4, <1>5, <1>6, <1>7 DEF Reported, T
<1> QED
  BY <1>8 DEF all

\* A reader of log frames.
OutLines == [stream : {"stdout", "stderr"}, text : Seq(Int), complete : BOOLEAN]
LogReaders == [tty : BOOLEAN, frames : Seq(Int), ansi : Seq(Int), crPending : BOOLEAN, line : Seq(Int),
               hasPending : BOOLEAN, stream : {"stdout", "stderr"}, out : Seq(OutLines)]

\* The characters a + 1 to e of what is visible, without their streams.
Part(V, a, e) == [k \in 1 .. e - a |-> V[a + k].ch]

\* The line that is open after e characters, of the first n: it began after a.
Open(V, n, e, a) ==
    a \in Cuts(V, n) \cup {0} /\ a \in 0 .. e /\ \A k \in a + 1 .. e : k \notin Cuts(V, n)

\* Whether the last of e characters leaves something pending.
Pending(V, e) == e # 0 /\ V[e].ch # LF

\* The first n visible characters have been dealt with.
LineAt(V, n, e, q) ==
    \E a \in 0 .. e : /\ Open(V, n, e, a)
                      /\ q.line = Part(V, a, e)
                      /\ e > a => q.stream = V[a + 1].stream
LinesAt(V, n, r) ==
    /\ r \in LogReaders
    /\ Reported(V, n, r.out)
    /\ r.crPending <=> n # 0 /\ V[n].ch = CR
    /\ LET e == IF r.crPending THEN n - 1 ELSE n IN
       /\ r.hasPending <=> Pending(V, e)
       /\ LineAt(V, n, e, r)

LEMMA PartShapeOf ==
    ASSUME NEW V \in Seq(Chars), NEW e \in Nat, e <= Len(V), NEW a \in 0 .. e
    PROVE  /\ Part(V, a, e) \in Seq(Int) /\ Len(Part(V, a, e)) = e - a
           /\ Part(V, a, e) # <<>> => e > a
           /\ e = a => Part(V, a, e) = <<>>
           /\ e < Len(V) => Append(Part(V, a, e), V[e + 1].ch) = Part(V, a, e + 1)
<1> DEFINE p == Part(V, a, e)
           q == Append(p, V[e + 1].ch)
<1>0. a \in Nat /\ a <= e /\ e - a \in Nat /\ Len(V) \in Nat
  OBVIOUS
<1>1. \A k \in 1 .. e - a : V[a + k].ch \in Int
  <2> SUFFICES ASSUME NEW k \in 1 .. e - a PROVE V[a + k].ch \in Int
    OBVIOUS
  <2>1. a + k \in 1 .. Len(V)
    BY <1>0
  <2>2. V[a + k] \in Chars
    BY <2>1
  <2> QED
    BY <2>2 DEF Chars
<1>2. p \in Seq(Int) /\ Len(p) = e - a /\ \A k \in 1 .. e - a : p[k] = V[a + k].ch
  BY <1>0, <1>1 DEF Part
<1> HIDE DEF p
<1>3. p # <<>> => e > a
  <2> SUFFICES ASSUME ~(e > a) PROVE p = <<>>
    OBVIOUS
  <2>1. Len(p) = 0
    BY <1>0, <1>2
  <2> QED
    BY <1>2, <2>1
<1>4. e = a => p = <<>>
  BY <1>2
<1>5. ASSUME e < Len(V) PROVE q = Part(V, a, e + 1)
  <2> DEFINE u == Part(V, a, e + 1)
  <2>0. V[e + 1].ch \in Int
    <3>1. e + 1 \in 1 .. Len(V)
      BY <1>0, <1>5
    <3>2. V[e + 1] \in Chars
      BY <3>1
    <3> QED
      BY <3>2 DEF Chars
  <2>1. u \in Seq(Int) /\ Len(u) = (e + 1) - a /\ \A k \in 1 .. (e + 1) - a : u[k] = V[a + k].ch
    <3>1. \A k \in 1 .. (e + 1) - a : V[a + k].ch \in Int
      <4> SUFFICES ASSUME NEW k \in 1 .. (e + 1) - a PROVE V[a + k].ch \in Int
        OBVIOUS
      <4>1. CASE k \in 1 .. e - a
        BY <1>1, <4>1
      <4>2. CASE k = (e + 1) - a
        <5>1. a + k = e + 1
          BY <1>0, <4>2
        <5> QED
          BY <2>0, <5>1
      <4> QED
        BY <1>0, <4>1, <4>2
    <3>2. (e + 1) - a \in Nat
      BY <1>0
    <3> QED
      BY <3>1, <3>2 DEF Part
  <2>2. /\ q \in Seq(Int) /\ Len(q) = (e - a) + 1 /\ q[(e - a) + 1] = V[e + 1].ch
        /\ \A k \in 1 .. e - a : q[k] = p[k]
    BY <1>0, <1>2, <2>0
  <2> HIDE DEF q, u
  <2>3. ASSUME NEW k \in 1 .. (e + 1) - a PROVE q[k] = u[k]
    <3>1. CASE k \in 1 .. e - a
      BY <1>2, <2>1, <2>2, <3>1
    <3>2. CASE k = (e - a) + 1
      <4>1. a + k = e + 1
        BY <1>0, <3>2
      <4> QED
        BY <2>1, <2>2, <3>2, <4>1
    <3> QED
      BY <1>0, <3>1, <3>2
  <2>4. Len(q) = Len(u) /\ \A k \in 1 .. Len(u) : q[k] = u[k]
    <3>1. (e - a) + 1 = (e + 1) - a
      BY <1>0
    <3> QED
      BY <2>1, <2>2, <2>3, <3>1
  <2>5. q = u
    BY <2>1, <2>2, <2>4, SameSequence
  <2> QED
    BY <2>5 DEF u
<1> QED
  BY <1>2, <1>3, <1>4, <1>5 DEF p, q

\* What is open has no newline at its end.
LEMMA OpenEnd ==
    ASSUME NEW V \in Seq(Chars), NEW n \in Nat, n < Len(V), NEW e \in Nat, e <= n, NEW a, Open(V, n, e, a), a < e
    PROVE  V[e].ch # LF /\ Pending(V, e)
<1>1. a \in Nat /\ e \in a + 1 .. e /\ e \in 1 .. n
  BY DEF Open
<1>2. e \notin Cuts(V, n)
  BY <1>1 DEF Open
<1>3. V[e].ch = LF => e \in Newlines(V, n)
  BY <1>1 DEF Newlines
<1> QED
  BY <1>1, <1>2, <1>3 DEF Cuts, Pending

\* What is open for n characters is open for one more, if it does not end there.
LEMMA OpenOn ==
    ASSUME NEW V \in Seq(Chars), NEW n \in Nat, n < Len(V), NEW e \in Nat, e <= n,
           NEW d \in Nat, e <= d, d <= n + 1, NEW a, Open(V, n, e, a),
           \A k \in e + 1 .. d : k \notin Cuts(V, n + 1),
           n \in a + 1 .. e => n \notin Cuts(V, n + 1)
    PROVE  Open(V, n + 1, d, a)
<1>1. a \in Cuts(V, n) \cup {0} /\ a \in 0 .. e /\ \A k \in a + 1 .. e : k \notin Cuts(V, n)
  BY DEF Open
<1>2. a \in 0 .. d
  BY <1>1
<1>3. a \in Cuts(V, n + 1) \cup {0}
  <2>1. a = 0 \/ a \in 1 .. n + 1
    BY <1>1
  <2> QED
    BY <1>1, <2>1, CutsGrow
<1>4. ASSUME NEW k \in a + 1 .. d PROVE k \notin Cuts(V, n + 1)
  <2>1. CASE k \in e + 1 .. d
    BY <2>1
  <2>2. CASE k \in a + 1 .. e
    <3>1. CASE k = n
      BY <2>2, <3>1
    <3>3. CASE k # n
      <4>1. k \in 1 .. n + 1 /\ k # n + 1
        BY <1>1, <2>2
      <4>2. k \notin Cuts(V, n)
        BY <1>1, <2>2
      <4> QED
        BY <3>3, <4>1, <4>2, CutsGrow
    <3> QED
      BY <3>1, <3>3
  <2> QED
    BY <1>1, <2>1, <2>2
<1> QED
  BY <1>2, <1>3, <1>4 DEF Open

\* A line that is shown ends where the open one does.
LEMMA ShowsOpen ==
    ASSUME NEW V \in Seq(Chars), NEW n \in Nat, n <= Len(V), NEW i \in 1 .. n + 1, NEW e \in 0 .. i - 1, NEW a, NEW x, NEW done,
           Open(V, n, i - 1, a) \/ (a \in 0 .. i - 1 /\ Begins(V, n, a, i)),
           a <= e,
           e = IF a < i - 1 /\ V[i - 1].ch = CR THEN i - 2 ELSE i - 1,
           x.text = Part(V, a, e), x.complete = done,
           x.text # <<>> => x.stream = V[a + 1].stream
    PROVE  Shows(x, V, n, i, done)
<1>1. a \in 0 .. i - 1 /\ Begins(V, n, a, i)
  BY DEF Open, Begins
<1> QED
  BY <1>1 DEF Shows, Part

\* closePendingLine() at a newline.
CloseAt(V, n, e, q) ==
    /\ V \in Seq(Chars) /\ n \in Nat /\ n < Len(V) /\ V[n + 1].ch = LF
    /\ q \in LogReaders /\ q.crPending = FALSE /\ Reported(V, n, q.out)
    /\ (e = n /\ ~(n # 0 /\ V[n].ch = CR)) \/ (e = n - 1 /\ n # 0 /\ V[n].ch = CR)
    /\ q.hasPending <=> Pending(V, e)
    /\ LineAt(V, n, e, q)

LEMMA CloseStep ==
    ASSUME NEW V, NEW n, NEW e, NEW q, CloseAt(V, n, e, q), NEW st \in {"stdout", "stderr"}
    PROVE  LinesAt(V, n + 1, ClosePendingLine(q, st))
<1>1. /\ V \in Seq(Chars) /\ n \in Nat /\ n < Len(V) /\ V[n + 1].ch = LF /\ Len(V) \in Nat
      /\ q \in LogReaders /\ Reported(V, n, q.out)
      /\ (e = n /\ ~(n # 0 /\ V[n].ch = CR)) \/ (e = n - 1 /\ n # 0 /\ V[n].ch = CR)
      /\ q.hasPending <=> Pending(V, e)
  BY DEF CloseAt
<1>0. q.crPending = FALSE
  BY DEF CloseAt
<1>2. PICK a \in 0 .. e : /\ Open(V, n, e, a)
                          /\ q.line = Part(V, a, e)
                          /\ e > a => q.stream = V[a + 1].stream
  BY DEF CloseAt, LineAt
<1>3. e \in Nat /\ e <= n /\ n + 1 \in 1 .. (n + 1) + 1 /\ e \in 0 .. (n + 1) - 1 /\ n + 1 <= Len(V)
  BY <1>1
<1> DEFINE line == [stream |-> IF q.hasPending THEN q.stream ELSE st, text |-> q.line, complete |-> TRUE]
           t == ClosePendingLine(q, st)
           nothing == <<>>
<1>4. t = [q EXCEPT !.out = Append(q.out, line), !.line = nothing, !.hasPending = FALSE]
  BY DEF ClosePendingLine
<1>5. line \in OutLines /\ line.text = q.line /\ line.complete = TRUE
      /\ line.stream = IF q.hasPending THEN q.stream ELSE st
  BY <1>1 DEF OutLines, LogReaders
<1>6. nothing \in Seq(Int)
  OBVIOUS
<1> HIDE DEF line, t, nothing
<1>7. q.out \in Seq(OutLines) /\ Append(q.out, line) \in Seq(OutLines)
  <2>1. q.out \in Seq(OutLines)
    BY <1>1 DEF LogReaders
  <2> QED
    BY <1>5, <2>1
<1>8. /\ t \in LogReaders /\ t.out = Append(q.out, line) /\ t.line = nothing /\ t.hasPending = FALSE
      /\ t.crPending = q.crPending
  BY <1>1, <1>4, <1>6, <1>7 DEF LogReaders
<1>9. \A k \in e + 1 .. n : k \notin Cuts(V, n + 1)
  <2> SUFFICES ASSUME NEW k \in e + 1 .. n PROVE k \notin Cuts(V, n + 1)
    OBVIOUS
  <2>1. k = n /\ n # 0 /\ V[n].ch = CR /\ k # n + 1 /\ k \in 1 .. n + 1
    BY <1>1, <1>3
  <2>2. k \notin Cuts(V, n)
    <3>1. CR # LF
      BY DEF CR, LF
    <3> QED
      BY <1>1, <2>1, <3>1, CutsGrow
  <2> QED
    BY <1>1, <2>1, <2>2, CutsGrow
<1>10. n \in a + 1 .. e => n \notin Cuts(V, n + 1)
  <2> SUFFICES ASSUME n \in a + 1 .. e PROVE n \notin Cuts(V, n + 1)
    OBVIOUS
  <2>1. e = n /\ ~(n # 0 /\ V[n].ch = CR) /\ n \notin Cuts(V, n) /\ n \in 1 .. n + 1 /\ n # n + 1
    BY <1>1, <1>2, <1>3 DEF Open
  <2> QED
    BY <1>1, <2>1, CutsGrow
<1>11. Open(V, n + 1, n, a)
  BY <1>1, <1>2, <1>3, <1>9, <1>10, OpenOn
<1>12. Shows(line, V, n + 1, n + 1, V[n + 1].ch = LF)
  <2> DEFINE done == V[n + 1].ch = LF
             i == n + 1
  <2>1. line.complete = done
    BY <1>1, <1>5
  <2>2. line.text # <<>> => line.stream = V[a + 1].stream
    <3> SUFFICES ASSUME line.text # <<>> PROVE line.stream = V[a + 1].stream
      OBVIOUS
    <3>1. e > a
      <4>1. e <= Len(V)
        BY <1>1, <1>3
      <4> QED
        BY <1>1, <1>2, <1>3, <1>5, <4>1, PartShapeOf
    <3>2. Pending(V, e)
      BY <1>1, <1>2, <1>3, <3>1, OpenEnd
    <3>3. q.hasPending
      BY <1>1, <3>2
    <3> QED
      BY <1>2, <1>5, <3>1, <3>3
  <2>3. e = IF a < i - 1 /\ V[i - 1].ch = CR THEN i - 2 ELSE i - 1
    <3>1. i - 1 = n /\ i - 2 = n - 1 /\ a \in Nat /\ a <= e
      BY <1>1, <1>2, <1>3
    <3>2. CASE e = n /\ ~(n # 0 /\ V[n].ch = CR)
      <4>1. ~(a < n /\ V[n].ch = CR)
        BY <1>1, <3>1, <3>2
      <4> QED
        BY <3>1, <3>2, <4>1
    <3>3. CASE e = n - 1 /\ n # 0 /\ V[n].ch = CR
      <4>1. a < n
        BY <1>1, <3>1, <3>3
      <4> QED
        BY <3>1, <3>3, <4>1
    <3> QED
      BY <1>1, <3>2, <3>3
  <2>4. i \in 1 .. (n + 1) + 1 /\ e \in 0 .. i - 1 /\ n + 1 \in Nat /\ n + 1 <= Len(V) /\ a <= e /\ i - 1 = n
    BY <1>1, <1>2, <1>3
  <2>5. line.text = Part(V, a, e) /\ Open(V, n + 1, i - 1, a)
    BY <1>2, <1>5, <1>11, <2>4
  <2> HIDE DEF done, i
  <2>6. Shows(line, V, n + 1, i, done)
    BY <1>1, <2>1, <2>2, <2>3, <2>4, <2>5, ShowsOpen
  <2> QED
    BY <2>6 DEF i, done
<1>13. /\ Shown(V, n) \subseteq 1 .. n /\ n + 1 \notin Shown(V, n) /\ Shown(V, n) \subseteq 1 .. n + 1
       /\ Shown(V, n + 1) = Shown(V, n) \cup {n + 1}
  <2>1. /\ Shown(V, n) \subseteq 1 .. n /\ Shown(V, n + 1) \subseteq 1 .. n + 1
        /\ \A k \in 1 .. n + 1 : k \in Shown(V, n + 1) <=> k \in Shown(V, n) \/ k = n + 1
    BY <1>1, CutsGrow
  <2>2. n + 1 \notin 1 .. n /\ 1 .. n \subseteq 1 .. n + 1 /\ n + 1 \in 1 .. n + 1
    BY <1>1
  <2> QED
    BY <2>1, <2>2
<1>14. Reported(V, n + 1, t.out)
  <2>1. n + 1 \in Nat /\ n + 1 # 0
    BY <1>1
  <2>2. q.out \in Seq(OutLines)
    BY <1>7
  <2>3. Reported(V, n + 1, Append(q.out, line))
    BY <1>1, <1>5, <1>12, <1>13, <2>1, <2>2, OneShown
  <2> QED
    BY <1>8, <2>3
<1>15. LineAt(V, n + 1, n + 1, t) /\ ~Pending(V, n + 1)
  <2>1. n + 1 \in Cuts(V, n + 1)
    <3>1. n + 1 \in 1 .. n + 1
      BY <1>1
    <3> QED
      BY <1>1, <3>1, CutsGrow
  <2>2. n + 1 \in 0 .. n + 1 /\ ~(n + 1 > n + 1) /\ \A k \in (n + 1) + 1 .. n + 1 : FALSE
    BY <1>1
  <2>3. Open(V, n + 1, n + 1, n + 1)
    BY <2>1, <2>2 DEF Open
  <2>4. t.line = Part(V, n + 1, n + 1)
    <3>1. n + 1 \in Nat /\ n + 1 \in 0 .. n + 1
      BY <1>1
    <3>2. Part(V, n + 1, n + 1) = <<>>
      BY <1>1, <1>3, <3>1, PartShapeOf
    <3> QED
      BY <1>8, <3>2 DEF nothing
  <2> QED
    BY <1>1, <2>2, <2>3, <2>4 DEF LineAt, Pending
<1>16. LinesAt(V, n + 1, t)
  <2>1. t.crPending = FALSE /\ ~t.crPending
    BY <1>0, <1>8
  <2>2. ~(V[n + 1].ch = CR)
    BY <1>1 DEF CR, LF
  <2>3. t.hasPending = FALSE /\ ~t.hasPending
    BY <1>8
  <2>4. t.hasPending <=> Pending(V, n + 1)
    BY <1>15, <2>3
  <2>5. t.crPending <=> n + 1 # 0 /\ V[n + 1].ch = CR
    BY <2>1, <2>2
  <2> DEFINE d == IF t.crPending THEN (n + 1) - 1 ELSE n + 1
  <2>6. d = n + 1
    BY <2>1
  <2> QED
    BY <1>8, <1>14, <1>15, <2>4, <2>5, <2>6 DEF LinesAt
<1> QED
  BY <1>16 DEF t

\* A character that is no newline, when what was pending is decided.
Decided(V, n, q) ==
    /\ V \in Seq(Chars) /\ n \in Nat /\ n < Len(V) /\ V[n + 1].ch # LF
    /\ q \in LogReaders /\ q.crPending = FALSE /\ Reported(V, n + 1, q.out)
    /\ q.hasPending <=> Pending(V, n)
    /\ \E a \in 0 .. n : /\ Open(V, n + 1, n, a)
                         /\ q.line = Part(V, a, n)
                         /\ q.hasPending => q.stream = V[a + 1].stream

Kept(q, st, ch) ==
    IF ch = CR THEN [q EXCEPT !.crPending = TRUE]
    ELSE [q EXCEPT !.line = Append(@, ch), !.hasPending = TRUE,
                   !.stream = IF q.hasPending THEN @ ELSE st]

LEMMA KeepStep ==
    ASSUME NEW V, NEW n, NEW q, Decided(V, n, q)
    PROVE  LinesAt(V, n + 1, Kept(q, V[n + 1].stream, V[n + 1].ch))
<1>1. /\ V \in Seq(Chars) /\ n \in Nat /\ n < Len(V) /\ V[n + 1].ch # LF /\ Len(V) \in Nat
      /\ q \in LogReaders /\ Reported(V, n + 1, q.out)
      /\ q.hasPending <=> Pending(V, n)
  BY DEF Decided
<1>2. q.crPending = FALSE
  BY DEF Decided
<1>3. PICK a \in 0 .. n : /\ Open(V, n + 1, n, a)
                          /\ q.line = Part(V, a, n)
                          /\ q.hasPending => q.stream = V[a + 1].stream
  BY DEF Decided
<1>4. V[n + 1] \in Chars /\ V[n + 1].ch \in Int /\ V[n + 1].stream \in {"stdout", "stderr"}
  <2>1. n + 1 \in 1 .. Len(V)
    BY <1>1
  <2>2. V[n + 1] \in Chars
    BY <1>1, <2>1
  <2> QED
    BY <2>2 DEF Chars
<1>5. a < n => Pending(V, n)
  <2> SUFFICES ASSUME a < n PROVE Pending(V, n)
    OBVIOUS
  <2>1. n \in a + 1 .. n /\ n \in 1 .. n + 1 /\ n # 0
    BY <1>1, <1>3
  <2>2. n \notin Cuts(V, n + 1)
    BY <1>3, <2>1 DEF Open
  <2>3. n \notin Cuts(V, n)
    BY <1>1, <2>1, <2>2, CutsGrow
  <2> QED
    BY <1>1, <2>1, <2>3, CutsGrow DEF Pending
<1> DEFINE st == V[n + 1].stream
           ch == V[n + 1].ch
           t == Kept(q, st, ch)
<1>6. CASE ch = CR
  <2>1. t = [q EXCEPT !.crPending = TRUE]
    BY <1>6 DEF Kept
  <2> HIDE DEF t
  <2>2. /\ t \in LogReaders /\ t.out = q.out /\ t.line = q.line /\ t.stream = q.stream
        /\ t.hasPending = q.hasPending
    BY <1>1, <2>1 DEF LogReaders
  <2>3. t.crPending = TRUE
    BY <1>1, <2>1 DEF LogReaders
  <2>4. LineAt(V, n + 1, n, t)
    <3>1. n > a => t.stream = V[a + 1].stream
      <4> SUFFICES ASSUME n > a PROVE t.stream = V[a + 1].stream
        OBVIOUS
      <4>1. a < n
        BY <1>1, <1>3
      <4>2. q.hasPending
        BY <1>1, <1>5, <4>1
      <4> QED
        BY <1>3, <2>2, <4>2
    <3> QED
      BY <1>3, <2>2, <3>1 DEF LineAt
  <2>5. t.crPending <=> n + 1 # 0 /\ V[n + 1].ch = CR
    BY <1>1, <1>6, <2>3
  <2>6. t.hasPending <=> Pending(V, n)
    BY <1>1, <2>2
  <2> DEFINE d == IF t.crPending THEN (n + 1) - 1 ELSE n + 1
  <2>7. d = n
    BY <1>1, <2>3
  <2>8. Reported(V, n + 1, t.out)
    BY <1>1, <2>2
  <2>9. LinesAt(V, n + 1, t)
    BY <2>2, <2>4, <2>5, <2>6, <2>7, <2>8 DEF LinesAt
  <2> QED
    BY <2>9 DEF t
<1>7. CASE ch # CR
  <2> DEFINE line == Append(q.line, ch)
             name == IF q.hasPending THEN q.stream ELSE st
  <2>1. t = [q EXCEPT !.line = line, !.hasPending = TRUE, !.stream = name]
    BY <1>7 DEF Kept
  <2>2. line = Part(V, a, n + 1)
    <3>1. n <= Len(V)
      BY <1>1
    <3> QED
      BY <1>1, <1>3, <3>1, PartShapeOf
  <2>3. line \in Seq(Int)
    <3>1. n + 1 \in Nat /\ n + 1 <= Len(V) /\ a \in 0 .. n + 1
      BY <1>1, <1>3
    <3> QED
      BY <1>1, <2>2, <3>1, PartShapeOf
  <2>4. name \in {"stdout", "stderr"} /\ name = V[a + 1].stream
    <3>1. CASE q.hasPending
      <4>1. name = q.stream
        BY <3>1
      <4>2. q.stream \in {"stdout", "stderr"}
        BY <1>1 DEF LogReaders
      <4> QED
        BY <1>3, <3>1, <4>1, <4>2
    <3>2. CASE ~q.hasPending
      <4>1. name = st
        BY <3>2
      <4>2. a = n
        <5>1. ~(a < n)
          BY <1>1, <1>5, <3>2
        <5> QED
          BY <1>1, <1>3, <5>1
      <4> QED
        BY <1>4, <4>1, <4>2
    <3> QED
      BY <3>1, <3>2
  <2> HIDE DEF t, line, name
  <2>5. /\ t \in LogReaders /\ t.out = q.out /\ t.line = line /\ t.stream = name
        /\ t.crPending = q.crPending
    BY <1>1, <2>1, <2>3, <2>4 DEF LogReaders
  <2>6. t.hasPending = TRUE
    BY <1>1, <2>1 DEF LogReaders
  <2>7. Pending(V, n + 1)
    BY <1>1 DEF Pending
  <2>8. Open(V, n + 1, n + 1, a)
    <3>1. a \in Cuts(V, n + 1) \cup {0} /\ a \in 0 .. n + 1 /\ \A k \in a + 1 .. n : k \notin Cuts(V, n + 1)
      BY <1>1, <1>3 DEF Open
    <3>2. n + 1 \notin Cuts(V, n + 1)
      <4>1. n + 1 \notin Cuts(V, n) /\ n + 1 \in 1 .. n + 1 /\ n + 1 # n
        <5>1. n + 1 \notin 1 .. n /\ n + 1 \in 1 .. n + 1 /\ n + 1 # n
          BY <1>1
        <5> QED
          BY <1>1, <5>1, CutsGrow
      <4> QED
        BY <1>1, <4>1, CutsGrow
    <3>3. \A k \in a + 1 .. n + 1 : k = n + 1 \/ k \in a + 1 .. n
      BY <1>1, <1>3
    <3> QED
      BY <3>1, <3>2, <3>3 DEF Open
  <2>9. LineAt(V, n + 1, n + 1, t)
    <3>1. a \in 0 .. n + 1
      BY <2>8 DEF Open
    <3> QED
      BY <2>2, <2>4, <2>5, <2>8, <3>1 DEF LineAt
  <2>10. ~t.crPending
    BY <1>2, <2>5
  <2>11. t.crPending <=> n + 1 # 0 /\ V[n + 1].ch = CR
    BY <1>7, <2>10
  <2>12. t.hasPending <=> Pending(V, n + 1)
    BY <2>6, <2>7
  <2> DEFINE d == IF t.crPending THEN (n + 1) - 1 ELSE n + 1
  <2>13. d = n + 1
    BY <2>10
  <2>14. Reported(V, n + 1, t.out)
    BY <1>1, <2>5
  <2>15. LinesAt(V, n + 1, t)
    BY <2>5, <2>9, <2>11, <2>12, <2>13, <2>14 DEF LinesAt
  <2> QED
    BY <2>15 DEF t
<1> QED
  BY <1>6, <1>7

\* Nothing was pending but a line.
LEMMA PlainStep ==
    ASSUME NEW V \in Seq(Chars), NEW n \in Nat, n < Len(V), V[n + 1].ch # LF,
           NEW r, LinesAt(V, n, r), ~r.crPending
    PROVE  Decided(V, n, [r EXCEPT !.crPending = FALSE])
<1> DEFINE q == [r EXCEPT !.crPending = FALSE]
<1>1. /\ r \in LogReaders /\ Reported(V, n, r.out)
      /\ ~(n # 0 /\ V[n].ch = CR)
      /\ r.hasPending <=> Pending(V, n)
      /\ LineAt(V, n, n, r)
  BY DEF LinesAt
<1>2. q \in LogReaders /\ q.out = r.out /\ q.line = r.line /\ q.stream = r.stream /\ q.hasPending = r.hasPending
  BY <1>1 DEF LogReaders
<1>3. q.crPending = FALSE
  BY <1>1 DEF LogReaders
<1> HIDE DEF q
<1>4. PICK a \in 0 .. n : Open(V, n, n, a) /\ r.line = Part(V, a, n) /\ (n > a => r.stream = V[a + 1].stream)
  BY <1>1 DEF LineAt
<1>5. Shown(V, n + 1) = Shown(V, n)
  <2>1. \A k \in 1 .. n + 1 : k \in Shown(V, n + 1) <=> k \in Shown(V, n)
    BY <1>1, CutsGrow
  <2>2. Shown(V, n) \subseteq 1 .. n /\ Shown(V, n + 1) \subseteq 1 .. n + 1 /\ 1 .. n \subseteq 1 .. n + 1
    <3>1. 1 .. n \subseteq 1 .. n + 1
      OBVIOUS
    <3> QED
      BY <3>1, CutsGrow
  <2> QED
    BY <2>1, <2>2
<1>6. Reported(V, n + 1, q.out)
  BY <1>1, <1>2, <1>5, NothingShown
<1>7. Open(V, n + 1, n, a)
  <2>1. n \in a + 1 .. n => n \notin Cuts(V, n + 1)
    <3> SUFFICES ASSUME n \in a + 1 .. n PROVE n \notin Cuts(V, n + 1)
      OBVIOUS
    <3>1. n \notin Cuts(V, n) /\ n \in 1 .. n + 1 /\ n # n + 1
      BY <1>4 DEF Open
    <3> QED
      BY <1>1, <3>1, CutsGrow
  <2>2. n <= n /\ n <= n + 1 /\ \A k \in n + 1 .. n : k \notin Cuts(V, n + 1)
    OBVIOUS
  <2> QED
    BY <1>4, <2>1, <2>2, OpenOn
<1>8. q.hasPending => q.stream = V[a + 1].stream
  <2> SUFFICES ASSUME q.hasPending PROVE q.stream = V[a + 1].stream
    OBVIOUS
  <2>1. Pending(V, n)
    BY <1>1, <1>2
  <2>2. n > a
    <3> SUFFICES ASSUME a = n PROVE FALSE
      BY <1>4
    <3>1. n # 0 /\ n \in Cuts(V, n)
      BY <1>4, <2>1 DEF Open, Pending
    <3> QED
      BY <2>1, <3>1, CutsGrow DEF Pending
  <2> QED
    BY <1>2, <1>4, <2>2
<1>9. q.hasPending <=> Pending(V, n)
  BY <1>1, <1>2
<1>10. Decided(V, n, q)
  BY <1>2, <1>3, <1>4, <1>6, <1>7, <1>8, <1>9 DEF Decided
<1> QED
  BY <1>10 DEF q

\* A carriage return was pending: the line that it ends is shown, and overwritten.
Overwritten(r, st) ==
    [EmitProvisionalLine([r EXCEPT !.crPending = FALSE]) EXCEPT !.line = <<>>, !.hasPending = TRUE, !.stream = st]

LEMMA OverwriteStep ==
    ASSUME NEW V \in Seq(Chars), NEW n \in Nat, n < Len(V), V[n + 1].ch # LF,
           NEW r, LinesAt(V, n, r), r.crPending
    PROVE  Decided(V, n, Overwritten(r, V[n + 1].stream))
<1> DEFINE st == V[n + 1].stream
           line == [stream |-> r.stream, text |-> r.line, complete |-> FALSE]
           q == Overwritten(r, st)
           nothing == <<>>
           out == IF r.hasPending THEN Append(r.out, line) ELSE r.out
<1>1. /\ r \in LogReaders /\ Reported(V, n, r.out)
      /\ n # 0 /\ V[n].ch = CR
      /\ r.hasPending <=> Pending(V, n - 1)
      /\ LineAt(V, n, n - 1, r)
  BY DEF LinesAt
<1>2. PICK e \in Nat : n = e + 1
  <2>1. n - 1 \in Nat /\ n = (n - 1) + 1
    BY <1>1
  <2> QED
    BY <2>1
<1>3. e = n - 1 /\ e <= n /\ e # n /\ Len(V) \in Nat /\ n <= Len(V) /\ e <= Len(V)
  BY <1>2
<1>4. PICK a \in 0 .. e : Open(V, n, e, a) /\ r.line = Part(V, a, e) /\ (e > a => r.stream = V[a + 1].stream)
  BY <1>1, <1>3 DEF LineAt
<1>5. line \in OutLines /\ line.text = r.line /\ line.stream = r.stream
  BY <1>1 DEF OutLines, LogReaders
<1>6. line.complete = FALSE
  OBVIOUS
<1>7. st \in {"stdout", "stderr"}
  <2>1. n + 1 \in 1 .. Len(V)
    OBVIOUS
  <2>2. V[n + 1] \in Chars
    BY <2>1
  <2> QED
    BY <2>2 DEF Chars
<1>8. r.out \in Seq(OutLines) /\ nothing \in Seq(Int)
  <2>1. r.out \in Seq(OutLines)
    BY <1>1 DEF LogReaders
  <2>2. nothing \in Seq(Int)
    OBVIOUS
  <2> QED
    BY <2>1, <2>2
<1>9. q = [r EXCEPT !.crPending = FALSE, !.out = out, !.line = nothing, !.hasPending = TRUE, !.stream = st]
  <2> HIDE DEF nothing, st, line
  <2> DEFINE p == [r EXCEPT !.crPending = FALSE]
  <2>1. p.hasPending = r.hasPending /\ p.out = r.out /\ p.line = r.line /\ p.stream = r.stream
    BY <1>1 DEF LogReaders
  <2>2. EmitProvisionalLine(p) = [r EXCEPT !.crPending = FALSE, !.out = out]
    <3>1. CASE r.hasPending
      <4>1. EmitProvisionalLine(p) = [p EXCEPT !.out = Append(p.out, [stream |-> p.stream, text |-> p.line, complete |-> FALSE])]
        BY <2>1, <3>1 DEF EmitProvisionalLine
      <4>2. Append(p.out, [stream |-> p.stream, text |-> p.line, complete |-> FALSE]) = out
        BY <2>1, <3>1 DEF line
      <4> QED
        BY <1>1, <4>1, <4>2 DEF LogReaders
    <3>2. CASE ~r.hasPending
      <4>1. EmitProvisionalLine(p) = p /\ out = r.out
        BY <2>1, <3>2 DEF EmitProvisionalLine
      <4> QED
        BY <1>1, <4>1 DEF LogReaders
    <3> QED
      BY <3>1, <3>2
  <2> HIDE DEF p, out
  <2>3. q = [EmitProvisionalLine(p) EXCEPT !.line = nothing, !.hasPending = TRUE, !.stream = st]
    BY DEF Overwritten, p, nothing
  <2> QED
    BY <1>1, <2>2, <2>3 DEF LogReaders
<1> HIDE DEF st, line, q, nothing
<1>10. out \in Seq(OutLines)
  <2>1. Append(r.out, line) \in Seq(OutLines)
    BY <1>5, <1>8
  <2> QED
    BY <1>8, <2>1
<1>11. Reported(V, n + 1, out)
  <2>1. /\ Shown(V, n) \subseteq 1 .. n /\ Shown(V, n + 1) \subseteq 1 .. n + 1
        /\ \A k \in 1 .. n + 1 : k \in Shown(V, n + 1) <=> k \in Shown(V, n) \/ (k = n /\ n # 1 /\ V[n - 1].ch # LF)
    BY <1>1, CutsGrow
  <2>2. Pending(V, e) <=> n # 1 /\ V[n - 1].ch # LF
    BY <1>2, <1>3 DEF Pending
  <2>3. 1 .. n \subseteq 1 .. n + 1 /\ n \in 1 .. n + 1
    BY <1>1
  <2>4. CASE r.hasPending
    <3>1. Pending(V, e)
      BY <1>1, <1>3, <2>4
    <3>2. Shown(V, n + 1) = Shown(V, n) \cup {n}
      BY <2>1, <2>2, <2>3, <3>1
    <3>3. n \notin Shown(V, n)
      <4>1. V[n].ch # LF /\ n \notin 1 .. n - 1
        BY <1>1 DEF CR, LF
      <4> QED
        BY <4>1 DEF Shown, Newlines, Returns
    <3>4. Open(V, n + 1, e, a)
      <4>1. n \notin a + 1 .. e /\ \A k \in e + 1 .. e : k \notin Cuts(V, n + 1)
        BY <1>2, <1>4
      <4>2. e <= e /\ e <= n + 1
        BY <1>2
      <4> QED
        BY <1>3, <1>4, <4>1, <4>2, OpenOn
    <3>5. ~(a < e /\ V[e].ch = CR)
      <4> SUFFICES ASSUME a < e, V[e].ch = CR PROVE FALSE
        OBVIOUS
      <4>1. e \in a + 1 .. e /\ e \in 1 .. n - 1
        BY <1>3, <1>4
      <4>2. e \in Returns(V, n)
        <5>1. CR # LF
          BY DEF CR, LF
        <5> QED
          BY <1>1, <1>2, <4>1, <5>1 DEF Returns
      <4> QED
        BY <1>4, <4>1, <4>2 DEF Open, Cuts
    <3>6. line.text # <<>> => line.stream = V[a + 1].stream
      <4> SUFFICES ASSUME line.text # <<>> PROVE line.stream = V[a + 1].stream
        OBVIOUS
      <4>1. e > a
        BY <1>3, <1>4, <1>5, PartShapeOf
      <4> QED
        BY <1>4, <1>5, <4>1
    <3>7. Shows(line, V, n + 1, n, V[n].ch = LF)
      <4> DEFINE done == V[n].ch = LF
      <4>1. line.complete = done
        <5>1. done = FALSE
          BY <1>1 DEF CR, LF
        <5> QED
          BY <1>6, <5>1
      <4>2. n \in 1 .. (n + 1) + 1 /\ e \in 0 .. n - 1 /\ n + 1 \in Nat /\ n + 1 <= Len(V) /\ n - 1 = e /\ n - 2 = e - 1 /\ a <= e
        BY <1>2, <1>3, <1>4
      <4>3. e = IF a < n - 1 /\ V[n - 1].ch = CR THEN n - 2 ELSE n - 1
        BY <3>5, <4>2
      <4>4. line.text = Part(V, a, e) /\ Open(V, n + 1, n - 1, a)
        BY <1>4, <1>5, <3>4, <4>2
      <4> HIDE DEF done
      <4>5. Shows(line, V, n + 1, n, done)
        BY <3>6, <4>1, <4>2, <4>3, <4>4, ShowsOpen
      <4> QED
        BY <4>5 DEF done
    <3>8. Reported(V, n + 1, Append(r.out, line))
      BY <1>1, <1>5, <1>8, <2>1, <3>2, <3>3, <3>7, OneShown
    <3> QED
      BY <2>4, <3>8
  <2>5. CASE ~r.hasPending
    <3>1. ~Pending(V, e)
      BY <1>1, <1>3, <2>5
    <3>2. Shown(V, n + 1) = Shown(V, n)
      BY <2>1, <2>2, <2>3, <3>1
    <3>3. Reported(V, n + 1, r.out)
      BY <1>1, <3>2, NothingShown
    <3> QED
      BY <2>5, <3>3
  <2> QED
    BY <2>4, <2>5
<1> HIDE DEF out
<1>12. /\ q \in LogReaders /\ q.out = out /\ q.line = nothing /\ q.stream = st
  BY <1>1, <1>7, <1>8, <1>9, <1>10 DEF LogReaders
<1>13. q.crPending = FALSE /\ q.hasPending = TRUE
  BY <1>1, <1>9 DEF LogReaders
<1>14. Pending(V, n)
  BY <1>1 DEF Pending, CR, LF
<1>15. Open(V, n + 1, n, n) /\ n \in 0 .. n
  <2>1. n \in Cuts(V, n + 1)
    <3>1. n \in 1 .. n + 1
      BY <1>1
    <3> QED
      BY <1>1, <3>1, CutsGrow
  <2>2. n \in 0 .. n /\ \A k \in n + 1 .. n : FALSE
    OBVIOUS
  <2> QED
    BY <2>1, <2>2 DEF Open
<1>16. q.line = Part(V, n, n)
  <2>1. Part(V, n, n) = <<>>
    BY <1>3, <1>15, PartShapeOf
  <2> QED
    BY <1>12, <2>1 DEF nothing
<1>17. q.stream = V[n + 1].stream
  BY <1>12 DEF st
<1>18. q.hasPending <=> Pending(V, n)
  BY <1>13, <1>14
<1>19. Reported(V, n + 1, q.out)
  BY <1>11, <1>12
<1>20. Decided(V, n, q)
  BY <1>12, <1>13, <1>15, <1>16, <1>17, <1>18, <1>19 DEF Decided
<1> QED
  BY <1>20 DEF q, st

LEMMA CharacterStep ==
    ASSUME NEW V \in Seq(Chars), NEW n \in Nat, n < Len(V), NEW r, LinesAt(V, n, r)
    PROVE  LinesAt(V, n + 1, AppendCharacter(r, V[n + 1].stream, V[n + 1].ch))
<1> DEFINE st == V[n + 1].stream
           ch == V[n + 1].ch
           decided == [r EXCEPT !.crPending = FALSE]
           t == AppendCharacter(r, st, ch)
<1>1. st \in {"stdout", "stderr"}
  <2>1. n + 1 \in 1 .. Len(V)
    OBVIOUS
  <2>2. V[n + 1] \in Chars
    BY <2>1
  <2> QED
    BY <2>2 DEF Chars
<1>2. CASE ch = LF
  <2>1. t = ClosePendingLine(decided, st)
    BY <1>2 DEF AppendCharacter
  <2>2. r \in LogReaders /\ Reported(V, n, r.out) /\ (r.crPending <=> n # 0 /\ V[n].ch = CR)
    BY DEF LinesAt
  <2>3. /\ decided \in LogReaders /\ decided.out = r.out /\ decided.line = r.line /\ decided.stream = r.stream
        /\ decided.hasPending = r.hasPending
    BY <2>2 DEF LogReaders
  <2>4. decided.crPending = FALSE
    BY <2>2 DEF LogReaders
  <2> HIDE DEF decided
  <2>5. PICK e : /\ (e = n /\ ~(n # 0 /\ V[n].ch = CR)) \/ (e = n - 1 /\ n # 0 /\ V[n].ch = CR)
                 /\ r.hasPending <=> Pending(V, e)
                 /\ LineAt(V, n, e, r)
    <3>1. CASE r.crPending
      BY <2>2, <3>1 DEF LinesAt
    <3>2. CASE ~r.crPending
      BY <2>2, <3>2 DEF LinesAt
    <3> QED
      BY <3>1, <3>2
  <2>6. LineAt(V, n, e, decided)
    BY <2>3, <2>5 DEF LineAt
  <2>7. decided.hasPending <=> Pending(V, e)
    BY <2>3, <2>5
  <2>8. Reported(V, n, decided.out)
    BY <2>2, <2>3
  <2>9. CloseAt(V, n, e, decided)
    BY <1>2, <2>3, <2>4, <2>5, <2>6, <2>7, <2>8 DEF CloseAt
  <2> QED
    BY <1>1, <2>1, <2>9, CloseStep
<1>3. CASE ch # LF
  <2> DEFINE q == IF r.crPending THEN Overwritten(r, st) ELSE decided
  <2>1. Decided(V, n, q)
    <3>1. CASE r.crPending
      BY <1>3, <3>1, OverwriteStep
    <3>2. CASE ~r.crPending
      BY <1>3, <3>2, PlainStep
    <3> QED
      BY <3>1, <3>2
  <2>2. t = Kept(q, st, ch)
    <3>1. q = IF r.crPending /\ ch # LF
              THEN [EmitProvisionalLine(decided) EXCEPT !.line = <<>>, !.hasPending = TRUE, !.stream = st]
              ELSE decided
      BY <1>3 DEF Overwritten
    <3> HIDE DEF q, st, ch, decided
    <3>2. t = IF ch = LF THEN ClosePendingLine(q, st)
              ELSE IF ch = CR THEN [q EXCEPT !.crPending = TRUE]
              ELSE [q EXCEPT !.line = Append(@, ch), !.hasPending = TRUE,
                             !.stream = IF q.hasPending THEN @ ELSE st]
      BY <3>1 DEF AppendCharacter, decided
    <3> QED
      BY <1>3, <3>2 DEF Kept
  <2> HIDE DEF q
  <2> QED
    BY <2>1, <2>2, KeepStep
<1> QED
  BY <1>2, <1>3

\* The other members of the reader are left alone.
SameMembers(r, t) == t.frames = r.frames /\ t.ansi = r.ansi /\ t.tty = r.tty

LEMMA CharacterKeeps ==
    ASSUME NEW r \in LogReaders, NEW st, NEW ch
    PROVE  SameMembers(r, AppendCharacter(r, st, ch))
<1> DEFINE decided == [r EXCEPT !.crPending = FALSE]
           over == [EmitProvisionalLine(decided) EXCEPT !.line = <<>>, !.hasPending = TRUE, !.stream = st]
           q == IF r.crPending /\ ch # LF THEN over ELSE decided
           Fields == {"tty", "frames", "ansi", "crPending", "line", "hasPending", "stream", "out"}
           Same(t) == t = [x \in Fields |-> t[x]] /\ SameMembers(r, t)
<1>1. Same(r)
  BY DEF LogReaders, SameMembers
<1>2. Same(decided)
  BY <1>1 DEF SameMembers
<1>3. Same(EmitProvisionalLine(decided))
  <2> HIDE DEF decided
  <2>1. CASE decided.hasPending
    <3> DEFINE out == Append(decided.out, [stream |-> decided.stream, text |-> decided.line, complete |-> FALSE])
    <3>1. EmitProvisionalLine(decided) = [decided EXCEPT !.out = out]
      BY <2>1 DEF EmitProvisionalLine
    <3> HIDE DEF out
    <3> QED
      BY <1>2, <3>1 DEF SameMembers
  <2>2. CASE ~decided.hasPending
    BY <1>2, <2>2 DEF EmitProvisionalLine
  <2> QED
    BY <2>1, <2>2
<1>4. Same(over)
  <2> DEFINE p == EmitProvisionalLine(decided)
             nothing == <<>>
  <2>1. over = [p EXCEPT !.line = nothing, !.hasPending = TRUE, !.stream = st]
    OBVIOUS
  <2>2. Same(p)
    BY <1>3
  <2> HIDE DEF p, nothing, over
  <2> QED
    BY <2>1, <2>2 DEF SameMembers
<1> HIDE DEF decided, over
<1>5. Same(q)
  BY <1>2, <1>4
<1>6. AppendCharacter(r, st, ch)
        = IF ch = LF THEN ClosePendingLine(q, st)
          ELSE IF ch = CR THEN [q EXCEPT !.crPending = TRUE]
          ELSE [q EXCEPT !.line = Append(@, ch), !.hasPending = TRUE,
                         !.stream = IF q.hasPending THEN @ ELSE st]
  BY DEF AppendCharacter, decided, over
<1> HIDE DEF q
<1>7. Same(ClosePendingLine(q, st))
  <2> DEFINE out == Append(q.out, [stream |-> IF q.hasPending THEN q.stream ELSE st, text |-> q.line, complete |-> TRUE])
             nothing == <<>>
  <2>1. ClosePendingLine(q, st) = [q EXCEPT !.out = out, !.line = nothing, !.hasPending = FALSE]
    BY DEF ClosePendingLine
  <2> HIDE DEF out, nothing
  <2> QED
    BY <1>5, <2>1 DEF SameMembers
<1>8. Same([q EXCEPT !.crPending = TRUE])
  BY <1>5 DEF SameMembers
<1>9. Same([q EXCEPT !.line = Append(@, ch), !.hasPending = TRUE, !.stream = IF q.hasPending THEN @ ELSE st])
  <2> DEFINE line == Append(q.line, ch)
             name == IF q.hasPending THEN q.stream ELSE st
             t == [q EXCEPT !.line = line, !.hasPending = TRUE, !.stream = name]
  <2>1. t = [q EXCEPT !.line = Append(@, ch), !.hasPending = TRUE, !.stream = IF q.hasPending THEN @ ELSE st]
    OBVIOUS
  <2> HIDE DEF line, name
  <2>2. Same(t)
    BY <1>5 DEF SameMembers
  <2> HIDE DEF t
  <2> QED
    BY <2>1, <2>2
<1> QED
  BY <1>6, <1>7, <1>8, <1>9

\* What n characters say does not depend on those after them.
Continues(V0, n, V) ==
    /\ V0 \in Seq(Chars) /\ V \in Seq(Chars) /\ n \in Nat /\ n <= Len(V0) /\ n <= Len(V)
    /\ \A i \in 1 .. n : V[i] = V0[i]

LEMMA SameCuts ==
    ASSUME NEW V0, NEW n, NEW V, Continues(V0, n, V)
    PROVE  Cuts(V, n) = Cuts(V0, n) /\ Shown(V, n) = Shown(V0, n)
<1>1. n \in Nat /\ \A i \in 1 .. n : V[i] = V0[i]
  BY DEF Continues
<1>2. Newlines(V, n) = Newlines(V0, n)
  BY <1>1 DEF Newlines
<1>3. Returns(V, n) = Returns(V0, n)
  <2>1. \A i \in 1 .. n - 1 : i \in 1 .. n /\ i + 1 \in 1 .. n
    BY <1>1
  <2>2. \A i \in 1 .. n - 1 : V[i] = V0[i] /\ V[i + 1] = V0[i + 1]
    BY <1>1, <2>1
  <2> QED
    BY <2>2 DEF Returns
<1> QED
  BY <1>2, <1>3 DEF Cuts, Shown

LEMMA SameParts ==
    ASSUME NEW V0, NEW n, NEW V, Continues(V0, n, V), NEW e \in Nat, e <= n, NEW a \in 0 .. e
    PROVE  Part(V, a, e) = Part(V0, a, e)
<1>1. n \in Nat /\ \A i \in 1 .. n : V[i] = V0[i]
  BY DEF Continues
<1>2. \A k \in 1 .. e - a : a + k \in 1 .. n
  BY <1>1
<1>3. \A k \in 1 .. e - a : V[a + k].ch = V0[a + k].ch
  BY <1>1, <1>2
<1> QED
  BY <1>3 DEF Part

LEMMA SameShows ==
    ASSUME NEW V0, NEW n, NEW V, Continues(V0, n, V), NEW i \in 1 .. n, NEW x, NEW done, Shows(x, V0, n, i, done)
    PROVE  Shows(x, V, n, i, done)
<1>1. n \in Nat /\ \A k \in 1 .. n : V[k] = V0[k]
  BY DEF Continues
<1> DEFINE End(W, from) == IF from < i - 1 /\ W[i - 1].ch = CR THEN i - 2 ELSE i - 1
<1>2. PICK from \in 0 .. i - 1 :
         /\ Begins(V0, n, from, i)
         /\ x.text = Part(V0, from, End(V0, from))
         /\ x.complete = done
         /\ x.text # <<>> => x.stream = V0[from + 1].stream
  BY DEF Shows, Part
<1>3. Begins(V, n, from, i)
  BY <1>2, SameCuts DEF Begins
<1>4. End(V, from) = End(V0, from)
  <2>1. from < i - 1 => i - 1 \in 1 .. n
    BY <1>1
  <2> QED
    BY <1>1, <2>1
<1>5. End(V0, from) \in Nat /\ End(V0, from) <= n /\ from \in 0 .. End(V0, from)
  BY <1>1
<1>6. V[from + 1] = V0[from + 1]
  <2>1. from + 1 \in 1 .. n
    BY <1>1
  <2> QED
    BY <1>1, <2>1
<1> HIDE DEF End
<1>7. Part(V, from, End(V0, from)) = Part(V0, from, End(V0, from))
  BY <1>5, SameParts
<1>8. x.text = Part(V, from, End(V, from))
  BY <1>2, <1>4, <1>7
<1> QED
  BY <1>2, <1>3, <1>6, <1>8 DEF Shows, Part, End

LEMMA LinesStay ==
    ASSUME NEW V0, NEW n, NEW V, Continues(V0, n, V), NEW r, LinesAt(V0, n, r)
    PROVE  LinesAt(V, n, r)
<1>1. n \in Nat /\ \A k \in 1 .. n : V[k] = V0[k]
  BY DEF Continues
<1>2. Shown(V, n) = Shown(V0, n) /\ Cuts(V, n) = Cuts(V0, n)
  BY SameCuts
<1>3. Shown(V0, n) \subseteq 1 .. n
  BY <1>1 DEF Shown, Newlines, Returns
<1>4. Reported(V, n, r.out)
  <2>1. Len(r.out) = Cardinality(Shown(V0, n)) /\ \A i \in Shown(V0, n) : LineShown(V0, n, r.out, i)
    BY DEF LinesAt, Reported
  <2>2. ASSUME NEW i \in Shown(V0, n) PROVE LineShown(V, n, r.out, i)
    <3> DEFINE x == r.out[Cardinality(Shown(V0, n) \cap 1 .. i)]
               done == V0[i].ch = LF
    <3>1. Shows(x, V0, n, i, done)
      BY <2>1 DEF LineShown
    <3>2. i \in 1 .. n
      BY <1>3
    <3> HIDE DEF x, done
    <3>3. Shows(x, V, n, i, done)
      BY <3>1, <3>2, SameShows
    <3>4. V[i].ch = V0[i].ch
      BY <1>1, <3>2
    <3> QED
      BY <1>2, <3>3, <3>4 DEF LineShown, x, done
  <2> QED
    BY <1>2, <2>1, <2>2 DEF Reported
<1>5. \A e \in 0 .. n : Pending(V, e) <=> Pending(V0, e)
  <2>1. \A e \in 0 .. n : e # 0 => e \in 1 .. n
    BY <1>1
  <2> QED
    BY <1>1, <2>1 DEF Pending
<1>6. ASSUME NEW e \in 0 .. n, LineAt(V0, n, e, r) PROVE LineAt(V, n, e, r)
  <2>1. PICK a \in 0 .. e : Open(V0, n, e, a) /\ r.line = Part(V0, a, e) /\ (e > a => r.stream = V0[a + 1].stream)
    BY <1>6 DEF LineAt
  <2>2. Open(V, n, e, a)
    BY <1>2, <2>1 DEF Open
  <2>3. r.line = Part(V, a, e)
    <3>1. e \in Nat /\ e <= n
      BY <1>1
    <3> QED
      BY <2>1, <3>1, SameParts
  <2>4. e > a => r.stream = V[a + 1].stream
    <3>1. e > a => a + 1 \in 1 .. n
      BY <1>1
    <3> QED
      BY <1>1, <2>1, <3>1
  <2> QED
    BY <2>2, <2>3, <2>4 DEF LineAt
<1>7. r \in LogReaders /\ (r.crPending <=> n # 0 /\ V0[n].ch = CR)
  BY DEF LinesAt
<1>8. r.crPending <=> n # 0 /\ V[n].ch = CR
  <2>1. n # 0 => n \in 1 .. n
    BY <1>1
  <2>2. n # 0 => V[n] = V0[n]
    BY <1>1, <2>1
  <2> QED
    BY <1>7, <2>2
<1> DEFINE e == IF r.crPending THEN n - 1 ELSE n
<1>9. e \in 0 .. n
  BY <1>1, <1>7
<1>10. (r.hasPending <=> Pending(V0, e)) /\ LineAt(V0, n, e, r)
  BY DEF LinesAt
<1> HIDE DEF e
<1>11. LineAt(V, n, e, r)
  BY <1>6, <1>9, <1>10
<1>12. r.hasPending <=> Pending(V, e)
  BY <1>5, <1>9, <1>10
<1> QED
  BY <1>4, <1>7, <1>8, <1>11, <1>12 DEF LinesAt, e

\* The characters that were visible already stay the first of those that are.
LEMMA GrownContinues ==
    ASSUME NEW V0, NEW V, NEW clean, NEW st, Grown(V0, V, clean, st)
    PROVE  Continues(V0, Len(V0), V)
<1>1. V0 \in Seq(Chars) /\ V \in Seq(Chars) /\ clean \in Seq(Int) /\ Len(V) = Len(V0) + Len(clean)
      /\ \A i \in 1 .. Len(V0) : V[i] = V0[i]
  BY DEF Grown
<1>2. Len(V0) \in Nat /\ Len(clean) \in Nat /\ Len(V0) <= Len(V)
  <2>1. Len(V0) \in Nat /\ Len(clean) \in Nat
    BY <1>1
  <2> QED
    BY <1>1, <2>1
<1> QED
  BY <1>1, <1>2 DEF Continues

\* The reader has dealt with the text up to m.
LogAt(w, m, r) ==
    /\ LinesAt(ShownAt(w, m), Len(ShownAt(w, m)), r)
    /\ AnsiAt(w, m, r.ansi)

LEMMA TextPasses ==
    ASSUME NEW r, NEW st, NEW data, NEW stripped, stripped = StripAnsi(Joined(r.ansi, data)), Len(stripped.clean) \in Nat
    PROVE  \E f : /\ AppendText(r, st, data) = f[Len(stripped.clean)]
                  /\ f[0] = [r EXCEPT !.ansi = stripped.left]
                  /\ \A k \in 1 .. Len(stripped.clean) : f[k] = AppendCharacter(f[k - 1], st, stripped.clean[k])
<1> DEFINE clean == stripped.clean
           n == Len(clean)
           start == [r EXCEPT !.ansi = stripped.left]
           Def(f, m) == f = [k \in 0 .. m |-> IF k = 0 THEN start ELSE AppendCharacter(f[k - 1], st, clean[k])]
           G == {m \in Nat : \E f : Def(f, m)}
           pass == CHOOSE f : Def(f, n)
<1>0. AppendText(r, st, data) = pass[n]
  <2>1. stripped = StripAnsi(r.ansi \o data)
    BY DEF Joined
  <2> QED
    BY <2>1 DEF AppendText
<1> HIDE DEF pass, start, clean
<1>1. 0 \in G
  <2>1. Def([k \in 0 .. 0 |-> start], 0)
    OBVIOUS
  <2> QED
    BY <2>1
<1>2. ASSUME NEW m \in Nat, m \in G PROVE m + 1 \in G
  <2>1. PICK f : Def(f, m)
    BY <1>2
  <2> DEFINE h == [k \in 0 .. m + 1 |-> IF k = m + 1 THEN AppendCharacter(f[m], st, clean[k]) ELSE f[k]]
  <2>2. ASSUME NEW k \in 0 .. m + 1 PROVE h[k] = IF k = 0 THEN start ELSE AppendCharacter(h[k - 1], st, clean[k])
    <3>1. CASE k \in 0 .. m
      <4>1. h[k] = f[k] /\ (k # 0 => h[k - 1] = f[k - 1])
        BY <3>1
      <4> HIDE DEF h
      <4> QED
        BY <2>1, <3>1, <4>1
    <3>2. CASE k = m + 1
      BY <3>2
    <3> QED
      BY <3>1, <3>2
  <2>3. h = [k \in 0 .. m + 1 |-> IF k = 0 THEN start ELSE AppendCharacter(h[k - 1], st, clean[k])]
    BY <2>2
  <2> HIDE DEF h
  <2>4. \E g : Def(g, m + 1)
    BY <2>3
  <2> HIDE DEF Def
  <2> QED
    BY <2>4
<1> HIDE DEF Def
<1>3. n \in G
  <2> HIDE DEF G, n
  <2>1. n \in Nat
    BY DEF n, clean
  <2> QED
    BY <1>1, <1>2, <2>1, NatSetInduction
<1>4. Def(pass, n)
  BY <1>3 DEF pass
<1>5. pass = [k \in 0 .. n |-> IF k = 0 THEN start ELSE AppendCharacter(pass[k - 1], st, clean[k])]
  BY <1>4 DEF Def
<1>6. pass[0] = start /\ \A k \in 1 .. n : pass[k] = AppendCharacter(pass[k - 1], st, clean[k])
  <2>1. n \in Nat
    BY DEF clean
  <2>2. 0 \in 0 .. n /\ \A k \in 1 .. n : k \in 0 .. n /\ k # 0
    BY <2>1
  <2> HIDE DEF n
  <2> QED
    BY <1>5, <2>2
<1> QED
  BY <1>0, <1>6 DEF start, clean

LEMMA TextStep ==
    ASSUME NEW w \in Seq(Chars), NEW n \in Nat, NEW m \in Nat, n <= m, m <= Len(w), NEW st,
           \A i \in n + 1 .. m : w[i].stream = st,
           NEW r, LogAt(w, n, r)
    PROVE  LET t == AppendText(r, st, Symbols(w, n, m)) IN
           LogAt(w, m, t) /\ t.frames = r.frames /\ t.tty = r.tty
<1> DEFINE data == Symbols(w, n, m)
           stripped == StripAnsi(Joined(r.ansi, data))
           V0 == ShownAt(w, n)
           V == ShownAt(w, m)
           clean == stripped.clean
           L == Len(clean)
           b == Len(V0)
<1>1. LinesAt(V0, b, r) /\ AnsiAt(w, n, r.ansi)
  BY DEF LogAt
<1>2. Stripped(w, n, m, st, stripped)
  BY <1>1, StripText
<1> HIDE DEF data, stripped, V0, V
<1>3. Grown(V0, V, clean, st) /\ AnsiAt(w, m, stripped.left)
  BY <1>2 DEF Stripped, V0, V
<1>4. /\ V0 \in Seq(Chars) /\ V \in Seq(Chars) /\ clean \in Seq(Int) /\ Len(V) = b + L
      /\ \A k \in 1 .. L : V[b + k].ch = clean[k] /\ V[b + k].stream = st
  BY <1>3 DEF Grown
<1>5. L \in Nat /\ b \in Nat
  BY <1>4
<1>6. PICK f : /\ AppendText(r, st, data) = f[L]
               /\ f[0] = [r EXCEPT !.ansi = stripped.left]
               /\ \A k \in 1 .. L : f[k] = AppendCharacter(f[k - 1], st, clean[k])
  BY <1>5, TextPasses DEF stripped
<1>7. LinesAt(V, b, r)
  <2>1. Continues(V0, b, V)
    BY <1>3, GrownContinues
  <2> HIDE DEF b
  <2> QED
    BY <1>1, <2>1, LinesStay
<1>8. LinesAt(V, b, f[0]) /\ f[0].ansi = stripped.left /\ f[0].frames = r.frames /\ f[0].tty = r.tty
  <2> DEFINE left == stripped.left
             t == [r EXCEPT !.ansi = left]
  <2>1. r \in LogReaders
    BY <1>7 DEF LinesAt
  <2>2. left \in Seq(Int)
    <3>1. PICK y \in 0 .. m : left = Symbols(w, y, m)
      BY <1>3 DEF AnsiAt
    <3>2. y \in Nat /\ y <= m
      BY <3>1
    <3> QED
      BY <3>1, <3>2, SymbolsShape
  <2> HIDE DEF left
  <2>3. /\ t \in LogReaders /\ t.out = r.out /\ t.line = r.line /\ t.stream = r.stream
        /\ t.ansi = left /\ t.frames = r.frames
    BY <2>1, <2>2 DEF LogReaders
  <2>4. t.hasPending = r.hasPending
    BY <2>1 DEF LogReaders
  <2>5. t.crPending = r.crPending
    BY <2>1 DEF LogReaders
  <2>6. t.tty = r.tty
    BY <2>1 DEF LogReaders
  <2>7. f[0] = t
    BY <1>6 DEF left
  <2> HIDE DEF t
  <2> DEFINE e == IF r.crPending THEN b - 1 ELSE b
  <2>8. Reported(V, b, r.out) /\ (r.crPending <=> b # 0 /\ V[b].ch = CR)
        /\ (r.hasPending <=> Pending(V, e)) /\ LineAt(V, b, e, r)
    BY <1>7 DEF LinesAt
  <2>9. e = IF t.crPending THEN b - 1 ELSE b
    BY <2>5
  <2> HIDE DEF e, b
  <2>10. LineAt(V, b, e, t)
    BY <2>3, <2>8 DEF LineAt
  <2>11. t.hasPending <=> Pending(V, e)
    BY <2>4, <2>8
  <2>12. t.crPending <=> b # 0 /\ V[b].ch = CR
    BY <2>5, <2>8
  <2>13. LinesAt(V, b, t)
    BY <2>3, <2>8, <2>9, <2>10, <2>11, <2>12 DEF LinesAt
  <2> QED
    BY <2>3, <2>6, <2>7, <2>13 DEF left
<1> DEFINE Kind(k) == LinesAt(V, b + k, f[k]) /\ SameMembers(f[0], f[k])
           G == {k \in Nat : k <= L => Kind(k)}
<1>9. 0 \in G
  <2>1. b + 0 = b /\ SameMembers(f[0], f[0])
    BY <1>5 DEF SameMembers
  <2> QED
    BY <1>8, <2>1
<1>10. ASSUME NEW k \in Nat, k \in G PROVE k + 1 \in G
  <2> SUFFICES ASSUME k + 1 <= L PROVE Kind(k + 1)
    OBVIOUS
  <2>1. LinesAt(V, b + k, f[k]) /\ SameMembers(f[0], f[k])
    BY <1>5, <1>10
  <2>2. k + 1 \in 1 .. L /\ (k + 1) - 1 = k
    BY <1>5
  <2>3. f[k + 1] = AppendCharacter(f[k], st, clean[k + 1])
    BY <1>6, <2>2
  <2>4. PICK j \in Nat : j = b + k
    BY <1>5
  <2>5. j < Len(V) /\ j + 1 = b + (k + 1)
    BY <1>4, <1>5, <2>4
  <2>6. V[j + 1].ch = clean[k + 1] /\ V[j + 1].stream = st
    BY <1>4, <2>2, <2>5
  <2>7. LinesAt(V, j, f[k])
    BY <2>1, <2>4
  <2>8. LinesAt(V, j + 1, AppendCharacter(f[k], V[j + 1].stream, V[j + 1].ch))
    BY <1>4, <2>5, <2>7, CharacterStep
  <2>9. LinesAt(V, b + (k + 1), f[k + 1])
    BY <2>3, <2>5, <2>6, <2>8
  <2>10. SameMembers(f[k], f[k + 1])
    <3>1. f[k] \in LogReaders
      BY <2>7 DEF LinesAt
    <3> QED
      BY <2>3, <3>1, CharacterKeeps
  <2>11. SameMembers(f[0], f[k + 1])
    BY <2>1, <2>10 DEF SameMembers
  <2> QED
    BY <2>9, <2>11
<1>11. Kind(L)
  <2>1. \A k \in Nat : k \in G
    <3> HIDE DEF G
    <3> QED
      BY <1>9, <1>10, NatSetInduction
  <2>2. L \in G /\ L <= L
    BY <1>5, <2>1
  <2> QED
    BY <2>2
<1>12. LinesAt(V, Len(V), f[L]) /\ f[L].ansi = stripped.left /\ f[L].frames = r.frames /\ f[L].tty = r.tty
  BY <1>4, <1>8, <1>11 DEF SameMembers
<1>13. LogAt(w, m, f[L])
  BY <1>3, <1>12 DEF LogAt, V
<1> QED
  BY <1>6, <1>12, <1>13 DEF data

-----------------------------------------------------------------------------
\* Frames of a log.

\* Where the frames are cut says nothing of the text that was taken.
LEMMA FramesReplaced ==
    ASSUME NEW w, NEW m, NEW r, LogAt(w, m, r), NEW x \in Seq(Int)
    PROVE  LET q == [r EXCEPT !.frames = x] IN LogAt(w, m, q) /\ q.frames = x /\ q.tty = r.tty
<1> DEFINE q == [r EXCEPT !.frames = x]
           V == ShownAt(w, m)
           k == Len(V)
           e == IF r.crPending THEN k - 1 ELSE k
<1>1. r \in LogReaders
  BY DEF LogAt, LinesAt
<1>2. /\ q \in LogReaders /\ q.out = r.out /\ q.line = r.line /\ q.stream = r.stream
      /\ q.ansi = r.ansi /\ q.frames = x
  BY <1>1 DEF LogReaders
<1>3. q.hasPending = r.hasPending
  BY <1>1 DEF LogReaders
<1>4. q.crPending = r.crPending
  BY <1>1 DEF LogReaders
<1>5. q.tty = r.tty
  BY <1>1 DEF LogReaders
<1> HIDE DEF q
<1>6. Reported(V, k, r.out) /\ (r.crPending <=> k # 0 /\ V[k].ch = CR)
      /\ (r.hasPending <=> Pending(V, e)) /\ LineAt(V, k, e, r)
  BY DEF LogAt, LinesAt
<1>7. AnsiAt(w, m, q.ansi)
  BY <1>2 DEF LogAt
<1>8. e = IF q.crPending THEN k - 1 ELSE k
  BY <1>4
<1> HIDE DEF e, k, V
<1>9. LineAt(V, k, e, q)
  BY <1>2, <1>6 DEF LineAt
<1>10. q.hasPending <=> Pending(V, e)
  BY <1>3, <1>6
<1>11. q.crPending <=> k # 0 /\ V[k].ch = CR
  BY <1>4, <1>6
<1>12. LinesAt(V, k, q)
  BY <1>2, <1>6, <1>8, <1>9, <1>10, <1>11 DEF LinesAt
<1>13. LogAt(w, m, q)
  BY <1>2, <1>7, <1>12 DEF LogAt, k, V
<1> QED
  BY <1>2, <1>5, <1>13 DEF q

\* A frame of stream st lies from c to d and holds the characters lo + 1 to hi of the text.
FrameOf(b, w, c, d, lo, hi, st) ==
    /\ b \in Seq(Int) /\ w \in Seq(Chars) /\ c \in Nat /\ d \in Nat /\ lo \in Nat /\ hi \in Nat
    /\ lo <= hi /\ hi <= Len(w) /\ d = c + 2 + (hi - lo) /\ d <= Len(b)
    /\ b[c + 1] \in {1, 2} /\ st = StreamOf(b[c + 1])
    /\ b[c + 2] = Number(hi - lo) /\ hi - lo <= MaxFrameBytes
    /\ \A i \in 1 .. hi - lo : b[c + 2 + i] = w[lo + i].ch
    /\ \A i \in lo + 1 .. hi : w[i].stream = st

FrameTaken(b, w, n, d, hi, r, t) ==
    /\ t.frames = SubSeq(b, d + 1, n)
    /\ LogAt(w, hi, t)
    /\ t.tty = r.tty

LEMMA FrameStep ==
    ASSUME NEW b, NEW w, NEW c, NEW d, NEW lo, NEW hi, NEW st, FrameOf(b, w, c, d, lo, hi, st),
           NEW n \in Nat, c <= n, n <= Len(b),
           NEW r, r.frames = SubSeq(b, c + 1, n), LogAt(w, lo, r)
    PROVE  IF n < d THEN TakeFrame(r) = r ELSE FrameTaken(b, w, n, d, hi, r, TakeFrame(r))
<1>1. /\ b \in Seq(Int) /\ w \in Seq(Chars) /\ c \in Nat /\ d \in Nat /\ lo \in Nat /\ hi \in Nat
      /\ lo <= hi /\ hi <= Len(w) /\ d = c + 2 + (hi - lo) /\ d <= Len(b)
      /\ b[c + 1] \in {1, 2} /\ st = StreamOf(b[c + 1])
      /\ b[c + 2] = Number(hi - lo) /\ hi - lo <= MaxFrameBytes /\ Len(b) \in Nat
      /\ \A i \in 1 .. hi - lo : b[c + 2 + i] = w[lo + i].ch
      /\ \A i \in lo + 1 .. hi : w[i].stream = st
  BY DEF FrameOf
<1> DEFINE v == SubSeq(b, c + 1, n)
           size == hi - lo
           t == TakeFrame(r)
<1>2. v \in Seq(Int) /\ Len(v) = n - c /\ \A i \in 1 .. n - c : v[i] = b[c + i]
  BY <1>1, PartShape, ZenonT(30)
<1>3. t = IF Len(v) < 2 THEN r
          ELSE IF v[1] \notin {1, 2} \/ NumberOf(v[2]) > MaxFrameBytes THEN [r EXCEPT !.frames = <<>>]
          ELSE IF Len(v) < 2 + NumberOf(v[2]) THEN r
          ELSE AppendText([r EXCEPT !.frames = Rest(@, 2 + NumberOf(v[2]))], StreamOf(v[1]),
                          SubSeq(v, 2 + 1, 2 + NumberOf(v[2])))
  <2> HIDE DEF v
  <2>1. r.frames = v
    BY DEF v
  <2> QED
    BY <2>1 DEF TakeFrame, HeaderBytes
<1> HIDE DEF v, t
<1>4. n - c >= 2 => v[1] = b[c + 1] /\ v[2] = Number(size) /\ NumberOf(v[2]) = size
  <2> SUFFICES ASSUME n - c >= 2 PROVE v[1] = b[c + 1] /\ v[2] = Number(size) /\ NumberOf(v[2]) = size
    OBVIOUS
  <2>1. 1 \in 1 .. n - c /\ 2 \in 1 .. n - c
    BY <1>1
  <2>2. v[1] = b[c + 1] /\ v[2] = b[c + 2]
    BY <1>2, <2>1
  <2>3. NumberOf(Number(size)) = size
    BY <1>1 DEF NumberOf, Number
  <2> QED
    BY <1>1, <2>2, <2>3
<1>5. CASE n - c < 2
  <2>1. n < d
    BY <1>1, <1>5, SMTT(30)
  <2>2. t = r
    BY <1>2, <1>3, <1>5
  <2> QED
    BY <2>1, <2>2 DEF t
<1>6. CASE n - c >= 2
  <2>1. /\ ~(Len(v) < 2) /\ v[1] \in {1, 2} /\ NumberOf(v[2]) = size /\ ~(size > MaxFrameBytes) /\ StreamOf(v[1]) = st
    <3>1. ~(Len(v) < 2)
      BY <1>1, <1>2, <1>6
    <3>2. ~(size > MaxFrameBytes)
      BY <1>1, MaxFrameBytesAssumption
    <3> QED
      BY <1>1, <1>4, <1>6, <3>1, <3>2
  <2>2. t = IF Len(v) < 2 + size THEN r
            ELSE AppendText([r EXCEPT !.frames = Rest(@, 2 + size)], st, SubSeq(v, 2 + 1, 2 + size))
    <3> HIDE DEF size
    <3> QED
      BY <1>3, <2>1
  <2>3. CASE n < d
    <3>1. Len(v) < 2 + size
      BY <1>1, <1>2, <2>3
    <3> QED
      BY <2>2, <2>3, <3>1 DEF t
  <2>4. CASE ~(n < d)
    <3>0. size \in Nat /\ 2 + size \in 0 .. n - c /\ 2 \in 0 .. n - c /\ 2 <= 2 + size /\ c + (2 + size) = d
          /\ ~(Len(v) < 2 + size) /\ d <= n /\ c + 2 \in Nat /\ c + 2 <= d /\ d - (c + 2) = size
      BY <1>1, <1>2, <2>4
    <3> DEFINE rest == SubSeq(b, d + 1, n)
               q == [r EXCEPT !.frames = rest]
               data == SubSeq(v, 2 + 1, 2 + size)
    <3>1. Rest(v, 2 + size) = rest
      <4>1. PICK l \in 0 .. n - c : l = 2 + size
        BY <3>0
      <4> HIDE DEF size, rest
      <4>2. b \in Seq(Int) /\ c \in Nat /\ n \in Nat /\ c <= n /\ n <= Len(b)
        BY <1>1
      <4>2a. Rest(SubSeq(b, c + 1, n), l) = SubSeq(b, c + l + 1, n)
        BY <4>2, PartOfStream
      <4>2b. Rest(v, l) = SubSeq(b, c + l + 1, n)
        BY <4>2a DEF v
      <4>3. c + l + 1 = d + 1
        BY <3>0, <4>1
      <4> QED
        BY <4>1, <4>2b, <4>3 DEF rest
    <3>2. data = Symbols(w, lo, hi)
      <4> DEFINE x == SubSeq(b, (c + 2) + 1, d)
                 u == Symbols(w, lo, hi)
      <4>1. data = x
        <5>1. PICK l \in 0 .. n - c, k \in 0 .. n - c : l = 2 + size /\ k = 2
          BY <3>0
        <5> HIDE DEF size, rest
        <5>2. k <= l /\ c + k + 1 = (c + 2) + 1 /\ c + l = d
          BY <3>0, <5>1
        <5>3. SubSeq(v, k + 1, l) = SubSeq(b, c + k + 1, c + l)
          BY <1>1, <5>2, PartOfStream DEF v
        <5> QED
          BY <5>1, <5>2, <5>3
      <4>2. x \in Seq(Int) /\ Len(x) = d - (c + 2) /\ \A i \in 1 .. d - (c + 2) : x[i] = b[(c + 2) + i]
        BY <1>1, <3>0, PartShape, ZenonT(30)
      <4>3. u \in Seq(Int) /\ Len(u) = size /\ \A i \in 1 .. size : u[i] = w[lo + i].ch
        BY <1>1, SymbolsShape, SMTT(30)
      <4> HIDE DEF x, u
      <4>4. Len(x) = Len(u) /\ \A i \in 1 .. Len(u) : x[i] = u[i]
        BY <1>1, <3>0, <4>2, <4>3, ZenonT(30)
      <4>5. x = u
        BY <4>2, <4>3, <4>4, SameSequence
      <4> QED
        BY <4>1, <4>5 DEF u
    <3>3. rest \in Seq(Int)
      BY <1>1, <3>0, PartShape
    <3> HIDE DEF rest, data
    <3>4. LogAt(w, lo, q) /\ q.frames = rest /\ q.tty = r.tty
      BY <3>3, FramesReplaced
    <3> HIDE DEF q
    <3>5. t = AppendText(q, st, Symbols(w, lo, hi))
      <4>1. t = AppendText([r EXCEPT !.frames = Rest(r.frames, 2 + size)], st, data)
        BY <2>2, <3>0 DEF data
      <4>2. [r EXCEPT !.frames = Rest(r.frames, 2 + size)] = q
        BY <3>1 DEF q, v
      <4> HIDE DEF size
      <4> QED
        BY <3>2, <4>1, <4>2
    <3>6. LogAt(w, hi, t) /\ t.frames = q.frames /\ t.tty = q.tty
      <4>1. /\ w \in Seq(Chars) /\ lo \in Nat /\ hi \in Nat /\ lo <= hi /\ hi <= Len(w)
            /\ \A i \in lo + 1 .. hi : w[i].stream = st
        BY <1>1
      <4>2. LogAt(w, lo, q)
        BY <3>4
      <4> DEFINE x == AppendText(q, st, Symbols(w, lo, hi))
      <4>3. LogAt(w, hi, x) /\ x.frames = q.frames /\ x.tty = q.tty
        BY <4>1, <4>2, TextStep
      <4>4. t = x
        BY <3>5
      <4> HIDE DEF x
      <4> QED
        BY <4>3, <4>4
    <3>7. FrameTaken(b, w, n, d, hi, r, t)
      BY <3>4, <3>6 DEF FrameTaken, rest
    <3> QED
      BY <2>4, <3>7 DEF t
  <2> QED
    BY <2>3, <2>4
<1> QED
  BY <1>1, <1>5, <1>6

\* The text of a log in two frames.
FramedShape(s) ==
    LET b == s.bytes
        w == TextOf(s)
        first == Len(s.frames[1])
        all == first + Len(s.frames[2])
    IN  /\ s.tty = FALSE
        /\ first \in Nat /\ Len(s.frames[2]) \in Nat
        /\ FrameOf(b, w, 0, FrameEnd(s, 1), 0, first, "stdout")
        /\ FrameOf(b, w, FrameEnd(s, 1), FrameEnd(s, 2), first, all, "stderr")
        /\ FrameEnd(s, 2) = Len(b)

\* The reader has taken what lies before c, and holds the rest up to n.
FrameAt(s, n, c, r) ==
    /\ c \in {0, FrameEnd(s, 1), FrameEnd(s, 2)} /\ c <= n
    /\ r.frames = SubSeq(s.bytes, c + 1, n)
    /\ ~r.tty
    /\ LogAt(TextOf(s), Completed(s, c), r)

LEMMA FrameNumbers ==
    ASSUME NEW s, FramedShape(s)
    PROVE  /\ s.bytes \in Seq(Int) /\ Len(s.bytes) \in Nat /\ TextOf(s) \in Seq(Chars)
           /\ FrameEnd(s, 1) \in Nat /\ FrameEnd(s, 2) = Len(s.bytes)
           /\ FrameEnd(s, 1) >= 2 /\ FrameEnd(s, 2) >= FrameEnd(s, 1) + 2
           /\ Completed(s, 0) = 0
           /\ Completed(s, FrameEnd(s, 1)) = Len(s.frames[1])
           /\ Completed(s, FrameEnd(s, 2)) = Len(s.frames[1]) + Len(s.frames[2])
           /\ \A n \in Nat : /\ n < FrameEnd(s, 1) => Completed(s, n) = Completed(s, 0)
                             /\ FrameEnd(s, 1) <= n /\ n < FrameEnd(s, 2) => Completed(s, n) = Completed(s, FrameEnd(s, 1))
<1> DEFINE f == Len(s.frames[1])
           g == Len(s.frames[2])
<1>1. f \in Nat /\ g \in Nat
  BY DEF FramedShape
<1>2. FrameEnd(s, 1) = 2 + f /\ FrameEnd(s, 2) = 4 + f + g
  <2> HIDE DEF f, g
  <2>1. FrameEnd(s, 1) = 1 * HeaderBytes + f + 0 /\ FrameEnd(s, 2) = 2 * HeaderBytes + f + g
    BY DEF FrameEnd, f, g
  <2> QED
    BY <1>1, <2>1 DEF HeaderBytes
<1>3. ~s.tty
  <2>1. s.tty = FALSE
    BY DEF FramedShape
  <2> QED
    BY <2>1
<1>4. \A n \in Nat : Completed(s, n) = IF n < 2 + f THEN 0 ELSE IF n < 4 + f + g THEN f ELSE f + g
  BY <1>2, <1>3 DEF Completed
<1>5. s.bytes \in Seq(Int) /\ TextOf(s) \in Seq(Chars) /\ FrameEnd(s, 2) = Len(s.bytes)
  BY DEF FramedShape, FrameOf
<1>6. Len(s.bytes) \in Nat
  BY <1>5
<1> HIDE DEF f, g
<1>7. FrameEnd(s, 1) \in Nat /\ FrameEnd(s, 1) >= 2 /\ FrameEnd(s, 2) >= FrameEnd(s, 1) + 2
  BY <1>1, <1>2
<1>8. Completed(s, 0) = 0 /\ Completed(s, 2 + f) = f /\ Completed(s, 4 + f + g) = f + g
  <2>1. /\ 0 \in Nat /\ 2 + f \in Nat /\ 4 + f + g \in Nat /\ 0 < 2 + f /\ ~(2 + f < 2 + f) /\ 2 + f < 4 + f + g
        /\ ~(4 + f + g < 2 + f) /\ ~(4 + f + g < 4 + f + g)
    BY <1>1
  <2> QED
    BY <1>4, <2>1
<1>9. ASSUME NEW n \in Nat
      PROVE  /\ n < 2 + f => Completed(s, n) = 0
             /\ 2 + f <= n /\ n < 4 + f + g => Completed(s, n) = f
  <2>1. 2 + f <= n => ~(n < 2 + f)
    BY <1>1
  <2> QED
    BY <1>4, <2>1
<1> QED
  BY <1>2, <1>5, <1>6, <1>7, <1>8, <1>9 DEF f, g

\* A pass of the loop takes a frame, or there is no complete one.
FrameProgress(s, n, c, r, t) ==
    \/ t = r /\ Completed(s, n) = Completed(s, c)
    \/ \E d \in c + 1 .. n : FrameAt(s, n, d, t)

LEMMA FrameGoesOn ==
    ASSUME NEW s, FramedShape(s), NEW n \in Nat, n <= Len(s.bytes), NEW c, NEW r, FrameAt(s, n, c, r)
    PROVE  FrameProgress(s, n, c, r, TakeFrame(r))
<1> DEFINE b == s.bytes
           w == TextOf(s)
           f == Len(s.frames[1])
           g == Len(s.frames[2])
           E == FrameEnd(s, 1)
           F == FrameEnd(s, 2)
           t == TakeFrame(r)
<1>1. /\ b \in Seq(Int) /\ Len(b) \in Nat /\ E \in Nat /\ F = Len(b) /\ F \in Nat /\ E >= 2 /\ F >= E + 2
      /\ Completed(s, 0) = 0 /\ Completed(s, E) = f /\ Completed(s, F) = f + g
      /\ n < E => Completed(s, n) = Completed(s, 0)
      /\ E <= n /\ n < F => Completed(s, n) = Completed(s, E)
  BY FrameNumbers
<1>2. /\ FrameOf(b, w, 0, E, 0, f, "stdout")
      /\ FrameOf(b, w, E, F, f, f + g, "stderr")
  BY DEF FramedShape
<1>3. /\ c \in {0, E, F} /\ c <= n /\ r.frames = SubSeq(b, c + 1, n)
      /\ LogAt(w, Completed(s, c), r)
  BY DEF FrameAt
<1>4. ~r.tty
  BY DEF FrameAt
<1> HIDE DEF b, w, f, g, E, F, t
<1>5. CASE c = 0
  <2>1. IF n < E THEN t = r ELSE FrameTaken(b, w, n, E, f, r, t)
    <3>1. c <= n /\ n <= Len(b)
      BY <1>3 DEF b
    <3>2. LogAt(w, 0, r) /\ r.frames = SubSeq(b, 0 + 1, n)
      BY <1>1, <1>3, <1>5
    <3> QED
      BY <1>2, <1>5, <3>1, <3>2, FrameStep DEF t
  <2>2. CASE n < E
    <3>1. t = r /\ Completed(s, n) = Completed(s, c)
      BY <1>1, <1>5, <2>1, <2>2
    <3> QED
      BY <3>1 DEF FrameProgress, t
  <2>3. CASE ~(n < E)
    <3>1. t.frames = SubSeq(b, E + 1, n) /\ LogAt(w, Completed(s, E), t) /\ t.tty = r.tty
      BY <1>1, <2>1, <2>3 DEF FrameTaken
    <3>2. E \in c + 1 .. n /\ E <= n /\ E \in {0, E, F}
      BY <1>1, <1>5, <2>3
    <3>3. ~t.tty
      BY <1>4, <3>1
    <3>4. FrameAt(s, n, E, t)
      BY <3>1, <3>2, <3>3 DEF FrameAt, b, w, E, F
    <3> QED
      BY <3>2, <3>4 DEF FrameProgress, t
  <2> QED
    BY <2>2, <2>3
<1>6. CASE c = E
  <2>1. IF n < F THEN t = r ELSE FrameTaken(b, w, n, F, f + g, r, t)
    <3>1. E <= n /\ n <= Len(b)
      BY <1>3, <1>6 DEF b
    <3>2. LogAt(w, f, r) /\ r.frames = SubSeq(b, E + 1, n)
      BY <1>1, <1>3, <1>6
    <3> QED
      BY <1>2, <3>1, <3>2, FrameStep DEF t
  <2>2. CASE n < F
    <3>1. t = r /\ Completed(s, n) = Completed(s, c)
      BY <1>1, <1>3, <1>6, <2>1, <2>2
    <3> QED
      BY <3>1 DEF FrameProgress, t
  <2>3. CASE ~(n < F)
    <3>1. t.frames = SubSeq(b, F + 1, n) /\ LogAt(w, Completed(s, F), t) /\ t.tty = r.tty
      BY <1>1, <2>1, <2>3 DEF FrameTaken
    <3>2. F \in c + 1 .. n /\ F <= n /\ F \in {0, E, F}
      BY <1>1, <1>6, <2>3
    <3>3. ~t.tty
      BY <1>4, <3>1
    <3>4. FrameAt(s, n, F, t)
      BY <3>1, <3>2, <3>3 DEF FrameAt, b, w, E, F
    <3> QED
      BY <3>2, <3>4 DEF FrameProgress, t
  <2> QED
    BY <2>2, <2>3
<1>7. CASE c = F
  <2>1. n = c
    BY <1>1, <1>3, <1>7 DEF b
  <2>2. Len(r.frames) = 0
    <3>1. c \in Nat /\ c <= n /\ n <= Len(b) /\ n - c = 0
      BY <1>1, <1>7, <2>1
    <3> QED
      BY <1>1, <1>3, <3>1, PartShape
  <2>3. t = r
    BY <2>2 DEF TakeFrame, HeaderBytes, t
  <2> QED
    BY <2>1, <2>3 DEF FrameProgress, t
<1> QED
  BY <1>3, <1>5, <1>6, <1>7

\* The loop of feed(): as many passes as there are bytes take every complete frame.
FramePass(s, n, j, r) ==
    \E c \in 0 .. n : FrameAt(s, n, c, r) /\ (c >= j \/ (TakeFrame(r) = r /\ Completed(s, n) = Completed(s, c)))

LEMMA FramePassed ==
    ASSUME NEW s, FramedShape(s), NEW n \in Nat, n <= Len(s.bytes), NEW j \in Nat, NEW r, FramePass(s, n, j, r)
    PROVE  FramePass(s, n, j + 1, TakeFrame(r))
<1>1. PICK c \in 0 .. n : FrameAt(s, n, c, r) /\ (c >= j \/ (TakeFrame(r) = r /\ Completed(s, n) = Completed(s, c)))
  BY DEF FramePass
<1> DEFINE t == TakeFrame(r)
<1>2. FrameProgress(s, n, c, r, t)
  BY <1>1, FrameGoesOn
<1>3. CASE t = r /\ Completed(s, n) = Completed(s, c)
  BY <1>1, <1>3 DEF FramePass
<1> HIDE DEF t
<1>4. CASE \E d \in c + 1 .. n : FrameAt(s, n, d, t)
  <2>1. PICK d \in c + 1 .. n : FrameAt(s, n, d, t)
    BY <1>4
  <2>2. d \in 0 .. n /\ (c >= j => d >= j + 1)
    BY <2>1
  <2>3. CASE c >= j
    BY <2>1, <2>2, <2>3 DEF FramePass, t
  <2>4. CASE TakeFrame(r) = r /\ Completed(s, n) = Completed(s, c)
    BY <1>3, <2>4 DEF t
  <2> QED
    BY <1>1, <2>3, <2>4
<1>5. FrameProgress(s, n, c, r, t) => (t = r /\ Completed(s, n) = Completed(s, c)) \/ \E d \in c + 1 .. n : FrameAt(s, n, d, t)
  BY DEF FrameProgress
<1> QED
  BY <1>2, <1>3, <1>4, <1>5

\* Every complete frame has been taken.
FramesRest(s, n, r) == \E c \in 0 .. n : FrameAt(s, n, c, r) /\ Completed(s, n) = Completed(s, c)

LEMMA FramePasses ==
    ASSUME NEW r, NEW data, ~r.tty, Len(Joined(r.frames, data)) \in Nat
    PROVE  LET z == Joined(r.frames, data) IN
           \E f : /\ LogFeed(r, data) = f[Len(z)]
                  /\ f[0] = [r EXCEPT !.frames = z]
                  /\ \A k \in 1 .. Len(z) : f[k] = TakeFrame(f[k - 1])
<1> DEFINE z == Joined(r.frames, data)
           n == Len(z)
           start == [r EXCEPT !.frames = z]
           Def(f, m) == f = [k \in 0 .. m |-> IF k = 0 THEN start ELSE TakeFrame(f[k - 1])]
           G == {m \in Nat : \E f : Def(f, m)}
           pass == CHOOSE f : Def(f, n)
<1>0. LogFeed(r, data) = pass[n]
  BY DEF LogFeed, Joined
<1> HIDE DEF pass, start
<1>1. 0 \in G
  <2>1. Def([k \in 0 .. 0 |-> start], 0)
    OBVIOUS
  <2> QED
    BY <2>1
<1>2. ASSUME NEW m \in Nat, m \in G PROVE m + 1 \in G
  <2>1. PICK f : Def(f, m)
    BY <1>2
  <2> DEFINE h == [k \in 0 .. m + 1 |-> IF k = m + 1 THEN TakeFrame(f[m]) ELSE f[k]]
  <2>2. ASSUME NEW k \in 0 .. m + 1 PROVE h[k] = IF k = 0 THEN start ELSE TakeFrame(h[k - 1])
    <3>1. CASE k \in 0 .. m
      <4>1. h[k] = f[k] /\ (k # 0 => h[k - 1] = f[k - 1])
        BY <3>1
      <4> HIDE DEF h
      <4> QED
        BY <2>1, <3>1, <4>1
    <3>2. CASE k = m + 1
      BY <3>2
    <3> QED
      BY <3>1, <3>2
  <2>3. h = [k \in 0 .. m + 1 |-> IF k = 0 THEN start ELSE TakeFrame(h[k - 1])]
    BY <2>2
  <2> HIDE DEF h
  <2>4. \E g : Def(g, m + 1)
    BY <2>3
  <2> HIDE DEF Def
  <2> QED
    BY <2>4
<1> HIDE DEF Def
<1>3. n \in Nat
  OBVIOUS
<1>4. n \in G
  <2> HIDE DEF G, n
  <2> QED
    BY <1>1, <1>2, <1>3, NatSetInduction
<1>5. Def(pass, n)
  BY <1>4 DEF pass
<1> HIDE DEF n
<1>6. pass = [k \in 0 .. n |-> IF k = 0 THEN start ELSE TakeFrame(pass[k - 1])]
  BY <1>5 DEF Def
<1>7. pass[0] = start /\ \A k \in 1 .. n : pass[k] = TakeFrame(pass[k - 1])
  <2>1. 0 \in 0 .. n /\ \A k \in 1 .. n : k \in 0 .. n /\ k # 0
    BY <1>3
  <2> QED
    BY <1>6, <2>1
<1> QED
  BY <1>0, <1>7 DEF start, n

LEMMA FramesAreFed ==
    ASSUME NEW s, FramedShape(s), NEW n \in Nat, NEW m \in Nat, n <= m, m <= Len(s.bytes), NEW r, FramesRest(s, n, r)
    PROVE  FramesRest(s, m, LogFeed(r, SubSeq(s.bytes, n + 1, m)))
<1> DEFINE b == s.bytes
           data == SubSeq(b, n + 1, m)
           z == Joined(r.frames, data)
           start == [r EXCEPT !.frames = z]
<1>1. PICK c \in 0 .. n : FrameAt(s, n, c, r) /\ Completed(s, n) = Completed(s, c)
  BY DEF FramesRest
<1>2. /\ c \in {0, FrameEnd(s, 1), FrameEnd(s, 2)} /\ c <= n
      /\ r.frames = SubSeq(b, c + 1, n)
      /\ LogAt(TextOf(s), Completed(s, c), r)
  BY <1>1 DEF FrameAt
<1>3. ~r.tty
  BY <1>1 DEF FrameAt
<1>4. b \in Seq(Int) /\ Len(b) \in Nat
  BY FrameNumbers
<1>5. z = SubSeq(b, c + 1, m)
  <2>1. PICK g \in Nat : g = c + 1
    OBVIOUS
  <2>2. 1 <= g /\ g - 1 <= n
    BY <2>1
  <2>3. Joined(SubSeq(b, g, n), SubSeq(b, n + 1, m)) = SubSeq(b, g, m)
    BY <1>4, <2>2, PartsJoin
  <2> QED
    BY <1>2, <2>1, <2>3
<1>6. c <= m /\ c \in Nat /\ m - c \in Nat
  OBVIOUS
<1>7. z \in Seq(Int) /\ Len(z) = m - c
  <2>1. SubSeq(b, c + 1, m) \in Seq(Int) /\ Len(SubSeq(b, c + 1, m)) = m - c
    BY <1>4, <1>6, PartShape
  <2> QED
    BY <1>5, <2>1
<1>8. PICK f : /\ LogFeed(r, data) = f[Len(z)]
               /\ f[0] = start
               /\ \A k \in 1 .. Len(z) : f[k] = TakeFrame(f[k - 1])
  BY <1>3, <1>6, <1>7, FramePasses
<1> HIDE DEF b, data, z, start
<1>9. FrameAt(s, m, c, start)
  <2>1. LogAt(TextOf(s), Completed(s, c), start) /\ start.frames = z /\ start.tty = r.tty
    BY <1>2, <1>7, FramesReplaced DEF start
  <2>2. ~start.tty
    BY <1>3, <2>1
  <2> QED
    BY <1>2, <1>5, <1>6, <2>1, <2>2 DEF FrameAt, b
<1> DEFINE G == {k \in Nat : k <= m - c => FramePass(s, m, c + k, f[k])}
<1>10. 0 \in G
  <2>1. c + 0 = c /\ c \in 0 .. m /\ c >= c
    BY <1>6
  <2> QED
    BY <1>8, <1>9, <2>1 DEF FramePass
<1>11. ASSUME NEW k \in Nat, k \in G PROVE k + 1 \in G
  <2> SUFFICES ASSUME k + 1 <= m - c PROVE FramePass(s, m, c + (k + 1), f[k + 1])
    OBVIOUS
  <2>1. FramePass(s, m, c + k, f[k])
    BY <1>6, <1>11
  <2>2. k + 1 \in 1 .. m - c /\ (k + 1) - 1 = k
    BY <1>6
  <2>3. f[k + 1] = TakeFrame(f[k])
    BY <1>7, <1>8, <2>2
  <2>4. PICK j \in Nat : j = c + k
    BY <1>6
  <2>5. FramePass(s, m, j + 1, TakeFrame(f[k]))
    BY <1>4, <2>1, <2>4, FramePassed DEF b
  <2>6. j + 1 = c + (k + 1)
    BY <1>6, <2>4
  <2> QED
    BY <2>3, <2>5, <2>6
<1>12. FramePass(s, m, m, f[m - c])
  <2>1. \A k \in Nat : k \in G
    <3> HIDE DEF G
    <3> QED
      BY <1>10, <1>11, NatSetInduction
  <2>2. m - c \in G /\ m - c <= m - c /\ c + (m - c) = m
    BY <1>6, <2>1
  <2> QED
    BY <2>2
<1> DEFINE t == f[m - c]
<1>13. t = LogFeed(r, data)
  BY <1>7, <1>8
<1> HIDE DEF t, G
<1>14. PICK d \in 0 .. m : FrameAt(s, m, d, t) /\ (d >= m \/ (TakeFrame(t) = t /\ Completed(s, m) = Completed(s, d)))
  BY <1>12 DEF FramePass, t
<1>15. Completed(s, m) = Completed(s, d)
  <2>1. d >= m => d = m
    OBVIOUS
  <2> QED
    BY <1>14, <2>1
<1> QED
  BY <1>13, <1>14, <1>15 DEF FramesRest, data, b

\* The bytes of a terminal's log are its text.
TerminalShape(s) ==
    /\ s.tty = TRUE
    /\ s.bytes \in Seq(Int) /\ Len(s.bytes) \in Nat
    /\ TextOf(s) \in Seq(Chars) /\ Len(TextOf(s)) = Len(s.bytes)
    /\ \A i \in 1 .. Len(s.bytes) : TextOf(s)[i].ch = s.bytes[i] /\ TextOf(s)[i].stream = "stdout"

TerminalRest(s, n, r) == LogAt(TextOf(s), n, r) /\ r.tty

LEMMA TerminalIsFed ==
    ASSUME NEW s, TerminalShape(s), NEW n \in Nat, NEW m \in Nat, n <= m, m <= Len(s.bytes), NEW r, TerminalRest(s, n, r)
    PROVE  TerminalRest(s, m, LogFeed(r, SubSeq(s.bytes, n + 1, m)))
<1> DEFINE b == s.bytes
           w == TextOf(s)
           x == SubSeq(b, n + 1, m)
           u == Symbols(w, n, m)
<1>1. /\ b \in Seq(Int) /\ Len(b) \in Nat /\ w \in Seq(Chars) /\ Len(w) = Len(b)
      /\ \A i \in 1 .. Len(b) : w[i].ch = b[i] /\ w[i].stream = "stdout"
  BY DEF TerminalShape
<1>2. LogAt(w, n, r)
  BY DEF TerminalRest
<1>3. r.tty
  BY DEF TerminalRest
<1>4. LogFeed(r, x) = AppendText(r, "stdout", x)
  BY <1>3 DEF LogFeed
<1> HIDE DEF b, w
<1>5. x \in Seq(Int) /\ Len(x) = m - n /\ \A i \in 1 .. m - n : x[i] = b[n + i]
  BY <1>1, PartShape DEF b
<1>6. u \in Seq(Int) /\ Len(u) = m - n /\ \A i \in 1 .. m - n : u[i] = w[n + i].ch
  BY <1>1, SymbolsShape DEF b
<1> HIDE DEF x, u
<1>7. x = u
  <2>1. \A i \in 1 .. m - n : n + i \in 1 .. Len(b)
    BY <1>1 DEF b
  <2>2. Len(x) = Len(u) /\ \A i \in 1 .. Len(u) : x[i] = u[i]
    BY <1>1, <1>5, <1>6, <2>1
  <2> QED
    BY <1>5, <1>6, <2>2, SameSequence
<1>8. \A i \in n + 1 .. m : w[i].stream = "stdout"
  BY <1>1 DEF b
<1> DEFINE t == AppendText(r, "stdout", Symbols(w, n, m))
<1>9. LogAt(w, m, t) /\ t.frames = r.frames /\ t.tty = r.tty
  <2>1. m <= Len(w)
    BY <1>1 DEF b
  <2> QED
    BY <1>1, <1>2, <1>8, <2>1, TextStep
<1>10. t = LogFeed(r, x)
  BY <1>4, <1>7 DEF u
<1> HIDE DEF t
<1>11. t.tty
  BY <1>3, <1>9
<1> QED
  BY <1>9, <1>10, <1>11 DEF TerminalRest, w, x, b

\* A log that is sent, and what its reader holds between two pieces.
LogShape(s) == TerminalShape(s) \/ FramedShape(s)
LogRests(s, n, r) ==
    \/ TerminalShape(s) /\ TerminalRest(s, n, r)
    \/ FramedShape(s) /\ FramesRest(s, n, r)

LEMMA LogIsFed ==
    ASSUME NEW s, NEW n \in Nat, NEW m \in Nat, n <= m, m <= Len(s.bytes), NEW r, LogRests(s, n, r)
    PROVE  LogRests(s, m, LogFeed(r, SubSeq(s.bytes, n + 1, m)))
<1>1. CASE TerminalShape(s) /\ TerminalRest(s, n, r)
  BY <1>1, TerminalIsFed DEF LogRests
<1>2. CASE FramedShape(s) /\ FramesRest(s, n, r)
  BY <1>2, FramesAreFed DEF LogRests
<1> QED
  BY <1>1, <1>2 DEF LogRests

\* What has been taken is what is visible of the bytes received.
LEMMA RestIsTaken ==
    ASSUME NEW s, NEW n \in Nat, n <= Len(s.bytes), NEW r, LogRests(s, n, r)
    PROVE  /\ LogAt(TextOf(s), Completed(s, n), r)
           /\ TextOf(s) \in Seq(Chars) /\ Completed(s, n) \in 0 .. Len(TextOf(s))
<1>1. CASE TerminalShape(s) /\ TerminalRest(s, n, r)
  <2>1. s.tty = TRUE
    BY <1>1 DEF TerminalShape
  <2>2. Completed(s, n) = n
    BY <2>1 DEF Completed
  <2>3. LogAt(TextOf(s), n, r)
    BY <1>1 DEF TerminalRest
  <2>4. TextOf(s) \in Seq(Chars) /\ Len(TextOf(s)) = Len(s.bytes) /\ Len(s.bytes) \in Nat
    BY <1>1 DEF TerminalShape
  <2> QED
    BY <2>2, <2>3, <2>4
<1>2. CASE FramedShape(s) /\ FramesRest(s, n, r)
  <2>1. PICK c \in 0 .. n : FrameAt(s, n, c, r) /\ Completed(s, n) = Completed(s, c)
    BY <1>2 DEF FramesRest
  <2>2. LogAt(TextOf(s), Completed(s, n), r) /\ c \in {0, FrameEnd(s, 1), FrameEnd(s, 2)}
    BY <2>1 DEF FrameAt
  <2> DEFINE f == Len(s.frames[1])
             g == Len(s.frames[2])
             w == TextOf(s)
  <2>3. f \in Nat /\ g \in Nat /\ w \in Seq(Chars) /\ f + g <= Len(w)
    <3>1. f \in Nat /\ g \in Nat
      BY <1>2 DEF FramedShape
    <3>2. FrameOf(s.bytes, w, FrameEnd(s, 1), FrameEnd(s, 2), f, f + g, "stderr")
      BY <1>2 DEF FramedShape
    <3> HIDE DEF f, g, w
    <3> QED
      BY <3>1, <3>2 DEF FrameOf
  <2>4. Completed(s, c) \in {0, f, f + g}
    BY <1>2, <2>2, FrameNumbers
  <2> HIDE DEF f, g, w
  <2>5. Completed(s, c) \in 0 .. Len(w)
    <3>1. Len(w) \in Nat
      BY <2>3
    <3> QED
      BY <2>3, <2>4, <3>1
  <2> QED
    BY <2>1, <2>2, <2>3, <2>5 DEF w
<1> QED
  BY <1>1, <1>2 DEF LogRests

\* The lines at the end of the stream: those that are shown, and what is left.
EndShown(V, n, out) ==
    LET last == out[Len(out)]
        left == n # 0 /\ V[n].ch # LF
    IN  /\ Len(out) = Cardinality(Shown(V, n)) + (IF left THEN 1 ELSE 0)
        /\ \A i \in Shown(V, n) : LineShown(V, n, out, i)
        /\ left => IF V[n].ch = CR THEN last.text = <<>> /\ ~last.complete
                   ELSE Shows(last, V, n, n + 1, FALSE)

\* One more line behind those that are shown.
LEMMA OneLeft ==
    ASSUME NEW V, NEW n \in Nat, NEW out \in Seq(OutLines), NEW line \in OutLines, Reported(V, n, out),
           n # 0 /\ V[n].ch # LF, Shown(V, n) \subseteq 1 .. n,
           IF V[n].ch = CR THEN line.text = <<>> /\ ~line.complete ELSE Shows(line, V, n, n + 1, FALSE)
    PROVE  EndShown(V, n, Append(out, line))
<1> DEFINE S == Shown(V, n)
           all == Append(out, line)
<1>1. Len(out) = Cardinality(S) /\ Len(out) \in Nat
  BY DEF Reported
<1>2. n + 1 \in Nat \ {0} /\ S \subseteq 1 .. n + 1 /\ n + 1 \notin S
  <2> HIDE DEF S
  <2>1. S \subseteq 1 .. n
    BY DEF S
  <2> QED
    BY <2>1
<1>3. \A k \in S : Cardinality(S \cap 1 .. k) \in 1 .. Cardinality(S)
  <2>1. PICK i \in Nat \ {0} : i = n + 1
    BY <1>2
  <2> HIDE DEF S
  <2>2. S \subseteq 1 .. i /\ i \notin S
    BY <1>2, <2>1
  <2> QED
    BY <2>2, LastCounted
<1>4. /\ Len(all) = Cardinality(S) + 1 /\ all[Len(all)] = line
      /\ \A k \in 1 .. Cardinality(S) : all[k] = out[k]
  <2> HIDE DEF S
  <2> QED
    BY <1>1
<1> HIDE DEF all
<1>5. ASSUME NEW i \in S PROVE LineShown(V, n, all, i)
  <2>1. LineShown(V, n, out, i)
    BY DEF Reported
  <2>2. all[Cardinality(S \cap 1 .. i)] = out[Cardinality(S \cap 1 .. i)]
    BY <1>3, <1>4
  <2> QED
    BY <2>1, <2>2 DEF LineShown
<1>6. EndShown(V, n, all)
  BY <1>4, <1>5 DEF EndShown
<1> QED
  BY <1>6 DEF all

LEMMA LinesAreFlushed ==
    ASSUME NEW V \in Seq(Chars), NEW r, LinesAt(V, Len(V), r)
    PROVE  EndShown(V, Len(V), LogFlush(r).out)
<1> DEFINE n == Len(V)
           nothing == <<>>
           q == IF r.crPending THEN [r EXCEPT !.crPending = FALSE, !.line = nothing, !.hasPending = TRUE] ELSE r
           line == [stream |-> q.stream, text |-> q.line, complete |-> FALSE]
           u == EmitProvisionalLine(q)
           t == LogFlush(r)
<1>1. n \in Nat /\ r \in LogReaders /\ Reported(V, n, r.out) /\ CR # LF
  BY DEF LinesAt, CR, LF
<1>2. r.crPending <=> n # 0 /\ V[n].ch = CR
  BY DEF LinesAt
<1>3. Shown(V, n) \subseteq 1 .. n
  BY <1>1 DEF Shown, Newlines, Returns
<1>4. nothing \in Seq(Int)
  OBVIOUS
<1>5. q \in LogReaders /\ q.out = r.out
  <2> HIDE DEF nothing
  <2>1. CASE r.crPending
    BY <1>1, <1>4, <2>1 DEF LogReaders
  <2>2. CASE ~r.crPending
    BY <1>1, <2>2
  <2> QED
    BY <2>1, <2>2
<1>6. line \in OutLines /\ line.text = q.line /\ line.stream = q.stream /\ line.complete = FALSE
  <2> HIDE DEF q
  <2> QED
    BY <1>5 DEF LogReaders, OutLines
<1>7. t.out = IF q.hasPending THEN Append(r.out, line) ELSE r.out
  <2>1. t = [u EXCEPT !.line = <<>>, !.hasPending = FALSE, !.ansi = <<>>, !.frames = <<>>]
    BY DEF LogFlush
  <2> HIDE DEF q, line
  <2>2. u = IF ~q.hasPending THEN q ELSE [q EXCEPT !.out = Append(q.out, line)]
    BY DEF EmitProvisionalLine, line
  <2>3. u.out = IF q.hasPending THEN Append(r.out, line) ELSE r.out
    BY <1>5, <2>2 DEF LogReaders
  <2>4. \E f : u = [x \in {"tty", "frames", "ansi", "crPending", "line", "hasPending", "stream", "out"} |-> f[x]]
    BY <1>5, <2>2 DEF LogReaders
  <2> HIDE DEF u, t
  <2>5. t.out = u.out
    BY <2>1, <2>4
  <2> QED
    BY <2>3, <2>5
<1>8. CASE r.crPending
  <2>1. n # 0 /\ V[n].ch = CR /\ V[n].ch # LF
    BY <1>1, <1>2, <1>8
  <2>2. q.hasPending /\ q.line = <<>>
    BY <1>1, <1>8 DEF LogReaders
  <2> HIDE DEF q, line
  <2>3. line.text = <<>> /\ ~line.complete
    BY <1>6, <2>2
  <2>4. r.out \in Seq(OutLines)
    BY <1>1 DEF LogReaders
  <2>5. EndShown(V, n, Append(r.out, line))
    BY <1>1, <1>3, <1>6, <2>1, <2>3, <2>4, OneLeft
  <2> QED
    BY <1>7, <2>2, <2>5
<1>9. CASE ~r.crPending
  <2>0. q = r
    BY <1>9
  <2> HIDE DEF q, line
  <2>1. ~(n # 0 /\ V[n].ch = CR)
    BY <1>2, <1>9
  <2>2. r.hasPending <=> n # 0 /\ V[n].ch # LF
    BY <1>9 DEF LinesAt, Pending
  <2>3. LineAt(V, n, n, r)
    BY <1>9 DEF LinesAt
  <2>4. CASE r.hasPending
    <3>1. n # 0 /\ V[n].ch # LF /\ V[n].ch # CR
      BY <2>1, <2>2, <2>4
    <3>2. PICK a \in 0 .. n : Open(V, n, n, a) /\ r.line = Part(V, a, n) /\ (n > a => r.stream = V[a + 1].stream)
      BY <2>3 DEF LineAt
    <3>3. line.text = Part(V, a, n) /\ line.stream = r.stream /\ line.complete = FALSE
      BY <1>6, <2>0, <3>2
    <3>4. line.text # <<>> => line.stream = V[a + 1].stream
      <4>1. Part(V, a, n) # <<>> => n > a
        BY <1>1, PartShapeOf
      <4> QED
        BY <3>2, <3>3, <4>1
    <3>5. Shows(line, V, n, n + 1, FALSE)
      <4>1. PICK i \in 1 .. n + 1 : i = n + 1
        BY <1>1
      <4>2. i - 1 = n /\ n \in 0 .. i - 1 /\ a <= n
        BY <1>1, <4>1
      <4>3. Open(V, n, i - 1, a) /\ n = IF a < i - 1 /\ V[i - 1].ch = CR THEN i - 2 ELSE i - 1
        BY <3>1, <3>2, <4>2
      <4>4. n <= Len(V) /\ n \in Nat
        BY <1>1
      <4> HIDE DEF n
      <4>5. Shows(line, V, n, i, FALSE)
        BY <3>3, <3>4, <4>2, <4>3, <4>4, ShowsOpen
      <4> QED
        BY <4>1, <4>5
    <3>6. r.out \in Seq(OutLines)
      BY <1>1 DEF LogReaders
    <3>7. EndShown(V, n, Append(r.out, line))
      BY <1>1, <1>3, <1>6, <3>1, <3>5, <3>6, OneLeft
    <3> QED
      BY <1>7, <2>0, <2>4, <3>7
  <2>5. CASE ~r.hasPending
    <3>1. ~(n # 0 /\ V[n].ch # LF)
      BY <2>2, <2>5
    <3>2. Len(r.out) = Cardinality(Shown(V, n)) /\ \A i \in Shown(V, n) : LineShown(V, n, r.out, i)
      BY <1>1 DEF Reported
    <3>3. Len(r.out) \in Nat
      BY <1>1 DEF LogReaders
    <3>4. (IF n # 0 /\ V[n].ch # LF THEN 1 ELSE 0) = 0
      BY <3>1
    <3> HIDE DEF n
    <3>5. Len(r.out) = Cardinality(Shown(V, n)) + (IF n # 0 /\ V[n].ch # LF THEN 1 ELSE 0)
      BY <3>2, <3>3, <3>4
    <3>6. EndShown(V, n, r.out)
      BY <3>1, <3>2, <3>5 DEF EndShown
    <3> QED
      BY <1>7, <2>0, <2>5, <3>6 DEF n
  <2> QED
    BY <2>4, <2>5
<1> QED
  BY <1>8, <1>9

\* A new reader has nothing and is at the start.
LEMMA LogStarts ==
    ASSUME NEW s, LogShape(s)
    PROVE  LogRests(s, 0, NewFrames(s.tty))
<1> DEFINE r == NewFrames(s.tty)
           w == TextOf(s)
           V == ShownAt(w, 0)
<1>1. s.tty \in BOOLEAN /\ TextOf(s) \in Seq(Chars)
  <2>1. CASE TerminalShape(s)
    BY <2>1 DEF TerminalShape
  <2>2. CASE FramedShape(s)
    BY <2>2, FrameNumbers DEF FramedShape
  <2> QED
    BY <2>1, <2>2 DEF LogShape
<1>2. ModeAt(w, 0) = "text" /\ V = <<>>
  BY <1>1, ScanSteps DEF ModeAt, ShownAt
<1>3. /\ r \in LogReaders /\ r.frames = <<>> /\ r.ansi = <<>> /\ r.line = <<>> /\ r.out = <<>>
  BY <1>1 DEF NewFrames, LogReaders
<1>4. ~r.crPending /\ ~r.hasPending /\ r.tty = s.tty
  BY DEF NewFrames
<1> HIDE DEF r, w, V
<1>5. Len(V) = 0
  BY <1>2
<1>6. Shown(V, 0) = {} /\ Cuts(V, 0) = {} /\ Cardinality({}) = 0
  <2>1. Newlines(V, 0) = {} /\ Returns(V, 0) = {}
    BY DEF Newlines, Returns
  <2> QED
    BY <2>1, FS_EmptySet DEF Shown, Cuts
<1>7. Reported(V, 0, r.out)
  <2>1. Len(r.out) = 0
    BY <1>3
  <2> QED
    BY <1>6, <2>1 DEF Reported
<1>8. LineAt(V, 0, 0, r)
  <2>1. Part(V, 0, 0) = <<>>
    BY DEF Part
  <2>2. Open(V, 0, 0, 0)
    BY <1>6 DEF Open
  <2>3. 0 \in 0 .. 0
    OBVIOUS
  <2> QED
    BY <1>3, <2>1, <2>2, <2>3 DEF LineAt
<1>9. LinesAt(V, 0, r)
  <2>1. ~Pending(V, 0)
    BY DEF Pending
  <2>2. (IF r.crPending THEN 0 - 1 ELSE 0) = 0
    BY <1>4
  <2>3. LineAt(V, 0, IF r.crPending THEN 0 - 1 ELSE 0, r) /\ ~Pending(V, IF r.crPending THEN 0 - 1 ELSE 0)
    BY <1>8, <2>1, <2>2
  <2> QED
    BY <1>3, <1>4, <1>7, <2>3 DEF LinesAt
<1>10. AnsiAt(w, 0, r.ansi)
  <2>1. Symbols(w, 0, 0) = <<>> /\ Hidden(w, 0, 0) /\ 0 \in 0 .. 0
    BY DEF Symbols, Hidden
  <2> QED
    BY <1>2, <1>3, <2>1 DEF AnsiAt
<1>11. LogAt(w, 0, r)
  BY <1>5, <1>9, <1>10 DEF LogAt, V
<1>12. CASE TerminalShape(s)
  <2>1. s.tty = TRUE
    BY <1>12 DEF TerminalShape
  <2>2. r.tty
    BY <1>4, <2>1
  <2> QED
    BY <1>11, <1>12, <2>2 DEF LogRests, TerminalRest, r, w
<1>13. CASE FramedShape(s)
  <2>1. s.tty = FALSE
    BY <1>13 DEF FramedShape
  <2>2. ~r.tty
    BY <1>4, <2>1
  <2>3. Completed(s, 0) = 0 /\ s.bytes \in Seq(Int)
    BY <1>13, FrameNumbers
  <2>4. SubSeq(s.bytes, 0 + 1, 0) = <<>> /\ 0 \in 0 .. 0
    BY <2>3
  <2>5. FrameAt(s, 0, 0, r)
    BY <1>3, <1>11, <2>2, <2>3, <2>4 DEF FrameAt, w
  <2>6. FramesRest(s, 0, r)
    BY <2>4, <2>5 DEF FramesRest
  <2> QED
    BY <1>13, <2>6 DEF LogRests, r
<1> QED
  BY <1>12, <1>13 DEF LogShape

-----------------------------------------------------------------------------
\* The layout of the logs that are sent.
LEMMA CharactersShape ==
    ASSUME NEW text \in Seq(Int), NEW st \in {"stdout", "stderr"}
    PROVE  LET w == Characters(text, st) IN
           /\ w \in Seq(Chars) /\ Len(w) = Len(text) /\ Len(text) \in Nat
           /\ \A i \in 1 .. Len(text) : w[i].ch = text[i] /\ w[i].stream = st
<1> DEFINE w == Characters(text, st)
<1>1. Len(text) \in Nat /\ \A i \in 1 .. Len(text) : text[i] \in Int
  OBVIOUS
<1>2. w = [i \in 1 .. Len(text) |-> [ch |-> text[i], stream |-> st]]
  BY DEF Characters
<1>3. \A i \in 1 .. Len(text) : [ch |-> text[i], stream |-> st] \in Chars
  BY <1>1 DEF Chars
<1> HIDE DEF w
<1>4. w \in [1 .. Len(text) -> Chars]
  BY <1>2, <1>3
<1>5. w \in Seq(Chars) /\ Len(w) = Len(text)
  BY <1>1, <1>4
<1>6. \A i \in 1 .. Len(text) : w[i].ch = text[i] /\ w[i].stream = st
  BY <1>2
<1> QED
  BY <1>1, <1>5, <1>6 DEF w

LEMMA FrameLayout ==
    ASSUME NEW byte \in {1, 2}, NEW text \in Seq(Int)
    PROVE  LET z == Frame(byte, text) IN
           /\ z \in Seq(Int) /\ Len(z) = 2 + Len(text) /\ z[1] = byte /\ z[2] = Number(Len(text))
           /\ \A i \in 1 .. Len(text) : z[2 + i] = text[i]
<1> DEFINE x == <<byte, Number(Len(text))>>
           z == Joined(x, text)
<1>1. Frame(byte, text) = z
  BY DEF Frame, Joined
<1>2. x \in Seq(Int) /\ Len(x) = 2 /\ x[1] = byte /\ x[2] = Number(Len(text)) /\ Len(text) \in Nat
  BY DEF Number
<1> HIDE DEF x
<1>3. /\ z \in Seq(Int) /\ Len(z) = Len(x) + Len(text)
      /\ \A i \in 1 .. Len(x) : z[i] = x[i]
      /\ \A i \in 1 .. Len(text) : z[Len(x) + i] = text[i]
  BY <1>2, JoinedAt
<1> HIDE DEF z
<1>4. z[1] = byte /\ z[2] = Number(Len(text))
  <2>1. 1 \in 1 .. Len(x) /\ 2 \in 1 .. Len(x)
    BY <1>2
  <2> QED
    BY <1>2, <1>3, <2>1
<1> QED
  BY <1>1, <1>2, <1>3, <1>4

\* One text after another.
LEMMA TextsJoin ==
    ASSUME NEW x \in Seq(Chars), NEW y \in Seq(Chars)
    PROVE  LET w == Joined(x, y) IN
           /\ w \in Seq(Chars) /\ Len(w) = Len(x) + Len(y) /\ Len(x) \in Nat /\ Len(y) \in Nat
           /\ \A i \in 1 .. Len(x) : w[i] = x[i]
           /\ \A i \in 1 .. Len(y) : w[Len(x) + i] = y[i]
<1> DEFINE z == x \o y
<1>1. /\ z \in Seq(Chars) /\ Len(z) = Len(x) + Len(y)
      /\ \A k \in 1 .. Len(x) + Len(y) : z[k] = IF k <= Len(x) THEN x[k] ELSE y[k - Len(x)]
  BY ConcatShape
<1>2. Len(x) \in Nat /\ Len(y) \in Nat
  OBVIOUS
<1>3. Joined(x, y) = z
  BY DEF Joined
<1> HIDE DEF z
<1>4. ASSUME NEW i \in 1 .. Len(x) PROVE z[i] = x[i]
  <2>1. i \in 1 .. Len(x) + Len(y) /\ i <= Len(x)
    BY <1>2
  <2> QED
    BY <1>1, <2>1
<1>5. ASSUME NEW i \in 1 .. Len(y) PROVE z[Len(x) + i] = y[i]
  <2>1. Len(x) + i \in 1 .. Len(x) + Len(y) /\ ~(Len(x) + i <= Len(x)) /\ (Len(x) + i) - Len(x) = i
    BY <1>2
  <2> QED
    BY <1>1, <2>1
<1> QED
  BY <1>1, <1>2, <1>3, <1>4, <1>5

LEMMA TerminalIsShaped ==
    ASSUME NEW text \in Seq(Int)
    PROVE  TerminalShape(Terminal(text))
<1> DEFINE s == Terminal(text)
<1>1. s.tty = TRUE /\ s.bytes = text
  BY DEF Terminal
<1> HIDE DEF s
<1>2. TextOf(s) = Characters(text, "stdout")
  BY <1>1 DEF TextOf
<1>3. /\ TextOf(s) \in Seq(Chars) /\ Len(TextOf(s)) = Len(text) /\ Len(text) \in Nat
      /\ \A i \in 1 .. Len(text) : TextOf(s)[i].ch = text[i] /\ TextOf(s)[i].stream = "stdout"
  BY <1>2, CharactersShape
<1>4. TerminalShape(s)
  BY <1>1, <1>3 DEF TerminalShape
<1> QED
  BY <1>4 DEF s

LEMMA FramedIsShaped ==
    ASSUME NEW first \in Seq(Int), NEW second \in Seq(Int), Len(first) <= MaxFrameBytes, Len(second) <= MaxFrameBytes
    PROVE  FramedShape(Framed(first, second))
<1> DEFINE s == Framed(first, second)
           x == Frame(1, first)
           y == Frame(2, second)
           b == Joined(x, y)
           u == Characters(first, "stdout")
           v == Characters(second, "stderr")
           w == Joined(u, v)
           f == Len(first)
           g == Len(second)
<1>1. s.tty = FALSE /\ s.bytes = b /\ s.frames = <<first, second>>
  BY DEF Framed, Joined
<1>2. s.frames[1] = first /\ s.frames[2] = second /\ ~s.tty
  BY <1>1
<1> HIDE DEF s
<1>3. TextOf(s) = w
  BY <1>2 DEF TextOf, Joined
<1>4. f \in Nat /\ g \in Nat /\ f <= MaxFrameBytes /\ g <= MaxFrameBytes
  OBVIOUS
<1>5. FrameEnd(s, 1) = 2 + f /\ FrameEnd(s, 2) = 4 + f + g
  <2>1. FrameEnd(s, 1) = 1 * 2 + f + 0 /\ FrameEnd(s, 2) = 2 * 2 + f + g
    BY <1>2 DEF FrameEnd, HeaderBytes
  <2> QED
    BY <1>4, <2>1
<1>6. /\ x \in Seq(Int) /\ Len(x) = 2 + f /\ x[1] = 1 /\ x[2] = Number(f) /\ \A i \in 1 .. f : x[2 + i] = first[i]
      /\ y \in Seq(Int) /\ Len(y) = 2 + g /\ y[1] = 2 /\ y[2] = Number(g) /\ \A i \in 1 .. g : y[2 + i] = second[i]
  BY FrameLayout
<1>7. /\ u \in Seq(Chars) /\ Len(u) = f /\ \A i \in 1 .. f : u[i].ch = first[i] /\ u[i].stream = "stdout"
      /\ v \in Seq(Chars) /\ Len(v) = g /\ \A i \in 1 .. g : v[i].ch = second[i] /\ v[i].stream = "stderr"
  BY CharactersShape
<1> HIDE DEF f, g, x, y, u, v
<1>8. /\ b \in Seq(Int) /\ Len(b) = (2 + f) + (2 + g)
      /\ \A i \in 1 .. 2 + f : b[i] = x[i]
      /\ \A i \in 1 .. 2 + g : b[(2 + f) + i] = y[i]
  <2>1. /\ b \in Seq(Int) /\ Len(b) = Len(x) + Len(y)
        /\ \A i \in 1 .. Len(x) : b[i] = x[i]
        /\ \A i \in 1 .. Len(y) : b[Len(x) + i] = y[i]
    BY <1>6, JoinedAt
  <2> HIDE DEF b
  <2> QED
    BY <1>6, <2>1
<1>9. /\ w \in Seq(Chars) /\ Len(w) = f + g
      /\ \A i \in 1 .. f : w[i] = u[i]
      /\ \A i \in 1 .. g : w[f + i] = v[i]
  <2>1. /\ w \in Seq(Chars) /\ Len(w) = Len(u) + Len(v)
        /\ \A i \in 1 .. Len(u) : w[i] = u[i]
        /\ \A i \in 1 .. Len(v) : w[Len(u) + i] = v[i]
    BY <1>7, TextsJoin, ZenonT(30)
  <2> HIDE DEF w
  <2> QED
    BY <1>7, <2>1
<1> HIDE DEF b, w
<1>10. FrameOf(b, w, 0, 2 + f, 0, f, "stdout")
  <2>1. b[1] = 1 /\ b[2] = Number(f)
    <3>1. 1 \in 1 .. 2 + f /\ 2 \in 1 .. 2 + f
      BY <1>4
    <3> QED
      BY <1>6, <1>8, <3>1
  <2>2. ASSUME NEW i \in 1 .. f PROVE b[2 + i] = w[i].ch /\ w[i].stream = "stdout"
    <3>1. 2 + i \in 1 .. 2 + f
      BY <1>4
    <3>2. b[2 + i] = x[2 + i] /\ x[2 + i] = first[i]
      BY <1>6, <1>8, <3>1
    <3>3. w[i] = u[i] /\ u[i].ch = first[i] /\ u[i].stream = "stdout"
      BY <1>7, <1>9
    <3> QED
      BY <3>2, <3>3
  <2>3. /\ f - 0 = f /\ 0 + 1 = 1 /\ 0 + 2 = 2 /\ 0 <= f /\ f <= f + g /\ 2 + f = 0 + 2 + (f - 0)
        /\ 2 + f <= (2 + f) + (2 + g) /\ 2 + f \in Nat
        /\ \A i \in 1 .. f : 0 + i = i
    BY <1>4
  <2>4. \A i \in 1 .. f - 0 : b[0 + 2 + i] = w[0 + i].ch
    BY <2>2, <2>3
  <2>5. \A i \in 0 + 1 .. f : w[i].stream = "stdout"
    BY <2>2, <2>3
  <2>6. b[0 + 1] \in {1, 2} /\ "stdout" = StreamOf(b[0 + 1]) /\ b[0 + 2] = Number(f - 0) /\ f - 0 <= MaxFrameBytes
    BY <1>4, <2>1, <2>3 DEF StreamOf
  <2> QED
    BY <1>4, <1>8, <1>9, <2>3, <2>4, <2>5, <2>6 DEF FrameOf
<1>11. FrameOf(b, w, 2 + f, 4 + f + g, f, f + g, "stderr")
  <2>1. b[(2 + f) + 1] = 2 /\ b[(2 + f) + 2] = Number(g)
    <3>1. 1 \in 1 .. 2 + g /\ 2 \in 1 .. 2 + g
      BY <1>4
    <3> QED
      BY <1>6, <1>8, <3>1
  <2>2. ASSUME NEW i \in 1 .. g PROVE b[(2 + f) + 2 + i] = w[f + i].ch /\ w[f + i].stream = "stderr"
    <3>1. 2 + i \in 1 .. 2 + g /\ (2 + f) + (2 + i) = (2 + f) + 2 + i
      BY <1>4
    <3>2. b[(2 + f) + (2 + i)] = y[2 + i]
      BY <1>8, <3>1
    <3>3. y[2 + i] = second[i] /\ w[f + i] = v[i] /\ v[i].ch = second[i] /\ v[i].stream = "stderr"
      BY <1>6, <1>7, <1>9
    <3> QED
      BY <3>1, <3>2, <3>3
  <2>3. /\ (f + g) - f = g /\ f <= f + g /\ 4 + f + g = (2 + f) + 2 + g
        /\ 4 + f + g <= (2 + f) + (2 + g) /\ 4 + f + g \in Nat /\ 2 + f \in Nat /\ f + g \in Nat
    BY <1>4
  <2>4. \A i \in 1 .. g : b[(2 + f) + 2 + i] = w[f + i].ch
    BY <2>2
  <2>5. ASSUME NEW i \in f + 1 .. f + g PROVE w[i].stream = "stderr"
    <3>1. PICK k \in 1 .. g : i = f + k
      <4>1. i - f \in 1 .. g /\ i = f + (i - f)
        BY <1>4
      <4> QED
        BY <4>1
    <3> QED
      BY <2>2, <3>1
  <2>6. b[(2 + f) + 1] \in {1, 2} /\ "stderr" = StreamOf(b[(2 + f) + 1])
    BY <2>1 DEF StreamOf
  <2> QED
    BY <1>4, <1>8, <1>9, <2>1, <2>3, <2>4, <2>5, <2>6 DEF FrameOf
<1>12. FrameEnd(s, 2) = Len(b)
  BY <1>4, <1>5, <1>8
<1>13. FramedShape(s)
  <2>1. Len(s.frames[1]) = f /\ Len(s.frames[2]) = g
    BY <1>2 DEF f, g
  <2> QED
    BY <1>1, <1>3, <1>4, <1>5, <1>10, <1>11, <1>12, <2>1 DEF FramedShape
<1> QED
  BY <1>13 DEF s

LEMMA LogsAreShaped ==
    ASSUME NEW s \in Logs
    PROVE  s.kind = "log" /\ LogShape(s)
<1>1. ASSUME NEW text \in Texts PROVE text \in Seq(Int) /\ Len(text) <= MaxFrameBytes /\ Len(text) \in Nat
  <2>1. PICK alphabet \in TextAlphabets : text \in BoundedSeq(alphabet, TextBound)
    BY DEF Texts
  <2>2. alphabet \subseteq Byte /\ TextBound \in Nat /\ TextBound <= MaxFrameBytes /\ MaxFrameBytes \in Nat
    BY BoundsAssumption, MaxFrameBytesAssumption
  <2>3. text \in Seq(Int) /\ Len(text) <= TextBound
    BY <2>1, <2>2, BodiesAreBytes
  <2>4. Len(text) \in Nat
    BY <2>3
  <2> QED
    BY <2>2, <2>3, <2>4
<1>2. CASE \E text \in Texts : s = Terminal(text)
  <2>1. PICK text \in Texts : s = Terminal(text)
    BY <1>2
  <2>2. s.kind = "log"
    BY <2>1 DEF Terminal
  <2>3. TerminalShape(s)
    BY <1>1, <2>1, TerminalIsShaped
  <2> QED
    BY <2>2, <2>3 DEF LogShape
<1>3. CASE \E c \in Splits : s = Framed(Left(c[1], c[2]), Rest(c[1], c[2]))
  <2>1. PICK c \in Splits : s = Framed(Left(c[1], c[2]), Rest(c[1], c[2]))
    BY <1>3
  <2> DEFINE first == Left(c[1], c[2])
             second == Rest(c[1], c[2])
  <2>2. PICK text \in Texts, k \in Nat : c[1] = text /\ c[2] = k /\ k <= Len(text)
    <3>1. c[1] \in Texts /\ c[2] \in 0 .. TextBound /\ c[2] <= Len(c[1])
      BY DEF Splits
    <3> QED
      BY <3>1
  <2>3. text \in Seq(Int) /\ Len(text) <= MaxFrameBytes /\ Len(text) \in Nat /\ MaxFrameBytes \in Nat
    BY <1>1, MaxFrameBytesAssumption
  <2>4. first \in Seq(Int) /\ Len(first) <= MaxFrameBytes
    <3>1. SubSeq(text, 0 + 1, k) \in Seq(Int) /\ Len(SubSeq(text, 0 + 1, k)) = k - 0
      BY <2>2, <2>3, PartShape
    <3> QED
      BY <2>2, <2>3, <3>1 DEF Left
  <2>5. second \in Seq(Int) /\ Len(second) <= MaxFrameBytes
    <3>1. SubSeq(text, k + 1, Len(text)) \in Seq(Int) /\ Len(SubSeq(text, k + 1, Len(text))) = Len(text) - k
      BY <2>2, <2>3, PartShape
    <3> QED
      BY <2>2, <2>3, <3>1 DEF Rest
  <2> HIDE DEF first, second
  <2>6. FramedShape(s)
    BY <2>1, <2>4, <2>5, FramedIsShaped DEF first, second
  <2>7. s.kind = "log"
    BY <2>1 DEF Framed
  <2> QED
    BY <2>6, <2>7 DEF LogShape
<1> QED
  BY <1>2, <1>3 DEF Logs

\* The text taken is visible, and its lines have been told.
LEMMA VisibleIsTaken ==
    ASSUME NEW s, NEW n \in Nat, n <= Len(s.bytes), NEW r, LogRests(s, n, r)
    PROVE  Visible(s, n) \in Seq(Chars) /\ LinesAt(Visible(s, n), Len(Visible(s, n)), r)
<1> DEFINE w == TextOf(s)
           m == Completed(s, n)
<1>1. LogAt(w, m, r) /\ w \in Seq(Chars) /\ m \in 0 .. Len(w)
  BY RestIsTaken
<1>2. Visible(s, n) = ShownAt(w, m)
  BY DEF Visible, ShownAt
<1> HIDE DEF w, m
<1>3. m \in Nat /\ m <= Len(w)
  <2>1. Len(w) \in Nat
    BY <1>1
  <2> QED
    BY <1>1, <2>1
<1>4. ShownAt(w, m) \in Seq(Chars)
  BY <1>1, <1>3, ScanTypes
<1> QED
  BY <1>1, <1>2, <1>4 DEF LogAt

\* What the end of the stream adds.
LEMMA LogIsFinished ==
    ASSUME NEW s, NEW n \in Nat, n <= Len(s.bytes), NEW r, LogRests(s, n, r)
    PROVE  EndShown(Visible(s, n), Len(Visible(s, n)), LogFlush(r).out)
BY VisibleIsTaken, LinesAreFlushed

-----------------------------------------------------------------------------
\* The three kinds of stream as StreamFraming feeds them.
StreamShape ==
    /\ stream.kind \in {"http", "json", "log"}
    /\ stream.kind = "http" => ResponseShape(stream)
    /\ stream.kind = "json" => stream.bytes \in Seq(Int)
    /\ stream.kind = "log" => LogShape(stream)

JsonInv ==
    IF closed THEN LinesAreRead ELSE JsonRests(stream.bytes, sent, reader)

HttpInv ==
    /\ handed = BodyAt(stream, sent)
    /\ IF closed
       THEN /\ (reader.state = "Complete") = HttpOver(stream, sent)
            /\ (reader.state = "Failed") = ~HttpOver(stream, sent)
       ELSE HttpSettled(stream, sent, reader, Len(handed))

LogInv ==
    IF closed
    THEN EndShown(Visible(stream, sent), Len(Visible(stream, sent)), reader.out)
    ELSE LogRests(stream, sent, reader)

LinesInv ==
    /\ StreamShape /\ closed \in BOOLEAN
    /\ sent \in Nat /\ sent <= Len(stream.bytes)
    /\ stream.kind = "http" => HttpInv
    /\ stream.kind = "json" => JsonInv
    /\ stream.kind = "log" => LogInv

\* Taking the body changes only how much of it is taken.
LEMMA BodyIsTaken ==
    ASSUME NEW s, ResponseShape(s), NEW n \in Nat, n <= Len(s.bytes), NEW p, NEW t, HttpSettled(s, n, p, t)
    PROVE  HttpSettled(s, n, BodyTaken(p), Len(BodyAt(s, n)))
<1> DEFINE q == BodyTaken(p)
           u == Len(BodyAt(s, n))
<1>1. PICK c \in 0 .. n : HttpAt(s, n, c, p, t) /\ Settled(s, n, c)
  BY DEF HttpSettled
<1>2. /\ p \in Parsers /\ p.buffer = SubSeq(s.bytes, c + 1, n) /\ p.body = BodyAt(s, c) /\ Place(s, c, p)
  BY <1>1 DEF HttpAt
<1>3. BodyAt(s, c) = BodyAt(s, n) /\ BodyAt(s, n) \in Seq(Int)
  <2>1. BodyAt(s, c) = BodyAt(s, n)
    BY <1>1 DEF Settled
  <2>2. n <= n
    OBVIOUS
  <2> QED
    BY <2>1, <2>2, BodyGoesOn
<1>4. u \in Nat /\ Len(p.body) = u
  BY <1>2, <1>3
<1>5. q = [p EXCEPT !.taken = u]
  BY <1>4 DEF BodyTaken
<1> HIDE DEF q, u
<1>6. /\ q \in Parsers /\ q.buffer = p.buffer /\ q.body = p.body /\ q.taken = u
      /\ q.state = p.state /\ q.mode = p.mode /\ q.headers = p.headers /\ q.status = p.status /\ q.expected = p.expected
  BY <1>2, <1>4, <1>5 DEF Parsers
<1>7. Place(s, c, q)
  BY <1>2, <1>6 DEF Place
<1>8. HttpAt(s, n, c, q, u)
  BY <1>1, <1>2, <1>6, <1>7 DEF HttpAt
<1>9. HttpSettled(s, n, q, u)
  BY <1>1, <1>8 DEF HttpSettled
<1> QED
  BY <1>9 DEF q, u

LEMMA StreamsAreShaped ==
    ASSUME stream \in Streams
    PROVE  StreamShape
<1>1. CASE stream \in Responses
  BY <1>1, ResponsesAreShaped DEF StreamShape
<1>2. CASE stream \in JsonStreams
  BY <1>2, JsonStreamsAreBytes DEF StreamShape
<1>3. CASE stream \in Logs
  <2>1. stream.kind = "log" /\ LogShape(stream)
    BY <1>3, LogsAreShaped
  <2> QED
    BY <2>1 DEF StreamShape
<1> QED
  BY <1>1, <1>2, <1>3 DEF Streams

LEMMA LogBytes ==
    ASSUME NEW s, LogShape(s)
    PROVE  Len(s.bytes) \in Nat
<1>1. CASE TerminalShape(s)
  BY <1>1 DEF TerminalShape
<1>2. CASE FramedShape(s)
  BY <1>2, FrameNumbers
<1> QED
  BY <1>1, <1>2 DEF LogShape

LEMMA LinesStart == Init => LinesInv
<1> SUFFICES ASSUME Init PROVE LinesInv
  OBVIOUS
<1>1. /\ stream \in Streams /\ sent = 0 /\ closed = FALSE /\ reader = NewReaderOf(stream) /\ handed = <<>>
  BY DEF Init
<1>2. StreamShape
  BY <1>1, StreamsAreShaped
<1>3. CASE stream.kind = "http"
  <2>1. ResponseShape(stream) /\ reader = Reset
    BY <1>1, <1>2, <1>3 DEF StreamShape, NewReaderOf
  <2>2. HttpSettled(stream, 0, Reset, 0) /\ BodyAt(stream, 0) = <<>> /\ Len(stream.bytes) \in Nat
    BY <2>1, HttpStarts, ResponseNumbers
  <2>3. HttpSettled(stream, sent, reader, Len(handed)) /\ handed = BodyAt(stream, sent)
    <3>1. handed = <<>> => Len(handed) = 0
      OBVIOUS
    <3> QED
      BY <1>1, <2>1, <2>2, <3>1
  <2>4. sent \in Nat /\ sent <= Len(stream.bytes) /\ closed \in BOOLEAN
    <3>1. sent = 0
      BY <1>1
    <3>2. sent \in Nat /\ sent <= Len(stream.bytes)
      BY <2>2, <3>1
    <3>3. closed \in BOOLEAN
      <4>1. closed = FALSE
        BY <1>1
      <4> QED
        BY <4>1
    <3> QED
      BY <3>2, <3>3
  <2>5. HttpInv
    BY <1>1, <2>3 DEF HttpInv
  <2> QED
    BY <1>2, <1>3, <2>4, <2>5 DEF LinesInv
<1>4. CASE stream.kind = "json"
  <2>1. stream.bytes \in Seq(Int) /\ reader = NewReader
    BY <1>1, <1>2, <1>4 DEF StreamShape, NewReaderOf
  <2> DEFINE b == stream.bytes
             n == 0
  <2>2. Len(b) \in Nat /\ SubSeq(b, 1, 0) = <<>>
    BY <2>1
  <2>3. reader \in JsonReaders /\ reader.buffer = <<>> /\ reader.dropping = FALSE /\ reader.objects = 0
        /\ reader.malformed = 0 /\ reader.dropped = 0
    BY <2>1 DEF NewReader, JsonReaders
  <2>4. JsonAt(b, 0, reader, 0, 0)
    <3>1. LineIs(b, 0, 0)
      BY <2>1 DEF LineIs
    <3>2. NewlinesTo(b, 0) = {}
      BY DEF NewlinesTo
    <3>3. Objects(b, {}) = {} /\ Others(b, {}) = {} /\ Longs(b, {}) = {}
      BY DEF Objects, Others, Longs
    <3>4. Cardinality({}) = 0
      BY FS_EmptySet
    <3>5. reader.objects = Cardinality(Objects(b, NewlinesTo(b, 0))) /\ reader.malformed = Cardinality(Others(b, NewlinesTo(b, 0)))
      BY <2>3, <3>2, <3>3, <3>4
    <3>6. reader.dropped = Cardinality(Longs(b, NewlinesTo(b, 0))) + (IF reader.dropping THEN 1 ELSE 0)
      <4>1. (IF reader.dropping THEN 1 ELSE 0) = 0
        <5>1. ~reader.dropping
          BY <2>3
        <5> QED
          BY <5>1
      <4>2. reader.dropped = 0 /\ Cardinality(Longs(b, NewlinesTo(b, 0))) = 0
        BY <2>3, <3>2, <3>3, <3>4
      <4> QED
        BY <4>1, <4>2
    <3>7. /\ reader \in JsonReaders /\ 0 \in 0 .. 0 /\ reader.buffer = SubSeq(b, 0 + 1, 0)
          /\ reader.dropping = (0 # 0)
          /\ reader.dropping => 0 - 0 > MaxLineBytes
      <4>1. SubSeq(b, 0 + 1, 0) = <<>> /\ 0 \in 0 .. 0
        BY <2>2
      <4>2. ~reader.dropping /\ reader.dropping = FALSE
        BY <2>3
      <4> QED
        BY <2>3, <4>1, <4>2
    <3> QED
      BY <3>1, <3>5, <3>6, <3>7 DEF JsonAt
  <2>5. JsonRests(b, 0, reader)
    <3>1. 0 - 0 <= MaxLineBytes
      BY MaxLineBytesAssumption
    <3> QED
      BY <2>4, <3>1 DEF JsonRests
  <2>6. sent \in Nat /\ sent <= Len(stream.bytes) /\ closed \in BOOLEAN
    <3>1. sent = 0
      BY <1>1
    <3>2. sent \in Nat /\ sent <= Len(stream.bytes)
      BY <2>2, <3>1
    <3>3. closed \in BOOLEAN
      <4>1. closed = FALSE
        BY <1>1
      <4> QED
        BY <4>1
    <3> QED
      BY <3>2, <3>3
  <2>7. JsonInv
    BY <1>1, <2>5 DEF JsonInv
  <2> QED
    BY <1>2, <1>4, <2>6, <2>7 DEF LinesInv
<1>5. CASE stream.kind = "log"
  <2>1. LogShape(stream) /\ reader = NewFrames(stream.tty) /\ sent = 0
    BY <1>1, <1>2, <1>5 DEF StreamShape, NewReaderOf
  <2>2. LogRests(stream, sent, reader)
    BY <2>1, LogStarts
  <2>3. LogInv
    BY <1>1, <2>2 DEF LogInv
  <2>4. sent \in Nat /\ sent <= Len(stream.bytes)
    BY <2>1, LogBytes
  <2>5. closed \in BOOLEAN
    <3>1. closed = FALSE
      BY <1>1
    <3> QED
      BY <3>1
  <2> QED
    BY <1>2, <1>5, <2>3, <2>4, <2>5 DEF LinesInv
<1> QED
  BY <1>2, <1>3, <1>4, <1>5 DEF StreamShape

LEMMA LinesGoOn == LinesInv /\ [Next]_vars => LinesInv'
<1> SUFFICES ASSUME LinesInv, [Next]_vars PROVE LinesInv'
  OBVIOUS
<1>1. StreamShape /\ stream.kind \in {"http", "json", "log"}
  BY DEF LinesInv, StreamShape
<1>2. CASE PieceArrives
  <2>1. PICK n \in sent + 1 .. Len(stream.bytes) :
          LET r == Feed(reader, SubSeq(stream.bytes, sent + 1, n))
          IN  sent' = n /\ reader' = Taken(r) /\ handed' = handed \o Body(r)
    BY <1>2 DEF PieceArrives
  <2>2. stream' = stream /\ closed' = closed /\ closed = FALSE
    <3>1. ~closed /\ stream' = stream /\ closed' = closed
      BY <1>2 DEF PieceArrives
    <3>2. closed \in BOOLEAN
      BY DEF LinesInv
    <3> QED
      BY <3>1, <3>2
  <2>3. StreamShape'
    BY <1>1, <2>2 DEF StreamShape
  <2>4. CASE stream.kind = "http"
    <3> DEFINE piece == SubSeq(stream.bytes, sent + 1, n)
               r == HttpFeed(reader, piece)
    <3>1. /\ ResponseShape(stream) /\ sent \in Nat /\ sent <= Len(stream.bytes) /\ HttpInv
          /\ Len(stream.bytes) \in Nat
      BY <1>1, <2>4, ResponseNumbers DEF LinesInv, StreamShape
    <3>2. n \in Nat /\ sent < n /\ n <= Len(stream.bytes) /\ sent <= n
      BY <3>1
    <3>3. /\ HttpSettled(stream, sent, reader, Len(handed)) /\ handed = BodyAt(stream, sent)
      BY <2>2, <3>1 DEF HttpInv
    <3>4. HttpSettled(stream, n, r, Len(handed))
      BY <3>1, <3>2, <3>3, HttpFed
    <3>5. reader' = BodyTaken(r) /\ handed' = Joined(handed, Rest(r.body, r.taken)) /\ sent' = n
      BY <2>1, <2>4 DEF Feed, Taken, Body, TakeBody, Joined
    <3> HIDE DEF r, piece
    <3>6. r.body = BodyAt(stream, n) /\ r.taken = Len(handed)
      BY <3>1, <3>2, <3>4, HttpReported
    <3>7. handed' = BodyAt(stream, n)
      BY <3>1, <3>2, <3>3, <3>5, <3>6, BodyGoesOn
    <3>8. HttpSettled(stream, n, reader', Len(BodyAt(stream, n)))
      BY <3>1, <3>2, <3>4, <3>5, BodyIsTaken
    <3>9. HttpSettled(stream', sent', reader', Len(handed')) /\ handed' = BodyAt(stream', sent') /\ closed' = FALSE
      BY <2>2, <3>5, <3>7, <3>8
    <3>10. HttpInv'
      BY <3>9 DEF HttpInv
    <3> QED
      BY <2>2, <2>3, <2>4, <3>2, <3>5, <3>10 DEF LinesInv
  <2>5. CASE stream.kind = "json"
    <3>1. stream.bytes \in Seq(Int) /\ sent \in Nat /\ sent <= Len(stream.bytes) /\ JsonInv
      BY <1>1, <2>5 DEF LinesInv, StreamShape
    <3>2. JsonRests(stream.bytes, sent, reader)
      BY <2>2, <3>1 DEF JsonInv
    <3>3. n \in Nat /\ sent <= n /\ n <= Len(stream.bytes)
      <4>1. Len(stream.bytes) \in Nat
        BY <3>1
      <4> QED
        BY <3>1, <4>1
    <3>4. reader' = JsonFeed(reader, SubSeq(stream.bytes, sent + 1, n)) /\ sent' = n
      BY <2>1, <2>5 DEF Feed, Taken
    <3>5. JsonRests(stream.bytes, n, reader')
      BY <3>1, <3>2, <3>3, <3>4, LinesAreFed
    <3>6. JsonInv'
      BY <2>2, <3>4, <3>5 DEF JsonInv
    <3> QED
      BY <2>2, <2>3, <2>5, <3>3, <3>4, <3>6 DEF LinesInv
  <2>6. CASE stream.kind = "log"
    <3>1. LogShape(stream) /\ sent \in Nat /\ sent <= Len(stream.bytes) /\ LogInv
      BY <1>1, <2>6 DEF LinesInv, StreamShape
    <3>2. LogRests(stream, sent, reader)
      BY <2>2, <3>1 DEF LogInv
    <3>3. n \in Nat /\ sent <= n /\ n <= Len(stream.bytes)
      <4>1. Len(stream.bytes) \in Nat
        BY <3>1, LogBytes
      <4> QED
        BY <3>1, <4>1
    <3>4. reader' = LogFeed(reader, SubSeq(stream.bytes, sent + 1, n)) /\ sent' = n
      BY <2>1, <2>6 DEF Feed, Taken
    <3>5. LogRests(stream, n, reader')
      BY <3>1, <3>2, <3>3, <3>4, LogIsFed
    <3>6. LogInv'
      BY <2>2, <3>4, <3>5 DEF LogInv
    <3> QED
      BY <2>2, <2>3, <2>6, <3>3, <3>4, <3>6 DEF LinesInv
  <2> QED
    BY <1>1, <2>4, <2>5, <2>6
<1>3. CASE ConnectionEnds
  <2>1. /\ stream' = stream /\ sent' = sent /\ closed' = TRUE /\ ~closed
        /\ reader' = Taken(Finish(reader)) /\ handed' = handed \o Body(Finish(reader))
    BY <1>3 DEF ConnectionEnds
  <2>2. closed = FALSE
    BY <2>1 DEF LinesInv
  <2>3. StreamShape'
    BY <1>1, <2>1 DEF StreamShape
  <2>4. CASE stream.kind = "http"
    <3> DEFINE r == HttpFinish(reader)
    <3>1. ResponseShape(stream) /\ sent \in Nat /\ sent <= Len(stream.bytes) /\ HttpInv
      BY <1>1, <2>4 DEF LinesInv, StreamShape
    <3>2. HttpSettled(stream, sent, reader, Len(handed)) /\ handed = BodyAt(stream, sent)
      BY <2>2, <3>1 DEF HttpInv
    <3>3. /\ r.body = BodyAt(stream, sent) /\ r.taken = Len(handed) /\ r \in Parsers
          /\ r.state = "Complete" <=> HttpOver(stream, sent)
          /\ r.state = "Failed" <=> ~HttpOver(stream, sent)
      BY <3>1, <3>2, HttpFinished
    <3>4. reader' = BodyTaken(r) /\ handed' = Joined(handed, Rest(r.body, r.taken))
      BY <2>1, <2>4 DEF Finish, Taken, Body, TakeBody, Joined
    <3> HIDE DEF r
    <3>5. handed' = BodyAt(stream, sent)
      <4>1. sent <= sent
        BY <3>1
      <4> QED
        BY <3>1, <3>2, <3>3, <3>4, <4>1, BodyGoesOn
    <3>6. reader'.state = r.state
      BY <3>3, <3>4 DEF BodyTaken, Parsers
    <3>7. HttpInv'
      BY <2>1, <3>3, <3>5, <3>6 DEF HttpInv, HttpOver
    <3> QED
      BY <2>1, <2>3, <2>4, <3>1, <3>7 DEF LinesInv
  <2>5. CASE stream.kind = "json"
    <3>1. stream.bytes \in Seq(Int) /\ sent \in Nat /\ sent <= Len(stream.bytes) /\ JsonInv
      BY <1>1, <2>5 DEF LinesInv, StreamShape
    <3>2. JsonRests(stream.bytes, sent, reader)
      BY <2>2, <3>1 DEF JsonInv
    <3> DEFINE ends == NewlinesTo(stream.bytes, sent) \cup {sent + 1}
    <3>3. reader' = JsonFinish(reader)
      BY <2>1, <2>5 DEF Finish, Taken
    <3>4. JsonReports(stream.bytes, reader', ends, ends)
      BY <3>1, <3>2, <3>3, LinesAreFinished
    <3>5. LinesAreRead'
      BY <2>1, <3>4 DEF LinesAreRead, JsonReports
    <3>6. JsonInv'
      BY <2>1, <3>5 DEF JsonInv
    <3> QED
      BY <2>1, <2>3, <2>5, <3>1, <3>6 DEF LinesInv
  <2>6. CASE stream.kind = "log"
    <3>1. sent \in Nat /\ sent <= Len(stream.bytes) /\ LogInv
      BY <2>6 DEF LinesInv
    <3>2. LogRests(stream, sent, reader)
      BY <2>2, <3>1 DEF LogInv
    <3>3. reader' = LogFlush(reader)
      BY <2>1, <2>6 DEF Finish, Taken
    <3>4. EndShown(Visible(stream, sent), Len(Visible(stream, sent)), reader'.out)
      BY <3>1, <3>2, <3>3, LogIsFinished
    <3>5. LogInv'
      BY <2>1, <3>4 DEF LogInv
    <3> QED
      BY <2>1, <2>3, <2>6, <3>1, <3>5 DEF LinesInv
  <2> QED
    BY <1>1, <2>4, <2>5, <2>6
<1>4. CASE UNCHANGED vars
  <2>1. stream' = stream /\ sent' = sent /\ closed' = closed /\ reader' = reader /\ handed' = handed
    BY <1>4 DEF vars
  <2>2. StreamShape'
    BY <1>1, <2>1 DEF StreamShape
  <2>3. HttpInv => HttpInv'
    BY <2>1 DEF HttpInv
  <2>4. JsonInv => JsonInv'
    BY <2>1 DEF JsonInv, LinesAreRead
  <2>5. LogInv => LogInv'
    BY <2>1 DEF LogInv
  <2> QED
    BY <2>1, <2>2, <2>3, <2>4, <2>5 DEF LinesInv
<1> QED
  BY <1>2, <1>3, <1>4 DEF Next

-----------------------------------------------------------------------------
\* What the invariant says of what the readers report.
LEMMA JsonIsRead == LinesInv /\ stream.kind = "json" => LinesAreRead
<1> SUFFICES ASSUME LinesInv, stream.kind = "json" PROVE LinesAreRead
  OBVIOUS
<1>1. stream.bytes \in Seq(Int) /\ sent \in Nat /\ sent <= Len(stream.bytes) /\ JsonInv /\ closed \in BOOLEAN
  BY DEF LinesInv, StreamShape
<1>2. CASE closed = TRUE
  BY <1>1, <1>2 DEF JsonInv
<1>3. CASE closed = FALSE
  <2> DEFINE newlines == NewlinesTo(stream.bytes, sent)
  <2>1. JsonReports(stream.bytes, reader, newlines, newlines \cup {sent + 1})
    BY <1>1, <1>3, LinesAreReported DEF JsonInv
  <2>2. newlines \cup (IF closed THEN {sent + 1} ELSE {}) = newlines
    BY <1>3
  <2> QED
    BY <2>1, <2>2 DEF LinesAreRead, JsonReports
<1> QED
  BY <1>1, <1>2, <1>3

LEMMA HttpIsRead == LinesInv /\ stream.kind = "http" => ResponseIsRead
<1> SUFFICES ASSUME LinesInv, stream.kind = "http" PROVE ResponseIsRead
  OBVIOUS
<1>1. ResponseShape(stream) /\ sent \in Nat /\ sent <= Len(stream.bytes) /\ HttpInv /\ closed \in BOOLEAN
  BY DEF LinesInv, StreamShape
<1>2. Len(stream.bytes) \in Nat /\ stream.head \in Nat
  BY <1>1, ResponseNumbers
<1>3. handed = IF stream.mode = "ContentLength" /\ ~(sent = Len(stream.bytes)) THEN <<>>
               ELSE Left(BodyOf(stream), Arrived(stream, 1, sent) + Arrived(stream, 2, sent))
  <2>1. handed = BodyAt(stream, sent)
    BY <1>1 DEF HttpInv
  <2>2. (sent < Len(stream.bytes)) <=> ~(sent = Len(stream.bytes))
    BY <1>1, <1>2
  <2> QED
    BY <2>1, <2>2 DEF BodyAt, ArrivedTo
<1> DEFINE over == IF stream.mode = "UntilEof" THEN closed /\ sent >= stream.head ELSE sent = Len(stream.bytes)
<1>4. (reader.state = "Complete") = over /\ (reader.state = "Failed") = (closed /\ ~over)
  <2>1. CASE closed = TRUE
    BY <1>1, <2>1 DEF HttpInv, HttpOver
  <2>2. CASE closed = FALSE
    <3>1. HttpSettled(stream, sent, reader, Len(handed))
      BY <1>1, <2>2 DEF HttpInv
    <3>2. /\ reader.state = "Complete" <=> stream.mode # "UntilEof" /\ sent = Len(stream.bytes)
          /\ reader.state # "Failed"
      BY <1>1, <3>1, HttpReported
    <3> QED
      BY <2>2, <3>2
  <2> QED
    BY <1>1, <2>1, <2>2
<1> QED
  BY <1>3, <1>4 DEF ResponseIsRead

LEMMA LogIsReported == LinesInv /\ stream.kind = "log" => LogIsRead
<1> SUFFICES ASSUME LinesInv, stream.kind = "log" PROVE LogIsRead
  OBVIOUS
<1>1. sent \in Nat /\ sent <= Len(stream.bytes) /\ LogInv /\ closed \in BOOLEAN
  BY DEF LinesInv
<1> DEFINE V == Visible(stream, sent)
           n == Len(V)
           S == Shown(V, n)
<1>2. CASE closed = TRUE
  <2>1. EndShown(V, n, reader.out)
    BY <1>1, <1>2 DEF LogInv
  <2> HIDE DEF V, n, S
  <2> QED
    BY <1>2, <2>1 DEF LogIsRead, EndShown, LineShown, V, n
<1>3. CASE closed = FALSE
  <2>1. LogRests(stream, sent, reader)
    BY <1>1, <1>3 DEF LogInv
  <2>2. Reported(V, n, reader.out) /\ Len(reader.out) \in Nat
    BY <1>1, <2>1, VisibleIsTaken DEF LinesAt, LogReaders
  <2>3. Len(reader.out) = Cardinality(S) /\ \A i \in S : LineShown(V, n, reader.out, i)
    BY <2>2 DEF Reported
  <2>4. Len(reader.out) = Cardinality(S) + 0
    BY <2>2, <2>3
  <2> HIDE DEF V, n, S
  <2> QED
    BY <1>3, <2>3, <2>4 DEF LogIsRead, LineShown, V, n, S
<1> QED
  BY <1>1, <1>2, <1>3

LEMMA LinesAlways == Spec => []LinesInv
BY LinesStart, LinesGoOn, PTL DEF Spec

\* A reader of JSON lines reports exactly the lines received, objects, malformed and oversized ones, each
\* once, however the engine cuts the stream (JsonLineReader::feed, finish).
THEOREM JsonLinesAreRead == Spec => [](stream.kind = "json" => LinesAreRead)
<1>1. LinesInv => (stream.kind = "json" => LinesAreRead)
  BY JsonIsRead
<1> QED
  BY <1>1, LinesAlways, PTL

\* A response parser hands out exactly the body bytes received, and is done, or fails, exactly when the
\* response is over or cut, however it arrives (HttpResponseParser::feed, finishInput, takeBody).
THEOREM ResponsesAreRead == Spec => [](stream.kind = "http" => ResponseIsRead)
<1>1. LinesInv => (stream.kind = "http" => ResponseIsRead)
  BY HttpIsRead
<1> QED
  BY <1>1, LinesAlways, PTL

\* A log reader shows exactly the lines of the visible text received, in their order, each under the stream of
\* its first character: complete where a newline ends it, provisional where a carriage return is about to
\* overwrite it.  Escape sequences and frame headers are in none of them, however the engine cuts the frames,
\* and the end of the stream shows what is left (LogFrameReader::feed, appendText, flush).
THEOREM LogLinesAreRead == Spec => [](stream.kind = "log" => LogIsRead)
<1>1. LinesInv => (stream.kind = "log" => LogIsRead)
  BY LogIsReported
<1> QED
  BY <1>1, LinesAlways, PTL

\* What the three readers say depends on the bytes received and on the end of the connection, and not on the
\* pieces they came in (HttpResponseParser, JsonLineReader, LogFrameReader).
THEOREM FramingHolds == Spec => []FramingIsInvisible
<1>1. LinesInv => FramingIsInvisible
  <2> SUFFICES ASSUME LinesInv PROVE FramingIsInvisible
    OBVIOUS
  <2>1. stream.kind \in {"http", "json", "log"}
    BY DEF LinesInv, StreamShape
  <2>2. CASE stream.kind = "http"
    BY <2>2, HttpIsRead DEF FramingIsInvisible
  <2>3. CASE stream.kind = "json"
    BY <2>3, JsonIsRead DEF FramingIsInvisible
  <2>4. CASE stream.kind = "log"
    BY <2>4, LogIsReported DEF FramingIsInvisible
  <2> QED
    BY <2>1, <2>2, <2>3, <2>4
<1> QED
  BY <1>1, LinesAlways, PTL
=============================================================================
