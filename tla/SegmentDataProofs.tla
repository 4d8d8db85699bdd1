-------------------------- MODULE SegmentDataProofs --------------------------
(***************************************************************************)
(* Theorems about SegmentData: the arithmetic of segments, for every size  *)
(* of a segment, every width of the count and files of every size.         *)
(***************************************************************************)
EXTENDS SegmentData, SequenceTheorems, TLAPS

-----------------------------------------------------------------------------
(* Division.                                                               *)

(* Quotient and remainder.                                                 *)
LEMMA Division ==
    ASSUME NEW a \in Nat, NEW b \in Nat \ {0}
    PROVE  \E q \in Nat, r \in 0..(b - 1) :
               a \div b = q /\ a % b = r /\ a = q * b + r
<1>1. b > 0
  OBVIOUS
<1>2. PICK q \in Nat, r \in 0..(b - 1) : a \div b = q /\ a % b = r
  OBVIOUS
<1>3. a = b * (a \div b) + (a % b)
  BY <1>1
<1>4. a = b * q + r
  BY <1>2, <1>3
<1>5. a = q * b + r
  BY <1>4
<1>6. QED
  BY <1>2, <1>5

(* A product grows by at least one factor.                                 *)
LEMMA NextMultiple ==
    ASSUME NEW a \in Nat, NEW b \in Nat, NEW c \in Nat, a < b
    PROVE  a * c + c <= b * c
  OBVIOUS

(* A segment number is below another one when its first byte is.           *)
LEMMA LessMultiple ==
    ASSUME NEW a \in Nat, NEW b \in Nat, NEW c \in Nat \ {0}, a * c < b * c
    PROVE  a < b
  OBVIOUS

(* The quotient and the remainder are the only ones.                       *)
LEMMA DivisionUnique ==
    ASSUME NEW a \in Nat, NEW b \in Nat \ {0}, NEW q \in Nat, NEW r \in 0..(b - 1),
           a = q * b + r
    PROVE  a \div b = q /\ a % b = r
  OBVIOUS

-----------------------------------------------------------------------------
(* The header.                                                             *)

Files == [name : Names, size : Sizes]

(* A name is a sequence of characters other than NUL, at most one longer   *)
(* than its field.                                                         *)
LEMMA NamesAreSequences ==
    ASSUME NEW name \in Names
    PROVE  /\ name \in Seq({Char})
           /\ Len(name) \in 1..(FILE_NAME_LENGHT + 1)
           /\ \A i \in 1..Len(name) : name[i] = Char
<1>1. PICK n \in 1..(FILE_NAME_LENGHT + 1) : name \in [1..n -> {Char}]
  BY DEF Names
<1>2. QED
  BY <1>1, FieldAssumption

(* Reading a name out of its field cuts it down to the length of the field *)
(* and does nothing else to it.                                            *)
LEMMA FieldRead ==
    ASSUME NEW name \in Names, NEW m \in 1..FILE_NAME_LENGHT,
           m = Len(name) \/ (m = FILE_NAME_LENGHT /\ m <= Len(name)),
           NEW field, field = [i \in 1..FILE_NAME_LENGHT |->
                                   IF i <= Len(name) THEN name[i] ELSE NUL]
    PROVE  NameIn(field) = SubSeq(name, 1, m)
<1> USE FieldAssumption, CharAssumption, NamesAreSequences
<1>1. field \in Seq({Char, NUL}) /\ Len(field) = FILE_NAME_LENGHT
  <2>1. field \in [1..FILE_NAME_LENGHT -> {Char, NUL}]
    OBVIOUS
  <2>2. QED
    BY <2>1
<1>2. \A i \in 1..m : field[i] = name[i] /\ field[i] # NUL
  OBVIOUS
<1>3. m = FILE_NAME_LENGHT \/ field[m + 1] = NUL
  OBVIOUS
<1>4. ASSUME NEW n \in 0..FILE_NAME_LENGHT, \A i \in 1..n : field[i] # NUL,
             n = FILE_NAME_LENGHT \/ field[n + 1] = NUL
      PROVE  n = m
  <2>1. ~(n < m)
    <3>1. SUFFICES ASSUME n < m
                   PROVE  FALSE
      OBVIOUS
    <3>2. n + 1 \in 1..m /\ n # FILE_NAME_LENGHT
      BY <3>1
    <3>3. QED
      BY <1>2, <1>4, <3>2
  <2>2. ~(m < n)
    <3>1. SUFFICES ASSUME m < n
                   PROVE  FALSE
      OBVIOUS
    <3>2. m + 1 \in 1..n /\ m # FILE_NAME_LENGHT
      BY <3>1
    <3>3. QED
      BY <1>3, <1>4, <3>2
  <2>3. QED
    BY <2>1, <2>2
<1>5. NameIn(field) = SubSeq(field, 1, m)
  <2>1. (CHOOSE n \in 0..FILE_NAME_LENGHT :
            /\ \A i \in 1..n : field[i] # NUL
            /\ n = FILE_NAME_LENGHT \/ field[n + 1] = NUL) = m
    BY <1>2, <1>3, <1>4
  <2>2. QED
    BY <2>1 DEF NameIn
<1>6. QED
  <2>1. m \in 1..(Len(name) + 1) /\ m \in 0..Len(name) /\ m \in 0..Len(field)
    BY <1>1
  <2>2. SubSeq(field, 1, m) = [i \in 1..m |-> field[i]]
    BY <1>1, <2>1
  <2>3. SubSeq(name, 1, m) = [i \in 1..m |-> name[i]]
    BY <2>1
  <2>4. QED
    BY <1>2, <1>5, <2>2, <2>3

(* What the receiver of a header knows: the size, and the name if it fits. *)
LEMMA HeaderRead ==
    ASSUME NEW r \in Files, NEW t, t = FromHeader(generate_resource_header(r))
    PROVE  /\ t \in Files /\ t.size = r.size /\ Len(t.name) <= FILE_NAME_LENGHT
           /\ Len(r.name) <= FILE_NAME_LENGHT => t = r
<1> USE FieldAssumption DEF Files
<1>1. PICK field : field = [i \in 1..FILE_NAME_LENGHT |->
                                IF i <= Len(r.name) THEN r.name[i] ELSE NUL]
  OBVIOUS
<1>2. t = [name |-> NameIn(field), size |-> r.size]
  BY <1>1 DEF FromHeader, generate_resource_header, Resource
<1>3. /\ r.name \in Seq({Char}) /\ Len(r.name) \in 1..(FILE_NAME_LENGHT + 1)
      /\ \A i \in 1..Len(r.name) : r.name[i] = Char
  BY NamesAreSequences
<1>4. PICK m \in 1..FILE_NAME_LENGHT :
         \/ m = Len(r.name)
         \/ m = FILE_NAME_LENGHT /\ m < Len(r.name)
  BY <1>3
<1>5. NameIn(field) = SubSeq(r.name, 1, m)
  BY <1>1, <1>3, <1>4, FieldRead
<1>6. SubSeq(r.name, 1, m) = [i \in 1..m |-> r.name[i]]
  BY <1>3, <1>4
<1>7. SubSeq(r.name, 1, m) \in [1..m -> {Char}]
  <2>1. \A i \in 1..m : r.name[i] \in {Char}
    BY <1>3, <1>4
  <2>2. [i \in 1..m |-> r.name[i]] \in [1..m -> {Char}]
    BY <2>1, Zenon
  <2>3. QED
    BY <1>6, <2>2, Zenon
<1>8. SubSeq(r.name, 1, m) \in Names /\ Len(SubSeq(r.name, 1, m)) = m
  BY <1>6, <1>7 DEF Names
<1>9. m = Len(r.name) => SubSeq(r.name, 1, m) = r.name
  BY <1>3, <1>4, SubSeqFull
<1>10. Len(r.name) <= FILE_NAME_LENGHT => m = Len(r.name)
  BY <1>3, <1>4
<1>11. t \in Files /\ t.size = r.size /\ Len(t.name) <= FILE_NAME_LENGHT
  BY <1>2, <1>5, <1>8
<1>12. ASSUME Len(r.name) <= FILE_NAME_LENGHT
       PROVE  t = r
  <2>1. NameIn(field) = r.name
    BY <1>5, <1>9, <1>10, <1>12
  <2>2. QED
    BY <1>2, <2>1
<1>13. QED
  BY <1>11, <1>12

-----------------------------------------------------------------------------
(* Segments.                                                               *)

(* The count fits its type, whatever it counts.                            *)
LEMMA CountTyped ==
    ASSUME NEW r \in Files
    PROVE  calc_segments_count(r) \in 0..Uint16Max
<1>1. r.size \in Nat
  BY MaxSizeAssumption DEF Files, Sizes
<1>2. PICK n \in Nat :
         n = (r.size \div SEGMENT_SIZE) + IF r.size % SEGMENT_SIZE = 0 THEN 0 ELSE 1
  BY <1>1, SegmentSizeAssumption, Division
<1>3. n % (Uint16Max + 1) \in 0..((Uint16Max + 1) - 1)
  BY WidthAssumption, Division
<1>4. QED
  BY <1>2, <1>3, WidthAssumption DEF calc_segments_count

(* A file that is not too long is counted right.                           *)
LEMMA CountExact ==
    ASSUME NEW r \in Files, Countable(r), NEW q \in Nat,
           NEW t \in 0..(SEGMENT_SIZE - 1), r.size = q * SEGMENT_SIZE + t
    PROVE  /\ r.size \div SEGMENT_SIZE = q
           /\ q <= Uint16Max
           /\ calc_segments_count(r) = IF t = 0 THEN q ELSE q + 1
<1> USE SegmentSizeAssumption, WidthAssumption
<1>1. r.size \in Nat
  BY MaxSizeAssumption DEF Files, Sizes
<1>2. r.size \div SEGMENT_SIZE = q /\ r.size % SEGMENT_SIZE = t
  BY <1>1, DivisionUnique
<1>3. q * SEGMENT_SIZE + t <= Uint16Max * SEGMENT_SIZE
  BY DEF Countable
<1>4. q <= Uint16Max /\ (q = Uint16Max => t = 0)
  <2>1. ASSUME Uint16Max < q
        PROVE  FALSE
    <3>1. Uint16Max * SEGMENT_SIZE + SEGMENT_SIZE <= q * SEGMENT_SIZE
      BY <2>1, NextMultiple
    <3>2. PICK x \in Nat, y \in Nat : x = q * SEGMENT_SIZE /\ y = Uint16Max * SEGMENT_SIZE
      OBVIOUS
    <3>3. y + SEGMENT_SIZE <= x /\ x + t <= y
      BY <1>3, <3>1, <3>2
    <3>4. QED
      BY <3>3
  <2>2. ASSUME q = Uint16Max
        PROVE  t = 0
    BY <1>3, <2>2
  <2>3. QED
    BY <2>1, <2>2
<1>5. PICK n \in Nat : n = IF t = 0 THEN q ELSE q + 1
  OBVIOUS
<1>6. n \in 0..((Uint16Max + 1) - 1) /\ n = 0 * (Uint16Max + 1) + n
  BY <1>4, <1>5
<1>7. n % (Uint16Max + 1) = n
  BY <1>6, DivisionUnique
<1>8. calc_segments_count(r) = n % (Uint16Max + 1)
  BY <1>2, <1>5 DEF calc_segments_count
<1>9. QED
  BY <1>2, <1>4, <1>5, <1>7, <1>8

(* handle_read asks for the bytes of the segment that the file has, all of *)
(* them and no others.                                                     *)
LEMMA RequestedSize ==
    ASSUME NEW r \in Files, Countable(r), NEW s \in 0..(calc_segments_count(r) - 1),
           NEW n \in RequestedSegmentSizes(r.size, s)
    PROVE  /\ n \in 0..SEGMENT_SIZE
           /\ s * SEGMENT_SIZE + n <= r.size
           /\ \A j \in 0..(SEGMENT_SIZE - 1) : s * SEGMENT_SIZE + j < r.size => j < n
<1> USE SegmentSizeAssumption, WidthAssumption, Uint32Assumption
<1>1. r.size \in Nat
  BY MaxSizeAssumption DEF Files, Sizes
<1>2. PICK q \in Nat, t \in 0..(SEGMENT_SIZE - 1) : r.size = q * SEGMENT_SIZE + t
  BY <1>1, Division
<1>3. /\ r.size \div SEGMENT_SIZE = q /\ q <= Uint16Max
      /\ calc_segments_count(r) = IF t = 0 THEN q ELSE q + 1
  BY <1>2, CountExact
<1>4. n = IF s = q THEN t ELSE SEGMENT_SIZE
  <2>1. n = IF s = q THEN (r.size - q * SEGMENT_SIZE) % (Uint32Max + 1) ELSE SEGMENT_SIZE
    BY <1>3 DEF RequestedSegmentSizes, LastSegments
  <2>2. r.size - q * SEGMENT_SIZE = t
    BY <1>2
  <2>3. t \in Nat /\ t \in 0..((Uint32Max + 1) - 1) /\ t = 0 * (Uint32Max + 1) + t
    OBVIOUS
  <2>4. t % (Uint32Max + 1) = t
    BY <2>3, DivisionUnique
  <2>5. QED
    BY <2>1, <2>2, <2>4
<1>5. PICK a \in Nat, b \in Nat : a = s * SEGMENT_SIZE /\ b = q * SEGMENT_SIZE
  BY <1>3
<1>6. r.size = b + t
  BY <1>2, <1>5
<1>7. CASE s = q
  BY <1>4, <1>5, <1>6, <1>7
<1>8. CASE s < q
  <2>1. a + SEGMENT_SIZE <= b
    BY <1>3, <1>5, <1>8, NextMultiple
  <2>2. n = SEGMENT_SIZE
    BY <1>3, <1>4, <1>8
  <2>3. QED
    BY <1>5, <1>6, <2>1, <2>2
<1>9. s <= q
  BY <1>3
<1>10. QED
  BY <1>3, <1>7, <1>8, <1>9

(* Every byte of the file has its segment and its place in the buffer.     *)
LEMMA BytePlaced ==
    ASSUME NEW r \in Files, Countable(r), NEW i \in 0..(r.size - 1)
    PROVE  /\ i \div SEGMENT_SIZE \in 0..(calc_segments_count(r) - 1)
           /\ i \in 0..(calc_segments_count(r) * SEGMENT_SIZE - 1)
<1> USE SegmentSizeAssumption, WidthAssumption
<1>1. r.size \in Nat /\ i \in Nat /\ i < r.size
  BY MaxSizeAssumption DEF Files, Sizes
<1>2. PICK q \in Nat, t \in 0..(SEGMENT_SIZE - 1) : r.size = q * SEGMENT_SIZE + t
  BY <1>1, Division
<1>3. PICK c \in Nat : c = calc_segments_count(r) /\ c = IF t = 0 THEN q ELSE q + 1
  <2>1. calc_segments_count(r) = IF t = 0 THEN q ELSE q + 1
    BY <1>2, CountExact
  <2>2. QED
    BY <2>1
<1>4. PICK k \in Nat, j \in 0..(SEGMENT_SIZE - 1) :
         i \div SEGMENT_SIZE = k /\ i = k * SEGMENT_SIZE + j
  BY <1>1, Division
<1>5. r.size <= c * SEGMENT_SIZE
  <2>1. CASE t = 0
    BY <1>2, <1>3, <2>1
  <2>2. CASE t # 0
    <3>1. q * SEGMENT_SIZE + SEGMENT_SIZE <= c * SEGMENT_SIZE
      BY <1>3, <2>2, NextMultiple
    <3>2. QED
      BY <1>2, <3>1
  <2>3. QED
    BY <2>1, <2>2
<1>6. PICK x \in Nat, y \in Nat : x = k * SEGMENT_SIZE /\ y = c * SEGMENT_SIZE
  OBVIOUS
<1>7. x < y /\ i \in 0..(y - 1)
  BY <1>1, <1>4, <1>5, <1>6
<1>8. k < c
  BY <1>6, <1>7, LessMultiple
<1>9. QED
  BY <1>3, <1>4, <1>6, <1>7, <1>8

-----------------------------------------------------------------------------
(* The parts of the inductive invariant.                                   *)

(* What the downloader knows of the file.                                  *)
Told ==
    resource # None => /\ resource \in Files
                       /\ resource.size = file.size
                       /\ Len(resource.name) <= FILE_NAME_LENGHT
                       /\ NameFits => resource = file

(* Nothing is asked for before the download starts.                        *)
Quiet == resource = None => completed = {} /\ \A h \in Hosts : link[h] = "idle"

(* The buffer has room for all segments.                                   *)
Buffer ==
    resource # None => DOMAIN data = 0..(calc_segments_count(resource) * SEGMENT_SIZE - 1)

(* A worker waits for a segment that there is.                             *)
Asked ==
    \A h \in Hosts :
        link[h] \in {"asked", "answered"} => resource # None /\ segment[h] \in SegmentIds

(* An answer is a segment, and unless it is a wrong one the bytes of it    *)
(* that the file has are those of the segment asked for.                   *)
Answered ==
    \A h \in Hosts :
        link[h] = "answered" =>
            /\ DOMAIN send_data[h] = 0..(SEGMENT_SIZE - 1)
            /\ ~Wrong(h) /\ Countable(file) =>
                \A j \in 0..(SEGMENT_SIZE - 1) :
                    segment[h] * SEGMENT_SIZE + j < file.size =>
                        send_data[h][j] = Byte(resource.name, segment[h] * SEGMENT_SIZE + j)

(* The bytes of completed segments are in their place in the buffer, and   *)
(* stay there, unless a wrong answer came for the segment.                 *)
Placed ==
    resource # None /\ Countable(file) =>
        \A i \in DOMAIN data :
            i < file.size /\ i \div SEGMENT_SIZE \in completed \ tainted =>
                data[i] = Byte(resource.name, i)

(* send_data and stream are indexed by the hosts.                          *)
PerHost == DOMAIN send_data = Hosts /\ DOMAIN stream = Hosts

SegmentInv ==
    /\ TypeOK
    /\ PerHost
    /\ Told
    /\ Quiet
    /\ Buffer
    /\ Asked
    /\ Answered
    /\ Placed
    /\ StoredFaithful
    /\ WholeFileServed

-----------------------------------------------------------------------------
(* The steps.                                                              *)

(* The bytes that no file has.                                             *)
LEMMA NoFileBytes == Zero \in Bytes /\ Uninitialised \in Bytes /\ Beyond \in Bytes
BY DEF Zero, Uninitialised, Beyond, Byte, Bytes

(* Before the download starts there is nothing to be wrong.                *)
LEMMA InitInv == Init => SegmentInv
<1> SUFFICES ASSUME Init
             PROVE  SegmentInv
  OBVIOUS
<1> USE WidthAssumption DEF Init
<1>1. TypeOK
  <2>1. /\ link \in [Hosts -> Links]
        /\ segment \in [Hosts -> SegmentNumbers]
        /\ recv_data \in [Hosts -> SUBSET SegmentNumbers]
    BY DEF SegmentNumbers, NO_SEGMENT_ID, Links
  <2>2. (\A i \in DOMAIN data : i \in Nat /\ data[i] \in Bytes)
        /\ \A h \in Hosts : \A i \in DOMAIN send_data[h] : send_data[h][i] \in Bytes
    BY DEF None
  <2>3. QED
    BY <2>1, <2>2 DEF TypeOK
<1>2. PerHost
  BY DEF PerHost
<1>3. Told /\ Buffer /\ Placed
  BY DEF Told, Buffer, Placed
<1>4. Quiet /\ Asked /\ Answered
  BY DEF Quiet, Asked, Answered
<1>5. StoredFaithful /\ WholeFileServed
  BY DEF StoredFaithful, WholeFileServed
<1>6. QED
  BY <1>1, <1>2, <1>3, <1>4, <1>5 DEF SegmentInv

(* The downloader is told of the file and makes a buffer for it.           *)
LEMMA StartDownloadKeeps ==
    ASSUME SegmentInv, StartDownload
    PROVE  SegmentInv'
<1>1. /\ resource = None /\ resource' = FromHeader(generate_resource_header(file))
      /\ data' = [i \in 0..(calc_segments_count(resource') * SEGMENT_SIZE - 1) |->
                      Uninitialised]
      /\ UNCHANGED <<file, completed, link, segment, recv_data, send_data, stream,
                     stored, cut, astray, tainted>>
  BY DEF StartDownload, faultVars
<1>2. file \in Files
  BY DEF SegmentInv, TypeOK, Files
<1>3. /\ resource' \in Files /\ resource'.size = file.size
      /\ Len(resource'.name) <= FILE_NAME_LENGHT
      /\ Len(file.name) <= FILE_NAME_LENGHT => resource' = file
  BY <1>1, <1>2, HeaderRead
<1>4. completed = {} /\ \A h \in Hosts : link[h] = "idle"
  BY <1>1 DEF SegmentInv, Quiet
<1>5. TypeOK'
  <2>1. calc_segments_count(resource') * SEGMENT_SIZE - 1 \in Int
    BY <1>3, CountTyped, SegmentSizeAssumption, WidthAssumption
  <2>2. \A i \in DOMAIN data' : i \in Nat /\ data'[i] \in Bytes
    BY <1>1, <2>1, NoFileBytes
  <2>3. QED
    BY <1>1, <1>3, <2>2 DEF SegmentInv, TypeOK, Files
<1>6. PerHost'
  BY <1>1 DEF SegmentInv, PerHost
<1>7. Told' /\ Buffer'
  BY <1>1, <1>3 DEF Told, Buffer, NameFits
<1>8. Quiet' /\ Asked' /\ Answered' /\ Placed'
  BY <1>1, <1>4 DEF Quiet, Asked, Answered, Placed, Wrong
<1>9. StoredFaithful' /\ WholeFileServed'
  BY <1>1 DEF SegmentInv, StoredFaithful, WholeFileServed, NameFits, Countable
<1>10. QED
  BY <1>5, <1>6, <1>7, <1>8, <1>9 DEF SegmentInv

(* A worker asks for a segment that there is.                              *)
LEMMA RequestKeeps ==
    ASSUME SegmentInv, NEW h \in Hosts, NEW s \in SegmentNumbers, RequestSegment(h, s)
    PROVE  SegmentInv'
<1>1. /\ resource # None /\ s \in SegmentIds /\ link[h] = "idle"
      /\ link' = [link EXCEPT ![h] = "asked"] /\ segment' = [segment EXCEPT ![h] = s]
      /\ UNCHANGED <<file, resource, data, completed, recv_data, send_data, stream,
                     stored, cut, astray, tainted>>
  BY DEF RequestSegment, faultVars
<1>2. link \in [Hosts -> Links]
      /\ segment \in [Hosts -> SegmentNumbers]
  BY DEF SegmentInv, TypeOK
<1>3. TypeOK'
  <2>1. link' \in [Hosts -> Links]
        /\ segment' \in [Hosts -> SegmentNumbers]
    BY <1>1, <1>2 DEF Links
  <2>2. QED
    BY <1>1, <2>1 DEF SegmentInv, TypeOK
<1>4. PerHost' /\ Told' /\ Quiet' /\ Buffer' /\ Placed' /\ StoredFaithful'
  BY <1>1 DEF SegmentInv, PerHost, Told, Quiet, Buffer, Placed, StoredFaithful, NameFits
<1>5. Asked'
  BY <1>1, <1>2 DEF SegmentInv, Asked, SegmentIds
<1>6. Answered'
  BY <1>1, <1>2 DEF SegmentInv, Answered, Wrong
<1>7. WholeFileServed'
  BY <1>1, <1>2 DEF SegmentInv, WholeFileServed, NameFits
<1>8. QED
  BY <1>3, <1>4, <1>5, <1>6, <1>7 DEF SegmentInv

(* The bytes of a segment, of whatever file.                               *)
LEMMA SegmentTyped ==
    ASSUME NEW name \in Names \cup {Other}, NEW s \in SegmentNumbers, NEW n \in Int
    PROVE  /\ DOMAIN Segment(name, s, n) = 0..(SEGMENT_SIZE - 1)
           /\ \A i \in 0..(SEGMENT_SIZE - 1) : Segment(name, s, n)[i] \in Bytes
           /\ \A i \in 0..(SEGMENT_SIZE - 1) :
                  i < n => Segment(name, s, n)[i] = Byte(name, s * SEGMENT_SIZE + i)
<1>1. \A i \in 0..(SEGMENT_SIZE - 1) : Byte(name, s * SEGMENT_SIZE + i) \in Bytes
  BY SegmentSizeAssumption, WidthAssumption DEF Byte, Bytes, SegmentNumbers
<1>2. QED
  BY <1>1, NoFileBytes DEF Segment

(* What handle_read does with a request, in the terms of the download: it  *)
(* answers with the bytes of the file named or of another one, or refuses, *)
(* and leaves the stream x.                                                *)
LeavesStream(h, x) ==
    /\ x = None \/ x \in Streams
    /\ DOMAIN stream' = Hosts /\ stream'[h] = x
    /\ \A g \in Hosts : g # h => stream'[g] = stream[g]

Answers(h, s, n, name, x) ==
    /\ name \in {resource.name, Other}
    /\ Reply(h, name, s, n)
    /\ LeavesStream(h, x)
    /\ x # None => x.good

Refuses(h, s, n, x) ==
    /\ Refuse(h)
    /\ LeavesStream(h, x)
    /\ x # None => \E f \in Opened(h) : ~CanRead(f, s, n) /\ x.length = f.length

(* The size asked for is a number, also after an overflow, and what is     *)
(* open is a file.                                                         *)
LEMMA ServedTyped ==
    ASSUME SegmentInv, NEW h \in Hosts, NEW s \in SegmentNumbers, NEW size \in Nat,
           NEW n \in RequestedSegmentSizes(size, s), NEW f \in Opened(h)
    PROVE  /\ n \in Int
           /\ f \in Streams
           /\ stream[h] # None => f = stream[h]
           /\ stream[h] = None => f.good
<1>1. n \in Int
  <2>1. PICK k \in LastSegments(size) :
           n = IF s = k THEN (size - k * SEGMENT_SIZE) % (Uint32Max + 1) ELSE SEGMENT_SIZE
    BY DEF RequestedSegmentSizes
  <2>2. k \in Nat
    BY SegmentSizeAssumption, WidthAssumption, Division DEF LastSegments, SegmentNumbers
  <2>3. size - k * SEGMENT_SIZE \in Int
    BY <2>2, SegmentSizeAssumption
  <2>4. (size - k * SEGMENT_SIZE) % (Uint32Max + 1) \in Int
    BY <2>3, Uint32Assumption
  <2>5. QED
    BY <2>1, <2>4, SegmentSizeAssumption
<1>2. CASE stream[h] = None
  <2>1. f \in [length : 0..(file.size + 1), good : {TRUE}, same : BOOLEAN]
    BY <1>2 DEF Opened
  <2>2. file.size \in Nat
    BY MaxSizeAssumption DEF SegmentInv, TypeOK, Sizes
  <2>3. PICK k \in 0..(file.size + 1), b \in {TRUE}, c \in BOOLEAN :
           f = [length |-> k, good |-> b, same |-> c]
    BY <2>1, Zenon
  <2>4. k \in Nat
    BY <2>2
  <2>5. b \in BOOLEAN /\ b
    BY Zenon
  <2>6. f \in Streams /\ f.good
    BY <2>3, <2>4, <2>5, Zenon DEF Streams
  <2>7. QED
    BY <1>1, <1>2, <2>6
<1>3. CASE stream[h] # None
  <2>1. f = stream[h]
    BY <1>3 DEF Opened
  <2>2. f \in Streams
    BY <1>3, <2>1 DEF SegmentInv, TypeOK
  <2>3. QED
    BY <1>1, <1>3, <2>1, <2>2
<1>4. QED
  BY <1>2, <1>3

(* Serve answers or refuses.                                               *)
LEMMA Served ==
    ASSUME SegmentInv, NEW h \in Hosts, NEW s \in SegmentNumbers, link[h] = "asked",
           Serve(h, s)
    PROVE  /\ resource # None /\ resource \in Files /\ resource.size = file.size
           /\ segment[h] \in 0..(calc_segments_count(resource) - 1)
           /\ recv_data' = [recv_data EXCEPT ![h] = {s}]
           /\ UNCHANGED <<file, resource, data, completed, segment, stored, tainted>>
           /\ \E n \in RequestedSegmentSizes(resource.size, s) :
                \/ \E name, x : Answers(h, s, n, name, x)
                \/ \E x : Refuses(h, s, n, x)
<1>1. resource # None /\ segment[h] \in 0..(calc_segments_count(resource) - 1)
  BY DEF SegmentInv, Asked, SegmentIds
<1>2. resource \in Files /\ resource.size = file.size
      /\ Len(resource.name) <= FILE_NAME_LENGHT
  BY <1>1 DEF SegmentInv, Told
<1>3. FromHeader(generate_resource_header(resource)) = resource
  BY <1>2, HeaderRead
<1>4. recv_data' = [recv_data EXCEPT ![h] = {s}]
      /\ UNCHANGED <<file, resource, data, completed, segment, stored, tainted>>
  BY DEF Serve
<1>5. PICK n \in RequestedSegmentSizes(resource.size, s) :
         \/ \E f \in Opened(h) : ReadStream(h, resource.name, s, n, f)
         \/ OpenFails(h, s, n)
  BY <1>3 DEF Serve
<1>6. resource.size \in Nat /\ DOMAIN stream = Hosts
  BY <1>2, MaxSizeAssumption DEF Files, Sizes, SegmentInv, PerHost
<1>7. ASSUME NEW f \in Opened(h), ReadStream(h, resource.name, s, n, f)
      PROVE  (\E name, x : Answers(h, s, n, name, x)) \/ \E x : Refuses(h, s, n, x)
  <2>1. f \in Streams
    BY <1>6, ServedTyped
  <2>2. CASE CanRead(f, s, n)
    <3>1. PICK name \in {resource.name, Other} : Reply(h, name, s, n)
      BY <1>7, <2>2 DEF ReadStream
    <3>2. stream' = [stream EXCEPT ![h] = f]
      BY <1>7, <2>2 DEF ReadStream
    <3>3. f.good
      BY <2>2 DEF CanRead
    <3>4. LeavesStream(h, f)
      BY <1>6, <2>1, <3>2 DEF LeavesStream
    <3>5. Answers(h, s, n, name, f)
      BY <3>1, <3>3, <3>4 DEF Answers
    <3>6. QED
      BY <3>5
  <2>3. CASE ~CanRead(f, s, n)
    <3>1. PICK b \in BOOLEAN : /\ Refuse(h)
                               /\ stream' = [stream EXCEPT ![h] = [f EXCEPT !.good = b]]
      <4>1. (f.good /\ n \notin 0..SEGMENT_SIZE) \in BOOLEAN
        OBVIOUS
      <4>2. QED
        BY <1>7, <2>3, <4>1 DEF ReadStream
    <3>2. PICK x : x = [f EXCEPT !.good = b]
      OBVIOUS
    <3>3. x \in Streams /\ x.length = f.length
      BY <2>1, <3>2, Zenon DEF Streams
    <3>4. LeavesStream(h, x)
      BY <1>6, <3>1, <3>2, <3>3 DEF LeavesStream
    <3>5. Refuses(h, s, n, x)
      BY <2>3, <3>1, <3>3, <3>4 DEF Refuses
    <3>6. QED
      BY <3>5
  <2>4. QED
    BY <2>2, <2>3
<1>8. ASSUME OpenFails(h, s, n)
      PROVE  (\E name, x : Answers(h, s, n, name, x)) \/ \E x : Refuses(h, s, n, x)
  <2>1. LeavesStream(h, None)
    BY <1>6, <1>8 DEF OpenFails, LeavesStream
  <2>2. CASE Reply(h, Other, s, n)
    <3>1. Answers(h, s, n, Other, None)
      BY <2>1, <2>2 DEF Answers
    <3>2. QED
      BY <3>1
  <2>3. CASE Refuse(h)
    <3>1. Refuses(h, s, n, None)
      BY <2>1, <2>3 DEF Refuses
    <3>2. QED
      BY <3>1
  <2>4. QED
    BY <1>8, <2>2, <2>3 DEF OpenFails
<1>9. QED
  BY <1>1, <1>2, <1>4, <1>5, <1>7, <1>8

(* Whatever handle_read does to one connection, it leaves the download     *)
(* alone.                                                                  *)
LEMMA ServeLeaves ==
    ASSUME SegmentInv, resource # None,
           UNCHANGED <<file, resource, data, completed, segment, stored, tainted>>
    PROVE  Told' /\ Quiet' /\ Buffer' /\ Placed' /\ StoredFaithful'
<1>1. Told' /\ Quiet' /\ Buffer'
  BY DEF SegmentInv, Told, Quiet, Buffer, NameFits
<1>2. Placed' /\ StoredFaithful'
  BY DEF SegmentInv, Placed, StoredFaithful, NameFits
<1>3. QED
  BY <1>1, <1>2

(* An answer to a request in one piece holds the segment asked for, unless *)
(* it is read from another file.                                           *)
LEMMA AnswersKeeps ==
    ASSUME SegmentInv, NEW h \in Hosts, NEW s \in SegmentNumbers, link[h] = "asked",
           Serve(h, s), NEW n \in RequestedSegmentSizes(resource.size, s),
           NEW name, NEW x, Answers(h, s, n, name, x),
           (s = segment[h] /\ cut' = cut) \/ cut' = cut \cup {h}
    PROVE  SegmentInv'
<1>1. /\ resource # None /\ resource \in Files /\ resource.size = file.size
      /\ segment[h] \in 0..(calc_segments_count(resource) - 1)
      /\ recv_data' = [recv_data EXCEPT ![h] = {s}]
      /\ UNCHANGED <<file, resource, data, completed, segment, stored, tainted>>
  BY Served
<1>2. /\ name \in {resource.name, Other} /\ link' = [link EXCEPT ![h] = "answered"]
      /\ send_data' = [send_data EXCEPT ![h] = Segment(name, s, n)]
      /\ astray' = IF name = Other THEN astray \cup {h} ELSE astray \ {h}
      /\ LeavesStream(h, x) /\ (x # None => x.good)
  BY DEF Answers, Reply
<1>3. resource.size \in Nat /\ name \in Names \cup {Other}
  BY <1>1, <1>2, MaxSizeAssumption DEF Files, Sizes
<1>4. n \in Int
  <2>1. PICK f : f \in Opened(h)
    <3>1. CASE stream[h] = None
      <4>1. file.size \in Nat
        BY MaxSizeAssumption DEF SegmentInv, TypeOK, Sizes
      <4>2. [length |-> 0, good |-> TRUE, same |-> TRUE] \in Opened(h)
        BY <3>1, <4>1 DEF Opened
      <4>3. QED
        BY <4>2
    <3>2. CASE stream[h] # None
      BY <3>2 DEF Opened
    <3>3. QED
      BY <3>1, <3>2
  <2>2. QED
    BY <1>3, <2>1, ServedTyped
<1>5. /\ link \in [Hosts -> Links]
      /\ recv_data \in [Hosts -> SUBSET SegmentNumbers]
      /\ DOMAIN send_data = Hosts
  BY DEF SegmentInv, TypeOK, PerHost
<1>6. /\ DOMAIN Segment(name, s, n) = 0..(SEGMENT_SIZE - 1)
      /\ \A i \in 0..(SEGMENT_SIZE - 1) : Segment(name, s, n)[i] \in Bytes
      /\ \A i \in 0..(SEGMENT_SIZE - 1) : i < n =>
             Segment(name, s, n)[i] = Byte(name, s * SEGMENT_SIZE + i)
  BY <1>3, <1>4, SegmentTyped
<1>7. /\ link'[h] = "answered" /\ \A g \in Hosts : g # h => link'[g] = link[g]
      /\ send_data'[h] = Segment(name, s, n)
      /\ \A g \in Hosts : g # h => send_data'[g] = send_data[g]
      /\ stream'[h] = x /\ \A g \in Hosts : g # h => stream'[g] = stream[g]
  BY <1>2, <1>5 DEF LeavesStream
<1>8. TypeOK'
  <2>1. /\ link' \in [Hosts -> Links]
        /\ recv_data' \in [Hosts -> SUBSET SegmentNumbers]
        /\ cut' \subseteq Hosts /\ astray' \subseteq Hosts
    BY <1>1, <1>2, <1>5 DEF SegmentInv, TypeOK, Links
  <2>2. \A g \in Hosts : \A i \in DOMAIN send_data'[g] : send_data'[g][i] \in Bytes
    BY <1>6, <1>7 DEF SegmentInv, TypeOK
  <2>3. \A g \in Hosts : stream'[g] = None \/ stream'[g] \in Streams
    BY <1>2, <1>7 DEF SegmentInv, TypeOK, LeavesStream
  <2>4. QED
    BY <1>1, <2>1, <2>2, <2>3 DEF SegmentInv, TypeOK
<1>9. PerHost'
  BY <1>2, <1>5 DEF PerHost, LeavesStream
<1>10. Told' /\ Quiet' /\ Buffer' /\ Placed' /\ StoredFaithful'
  BY <1>1, ServeLeaves
<1>11. Asked'
  <2>1. Asked
    BY DEF SegmentInv
  <2>2. QED
    BY <1>1, <1>7, <2>1 DEF Asked, SegmentIds
<1>12. Answered'
  <2>1. ASSUME h \notin cut', h \notin astray', Countable(file),
               NEW j \in 0..(SEGMENT_SIZE - 1), segment[h] * SEGMENT_SIZE + j < file.size
        PROVE  send_data'[h][j] = Byte(resource.name, segment[h] * SEGMENT_SIZE + j)
    <3>1. s = segment[h] /\ Countable(resource) /\ name = resource.name
      BY <1>1, <1>2, <2>1 DEF Countable
    <3>2. j < n
      BY <1>1, <2>1, <3>1, RequestedSize
    <3>3. QED
      BY <1>6, <1>7, <3>1, <3>2
  <2>2. Answered
    BY DEF SegmentInv
  <2>3. \A g \in Hosts : g # h /\ g \notin cut' \cup astray' => g \notin cut \cup astray
    BY <1>2
  <2>4. QED
    BY <1>1, <1>6, <1>7, <2>1, <2>2, <2>3 DEF Answered, Wrong
<1>13. WholeFileServed'
  <2>1. WholeFileServed
    BY DEF SegmentInv
  <2>2. QED
    BY <1>1, <1>2, <1>7, <2>1 DEF WholeFileServed, NameFits
<1>14. QED
  BY <1>8, <1>9, <1>10, <1>11, <1>12, <1>13 DEF SegmentInv

(* A request in one piece is refused only by a host whose file is shorter  *)
(* than it was, or which has not opened it.                                *)
LEMMA RefusesKeeps ==
    ASSUME SegmentInv, NEW h \in Hosts, NEW s \in SegmentNumbers, link[h] = "asked",
           Serve(h, s), NEW n \in RequestedSegmentSizes(resource.size, s),
           NEW x, Refuses(h, s, n, x),
           (s = segment[h] /\ cut' = cut) \/ cut' = cut \cup {h}
    PROVE  SegmentInv'
<1>1. /\ resource # None /\ resource \in Files /\ resource.size = file.size
      /\ segment[h] \in 0..(calc_segments_count(resource) - 1)
      /\ recv_data' = [recv_data EXCEPT ![h] = {s}]
      /\ UNCHANGED <<file, resource, data, completed, segment, stored, tainted>>
  BY Served
<1>2. /\ link' = [link EXCEPT ![h] = "refused"]
      /\ send_data' = send_data /\ astray' = astray
      /\ LeavesStream(h, x)
      /\ x # None => \E f \in Opened(h) : ~CanRead(f, s, n) /\ x.length = f.length
  BY DEF Refuses, Refuse
<1>3. resource.size \in Nat
  BY <1>1, MaxSizeAssumption DEF Files, Sizes
<1>4. /\ link \in [Hosts -> Links]
      /\ recv_data \in [Hosts -> SUBSET SegmentNumbers]
      /\ DOMAIN send_data = Hosts
  BY DEF SegmentInv, TypeOK, PerHost
<1>5. /\ link'[h] = "refused" /\ \A g \in Hosts : g # h => link'[g] = link[g]
      /\ stream'[h] = x /\ \A g \in Hosts : g # h => stream'[g] = stream[g]
  BY <1>2, <1>4 DEF LeavesStream
<1>6. TypeOK'
  <2>1. /\ link' \in [Hosts -> Links]
        /\ recv_data' \in [Hosts -> SUBSET SegmentNumbers]
        /\ cut' \subseteq Hosts /\ astray' \subseteq Hosts
    BY <1>1, <1>2, <1>4 DEF SegmentInv, TypeOK, Links
  <2>2. \A g \in Hosts : stream'[g] = None \/ stream'[g] \in Streams
    BY <1>2, <1>5 DEF SegmentInv, TypeOK, LeavesStream
  <2>3. QED
    BY <1>1, <1>2, <2>1, <2>2 DEF SegmentInv, TypeOK
<1>7. PerHost'
  BY <1>2, <1>4 DEF PerHost, LeavesStream
<1>8. Told' /\ Quiet' /\ Buffer' /\ Placed' /\ StoredFaithful'
  BY <1>1, ServeLeaves
<1>9. Asked' /\ Answered'
  <2>1. Asked /\ Answered /\ \A g \in Hosts : g \notin cut' => g \notin cut
    BY DEF SegmentInv
  <2>2. QED
    BY <1>1, <1>2, <1>5, <2>1 DEF Asked, Answered, Wrong, SegmentIds
<1>10. WholeFileServed'
  <2>1. WholeFileServed
    BY DEF SegmentInv
  <2>2. ASSUME x # None, h \notin cut', NameFits, Countable(file)
        PROVE  x.length < file.size
    <3>1. s = segment[h] /\ h \notin cut /\ Countable(resource)
      BY <1>1, <2>2 DEF Countable
    <3>2. n \in 0..SEGMENT_SIZE /\ s * SEGMENT_SIZE + n <= resource.size
      BY <1>1, <3>1, RequestedSize
    <3>3. PICK f \in Opened(h) : ~CanRead(f, s, n) /\ x.length = f.length
      BY <1>2, <2>2
    <3>4. /\ f \in Streams
          /\ stream[h] # None => f = stream[h]
          /\ stream[h] = None => f.good
      BY <1>3, ServedTyped
    <3>5. f.length < file.size
      <4>1. CASE f.good
        <5>1. n # 0 /\ ~(s * SEGMENT_SIZE + n <= f.length)
          BY <3>2, <3>3, <4>1 DEF CanRead
        <5>2. s * SEGMENT_SIZE + n \in Int /\ f.length \in Nat
          BY <3>2, <3>4, SegmentSizeAssumption, WidthAssumption DEF SegmentNumbers, Streams
        <5>3. QED
          BY <1>1, <1>3, <3>2, <5>1, <5>2
      <4>2. CASE ~f.good
        BY <2>1, <2>2, <3>1, <3>4, <4>2 DEF WholeFileServed
      <4>3. QED
        BY <4>1, <4>2
    <3>6. QED
      BY <3>3, <3>5
  <2>3. QED
    BY <1>1, <1>5, <2>1, <2>2 DEF WholeFileServed, NameFits
<1>11. QED
  BY <1>6, <1>7, <1>8, <1>9, <1>10 DEF SegmentInv

(* What of an answer is in the buffer is in the place of the segment asked *)
(* for, whether the rest came or not; the segment is tainted if the answer *)
(* is a wrong one.                                                         *)
LEMMA WrittenKeeps ==
    ASSUME SegmentInv, NEW h \in Hosts, NEW k \in 0..SEGMENT_SIZE, link[h] = "answered",
           data' = Written(h, k),
           tainted' = IF Wrong(h) THEN tainted \cup {segment[h]} ELSE tainted,
           \/ completed' = completed
           \/ completed' = completed \cup {segment[h]} /\ k = SEGMENT_SIZE,
           UNCHANGED <<file, resource, segment, recv_data, stream, stored, cut, astray>>,
           NEW w \in {"idle", "dead"}, link' = [link EXCEPT ![h] = w],
           send_data' = [send_data EXCEPT ![h] = None]
    PROVE  SegmentInv'
<1>1. data' = [i \in DOMAIN data |->
                   IF i \div SEGMENT_SIZE = segment[h] /\ i % SEGMENT_SIZE < k
                   THEN send_data[h][i % SEGMENT_SIZE] ELSE data[i]]
  BY DEF Written
<1>2. link \in [Hosts -> Links] /\ DOMAIN send_data = Hosts
  BY DEF SegmentInv, TypeOK, PerHost
<1>3. /\ link'[h] = w /\ \A g \in Hosts : g # h => link'[g] = link[g]
      /\ send_data'[h] = None /\ \A g \in Hosts : g # h => send_data'[g] = send_data[g]
  BY <1>2
<1>4. resource # None /\ segment[h] \in 0..(calc_segments_count(resource) - 1)
  BY DEF SegmentInv, Asked, SegmentIds
<1>5. resource \in Files /\ resource.size = file.size
  BY <1>4 DEF SegmentInv, Told
<1>6. DOMAIN send_data[h] = 0..(SEGMENT_SIZE - 1)
  BY DEF SegmentInv, Answered
<1>7. \A i \in DOMAIN data : i \in Nat /\ data[i] \in Bytes
  BY DEF SegmentInv, TypeOK
<1>8. TypeOK'
  <2>1. link' \in [Hosts -> Links]
    BY <1>2 DEF Links
  <2>2. \A i \in DOMAIN data' : i \in Nat /\ data'[i] \in Bytes
    <3>1. ASSUME NEW i \in DOMAIN data
          PROVE  i % SEGMENT_SIZE \in 0..(SEGMENT_SIZE - 1)
      BY <1>7, SegmentSizeAssumption, Division
    <3>2. \A j \in 0..(SEGMENT_SIZE - 1) : send_data[h][j] \in Bytes
      BY <1>6 DEF SegmentInv, TypeOK
    <3>3. QED
      BY <1>1, <1>7, <3>1, <3>2
  <2>3. segment[h] \in SegmentNumbers \ {NO_SEGMENT_ID}
    <3>1. calc_segments_count(resource) \in 0..Uint16Max
      BY <1>5, CountTyped
    <3>2. QED
      BY <1>4, <3>1, WidthAssumption DEF SegmentNumbers, NO_SEGMENT_ID
  <2>4. completed' \subseteq SegmentNumbers \ {NO_SEGMENT_ID} /\ tainted' \subseteq SegmentNumbers
    BY <2>3 DEF SegmentInv, TypeOK
  <2>5. \A g \in Hosts : \A i \in DOMAIN send_data'[g] : send_data'[g][i] \in Bytes
    <3>1. \A i \in DOMAIN send_data'[h] : send_data'[h][i] \in Bytes
      BY <1>3 DEF None
    <3>2. QED
      BY <1>3, <3>1 DEF SegmentInv, TypeOK
  <2>6. QED
    BY <2>1, <2>2, <2>4, <2>5 DEF SegmentInv, TypeOK
<1>9. PerHost' /\ Told' /\ Quiet' /\ Buffer'
  BY <1>1, <1>2, <1>4 DEF SegmentInv, PerHost, Told, Quiet, Buffer, NameFits
<1>10. StoredFaithful'
  BY DEF SegmentInv, StoredFaithful, NameFits
<1>11. Asked' /\ Answered'
  <2>1. Asked /\ Answered
    BY DEF SegmentInv
  <2>2. QED
    BY <1>3, <2>1 DEF Asked, Answered, Wrong, SegmentIds
<1>12. Placed'
  <2> SUFFICES ASSUME Countable(file), NEW i \in DOMAIN data, i < file.size,
                      i \div SEGMENT_SIZE \in completed' \ tainted'
               PROVE  data'[i] = Byte(resource.name, i)
    BY <1>1 DEF Placed
  <2>1. PICK q \in Nat, j \in 0..(SEGMENT_SIZE - 1) :
           /\ i \div SEGMENT_SIZE = q /\ i % SEGMENT_SIZE = j
           /\ i = q * SEGMENT_SIZE + j
    BY <1>7, SegmentSizeAssumption, Division
  <2>2. CASE q = segment[h] /\ j < k
    <3>1. ~Wrong(h)
      BY <2>1, <2>2
    <3>2. i = segment[h] * SEGMENT_SIZE + j
      BY <2>1, <2>2
    <3>3. send_data[h][j] = Byte(resource.name, segment[h] * SEGMENT_SIZE + j)
      BY <3>1, <3>2 DEF SegmentInv, Answered
    <3>4. QED
      BY <1>1, <2>1, <2>2, <3>2, <3>3
  <2>3. CASE ~(q = segment[h] /\ j < k)
    <3>1. q \in completed \ tainted
      BY <2>1, <2>3, SegmentSizeAssumption
    <3>2. data[i] = Byte(resource.name, i)
      BY <1>4, <2>1, <3>1 DEF SegmentInv, Placed
    <3>3. QED
      BY <1>1, <2>1, <2>3, <3>2
  <2>4. QED
    BY <2>2, <2>3
<1>13. WholeFileServed'
  <2>1. WholeFileServed
    BY DEF SegmentInv
  <2>2. link'[h] # "refused"
    BY <1>3
  <2>3. link[h] # "refused"
    OBVIOUS
  <2>4. QED
    BY <1>3, <2>1, <2>2, <2>3 DEF WholeFileServed, NameFits
<1>14. QED
  BY <1>8, <1>9, <1>10, <1>11, <1>12, <1>13 DEF SegmentInv

(* An answer that came, and one that broke off.                            *)
LEMMA ReceiveKeeps ==
    ASSUME SegmentInv, NEW h \in Hosts,
           ReceiveSegment(h) \/ \E k \in 0..(SEGMENT_SIZE - 1) : ReceiveFails(h, k)
    PROVE  SegmentInv'
<1>1. CASE ReceiveSegment(h)
  <2>1. PICK w \in {"idle", "dead"} : link' = [link EXCEPT ![h] = w]
    BY <1>1 DEF ReceiveSegment
  <2>2. SEGMENT_SIZE \in 0..SEGMENT_SIZE
    BY SegmentSizeAssumption
  <2>3. /\ link[h] = "answered" /\ data' = Written(h, SEGMENT_SIZE)
        /\ completed' = completed \cup {segment[h]}
        /\ send_data' = [send_data EXCEPT ![h] = None]
        /\ tainted' = IF Wrong(h) THEN tainted \cup {segment[h]} ELSE tainted
        /\ UNCHANGED <<file, resource, segment, recv_data, stream, stored, cut, astray>>
    BY <1>1 DEF ReceiveSegment
  <2>4. QED
    BY <2>1, <2>2, <2>3, WrittenKeeps
<1>2. ASSUME NEW k \in 0..(SEGMENT_SIZE - 1), ReceiveFails(h, k)
      PROVE  SegmentInv'
  <2>1. k \in 0..SEGMENT_SIZE
    BY SegmentSizeAssumption
  <2>2. /\ link[h] = "answered" /\ data' = Written(h, k)
        /\ completed' = completed
        /\ link' = [link EXCEPT ![h] = "dead"]
        /\ send_data' = [send_data EXCEPT ![h] = None]
        /\ tainted' = IF Wrong(h) THEN tainted \cup {segment[h]} ELSE tainted
        /\ UNCHANGED <<file, resource, segment, recv_data, stream, stored, cut, astray>>
    BY <1>2 DEF ReceiveFails
  <2>3. QED
    BY <2>1, <2>2, WrittenKeeps
<1>3. QED
  BY <1>1, <1>2

(* When all segments are completed every byte of the file is in its place. *)
LEMMA StoreKeeps ==
    ASSUME SegmentInv, StoreResource
    PROVE  SegmentInv'
<1>1. /\ resource # None /\ completed = 0..(calc_segments_count(resource) - 1)
      /\ stored' = [i \in 0..(resource.size - 1) |->
                        IF i \in DOMAIN data THEN data[i] ELSE Beyond]
      /\ UNCHANGED <<file, resource, data, completed, link, segment, recv_data,
                     send_data, stream, cut, astray, tainted>>
  BY DEF StoreResource, SegmentIds, faultVars
<1>2. /\ resource \in Files /\ resource.size = file.size
      /\ NameFits => resource = file
  BY <1>1 DEF SegmentInv, Told
<1>3. TypeOK'
  <2>1. \A i \in DOMAIN stored' : stored'[i] \in Bytes
    BY <1>1, NoFileBytes DEF SegmentInv, TypeOK
  <2>2. QED
    BY <1>1, <2>1 DEF SegmentInv, TypeOK
<1>4. PerHost' /\ Told' /\ Quiet' /\ Buffer' /\ Asked' /\ Answered' /\ Placed'
  BY <1>1 DEF SegmentInv, PerHost, Told, Quiet, Buffer, Asked, Answered, Placed, NameFits,
     SegmentIds, Wrong
<1>5. StoredFaithful'
  <2> SUFFICES ASSUME NameFits, Countable(file)
               PROVE  /\ DOMAIN stored' = 0..(file.size - 1)
                      /\ \A i \in 0..(file.size - 1) :
                            i \div SEGMENT_SIZE \in tainted \/ stored'[i] = Byte(file.name, i)
    BY <1>1 DEF StoredFaithful, NameFits
  <2>1. DOMAIN data = 0..(calc_segments_count(resource) * SEGMENT_SIZE - 1)
    BY <1>1 DEF SegmentInv, Buffer
  <2>2. ASSUME NEW i \in 0..(file.size - 1), i \div SEGMENT_SIZE \notin tainted
        PROVE  i \in DOMAIN data /\ data[i] = Byte(file.name, i)
    <3>1. i \in DOMAIN data /\ i \div SEGMENT_SIZE \in completed \ tainted
      BY <1>1, <1>2, <2>1, <2>2, BytePlaced
    <3>2. i < file.size
      BY <1>2, MaxSizeAssumption DEF Files, Sizes
    <3>3. QED
      BY <1>1, <1>2, <3>1, <3>2 DEF SegmentInv, Placed
  <2>3. QED
    BY <1>1, <1>2, <2>2
<1>6. WholeFileServed'
  BY <1>1 DEF SegmentInv, WholeFileServed, NameFits
<1>7. QED
  BY <1>3, <1>4, <1>5, <1>6 DEF SegmentInv

(* Every step keeps the invariant.                                         *)
LEMMA StepInv == SegmentInv /\ [Next]_vars => SegmentInv'
<1> SUFFICES ASSUME SegmentInv, [Next]_vars
             PROVE  SegmentInv'
  OBVIOUS
<1>1. CASE StartDownload
  BY <1>1, StartDownloadKeeps
<1>2. ASSUME NEW h \in Hosts, NEW s \in SegmentNumbers, RequestSegment(h, s)
      PROVE  SegmentInv'
  BY <1>2, RequestKeeps
<1>3. ASSUME NEW h \in Hosts, NEW s \in SegmentNumbers, link[h] = "asked", Serve(h, s),
             (s = segment[h] /\ cut' = cut) \/ cut' = cut \cup {h}
      PROVE  SegmentInv'
  <2>1. PICK n \in RequestedSegmentSizes(resource.size, s) :
           \/ \E name, x : Answers(h, s, n, name, x)
           \/ \E x : Refuses(h, s, n, x)
    BY <1>3, Served
  <2>2. QED
    BY <1>3, <2>1, AnswersKeeps, RefusesKeeps
<1>4. ASSUME NEW h \in Hosts, RequestArrives(h) \/ RequestCut(h)
      PROVE  SegmentInv'
  <2>1. segment[h] \in SegmentNumbers /\ recv_data[h] \subseteq SegmentNumbers
    BY DEF SegmentInv, TypeOK
  <2>2. CASE RequestArrives(h)
    BY <1>3, <2>1, <2>2 DEF RequestArrives
  <2>3. CASE RequestCut(h)
    BY <1>3, <2>1, <2>3 DEF RequestCut
  <2>4. QED
    BY <1>4, <2>2, <2>3
<1>5. ASSUME NEW h \in Hosts,
             ReceiveSegment(h) \/ \E k \in 0..(SEGMENT_SIZE - 1) : ReceiveFails(h, k)
      PROVE  SegmentInv'
  BY <1>5, ReceiveKeeps
<1>6. CASE StoreResource
  BY <1>6, StoreKeeps
<1>7. CASE Over \/ UNCHANGED vars
  <2>1. UNCHANGED vars
    BY <1>7 DEF Over
  <2>2. TypeOK' /\ PerHost' /\ Told' /\ Quiet' /\ Buffer'
    BY <2>1 DEF vars, faultVars, SegmentInv, TypeOK, PerHost, Told, Quiet, Buffer, NameFits
  <2>3. Asked' /\ Answered' /\ Placed' /\ StoredFaithful' /\ WholeFileServed'
    BY <2>1 DEF vars, faultVars, SegmentInv, Asked, Answered, Placed, StoredFaithful,
       WholeFileServed, NameFits, SegmentIds, Wrong
  <2>4. QED
    BY <2>2, <2>3 DEF SegmentInv
<1>8. QED
  BY <1>1, <1>2, <1>4, <1>5, <1>6, <1>7 DEF Next

-----------------------------------------------------------------------------
(* Theorems.                                                               *)

(* The downloader waits only for segments that exist, every answer read    *)
(* from the announced file for a whole request holds the bytes asked for,  *)
(* and completed segments stay in their place except where a wrong answer  *)
(* was written: handle_read, get_segment, receive_segment, which may break *)
(* off anywhere, and store_resource keep this.                             *)
THEOREM SegmentInvariant == Spec => []SegmentInv
<1>1. Init => SegmentInv
  BY InitInv
<1>2. SegmentInv /\ [Next]_vars => SegmentInv'
  BY StepInv
<1>3. QED
  BY <1>1, <1>2, PTL DEF Spec

(* All variables keep their types, and no completed segment has the number *)
(* by which get_segment says that nothing is left.                         *)
THEOREM SegmentTypeCorrect == Spec => []TypeOK
<1>1. SegmentInv => TypeOK
  BY DEF SegmentInv
<1>2. QED
  BY <1>1, SegmentInvariant, PTL

(* generate_resource_header and the constructor of Resource are inverse to *)
(* each other for every name that fits its field, one that fills it to the *)
(* last byte included.                                                     *)
THEOREM HeadersFaithful == Spec => []HeaderFaithful
<1>1. SegmentInv => HeaderFaithful
  BY DEF SegmentInv, Told, HeaderFaithful
<1>2. QED
  BY <1>1, SegmentInvariant, PTL

(* store_resource writes the announced file, byte for byte, for every size *)
(* up to the largest that the count of segments can hold, every segment    *)
(* size and any number of hosts.  Hosts that have the file no more, read   *)
(* another one through a stray pointer or misread half a request spoil     *)
(* only the segments they were asked for, and not the size.                *)
THEOREM FilesStoredFaithfully == Spec => []StoredFaithful
<1>1. SegmentInv => StoredFaithful
  BY DEF SegmentInv
<1>2. QED
  BY <1>1, SegmentInvariant, PTL

(* handle_read never asks get_segment for bytes that a whole file does not *)
(* have, so that a host which still has it refuses nothing.                *)
THEOREM WholeFilesServed == Spec => []WholeFileServed
<1>1. SegmentInv => WholeFileServed
  BY DEF SegmentInv
<1>2. QED
  BY <1>1, SegmentInvariant, PTL
=============================================================================
