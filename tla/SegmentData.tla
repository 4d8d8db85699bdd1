---------------------------- MODULE SegmentData ----------------------------
(***************************************************************************)
(* The bytes of one download on their way: the file is announced in a      *)
(* header, the downloader cuts it into segments, every request carries the *)
(* header again, RequestWorker::handle_read works out how much of the file *)
(* the segment is, FileManager::get_segment reads and pads it, and         *)
(* store_resource writes the buffer to the disk.                           *)
(*                                                                         *)
(* Who downloads which segment when is the matter of Download, and the     *)
(* locks of the file are that of Serving.  Here any worker may ask for any *)
(* segment that is not completed.  A byte is known by its file and place.  *)
(***************************************************************************)
EXTENDS Resource

CONSTANTS
    Hosts,      \* the hosts that announced the file, one connection each
    Char,       \* a character other than NUL
    Uint32Max,  \* 2^32 - 1
    MaxSize     \* bound on the sizes of files

ASSUME CharAssumption == Char # NUL
ASSUME Uint32Assumption == Uint32Max \in Nat /\ SEGMENT_SIZE <= Uint32Max
ASSUME MaxSizeAssumption == MaxSize \in Nat

VARIABLES
    file,       \* the file as its owners added it
    resource,   \* the same as the downloader was told; None before
    data,       \* CompleteResource::data, bytes from 0 on
    completed,  \* the segments that are completed
    link,       \* link[h]: what goes on on the connection to h
    segment,    \* segment[h]: the segment the worker of h has asked for
    recv_data,  \* recv_data[h]: the segment numbers the server's buffer may hold
    send_data,  \* send_data[h]: the server's answer
    stream,     \* stream[h]: the file the server has opened, None before
    stored,     \* the file on the disk of the downloader, None before
    cut,        \* the hosts at which a request did not arrive in one piece
    astray,     \* the hosts whose answer is not read from the announced file
    tainted     \* the segments of data that hold bytes of a wrong answer

faultVars == <<cut, astray, tainted>>
vars == <<file, resource, data, completed, link, segment, recv_data, send_data,
          stream, stored, faultVars>>

None == <<>>

Names == UNION {[1..n -> {Char}] : n \in 1..(FILE_NAME_LENGHT + 1)}
Sizes == 0..MaxSize
SegmentNumbers == 0..Uint16Max
Byte(name, i) == <<name, i>>
Zero == Byte(None, 0)           \* padding
Uninitialised == Byte(None, 1)  \* a byte of a new buffer
Beyond == Byte(None, 2)         \* whatever lies behind the buffer
Other == <<NUL>>                \* any file but the announced one
Bytes == (Names \cup {None, Other}) \X Nat
Links == {"idle", "asked", "answered", "refused", "dead"}
Streams == [length : Nat, good : BOOLEAN, same : BOOLEAN]

NO_SEGMENT_ID == Uint16Max
SegmentIds == 0..(calc_segments_count(resource) - 1)

(* The data types of all variables; no segment is called NO_SEGMENT_ID,    *)
(* which get_segment returns when nothing is left.                         *)
TypeOK ==
    /\ file \in [name : Names, size : Sizes]
    /\ resource = None \/ resource \in [name : Names, size : Sizes]
    /\ \A i \in DOMAIN data : i \in Nat /\ data[i] \in Bytes
    /\ completed \subseteq SegmentNumbers \ {NO_SEGMENT_ID}
    /\ link \in [Hosts -> Links]
    /\ segment \in [Hosts -> SegmentNumbers]
    /\ recv_data \in [Hosts -> SUBSET SegmentNumbers]
    /\ \A h \in Hosts : \A i \in DOMAIN send_data[h] : send_data[h][i] \in Bytes
    /\ \A h \in Hosts : stream[h] = None \/ stream[h] \in Streams
    /\ stored = None \/ \A i \in DOMAIN stored : stored[i] \in Bytes
    /\ cut \subseteq Hosts /\ astray \subseteq Hosts
    /\ tainted \subseteq SegmentNumbers

(* recv_data is not initialised.                                           *)
Init ==
    /\ file \in [name : Names, size : Sizes]
    /\ resource = None
    /\ data = None
    /\ completed = {}
    /\ link = [h \in Hosts |-> "idle"]
    /\ segment = [h \in Hosts |-> NO_SEGMENT_ID]
    /\ recv_data = [h \in Hosts |-> SegmentNumbers]
    /\ send_data = [h \in Hosts |-> None]
    /\ stream = [h \in Hosts |-> None]
    /\ stored = None
    /\ cut = {} /\ astray = {} /\ tainted = {}

-----------------------------------------------------------------------------
(* A beacon tells the downloader of the file, and it starts a download.    *)
StartDownload ==
    /\ resource = None
    /\ resource' = FromHeader(generate_resource_header(file))
    /\ data' = [i \in 0..(calc_segments_count(resource') * SEGMENT_SIZE - 1) |->
                    Uninitialised]
    /\ UNCHANGED <<file, completed, link, segment, recv_data, send_data, stream,
                   stored, faultVars>>

RequestSegment(h, s) ==
    /\ resource # None
    /\ stored = None
    /\ s \in SegmentIds \ completed
    /\ link[h] = "idle"
    /\ link' = [link EXCEPT ![h] = "asked"]
    /\ segment' = [segment EXCEPT ![h] = s]
    /\ UNCHANGED <<file, resource, data, completed, recv_data, send_data, stream,
                   stored, faultVars>>

(* The quotient is converted to a Uint16, which is undefined when it is    *)
(* too large for one: any number can come out.                             *)
LastSegments(size) ==
    IF size \div SEGMENT_SIZE <= Uint16Max THEN {size \div SEGMENT_SIZE} ELSE SegmentNumbers

(* Mutant: the last segment is as long as the others.                      *)
SameSegmentSizes(size, s) == {SEGMENT_SIZE}

(* The segment behind the last full one has what is left of the file,      *)
(* which is nothing when all segments are full; the difference becomes a   *)
(* Uint32.                                                                 *)
RequestedSegmentSizes(size, s) ==
    {IF s = n THEN (size - n * SEGMENT_SIZE) % (Uint32Max + 1) ELSE SEGMENT_SIZE :
        n \in LastSegments(size)}

(* read_lock opens the file once and keeps the stream.  The file need not  *)
(* be what was announced any more: it may have another length, and other   *)
(* bytes.                                                                  *)
Opened(h) ==
    IF stream[h] = None
    THEN [length : 0..(file.size + 1), good : {TRUE}, same : BOOLEAN]
    ELSE {stream[h]}

CanRead(f, s, n) ==
    /\ n \in 0..SEGMENT_SIZE
    /\ f.good
    /\ n = 0 \/ s * SEGMENT_SIZE + n <= f.length

(* n bytes of segment s of the file, and zeros up to SEGMENT_SIZE.         *)
Segment(name, s, n) ==
    [i \in 0..(SEGMENT_SIZE - 1) |->
        IF i < n THEN Byte(name, s * SEGMENT_SIZE + i) ELSE Zero]

(* get_segment was successful and the answer is sent.                      *)
Reply(h, name, s, n) ==
    /\ link' = [link EXCEPT ![h] = "answered"]
    /\ send_data' = [send_data EXCEPT ![h] = Segment(name, s, n)]
    /\ astray' = IF name = Other THEN astray \cup {h} ELSE astray \ {h}

(* The worker is deleted, and the connection with it.                      *)
Refuse(h) ==
    /\ link' = [link EXCEPT ![h] = "refused"]
    /\ UNCHANGED <<send_data, astray>>

(* A stream that could not deliver stays in its failed state; a size that  *)
(* is too large is refused before the stream is touched.                   *)
ReadStream(h, name, s, n, f) ==
    IF CanRead(f, s, n)
    THEN /\ Reply(h, IF f.same THEN name ELSE Other, s, n)
         /\ stream' = [stream EXCEPT ![h] = f]
    ELSE /\ Refuse(h)
         /\ stream' = [stream EXCEPT ![h] =
                [f EXCEPT !.good = @ /\ n \notin 0..SEGMENT_SIZE]]

(* The name cannot be opened, which handle_read does not notice, and       *)
(* file_ptr is uninitialised: it may point to the stream of another file,  *)
(* which is read and sent, to a closed one or to a failing one, or         *)
(* anywhere, and then the process of the host ends.                        *)
OpenFails(h, s, n) ==
    /\ stream[h] = None
    /\ \/ n \in 0..SEGMENT_SIZE /\ Reply(h, Other, s, n)
       \/ Refuse(h)
    /\ UNCHANGED stream

(* handle_read serves segment s.                                           *)
Serve(h, s) ==
    LET request == FromHeader(generate_resource_header(resource))
    IN  /\ recv_data' = [recv_data EXCEPT ![h] = {s}]
        /\ \E n \in RequestedSegmentSizes(request.size, s) :
            \/ \E f \in Opened(h) : ReadStream(h, request.name, s, n, f)
            \/ OpenFails(h, s, n)
        /\ UNCHANGED <<file, resource, data, completed, segment, stored, tainted>>

RequestArrives(h) ==
    /\ link[h] = "asked"
    /\ Serve(h, segment[h])
    /\ UNCHANGED cut

(* The segment number is still on its way when handle_read runs: it does   *)
(* not look at bytes_transferred and takes the number it finds.            *)
RequestCut(h) ==
    /\ link[h] = "asked"
    /\ \E s \in recv_data[h] : Serve(h, s)
    /\ cut' = cut \cup {h}

Wrong(h) == h \in cut \cup astray

(* receive_segment reads into the buffer itself: k bytes of the answer are *)
(* in the place of the segment that was asked for.                         *)
Written(h, k) ==
    [i \in DOMAIN data |->
        IF i \div SEGMENT_SIZE = segment[h] /\ i % SEGMENT_SIZE < k
        THEN send_data[h][i % SEGMENT_SIZE] ELSE data[i]]

(* The whole answer has come, and set_segment completes the segment.  What *)
(* was missing of a request comes next, is taken for a command and         *)
(* answered by nothing.                                                    *)
ReceiveSegment(h) ==
    /\ link[h] = "answered"
    /\ data' = Written(h, SEGMENT_SIZE)
    /\ completed' = completed \cup {segment[h]}
    /\ link' = [link EXCEPT ![h] = IF h \in cut THEN "dead" ELSE "idle"]
    /\ send_data' = [send_data EXCEPT ![h] = None]
    /\ tainted' = IF Wrong(h) THEN tainted \cup {segment[h]} ELSE tainted
    /\ UNCHANGED <<file, resource, segment, recv_data, stream, stored, cut, astray>>

(* The connection breaks in the middle of the answer: its first bytes stay *)
(* in the buffer, where another worker may have completed the segment.     *)
ReceiveFails(h, k) ==
    /\ link[h] = "answered"
    /\ data' = Written(h, k)
    /\ link' = [link EXCEPT ![h] = "dead"]
    /\ send_data' = [send_data EXCEPT ![h] = None]
    /\ tainted' = IF Wrong(h) THEN tainted \cup {segment[h]} ELSE tainted
    /\ UNCHANGED <<file, resource, completed, segment, recv_data, stream, stored, cut,
                   astray>>

(* store_resource writes size bytes from the start of the buffer, however  *)
(* long that is.                                                           *)
StoreResource ==
    /\ resource # None
    /\ stored = None
    /\ completed = SegmentIds
    /\ stored' = [i \in 0..(resource.size - 1) |->
                    IF i \in DOMAIN data THEN data[i] ELSE Beyond]
    /\ UNCHANGED <<file, resource, data, completed, link, segment, recv_data,
                   send_data, stream, faultVars>>

(* The file is stored, or no connection is left to get it from.            *)
Over ==
    /\ \/ stored # None /\ \A h \in Hosts : link[h] \in {"idle", "refused", "dead"}
       \/ \A h \in Hosts : link[h] \in {"refused", "dead"}
    /\ UNCHANGED vars

Next ==
    \/ StartDownload
    \/ \E h \in Hosts :
        \/ \E s \in SegmentNumbers : RequestSegment(h, s)
        \/ RequestArrives(h) \/ RequestCut(h)
        \/ ReceiveSegment(h)
        \/ \E k \in 0..(SEGMENT_SIZE - 1) : ReceiveFails(h, k)
    \/ StoreResource
    \/ Over

Spec == Init /\ [][Next]_vars

-----------------------------------------------------------------------------
(* Properties.                                                             *)

NameFits == Len(file.name) <= FILE_NAME_LENGHT

(* The downloader asks for the file that its owner added: a name that      *)
(* fills its field to the last byte and has no terminator survives the     *)
(* header too.                                                             *)
HeaderFaithful == resource # None /\ NameFits => resource = file

(* The stored file has the announced size, and every byte of it is the    *)
(* announced one, except in segments for which a wrong answer came: a host *)
(* read another file, or took its number out of half a request.  The       *)
(* count of segments, the size of the last one, its padding, the places in *)
(* the buffer and the number of bytes written fit together up to the       *)
(* largest file that a Uint16 can number; the damage one host does stays   *)
(* in the segments it was asked for, whatever the others deliver there.    *)
StoredFaithful ==
    stored # None /\ NameFits /\ Countable(file) =>
        /\ DOMAIN stored = 0..(file.size - 1)
        /\ \A i \in DOMAIN stored :
            i \div SEGMENT_SIZE \in tainted \/ stored[i] = Byte(file.name, i)

(* Once a host has opened the whole file it refuses no request for it:     *)
(* handle_read never asks FileManager for bytes that are not there, and no *)
(* stream is left in its failed state for those who come later.            *)
WholeFileServed ==
    \A h \in Hosts :
        h \notin cut /\ NameFits /\ Countable(file) /\ stream[h] # None
            => stream[h].length < file.size \/ (stream[h].good /\ link[h] # "refused")
=============================================================================
