------------------------------ MODULE Resource ------------------------------
(***************************************************************************)
(* src/src/Resource.cpp and src/include/Resource.h: a file as the nodes    *)
(* know it, its header on the wire and how it is cut into segments.        *)
(*                                                                         *)
(* A name is a sequence of characters.  The numbers of a header travel in  *)
(* network byte order and are turned back by whoever reads them, so a      *)
(* header holds the number itself.                                         *)
(***************************************************************************)
EXTENDS Integers, Sequences

CONSTANTS
    SEGMENT_SIZE,      \* 1024 in GeneralTypes.h
    Uint16Max,         \* 65535
    FILE_NAME_LENGHT,  \* 256, the length of the name field
    NUL                \* the character that ends a name

ASSUME SegmentSizeAssumption == SEGMENT_SIZE \in Nat \ {0}
ASSUME WidthAssumption == Uint16Max \in Nat
ASSUME FieldAssumption == FILE_NAME_LENGHT \in Nat \ {0}

Resource(name, size) == [name |-> name, size |-> size]

(* memset, then memcpy of the name: what is longer than the field runs     *)
(* into the bytes of the size, which are written last.                     *)
generate_resource_header(r) ==
    [field |-> [i \in 1..FILE_NAME_LENGHT |-> IF i <= Len(r.name) THEN r.name[i] ELSE NUL],
     size  |-> r.size]

(* Mutant: the last byte of the field is taken for the terminator.         *)
NameInShort(field) ==
    LET n == CHOOSE n \in 0..(FILE_NAME_LENGHT - 1) :
                /\ \A i \in 1..n : field[i] # NUL
                /\ n = FILE_NAME_LENGHT - 1 \/ field[n + 1] = NUL
    IN  SubSeq(field, 1, n)

(* std::find: the name ends at the first NUL, or with the field.           *)
NameIn(field) ==
    LET n == CHOOSE n \in 0..FILE_NAME_LENGHT :
                /\ \A i \in 1..n : field[i] # NUL
                /\ n = FILE_NAME_LENGHT \/ field[n + 1] = NUL
    IN  SubSeq(field, 1, n)

(* The constructor from a header.                                          *)
FromHeader(header) == Resource(NameIn(header.field), header.size)

(* Mutant: the segment that is not full is not counted.                    *)
full_segments_count(r) == (r.size \div SEGMENT_SIZE) % (Uint16Max + 1)

(* Mutant: the count is not cut down to its type.                          *)
wide_segments_count(r) ==
    (r.size \div SEGMENT_SIZE) + IF r.size % SEGMENT_SIZE = 0 THEN 0 ELSE 1

(* A Uint16: the count of a longer file wraps round.                       *)
calc_segments_count(r) ==
    ((r.size \div SEGMENT_SIZE) + IF r.size % SEGMENT_SIZE = 0 THEN 0 ELSE 1)
        % (Uint16Max + 1)

(* The files whose segments a Uint16 can count.                            *)
Countable(r) == r.size <= Uint16Max * SEGMENT_SIZE
=============================================================================
