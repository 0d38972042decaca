-------------------------------- MODULE Packet ------------------------------
(***************************************************************************)
(* The buffer of a Packet: values written bit by bit or byte by byte, sent,*)
(* and read back by a reader that asks for the same widths in the same     *)
(* order.  So do the serialize and deserialize pairs of the demos, but for *)
(* Asteroid's, which writes a std::size_t and reads it as 4 bytes.         *)
(*                                                                         *)
(* A value is the set of its bits that are 1, and so is the buffer: bit i  *)
(* of byte b is 8 * b + i.  The loops of writeBits and readBits fill what  *)
(* is left of the current byte, then whole bytes, then the rest: one run of*)
(* consecutive bits.  The current byte is the one before bytes_written, so *)
(* a full byte k is (k + 1, 8) or (k + 2, 0): the same place for bits, not *)
(* for bytes.                                                              *)
(***************************************************************************)
EXTENDS Naturals, Sequences

CONSTANTS
  HeaderSize,  \* sizeof(PacketHeader)
  Reserved,    \* the bytes that a constructor reserves
  Widths,      \* the bit counts of writeBits
  Sizes,       \* the byte counts of arithmetic types and vector elements
  Steps,       \* max_possible_values of compressed floats
  MaxItems     \* bound: values in a packet

ASSUME SizesAssumption == HeaderSize \in Nat \ {0} /\ Sizes \subseteq Nat \ {0}

(* 1400 bytes are reserved; a header has 8.                                *)
ASSUME ReservedAssumption == Reserved \in Nat /\ HeaderSize <= Reserved

(* writeBits throws when a value has more bits than an int.                *)
ASSUME WidthsAssumption == Widths \subseteq 1..32

(* An int.  A range of a single step takes no bits and is left out.        *)
ASSUME StepsAssumption == \A steps \in Steps : steps \in Nat /\ 2 <= steps /\ steps <= 2147483647

ASSUME BoundAssumption == MaxItems \in Nat

(* The maximum of a range of 2^k steps does not fit k bits; the ranges of  *)
(* the demos are none.                                                     *)
RoomForMaximum == \A k \in 0..30 : 2^k \notin Steps

VARIABLES
  ones,           \* the bits of bytes that are 1
  size,           \* bytes.size()
  written,        \* bytes_written and bits_written
  read,           \* bytes_read and bits_read
  items,          \* history: what was written since the last clear
  got,            \* history: what was read since the last reset
  place,          \* "written", "local" (emitted to the host) or "received"
  beyond          \* history: how many bytes after its memory were touched

vars == <<ones, size, written, read, items, got, place, beyond>>

Places == {"written", "local", "received"}

Item(kind, width, value) == [kind |-> kind, width |-> width, value |-> value]

(* The bits of a number.                                                   *)
Binary(v) == {i \in 0..30 : (v \div 2^i) % 2 = 1}

(* Ones, zeros and an alternation.                                         *)
Patterns(width) == {0..(width - 1), {}, {i \in 0..(width - 1) : i % 2 = 0}}

-----------------------------------------------------------------------------
(* Where the next bit goes or comes from.                                  *)
Position(head) == 8 * (head.bytes - 1) + head.bits

(* bits_available.                                                         *)
Room(start) == 8 - (start % 8)

(* A byte that is partly used is used up, however few bits are asked for.  *)
Run(start, n) == IF Room(start) < 8 /\ n < Room(start) THEN Room(start) ELSE n

AfterBits(pos) == [bytes |-> pos \div 8 + 1, bits |-> pos % 8]

AfterBytes(n) == [bytes |-> n, bits |-> 8]

(* Faulty: bytes_needed rounded down.                                      *)
NeededRoundedDown(start, n) == start \div 8 + 1 + (IF n > Room(start) THEN (n - Room(start)) \div 8 ELSE 0)

(* The bytes up to and including the last that n bits from start touch.    *)
Needed(start, n) == start \div 8 + 1 + (n + 7 - Room(start)) \div 8

Replace(start, n, value) ==
  (ones \ (start..(start + n - 1))) \cup {start + i : i \in value \cap 0..(n - 1)}

Bits(start, n) == {i \in 0..(n - 1) : start + i \in ones}

(* Faulty: nothing is reserved.                                            *)
ExactMemory(n) == n

(* What a vector of n bytes owns at least: what its constructor reserved,  *)
(* which clear does not give back; a copy, which every reader has, owns    *)
(* its elements only.                                                      *)
Memory(n) == IF place = "written" /\ n < Reserved THEN Reserved ELSE n

(* The first `end` bytes are accessed while the vector has n.              *)
Touch(end, n) ==
  beyond' = IF end > Memory(n) /\ end - Memory(n) > beyond THEN end - Memory(n) ELSE beyond

-----------------------------------------------------------------------------
Init ==
  /\ ones = {} /\ size = HeaderSize
  /\ written = AfterBytes(HeaderSize)
  /\ read = AfterBytes(HeaderSize)
  /\ items = <<>> /\ got = <<>>
  /\ place = "written"
  /\ beyond = 0

CanWrite == place = "written" /\ Len(items) < MaxItems

WriteBits(n, value) ==
  LET start == Position(written) IN
    /\ CanWrite
    /\ size' = IF Needed(start, n) > size THEN Needed(start, n) ELSE size
    /\ ones' = Replace(start, Run(start, n), value)
    /\ written' = AfterBits(start + Run(start, n))
    /\ items' = Append(items, Item("bits", n, value))
    /\ UNCHANGED <<read, got, place, beyond>>

(* writeCompressedFloat of a number `value` steps above the minimum.       *)
BitsRequired(steps) == CHOOSE k \in 0..31 : 2^k >= steps /\ \A j \in 0..(k - 1) : 2^j < steps

WriteCompressedFloat(steps, value) == WriteBits(BitsRequired(steps), Binary(value))

(* serialize: operator<< of an arithmetic type.                            *)
Serialize(n, value) ==
  LET end == written.bytes + n IN
    /\ CanWrite
    /\ size' = IF end > size THEN 2 * end ELSE size
    /\ ones' = Replace(8 * written.bytes, 8 * n, value)
    /\ written' = AfterBytes(end)
    /\ items' = Append(items, Item("bytes", n, value))
    /\ UNCHANGED <<read, got, place, beyond>>

(* clear empties the vector and then copies the header to where its first  *)
(* elements were; growing the vector fills them with zeros.                *)
Clear ==
  /\ place = "written"
  /\ items # <<>>
  /\ ones' = {} /\ size' = 0
  /\ Touch(HeaderSize, 0)
  /\ written' = AfterBytes(HeaderSize)
  /\ read' = AfterBytes(HeaderSize)
  /\ items' = <<>> /\ got' = <<>>
  /\ UNCHANGED place

-----------------------------------------------------------------------------
(* ClientHost::sendPacket emits the packet; the slots get a copy of it.    *)
SendLocal ==
  /\ place = "written"
  /\ items # <<>>
  /\ place' = "local"
  /\ UNCHANGED <<ones, size, written, read, items, got, beyond>>

(* ENet copies getBytesWritten() bytes; what follows the buffer is         *)
(* anything.  The receiver's Packet is built from them, and copied.        *)
SendRemote ==
  /\ place = "written"
  /\ items # <<>>
  /\ place' = "received"
  /\ size' = written.bytes
  /\ \E junk \in {{}, 8 * size..8 * written.bytes} :
       ones' = {i \in ones \cup junk : i < 8 * written.bytes}
  /\ written' = AfterBytes(written.bytes)
  /\ read' = AfterBytes(HeaderSize)
  /\ got' = <<>>
  /\ Touch(written.bytes, size)
  /\ UNCHANGED items

-----------------------------------------------------------------------------
(* Faulty: nothing is refused.                                             *)
NeverRefuse(start, n) == TRUE

(* readBits throws unless this holds.                                      *)
CanReadBits(start, n) == Needed(start, n) - 1 <= size

(* Faulty: the last byte is not for reading.                               *)
NeedsSpare(n) == read.bytes + n < size

(* deserialize throws unless this holds.                                   *)
CanDeserialize(n) == read.bytes + n <= size

(* One value; `expected` when it is the next of those that were written.   *)
ReadBits(n, expected) ==
  LET start == Position(read)
      value == Bits(start, Run(start, n))
  IN /\ CanReadBits(start, n)
     /\ read' = AfterBits(start + Run(start, n))
     /\ got' = IF expected THEN Append(got, value) ELSE got
     /\ Touch(Needed(start, n), size)
     /\ UNCHANGED <<ones, size, written, items, place>>

Deserialize(n, expected) ==
  /\ CanDeserialize(n)
  /\ read' = AfterBytes(read.bytes + n)
  /\ got' = IF expected THEN Append(got, Bits(8 * read.bytes, 8 * n)) ELSE got
  /\ Touch(read.bytes + n, size)
  /\ UNCHANGED <<ones, size, written, items, place>>

NextItem == items[Len(got) + 1]

ReadNext ==
  /\ Len(got) < Len(items)
  /\ \/ NextItem.kind = "bits" /\ ReadBits(NextItem.width, TRUE)
     \/ NextItem.kind = "bytes" /\ Deserialize(NextItem.width, TRUE)

(* A reader that expects more than was written.                            *)
ReadMore ==
  /\ place # "written"
  /\ Len(got) = Len(items)
  /\ \/ \E n \in Widths : ReadBits(n, FALSE)
     \/ \E n \in Sizes : Deserialize(n, FALSE)

(* Faulty: bits_read is forgotten.                                         *)
RewindBytes == [bytes |-> HeaderSize, bits |-> read.bits]

Rewind == AfterBytes(HeaderSize)

(* Before a packet is handed on, and by ServerHost when it forwards one.   *)
ResetReadPosition ==
  /\ got # <<>>
  /\ read' = Rewind
  /\ got' = <<>>
  /\ UNCHANGED <<ones, size, written, items, place, beyond>>

-----------------------------------------------------------------------------
Write ==
  \/ \E n \in Widths : \E value \in Patterns(n) : WriteBits(n, value)
  \/ \E steps \in Steps : \E value \in 0..steps : WriteCompressedFloat(steps, value)
  \/ \E n \in Sizes : \E value \in Patterns(8 * n) : Serialize(n, value)

Next ==
  \/ Write \/ Clear
  \/ SendLocal \/ SendRemote
  \/ ReadNext \/ ReadMore \/ ResetReadPosition

Spec == Init /\ [][Next]_vars

-----------------------------------------------------------------------------
(* Properties.                                                             *)

ItemOK(item) == item.kind \in {"bits", "bytes"} /\ item.width \in Nat

(* The shape of the state: bits are only set in the buffer, and neither    *)
(* position is more than one byte after it.                                *)
TypeOK ==
  /\ size \in Nat /\ beyond \in Nat
  /\ \A i \in ones : i \in Nat /\ i < 8 * size
  /\ written \in [bytes : Nat, bits : 0..8]
  /\ read \in [bytes : Nat, bits : 0..8]
  /\ \A i \in 1..Len(items) : ItemOK(items[i])
  /\ Len(got) <= Len(items)
  /\ place \in Places
  /\ items # <<>> => written.bytes <= size + 1

(* What is written is read back, on the host's own packet and on the       *)
(* other end of a connection, after a reset and after a clear, wherever    *)
(* the values fall in their bytes: writer and reader skip the same bits.   *)
RoundTrip == \A i \in 1..Len(got) : got[i] = items[i].value

(* At most one byte after the memory of the packet is ever touched, by     *)
(* writing, sending, reading or clearing: a full last byte makes           *)
(* getBytesWritten count one that is not there, and readBits accepts one   *)
(* byte after the end, while the header that clear copies into an empty    *)
(* vector stays in what the constructor reserved.                          *)
NearBuffer == beyond <= 1

(* A reader that asks for what was written is never refused.               *)
NeverStuck ==
  Len(got) < Len(items) =>
    \/ NextItem.kind = "bits" /\ CanReadBits(Position(read), NextItem.width)
    \/ NextItem.kind = "bytes" /\ CanDeserialize(NextItem.width)

=============================================================================
