------------------------------- MODULE ShmLayout -------------------------------
(***************************************************************************)
(* Where the parts of a shared-memory object are, in the 64-bit arithmetic *)
(* of the code, and the parameters the sizes come from.                    *)
(***************************************************************************)
EXTENDS Integers

CONSTANTS
  Word,             \* 2^64 in the code: sizes and offsets are below Word
  HeaderSize,       \* sizeof(SharedMemoryHeader)
  SlotHeaderSize    \* sizeof(SlotHeader)

ASSUME LayoutAssumption ==
  /\ Word \in Nat /\ HeaderSize \in Nat \ {0} /\ SlotHeaderSize \in Nat \ {0}
  /\ HeaderSize < Word

\* Unsigned arithmetic, and the cast of a negative number.
Wrapped(n) == n % Word

SlotHeaderOffset(slot) == Wrapped(HeaderSize + Wrapped(slot * SlotHeaderSize))

BaseWithoutHeader(count) == Wrapped(count * SlotHeaderSize)
PayloadBaseOffset(count) == Wrapped(HeaderSize + Wrapped(count * SlotHeaderSize))

PayloadOffset(count, size, slot) ==
  Wrapped(PayloadBaseOffset(count) + Wrapped(slot * size))

TotalSize(count, size) == Wrapped(PayloadBaseOffset(count) + Wrapped(count * size))

\* What the total would be without a word size.
ExactTotal(count, size) == HeaderSize + count * SlotHeaderSize + count * size

AtLeast(bound, n) == IF n < bound THEN bound ELSE n

\* A relay raises slot_count to 1 and casts slot_size_bytes; a plugin raises
\* slot_size_bytes to 0, and ShmPublisher refuses its slot_count if not positive.
SlotCountOf(host, n) == IF host = "relay" THEN AtLeast(1, n) ELSE n
SlotSizeOf(host, n) == IF host = "relay" THEN Wrapped(n) ELSE AtLeast(0, n)

\* ShmPublisher's constructor and ShmRingBuffer::create.
CreateAccepts(host, count, size) ==
  SlotCountOf(host, count) > 0 /\ SlotSizeOf(host, size) # 0
===============================================================================
