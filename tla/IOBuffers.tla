----------------------------- MODULE IOBuffers -----------------------------
(***************************************************************************)
(* RcBuffer and RcBufferRef, and the length a call gives to the kernel.    *)
(* size_t and ULONG have the widths SizeMax and UlongMax say.              *)
(***************************************************************************)
EXTENDS Integers

CONSTANTS
  SizeMax,   \* largest size_t
  UlongMax   \* ULONG_MAX, the largest length of a WSABUF

ASSUME BufferAssumption ==
  /\ SizeMax \in Nat
  /\ UlongMax \in 0 .. SizeMax

SizeT == 0 .. SizeMax
Ulong == 0 .. UlongMax

Add(m, n) == (m + n) % (SizeMax + 1)

\* A reference to a buffer of that many bytes.
BufferRef(bytes, offset, size) == [bytes |-> bytes, offset |-> offset, size |-> size]
BufferRefs == [bytes : SizeT, offset : SizeT, size : SizeT]

\* RcBufferRef(buffer).
WholeBuffer(bytes) == BufferRef(bytes, 0, bytes)

\* RcBufferRef(buffer, offset, size) goes on instead of terminating.  The slice
\* may not reach the end of the buffer, and the sum may wrap.
SliceAccepted(bytes, offset, size) == offset < bytes /\ Add(offset, size) < bytes

\* readAsync and writeAsync refuse a buffer whose length a WSABUF cannot hold.
TooBig(ref) == ref.bytes > UlongMax

\* Mutant: the offset is not taken off.
KernelLengthWhole(ref) == ref.bytes % (UlongMax + 1)

\* allocOverlapped: buf.len, the rest of the buffer and not the slice.
KernelLength(ref) == (ref.bytes - ref.offset) % (UlongMax + 1)

\* read and write: (int)size, given to a parameter that is an int on Windows and
\* a size_t on Unix, where a negative int becomes a huge size.
SyncLength(size) ==
  LET low == size % (UlongMax + 1)
  IN  IF low > UlongMax \div 2 THEN (low - UlongMax - 1) % (SizeMax + 1) ELSE low
=============================================================================
