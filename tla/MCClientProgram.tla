-------------------------- MODULE MCClientProgram --------------------------
(* ClientProgram for TLC: addresses whose bytes differ, the last below 128 *)
(* as TLC's integers have 32 bits; and references to buffers below, at and *)
(* above the length a WSABUF can hold, with a 3-bit size_t and a 2-bit     *)
(* ULONG.                                                                  *)
EXTENDS ClientProgram, TLC

Symmetry == Permutations(Sockets) \cup Permutations(Handles)

MCAddress(a, b, c, d, port) ==
  [a |-> a, b |-> b, c |-> c, d |-> d, high |-> port \div 256, low |-> port % 256]

MCAddresses == { MCAddress(127, 0, 0, 1, 8080), MCAddress(255, 2, 128, 99, 65535) }

MCSizeMax == 7
MCUlongMax == 3

\* Whole buffers, and slices of one of 3 bytes; 1 + 7 wraps.
MCRefs ==
  { WholeBuffer(bytes) : bytes \in {0, 3, 4} }
  \cup { BufferRef(3, offset, size) : offset \in {0, 1, 3}, size \in {0, 1, 2, 7} }

MCSizes == {1, 2, 7}
=============================================================================
