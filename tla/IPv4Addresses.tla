--------------------------- MODULE IPv4Addresses ---------------------------
(***************************************************************************)
(* translateAddress and detranslateAddress: an IPv4Address to a sockaddr_in*)
(* and back, on a little-endian machine.  Both backends have the same code.*)
(***************************************************************************)
EXTENDS Integers

Byte == 0 .. 255
Uint16Max == 65535
Uint16 == 0 .. Uint16Max

\* An IPv4Address: a.b.c.d and a port (uint16_t, here as its two bytes).
IPv4Address == [a : Byte, b : Byte, c : Byte, d : Byte, high : Byte, low : Byte]

Port(addr) == 256 * addr.high + addr.low

\* Mutant: the bytes are swapped in an int.
SwappedWide(n) == 256 * n + n \div 256

\* htons and ntohs, on a uint16_t.
Swapped(n) == 256 * (n % 256) + n \div 256

\* Mutant: a is shifted by 24, as detranslateAddress believes.
TranslateAddressReversed(addr) ==
  [s_addr |-> 16777216 * addr.a + 65536 * addr.b + 256 * addr.c + addr.d,
   sin_port |-> Swapped(Port(addr))]

\* The sockaddr_in: (d << 24) | (c << 16) | (b << 8) | a, and htons(port).
TranslateAddress(addr) ==
  [s_addr |-> 16777216 * addr.d + 65536 * addr.c + 256 * addr.b + addr.a,
   sin_port |-> Swapped(Port(addr))]

\* The bytes of a sockaddr_in in memory, which is what the network sees.
Image(sa) ==
  [a |-> sa.s_addr % 256,
   b |-> (sa.s_addr \div 256) % 256,
   c |-> (sa.s_addr \div 65536) % 256,
   d |-> sa.s_addr \div 16777216,
   high |-> sa.sin_port % 256,
   low  |-> sa.sin_port \div 256]

\* detranslateAddress takes the bytes of s_addr from the other end, and the
\* port as it is.
DetranslateAddress(sa) ==
  [a |-> sa.s_addr \div 16777216,
   b |-> (sa.s_addr \div 65536) % 256,
   c |-> (sa.s_addr \div 256) % 256,
   d |-> sa.s_addr % 256,
   high |-> sa.sin_port \div 256,
   low  |-> sa.sin_port % 256]
=============================================================================
