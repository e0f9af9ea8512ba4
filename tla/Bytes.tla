------------------------------- MODULE Bytes --------------------------------
(***************************************************************************)
(* Arithmetic of 8-bit bytes and 16-bit words, as uint8_t and uint16_t     *)
(* compute: modulo 2^8 and 2^16.                                           *)
(***************************************************************************)
EXTENDS Integers, Bitwise

Byte8(n) == n % 256
Word(n) == n % 65536
LowByte(w) == w % 256
HighByte(w) == w \div 256
Nibble(n) == n % 16
Signed(b) == IF b >= 128 THEN b - 256 ELSE b

\* bit is a power of two.
Has(f, bit) == (f \div bit) % 2 = 1
Bit(condition, value) == IF condition THEN value ELSE 0
=============================================================================
