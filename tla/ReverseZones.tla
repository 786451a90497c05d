---------------------------- MODULE ReverseZones -----------------------------
(***************************************************************************)
(* The reverse zone of a block of addresses (pkg/rfc2317/arpa.go).         *)
(*                                                                         *)
(* An address is the sequence of its bytes as it is written, 4 or 16 of    *)
(* them; an IPv4 address may be written as an IPv6 one ("mapped").  A name *)
(* is the sequence of its labels, and a label of a reverse name a number:  *)
(* a byte, or half a byte of an IPv6 address.                              *)
(***************************************************************************)
EXTENDS Integers, Sequences, SequencesExt

BitsOf(address) == 8 * Len(address)

\* Bit i of an address, the first of which is 1.
Bit(address, i) == (address[((i - 1) \div 8) + 1] \div (2 ^ (7 - ((i - 1) % 8)))) % 2

\* No 1 beyond the mask.
Equal(address, bits) == \A i \in bits + 1 .. BitsOf(address) : Bit(address, i) = 0

Nibbles(address) ==
  [q \in 1 .. 2 * Len(address) |->
     IF q % 2 = 1 THEN address[(q + 1) \div 2] \div 16 ELSE address[q \div 2] % 16]

MappedPrefix == [i \in 1 .. 12 |-> IF i <= 10 THEN 0 ELSE 255]
Mapped(address) == Len(address) = 16 /\ IsPrefix(MappedPrefix, address)

To4(address) == IF Mapped(address) THEN SubSeq(address, 13, 16) ELSE address

ReverseAddr(address) ==
  LET ip == To4(address)
  IN  IF Len(ip) = 4 THEN Reverse(ip) \o <<"in-addr", "arpa">>
      ELSE Reverse(Nibbles(ip)) \o <<"ip6", "arpa">>

\* The mask has as many bits as the address is written with.
Classless(address, bits) == Len(address) = 4 /\ bits \in 25 .. 31

\* Counts half bytes in both families.
LabelBitsNibble(address) == 4

LabelBits(address) == IF Len(address) = 4 THEN 8 ELSE 4

NoZone == <<>>   \* an error
NoMask == -1     \* an address without a mask

\* What is left of the name without its first labels, at least the last one.
TrimLabels(name, n) == SubSeq(name, IF n < Len(name) THEN n + 1 ELSE Len(name), Len(name))

BlockToInAddr(address, bits) ==
  LET base == ReverseAddr(address)
  IN  CASE ~Equal(address, bits) \/ bits = 0 -> NoZone
        [] Equal(address, bits) /\ Classless(address, bits) ->
             <<<<address[4], bits>>>> \o Tail(base)
        [] Equal(address, bits) /\ bits # 0 /\ ~Classless(address, bits) ->
             IF bits % LabelBits(address) # 0 THEN NoZone
             ELSE TrimLabels(base, (BitsOf(address) - bits) \div LabelBits(address))

\* An address without a mask is a block of its own, an IPv4 one however written.
Cidr(address, bits) ==
  IF bits = NoMask THEN <<To4(address), BitsOf(To4(address))>> ELSE <<address, bits>>

CidrToInAddr(address, bits) == BlockToInAddr(Cidr(address, bits)[1], Cidr(address, bits)[2])

-------------------------------------------------------------------------------
\* A mapped address is the IPv4 address that it stands for, and so is a block.
InBlock(a, address, bits) ==
  LET network == To4(address)
      fixed   == IF Mapped(address) THEN bits - 96 ELSE bits
  IN  /\ Len(To4(a)) = Len(network)
      /\ \A i \in 1 .. fixed : Bit(To4(a), i) = Bit(network, i)
=============================================================================
