------------------------------ MODULE Package ------------------------------
(***************************************************************************)
(* The control block at the head of every package, byte by byte as both    *)
(* sides write and read it (Command.cpp, main_loop.cpp, udpserver.cpp):    *)
(*                                                                         *)
(*   sequence number or UDP port   2 bytes, the low one first              *)
(*   counter or poll interval      4 bytes, the low one first              *)
(*   type, arg, plSz               3 bytes for each port                   *)
(*   checksum of all these         1 byte                                  *)
(*                                                                         *)
(* A block is a sequence of bytes from 1 on; offsets are the code's, from  *)
(* 0 on.  The checksum is the same code on both sides.                     *)
(***************************************************************************)
EXTENDS Integers, Sequences

CONSTANT PortCount

ASSUME PortCountAssumption == PortCount \in Nat \ {0}

PkgHdrSz == 6
CntOffset == 2
CmdHdrSize == 3
MetaSz == PkgHdrSz + CmdHdrSize * PortCount

Octet == 0 .. 255

\* The request types of both sides.
NoCommand == 0
Data == 8
-----------------------------------------------------------------------------
(* The checksum.                                                           *)

Crc8Table ==
  <<0,  49,  98,  83, 196, 245, 166, 151, 185, 136, 219, 234, 125,  76,  31,  46,
    67, 114,  33,  16, 135, 182, 229, 212, 250, 203, 152, 169,  62,  15,  92, 109,
    134, 183, 228, 213,  66, 115,  32,  17,  63,  14,  93, 108, 251, 202, 153, 168,
    197, 244, 167, 150,   1,  48,  99,  82, 124,  77,  30,  47, 184, 137, 218, 235,
    61,  12,  95, 110, 249, 200, 155, 170, 132, 181, 230, 215,  64, 113,  34,  19,
    126,  79,  28,  45, 186, 139, 216, 233, 199, 246, 165, 148,   3,  50,  97,  80,
    187, 138, 217, 232, 127,  78,  29,  44,   2,  51,  96,  81, 198, 247, 164, 149,
    248, 201, 154, 171,  60,  13,  94, 111,  65, 112,  35,  18, 133, 180, 231, 214,
    122,  75,  24,  41, 190, 143, 220, 237, 195, 242, 161, 144,   7,  54, 101,  84,
    57,   8,  91, 106, 253, 204, 159, 174, 128, 177, 226, 211,  68, 117,  38,  23,
    252, 205, 158, 175,  56,   9,  90, 107,  69, 116,  39,  22, 129, 176, 227, 210,
    191, 142, 221, 236, 123,  74,  25,  40,   6,  55, 100,  85, 194, 243, 160, 145,
    71, 118,  37,  20, 131, 178, 225, 208, 254, 207, 156, 173,  58,  11,  88, 105,
    4,  53, 102,  87, 192, 241, 162, 147, 189, 140, 223, 238, 121,  72,  27,  42,
    193, 240, 163, 146,   5,  52, 103,  86, 120,  73,  26,  43, 188, 141, 222, 239,
    130, 179, 224, 209,  70, 119,  36,  21,  59,  10,  89, 104, 255, 206, 157, 172>>

\* The bit of a byte that weighs so much.
Bit(byte, weight) == (byte \div weight) % 2

\* a ^ b
Xor(a, b) ==
  LET differ(weight) == weight * ((Bit(a, weight) + Bit(b, weight)) % 2)
  IN  differ(1) + differ(2) + differ(4) + differ(8)
        + differ(16) + differ(32) + differ(64) + differ(128)

\* The entry for the checksum so far, combined with each byte in turn.
CRC8(bytes) ==
  LET crc[n \in 0 .. Len(bytes)] ==
        IF n = 0 THEN 255 ELSE Crc8Table[Xor(crc[n - 1], bytes[n]) + 1]
  IN  crc[Len(bytes)]
-----------------------------------------------------------------------------
(* Writing a block.                                                        *)

WriteU16Value(value) == <<value % 256, (value \div 256) % 256>>

WriteU32Value(value) ==
  WriteU16Value(value) \o WriteU16Value(value \div 65536)

\* One request is [type, arg, plSz].
WriteRequest(request) == <<request.type, request.arg, request.plSz>>

\* header is [seq, counter, requests], with a request for each port.
Meta(header) ==
  [k \in 1 .. MetaSz |->
     IF k <= CntOffset THEN WriteU16Value(header.seq)[k]
     ELSE IF k <= PkgHdrSz THEN WriteU32Value(header.counter)[k - CntOffset]
     ELSE LET at == k - PkgHdrSz - 1
          IN  WriteRequest(header.requests[(at \div CmdHdrSize) + 1])[(at % CmdHdrSize) + 1]]

Sealed(header) == Append(Meta(header), CRC8(Meta(header)))
-----------------------------------------------------------------------------
(* Reading it.                                                             *)

\* Faulty variant: the last byte of the block is left out of the checksum.
IntactButLast(block) == CRC8(SubSeq(block, 1, MetaSz - 1)) = block[MetaSz + 1]

Intact(block) == CRC8(SubSeq(block, 1, MetaSz)) = block[MetaSz + 1]

Sequence(block) == block[1] + 256 * block[2]

Counter(block) ==
  block[CntOffset + 1] + 256 * (block[CntOffset + 2]
    + 256 * (block[CntOffset + 3] + 256 * block[CntOffset + 4]))

MapRequest(portIndex, block) ==
  LET offset == PkgHdrSz + portIndex * CmdHdrSize
  IN  [type |-> block[offset + 1], arg |-> block[offset + 2], plSz |-> block[offset + 3]]

Read(block) ==
  [seq      |-> Sequence(block),
   counter  |-> Counter(block),
   requests |-> [i \in 1 .. PortCount |-> MapRequest(i - 1, block)]]
-----------------------------------------------------------------------------
(* What a network may make of a block: one of its bytes comes out wrong.   *)

Damaged(block) ==
  {[block EXCEPT ![at] = byte] : at \in 1 .. MetaSz + 1, byte \in Octet} \ {block}
=============================================================================
