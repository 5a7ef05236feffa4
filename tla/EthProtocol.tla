----------------------------- MODULE EthProtocol -----------------------------
(***************************************************************************)
(* The origin of a GetBlockHeaders request (src/ethereum/eth/protocol.go): *)
(* hashOrNumber, its EncodeRLP on the sending peer and its DecodeRLP on    *)
(* the receiving one.                                                      *)
(*                                                                         *)
(* The rlp package is not in this tree; it is modelled by the RLP rules it *)
(* implements.  A uint64 is its big-endian bytes without leading zeros: a  *)
(* single byte below 0x80 is its own item, which Stream.Kind reports with  *)
(* size 0; 0 is the empty string; anything else a string of its bytes.  A  *)
(* common.Hash is a string of 32 bytes, whose content is kept as the hash  *)
(* itself.  Byte values are scaled: Base stands for 256 (so 0x80 is        *)
(* Base \div 2) and a uint64 is below Base^8, so a number with all eight   *)
(* bytes fits in TLC's integers.  A peer may also send an origin of any    *)
(* other size.                                                             *)
(***************************************************************************)
EXTENDS Naturals, Sequences

CONSTANTS
    Base,           \* 256, scaled
    Numbers,        \* block numbers a peer asks for, below Base^8
    Hashes,         \* block hashes a peer asks for
    ZeroHash,       \* common.Hash{}
    ForgedSizes,    \* sizes of string items a faulty peer sends as origin
    NoErr,          \* model value: a nil error
    NotDone         \* model value: nothing sent or decoded yet

VARIABLES
    hn,             \* the sender's hashOrNumber
    wire,           \* what EncodeRLP produced ([err, item]), or NotDone
    forged,         \* the origin on the wire was not made by EncodeRLP
    got             \* the receiver's decoded hashOrNumber and error, or NotDone

vars == <<hn, wire, forged, got>>

Origins == [hash : Hashes \cup {ZeroHash}, number : Numbers]

-----------------------------------------------------------------------------
\* The big-endian bytes of n without leading zeros, and back.
RECURSIVE BigEndian(_)
BigEndian(n) == IF n = 0 THEN <<>> ELSE Append(BigEndian(n \div Base), n % Base)

Front(b) == SubSeq(b, 1, Len(b) - 1)

RECURSIVE FromBigEndian(_)
FromBigEndian(b) ==
    IF b = <<>> THEN 0 ELSE FromBigEndian(Front(b)) * Base + b[Len(b)]

\* rlp.Encode of a uint64.
RlpUint(n) ==
    IF n > 0 /\ n < Base \div 2 THEN [kind |-> "byte", size |-> 0, val |-> <<n>>]
    ELSE [kind |-> "string", size |-> Len(BigEndian(n)), val |-> BigEndian(n)]

\* rlp.Encode of a common.Hash.
RlpHash(h) == [kind |-> "string", size |-> 32, val |-> h]

\* EncodeRLP: the number when the hash is zero; an error when both are set;
\* else the hash.
EncodeRLP(o) ==
    CASE o.hash = ZeroHash -> [err |-> NoErr, item |-> RlpUint(o.number)]
      [] o.number # 0      -> [err |-> "both", item |-> NotDone]
      [] OTHER             -> [err |-> NoErr, item |-> RlpHash(o.hash)]

\* Mutant: an eight-byte number is taken for an invalid size.
DecodeRLPShort(it) ==
    CASE it.size = 32 -> [o |-> [hash |-> it.val, number |-> 0], err |-> NoErr]
      [] it.size < 8  -> [o |-> [hash |-> ZeroHash, number |-> FromBigEndian(it.val)],
                          err |-> NoErr]
      [] OTHER        -> [o |-> [hash |-> ZeroHash, number |-> 0], err |-> "size"]

\* DecodeRLP into a fresh hashOrNumber: Stream.Kind gives the size, and a
\* size of 32 is decoded as the hash, one of at most 8 as the number, any
\* other is "invalid input size".
DecodeRLP(it) ==
    CASE it.size = 32 -> [o |-> [hash |-> it.val, number |-> 0], err |-> NoErr]
      [] it.size <= 8 -> [o |-> [hash |-> ZeroHash, number |-> FromBigEndian(it.val)],
                          err |-> NoErr]
      [] OTHER        -> [o |-> [hash |-> ZeroHash, number |-> 0], err |-> "size"]

-----------------------------------------------------------------------------
Init ==
    /\ hn \in Origins
    /\ wire = NotDone
    /\ forged = FALSE
    /\ got = NotDone

\* The sending peer encodes the origin of its request.
Send ==
    /\ wire = NotDone
    /\ wire' = EncodeRLP(hn)
    /\ UNCHANGED <<hn, forged, got>>

\* A faulty peer sends an origin string of another size.
Forge(size) ==
    /\ wire = NotDone
    /\ wire' = [err |-> NoErr,
                item |-> [kind |-> "string", size |-> size, val |-> [i \in 1..size |-> 1]]]
    /\ forged' = TRUE
    /\ UNCHANGED <<hn, got>>

\* The receiving peer decodes the origin that arrived.
Receive ==
    /\ wire # NotDone /\ wire.err = NoErr /\ got = NotDone
    /\ got' = DecodeRLP(wire.item)
    /\ UNCHANGED <<hn, wire, forged>>

Next == Send \/ (\E s \in ForgedSizes : Forge(s)) \/ Receive

Spec == Init /\ [][Next]_vars

-----------------------------------------------------------------------------
(* Properties.                                                             *)

\* The origin survives the wire: EncodeRLP refuses exactly an origin with
\* both a hash and a number, and what it sends DecodeRLP turns back into
\* the same hash or number, across the one-byte, the empty and the
\* eight-byte encodings of a number; an origin of any other size is
\* refused by the receiver.
OriginRoundTrip ==
    /\ wire # NotDone /\ ~forged =>
          (wire.err # NoErr <=> hn.hash # ZeroHash /\ hn.number # 0)
    /\ got # NotDone =>
          IF forged THEN got.err # NoErr ELSE got.err = NoErr /\ got.o = hn
=============================================================================
