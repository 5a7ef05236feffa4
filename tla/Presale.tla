------------------------------- MODULE Presale -------------------------------
(***************************************************************************)
(* Import of a presale wallet (src/ethereum/accounts/keystore/presale.go): *)
(* importPreSaleKey, decryptPreSaleKey, aesCBCDecrypt and pkcs7Unpad.      *)
(*                                                                         *)
(* The file is abstracted to what the control flow reads: whether the JSON *)
(* and the hex of encSeed parse, the length of encSeed in bytes, the bytes *)
(* CBC decryption yields for the ciphertext after the IV, whether EthAddr  *)
(* parses and equals the derived address, and whether StoreKey succeeds.  *)
(* The bytes are any bytes: a wrong password yields garbage.  BlockSize    *)
(* stands for aes.BlockSize (16), which is both the IV length and the      *)
(* largest padding; byte values above it are in Bytes so that paddings too *)
(* large are tried.  The imported key is the unpadded seed it is derived  *)
(* from (Keccak256 and the address derivation are left out).              *)
(***************************************************************************)
EXTENDS Integers, Sequences

CONSTANTS
    BlockSize,      \* aes.BlockSize
    Bytes,          \* byte values
    MaxSeed,        \* bound: length of encSeed in bytes
    Nil,            \* model value: a nil slice or key
    NoErr,          \* model value: a nil error
    NotDone         \* model value: the call has not returned

\* Byte strings of length n.
BytesOfLen(n) == [1..n -> Bytes]

Files ==
    [json : BOOLEAN, hex : BOOLEAN, seedLen : 0..MaxSeed,
     plain : UNION {BytesOfLen(n) : n \in 0..(MaxSeed - BlockSize)},
     addrOk : BOOLEAN, match : BOOLEAN, store : BOOLEAN]

VARIABLES
    file,       \* the presale key file and password, as the code reads them
    result      \* what importPreSaleKey returns, or a panic

vars == <<file, result>>

-----------------------------------------------------------------------------
\* The loop of pkcs7Unpad, i counting down from len(in)-1 (0-based) while
\* i > len(in)-padding-1: every byte it visits must equal padding.
RECURSIVE PadBytesMatch(_, _, _)
PadBytesMatch(in, padding, i) ==
    IF i > Len(in) - padding - 1
    THEN in[i + 1] = padding /\ PadBytesMatch(in, padding, i - 1)
    ELSE TRUE

\* Mutant: the loop stops one byte early.
RECURSIVE PadBytesMatchShort(_, _, _)
PadBytesMatchShort(in, padding, i) ==
    IF i > Len(in) - padding
    THEN in[i + 1] = padding /\ PadBytesMatchShort(in, padding, i - 1)
    ELSE TRUE

pkcs7UnpadShortLoop(in) ==
    IF Len(in) = 0 THEN Nil
    ELSE LET padding == in[Len(in)] IN
         IF padding > Len(in) \/ padding > BlockSize \/ padding = 0 THEN Nil
         ELSE IF ~PadBytesMatchShort(in, padding, Len(in) - 1) THEN Nil
         ELSE SubSeq(in, 1, Len(in) - padding)

\* pkcs7Unpad: nil on an empty input, a padding byte above the length or
\* the block size or zero, or a padding byte that differs; else the input
\* without its padding.
pkcs7Unpad(in) ==
    IF Len(in) = 0 THEN Nil
    ELSE LET padding == in[Len(in)] IN
         IF padding > Len(in) \/ padding > BlockSize \/ padding = 0 THEN Nil
         ELSE IF ~PadBytesMatch(in, padding, Len(in) - 1) THEN Nil
         ELSE SubSeq(in, 1, Len(in) - padding)

\* aesCBCDecrypt: CryptBlocks panics on a ciphertext that is not a whole
\* number of blocks (a panic is an err of "panic"); a nil unpadding is
\* ErrDecrypt.
aesCBCDecrypt(cipherLen, padded) ==
    IF cipherLen % BlockSize # 0 THEN [out |-> Nil, err |-> "panic"]
    ELSE IF pkcs7Unpad(padded) = Nil THEN [out |-> Nil, err |-> "ErrDecrypt"]
    ELSE [out |-> pkcs7Unpad(padded), err |-> NoErr]

\* decryptPreSaleKey: its early returns in order; on an address mismatch
\* it returns the key together with the error.
decryptPreSaleKey(f) ==
    LET plain == aesCBCDecrypt(f.seedLen - BlockSize, f.plain) IN
    CASE ~f.json                  -> [key |-> Nil, err |-> "json"]
      [] ~f.hex                   -> [key |-> Nil, err |-> "hex"]
      [] f.seedLen < BlockSize    -> [key |-> Nil, err |-> "short"]
      [] plain.err # NoErr        -> [key |-> Nil, err |-> plain.err]
      [] ~f.addrOk                -> [key |-> Nil, err |-> "addr"]
      [] ~f.match                 -> [key |-> plain.out, err |-> "mismatch"]
      [] OTHER                    -> [key |-> plain.out, err |-> NoErr]

\* importPreSaleKey: a decryption error is returned with no key; else the
\* key is stored and returned with StoreKey's error.  A panic in
\* CryptBlocks ends the call, shown as a result whose err is "panic".
importPreSaleKey(f) ==
    LET d == decryptPreSaleKey(f) IN
    IF d.err # NoErr THEN [key |-> Nil, err |-> d.err, stored |-> FALSE]
    ELSE [key |-> d.key, err |-> IF f.store THEN NoErr ELSE "store",
          stored |-> f.store]

Init ==
    /\ file \in {f \in Files :
                   Len(f.plain) = IF f.seedLen >= BlockSize
                                  THEN f.seedLen - BlockSize ELSE 0}
    /\ result = NotDone

Import ==
    /\ result = NotDone
    /\ result' = importPreSaleKey(file)
    /\ UNCHANGED file

Next == Import

Spec == Init /\ [][Next]_vars

-----------------------------------------------------------------------------
(* Properties.                                                             *)

\* A well-formed PKCS#7 padding: the last p bytes all equal p, 1 <= p <= BlockSize.
ValidPadding(s) ==
    \E p \in 1..BlockSize : p <= Len(s) /\ \A i \in (Len(s) - p + 1)..Len(s) : s[i] = p

\* Import against its reference: a malformed file, a bad padding (a wrong
\* password, in practice) or an address that does not match never yields a
\* key; a ciphertext that is not a whole number of blocks panics inside
\* CryptBlocks; otherwise the key is the seed with its padding removed, and
\* it is stored exactly when StoreKey succeeds.
ImportMatchesReference ==
    result # NotDone =>
        LET s == file.plain
            ct == file.seedLen - BlockSize
        IN  CASE ~file.json \/ ~file.hex \/ file.seedLen < BlockSize ->
                     result.key = Nil /\ result.err \notin {NoErr, "panic"}
              [] ct % BlockSize # 0 ->
                     result.err = "panic"
              [] ~ValidPadding(s) \/ ~file.addrOk \/ ~file.match ->
                     result.key = Nil /\ result.err \notin {NoErr, "panic"} /\ ~result.stored
              [] OTHER ->
                     /\ result.key = SubSeq(s, 1, Len(s) - s[Len(s)])
                     /\ result.stored = file.store
                     /\ (result.err = NoErr <=> file.store)
=============================================================================
