------------------------------ MODULE Encoding ------------------------------
(***************************************************************************)
(* What agent and server do to the bytes of a request: JSON, gzip and the  *)
(* chunked RSA of internal/crypto/crypto.go.  A text is a sequence of      *)
(* cells; a cell says what was encoded and which part of it this is, so    *)
(* that a text which was cut or glued wrongly does not decode, and lengths *)
(* matter as they do in the program, where they decide the chunks.         *)
(***************************************************************************)
EXTENDS Integers, Sequences

CONSTANTS
  RSAKeys,      \* key pairs; the two halves of a pair go by one name
  KeySize,      \* their sizes in cells, key.Size() in the program
  ServerBlock,  \* the length of a chunk RSADecrypt cuts, 512 in the program
  Overhead,     \* what OAEP takes of a block, 2*hash.Size() + 2
  Failed        \* the result of a decoder that returns an error

ASSUME KeySizeAssumption == KeySize \in [RSAKeys -> Nat]
ASSUME BlocksAssumption == ServerBlock \in Nat \ {0} /\ Overhead \in Nat \ {0}

\* The cells of a compressed and of an encrypted text over a set S of cells.
Zipped(S) == {"gzip"} \X Seq(S) \X Nat

Cipher(S) == {"rsa"} \X (RSAKeys \X Seq(S)) \X Nat

Cells(kind, arg, n) == [i \in 1..n |-> <<kind, arg, i>>]

\* The text is the whole encoding of something, and not a part of one.
Whole(text, kind, n) ==
  text # <<>> /\ text[1][1] = kind /\ text = Cells(kind, text[1][2], n)

-----------------------------------------------------------------------------
(* JSON of a list of metrics and of one metric; gzip *)

ArrayText(items) == Cells("array", items, Len(items) + 1)

ObjectText(item) == Cells("object", item, 1)

DecodeArray(text) ==
  IF text # <<>> /\ text[1][1] = "array" /\ Whole(text, "array", Len(text[1][2]) + 1)
  THEN text[1][2] ELSE Failed

DecodeObject(text) == IF Whole(text, "object", 1) THEN text[1][2] ELSE Failed

Gzip(text) == Cells("gzip", text, Len(text))

Gunzip(text) == IF Whole(text, "gzip", Len(text)) THEN text[1][2] ELSE Failed

-----------------------------------------------------------------------------
(* Chunked RSA *)

\* A mutant: one chunk more than there is when the length is a multiple of the size.
ChunksOneMore(arr, size) ==
  IF arr = <<>> \/ size <= 0 THEN <<>>
  ELSE [i \in 1..(Len(arr) \div size + 1) |->
          SubSeq(arr, (i - 1) * size + 1, IF i * size < Len(arr) THEN i * size ELSE Len(arr))]

\* common.Chunks: nothing for an empty list, and nothing for a size below 1
Chunks(arr, size) ==
  IF arr = <<>> \/ size <= 0 THEN <<>>
  ELSE [i \in 1..((Len(arr) - 1) \div size + 1) |->
          SubSeq(arr, (i - 1) * size + 1, IF i * size < Len(arr) THEN i * size ELSE Len(arr))]

\* One block: as long as the key, if what is encrypted leaves room for the padding.
EncryptOAEP(chunk, key) ==
  IF Len(chunk) > KeySize[key] - Overhead THEN Failed
  ELSE Cells("rsa", <<key, chunk>>, KeySize[key])

DecryptOAEP(block, key) ==
  IF /\ Whole(block, "rsa", KeySize[key])
     /\ block[1][2][1] = key
  THEN block[1][2][2] ELSE Failed

\* What is gathered after each round of the loops: res = append(res, part...)
Gathering(parts) ==
  LET res[n \in 0..Len(parts)] == IF n = 0 THEN <<>> ELSE res[n - 1] \o parts[n]
  IN res

\* The first error ends the loop and is returned in place of the result.
Joined(parts) ==
  IF \E i \in DOMAIN parts : parts[i] = Failed THEN Failed ELSE Gathering(parts)[Len(parts)]

RSAEncrypt(secret, key) ==
  LET chunks == Chunks(secret, KeySize[key] - Overhead)
  IN Joined([i \in DOMAIN chunks |-> EncryptOAEP(chunks[i], key)])

RSADecrypt(secret, key) ==
  LET chunks == Chunks(secret, ServerBlock)
  IN Joined([i \in DOMAIN chunks |-> DecryptOAEP(chunks[i], key)])

\* For the properties: n cells that are encrypted can be decrypted; one block holds
\* them all, or the server cuts where the agent glued.
Decodable(key, n) ==
  \/ KeySize[key] = ServerBlock
  \/ KeySize[key] < ServerBlock /\ n <= KeySize[key] - Overhead
=============================================================================
