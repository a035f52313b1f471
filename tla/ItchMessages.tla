---------------------------- MODULE ItchMessages ----------------------------
(***************************************************************************)
(* The ITCH messages (include/ItchMessages.hpp) as sequences of bytes:     *)
(* their lengths, what the encoders put where, and what the decoders take  *)
(* from where.  Offsets count from 0, as in the code.  Numbers are         *)
(* big-endian; a letter is its ASCII code.                                 *)
(***************************************************************************)
EXTENDS Integers, Sequences, SequencesExt

Letters == <<"A", "B", "C", "D", "E", "F", "G", "H", "I", "J", "K", "L", "M",
             "N", "O", "P", "Q", "R", "S", "T", "U", "V", "W", "X", "Y", "Z">>

Char(byte) ==
  CASE byte \in 65..90 -> Letters[byte - 64]
    [] byte = 104      -> "h"
    [] OTHER           -> "?"
Byte(char) == CHOOSE byte \in 65..104 : Char(byte) = char

messageLength ==
  [S |-> 12, R |-> 39, H |-> 25, Y |-> 20, L |-> 26, V |-> 35, W |-> 12,
   K |-> 28, J |-> 35, h |-> 21, A |-> 36, F |-> 40, E |-> 31, C |-> 36,
   X |-> 23, D |-> 19, U |-> 35, P |-> 44, Q |-> 40, B |-> 19, I |-> 50,
   N |-> 20, O |-> 48]

-----------------------------------------------------------------------------
(* Big-endian numbers of n bytes.                                          *)

\* The n bytes of a message at an offset.
Cut(m, at, n) == SubSeq(m, at + 1, at + n)

Be(m, at, n) == FoldLeft(LAMBDA sum, byte : 256 * sum + byte, 0, Cut(m, at, n))
be16(m, at) == Be(m, at, 2)
be32(m, at) == Be(m, at, 4)
be48(m, at) == Be(m, at, 6)
be64(m, at) == Be(m, at, 8)

PutBe(v, n) ==
  LET shifted[k \in 0..n] == IF k = 0 THEN v ELSE shifted[k - 1] \div 256
  IN [i \in 1..n |-> shifted[n - i] % 256]

-----------------------------------------------------------------------------
(* Encoding: `fields` is a function from offsets to what is put there.     *)

encodeHeader(type, locate, ts) ==
  (0 :> <<Byte(type)>>) @@ (1 :> PutBe(locate, 2)) @@ (3 :> PutBe(0, 2))
    @@ (5 :> PutBe(ts, 6))

\* A message of zeros, over which the header and the fields are written.
Encoded(type, locate, ts, fields) ==
  LET put == encodeHeader(type, locate, ts) @@ fields
      Covers(at, i) == i \in (at + 1)..(at + Len(put[at]))
  IN [i \in 1..messageLength[type] |->
        IF \E at \in DOMAIN put : Covers(at, i)
        THEN LET at == CHOOSE at \in DOMAIN put : Covers(at, i) IN put[at][i - at]
        ELSE 0]

encodeAddOrder(m) ==
  (11 :> PutBe(m.ref, 8)) @@ (19 :> <<Byte(m.side)>>) @@ (20 :> PutBe(m.shares, 4))
    @@ (24 :> m.stock) @@ (32 :> PutBe(m.price, 4))

encodeOrderExecuted(m) ==
  (11 :> PutBe(m.ref, 8)) @@ (19 :> PutBe(m.shares, 4)) @@ (23 :> PutBe(m.match, 8))

encodeOrderExecutedWithPrice(m) ==
  (11 :> PutBe(m.ref, 8)) @@ (19 :> PutBe(m.shares, 4)) @@ (23 :> PutBe(m.match, 8))
    @@ (31 :> <<Byte(m.printable)>>) @@ (32 :> PutBe(m.price, 4))

encodeOrderCancel(m) == (11 :> PutBe(m.ref, 8)) @@ (19 :> PutBe(m.shares, 4))

encodeOrderDelete(m) == (11 :> PutBe(m.ref, 8))

encodeOrderReplace(m) ==
  (11 :> PutBe(m.oldRef, 8)) @@ (19 :> PutBe(m.newRef, 8))
    @@ (27 :> PutBe(m.shares, 4)) @@ (31 :> PutBe(m.price, 4))

encodeTrade(m) ==
  (11 :> PutBe(m.ref, 8)) @@ (19 :> <<Byte(m.side)>>) @@ (20 :> PutBe(m.shares, 4))
    @@ (24 :> m.stock) @@ (32 :> PutBe(m.price, 4)) @@ (36 :> PutBe(m.match, 8))

encodeStockDirectory(m) == (11 :> m.stock)

encodeSystemEvent(m) == (11 :> <<Byte(m.code)>>)

encodeTradingAction(m) ==
  (11 :> m.stock) @@ (19 :> <<Byte(m.state)>>) @@ (21 :> m.reason)

\* The bytes of a message, by the encoder of its type.
Encode(m) ==
  Encoded(m.type, m.locate, m.timestamp,
          CASE m.type = "A" -> encodeAddOrder(m)
            [] m.type = "E" -> encodeOrderExecuted(m)
            [] m.type = "C" -> encodeOrderExecutedWithPrice(m)
            [] m.type = "X" -> encodeOrderCancel(m)
            [] m.type = "D" -> encodeOrderDelete(m)
            [] m.type = "U" -> encodeOrderReplace(m)
            [] m.type = "P" -> encodeTrade(m)
            [] m.type = "R" -> encodeStockDirectory(m)
            [] m.type = "S" -> encodeSystemEvent(m)
            [] m.type = "H" -> encodeTradingAction(m))

-----------------------------------------------------------------------------
(* Decoding.                                                               *)

decodeAddOrder(m) ==
  [ref |-> be64(m, 11), side |-> Char(m[20]), shares |-> be32(m, 20),
   stock |-> Cut(m, 24, 8), price |-> be32(m, 32)]

decodeOrderExecuted(m) ==
  [ref |-> be64(m, 11), shares |-> be32(m, 19), match |-> be64(m, 23)]

decodeOrderExecutedWithPrice(m) ==
  [ref |-> be64(m, 11), shares |-> be32(m, 19), match |-> be64(m, 23),
   printable |-> Char(m[32]), price |-> be32(m, 32)]

decodeOrderCancel(m) == [ref |-> be64(m, 11), shares |-> be32(m, 19)]

decodeOrderDelete(m) == [ref |-> be64(m, 11)]

\* Mutant: the price is read where the size is.
ReplaceAtShares(m) ==
  [oldRef |-> be64(m, 11), newRef |-> be64(m, 19), shares |-> be32(m, 27),
   price |-> be32(m, 27)]
decodeOrderReplace(m) ==
  [oldRef |-> be64(m, 11), newRef |-> be64(m, 19), shares |-> be32(m, 27),
   price |-> be32(m, 31)]

decodeTrade(m) ==
  [ref |-> be64(m, 11), side |-> Char(m[20]), shares |-> be32(m, 20),
   stock |-> Cut(m, 24, 8), price |-> be32(m, 32), match |-> be64(m, 36)]

decodeStockDirectory(m) == [stock |-> Cut(m, 11, 8)]

decodeSystemEvent(m) == [code |-> Char(m[12])]

decodeTradingAction(m) ==
  [stock |-> Cut(m, 11, 8), state |-> Char(m[20]), reason |-> Cut(m, 21, 4)]

-----------------------------------------------------------------------------
(* dispatch().                                                             *)

TypeOf(m) == Char(m[1])

\* A message of the length its type requires: any other is refused.
Dispatched(m) ==
  m # <<>> /\ TypeOf(m) \in DOMAIN messageLength /\ Len(m) = messageLength[TypeOf(m)]

Decoded(m) ==
  CASE TypeOf(m) \in {"A", "F"} -> decodeAddOrder(m)
    [] TypeOf(m) = "E" -> decodeOrderExecuted(m)
    [] TypeOf(m) = "C" -> decodeOrderExecutedWithPrice(m)
    [] TypeOf(m) = "X" -> decodeOrderCancel(m)
    [] TypeOf(m) = "D" -> decodeOrderDelete(m)
    [] TypeOf(m) = "U" -> decodeOrderReplace(m)
    [] TypeOf(m) = "P" -> decodeTrade(m)
    [] TypeOf(m) = "R" -> decodeStockDirectory(m)
    [] TypeOf(m) = "S" -> decodeSystemEvent(m)
    [] TypeOf(m) = "H" -> decodeTradingAction(m)
    [] OTHER -> <<>>

\* The types for which dispatch() calls a handler, and what it is called with.
Handled == {"A", "F", "E", "C", "X", "D", "U", "P", "R", "S", "H"}

Call(m) ==
  [type |-> TypeOf(m), locate |-> be16(m, 1), timestamp |-> be48(m, 5)]
    @@ Decoded(m)
=============================================================================
