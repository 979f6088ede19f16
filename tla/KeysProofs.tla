----------------------------- MODULE KeysProofs -----------------------------
(***************************************************************************)
(* For every valid key, of any bytes and length that ValidateKey lets      *)
(* through: the name of its directory decodes to the key alone, is that of *)
(* another key at most where no case is told apart, and is safe on every   *)
(* platform.                                                               *)
(*                                                                         *)
(* The loops of EncodeKey and DecodeKey are recursive functions in Keys.   *)
(* That such a function exists, and what it computes, is shown by          *)
(* induction over a set of numbers.                                        *)
(***************************************************************************)
EXTENDS Keys, SequenceTheorems, WellFoundedInduction, TLAPS

Byte == 0..255

LEMMA Least ==
  ASSUME NEW S \in SUBSET Nat, S # {}
  PROVE  \E x \in S : \A y \in S : x <= y
<1> DEFINE Less == {ss \in Nat \X Nat : ss[1] < ss[2]}
<1>1. IsWellFoundedOn(Less, Nat)
  BY NatLessThanWellFounded DEF OpToRel
<1> HIDE DEF Less
<1>2. PICK x \in S : \A y \in S : ~(<<y, x>> \in Less)
  BY <1>1, WFMin
<1>3. ASSUME NEW y \in S PROVE x <= y
  <2>1. ~(<<y, x>> \in Less)
    BY <1>2
  <2> QED BY <2>1 DEF Less
<1> QED BY <1>3

(* A set of numbers with 0 and with the successors of its members is Nat.  *)
LEMMA SetInduction ==
  ASSUME NEW B \in SUBSET Nat, 0 \in B, \A n \in B : n + 1 \in B
  PROVE  B = Nat
<1> SUFFICES ASSUME Nat \ B # {} PROVE FALSE
  OBVIOUS
<1>1. PICK x \in Nat \ B : \A y \in Nat \ B : x <= y
  BY Least
<1>2. x # 0 /\ x - 1 \in Nat /\ ~(x <= x - 1) /\ x - 1 + 1 = x
  OBVIOUS
<1> QED BY <1>1, <1>2

-----------------------------------------------------------------------------
(* Digits                                                                  *)

LEMMA HexDigits ==
  ASSUME NEW n \in 0..15
  PROVE  /\ HexDigit(n) \in Digits \cup 65..70
         /\ IsHex(HexDigit(n))
         /\ Value(HexDigit(n)) = n
<1>1. CASE n < 10
  BY <1>1 DEF HexDigit, IsHex, Value, Digits
<1>2. CASE n >= 10
  <2>1. HexDigit(n) = 55 + n /\ 55 + n \notin Digits /\ 55 + n \in 65..70
    BY <1>2 DEF HexDigit, Digits
  <2>2. (55 + n - 55) % 32 = n
    OBVIOUS
  <2> QED BY <2>1, <2>2 DEF IsHex, Value
<1> QED BY <1>1, <1>2

(* The two digits of an escaped byte give the byte back.                   *)
LEMMA TwoDigits ==
  ASSUME NEW c \in Byte
  PROVE  /\ c \div 16 \in 0..15
         /\ c % 16 \in 0..15
         /\ 16 * (c \div 16) + (c % 16) = c
BY DEF Byte

(* An escape begins with no byte of a key.                                 *)
LEMMA PlainBytes ==
  /\ Escape \in Byte /\ Escape \notin Plain
  /\ Plain \subseteq Byte /\ Alnum \subseteq Plain
  /\ Dot \in Plain /\ Dot \notin Alnum
  /\ Digits \cup 65..70 \subseteq Plain /\ Dot \notin Digits \cup 65..70
BY DEF Plain, Alnum, Lower, Upper, Digits, Dot, Escape, Byte

-----------------------------------------------------------------------------
(* The loop of DecodeKey                                                   *)

(* What the loop makes of the name from its i-th byte on, if f says what   *)
(* it makes of the rest.                                                   *)
Decoded(name, f, i) ==
  IF i > Len(name) THEN {<<>>}
  ELSE IF name[i] # Escape THEN {<<name[i]>> \o k : k \in f[i + 1]}
  ELSE IF i + 2 <= Len(name) /\ IsHex(name[i + 1]) /\ IsHex(name[i + 2])
    THEN {<<16 * Value(name[i + 1]) + Value(name[i + 2])>> \o k : k \in f[i + 3]}
  ELSE {}

Decodes(name, f) == f = [i \in 1..Len(name) + 1 |-> Decoded(name, f, i)]

(* It does not look back.                                                  *)
LEMMA DecodedRest ==
  ASSUME NEW name, Len(name) \in Nat, NEW i \in 1..Len(name) + 1, NEW f, NEW g,
         \A j \in i + 1..Len(name) + 1 : f[j] = g[j]
  PROVE  Decoded(name, f, i) = Decoded(name, g, i)
<1>1. CASE i > Len(name)
  BY <1>1 DEF Decoded
<1>2. CASE i <= Len(name)
  <2>1. i + 1 \in i + 1..Len(name) + 1
    BY <1>2
  <2>2. i + 2 <= Len(name) => i + 3 \in i + 1..Len(name) + 1
    BY <1>2
  <2>3. f[i + 1] = g[i + 1] /\ (i + 2 <= Len(name) => f[i + 3] = g[i + 3])
    BY <2>1, <2>2
  <2> QED BY <2>3 DEF Decoded
<1> QED BY <1>1, <1>2

LEMMA DecodingExists ==
  ASSUME NEW name, Len(name) \in Nat
  PROVE  \E f : Decodes(name, f)
<1> DEFINE L == Len(name)
           Good(m, g) == /\ g = [i \in 1..L + 1 |-> g[i]]
                         /\ \A i \in L + 1 - m..L + 1 : i \in 1..L + 1 => g[i] = Decoded(name, g, i)
           B == {m \in Nat : \E g : Good(m, g)}
<1>1. 0 \in B
  <2> DEFINE g == [i \in 1..L + 1 |-> {<<>>}]
  <2>1. g = [i \in 1..L + 1 |-> g[i]]
    OBVIOUS
  <2>2. ASSUME NEW i \in L + 1 - 0..L + 1 PROVE g[i] = Decoded(name, g, i)
    <3>1. i = L + 1
      OBVIOUS
    <3> QED BY <3>1 DEF Decoded
  <2>3. Good(0, g)
    BY <2>1, <2>2
  <2> QED BY <2>3
<1>2. ASSUME NEW m \in B PROVE m + 1 \in B
  <2>1. PICK g : Good(m, g)
    OBVIOUS
  <2> DEFINE n == L - m
             h == [i \in 1..L + 1 |-> IF i = n THEN Decoded(name, g, n) ELSE g[i]]
  <2>2. h = [i \in 1..L + 1 |-> h[i]]
    OBVIOUS
  <2>3. /\ m \in Nat /\ n \in Int /\ n = L - m
        /\ \A j \in 1..L + 1 : j # n => h[j] = g[j]
        /\ n \in 1..L + 1 => h[n] = Decoded(name, g, n)
    <3>1. m \in Nat /\ n \in Int /\ n = L - m
      OBVIOUS
    <3> HIDE DEF n
    <3>2. ASSUME NEW j \in 1..L + 1, j # n PROVE h[j] = g[j]
      BY <3>2
    <3>3. n \in 1..L + 1 => h[n] = Decoded(name, g, n)
      OBVIOUS
    <3> HIDE DEF h, B, Good
    <3> QED BY <3>1, <3>2, <3>3
  <2> HIDE DEF h, n
  <2>4. ASSUME NEW i \in L + 1 - (m + 1)..L + 1, i \in 1..L + 1
        PROVE  h[i] = Decoded(name, h, i)
    <3>1. ASSUME NEW j \in i + 1..L + 1 PROVE g[j] = h[j]
      <4> HIDE DEF B
      <4>1. j \in 1..L + 1 /\ j # n
        BY <2>3, <2>4
      <4> QED BY <2>3, <4>1
    <3>2. Decoded(name, g, i) = Decoded(name, h, i)
      BY <3>1, <2>4, DecodedRest
    <3>3. CASE i = n
      BY <3>2, <3>3, <2>3, <2>4
    <3>4. CASE i # n
      <4>1. i \in L + 1 - m..L + 1
        BY <3>4, <2>3, <2>4
      <4>2. g[i] = Decoded(name, g, i)
        BY <4>1, <2>1, <2>4
      <4> QED BY <3>2, <3>4, <4>2, <2>3, <2>4
    <3> QED BY <3>3, <3>4
  <2>5. Good(m + 1, h)
    BY <2>2, <2>4
  <2>6. m + 1 \in Nat
    BY <2>3
  <2> QED BY <2>5, <2>6
<1> HIDE DEF B
<1>3. B = Nat
  <2>1. B \in SUBSET Nat
    BY DEF B
  <2> QED BY <1>1, <1>2, <2>1, SetInduction
<1>4. PICK g : Good(L, g)
  BY <1>3 DEF B
<1>5. \A i \in 1..L + 1 : g[i] = Decoded(name, g, i)
  BY <1>4
<1>6. Decodes(name, g)
  BY <1>4, <1>5 DEF Decodes
<1> QED BY <1>6

(* So DecodeKey(name) is what such a function says of the first byte.      *)
LEMMA Decoding ==
  ASSUME NEW name, Len(name) \in Nat
  PROVE  \E f : /\ DecodeKey(name) = f[1]
                /\ \A i \in 1..Len(name) + 1 : f[i] = Decoded(name, f, i)
<1> DEFINE from == CHOOSE f : Decodes(name, f)
<1>1. Decodes(name, from)
  BY DecodingExists
<1>2. DecodeKey(name) = from[1]
  BY DEF DecodeKey, Decodes, Decoded
<1> HIDE DEF from
<1>3. \A i \in 1..Len(name) + 1 : from[i] = Decoded(name, from, i)
  BY <1>1 DEF Decodes
<1> QED BY <1>2, <1>3

-----------------------------------------------------------------------------
(* Names that spell a key                                                  *)

(* Up to q, the name has the byte c at p, as it is or escaped.             *)
Piece(name, p, q, c) ==
  \/ q = p + 1 /\ c \in Plain /\ name[p] = c
  \/ /\ q = p + 3
     /\ name[p] = Escape
     /\ name[p + 1] = HexDigit(c \div 16)
     /\ name[p + 2] = HexDigit(c % 16)

(* The name is the key piece by piece: its i-th byte begins at at[i].      *)
Spells(name, key, at) ==
  /\ name \in Seq(Byte)
  /\ at \in [1..Len(key) + 1 -> 1..Len(name) + 1]
  /\ at[1] = 1
  /\ at[Len(key) + 1] = Len(name) + 1
  /\ \A i \in 1..Len(key) : Piece(name, at[i], at[i + 1], key[i])

(* A name that spells a key decodes to it and to nothing else.             *)
LEMMA SpelledDecodes ==
  ASSUME NEW key \in Seq(Byte), NEW name, NEW at, Spells(name, key, at)
  PROVE  DecodeKey(name) = {key}
<1> DEFINE n == Len(key)
           L == Len(name)
<1>1. /\ name \in Seq(Byte) /\ n \in Nat /\ L \in Nat
      /\ at \in [1..n + 1 -> 1..L + 1] /\ at[1] = 1 /\ at[n + 1] = L + 1
  BY DEF Spells
<1>2. PICK f : /\ DecodeKey(name) = f[1]
               /\ \A i \in 1..L + 1 : f[i] = Decoded(name, f, i)
  BY <1>1, Decoding
<1> DEFINE Rest(i) == f[at[i]] = {SubSeq(key, i, n)}
<1>3. Rest(n + 1)
  <2>1. SubSeq(key, n + 1, n) = <<>>
    BY <1>1
  <2>2. L + 1 > Len(name) /\ L + 1 \in 1..L + 1
    BY <1>1
  <2>3. Decoded(name, f, L + 1) = {<<>>}
    BY <2>2 DEF Decoded
  <2> QED BY <1>1, <1>2, <2>1, <2>2, <2>3
<1>4. ASSUME NEW i \in 1..n, Rest(i + 1) PROVE Rest(i)
  <2>1. i \in 1..n + 1 /\ i + 1 \in 1..n + 1
    BY <1>1
  <2>2. at[i] \in 1..L + 1 /\ at[i + 1] \in 1..L + 1 /\ key[i] \in Byte
    <3>1. key[i] \in Byte
      OBVIOUS
    <3> HIDE DEF n, L
    <3>2. at[i] \in 1..L + 1 /\ at[i + 1] \in 1..L + 1
      BY <1>1, <2>1
    <3> QED BY <3>1, <3>2
  <2>3. Piece(name, at[i], at[i + 1], key[i])
    BY DEF Spells
  <2>4. PICK p \in 1..L + 1, q \in 1..L + 1, c \in Byte :
          p = at[i] /\ q = at[i + 1] /\ c = key[i]
    BY <2>2
  <2>5. PICK k : k = SubSeq(key, i + 1, n) /\ f[q] = {k}
    BY <1>4, <2>4
  <2>6. Decoded(name, f, p) = {<<c>> \o k}
    <3>0. Len(name) \in Nat /\ p \in Nat /\ q \in Nat /\ q <= Len(name) + 1
      BY <1>1
    <3>1. CASE q = p + 1 /\ c \in Plain /\ name[p] = c
      <4>1. ~(p > Len(name)) /\ name[p] # Escape
        BY <3>0, <3>1, PlainBytes
      <4>2. Decoded(name, f, p) = {<<name[p]>> \o x : x \in f[p + 1]}
        BY <4>1 DEF Decoded
      <4>3. {<<name[p]>> \o x : x \in f[p + 1]} = {<<c>> \o k}
        BY <2>5, <3>1
      <4> QED BY <4>2, <4>3
    <3>2. CASE /\ q = p + 3
               /\ name[p] = Escape
               /\ name[p + 1] = HexDigit(c \div 16)
               /\ name[p + 2] = HexDigit(c % 16)
      <4>1. /\ IsHex(name[p + 1]) /\ IsHex(name[p + 2])
            /\ Value(name[p + 1]) = c \div 16 /\ Value(name[p + 2]) = c % 16
        BY <3>2, TwoDigits, HexDigits
      <4>2. 16 * Value(name[p + 1]) + Value(name[p + 2]) = c
        BY <4>1, TwoDigits
      <4>3. p + 2 <= Len(name) /\ ~(p > Len(name))
        BY <3>0, <3>2
      <4>4. Decoded(name, f, p)
              = {<<16 * Value(name[p + 1]) + Value(name[p + 2])>> \o x : x \in f[p + 3]}
        BY <3>2, <4>1, <4>3 DEF Decoded
      <4>5. {<<16 * Value(name[p + 1]) + Value(name[p + 2])>> \o x : x \in f[p + 3]}
              = {<<c>> \o k}
        BY <2>5, <3>2, <4>2
      <4> QED BY <4>4, <4>5
    <3>3. Piece(name, p, q, c)
      BY <2>3, <2>4
    <3> QED BY <3>1, <3>2, <3>3 DEF Piece
  <2>7. <<c>> \o k = SubSeq(key, i, n)
    <3>1. i \in 1..Len(key) /\ n \in i..Len(key)
      BY <1>1
    <3> HIDE DEF n
    <3>2. SubSeq(key, i, n) = <<key[i]>> \o SubSeq(key, i + 1, n)
      BY <3>1, SubSeqRecursiveFirst
    <3> QED BY <2>4, <2>5, <3>2
  <2>8. f[p] = {SubSeq(key, i, n)}
    BY <1>2, <2>6, <2>7
  <2> QED BY <2>4, <2>8
<1> HIDE DEF Rest
<1>5. ASSUME NEW m \in Nat PROVE m <= n => Rest(n + 1 - m)
  <2> DEFINE B == {x \in Nat : x <= n => Rest(n + 1 - x)}
  <2>1. 0 \in B
    <3>1. n + 1 - 0 = n + 1
      BY <1>1
    <3> QED BY <1>3, <3>1
  <2>2. ASSUME NEW x \in B PROVE x + 1 \in B
    <3>1. x \in Nat /\ (x <= n => Rest(n + 1 - x))
      BY <2>2
    <3>2. ASSUME x + 1 <= n PROVE Rest(n + 1 - (x + 1))
      <4>1. /\ n - x \in 1..n /\ n + 1 - x = n - x + 1
            /\ n + 1 - (x + 1) = n - x /\ x <= n
        BY <1>1, <3>1, <3>2
      <4>2. Rest(n - x + 1)
        BY <3>1, <4>1
      <4> QED BY <1>4, <4>1, <4>2
    <3> QED BY <3>1, <3>2
  <2> HIDE DEF B
  <2>3. B = Nat
    <3>1. B \in SUBSET Nat
      BY DEF B
    <3> QED BY <2>1, <2>2, <3>1, SetInduction
  <2> QED BY <2>3 DEF B
<1>6. Rest(1)
  <2>1. n + 1 - n = 1 /\ n <= n
    BY <1>1
  <2> QED BY <1>1, <1>5, <2>1
<1>7. SubSeq(key, 1, n) = key
  BY <1>1
<1> QED BY <1>1, <1>2, <1>6, <1>7 DEF Rest

-----------------------------------------------------------------------------
(* The loop of EncodeKey                                                   *)

Chunk(c) == IF c \in Plain THEN <<c>> ELSE Escaped(c)

(* What the loop has written after the i-th byte, if f says what it had    *)
(* written before.                                                         *)
Filled(key, f, i) == IF i = 0 THEN <<>> ELSE f[i - 1] \o Chunk(key[i])

Fills(key, f) == f = [i \in 0..Len(key) |-> Filled(key, f, i)]

LEMMA FillingExists ==
  ASSUME NEW key, Len(key) \in Nat
  PROVE  \E f : Fills(key, f)
<1> DEFINE n == Len(key)
           Good(m, g) == /\ g = [i \in 0..n |-> g[i]]
                         /\ \A i \in 0..n : i <= m => g[i] = Filled(key, g, i)
           B == {m \in Nat : \E g : Good(m, g)}
<1>1. 0 \in B
  <2> DEFINE g == [i \in 0..n |-> <<>>]
  <2>1. g = [i \in 0..n |-> g[i]]
    OBVIOUS
  <2>2. ASSUME NEW i \in 0..n, i <= 0 PROVE g[i] = Filled(key, g, i)
    <3>1. i = 0
      BY <2>2
    <3> QED BY <3>1 DEF Filled
  <2>3. Good(0, g)
    BY <2>1, <2>2
  <2> QED BY <2>3
<1>2. ASSUME NEW m \in B PROVE m + 1 \in B
  <2>1. PICK g : Good(m, g)
    OBVIOUS
  <2> DEFINE h == [i \in 0..n |-> IF i = m + 1 THEN Filled(key, g, m + 1) ELSE g[i]]
  <2>2. h = [i \in 0..n |-> h[i]]
    OBVIOUS
  <2>3. /\ m \in Nat
        /\ \A j \in 0..n : j # m + 1 => h[j] = g[j]
        /\ m + 1 \in 0..n => h[m + 1] = Filled(key, g, m + 1)
    OBVIOUS
  <2> HIDE DEF h
  <2>4. ASSUME NEW i \in 0..n, i <= m + 1 PROVE h[i] = Filled(key, h, i)
    <3>1. Filled(key, g, i) = Filled(key, h, i)
      <4>1. i # 0 => i - 1 \in 0..n /\ i - 1 # m + 1
        BY <2>3, <2>4
      <4> QED BY <2>3, <4>1 DEF Filled
    <3>2. CASE i = m + 1
      BY <2>3, <3>1, <3>2
    <3>3. CASE i # m + 1
      <4>1. i <= m
        BY <2>3, <2>4, <3>3
      <4> QED BY <2>1, <2>3, <3>1, <3>3, <4>1
    <3> QED BY <3>2, <3>3
  <2>5. Good(m + 1, h)
    BY <2>2, <2>4
  <2>6. m + 1 \in Nat
    BY <2>3
  <2> QED BY <2>5, <2>6
<1> HIDE DEF B
<1>3. B = Nat
  <2>1. B \in SUBSET Nat
    BY DEF B
  <2> QED BY <1>1, <1>2, <2>1, SetInduction
<1>4. PICK g : Good(n, g)
  BY <1>3 DEF B
<1>5. \A i \in 0..n : g[i] = Filled(key, g, i)
  BY <1>4
<1>6. Fills(key, g)
  BY <1>4, <1>5 DEF Fills
<1> QED BY <1>6

LEMMA Filling ==
  ASSUME NEW key, Len(key) \in Nat
  PROVE  \E f : /\ Written(key) = f[Len(key)]
                /\ \A i \in 0..Len(key) : f[i] = Filled(key, f, i)
<1> DEFINE upto == CHOOSE f : Fills(key, f)
<1>1. Fills(key, upto)
  BY FillingExists
<1>2. Written(key) = upto[Len(key)]
  BY DEF Written, Fills, Filled, Chunk
<1> HIDE DEF upto
<1>3. \A i \in 0..Len(key) : upto[i] = Filled(key, upto, i)
  BY <1>1 DEF Fills
<1> QED BY <1>2, <1>3

LEMMA EscapedBytes ==
  ASSUME NEW c \in Byte
  PROVE  /\ Escaped(c) \in Seq(Byte) /\ Len(Escaped(c)) = 3
         /\ Escaped(c)[1] = Escape
         /\ Escaped(c)[2] = HexDigit(c \div 16)
         /\ Escaped(c)[3] = HexDigit(c % 16)
<1>1. HexDigit(c \div 16) \in Byte /\ HexDigit(c % 16) \in Byte /\ Escape \in Byte
  BY TwoDigits, HexDigits, PlainBytes
<1>2. PICK x \in Byte, y \in Byte, z \in Byte :
        x = Escape /\ y = HexDigit(c \div 16) /\ z = HexDigit(c % 16)
  BY <1>1
<1>3. Escaped(c) = <<x, y, z>>
  BY <1>2 DEF Escaped
<1>4. <<x, y, z>> \in Seq(Byte)
  OBVIOUS
<1> QED BY <1>2, <1>3, <1>4

(* What it writes for one byte.                                            *)
LEMMA Chunks ==
  ASSUME NEW c \in Byte
  PROVE  /\ Chunk(c) \in Seq(Byte)
         /\ \/ Len(Chunk(c)) = 1 /\ Chunk(c)[1] = c /\ c \in Plain
            \/ /\ Len(Chunk(c)) = 3
               /\ Chunk(c)[1] = Escape
               /\ Chunk(c)[2] = HexDigit(c \div 16)
               /\ Chunk(c)[3] = HexDigit(c % 16)
               /\ c \notin Plain
<1>1. CASE c \in Plain
  BY <1>1 DEF Chunk
<1>2. CASE c \notin Plain
  BY <1>2, EscapedBytes DEF Chunk
<1> QED BY <1>1, <1>2

(* What is written spells the key.                                         *)
LEMMA WrittenSpells ==
  ASSUME NEW key \in Seq(Byte)
  PROVE  \E at : /\ Spells(Written(key), key, at)
                 /\ key # <<>> /\ key[1] \in Plain => at[2] = 2
<1> DEFINE n == Len(key)
<1>1. n \in Nat /\ n = Len(key) /\ \A i \in 1..n : key[i] \in Byte
  OBVIOUS
<1>1a. \A i \in 1..n : Chunk(key[i]) \in Seq(Byte) /\ Len(Chunk(key[i])) \in Nat
  <2> SUFFICES ASSUME NEW i \in 1..n
               PROVE  Chunk(key[i]) \in Seq(Byte) /\ Len(Chunk(key[i])) \in Nat
    OBVIOUS
  <2>1. PICK c \in Byte : c = key[i]
    BY <1>1
  <2>2. Chunk(c) \in Seq(Byte)
    BY Chunks
  <2> QED BY <2>1, <2>2
<1>2. PICK f : /\ Written(key) = f[n]
               /\ \A i \in 0..n : f[i] = Filled(key, f, i)
  BY <1>1, Filling
<1>3. f[0] = <<>>
  BY <1>1, <1>2 DEF Filled
<1> HIDE DEF n
<1>4. ASSUME NEW i \in 1..n, f[i - 1] \in Seq(Byte)
      PROVE  /\ f[i] = f[i - 1] \o Chunk(key[i])
             /\ f[i] \in Seq(Byte)
             /\ Len(f[i]) = Len(f[i - 1]) + Len(Chunk(key[i]))
             /\ \A x \in 1..Len(f[i - 1]) : f[i][x] = f[i - 1][x]
             /\ \A x \in 1..Len(Chunk(key[i])) : f[i][Len(f[i - 1]) + x] = Chunk(key[i])[x]
  <2>1. f[i] = f[i - 1] \o Chunk(key[i])
    <3>1. i \in 0..n /\ i # 0
      BY <1>1
    <3> QED BY <1>2, <3>1 DEF Filled
  <2>2. Chunk(key[i]) \in Seq(Byte)
    BY <1>1a
  <2>3. PICK s \in Seq(Byte), t \in Seq(Byte) : s = f[i - 1] /\ t = Chunk(key[i])
    BY <1>4, <2>2
  <2>4. /\ s \o t \in Seq(Byte)
        /\ Len(s \o t) = Len(s) + Len(t)
        /\ \A x \in 1..Len(s) + Len(t) : (s \o t)[x] = IF x <= Len(s) THEN s[x] ELSE t[x - Len(s)]
    BY ConcatProperties
  <2>5. ASSUME NEW x \in 1..Len(t) PROVE (s \o t)[Len(s) + x] = t[x]
    <3>1. /\ Len(s) + x \in 1..Len(s) + Len(t) /\ ~(Len(s) + x <= Len(s))
          /\ Len(s) + x - Len(s) = x
      OBVIOUS
    <3> QED BY <2>4, <3>1
  <2>6. ASSUME NEW x \in 1..Len(s) PROVE (s \o t)[x] = s[x]
    <3>1. x \in 1..Len(s) + Len(t) /\ x <= Len(s)
      OBVIOUS
    <3> QED BY <2>4, <3>1
  <2> QED BY <2>1, <2>3, <2>4, <2>5, <2>6
<1> DEFINE Keeps(j) == /\ f[j] \in Seq(Byte)
                       /\ \A i \in 0..j : /\ f[i] \in Seq(Byte)
                                          /\ Len(f[i]) <= Len(f[j])
                                          /\ \A x \in 1..Len(f[i]) : f[j][x] = f[i][x]
<1> HIDE DEF Keeps
<1>5. Keeps(0)
  <2>1. f[0] \in Seq(Byte)
    BY <1>3
  <2>2. \A i \in 0..0 : i = 0
    OBVIOUS
  <2>3. Len(f[0]) <= Len(f[0])
    BY <2>1
  <2> QED BY <2>1, <2>2, <2>3 DEF Keeps
<1>6. ASSUME NEW j \in 1..n, Keeps(j - 1) PROVE Keeps(j)
  <2>0. f[j - 1] \in Seq(Byte)
    BY <1>6 DEF Keeps
  <2>1. /\ f[j] \in Seq(Byte)
        /\ Len(f[j]) = Len(f[j - 1]) + Len(Chunk(key[j]))
        /\ \A x \in 1..Len(f[j - 1]) : f[j][x] = f[j - 1][x]
    BY <1>4, <2>0
  <2>2. Len(f[j]) \in Nat /\ Len(f[j - 1]) \in Nat
    <3>1. f[j] \in Seq(Byte)
      BY <2>1
    <3> QED BY <2>0, <3>1, LenProperties
  <2>3. Len(f[j - 1]) <= Len(f[j])
    <3>1. Len(Chunk(key[j])) \in Nat
      BY <1>1a
    <3>2. Len(f[j]) = Len(f[j - 1]) + Len(Chunk(key[j]))
      BY <2>1
    <3>3. PICK x \in Nat, y \in Nat : x = Len(f[j - 1]) /\ y = Len(Chunk(key[j]))
      BY <2>2, <3>1
    <3>4. x <= x + y
      OBVIOUS
    <3> QED BY <3>2, <3>3, <3>4
  <2>4. ASSUME NEW i \in 0..j
        PROVE  /\ f[i] \in Seq(Byte)
               /\ Len(f[i]) <= Len(f[j])
               /\ \A x \in 1..Len(f[i]) : f[j][x] = f[i][x]
    <3>1. CASE i = j
      <4>1. f[j] \in Seq(Byte) /\ Len(f[j]) <= Len(f[j])
        BY <2>1, <2>2
      <4> QED BY <3>1, <4>1
    <3>2. CASE i # j
      <4>1. i \in 0..j - 1
        BY <1>1, <3>2
      <4>2. /\ f[i] \in Seq(Byte) /\ Len(f[i]) <= Len(f[j - 1])
            /\ \A x \in 1..Len(f[i]) : f[j - 1][x] = f[i][x]
        BY <1>6, <4>1 DEF Keeps
      <4>3. Len(f[i]) \in Nat
        BY <4>2
      <4>4. Len(f[i]) <= Len(f[j])
        BY <2>2, <2>3, <4>2, <4>3
      <4>5. ASSUME NEW x \in 1..Len(f[i]) PROVE f[j][x] = f[i][x]
        <5>1. x \in 1..Len(f[j - 1])
          BY <2>2, <4>2, <4>3
        <5> QED BY <2>1, <4>2, <5>1
      <4> QED BY <4>2, <4>4, <4>5
    <3> QED BY <3>1, <3>2
  <2> QED BY <2>1, <2>4 DEF Keeps
<1>7. ASSUME NEW j \in Nat PROVE j <= n => Keeps(j)
  <2> DEFINE B == {x \in Nat : x <= n => Keeps(x)}
  <2>1. 0 \in B
    BY <1>5
  <2>2. ASSUME NEW x \in B PROVE x + 1 \in B
    <3>1. x \in Nat /\ (x <= n => Keeps(x))
      BY <2>2
    <3>2. ASSUME x + 1 <= n PROVE Keeps(x + 1)
      <4>1. x + 1 \in 1..n /\ x + 1 - 1 = x /\ x <= n
        BY <1>1, <3>1, <3>2
      <4> QED BY <1>6, <3>1, <4>1
    <3> QED BY <3>1, <3>2
  <2> HIDE DEF B
  <2>3. B = Nat
    <3>1. B \in SUBSET Nat
      BY DEF B
    <3> QED BY <2>1, <2>2, <3>1, SetInduction
  <2> QED BY <2>3 DEF B
<1>8. PICK name : name = f[n] /\ name = Written(key)
  BY <1>2
<1>9. /\ name \in Seq(Byte) /\ Len(name) \in Nat
      /\ \A i \in 0..n : /\ f[i] \in Seq(Byte) /\ Len(f[i]) \in Nat
                         /\ Len(f[i]) <= Len(name)
                         /\ \A x \in 1..Len(f[i]) : name[x] = f[i][x]
  <2>1. Keeps(n)
    BY <1>1, <1>7
  <2> QED BY <1>1, <1>8, <2>1 DEF Keeps
<1> DEFINE at == [i \in 1..n + 1 |-> Len(f[i - 1]) + 1]
<1>9a. \A i \in 1..n + 1 : at[i] = Len(f[i - 1]) + 1
  OBVIOUS
<1>10. at \in [1..n + 1 -> 1..Len(name) + 1]
  <2>1. ASSUME NEW i \in 1..n + 1 PROVE Len(f[i - 1]) + 1 \in 1..Len(name) + 1
    <3>1. i - 1 \in 0..n
      BY <1>1
    <3>2. Len(f[i - 1]) \in Nat /\ Len(f[i - 1]) <= Len(name)
      BY <1>9, <3>1
    <3> QED BY <1>9, <3>2
  <2> QED BY <2>1
<1> HIDE DEF at
<1>11. at[1] = 1 /\ at[n + 1] = Len(name) + 1
  <2>1. 1 \in 1..n + 1 /\ n + 1 \in 1..n + 1 /\ 1 - 1 = 0 /\ n + 1 - 1 = n
    BY <1>1
  <2>2. Len(f[0]) = 0 /\ Len(f[n]) = Len(name)
    BY <1>3, <1>8
  <2>3. at[1] = Len(f[0]) + 1 /\ at[n + 1] = Len(f[n]) + 1
    <3>1. at[1] = Len(f[1 - 1]) + 1
      BY <1>9a, <2>1
    <3>2. PICK m \in 1..n + 1 : m = n + 1 /\ m - 1 = n
      BY <1>1, <2>1
    <3>3. at[m] = Len(f[m - 1]) + 1
      BY <1>9a
    <3> QED BY <2>1, <3>1, <3>2, <3>3
  <2> QED BY <2>2, <2>3
<1>12. ASSUME NEW i \in 1..n
       PROVE  /\ Piece(name, at[i], at[i + 1], key[i])
              /\ key[i] \in Plain => at[i + 1] = at[i] + 1
  <2>1. i - 1 \in 0..n /\ i \in 0..n /\ i \in 1..n + 1 /\ i + 1 \in 1..n + 1 /\ i + 1 - 1 = i
    BY <1>1
  <2>2. PICK p \in Nat : p = Len(f[i - 1])
    BY <1>9, <2>1
  <2>3. at[i] = p + 1 /\ at[i + 1] = p + Len(Chunk(key[i])) + 1
    <3>1. Len(f[i]) = p + Len(Chunk(key[i]))
      BY <1>4, <1>9, <2>1, <2>2
    <3>2. at[i] = Len(f[i - 1]) + 1 /\ at[i + 1] = Len(f[i]) + 1
      BY <1>9a, <2>1
    <3> QED BY <2>2, <3>1, <3>2
  <2>4. \A x \in 1..Len(Chunk(key[i])) : name[p + x] = Chunk(key[i])[x]
    <3> SUFFICES ASSUME NEW x \in 1..Len(Chunk(key[i])) PROVE name[p + x] = Chunk(key[i])[x]
      OBVIOUS
    <3>1. Len(Chunk(key[i])) \in Nat
      BY <1>1a
    <3>2. f[i][p + x] = Chunk(key[i])[x] /\ Len(f[i]) = p + Len(Chunk(key[i]))
      BY <1>4, <1>9, <2>1, <2>2
    <3>3. p + x \in 1..Len(f[i])
      BY <3>1, <3>2
    <3> QED BY <1>9, <2>1, <3>2, <3>3
  <2>5. CASE Len(Chunk(key[i])) = 1 /\ Chunk(key[i])[1] = key[i] /\ key[i] \in Plain
    <3>1. at[i + 1] = at[i] + 1 /\ name[at[i]] = key[i]
      BY <2>3, <2>4, <2>5
    <3> QED BY <2>5, <3>1 DEF Piece
  <2>6. CASE /\ Len(Chunk(key[i])) = 3
             /\ Chunk(key[i])[1] = Escape
             /\ Chunk(key[i])[2] = HexDigit(key[i] \div 16)
             /\ Chunk(key[i])[3] = HexDigit(key[i] % 16)
             /\ key[i] \notin Plain
    <3>1. /\ at[i + 1] = at[i] + 3
          /\ name[p + 1] = Escape
          /\ name[p + 2] = HexDigit(key[i] \div 16)
          /\ name[p + 3] = HexDigit(key[i] % 16)
      BY <2>3, <2>4, <2>6
    <3>2. at[i] = p + 1 /\ at[i] + 1 = p + 2 /\ at[i] + 2 = p + 3
      BY <2>3
    <3> QED BY <2>6, <3>1, <3>2 DEF Piece
  <2>7. key[i] \in Byte
    BY <1>1
  <2> QED BY <2>5, <2>6, <2>7, Chunks
<1>13. Spells(name, key, at)
  BY <1>1, <1>9, <1>10, <1>11, <1>12 DEF Spells
<1>14. key # <<>> /\ key[1] \in Plain => at[2] = 2
  <2>1. key # <<>> => 1 \in 1..n
    BY <1>1
  <2> QED BY <1>11, <1>12, <2>1
<1> QED BY <1>8, <1>13, <1>14

-----------------------------------------------------------------------------
(* Escaping the first byte and the last                                    *)

(* A piece takes one to three bytes.                                       *)
LEMMA Pace ==
  ASSUME NEW key \in Seq(Byte), NEW name, NEW at, Spells(name, key, at),
         NEW i \in 1..Len(key) + 1, NEW j \in i..Len(key) + 1
  PROVE  at[i] + (j - i) <= at[j] /\ at[j] <= at[i] + 3 * (j - i)
<1> DEFINE n == Len(key)
           Near(d) == \A x \in 1..n + 1 :
                        x + d <= n + 1 => at[x] + d <= at[x + d] /\ at[x + d] <= at[x] + 3 * d
           B == {d \in Nat : Near(d)}
<1>1. n \in Nat /\ \A x \in 1..n + 1 : at[x] \in Nat
  BY DEF Spells
<1>2. \A x \in 1..n : at[x] + 1 <= at[x + 1] /\ at[x + 1] <= at[x] + 3
  <2> SUFFICES ASSUME NEW x \in 1..n PROVE at[x] + 1 <= at[x + 1] /\ at[x + 1] <= at[x] + 3
    OBVIOUS
  <2>1. at[x + 1] = at[x] + 1 \/ at[x + 1] = at[x] + 3
    BY DEF Spells, Piece
  <2>2. at[x] \in Nat
    BY <1>1
  <2> QED BY <2>1, <2>2
<1>3. Near(0)
  BY <1>1
<1> HIDE DEF n
<1>4. ASSUME NEW d \in Nat, Near(d) PROVE Near(d + 1)
  <2> SUFFICES ASSUME NEW x \in 1..n + 1, x + (d + 1) <= n + 1
               PROVE  /\ at[x] + (d + 1) <= at[x + (d + 1)]
                      /\ at[x + (d + 1)] <= at[x] + 3 * (d + 1)
    OBVIOUS
  <2>1. PICK y \in 1..n : y = x + d /\ y + 1 = x + (d + 1)
    BY <1>1
  <2>2. at[x] + d <= at[y] /\ at[y] <= at[x] + 3 * d
    BY <1>1, <1>4, <2>1
  <2>3. at[y] + 1 <= at[y + 1] /\ at[y + 1] <= at[y] + 3
    BY <1>2
  <2>4. at[x] \in Nat /\ at[y] \in Nat /\ at[y + 1] \in Nat
    BY <1>1
  <2>5. PICK a \in Nat, b \in Nat, c \in Nat : a = at[x] /\ b = at[y] /\ c = at[y + 1]
    BY <2>4
  <2>6. a + (d + 1) <= c /\ c <= a + 3 * (d + 1)
    <3>1. a + d <= b /\ b <= a + 3 * d /\ b + 1 <= c /\ c <= b + 3
      BY <2>2, <2>3, <2>5
    <3>2. 3 * (d + 1) = 3 * d + 3 /\ 3 * d \in Nat
      OBVIOUS
    <3> QED BY <3>1, <3>2
  <2> QED BY <2>1, <2>5, <2>6
<1> HIDE DEF Near
<1>5. B = Nat
  <2>1. B \in SUBSET Nat /\ 0 \in B /\ \A d \in B : d + 1 \in B
    BY <1>3, <1>4
  <2> HIDE DEF B
  <2> QED BY <2>1, SetInduction
<1>6. Near(j - i) /\ i + (j - i) = j
  BY <1>1, <1>5 DEF n
<1> QED BY <1>1, <1>6 DEF Near, n

(* An escape in front of the rest of a name.                               *)
LEMMA EscapeFirst ==
  ASSUME NEW key \in Seq(Byte), key # <<>>,
         NEW name, NEW at, Spells(name, key, at), at[2] = 2
  PROVE  /\ \E to : Spells(Escaped(Head(name)) \o Tail(name), key, to)
         /\ (Escaped(Head(name)) \o Tail(name))[1] = Escape
<1> DEFINE n == Len(key)
           L == Len(name)
<1>1. /\ name \in Seq(Byte) /\ n \in Nat \ {0} /\ L \in Nat
      /\ at \in [1..n + 1 -> 1..L + 1] /\ at[1] = 1 /\ at[n + 1] = L + 1
      /\ \A i \in 1..n : key[i] \in Byte
  BY DEF Spells
<1>2. L >= 1 /\ name[1] = key[1] /\ key[1] \in Byte /\ name # <<>>
  <2>1. Piece(name, at[1], at[1 + 1], key[1]) /\ at[2] \in 1..L + 1
    BY <1>1 DEF Spells
  <2>2. Piece(name, 1, 2, key[1])
    BY <1>1, <2>1
  <2> QED BY <1>1, <2>1, <2>2 DEF Piece
<1>3. PICK c \in Byte : c = Head(name) /\ c = key[1]
  BY <1>1, <1>2
<1>4. PICK t \in Seq(Byte) : /\ t = Tail(name) /\ Len(t) = L - 1
                             /\ \A x \in 1..L - 1 : t[x] = name[x + 1]
  <2>1. /\ Tail(name) \in Seq(Byte) /\ Len(Tail(name)) = L - 1
        /\ \A x \in 1..Len(Tail(name)) : Tail(name)[x] = name[x + 1]
    BY <1>1, <1>2, HeadTailProperties
  <2> QED BY <2>1
<1>5. PICK e \in Seq(Byte) : /\ e = Escaped(c) /\ Len(e) = 3
                             /\ e[1] = Escape
                             /\ e[2] = HexDigit(c \div 16)
                             /\ e[3] = HexDigit(c % 16)
  BY EscapedBytes
<1>6. PICK s \in Seq(Byte) : s = e \o t
  BY ConcatProperties
<1>7. /\ Len(s) = L + 2
      /\ \A x \in 1..L + 2 : s[x] = IF x <= 3 THEN e[x] ELSE t[x - 3]
  <2>1. /\ Len(s) = Len(e) + Len(t)
        /\ \A x \in 1..Len(e) + Len(t) : s[x] = IF x <= Len(e) THEN e[x] ELSE t[x - Len(e)]
    BY <1>6, ConcatProperties
  <2>2. Len(e) + Len(t) = L + 2
    BY <1>1, <1>4, <1>5
  <2> QED BY <1>5, <2>1, <2>2
<1>8. /\ s[1] = Escape
      /\ s[2] = HexDigit(c \div 16)
      /\ s[3] = HexDigit(c % 16)
  BY <1>1, <1>2, <1>5, <1>7
<1>9. ASSUME NEW x \in 2..L PROVE s[x + 2] = name[x]
  <2>1. x + 2 \in 1..L + 2 /\ ~(x + 2 <= 3) /\ x + 2 - 3 = x - 1 /\ x - 1 \in 1..L - 1
    BY <1>1
  <2>2. x - 1 + 1 = x
    OBVIOUS
  <2> QED BY <1>4, <1>7, <2>1, <2>2
<1> DEFINE to == [i \in 1..n + 1 |-> IF i = 1 THEN 1 ELSE at[i] + 2]
<1>10. to \in [1..n + 1 -> 1..Len(s) + 1] /\ to[1] = 1 /\ to[n + 1] = Len(s) + 1
  BY <1>1, <1>7
<1>11. to[2] = 4 /\ \A i \in 2..n + 1 : to[i] = at[i] + 2
  BY <1>1
<1> HIDE DEF to
<1>12. ASSUME NEW i \in 1..n PROVE Piece(s, to[i], to[i + 1], key[i])
  <2>1. CASE i = 1
    BY <1>3, <1>8, <1>10, <1>11, <2>1 DEF Piece
  <2>2. CASE i # 1
    <3>1. i \in 2..n + 1 /\ i + 1 \in 2..n + 1 /\ 2 \in 1..n + 1 /\ i \in 2..n + 1
      BY <1>1, <2>2
    <3>2. at[i] \in Nat /\ at[i + 1] \in Nat /\ at[i] <= L + 1 /\ at[i + 1] <= L + 1
      <4>1. i \in 1..n + 1 /\ i + 1 \in 1..n + 1
        BY <1>1, <3>1
      <4>2. at[i] \in 1..L + 1 /\ at[i + 1] \in 1..L + 1
        BY <1>1, <4>1
      <4> QED BY <1>1, <4>2
    <3>3. at[i] >= 2
      <4>1. at[2] + (i - 2) <= at[i]
        BY <3>1, Pace
      <4> QED BY <3>1, <3>2, <4>1
    <3>4. PICK p \in 2..L + 1, q \in 2..L + 1 : p = at[i] /\ q = at[i + 1]
      <4>1. at[i + 1] >= 2
        <5>1. at[i + 1] = at[i] + 1 \/ at[i + 1] = at[i] + 3
          BY DEF Spells, Piece
        <5> QED BY <3>2, <3>3, <5>1
      <4>2. PICK x \in Nat, y \in Nat : x = at[i] /\ y = at[i + 1]
        BY <3>2
      <4>3. x \in 2..L + 1 /\ y \in 2..L + 1
        BY <1>1, <3>2, <3>3, <4>1, <4>2
      <4> QED BY <4>2, <4>3
    <3>5. to[i] = p + 2 /\ to[i + 1] = q + 2
      BY <1>11, <3>1, <3>4
    <3>6. Piece(name, p, q, key[i])
      BY <3>4 DEF Spells
    <3>7. CASE q = p + 1 /\ key[i] \in Plain /\ name[p] = key[i]
      <4>1. p \in 2..L /\ q + 2 = p + 2 + 1
        BY <1>1, <3>7
      <4> QED BY <1>9, <3>5, <3>7, <4>1 DEF Piece
    <3>8. CASE /\ q = p + 3
               /\ name[p] = Escape
               /\ name[p + 1] = HexDigit(key[i] \div 16)
               /\ name[p + 2] = HexDigit(key[i] % 16)
      <4>1. /\ p \in 2..L /\ p + 1 \in 2..L /\ p + 2 \in 2..L /\ q + 2 = p + 2 + 3
            /\ p + 1 + 2 = p + 2 + 1 /\ p + 2 + 2 = p + 2 + 2
        BY <1>1, <3>8
      <4>2. s[p + 2] = name[p] /\ s[p + 2 + 1] = name[p + 1] /\ s[p + 2 + 2] = name[p + 2]
        BY <1>9, <4>1
      <4> QED BY <3>5, <3>8, <4>1, <4>2 DEF Piece
    <3> QED BY <3>6, <3>7, <3>8 DEF Piece
  <2> QED BY <2>1, <2>2
<1>13. Spells(s, key, to)
  BY <1>1, <1>10, <1>12 DEF Spells
<1> QED BY <1>3, <1>4, <1>5, <1>6, <1>8, <1>13

(* An escape in place of a dot at the end.                                 *)
LEMMA EscapeLast ==
  ASSUME NEW key \in Seq(Byte), key # <<>>,
         NEW name, NEW at, Spells(name, key, at), Last(name) = Dot
  PROVE  LET s == Front(name) \o Escaped(Dot) IN
         /\ \E to : Spells(s, key, to)
         /\ Len(s) = Len(name) + 2
         /\ \A x \in 1..Len(name) - 1 : s[x] = name[x]
         /\ s[Len(name)] = Escape
         /\ s[Len(name) + 1] # Dot /\ s[Len(name) + 2] # Dot
<1> DEFINE n == Len(key)
           L == Len(name)
<1>1. /\ name \in Seq(Byte) /\ n \in Nat \ {0} /\ L \in Nat
      /\ at \in [1..n + 1 -> 1..L + 1] /\ at[1] = 1 /\ at[n + 1] = L + 1
      /\ \A i \in 1..n : key[i] \in Byte
  BY DEF Spells
<1> DEFINE s == Front(name) \o Escaped(Dot)
<1>2. L >= 1 /\ name # <<>>
  <2>1. at[n] \in 1..L + 1 /\ (at[n + 1] = at[n] + 1 \/ at[n + 1] = at[n] + 3)
    BY <1>1 DEF Spells, Piece
  <2>2. L + 1 > 1
    BY <1>1, <2>1
  <2> QED BY <1>1, <2>2
<1>3. name[L] = Dot
  BY <1>1, <1>2 DEF Last
<1>4. at[n] = L /\ key[n] = Dot
  <2>1. n \in 1..n
    BY <1>1
  <2>2. PICK p \in 1..L + 1, c \in Byte : p = at[n] /\ c = key[n]
    BY <1>1, <2>1
  <2>3. Piece(name, p, L + 1, c)
    <3>1. Piece(name, at[n], at[n + 1], key[n])
      BY <2>1 DEF Spells
    <3> QED BY <1>1, <2>2, <3>1
  <2>4. CASE L + 1 = p + 1 /\ c \in Plain /\ name[p] = c
    <3>1. p = L
      BY <1>1, <2>4
    <3> QED BY <1>3, <2>2, <2>4, <3>1
  <2>5. CASE L + 1 = p + 3 /\ name[p + 2] = HexDigit(c % 16)
    <3>1. p + 2 = L
      BY <1>1, <2>5
    <3>2. PICK y \in 0..15 : y = c % 16
      BY TwoDigits
    <3>3. HexDigit(y) # Dot
      BY HexDigits, PlainBytes
    <3> QED BY <1>3, <2>5, <3>1, <3>2, <3>3
  <2> QED BY <2>3, <2>4, <2>5 DEF Piece
<1>5. PICK t \in Seq(Byte) : /\ t = Front(name) /\ Len(t) = L - 1
                             /\ \A x \in 1..L - 1 : t[x] = name[x]
  <2>1. L \in Nat /\ L >= 1 /\ \A x \in 1..L - 1 : name[x] \in Byte
    BY <1>1, <1>2
  <2>2. PICK m \in Nat : m = L - 1
    <3> HIDE DEF L
    <3> QED BY <2>1
  <2>3. /\ SubSeq(name, 1, m) \in Seq(Byte)
        /\ Len(SubSeq(name, 1, m)) = m
        /\ \A x \in 1..m : SubSeq(name, 1, m)[x] = name[x]
    <3>1. /\ SubSeq(name, 1, m) \in Seq(Byte)
          /\ Len(SubSeq(name, 1, m)) = IF 1 <= m THEN m - 1 + 1 ELSE 0
          /\ \A x \in 1..m - 1 + 1 : SubSeq(name, 1, m)[x] = name[1 + x - 1]
      BY <2>1, <2>2, SubSeqProperties
    <3>2. m - 1 + 1 = m /\ (~(1 <= m) => m = 0) /\ \A x \in 1..m : 1 + x - 1 = x
      OBVIOUS
    <3> QED BY <3>1, <3>2
  <2> QED BY <2>2, <2>3 DEF Front
<1>6. PICK e \in Seq(Byte) : /\ e = Escaped(Dot) /\ Len(e) = 3
                             /\ e[1] = Escape
                             /\ e[2] = HexDigit(Dot \div 16)
                             /\ e[3] = HexDigit(Dot % 16)
  BY EscapedBytes, PlainBytes
<1>7. /\ s \in Seq(Byte) /\ Len(s) = L + 2
      /\ \A x \in 1..L + 2 : s[x] = IF x <= L - 1 THEN t[x] ELSE e[x - (L - 1)]
  <2>1. s = t \o e
    BY <1>5, <1>6
  <2>2. /\ t \o e \in Seq(Byte) /\ Len(t \o e) = Len(t) + Len(e)
        /\ \A x \in 1..Len(t) + Len(e) : (t \o e)[x] = IF x <= Len(t) THEN t[x] ELSE e[x - Len(t)]
    BY ConcatProperties
  <2>3. Len(t) + Len(e) = L + 2 /\ Len(t) = L - 1
    BY <1>1, <1>5, <1>6
  <2> HIDE DEF s
  <2> QED BY <2>1, <2>2, <2>3
<1> HIDE DEF s
<1>8. \A x \in 1..L - 1 : s[x] = name[x]
  <2> SUFFICES ASSUME NEW x \in 1..L - 1 PROVE s[x] = name[x]
    OBVIOUS
  <2>1. x \in 1..L + 2 /\ x <= L - 1
    BY <1>1
  <2> QED BY <1>5, <1>7, <2>1
<1>9. /\ s[L] = Escape /\ s[L + 1] = HexDigit(Dot \div 16) /\ s[L + 2] = HexDigit(Dot % 16)
  <2>1. /\ L \in 1..L + 2 /\ L + 1 \in 1..L + 2 /\ L + 2 \in 1..L + 2
        /\ ~(L <= L - 1) /\ ~(L + 1 <= L - 1) /\ ~(L + 2 <= L - 1)
        /\ L - (L - 1) = 1 /\ L + 1 - (L - 1) = 2 /\ L + 2 - (L - 1) = 3
    BY <1>1, <1>2
  <2> QED BY <1>6, <1>7, <2>1
<1> DEFINE to == [i \in 1..n + 1 |-> IF i = n + 1 THEN L + 3 ELSE at[i]]
<1>10. to \in [1..n + 1 -> 1..Len(s) + 1] /\ to[1] = 1 /\ to[n + 1] = Len(s) + 1
  BY <1>1, <1>7
<1>11. \A i \in 1..n : to[i] = at[i]
  BY <1>1
<1> HIDE DEF to
<1>12. ASSUME NEW i \in 1..n PROVE Piece(s, to[i], to[i + 1], key[i])
  <2>1. CASE i = n
    <3>1. to[i] = L /\ to[i + 1] = L + 3 /\ key[i] = Dot
      BY <1>4, <1>7, <1>10, <1>11, <1>1, <2>1
    <3> QED BY <1>9, <3>1 DEF Piece
  <2>2. CASE i # n
    <3>1. i \in 1..n + 1 /\ i + 1 \in 1..n /\ i + 1 \in 1..n + 1 /\ n \in i + 1..n + 1
      BY <1>1, <2>2
    <3>2. PICK p \in 1..L + 1, q \in 1..L + 1 : p = at[i] /\ q = at[i + 1]
      BY <1>1, <3>1
    <3>3. q <= L
      <4>1. at[i + 1] + (n - (i + 1)) <= at[n]
        BY <3>1, Pace
      <4>2. q + (n - (i + 1)) <= L /\ n - (i + 1) \in Nat
        BY <1>4, <3>1, <3>2, <4>1
      <4> QED BY <1>1, <4>2
    <3>4. to[i] = p /\ to[i + 1] = q
      BY <1>11, <3>1, <3>2
    <3>5. Piece(name, p, q, key[i])
      BY <3>2 DEF Spells
    <3>6. CASE q = p + 1 /\ key[i] \in Plain /\ name[p] = key[i]
      <4>1. p \in 1..L - 1
        BY <1>1, <3>3, <3>6
      <4> QED BY <1>8, <3>4, <3>6, <4>1 DEF Piece
    <3>7. CASE /\ q = p + 3
               /\ name[p] = Escape
               /\ name[p + 1] = HexDigit(key[i] \div 16)
               /\ name[p + 2] = HexDigit(key[i] % 16)
      <4>1. p \in 1..L - 1 /\ p + 1 \in 1..L - 1 /\ p + 2 \in 1..L - 1
        BY <1>1, <3>3, <3>7
      <4> QED BY <1>8, <3>4, <3>7, <4>1 DEF Piece
    <3> QED BY <3>5, <3>6, <3>7 DEF Piece
  <2> QED BY <2>1, <2>2
<1>13. Spells(s, key, to)
  BY <1>1, <1>7, <1>10, <1>12 DEF Spells
<1>14. HexDigit(Dot \div 16) # Dot /\ HexDigit(Dot % 16) # Dot
  <2>1. PICK x \in 0..15, y \in 0..15 : x = Dot \div 16 /\ y = Dot % 16
    BY PlainBytes, TwoDigits
  <2>2. HexDigit(x) # Dot /\ HexDigit(y) # Dot
    BY HexDigits, PlainBytes
  <2> QED BY <2>1, <2>2
<1>15. s[L + 1] # Dot /\ s[L + 2] # Dot
  BY <1>9, <1>14
<1> QED BY <1>7, <1>8, <1>9, <1>13, <1>15 DEF s
-----------------------------------------------------------------------------
(* No two keys share a directory                                           *)

(* The name after the first step of EncodeKey.                             *)
Shielded(bytes) ==
  IF IsReserved(bytes) THEN Escaped(Head(bytes)) \o Tail(bytes) ELSE bytes

LEMMA ShieldedSpells ==
  ASSUME NEW key \in Seq(Byte), ValidKey(key)
  PROVE  /\ key # <<>>
         /\ \E at : Spells(Shielded(Written(key)), key, at)
         /\ IsReserved(Written(key)) => Shielded(Written(key))[1] = Escape
<1>1. key # <<>> /\ key[1] \in Plain
  BY PlainBytes DEF ValidKey
<1>2. PICK bytes : bytes = Written(key)
  OBVIOUS
<1>3. PICK at : Spells(bytes, key, at) /\ at[2] = 2
  BY <1>1, <1>2, WrittenSpells
<1>4. CASE IsReserved(bytes)
  BY <1>1, <1>2, <1>3, <1>4, EscapeFirst DEF Shielded
<1>5. CASE ~IsReserved(bytes)
  BY <1>1, <1>2, <1>3, <1>5 DEF Shielded
<1> QED BY <1>4, <1>5

LEMMA EncodeSteps ==
  ASSUME NEW key
  PROVE  EncodeKey(key) = LET name == Shielded(Written(key)) IN
                          IF Last(name) = Dot THEN Front(name) \o Escaped(Dot) ELSE name
BY DEF EncodeKey, Shielded

LEMMA EncodingSpells ==
  ASSUME NEW key \in Seq(Byte), ValidKey(key)
  PROVE  \E at : Spells(EncodeKey(key), key, at)
<1>1. PICK name : name = Shielded(Written(key))
  OBVIOUS
<1>2. PICK at : Spells(name, key, at)
  BY <1>1, ShieldedSpells
<1>3. key # <<>>
  BY ShieldedSpells
<1>4. CASE Last(name) = Dot
  <2>1. EncodeKey(key) = Front(name) \o Escaped(Dot)
    BY <1>1, <1>4, EncodeSteps
  <2>2. \E to : Spells(Front(name) \o Escaped(Dot), key, to)
    BY <1>2, <1>3, <1>4, EscapeLast
  <2> QED BY <2>1, <2>2
<1>5. CASE Last(name) # Dot
  <2>1. EncodeKey(key) = name
    BY <1>1, <1>5, EncodeSteps
  <2> QED BY <1>2, <2>1
<1> QED BY <1>4, <1>5

(* The name of a key's directory decodes to that key and to no other       *)
(* (EncodeKey and DecodeKey are inverse, whatever the key).                *)
THEOREM KeysRoundTrip ==
  \A key \in Seq(Byte) : ValidKey(key) => RoundTrip(key)
<1> SUFFICES ASSUME NEW key \in Seq(Byte), ValidKey(key) PROVE RoundTrip(key)
  OBVIOUS
<1>1. PICK at : Spells(EncodeKey(key), key, at)
  BY EncodingSpells
<1> QED BY <1>1, SpelledDecodes DEF RoundTrip

-----------------------------------------------------------------------------
(* Names that differ in case                                               *)

(* A byte as a file system sees it that tells no case apart.               *)
Folded(c) == IF c \in Upper THEN c + 32 ELSE c

LEMMA LowerFolds ==
  ASSUME NEW s \in Seq(Byte), NEW t \in Seq(Byte)
  PROVE  ToLower(s) = ToLower(t) <=>
           Len(s) = Len(t) /\ \A i \in 1..Len(s) : Folded(s[i]) = Folded(t[i])
<1>1. /\ ToLower(s) = [i \in 1..Len(s) |-> Folded(s[i])]
      /\ ToLower(t) = [i \in 1..Len(t) |-> Folded(t[i])]
      /\ Len(s) \in Nat /\ Len(t) \in Nat
  BY DEF ToLower, Folded
<1>2. ASSUME ToLower(s) = ToLower(t)
      PROVE  Len(s) = Len(t) /\ \A i \in 1..Len(s) : Folded(s[i]) = Folded(t[i])
  <2>1. DOMAIN ToLower(s) = 1..Len(s) /\ DOMAIN ToLower(t) = 1..Len(t)
    BY <1>1
  <2>2. 1..Len(s) = 1..Len(t)
    BY <1>2, <2>1
  <2>3. Len(s) = Len(t)
    BY <1>1, <2>2
  <2>4. ASSUME NEW i \in 1..Len(s) PROVE Folded(s[i]) = Folded(t[i])
    <3>1. ToLower(s)[i] = Folded(s[i]) /\ ToLower(t)[i] = Folded(t[i])
      BY <1>1, <2>3
    <3> QED BY <1>2, <3>1
  <2> QED BY <2>3, <2>4
<1>3. ASSUME Len(s) = Len(t), \A i \in 1..Len(s) : Folded(s[i]) = Folded(t[i])
      PROVE  ToLower(s) = ToLower(t)
  BY <1>1, <1>3
<1> QED BY <1>2, <1>3

(* The digits of an escape, and the escape itself, are told apart in       *)
(* either case.                                                            *)
LEMMA FoldedDigits ==
  /\ \A m, n \in 0..15 : Folded(HexDigit(m)) = Folded(HexDigit(n)) => m = n
  /\ Folded(Escape) = Escape
  /\ \A c \in Plain : Folded(c) # Escape
<1>1. ASSUME NEW m \in 0..15, NEW n \in 0..15, Folded(HexDigit(m)) = Folded(HexDigit(n))
      PROVE  m = n
  <2>1. PICK x \in Digits \cup 65..70, y \in Digits \cup 65..70 :
          x = HexDigit(m) /\ y = HexDigit(n)
    BY HexDigits
  <2>2. x = y
    BY <1>1, <2>1 DEF Folded, Upper, Digits
  <2> QED BY <2>1, <2>2, HexDigits
<1>2. Folded(Escape) = Escape
  BY DEF Folded, Upper, Escape
<1>3. \A c \in Plain : Folded(c) # Escape
  BY DEF Plain, Alnum, Lower, Upper, Digits, Dot, Escape, Folded
<1> QED BY <1>1, <1>2, <1>3

(* So two escapes that agree in either case stand for one byte.            *)
LEMMA SameEscape ==
  ASSUME NEW c \in Byte, NEW d \in Byte,
         Folded(HexDigit(c \div 16)) = Folded(HexDigit(d \div 16)),
         Folded(HexDigit(c % 16)) = Folded(HexDigit(d % 16))
  PROVE  c = d
<1>1. /\ c \div 16 \in 0..15 /\ c % 16 \in 0..15 /\ 16 * (c \div 16) + (c % 16) = c
      /\ d \div 16 \in 0..15 /\ d % 16 \in 0..15 /\ 16 * (d \div 16) + (d % 16) = d
  BY TwoDigits
<1>2. c \div 16 = d \div 16 /\ c % 16 = d % 16
  BY <1>1, FoldedDigits, Zenon
<1> QED BY <1>1, <1>2

(* So names that differ in case alone spell keys that do.                  *)
LEMMA SameSpelling ==
  ASSUME NEW k \in Seq(Byte), NEW l \in Seq(Byte), NEW s, NEW t, NEW at, NEW to,
         Spells(s, k, at), Spells(t, l, to),
         Len(s) = Len(t), \A i \in 1..Len(s) : Folded(s[i]) = Folded(t[i])
  PROVE  Len(k) = Len(l) /\ \A i \in 1..Len(k) : Folded(k[i]) = Folded(l[i])
<1> DEFINE n == Len(k)
           m == Len(l)
           L == Len(s)
           Along(i) == /\ i <= n + 1 => i <= m + 1 /\ at[i] = to[i]
                       /\ \A x \in 1..i - 1 : x <= n => Folded(k[x]) = Folded(l[x])
           B == {x \in Nat : Along(x + 1)}
<1>1. /\ n \in Nat /\ m \in Nat /\ L \in Nat
      /\ at[1] = 1 /\ at[n + 1] = L + 1 /\ to[1] = 1 /\ to[m + 1] = L + 1
  BY DEF Spells
<1>2. ASSUME NEW i \in 1..n
      PROVE  /\ k[i] \in Byte /\ Piece(s, at[i], at[i + 1], k[i])
             /\ at[i] \in 1..L /\ at[i + 1] \in 1..L + 1
  <2>1. k[i] \in Byte /\ Piece(s, at[i], at[i + 1], k[i])
    BY DEF Spells
  <2>2. at \in [1..n + 1 -> 1..L + 1] /\ i \in 1..n + 1 /\ i + 1 \in 1..n + 1
    BY <1>1 DEF Spells
  <2>3. PICK p \in 1..L + 1, q \in 1..L + 1 : p = at[i] /\ q = at[i + 1]
    BY <2>2
  <2>4. q = p + 1 \/ q = p + 3
    BY <2>1, <2>3 DEF Piece
  <2>5. p \in 1..L
    BY <1>1, <2>3, <2>4
  <2> QED BY <2>1, <2>3, <2>5
<1>3. ASSUME NEW i \in 1..m
      PROVE  /\ l[i] \in Byte /\ Piece(t, to[i], to[i + 1], l[i])
             /\ to[i] \in 1..L /\ to[i + 1] \in 1..L + 1
  <2>1. l[i] \in Byte /\ Piece(t, to[i], to[i + 1], l[i])
    BY DEF Spells
  <2>2. to \in [1..m + 1 -> 1..L + 1] /\ i \in 1..m + 1 /\ i + 1 \in 1..m + 1
    BY <1>1 DEF Spells
  <2>3. PICK p \in 1..L + 1, q \in 1..L + 1 : p = to[i] /\ q = to[i + 1]
    BY <2>2
  <2>4. q = p + 1 \/ q = p + 3
    BY <2>1, <2>3 DEF Piece
  <2>5. p \in 1..L
    BY <1>1, <2>3, <2>4
  <2> QED BY <2>1, <2>3, <2>5
<1>4. Along(0 + 1)
  BY <1>1
<1>4a. \A i \in 1..L : Folded(s[i]) = Folded(t[i])
  OBVIOUS
<1> HIDE DEF n, m, L
<1>5. ASSUME NEW i \in 1..n, Along(i)
      PROVE  i \in 1..m /\ at[i + 1] = to[i + 1] /\ Folded(k[i]) = Folded(l[i])
  <2>1. i <= m + 1 /\ at[i] = to[i]
    BY <1>1, <1>5
  <2>2. at[i] # L + 1
    BY <1>1, <1>2
  <2>3. i # m + 1
    BY <1>1, <2>1, <2>2
  <2>4. i \in 1..m
    BY <1>1, <2>1, <2>3
  <2>5. PICK p \in 1..L, q \in 1..L + 1, r \in 1..L + 1, c \in Byte, d \in Byte :
          /\ p = at[i] /\ q = at[i + 1] /\ r = to[i + 1] /\ c = k[i] /\ d = l[i]
          /\ Piece(s, p, q, c) /\ Piece(t, p, r, d)
    BY <1>2, <1>3, <2>1, <2>4
  <2>6. p \in Nat /\ q \in Nat /\ r \in Nat /\ (q = p + 3 => p + 1 \in 1..L /\ p + 2 \in 1..L)
    BY <1>1
  <2>7. /\ Folded(s[p]) = Folded(t[p])
        /\ q = p + 3 => /\ Folded(s[p + 1]) = Folded(t[p + 1])
                        /\ Folded(s[p + 2]) = Folded(t[p + 2])
    BY <1>4a, <2>5, <2>6
  <2>8. CASE q = p + 1 /\ c \in Plain /\ s[p] = c
    <3>1. t[p] # Escape
      BY <2>7, <2>8, FoldedDigits
    <3>2. r = p + 1 /\ t[p] = d
      BY <2>5, <3>1 DEF Piece
    <3> QED BY <2>4, <2>5, <2>7, <2>8, <3>2
  <2>9. CASE /\ q = p + 3
             /\ s[p] = Escape
             /\ s[p + 1] = HexDigit(c \div 16)
             /\ s[p + 2] = HexDigit(c % 16)
    <3>1. t[p] \notin Plain
      BY <2>7, <2>9, FoldedDigits
    <3>2. /\ r = p + 3
          /\ t[p + 1] = HexDigit(d \div 16)
          /\ t[p + 2] = HexDigit(d % 16)
      BY <2>5, <3>1 DEF Piece
    <3>3. /\ Folded(HexDigit(c \div 16)) = Folded(HexDigit(d \div 16))
          /\ Folded(HexDigit(c % 16)) = Folded(HexDigit(d % 16))
      BY <2>7, <2>9, <3>2
    <3>4. c = d
      BY <3>3, SameEscape
    <3> QED BY <2>4, <2>5, <2>9, <3>2, <3>4
  <2>10. Piece(s, p, q, c)
    BY <2>5
  <2> QED BY <2>8, <2>9, <2>10 DEF Piece
<1>6. ASSUME NEW x \in B PROVE x + 1 \in B
  <2>1. x \in Nat /\ Along(x + 1)
    BY <1>6
  <2>2. CASE x + 1 \in 1..n
    <3>1. x + 1 \in 1..m /\ at[x + 2] = to[x + 2] /\ Folded(k[x + 1]) = Folded(l[x + 1])
      <4>1. x + 1 + 1 = x + 2
        BY <2>1
      <4> HIDE DEF Along
      <4> QED BY <1>5, <2>1, <2>2, <4>1
    <3>2. x + 2 <= m + 1 /\ x + 1 + 1 = x + 2 /\ \A y \in 1..x + 2 - 1 : y \in 1..x + 1 - 1 \/ y = x + 1
      BY <1>1, <2>1, <3>1
    <3> QED BY <2>1, <3>1, <3>2
  <2>3. CASE ~(x + 1 \in 1..n)
    <3>1. ~(x + 1 + 1 <= n + 1)
          /\ \A y \in 1..x + 1 + 1 - 1 : y <= n => y \in 1..x + 1 - 1
      BY <1>1, <2>1, <2>3
    <3> QED BY <2>1, <3>1
  <2> QED BY <2>2, <2>3
<1>7. B = Nat
  <2>1. 0 \in B /\ B \in SUBSET Nat
    BY <1>4
  <2> HIDE DEF B
  <2> QED BY <1>6, <2>1, SetInduction
<1>8. Along(n + 1)
  BY <1>1, <1>7
<1>9. n + 1 <= m + 1 /\ at[n + 1] = to[n + 1] /\ \A x \in 1..n : Folded(k[x]) = Folded(l[x])
  BY <1>1, <1>8
<1>10. n = m
  <2>1. ~(n + 1 \in 1..m)
    <3>1. to[n + 1] = L + 1 /\ L + 1 \notin 1..L
      BY <1>1, <1>9
    <3> QED BY <1>3, <3>1
  <2> QED BY <1>1, <1>9, <2>1
<1> QED BY <1>9, <1>10 DEF n, m

(* Two valid keys whose directories a file system can take for one differ  *)
(* in case alone; where it tells case apart they are one key: a lease of   *)
(* one stands in for the other's only so (Store.keyDir).                   *)
THEOREM SharedOnlyByCase ==
  \A k, l \in Seq(Byte) :
    ValidKey(k) /\ ValidKey(l) /\ ToLower(EncodeKey(k)) = ToLower(EncodeKey(l))
      => ToLower(k) = ToLower(l)
<1> SUFFICES ASSUME NEW k \in Seq(Byte), NEW l \in Seq(Byte),
                    ValidKey(k), ValidKey(l), ToLower(EncodeKey(k)) = ToLower(EncodeKey(l))
             PROVE  ToLower(k) = ToLower(l)
  OBVIOUS
<1>1. PICK s, t : s = EncodeKey(k) /\ t = EncodeKey(l)
  OBVIOUS
<1>2. PICK at : Spells(s, k, at)
  BY <1>1, EncodingSpells
<1>3. PICK to : Spells(t, l, to)
  BY <1>1, EncodingSpells
<1>4. s \in Seq(Byte) /\ t \in Seq(Byte) /\ ToLower(s) = ToLower(t)
  BY <1>1, <1>2, <1>3 DEF Spells
<1>5. Len(s) = Len(t) /\ \A i \in 1..Len(s) : Folded(s[i]) = Folded(t[i])
  BY <1>4, LowerFolds
<1>6. Len(k) = Len(l) /\ \A i \in 1..Len(k) : Folded(k[i]) = Folded(l[i])
  BY <1>2, <1>3, <1>5, SameSpelling
<1> QED BY <1>6, LowerFolds

-----------------------------------------------------------------------------
(* The names are safe                                                      *)

(* A name that spells a key has only plain bytes and escapes.              *)
LEMMA SpelledBytes ==
  ASSUME NEW key \in Seq(Byte), NEW name, NEW at, Spells(name, key, at)
  PROVE  \A x \in 1..Len(name) : name[x] \in Plain \cup {Escape}
<1> DEFINE n == Len(key)
           Fine(i) == \A x \in 1..at[i] - 1 : name[x] \in Plain \cup {Escape}
           B == {m \in Nat : m <= n => Fine(m + 1)}
<1>1. /\ n \in Nat /\ at[1] = 1 /\ at[n + 1] = Len(name) + 1 /\ Len(name) \in Nat
      /\ \A i \in 1..n + 1 : at[i] \in Nat
      /\ \A i \in 1..n : key[i] \in Byte /\ Piece(name, at[i], at[i + 1], key[i])
  <2>1. \A i \in 1..n : key[i] \in Byte
    OBVIOUS
  <2>2. \A i \in 1..n : Piece(name, at[i], at[i + 1], key[i])
    BY DEF Spells
  <2>3. at[1] = 1 /\ at[n + 1] = Len(name) + 1
    BY DEF Spells
  <2>4. name \in Seq(Byte) /\ at \in [1..n + 1 -> 1..Len(name) + 1]
    BY DEF Spells
  <2>5. n \in Nat /\ Len(name) \in Nat
    BY <2>4
  <2>6. \A i \in 1..n + 1 : at[i] \in Nat
    BY <2>4, <2>5
  <2> QED BY <2>1, <2>2, <2>3, <2>5, <2>6
<1>2. Fine(0 + 1)
  BY <1>1
<1>3. ASSUME NEW i \in 1..n, Fine(i) PROVE Fine(i + 1)
  <2>1. i \in 1..n + 1 /\ i + 1 \in 1..n + 1
    BY <1>1
  <2>2. PICK p \in Nat, q \in Nat, c \in Byte : p = at[i] /\ q = at[i + 1] /\ c = key[i]
    BY <1>1, <2>1
  <2>3. Piece(name, p, q, c) /\ \A x \in 1..p - 1 : name[x] \in Plain \cup {Escape}
    BY <1>1, <1>3, <2>2
  <2>4. HexDigit(c \div 16) \in Plain /\ HexDigit(c % 16) \in Plain
    BY TwoDigits, HexDigits, PlainBytes
  <2>5. ASSUME NEW x \in 1..q - 1 PROVE name[x] \in Plain \cup {Escape}
    <3>1. CASE x <= p - 1
      BY <2>2, <2>3, <3>1
    <3>2. CASE q = p + 1 /\ c \in Plain /\ name[p] = c /\ ~(x <= p - 1)
      <4>1. x = p
        BY <3>2
      <4> QED BY <3>2, <4>1
    <3>3. CASE /\ q = p + 3 /\ ~(x <= p - 1)
               /\ name[p] = Escape
               /\ name[p + 1] = HexDigit(c \div 16)
               /\ name[p + 2] = HexDigit(c % 16)
      <4>1. x = p \/ x = p + 1 \/ x = p + 2
        BY <3>3
      <4> QED BY <2>4, <3>3, <4>1
    <3> QED BY <2>3, <3>1, <3>2, <3>3 DEF Piece
  <2> QED BY <2>2, <2>5
<1> HIDE DEF n, Fine
<1>4. ASSUME NEW m \in B PROVE m + 1 \in B
  <2>1. m \in Nat /\ (m <= n => Fine(m + 1))
    BY <1>4
  <2>2. m + 1 <= n => m + 1 \in 1..n /\ m <= n
    BY <1>1, <2>1
  <2> QED BY <1>3, <2>1, <2>2
<1>5. B = Nat
  <2>1. 0 \in B /\ B \in SUBSET Nat
    BY <1>2
  <2> HIDE DEF B
  <2> QED BY <1>4, <2>1, SetInduction
<1>6. Fine(n + 1)
  <2>1. n \in B
    BY <1>1, <1>5
  <2>2. n <= n
    BY <1>1
  <2> QED BY <2>1, <2>2
<1> QED BY <1>1, <1>6 DEF Fine

(* No device name has an escape.                                           *)
LEMMA ReservedHasNoEscape ==
  ASSUME NEW s \in Seq(Byte), NEW x \in 1..Len(s), s[x] = Escape
  PROVE  ToLower(s) \notin Reserved
<1>1. ToLower(s) = [i \in 1..Len(s) |-> IF s[i] \in Upper THEN s[i] + 32 ELSE s[i]]
  BY DEF ToLower
<1>2. DOMAIN ToLower(s) = 1..Len(s) /\ ToLower(s)[x] = Escape
  <2>1. Escape \notin Upper
    BY DEF Upper, Escape
  <2>2. ToLower(s)[x] = s[x]
    BY <1>1, <2>1
  <2> QED BY <1>1, <2>2
<1>3. ASSUME NEW r \in Reserved PROVE \A i \in DOMAIN r : r[i] # Escape
  <2>1. CASE r \in {<<99, 111, 110>>, <<112, 114, 110>>, <<97, 117, 120>>, <<110, 117, 108>>}
    BY <2>1 DEF Escape
  <2>2. ASSUME NEW d \in 49..57, r = <<99, 111, 109, d>> \/ r = <<108, 112, 116, d>>
        PROVE  \A i \in DOMAIN r : r[i] # Escape
    BY <2>2 DEF Escape
  <2> QED BY <1>3, <2>1, <2>2 DEF Reserved
<1> QED BY <1>2, <1>3

LEMMA FirstDot ==
  ASSUME NEW s \in Seq(Byte), Dot \in ToSet(s)
  PROVE  \E d \in 1..Len(s) : s[d] = Dot /\ \A x \in 1..d - 1 : s[x] # Dot
<1> DEFINE I == {x \in 1..Len(s) : s[x] = Dot}
<1>1. I # {} /\ I \in SUBSET Nat
  BY DEF ToSet
<1>2. PICK d \in I : \A y \in I : d <= y
  <2> HIDE DEF I
  <2> QED BY <1>1, Least
<1> QED BY <1>2

LEMMA StemAt ==
  ASSUME NEW s \in Seq(Byte), NEW d \in 1..Len(s), s[d] = Dot,
         \A x \in 1..d - 1 : s[x] # Dot
  PROVE  /\ Dot \in ToSet(s)
         /\ Stem(s) \in Seq(Byte) /\ Len(Stem(s)) = d - 1
         /\ \A x \in 1..d - 1 : Stem(s)[x] = s[x]
<1> DEFINE I == {x \in 1..Len(s) : s[x] = Dot}
<1>1. d \in I /\ \A y \in I : d <= y
  OBVIOUS
<1>2. Min(I) = d
  <2> HIDE DEF I
  <2>1. \A x \in I : (\A y \in I : x <= y) => x = d
    <3>1. I \subseteq Nat
      BY DEF I
    <3> QED BY <1>1, <3>1
  <2> QED BY <1>1, <2>1 DEF Min
<1>3. SelectInSeq(s, LAMBDA c : c = Dot) = Min(I)
  BY <1>1 DEF SelectInSeq
<1>4. PICK m \in Nat : m = d - 1
  OBVIOUS
<1>5. Stem(s) = SubSeq(s, 1, m)
  BY <1>2, <1>3, <1>4 DEF Stem
<1>6. /\ SubSeq(s, 1, m) \in Seq(Byte)
      /\ Len(SubSeq(s, 1, m)) = IF 1 <= m THEN m - 1 + 1 ELSE 0
      /\ \A x \in 1..m - 1 + 1 : SubSeq(s, 1, m)[x] = s[1 + x - 1]
  <2>1. \A x \in 1..m : s[x] \in Byte
    BY <1>4
  <2> QED BY <2>1, SubSeqProperties
<1>7. m - 1 + 1 = m /\ (~(1 <= m) => m = 0) /\ \A x \in 1..m : 1 + x - 1 = x
  OBVIOUS
<1>8. Dot \in ToSet(s)
  BY DEF ToSet
<1> QED BY <1>4, <1>5, <1>6, <1>7, <1>8

(* A name that begins with an escape is no device.                         *)
LEMMA EscapedNotReserved ==
  ASSUME NEW s \in Seq(Byte), Len(s) >= 1, s[1] = Escape
  PROVE  ~IsReserved(s)
<1>1. CASE Dot \in ToSet(s)
  <2>1. PICK d \in 1..Len(s) : s[d] = Dot /\ \A x \in 1..d - 1 : s[x] # Dot
    BY <1>1, FirstDot
  <2>2. 1 \in 1..d - 1
    BY <2>1 DEF Dot, Escape
  <2>3. /\ Stem(s) \in Seq(Byte) /\ Len(Stem(s)) = d - 1
        /\ \A x \in 1..d - 1 : Stem(s)[x] = s[x]
    BY <2>1, StemAt
  <2>4. 1 \in 1..Len(Stem(s)) /\ Stem(s)[1] = Escape
    BY <2>2, <2>3
  <2>5. ToLower(Stem(s)) \notin Reserved
    BY <2>3, <2>4, ReservedHasNoEscape
  <2> QED BY <1>1, <2>5 DEF IsReserved
<1>2. CASE Dot \notin ToSet(s)
  <2>1. 1 \in 1..Len(s)
    OBVIOUS
  <2>2. ToLower(s) \notin Reserved
    BY <2>1, ReservedHasNoEscape
  <2> QED BY <1>2, <2>2 DEF IsReserved
<1> QED BY <1>1, <1>2

(* Nor does escaping the dot at its end make a name a device.              *)
LEMMA DotEscapedNotReserved ==
  ASSUME NEW name \in Seq(Byte), NEW s \in Seq(Byte), Len(name) >= 1,
         ~IsReserved(name), name[Len(name)] = Dot,
         Len(s) = Len(name) + 2,
         \A x \in 1..Len(name) - 1 : s[x] = name[x],
         s[Len(name)] = Escape, s[Len(name) + 1] # Dot, s[Len(name) + 2] # Dot
  PROVE  ~IsReserved(s)
<1> DEFINE L == Len(name)
<1>1. L \in Nat /\ Dot \in ToSet(name)
  BY DEF ToSet
<1>2. PICK d \in 1..L : name[d] = Dot /\ \A x \in 1..d - 1 : name[x] # Dot
  BY <1>1, FirstDot
<1>3. CASE d = L
  <2>1. \A x \in 1..L + 2 : s[x] # Dot
    <3> SUFFICES ASSUME NEW x \in 1..L + 2 PROVE s[x] # Dot
      OBVIOUS
    <3>1. x \in 1..L - 1 \/ x = L \/ x = L + 1 \/ x = L + 2
      BY <1>1
    <3> QED BY <1>2, <1>3, <3>1 DEF Dot, Escape
  <2>2. Dot \notin ToSet(s)
    BY <2>1 DEF ToSet
  <2>3. L \in 1..Len(s)
    BY <1>1
  <2>4. ToLower(s) \notin Reserved
    BY <2>3, ReservedHasNoEscape
  <2> QED BY <2>2, <2>4 DEF IsReserved
<1>4. CASE d # L
  <2>1. /\ d \in 1..L - 1 /\ d \in 1..Len(s)
        /\ \A x \in 1..d - 1 : x \in 1..L - 1
    BY <1>1, <1>4
  <2>2. s[d] = Dot /\ \A x \in 1..d - 1 : s[x] # Dot /\ s[x] = name[x]
    BY <1>2, <2>1
  <2>3. /\ Dot \in ToSet(s)
        /\ Stem(s) \in Seq(Byte) /\ Len(Stem(s)) = d - 1
        /\ \A x \in 1..d - 1 : Stem(s)[x] = s[x]
    BY <2>1, <2>2, StemAt
  <2>4. /\ Stem(name) \in Seq(Byte) /\ Len(Stem(name)) = d - 1
        /\ \A x \in 1..d - 1 : Stem(name)[x] = name[x]
    BY <1>2, StemAt
  <2>5. Stem(s) = Stem(name)
    BY <2>2, <2>3, <2>4, SeqEqual
  <2> QED BY <1>1, <2>3, <2>5 DEF IsReserved
<1> QED BY <1>3, <1>4

(* The directory's name has no separator or colon, is no device of Windows *)
(* with or without an extension, does not end in a dot, and is at most     *)
(* three times as long as the key (EncodeKey).                             *)
THEOREM NamesAreSafe ==
  \A key \in Seq(Byte) : ValidKey(key) => SafeName(key)
<1> SUFFICES ASSUME NEW key \in Seq(Byte), ValidKey(key) PROVE SafeName(key)
  OBVIOUS
<1>1. PICK name, code : name = Shielded(Written(key)) /\ code = EncodeKey(key)
  OBVIOUS
<1>2. PICK at : Spells(name, key, at)
  BY <1>1, ShieldedSpells
<1>3. PICK to : Spells(code, key, to)
  BY <1>1, EncodingSpells
<1>4. name \in Seq(Byte) /\ code \in Seq(Byte) /\ Len(key) \in Nat \ {0}
  BY <1>2, <1>3, ShieldedSpells DEF Spells
<1>5. Len(name) \in Nat /\ Len(code) \in Nat /\ Len(key) <= Len(name) /\ Len(name) >= 1
  <2>1. 1 \in 1..Len(key) + 1 /\ Len(key) + 1 \in 1..Len(key) + 1
    BY <1>4
  <2>2. at[1] + (Len(key) + 1 - 1) <= at[Len(key) + 1]
    BY <1>2, <2>1, Pace
  <2>3. at[1] = 1 /\ at[Len(key) + 1] = Len(name) + 1
    BY <1>2 DEF Spells
  <2> QED BY <1>4, <2>2, <2>3
<1>6. Len(code) <= 3 * Len(key)
  <2>1. PICK i \in 1..Len(key) + 1, j \in 1..Len(key) + 1 :
          i = 1 /\ j = Len(key) + 1 /\ j \in i..Len(key) + 1
    BY <1>4
  <2>2. to[j] <= to[i] + 3 * (j - i)
    BY <1>3, <2>1, Pace
  <2>3. to[i] = 1 /\ to[j] = Len(code) + 1
    BY <1>3, <2>1 DEF Spells
  <2>4. 3 * (j - i) = 3 * Len(key)
    BY <1>4, <2>1
  <2> QED BY <1>4, <1>5, <2>2, <2>3, <2>4
<1>7. ToSet(code) \subseteq Plain \cup {Escape}
  BY <1>3, <1>4, SpelledBytes DEF ToSet
<1>8. ~IsReserved(name)
  <2>1. PICK bytes : bytes = Written(key)
    OBVIOUS
  <2>2. CASE IsReserved(bytes)
    <3>1. name[1] = Escape
      BY <1>1, <2>1, <2>2, ShieldedSpells
    <3> QED BY <1>4, <1>5, <3>1, EscapedNotReserved
  <2>3. CASE ~IsReserved(bytes)
    BY <1>1, <2>1, <2>3 DEF Shielded
  <2> QED BY <2>2, <2>3
<1>9. ~IsReserved(code) /\ Last(code) # Dot
  <2>1. CASE Last(name) # Dot
    BY <1>1, <1>8, <2>1, EncodeSteps
  <2>2. CASE Last(name) = Dot
    <3>1. code = Front(name) \o Escaped(Dot)
      BY <1>1, <2>2, EncodeSteps
    <3>2. key # <<>>
      BY ShieldedSpells
    <3>3. /\ Len(code) = Len(name) + 2
          /\ \A x \in 1..Len(name) - 1 : code[x] = name[x]
          /\ code[Len(name)] = Escape
          /\ code[Len(name) + 1] # Dot /\ code[Len(name) + 2] # Dot
      BY <1>2, <2>2, <3>1, <3>2, EscapeLast
    <3>4. name[Len(name)] = Dot
      BY <2>2 DEF Last
    <3>5. ~IsReserved(code)
      BY <1>4, <1>5, <1>8, <3>3, <3>4, DotEscapedNotReserved
    <3> QED BY <3>3, <3>5 DEF Last
  <2> QED BY <2>1, <2>2
<1> QED BY <1>1, <1>6, <1>7, <1>9 DEF SafeName
=============================================================================
