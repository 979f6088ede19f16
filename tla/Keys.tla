------------------------------- MODULE Keys -------------------------------
(***************************************************************************)
(* From a semantic key to the name of its directory and back               *)
(* (internal/mutex/keys.go).  A key and a name are sequences of bytes, by  *)
(* their ASCII codes.                                                      *)
(***************************************************************************)
EXTENDS Integers, SequencesExt

Lower  == 97..122
Upper  == 65..90
Digits == 48..57
Dot    == 46
Escape == 37

Alnum == Lower \cup Upper \cup Digits

Plain == Alnum \cup {Dot, 95, 45}            \* . _ -

MaxKeyLen == 80

ValidKey(key) ==
  /\ Len(key) \in 1..MaxKeyLen
  /\ key[1] \in Alnum
  /\ \A i \in DOMAIN key : key[i] \in Plain \cup {58, 47}   \* : /

-----------------------------------------------------------------------------
(* Encoding                                                                *)

HexDigit(n) == IF n < 10 THEN 48 + n ELSE 55 + n

Escaped(c) == <<Escape, HexDigit(c \div 16), HexDigit(c % 16)>>

(* The device names of Windows: con prn aux nul com1..9 lpt1..9.           *)
Reserved ==
  {<<99, 111, 110>>, <<112, 114, 110>>, <<97, 117, 120>>, <<110, 117, 108>>}
  \cup {<<99, 111, 109, d>> : d \in 49..57}
  \cup {<<108, 112, 116, d>> : d \in 49..57}

ToLower(s) == [i \in DOMAIN s |-> IF s[i] \in Upper THEN s[i] + 32 ELSE s[i]]

(* A name up to its first dot.                                             *)
Stem(s) == SubSeq(s, 1, SelectInSeq(s, LAMBDA c : c = Dot) - 1)

IsReserved(s) ==
  ToLower(IF Dot \in ToSet(s) THEN Stem(s) ELSE s) \in Reserved

(* What the loop has written after the last byte of the key.               *)
Written(key) ==
  LET upto[i \in 0..Len(key)] ==
        IF i = 0 THEN <<>>
        ELSE upto[i - 1] \o IF key[i] \in Plain THEN <<key[i]>> ELSE Escaped(key[i])
  IN upto[Len(key)]

EncodeKey(key) ==
  LET bytes == Written(key)
      name  == IF IsReserved(bytes) THEN Escaped(Head(bytes)) \o Tail(bytes) ELSE bytes
  IN IF Last(name) = Dot THEN Front(name) \o Escaped(Dot) ELSE name

-----------------------------------------------------------------------------
(* Decoding                                                                *)

Value(d) == IF d \in Digits THEN d - 48 ELSE (d - 55) % 32

IsHex(d) == d \in Digits \cup 65..70 \cup 97..102

(* The key that a name stands for, if it stands for one: from[i] is what   *)
(* the loop makes of the name from its i-th byte on.  A directory whose    *)
(* name does not decode is not one of the store's.                         *)
DecodeKey(name) ==
  LET from[i \in 1..Len(name) + 1] ==
        IF i > Len(name) THEN {<<>>}
        ELSE IF name[i] # Escape THEN {<<name[i]>> \o k : k \in from[i + 1]}
        ELSE IF i + 2 <= Len(name) /\ IsHex(name[i + 1]) /\ IsHex(name[i + 2])
          THEN {<<16 * Value(name[i + 1]) + Value(name[i + 2])>> \o k : k \in from[i + 3]}
        ELSE {}
  IN from[1]

-----------------------------------------------------------------------------
(* What the store relies on                                                *)

(* Encoding loses nothing: two keys have two names, though a file system   *)
(* that tells no case apart may take them for one.                         *)
RoundTrip(key) == DecodeKey(EncodeKey(key)) = {key}

(* The name is one that every file system takes as it is: no separator or  *)
(* colon, not a device with or without an extension, no dot at its end.    *)
SafeName(key) ==
  LET name == EncodeKey(key) IN
  /\ ToSet(name) \subseteq Plain \cup {Escape}
  /\ ~IsReserved(name)
  /\ Last(name) # Dot
  /\ Len(name) <= 3 * Len(key)
=============================================================================
