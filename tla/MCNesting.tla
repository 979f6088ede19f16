----------------------------- MODULE MCNesting -----------------------------
(* Nesting on small instances, and the encoding of keys on short ones.     *)
EXTENDS Nesting, Keys

CONSTANTS a, b

(* Keys of up to four bytes out of a, C, 0, the dot, the hyphen, the colon *)
(* and the slash; and each device name, in lower case and capitalised,     *)
(* with what may follow it.                                                *)
ShortKeys == UNION {[1..n -> {97, 67, 48, 46, 45, 58, 47}] : n \in 1..4}

Capital(s) == [s EXCEPT ![1] = @ - 32]

DeviceKeys ==
  LET named == Reserved \cup {Capital(r) : r \in Reserved}
  IN {r \o t : r \in named, t \in {<<>>, <<46>>, <<46, 97>>, <<46, 46>>, <<58>>, <<97>>}}

(* EncodeKey loses nothing and makes names every file system takes, so two *)
(* keys share one at most where the file system tells no case apart.       *)
ASSUME EncodingSound ==
  \A key \in {k \in ShortKeys \cup DeviceKeys : ValidKey(k)} :
    RoundTrip(key) /\ SafeName(key)
=============================================================================
