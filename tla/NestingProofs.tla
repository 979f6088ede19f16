--------------------------- MODULE NestingProofs ---------------------------
(***************************************************************************)
(* Types, exclusion among nested runs and the absence of circles of        *)
(* waiters, for any agents, keys and depth.                                *)
(***************************************************************************)
EXTENDS Nesting, FiniteSetTheorems, SequenceTheorems, TLAPS

(* What the argument needs of the types: stacks of keys, within the bound, *)
(* with room for the run that waits.                                       *)
Stacks ==
  /\ owner \in [Key -> Run \cup {NoRun}]
  /\ stack \in [Agent -> Seq(Key)]
  /\ \A a \in Agent : Depth(a) <= MaxDepth
  /\ want \in [Agent -> Key \cup {NoKey}]
  /\ \A a \in Agent : ~Working(a) => Depth(a) < MaxDepth

ExclusionInv == Stacks /\ NestedExclusion

(* The chain of an agent grows by one run at its end.                      *)
LEMMA Pushed ==
  ASSUME NEW s, s \in Seq(Key), NEW k \in Key
  PROVE  /\ Append(s, k) \in Seq(Key)
         /\ Len(Append(s, k)) = Len(s) + 1
         /\ Append(s, k)[Len(s) + 1] = k
         /\ \A i \in 1..Len(s) : Append(s, k)[i] = s[i]
  OBVIOUS

(* It loses its inner end, from the n-th run on.                           *)
LEMMA Truncated ==
  ASSUME NEW s, s \in Seq(Key), NEW n \in 1..Len(s)
  PROVE  /\ SubSeq(s, 1, n - 1) \in Seq(Key)
         /\ Len(SubSeq(s, 1, n - 1)) = n - 1
         /\ \A i \in 1..n - 1 : SubSeq(s, 1, n - 1)[i] = s[i]
<1>1. PICK m \in Nat : m = n - 1
  OBVIOUS
<1>2. \A i \in 1..m : s[i] \in Key
  BY <1>1
<1>3. /\ SubSeq(s, 1, m) \in Seq(Key)
      /\ Len(SubSeq(s, 1, m)) = IF 1 <= m THEN m - 1 + 1 ELSE 0
      /\ \A i \in 1..m - 1 + 1 : SubSeq(s, 1, m)[i] = s[1 + i - 1]
  BY <1>1, <1>2, SubSeqProperties
<1>4. (IF 1 <= m THEN m - 1 + 1 ELSE 0) = m /\ m - 1 + 1 = m
  OBVIOUS
<1>5. \A i \in 1..m : 1 + i - 1 = i
  OBVIOUS
<1> QED BY <1>1, <1>3, <1>4, <1>5

(* It shrinks by the innermost one.                                        *)
LEMMA Popped ==
  ASSUME NEW s, s \in Seq(Key), s # <<>>
  PROVE  /\ Len(s) \in Nat \ {0}
         /\ Last(s) = s[Len(s)]
         /\ Last(s) \in Key
         /\ Front(s) \in Seq(Key)
         /\ Len(Front(s)) = Len(s) - 1
         /\ \A i \in 1..Len(s) - 1 : Front(s)[i] = s[i]
<1>1. Len(s) \in Nat \ {0}
  OBVIOUS
<1>2. Last(s) = s[Len(s)] /\ Last(s) \in Key
  BY <1>1 DEF Last
<1>3. Front(s) = SubSeq(s, 1, Len(s) - 1)
  BY DEF Front
<1>4. /\ SubSeq(s, 1, Len(s) - 1) \in Seq(Key)
      /\ Len(SubSeq(s, 1, Len(s) - 1)) = Len(s) - 1
      /\ \A i \in 1..Len(s) - 1 : SubSeq(s, 1, Len(s) - 1)[i] = s[i]
  <2>1. Len(s) \in 1..Len(s)
    BY <1>1
  <2> QED BY <2>1, Truncated
<1> QED BY <1>1, <1>2, <1>3, <1>4

(* A granted lease: the key was free, so no uncleared run had it.          *)
LEMMA PushStep ==
  ASSUME ExclusionInv, NEW a \in Agent, NEW k \in Key,
         Depth(a) < MaxDepth, Free(k), Push(a, k),
         want' = [want EXCEPT ![a] = NoKey]
  PROVE  ExclusionInv'
<1> USE NestingAssumption DEF NestingAssumption
<1> DEFINE n == Depth(a) + 1
<1>1. /\ stack[a] \in Seq(Key)
      /\ Depth(a) \in Nat
      /\ n \in 1..MaxDepth
  BY DEF ExclusionInv, Stacks, Working, Depth
<1>2. /\ stack' = [stack EXCEPT ![a] = Append(stack[a], k)]
      /\ owner' = [owner EXCEPT ![k] = <<a, n>>]
      /\ cleared' = cleared \ {<<a, n>>}
  BY DEF Push
<1>3. /\ stack'[a] \in Seq(Key)
      /\ Depth(a)' = n
      /\ stack'[a][n] = k
      /\ \A i \in 1..Depth(a) : stack'[a][i] = stack[a][i]
  BY <1>1, <1>2, Pushed DEF ExclusionInv, Stacks, Working, Depth
<1>4. \A b \in Agent \ {a} : stack'[b] = stack[b]
  BY <1>2 DEF ExclusionInv, Stacks
<1>5. <<a, n>> \in Run
  BY <1>1 DEF Run
<1>6. Stacks'
  BY <1>1, <1>2, <1>3, <1>4, <1>5 DEF ExclusionInv, Stacks, Working, Depth
<1>7. ASSUME NEW r \in Run \ cleared', Live(r)'
      PROVE  owner'[KeyOf(r)'] = r
  <2>1. CASE r = <<a, n>>
    BY <2>1, <1>2, <1>3 DEF KeyOf, ExclusionInv, Stacks
  <2>2. CASE r # <<a, n>>
    <3>1. PICK b \in Agent, i \in 1..MaxDepth : r = <<b, i>>
      BY DEF Run
    <3>2. r \in Run \ cleared
      BY <2>2, <1>2
    <3>3. i <= Depth(b) /\ stack'[b][i] = stack[b][i] /\ Depth(b) \in Nat
      BY <3>1, <2>2, <1>1, <1>3, <1>4, <1>7 DEF Live, Depth, ExclusionInv, Stacks
    <3>4. owner[stack[b][i]] = r
      BY <3>1, <3>2, <3>3 DEF ExclusionInv, NestedExclusion, Live, KeyOf
    <3>4a. stack[b] \in Seq(Key) /\ i \in 1..Len(stack[b])
      BY <3>3 DEF ExclusionInv, Stacks, Depth
    <3>4b. stack[b][i] \in Key
      BY <3>4a
    <3>5. r # NoRun
      BY DEF Run
    <3>6. stack[b][i] # k
      BY <3>4, <3>5 DEF Free
    <3>7. owner'[stack[b][i]] = r
      BY <3>4, <3>6, <3>4b, <1>2 DEF ExclusionInv, Stacks
    <3> QED BY <3>1, <3>3, <3>7 DEF KeyOf
  <2> QED BY <2>1, <2>2
<1> QED BY <1>6, <1>7 DEF ExclusionInv, NestedExclusion

(* The end of a run: what it releases is its own lease.                    *)
LEMMA FinishStep ==
  ASSUME ExclusionInv, NEW a \in Agent, Finish(a)
  PROVE  ExclusionInv'
<1> USE NestingAssumption DEF NestingAssumption
<1> DEFINE n == Depth(a)
           k == Last(stack[a])
<1>1. /\ stack[a] \in Seq(Key)
      /\ stack[a] # <<>>
      /\ LeaseKey(a) = k
      /\ Innermost(a) = <<a, n>>
  BY DEF ExclusionInv, Stacks, Finish, LeaseKey, Innermost
<1>2. /\ n \in Nat \ {0}
      /\ k = stack[a][n]
      /\ k \in Key
      /\ Front(stack[a]) \in Seq(Key)
      /\ Len(Front(stack[a])) = n - 1
      /\ \A i \in 1..n - 1 : Front(stack[a])[i] = stack[a][i]
  BY <1>1, Popped DEF Depth
<1>3. /\ stack' = [stack EXCEPT ![a] = Front(stack[a])]
      /\ owner' = [owner EXCEPT ![k] = IF owner[k] = <<a, n>> THEN NoRun ELSE owner[k]]
      /\ cleared' = cleared \ {<<a, n>>}
      /\ want' = want
  BY <1>1 DEF Finish
<1>4. /\ Depth(a)' = n - 1
      /\ \A i \in 1..n - 1 : stack'[a][i] = stack[a][i]
      /\ \A b \in Agent \ {a} : stack'[b] = stack[b]
  BY <1>2, <1>3 DEF ExclusionInv, Stacks, Working, Depth
<1>5. Stacks'
  <2>1. owner' \in [Key -> Run \cup {NoRun}] /\ stack' \in [Agent -> Seq(Key)]
    BY <1>2, <1>3 DEF ExclusionInv, Stacks
  <2>2. \A b \in Agent : Depth(b)' <= Depth(b) /\ Depth(b) \in Nat /\ Depth(b)' \in Nat
    BY <1>2, <1>4, <2>1 DEF ExclusionInv, Stacks, Depth
  <2>3. \A b \in Agent : Working(b)' = Working(b)
    BY <1>3 DEF Working
  <2> QED BY <1>3, <2>1, <2>2, <2>3 DEF ExclusionInv, Stacks
<1>6. ASSUME NEW r \in Run \ cleared', Live(r)'
      PROVE  owner'[KeyOf(r)'] = r
  <2>1. PICK b \in Agent, i \in 1..MaxDepth : r = <<b, i>>
    BY DEF Run
  <2>2. r # <<a, n>>
    BY <2>1, <1>2, <1>4, <1>6 DEF Live
  <2>3. r \in Run \ cleared
    BY <2>2, <1>3
  <2>4. i <= Depth(b) /\ stack'[b][i] = stack[b][i] /\ Depth(b) \in Nat
    <3>1. Depth(b) \in Nat
      BY DEF Depth, ExclusionInv, Stacks
    <3>2. i <= Depth(b)'
      BY <2>1, <1>6 DEF Live
    <3>3. CASE b = a
      BY <3>2, <3>3, <1>2, <1>4
    <3>4. CASE b # a
      <4>1. stack'[b] = stack[b]
        BY <3>4, <1>4
      <4> QED BY <4>1, <3>1, <3>2 DEF Depth
    <3> QED BY <3>1, <3>3, <3>4
  <2>5. owner[stack[b][i]] = r
    BY <2>1, <2>3, <2>4 DEF ExclusionInv, NestedExclusion, Live, KeyOf
  <2>5a. stack[b] \in Seq(Key) /\ i \in 1..Len(stack[b])
    BY <2>4 DEF ExclusionInv, Stacks, Depth
  <2>5b. stack[b][i] \in Key
    BY <2>5a
  <2>6. owner'[stack[b][i]] = r
    BY <2>2, <2>5, <2>5b, <1>3 DEF ExclusionInv, Stacks
  <2> QED BY <2>1, <2>4, <2>6 DEF KeyOf
<1> QED BY <1>5, <1>6 DEF ExclusionInv, NestedExclusion

(* Runs that die leave none that could miss its key.                       *)
LEMMA CrashStep ==
  ASSUME ExclusionInv, NEW q \in Run, Crash(q)
  PROVE  ExclusionInv'
<1> USE NestingAssumption DEF NestingAssumption
<1>0. PICK a \in Agent, n \in 1..MaxDepth : q = <<a, n>>
  BY DEF Run
<1>1. /\ n <= Depth(a)
      /\ stack' = [stack EXCEPT ![a] = SubSeq(stack[a], 1, n - 1)]
      /\ owner' = owner
      /\ cleared' = cleared \ {<<a, i>> : i \in n..MaxDepth}
      /\ want' = [want EXCEPT ![a] = NoKey]
  BY <1>0 DEF Crash, Dequeue, Live, Within
<1>2. stack[a] \in Seq(Key) /\ n \in 1..Len(stack[a]) /\ Len(stack[a]) <= MaxDepth
  BY <1>1 DEF ExclusionInv, Stacks, Depth
<1>3. /\ stack'[a] \in Seq(Key)
      /\ Len(stack'[a]) = n - 1
      /\ \A i \in 1..n - 1 : stack'[a][i] = stack[a][i]
      /\ \A b \in Agent \ {a} : stack'[b] = stack[b]
  BY <1>1, <1>2, Truncated DEF ExclusionInv, Stacks
<1>4. Stacks'
  <2>1. /\ owner' \in [Key -> Run \cup {NoRun}]
        /\ stack' \in [Agent -> Seq(Key)]
        /\ want' \in [Agent -> Key \cup {NoKey}]
    BY <1>1, <1>3 DEF ExclusionInv, Stacks
  <2>2. ASSUME NEW b \in Agent
        PROVE  Depth(b)' <= MaxDepth /\ (~Working(b)' => Depth(b)' < MaxDepth)
    <3>1. CASE b = a
      BY <3>1, <1>2, <1>3 DEF Depth
    <3>2. CASE b # a
      BY <3>2, <1>1, <1>3 DEF ExclusionInv, Stacks, Depth, Working
    <3> QED BY <3>1, <3>2
  <2> QED BY <2>1, <2>2 DEF Stacks
<1>5. ASSUME NEW r \in Run \ cleared', Live(r)'
      PROVE  owner'[KeyOf(r)'] = r
  <2>1. PICK b \in Agent, i \in 1..MaxDepth : r = <<b, i>>
    BY DEF Run
  <2>2. i <= Len(stack'[b])
    BY <2>1, <1>5 DEF Live, Depth
  <2>3. b = a => i \in 1..n - 1
    BY <2>1, <2>2, <1>2, <1>3
  <2>4. r \in Run \ cleared
    BY <2>1, <2>3, <1>1
  <2>5. stack'[b][i] = stack[b][i] /\ i <= Len(stack[b])
    <3>1. CASE b = a
      <4>1. i \in 1..n - 1 /\ Len(stack[a]) \in Nat
        BY <3>1, <2>3, <1>2
      <4>2. stack'[a][i] = stack[a][i]
        BY <4>1, <1>3
      <4>3. i <= Len(stack[a])
        BY <4>1, <1>2
      <4> QED BY <3>1, <4>2, <4>3
    <3>2. CASE b # a
      <4>1. stack'[b] = stack[b]
        BY <3>2, <1>3
      <4> QED BY <4>1, <2>2
    <3> QED BY <3>1, <3>2
  <2>6. owner[stack[b][i]] = r
    BY <2>1, <2>4, <2>5 DEF ExclusionInv, NestedExclusion, Live, KeyOf, Depth
  <2>7. KeyOf(r)' = stack'[b][i]
    BY <2>1 DEF KeyOf
  <2> QED BY <2>5, <2>6, <2>7, <1>1
<1> QED BY <1>4, <1>5 DEF ExclusionInv, NestedExclusion

(* Where stacks stay: a key that changes its owner was free, or its run is *)
(* counted as cleared from now on, or gone.                                *)
LEMMA OwnerStep ==
  ASSUME ExclusionInv, UNCHANGED stack,
         NEW k \in Key, NEW o \in Run \cup {NoRun},
         owner' = [owner EXCEPT ![k] = o],
         UNCHANGED want,
         \A r \in Run \ cleared' : Live(r) =>
           \/ KeyOf(r) # k /\ r \notin cleared
           \/ KeyOf(r) = k /\ o = r
  PROVE  ExclusionInv'
<1> USE NestingAssumption DEF NestingAssumption
<1>1. Stacks'
  BY DEF ExclusionInv, Stacks, Working, Depth
<1>2. ASSUME NEW r \in Run \ cleared', Live(r)'
      PROVE  owner'[KeyOf(r)'] = r
  <2>1. Live(r) /\ KeyOf(r)' = KeyOf(r)
    BY <1>2 DEF Live, KeyOf, Working, Depth
  <2>2. KeyOf(r) \in Key
    BY <2>1 DEF ExclusionInv, Stacks, Live, KeyOf, Run, Depth
  <2>3. CASE KeyOf(r) # k /\ r \notin cleared
    BY <2>1, <2>2, <2>3 DEF ExclusionInv, NestedExclusion, Stacks
  <2>4. CASE KeyOf(r) = k /\ o = r
    BY <2>1, <2>2, <2>4 DEF ExclusionInv, Stacks
  <2> QED BY <2>1, <2>3, <2>4
<1> QED BY <1>1, <1>2 DEF ExclusionInv, NestedExclusion

(* Every step keeps the invariant.                                         *)
LEMMA ExclusionStep == ExclusionInv /\ [Next]_vars => ExclusionInv'
<1> USE NestingAssumption DEF NestingAssumption
<1> SUFFICES ASSUME ExclusionInv, [Next]_vars PROVE ExclusionInv'
  OBVIOUS
<1>0. \A r \in Run : r # NoRun
  BY DEF Run
<1>1. ASSUME NEW a \in Agent, NEW k \in Key, TakeNow(a, k) PROVE ExclusionInv'
  <2>1. want' = [want EXCEPT ![a] = NoKey]
    BY <1>1 DEF TakeNow, Asks, Working, ExclusionInv, Stacks
  <2> QED BY <1>1, <2>1, PushStep DEF TakeNow, Asks
<1>2. ASSUME NEW a \in Agent, NEW k \in Key, NEW t \in BOOLEAN, Join(a, k, t) PROVE ExclusionInv'
  <2>1. Stacks'
    BY <1>2 DEF Join, Asks, ExclusionInv, Stacks, Working, Depth
  <2>2. NestedExclusion'
    BY <1>2 DEF Join, ExclusionInv, NestedExclusion, Live, KeyOf, Depth
  <2> QED BY <2>1, <2>2 DEF ExclusionInv
<1>3. ASSUME NEW a \in Agent, Take(a) PROVE ExclusionInv'
  <2>1. want[a] \in Key /\ Depth(a) < MaxDepth
    BY <1>3 DEF Take, Working, ExclusionInv, Stacks
  <2> QED BY <1>3, <2>1, PushStep DEF Take, Dequeue
<1>4. ASSUME NEW a \in Agent, Timeout(a) \/ Interrupt(a) PROVE ExclusionInv'
  BY <1>4 DEF Timeout, Interrupt, Dequeue, ExclusionInv, Stacks, NestedExclusion, Live, KeyOf, Working, Depth
<1>5. ASSUME NEW a \in Agent, Finish(a) PROVE ExclusionInv'
  BY <1>5, FinishStep
<1>6. ASSUME NEW r \in Run, Crash(r) PROVE ExclusionInv'
  BY <1>6, CrashStep
<1>7. ASSUME NEW r \in Run, Reclaim(r) PROVE ExclusionInv'
  <2>1. KeyOf(r) \in Key
    BY <1>7 DEF Reclaim, ExclusionInv, Stacks, Live, KeyOf, Run, Depth
  <2>2. \A q \in Run \ cleared' : Live(q) =>
           \/ KeyOf(q) # KeyOf(r) /\ q \notin cleared
           \/ KeyOf(q) = KeyOf(r) /\ r = q
    BY <1>0, <1>7 DEF Reclaim, Free, ExclusionInv, NestedExclusion
  <2> QED BY <1>7, <2>1, <2>2, OwnerStep DEF Reclaim, ExclusionInv, Stacks
<1>8. ASSUME NEW r \in Run, Lose(r) PROVE ExclusionInv'
  BY <1>8 DEF Lose, ExclusionInv, Stacks, NestedExclusion, Live, KeyOf, Working, Depth
<1>9. ASSUME NEW k \in Key, Clear(k) PROVE ExclusionInv'
  <2>1. \A q \in Run \ cleared' : Live(q) => KeyOf(q) # k /\ q \notin cleared
    BY <1>9 DEF Clear, Free, Orphan, ExclusionInv, NestedExclusion
  <2> QED BY <1>9, <2>1, OwnerStep DEF Clear, ExclusionInv, Stacks
<1>10. ASSUME NEW k \in Key, Expire(k) PROVE ExclusionInv'
  <2>1. \A q \in Run \ cleared' : Live(q) => KeyOf(q) # k /\ q \notin cleared
    BY <1>10 DEF Expire, Orphan, ExclusionInv, NestedExclusion
  <2> QED BY <1>10, <2>1, OwnerStep DEF Expire, ExclusionInv, Stacks
<1>11. CASE UNCHANGED vars
  BY <1>11 DEF vars, ExclusionInv, Stacks, NestedExclusion, Live, KeyOf, Working, Depth
<1> QED BY <1>1, <1>2, <1>3, <1>4, <1>5, <1>6, <1>7, <1>8, <1>9, <1>10, <1>11 DEF Next

(* NestedExclusion: of two runs on one key one was cleared, for any        *)
(* agents, keys and depth.                                                 *)
THEOREM ExclusionHolds == Spec => []NestedExclusion
<1> USE NestingAssumption DEF NestingAssumption
<1>1. Init => ExclusionInv
  BY DEF Init, ExclusionInv, Stacks, NestedExclusion, Live, Run, Depth
<1>2. ExclusionInv => NestedExclusion
  BY DEF ExclusionInv
<1> QED BY <1>1, <1>2, ExclusionStep, PTL DEF Spec

-----------------------------------------------------------------------------
(* The queues                                                              *)

(* A sequence without its i-th element.                                    *)
LEMMA Cut ==
  ASSUME NEW S, NEW s \in Seq(S), NEW i \in 1..Len(s)
  PROVE  /\ RemoveAt(s, i) \in Seq(S)
         /\ Len(RemoveAt(s, i)) = Len(s) - 1
         /\ \A x \in 1..i - 1 : RemoveAt(s, i)[x] = s[x]
         /\ \A x \in i..Len(s) - 1 : RemoveAt(s, i)[x] = s[x + 1]
<1> DEFINE u == SubSeq(s, 1, i - 1)
           v == SubSeq(s, i + 1, Len(s))
<1>1. Len(s) \in Nat /\ i \in Int
  OBVIOUS
<1>2. /\ u \in Seq(S) /\ Len(u) = i - 1
      /\ \A x \in 1..i - 1 : u[x] = s[x]
  BY <1>1
<1>3. /\ v \in Seq(S) /\ Len(v) = Len(s) - i
      /\ \A x \in 1..Len(s) - i : v[x] = s[x + i]
  BY <1>1
<1> HIDE DEF u, v
<1>4. /\ u \o v \in Seq(S) /\ Len(u \o v) = Len(u) + Len(v)
      /\ \A x \in 1..Len(u) + Len(v) :
           (u \o v)[x] = IF x <= Len(u) THEN u[x] ELSE v[x - Len(u)]
  BY <1>2, <1>3, ConcatProperties
<1>5. RemoveAt(s, i) = u \o v
  BY DEF RemoveAt, u, v
<1>6. ASSUME NEW x \in i..Len(s) - 1 PROVE (u \o v)[x] = s[x + 1]
  <2>1. /\ x \in 1..Len(u) + Len(v) /\ ~(x <= Len(u))
        /\ x - Len(u) \in 1..Len(s) - i /\ x - Len(u) + i = x + 1
    BY <1>1, <1>2, <1>3
  <2> QED BY <2>1, <1>3, <1>4
<1>7. ASSUME NEW x \in 1..i - 1 PROVE (u \o v)[x] = s[x]
  <2>1. x \in 1..Len(u) + Len(v) /\ x <= Len(u)
    BY <1>1, <1>2, <1>3
  <2> QED BY <2>1, <1>2, <1>4
<1>8. Len(u) + Len(v) = Len(s) - 1
  BY <1>1, <1>2, <1>3
<1> QED BY <1>4, <1>5, <1>6, <1>7, <1>8

(* Where nothing occurs twice, removing an element removes it altogether.  *)
LEMMA Removed ==
  ASSUME NEW S, NEW s \in Seq(S), IsInjective(s), NEW e
  PROVE  /\ RemoveFirst(s, e) \in Seq(S)
         /\ ToSet(RemoveFirst(s, e)) = ToSet(s) \ {e}
         /\ IsInjective(RemoveFirst(s, e))
<1>1. CASE ~ \E i \in 1..Len(s) : s[i] = e
  BY <1>1 DEF RemoveFirst, ToSet
<1>2. ASSUME NEW i \in 1..Len(s), s[i] = e PROVE RemoveFirst(s, e) = RemoveAt(s, i)
  <2> DEFINE I == {x \in 1..Len(s) : s[x] = e}
  <2>1. I = {i}
    BY <1>2 DEF IsInjective
  <2>2. Min({i}) = i
    BY DEF Min
  <2>3. SelectInSeq(s, LAMBDA v : v = e) = i
    BY <2>1, <2>2 DEF SelectInSeq
  <2> QED BY <1>2, <2>3 DEF RemoveFirst
<1>3. ASSUME NEW i \in 1..Len(s), s[i] = e
      PROVE  /\ RemoveAt(s, i) \in Seq(S)
             /\ ToSet(RemoveAt(s, i)) = ToSet(s) \ {e}
             /\ IsInjective(RemoveAt(s, i))
  <2> DEFINE t == RemoveAt(s, i)
  <2>0. /\ t \in Seq(S)
        /\ Len(t) = Len(s) - 1
        /\ \A x \in 1..i - 1 : t[x] = s[x]
        /\ \A x \in i..Len(s) - 1 : t[x] = s[x + 1]
    BY Cut
  <2> HIDE DEF t
  <2>1. /\ DOMAIN t = 1..Len(s) - 1 /\ DOMAIN s = 1..Len(s)
        /\ Len(s) \in Nat /\ i \in Int
    BY <2>0
  <2>2. \A x \in DOMAIN t : t[x] = IF x < i THEN s[x] ELSE s[x + 1]
    BY <2>0, <2>1
  <2>3. \A x, y \in 1..Len(s) : s[x] = s[y] => x = y
    BY <2>1 DEF IsInjective
  <2>4. IsInjective(t)
    <3> SUFFICES ASSUME NEW x \in DOMAIN t, NEW y \in DOMAIN t, t[x] = t[y] PROVE x = y
      BY DEF IsInjective
    <3> QED BY <2>1, <2>2, <2>3
  <2>5. ASSUME NEW x \in DOMAIN t PROVE t[x] \in ToSet(s) \ {e}
    BY <1>3, <2>1, <2>2, <2>3 DEF ToSet
  <2>6. ASSUME NEW y \in DOMAIN s, s[y] # e PROVE \E x \in DOMAIN t : t[x] = s[y]
    <3>1. CASE y < i
      BY <3>1, <2>1, <2>2
    <3>2. CASE y > i
      <4>1. y - 1 \in DOMAIN t /\ t[y - 1] = s[y]
        BY <3>2, <2>1, <2>2
      <4> QED BY <4>1
    <3>3. CASE y = i
      BY <3>3, <1>3, <2>6
    <3> QED BY <3>1, <3>2, <3>3, <2>1
  <2>7. ToSet(t) = ToSet(s) \ {e}
    BY <2>5, <2>6 DEF ToSet
  <2> QED BY <2>0, <2>4, <2>7 DEF t
<1> QED BY <1>1, <1>2, <1>3

(* What the steps do to the queues: each waiter has its one entry.         *)
OneEntry(k) ==
  /\ queue[k] \in Seq(Agent)
  /\ ToSet(queue[k]) = {a \in Agent : want[a] = k}
  /\ IsInjective(queue[k])

Queues ==
  /\ queue \in [Key -> Seq(Agent)]
  /\ \A k \in Key : OneEntry(k)

(* Who has a deadline waits.                                               *)
Deadlines == timed \subseteq {a \in Agent : ~Working(a)}

TypeInv ==
  /\ Stacks
  /\ Queues
  /\ Deadlines
  /\ lost \in SUBSET Run
  /\ cleared \in SUBSET Run

(* A wait ends, by the lease or without it: its entry goes, no other.      *)
LEMMA DequeueStep ==
  ASSUME Stacks, Queues, NEW a \in Agent, Dequeue(a)
  PROVE  Queues'
<1>1. /\ want' = [want EXCEPT ![a] = NoKey]
      /\ queue' = [k \in Key |-> RemoveFirst(queue[k], a)]
  BY DEF Dequeue
<1>2. ASSUME NEW k \in Key PROVE OneEntry(k)'
  <2>1. OneEntry(k) /\ queue'[k] = RemoveFirst(queue[k], a)
    BY <1>1 DEF Queues
  <2>2. /\ queue'[k] \in Seq(Agent)
        /\ ToSet(queue'[k]) = ToSet(queue[k]) \ {a}
        /\ IsInjective(queue'[k])
    BY <2>1, Removed DEF OneEntry
  <2>3. {b \in Agent : want'[b] = k} = {b \in Agent : want[b] = k} \ {a}
    BY <1>1, NestingAssumption DEF NestingAssumption, Stacks
  <2> QED BY <2>1, <2>2, <2>3 DEF OneEntry
<1>3. queue' \in [Key -> Seq(Agent)]
  BY <1>1, <1>2 DEF OneEntry
<1> QED BY <1>2, <1>3 DEF Queues

(* A wait begins at the end of the queue, with an entry it had not.        *)
LEMMA JoinStep ==
  ASSUME Stacks, Queues, NEW a \in Agent, NEW k \in Key, NEW d \in BOOLEAN, Join(a, k, d)
  PROVE  Queues'
<1>1. /\ want' = [want EXCEPT ![a] = k]
      /\ queue' = [queue EXCEPT ![k] = Append(queue[k], a)]
      /\ want[a] = NoKey
  BY DEF Join, Asks, Working
<1>2. OneEntry(k) /\ a \notin ToSet(queue[k])
  BY <1>1, NestingAssumption DEF NestingAssumption, Queues, OneEntry
<1> DEFINE s == queue[k]
           t == Append(s, a)
<1>3. /\ t \in Seq(Agent)
      /\ DOMAIN s = 1..Len(s) /\ DOMAIN t = 1..Len(s) + 1 /\ Len(s) \in Nat
      /\ t[Len(s) + 1] = a /\ \A i \in 1..Len(s) : t[i] = s[i]
  BY <1>2 DEF OneEntry
<1> HIDE DEF t
<1>4. \A i \in 1..Len(s) : s[i] # a
  BY <1>2, <1>3 DEF ToSet
<1>5. IsInjective(t)
  BY <1>2, <1>3, <1>4 DEF OneEntry, IsInjective
<1>6. ToSet(t) = ToSet(s) \cup {a}
  BY <1>3 DEF ToSet
<1>7. ASSUME NEW j \in Key PROVE OneEntry(j)'
  <2>1. CASE j = k
    <3>1. queue'[k] = t
      BY <1>1 DEF Queues, t
    <3>2. {b \in Agent : want'[b] = k} = {b \in Agent : want[b] = k} \cup {a}
      BY <1>1 DEF Stacks
    <3> QED BY <2>1, <3>1, <3>2, <1>2, <1>3, <1>5, <1>6 DEF OneEntry
  <2>2. CASE j # k
    <3>1. queue'[j] = queue[j] /\ OneEntry(j)
      BY <2>2, <1>1 DEF Queues
    <3>2. {b \in Agent : want'[b] = j} = {b \in Agent : want[b] = j}
      BY <2>2, <1>1, NestingAssumption DEF NestingAssumption, Stacks
    <3> QED BY <3>1, <3>2 DEF OneEntry
  <2> QED BY <2>1, <2>2
<1>8. queue' \in [Key -> Seq(Agent)]
  BY <1>1, <1>3 DEF Queues, t
<1> QED BY <1>7, <1>8 DEF Queues

(* The other steps touch no queue.                                         *)
LEMMA QueuesSame ==
  ASSUME Queues, Deadlines, UNCHANGED <<queue, want, timed>>
  PROVE  Queues' /\ Deadlines'
BY DEF Queues, OneEntry, Deadlines, Working

(* A deadline ends with its wait, and comes with one.                      *)
LEMMA TimedStep ==
  ASSUME Stacks, Deadlines, NEW a \in Agent,
         \/ Dequeue(a)
         \/ \E k \in Key, t \in BOOLEAN : Join(a, k, t)
         \/ UNCHANGED <<want, timed>>
  PROVE  Deadlines'
<1> USE NestingAssumption DEF NestingAssumption
<1>1. CASE Dequeue(a)
  BY <1>1 DEF Dequeue, Deadlines, Working, Stacks
<1>2. ASSUME NEW k \in Key, NEW t \in BOOLEAN, Join(a, k, t) PROVE Deadlines'
  BY <1>2 DEF Join, Deadlines, Working, Stacks
<1>3. CASE UNCHANGED <<want, timed>>
  BY <1>3 DEF Deadlines, Working
<1> QED BY <1>1, <1>2, <1>3

-----------------------------------------------------------------------------
(* Types                                                                   *)

LEMMA TypeStep ==
  ASSUME TypeInv, ExclusionInv, [Next]_vars
  PROVE  TypeInv'
<1> USE NestingAssumption DEF NestingAssumption
<1>0. Stacks' /\ Stacks /\ Queues /\ Deadlines /\ lost \in SUBSET Run /\ cleared \in SUBSET Run
  BY ExclusionStep DEF ExclusionInv, TypeInv
<1>1. ASSUME NEW a \in Agent, NEW k \in Key, TakeNow(a, k) PROVE TypeInv'
  BY <1>0, <1>1, QueuesSame DEF TakeNow, Push, TypeInv
<1>2. ASSUME NEW a \in Agent, NEW k \in Key, NEW t \in BOOLEAN, Join(a, k, t) PROVE TypeInv'
  BY <1>0, <1>2, JoinStep, TimedStep DEF Join, TypeInv
<1>3. ASSUME NEW a \in Agent, Take(a) PROVE TypeInv'
  BY <1>0, <1>3, DequeueStep, TimedStep DEF Take, Push, TypeInv
<1>4. ASSUME NEW a \in Agent, Timeout(a) \/ Interrupt(a) PROVE TypeInv'
  BY <1>0, <1>4, DequeueStep, TimedStep DEF Timeout, Interrupt, TypeInv
<1>5. ASSUME NEW a \in Agent, Finish(a) PROVE TypeInv'
  BY <1>0, <1>5, QueuesSame DEF Finish, TypeInv
<1>6. ASSUME NEW r \in Run, Crash(r) PROVE TypeInv'
  <2>1. r[1] \in Agent
    BY DEF Run
  <2> QED BY <1>0, <1>6, <2>1, DequeueStep, TimedStep DEF Crash, TypeInv
<1>7. ASSUME NEW r \in Run, Reclaim(r) \/ Lose(r) PROVE TypeInv'
  BY <1>0, <1>7, QueuesSame DEF Reclaim, Lose, TypeInv
<1>8. ASSUME NEW k \in Key, Clear(k) PROVE TypeInv'
  <2>1. owner[k] \in Run
    BY <1>0, <1>8 DEF Clear, Free, Stacks
  <2> QED BY <1>0, <1>8, <2>1, QueuesSame DEF Clear, TypeInv
<1>9. ASSUME NEW k \in Key, Expire(k) PROVE TypeInv'
  BY <1>0, <1>9, QueuesSame DEF Expire, TypeInv
<1>10. CASE UNCHANGED vars
  BY <1>0, <1>10, QueuesSame DEF vars, TypeInv
<1> QED BY <1>1, <1>2, <1>3, <1>4, <1>5, <1>6, <1>7, <1>8, <1>9, <1>10 DEF Next

(* Types and exclusion hold together.                                      *)
LEMMA NestingInvariant == Spec => [](TypeInv /\ ExclusionInv)
<1> USE NestingAssumption DEF NestingAssumption
<1>1. ASSUME Init PROVE TypeInv /\ ExclusionInv
  <2>1. ExclusionInv
    BY <1>1 DEF Init, ExclusionInv, Stacks, NestedExclusion, Live, Run, Depth
  <2>2. ASSUME NEW k \in Key PROVE OneEntry(k)
    <3>1. queue[k] = <<>> /\ \A a \in Agent : want[a] # k
      BY <1>1 DEF Init
    <3> QED BY <3>1 DEF OneEntry, ToSet, IsInjective
  <2>3. Queues
    BY <1>1, <2>2 DEF Init, Queues
  <2>4. Deadlines
    BY <1>1 DEF Init, Deadlines
  <2> QED BY <1>1, <2>1, <2>3, <2>4 DEF Init, TypeInv, ExclusionInv
<1>2. TypeInv /\ ExclusionInv /\ [Next]_vars => (TypeInv /\ ExclusionInv)'
  BY TypeStep, ExclusionStep
<1> QED BY <1>1, <1>2, PTL DEF Spec

(* TypeOK: the types of a store of nested runs, and one queue entry for    *)
(* each waiter and for nobody else, for any agents, keys and depth.        *)
THEOREM TypeCorrect == Spec => []TypeOK
<1>1. TypeInv => TypeOK
  BY DEF TypeInv, Stacks, Queues, OneEntry, Deadlines, TypeOK
<1> QED BY <1>1, NestingInvariant, PTL

-----------------------------------------------------------------------------
(* Circles of waiters                                                      *)

(* A careful agent without a deadline waits for a key above all those of   *)
(* its runs: for its innermost key it is refused.                          *)
Climbs ==
  \A a \in Ordered \ timed :
    ~Working(a) => \A i \in 1..Depth(a) : stack[a][i] < want[a]

LEMMA ClimbsStep ==
  ASSUME Stacks, Climbs, [Next]_vars
  PROVE  Climbs'
<1> SUFFICES ASSUME NEW a \in Ordered \ timed', ~Working(a)'
             PROVE  \A i \in 1..Depth(a)' : stack'[a][i] < want'[a]
  BY DEF Climbs
<1>0. a \in Agent /\ want'[a] # NoKey
  BY NestingAssumption DEF NestingAssumption, Working
<1>1. CASE stack'[a] = stack[a] /\ want'[a] = want[a] /\ a \notin timed
  BY <1>1 DEF Climbs, Depth, Working
<1>2. ASSUME NEW k \in Key, NEW t \in BOOLEAN, Join(a, k, t)
      PROVE  \A i \in 1..Depth(a)' : stack'[a][i] < want'[a]
  <2>1. stack' = stack /\ want'[a] = k
    BY <1>0, <1>2 DEF Join, Stacks
  <2>2. ~t
    BY <1>2 DEF Join
  <2>3. \A i \in 1..Depth(a) : stack[a][i] < k
    BY <1>2, <2>2 DEF Join, UpTheOrder, Refused
  <2> QED BY <2>1, <2>3 DEF Depth
<1>3. \/ stack'[a] = stack[a] /\ want'[a] = want[a] /\ a \notin timed
      \/ \E k \in Key, t \in BOOLEAN : Join(a, k, t)
  <2>1. ASSUME NEW b \in Agent, NEW k \in Key, TakeNow(b, k)
        PROVE  <1>3!1
    BY <1>0, <2>1 DEF TakeNow, Asks, Push, Working, Stacks
  <2>1a. ASSUME NEW b \in Agent, NEW k \in Key, NEW t \in BOOLEAN, Join(b, k, t)
        PROVE  <1>3!2 \/ <1>3!1
    BY <1>0, <2>1a DEF Join, Stacks
  <2>2. ASSUME NEW b \in Agent,
               \/ Take(b) \/ Timeout(b) \/ Interrupt(b)
               \/ \E n \in 1..MaxDepth : Crash(<<b, n>>)
        PROVE  <1>3!1
    <3>1. want' = [want EXCEPT ![b] = NoKey] /\ timed' = timed \ {b}
      BY <2>2 DEF Take, Timeout, Interrupt, Crash, Dequeue
    <3>2. b # a
      BY <1>0, <3>1 DEF Stacks
    <3> QED BY <1>0, <2>2, <3>1, <3>2 DEF Take, Push, Timeout, Interrupt, Crash, Stacks
  <2>3. ASSUME NEW b \in Agent, Finish(b) PROVE <1>3!1
    BY <1>0, <2>3 DEF Finish, Working, Stacks
  <2>3a. ASSUME NEW r \in Run, Crash(r) PROVE <1>3!1
    BY <2>2, <2>3a DEF Run
  <2>4. ASSUME NEW r \in Run, Reclaim(r) \/ Lose(r) PROVE <1>3!1
    BY <2>4 DEF Reclaim, Lose
  <2>5. ASSUME NEW k \in Key, Clear(k) \/ Expire(k) PROVE <1>3!1
    BY <2>5 DEF Clear, Expire
  <2>6. CASE UNCHANGED vars
    BY <2>6 DEF vars
  <2> QED BY <2>1, <2>1a, <2>2, <2>3, <2>3a, <2>4, <2>5, <2>6 DEF Next
<1> QED BY <1>1, <1>2, <1>3

(* Among finitely many agents that wait, one waits for a highest key: the  *)
(* agents above one, if there are any, are fewer than those above another. *)
LEMMA Highest ==
  ASSUME NEW C, IsFiniteSet(C), C # {}, NEW f \in [C -> Nat]
  PROVE  \E a \in C : \A b \in C : f[b] <= f[a]
<1> DEFINE Above(a) == {b \in C : f[b] > f[a]}
           T == {Above(a) : a \in C}
<1>1. T \subseteq FiniteSubsetsOf(C) /\ T # {}
  <2>1. FiniteSubsetsOf(C) = SUBSET C
    BY FS_FiniteSubsetsOfFinite
  <2>2. T \subseteq SUBSET C
    OBVIOUS
  <2>3. T # {}
    <3>1. PICK a \in C : TRUE
      OBVIOUS
    <3>2. Above(a) \in T
      OBVIOUS
    <3> QED BY <3>2
  <2> QED BY <2>1, <2>2, <2>3
<1>2. PICK x \in T : \A y \in T : ~(<<y, x>> \in StrictSubsetOrdering(C))
  BY <1>1, WFMin, FS_StrictSubsetOrderingWellFounded
<1>3. PICK a \in C : x = Above(a)
  BY <1>2
<1>4. ASSUME NEW b \in C, ~(f[b] <= f[a]) PROVE FALSE
  <2>1. b \in x /\ b \notin Above(b) /\ Above(b) \subseteq x /\ x \subseteq C
    BY <1>3, <1>4
  <2>2. <<Above(b), x>> \in StrictSubsetOrdering(C)
    BY <2>1 DEF StrictSubsetOrdering
  <2> QED BY <1>2, <2>2
<1> QED BY <1>4

(* NoCircle: agents that wait up one order, or with a deadline, never wait *)
(* for each other in a circle, however many they are, and whatever is      *)
(* cleared, reclaimed or killed.                                           *)
THEOREM NobodyInACircle ==
  ASSUME IsFiniteSet(Agent), Agent \subseteq Ordered
  PROVE  Spec => []NoCircle
<1> USE NestingAssumption DEF NestingAssumption
<1>1. Init => Climbs
  BY DEF Init, Climbs, Working
<1>2. TypeInv /\ ExclusionInv /\ Climbs /\ [Next]_vars => Climbs'
  BY ClimbsStep DEF ExclusionInv
<1>3. ASSUME TypeInv, Climbs, NEW C \in SUBSET (Agent \ timed), C # {},
             \A a \in C : BlockedBy(a, C)
      PROVE  FALSE
  <2>1. IsFiniteSet(C) /\ C \subseteq Ordered \ timed /\ C \subseteq Agent
    BY <1>3, FS_Subset
  <2>2. \A a \in C : want[a] \in Key /\ ~Working(a)
    BY <1>3, <2>1 DEF BlockedBy, Working, TypeInv, Stacks
  <2> DEFINE f == [a \in C |-> want[a]]
  <2>3. f \in [C -> Nat]
    BY <2>2
  <2>4. PICK a \in C : \A b \in C : f[b] <= f[a]
    BY <1>3, <2>1, <2>3, Highest
  <2>5. PICK b \in C, i \in 1..MaxDepth :
          owner[want[a]] = <<b, i>> /\ i <= Depth(b) /\ stack[b][i] = want[a]
    <3>1. BlockedBy(a, C) /\ want[a] \in Key
      BY <1>3, <2>2
    <3>2. owner[want[a]] \in Run
      BY <3>1, <1>3 DEF BlockedBy, Free, TypeInv, Stacks
    <3> QED BY <3>1, <3>2 DEF BlockedBy, Orphan, Live, KeyOf, Run
  <2>6. Depth(b) \in Nat
    BY <1>3, <2>1 DEF TypeInv, Stacks, Depth
  <2>7. want[a] < want[b]
    BY <1>3, <2>1, <2>2, <2>5, <2>6 DEF Climbs
  <2>8. want[b] <= want[a]
    BY <2>4
  <2>9. want[a] \in Nat /\ want[b] \in Nat
    BY <2>2
  <2> QED BY <2>7, <2>8, <2>9
<1>4. TypeInv /\ Climbs => NoCircle
  BY <1>3 DEF NoCircle
<1> QED BY <1>1, <1>2, <1>4, NestingInvariant, PTL DEF Spec
=============================================================================
