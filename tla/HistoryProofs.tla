--------------------------- MODULE HistoryProofs ---------------------------
(***************************************************************************)
(* The lease with its changelog is the lease; and what the log says of it  *)
(* is the truth, for any sessions and any number of leases and renewals.   *)
(***************************************************************************)
EXTENDS History, LeaseProofs

(* Rows are only written for leases that exist.                            *)
HistoryInv ==
  /\ TypeOK
  /\ HistoryTypeOK
  /\ owner # NoProc => made > 0

(* The rows of a longer list.                                              *)
LEMMA Appended ==
  ASSUME NEW s \in Seq(Row), NEW e \in Row
  PROVE  /\ Append(s, e) \in Seq(Row)
         /\ Len(Append(s, e)) = Len(s) + 1
         /\ Append(s, e)[Len(s) + 1] = e
         /\ \A i \in 1..Len(s) : Append(s, e)[i] = s[i]
         /\ ToSet(Append(s, e)) = ToSet(s) \cup {e}
<1>1. /\ Append(s, e) \in Seq(Row)
      /\ Len(Append(s, e)) = Len(s) + 1
      /\ Append(s, e)[Len(s) + 1] = e
      /\ \A i \in 1..Len(s) : Append(s, e)[i] = s[i]
      /\ Len(s) \in Nat
  OBVIOUS
<1>2. /\ DOMAIN Append(s, e) = 1..(Len(s) + 1)
      /\ DOMAIN s = 1..Len(s)
  BY <1>1
<1>3. 1..(Len(s) + 1) = (1..Len(s)) \cup {Len(s) + 1}
  BY <1>1
<1>4. ASSUME NEW r PROVE r \in ToSet(Append(s, e)) <=> r \in ToSet(s) \/ r = e
  <2>1. r \in ToSet(Append(s, e)) <=> \E i \in 1..(Len(s) + 1) : r = Append(s, e)[i]
    BY <1>2 DEF ToSet
  <2>2. r \in ToSet(s) <=> \E i \in 1..Len(s) : r = s[i]
    BY <1>2 DEF ToSet
  <2>3. (\E i \in 1..(Len(s) + 1) : r = Append(s, e)[i])
           <=> (\E i \in 1..Len(s) : r = Append(s, e)[i]) \/ r = Append(s, e)[Len(s) + 1]
    BY <1>3, Zenon
  <2>4. (\E i \in 1..Len(s) : r = Append(s, e)[i]) <=> (\E i \in 1..Len(s) : r = s[i])
    BY <1>1
  <2> QED BY <2>1, <2>2, <2>3, <2>4, <1>1
<1> QED BY <1>1, <1>4

(* A list is its head and the rest.                                        *)
LEMMA HeadAndTail ==
  ASSUME NEW s \in Seq(Row), s # <<>>
  PROVE  /\ Head(s) \in Row
         /\ Tail(s) \in Seq(Row)
         /\ Len(s) \in Nat \ {0}
         /\ Len(Tail(s)) = Len(s) - 1
         /\ Head(s) = s[1]
         /\ \A i \in 1..Len(s) - 1 : Tail(s)[i] = s[i + 1]
         /\ ToSet(s) = {Head(s)} \cup ToSet(Tail(s))
<1>1. /\ Head(s) \in Row
      /\ Tail(s) \in Seq(Row)
      /\ Len(s) \in Nat \ {0}
      /\ Len(Tail(s)) = Len(s) - 1
      /\ Head(s) = s[1]
      /\ \A i \in 1..Len(s) - 1 : Tail(s)[i] = s[i + 1]
  OBVIOUS
<1>2. /\ DOMAIN Tail(s) = 1..(Len(s) - 1)
      /\ DOMAIN s = 1..Len(s)
  BY <1>1
<1>3. ASSUME NEW r PROVE r \in ToSet(s) <=> r = Head(s) \/ r \in ToSet(Tail(s))
  <2>1. r \in ToSet(s) <=> \E i \in 1..Len(s) : r = s[i]
    BY <1>2 DEF ToSet
  <2>2. r \in ToSet(Tail(s)) <=> \E i \in 1..(Len(s) - 1) : r = s[i + 1]
    BY <1>1, <1>2 DEF ToSet
  <2>3. (\E i \in 1..Len(s) : r = s[i])
           <=> r = s[1] \/ \E i \in 1..(Len(s) - 1) : r = s[i + 1]
    <3>1. ASSUME NEW i \in 1..Len(s), r = s[i]
          PROVE  r = s[1] \/ \E j \in 1..(Len(s) - 1) : r = s[j + 1]
      <4>1. CASE i = 1
        BY <3>1, <4>1
      <4>2. CASE i # 1
        <5>1. i - 1 \in 1..(Len(s) - 1) /\ (i - 1) + 1 = i
          BY <4>2, <1>1
        <5> QED BY <5>1, <3>1
      <4> QED BY <4>1, <4>2
    <3>2. ASSUME NEW i \in 1..(Len(s) - 1), r = s[i + 1]
          PROVE  \E j \in 1..Len(s) : r = s[j]
      <4>1. i + 1 \in 1..Len(s)
        BY <1>1
      <4> QED BY <4>1, <3>2
    <3>3. 1 \in 1..Len(s)
      BY <1>1
    <3> QED BY <3>1, <3>2, <3>3, Zenon
  <2> QED BY <2>1, <2>2, <2>3, <1>1
<1> QED BY <1>1, <1>3

(* A list of none, one or two rows.                                        *)
LEMMA ShortLists ==
  /\ <<>> \in Seq(Row)
  /\ ToSet(<<>>) = {}
  /\ \A e \in Row : <<e>> \in Seq(Row) /\ ToSet(<<e>>) = {e}
<1>1. ToSet(<<>>) = {}
  BY DEF ToSet
<1>2. ASSUME NEW e \in Row PROVE <<e>> \in Seq(Row) /\ ToSet(<<e>>) = {e}
  <2>1. DOMAIN <<e>> = 1..1 /\ <<e>>[1] = e
    OBVIOUS
  <2> QED BY <2>1 DEF ToSet
<1> QED BY <1>1, <1>2

(* What there is to write when a key is taken.                             *)
LEMMA TakenRows ==
  ASSUME HistoryInv, made < MaxLease
  PROVE  /\ Displaced \in Seq(Row)
         /\ Append(Displaced, About("acquired", made + 1)) \in Seq(Row)
         /\ ToSet(Append(Displaced, About("acquired", made + 1)))
              = {r \in {About("expired", made)} : owner # NoProc}
                \cup {About("acquired", made + 1)}
<1> USE HistoryAssumption DEF HistoryAssumption, HistoryInv
<1>1. made \in Nat /\ made + 1 \in 1..MaxLease
  BY DEF HistoryTypeOK
<1>2. About("acquired", made + 1) \in Row
  BY <1>1 DEF About, Row
<1>3. CASE owner # NoProc
  <2>1. About("expired", made) \in Row
    BY <1>1, <1>3 DEF About, Row, Endings
  <2>2. Displaced = <<About("expired", made)>>
    BY <1>3 DEF Displaced
  <2>3. Displaced \in Seq(Row) /\ ToSet(Displaced) = {About("expired", made)}
    BY <2>1, <2>2, ShortLists
  <2>4. {r \in {About("expired", made)} : owner # NoProc} = {About("expired", made)}
    BY <1>3
  <2> QED BY <1>2, <2>3, <2>4, Appended
<1>4. CASE owner = NoProc
  <2>1. Displaced = <<>>
    BY <1>4 DEF Displaced
  <2>2. Displaced \in Seq(Row) /\ ToSet(Displaced) = {}
    BY <2>1, ShortLists
  <2>3. {r \in {About("expired", made)} : owner # NoProc} = {}
    BY <1>4
  <2> QED BY <1>2, <2>2, <2>3, Appended
<1> QED BY <1>3, <1>4

(* Every step of the whole is one of the lease, or none of it.             *)
LEMMA LeaseStep == [HistoryNext]_<<vars, historyVars>> => [Next]_vars
<1> SUFFICES ASSUME HistoryNext, ~UNCHANGED vars PROVE Next
  BY DEF vars, historyVars
<1>1. ASSUME NEW p \in Proc,
             TakeTold(p) \/ RenewTold(p) \/ GrantTold(p) \/ ForgetTold(p) \/ ReleaseTold(p)
      PROVE  Next
  BY <1>1 DEF TakeTold, RenewTold, GrantTold, ForgetTold, ReleaseTold, Next
<1>2. CASE OverrideTold
  BY <1>2 DEF OverrideTold, Next
<1>3. CASE ReapTold
  BY <1>3 DEF ReapTold, Next
<1>4. ASSUME NEW x \in Actor, Record(x) \/ Miss(x) PROVE UNCHANGED vars
  BY <1>4 DEF Record, Miss
<1>5. CASE Tick
  BY <1>5 DEF Next
<1> QED BY <1>1, <1>2, <1>3, <1>4, <1>5 DEF HistoryNext

(* The changelog does not disturb the lease.                               *)
THEOREM HistoryImplementsLease == HistorySpec => Spec
<1>1. HistoryInit => Init
  BY DEF HistoryInit
<1> QED BY <1>1, LeaseStep, PTL DEF HistorySpec, Spec

(* So it excludes.                                                         *)
THEOREM HistoryExcludes == HistorySpec => []Exclusion
  BY HistoryImplementsLease, ExclusionHolds, PTL

-----------------------------------------------------------------------------
(* Rows on their way                                                       *)

(* A row is written, on its way or lost.                                   *)
LEMMA WhereRowsAre ==
  ASSUME NEW r
  PROVE  r \in Rows <=> \/ r \in ToSet(log)
                       \/ r \in missed
                       \/ \E x \in Actor : r \in ToSet(todo[x])
  BY DEF Rows

(* What a call owes joins the rows, and nothing else changes among them.   *)
LEMMA OweStep ==
  ASSUME HistoryTypeOK, NEW x \in Actor, NEW rows \in Seq(Row), Owe(x, rows)
  PROVE  /\ todo' \in [Actor -> Seq(Row)]
         /\ todo[x] = <<>>
         /\ todo'[x] = rows
         /\ \A y \in Actor \ {x} : todo'[y] = todo[y]
         /\ log' = log /\ missed' = missed
         /\ \A r : r \in Rows' <=> r \in Rows \/ r \in ToSet(rows)
<1>1. /\ todo' \in [Actor -> Seq(Row)]
      /\ todo[x] = <<>>
      /\ todo'[x] = rows
      /\ \A y \in Actor \ {x} : todo'[y] = todo[y]
      /\ log' = log /\ missed' = missed
  BY DEF Owe, HistoryTypeOK
<1>2. ASSUME NEW r PROVE r \in Rows' <=> r \in Rows \/ r \in ToSet(rows)
  <2>1. r \in Rows' <=> \/ r \in ToSet(log)
                       \/ r \in missed
                       \/ \E y \in Actor : r \in ToSet(todo'[y])
    BY <1>1 DEF Rows
  <2>2. r \in Rows <=> \/ r \in ToSet(log)
                      \/ r \in missed
                      \/ \E y \in Actor : r \in ToSet(todo[y])
    BY WhereRowsAre
  <2>3. r \notin ToSet(todo[x])
    BY <1>1, ShortLists
  <2> QED BY <1>1, <2>1, <2>2, <2>3
<1> QED BY <1>1, <1>2

(* A row that is written or lost is still a row.                           *)
LEMMA RecordStep ==
  ASSUME HistoryTypeOK, NEW x \in Actor, Record(x) \/ Miss(x)
  PROVE  /\ todo[x] # <<>>
         /\ todo' = [todo EXCEPT ![x] = Tail(todo[x])]
         /\ todo' \in [Actor -> Seq(Row)]
         /\ todo'[x] = Tail(todo[x])
         /\ \A y \in Actor \ {x} : todo'[y] = todo[y]
         /\ log' \in Seq(Row) /\ missed' \in SUBSET Row
         /\ \A r : r \in Rows' <=> r \in Rows
         /\ ToSet(log) \cup missed \subseteq (ToSet(log) \cup missed)'
         /\ \A r \in ToSet(todo[x]) :
              r \in ToSet(todo'[x]) \/ r \in (ToSet(log) \cup missed)'
         /\ UNCHANGED <<vars, made, renewals>>
<1>1. /\ todo[x] # <<>>
      /\ todo[x] \in Seq(Row)
      /\ todo' = [todo EXCEPT ![x] = Tail(todo[x])]
      /\ UNCHANGED <<vars, made, renewals>>
  BY DEF Record, Miss, HistoryTypeOK
<1>2. /\ Head(todo[x]) \in Row
      /\ Tail(todo[x]) \in Seq(Row)
      /\ ToSet(todo[x]) = {Head(todo[x])} \cup ToSet(Tail(todo[x]))
  BY <1>1, HeadAndTail
<1>3. /\ todo' \in [Actor -> Seq(Row)]
      /\ todo'[x] = Tail(todo[x])
      /\ \A y \in Actor \ {x} : todo'[y] = todo[y]
  BY <1>1, <1>2 DEF HistoryTypeOK
<1>4. /\ log' \in Seq(Row) /\ missed' \in SUBSET Row
      /\ \A r : r \in ToSet(log') \/ r \in missed'
               <=> r \in ToSet(log) \/ r \in missed \/ r = Head(todo[x])
  <2>1. CASE Record(x)
    <3>1. log' = Append(log, Head(todo[x])) /\ missed' = missed /\ log \in Seq(Row)
      BY <2>1 DEF Record, HistoryTypeOK
    <3>2. log' \in Seq(Row) /\ ToSet(log') = ToSet(log) \cup {Head(todo[x])}
      BY <3>1, <1>2, Appended
    <3> QED BY <3>1, <3>2 DEF HistoryTypeOK
  <2>2. CASE Miss(x)
    BY <2>2, <1>2 DEF Miss, HistoryTypeOK
  <2> QED BY <2>1, <2>2
<1>5. ASSUME NEW r PROVE r \in Rows' <=> r \in Rows
  <2>1. r \in Rows' <=> \/ r \in ToSet(log') \/ r \in missed'
                       \/ \E y \in Actor : r \in ToSet(todo'[y])
    BY DEF Rows
  <2>2. r \in Rows <=> \/ r \in ToSet(log) \/ r \in missed
                      \/ \E y \in Actor : r \in ToSet(todo[y])
    BY WhereRowsAre
  <2>3. (\E y \in Actor : r \in ToSet(todo[y]))
           <=> r = Head(todo[x]) \/ \E y \in Actor : r \in ToSet(todo'[y])
    BY <1>2, <1>3
  <2> QED BY <1>4, <2>1, <2>2, <2>3
<1> QED BY <1>1, <1>2, <1>3, <1>4, <1>5

(* A session that dies leaves its rows among the lost.                     *)
LEMMA ForgetStep ==
  ASSUME HistoryTypeOK, NEW p \in Proc, ForgetTold(p)
  PROVE  /\ todo' \in [Actor -> Seq(Row)]
         /\ todo'[p] = <<>>
         /\ \A y \in Actor \ {p} : todo'[y] = todo[y]
         /\ missed' = missed \cup ToSet(todo[p])
         /\ missed' \in SUBSET Row
         /\ UNCHANGED <<made, renewals, log>>
         /\ \A r : r \in Rows' <=> r \in Rows
<1>1. p \in Actor
  BY DEF Actor
<1>2. /\ missed' = missed \cup ToSet(todo[p])
      /\ UNCHANGED <<made, renewals, log>>
      /\ todo' = [todo EXCEPT ![p] = <<>>]
  BY DEF ForgetTold
<1>3. /\ todo' \in [Actor -> Seq(Row)]
      /\ todo'[p] = <<>>
      /\ \A y \in Actor \ {p} : todo'[y] = todo[y]
  BY <1>1, <1>2 DEF HistoryTypeOK
<1>4. ToSet(todo[p]) \subseteq Row
  <2>1. todo[p] \in Seq(Row)
    BY <1>1 DEF HistoryTypeOK
  <2> QED BY <2>1 DEF ToSet
<1>5. missed' \in SUBSET Row
  BY <1>2, <1>4 DEF HistoryTypeOK
<1>6. ASSUME NEW r PROVE r \in Rows' <=> r \in Rows
  <2>1. r \in Rows' <=> \/ r \in ToSet(log) \/ r \in missed'
                       \/ \E y \in Actor : r \in ToSet(todo'[y])
    BY <1>2 DEF Rows
  <2>2. r \in Rows <=> \/ r \in ToSet(log) \/ r \in missed
                      \/ \E y \in Actor : r \in ToSet(todo[y])
    BY WhereRowsAre
  <2>3. r \notin ToSet(<<>>)
    BY ShortLists
  <2> QED BY <1>1, <1>2, <1>3, <2>1, <2>2, <2>3
<1> QED BY <1>2, <1>3, <1>5, <1>6

-----------------------------------------------------------------------------
(* Types                                                                   *)

(* What each call owes, as rows about the last lease.                      *)
LEMMA OwedRows ==
  ASSUME HistoryInv, owner # NoProc, NEW e \in Endings \cup {"acquired", "renewed"}
  PROVE  /\ About(e, made) \in Row
         /\ <<About(e, made)>> \in Seq(Row)
         /\ ToSet(<<About(e, made)>>) = {About(e, made)}
<1>1. About(e, made) \in Row
  BY HistoryAssumption
     DEF HistoryAssumption, HistoryInv, HistoryTypeOK, Row, About
<1> QED BY <1>1, ShortLists

(* Rows are about leases that were made, and an owner means there was one. *)
LEMMA HistoryInvStep ==
  ASSUME HistoryInv, TypeOK', [HistoryNext]_<<vars, historyVars>>
  PROVE  HistoryInv'
<1> USE HistoryAssumption DEF HistoryAssumption
<1>0. HistoryTypeOK /\ made \in Nat /\ \A p \in Proc : p \in Actor /\ p # NoProc
  BY LeaseAssumption DEF LeaseAssumption, HistoryInv, HistoryTypeOK, Actor
<1>1. ASSUME NEW p \in Proc, TakeTold(p) PROVE HistoryInv'
  <2>1. made < MaxLease /\ made' = made + 1 /\ renewals' = renewals
    BY <1>1 DEF TakeTold
  <2>2. /\ Append(Displaced, About("acquired", made + 1)) \in Seq(Row)
        /\ Owe(p, Append(Displaced, About("acquired", made + 1)))
    BY <1>1, <2>1, TakenRows DEF TakeTold
  <2>3. /\ todo' \in [Actor -> Seq(Row)]
        /\ log' = log /\ missed' = missed
    BY <1>0, <2>2, OweStep
  <2> QED BY <1>0, <2>1, <2>3 DEF HistoryInv, HistoryTypeOK
<1>2. ASSUME NEW p \in Proc, RenewTold(p) PROVE HistoryInv'
  <2>1. /\ owner # NoProc /\ owner' = owner
        /\ renewals < MaxRenew /\ renewals' = renewals + 1
        /\ made' = made
        /\ Owe(p, <<About("renewed", made)>>)
    BY <1>0, <1>2 DEF RenewTold, Renew
  <2>2. <<About("renewed", made)>> \in Seq(Row)
    BY <2>1, OwedRows
  <2>3. todo' \in [Actor -> Seq(Row)] /\ log' = log /\ missed' = missed
    BY <1>0, <2>1, <2>2, OweStep
  <2> QED BY <1>0, <2>1, <2>3 DEF HistoryInv, HistoryTypeOK
<1>3. ASSUME NEW p \in Proc, GrantTold(p) PROVE HistoryInv'
  BY <1>3 DEF GrantTold, Grant, historyVars, HistoryInv, HistoryTypeOK
<1>4. ASSUME NEW p \in Proc, ForgetTold(p) PROVE HistoryInv'
  <2>1. owner' = owner
    BY <1>4 DEF ForgetTold, Forget
  <2>2. /\ todo' \in [Actor -> Seq(Row)] /\ missed' \in SUBSET Row
        /\ UNCHANGED <<made, renewals, log>>
    BY <1>0, <1>4, ForgetStep
  <2> QED BY <2>1, <2>2 DEF HistoryInv, HistoryTypeOK
<1>5. ASSUME NEW x \in Actor, NEW e \in Endings,
             owner # NoProc, owner' = NoProc, made' = made, renewals' = renewals,
             Owe(x, <<About(e, made)>>)
      PROVE  HistoryInv'
  <2>1. <<About(e, made)>> \in Seq(Row)
    BY <1>5, OwedRows
  <2>2. todo' \in [Actor -> Seq(Row)] /\ log' = log /\ missed' = missed
    BY <1>0, <1>5, <2>1, OweStep
  <2> QED BY <1>0, <1>5, <2>2 DEF HistoryInv, HistoryTypeOK
<1>6. ASSUME NEW p \in Proc, ReleaseTold(p) PROVE HistoryInv'
  BY <1>0, <1>5, <1>6 DEF ReleaseTold, Release, Endings
<1>7. CASE OverrideTold
  BY <1>5, <1>7 DEF OverrideTold, Override, Endings, Actor
<1>8. CASE ReapTold
  BY <1>5, <1>8 DEF ReapTold, Reap, Endings, Actor
<1>9. ASSUME NEW x \in Actor, Record(x) \/ Miss(x) PROVE HistoryInv'
  <2>1. /\ todo' \in [Actor -> Seq(Row)]
        /\ log' \in Seq(Row) /\ missed' \in SUBSET Row
        /\ UNCHANGED <<vars, made, renewals>>
    BY <1>0, <1>9, RecordStep
  <2> QED BY <2>1 DEF HistoryInv, HistoryTypeOK, vars
<1>10. CASE Tick /\ UNCHANGED historyVars
  BY <1>10 DEF Tick, historyVars, HistoryInv, HistoryTypeOK
<1>11. CASE UNCHANGED <<vars, historyVars>>
  BY <1>11 DEF vars, historyVars, HistoryInv, HistoryTypeOK
<1> QED BY <1>1, <1>2, <1>3, <1>4, <1>6, <1>7, <1>8, <1>9, <1>10, <1>11 DEF HistoryNext

(* So it is in every state.                                                *)
LEMMA HistoryInvHolds == HistorySpec => []HistoryInv
<1>1. HistoryInit /\ TypeOK => HistoryInv
  <2> SUFFICES ASSUME HistoryInit, TypeOK PROVE HistoryInv
    OBVIOUS
  <2>1. todo \in [Actor -> Seq(Row)] /\ log \in Seq(Row)
    BY ShortLists DEF HistoryInit
  <2> QED BY <2>1, HistoryAssumption
          DEF HistoryAssumption, HistoryInit, Init, HistoryInv, HistoryTypeOK
<1>2. HistoryInv /\ TypeOK' /\ [HistoryNext]_<<vars, historyVars>> => HistoryInv'
  BY HistoryInvStep
<1>3. HistorySpec => []TypeOK
  BY HistoryImplementsLease, TypeCorrect, PTL
<1> QED BY <1>1, <1>2, <1>3, PTL DEF HistorySpec

(* The variables of the changelog keep their types.                        *)
THEOREM HistoryTypeCorrect == HistorySpec => []HistoryTypeOK
<1>1. HistoryInv => HistoryTypeOK
  BY DEF HistoryInv
<1> QED BY <1>1, HistoryInvHolds, PTL

-----------------------------------------------------------------------------
(* The truth of the log                                                    *)

(* No row is about a lease that is still to come.                          *)
AccountInv ==
  /\ HistoryInv
  /\ Accounted
  /\ \A r \in Rows : r.lease <= made

(* Rows have their type.                                                   *)
LEMMA RowsTyped ==
  ASSUME HistoryTypeOK
  PROVE  \A r \in Rows : r \in Row
<1>1. \A s \in Seq(Row) : \A r \in ToSet(s) : r \in Row
  BY DEF ToSet
<1> QED BY <1>1, WhereRowsAre DEF HistoryTypeOK

(* A lease is over, for the record.                                        *)
LEMMA EndingStep ==
  ASSUME AccountInv, HistoryInv', NEW e \in Endings,
         owner # NoProc, owner' = NoProc, made' = made,
         \A r : r \in Rows' <=> r \in Rows \/ r = About(e, made)
  PROVE  AccountInv'
<1>1. made \in Nat
  BY HistoryAssumption DEF HistoryAssumption, AccountInv, HistoryInv, HistoryTypeOK
<1>2. Accounted'
  <2> SUFFICES ASSUME NEW l \in 1..made
               PROVE  /\ About("acquired", l) \in Rows'
                      /\ \E d \in Endings : About(d, l) \in Rows'
    BY <1>1 DEF Accounted
  <2>1. About("acquired", l) \in Rows'
    BY DEF AccountInv, Accounted
  <2>2. CASE l = made
    BY <2>1, <2>2
  <2>3. CASE l < made
    BY <2>1, <2>3 DEF AccountInv, Accounted
  <2> QED BY <1>1, <2>1, <2>2, <2>3
<1>3. \A r \in Rows' : r.lease <= made'
  BY <1>1 DEF AccountInv, About
<1> QED BY <1>2, <1>3 DEF AccountInv

(* Nothing begins and nothing ends: other rows do not disturb the account. *)
LEMMA OtherStep ==
  ASSUME AccountInv, HistoryInv',
         (owner' = NoProc) <=> (owner = NoProc), made' = made,
         Rows \subseteq Rows',
         \A r \in Rows' : r \in Rows \/ r = About("renewed", made)
  PROVE  AccountInv'
<1>1. made \in Nat
  BY HistoryAssumption DEF HistoryAssumption, AccountInv, HistoryInv, HistoryTypeOK
<1>2. ASSUME NEW l \in 1..made, NEW e \in Endings \cup {"acquired"}
      PROVE  About(e, l) \in Rows' <=> About(e, l) \in Rows
  <2>1. About(e, l) # About("renewed", made)
    BY DEF About, Endings
  <2> QED BY <2>1
<1>3. Accounted'
  BY <1>2 DEF AccountInv, Accounted
<1>4. \A r \in Rows' : r.lease <= made'
  BY <1>1 DEF AccountInv, About
<1> QED BY <1>3, <1>4 DEF AccountInv

(* A new lease: whichever was there before it has its ending now.          *)
LEMMA TakingStep ==
  ASSUME AccountInv, HistoryInv', NEW p \in Proc, TakeTold(p)
  PROVE  AccountInv'
<1> DEFINE displaced == {r \in {About("expired", made)} : owner # NoProc}
<1>1. /\ made \in Nat /\ made < MaxLease /\ made' = made + 1
      /\ owner' = p /\ p # NoProc /\ p \in Actor
      /\ HistoryTypeOK /\ HistoryInv
      /\ owner # NoProc => made > 0
  BY HistoryAssumption, LeaseAssumption
     DEF HistoryAssumption, LeaseAssumption, AccountInv, HistoryInv, HistoryTypeOK,
         TakeTold, Take, Actor
<1>2. \A r : r \in Rows' <=> r \in Rows \/ r \in displaced \/ r = About("acquired", made + 1)
  <2>1. Owe(p, Append(Displaced, About("acquired", made + 1)))
    BY DEF TakeTold
  <2>2. /\ Append(Displaced, About("acquired", made + 1)) \in Seq(Row)
        /\ ToSet(Append(Displaced, About("acquired", made + 1)))
             = displaced \cup {About("acquired", made + 1)}
    BY <1>1, TakenRows
  <2> HIDE DEF displaced
  <2> QED BY <1>1, <2>1, <2>2, OweStep
<1>3. \A r \in Rows : r.lease <= made
  BY DEF AccountInv
<1>4. ASSUME NEW e PROVE About(e, made + 1) \in Rows' => e = "acquired"
  <2>1. About(e, made + 1) \notin Rows
    BY <1>1, <1>3 DEF About
  <2>2. About(e, made + 1) \notin displaced
    BY <1>1 DEF About
  <2> QED BY <1>2, <2>1, <2>2 DEF About
<1>5. Accounted'
  <2> SUFFICES ASSUME NEW l \in 1..made + 1
               PROVE  /\ About("acquired", l) \in Rows'
                      /\ (\E e \in Endings : About(e, l) \in Rows') <=> l < made + 1
    BY <1>1 DEF Accounted
  <2>1. CASE l = made + 1
    BY <1>2, <1>4, <2>1 DEF Endings
  <2>2. CASE l < made
    <3>1. /\ About("acquired", l) \in Rows
          /\ \E e \in Endings : About(e, l) \in Rows
      BY <1>1, <2>2 DEF AccountInv, Accounted
    <3> QED BY <1>1, <1>2, <2>2, <3>1
  <2>3. CASE l = made
    <3>1. /\ About("acquired", l) \in Rows
          /\ owner = NoProc => \E e \in Endings : About(e, l) \in Rows
      BY <1>1, <2>3 DEF AccountInv, Accounted
    <3>2. owner # NoProc => About("expired", l) \in Rows'
      BY <1>2, <2>3
    <3>3. "expired" \in Endings
      BY DEF Endings
    <3> QED BY <1>1, <1>2, <2>3, <3>1, <3>2, <3>3
  <2> QED BY <1>1, <2>1, <2>2, <2>3
<1>6. \A r \in Rows' : r.lease <= made'
  <2>1. \A r \in Rows : r.lease \in Nat
    BY <1>1, RowsTyped DEF Row
  <2>2. About("expired", made).lease = made /\ About("acquired", made + 1).lease = made + 1
    BY DEF About
  <2> QED BY <1>1, <1>2, <1>3, <2>1, <2>2
<1> QED BY <1>5, <1>6 DEF AccountInv

(* All steps keep the account.                                             *)
LEMMA AccountStep ==
  ASSUME AccountInv, HistoryInv', [HistoryNext]_<<vars, historyVars>>
  PROVE  AccountInv'
<1>0. /\ HistoryInv /\ HistoryTypeOK
      /\ \A p \in Proc : p \in Actor /\ p # NoProc
      /\ Operator \in Actor /\ Pruner \in Actor
      /\ {"released", "force-released", "expired"} \subseteq Endings
  BY LeaseAssumption DEF LeaseAssumption, AccountInv, HistoryInv, Actor, Endings
<1>1. ASSUME NEW x \in Actor, NEW e \in Endings,
             owner # NoProc, owner' = NoProc, made' = made, Owe(x, <<About(e, made)>>)
      PROVE  AccountInv'
  <2>1. /\ <<About(e, made)>> \in Seq(Row)
        /\ ToSet(<<About(e, made)>>) = {About(e, made)}
    BY <1>0, <1>1, OwedRows
  <2>2. \A r : r \in Rows' <=> r \in Rows \/ r = About(e, made)
    BY <1>0, <1>1, <2>1, OweStep
  <2> QED BY <1>1, <2>2, EndingStep
<1>2. ASSUME UNCHANGED <<made, todo, log, missed>>, (owner' = NoProc) <=> (owner = NoProc)
      PROVE  AccountInv'
  <2>1. Rows' = Rows
    BY <1>2 DEF Rows
  <2> QED BY <1>2, <2>1, OtherStep
<1>3. ASSUME NEW p \in Proc, TakeTold(p) PROVE AccountInv'
  BY <1>3, TakingStep
<1>4. ASSUME NEW p \in Proc, RenewTold(p) PROVE AccountInv'
  <2>1. /\ owner # NoProc /\ owner' = owner /\ made' = made
        /\ Owe(p, <<About("renewed", made)>>)
    BY <1>0, <1>4 DEF RenewTold, Renew
  <2>2. /\ <<About("renewed", made)>> \in Seq(Row)
        /\ ToSet(<<About("renewed", made)>>) = {About("renewed", made)}
    BY <1>0, <2>1, OwedRows
  <2>3. \A r : r \in Rows' <=> r \in Rows \/ r = About("renewed", made)
    BY <1>0, <2>1, <2>2, OweStep
  <2> QED BY <2>1, <2>3, OtherStep
<1>5. ASSUME NEW p \in Proc, GrantTold(p) PROVE AccountInv'
  BY <1>2, <1>5 DEF GrantTold, Grant, historyVars
<1>6. ASSUME NEW p \in Proc, ForgetTold(p) PROVE AccountInv'
  <2>1. \A r : r \in Rows' <=> r \in Rows
    BY <1>0, <1>6, ForgetStep
  <2>2. owner' = owner /\ made' = made
    BY <1>6 DEF ForgetTold, Forget
  <2> QED BY <2>1, <2>2, OtherStep
<1>7. ASSUME NEW p \in Proc, ReleaseTold(p) PROVE AccountInv'
  BY <1>0, <1>1, <1>7 DEF ReleaseTold, Release
<1>8. CASE OverrideTold
  BY <1>0, <1>1, <1>8 DEF OverrideTold, Override
<1>9. CASE ReapTold
  BY <1>0, <1>1, <1>9 DEF ReapTold, Reap
<1>10. ASSUME NEW x \in Actor, Record(x) \/ Miss(x) PROVE AccountInv'
  <2>1. /\ \A r : r \in Rows' <=> r \in Rows
        /\ UNCHANGED <<vars, made>>
    BY <1>0, <1>10, RecordStep
  <2>2. owner' = owner /\ made' = made
    BY <2>1 DEF vars
  <2> QED BY <2>1, <2>2, OtherStep
<1>11. CASE Tick /\ UNCHANGED historyVars
  BY <1>2, <1>11 DEF Tick, historyVars
<1>12. CASE UNCHANGED <<vars, historyVars>>
  BY <1>2, <1>12 DEF vars, historyVars
<1> QED BY <1>3, <1>4, <1>5, <1>6, <1>7, <1>8, <1>9, <1>10, <1>11, <1>12 DEF HistoryNext

(* So the account holds in every state.                                    *)
LEMMA AccountInvHolds == HistorySpec => []AccountInv
<1>1. HistoryInit /\ HistoryInv => AccountInv
  <2> SUFFICES ASSUME HistoryInit, HistoryInv PROVE AccountInv
    OBVIOUS
  <2>1. \A r : r \notin Rows
    BY ShortLists, WhereRowsAre DEF HistoryInit
  <2> QED BY <2>1 DEF HistoryInit, AccountInv, Accounted
<1>2. AccountInv /\ HistoryInv' /\ [HistoryNext]_<<vars, historyVars>> => AccountInv'
  BY AccountStep
<1> QED BY <1>1, <1>2, HistoryInvHolds, PTL DEF HistorySpec

(* The account of the leases is complete and says nothing that is not so,  *)
(* whoever dies, whatever the database refuses and however late rows are.  *)
THEOREM EverythingAccounted == HistorySpec => []Accounted
<1>1. AccountInv => Accounted
  BY DEF AccountInv
<1> QED BY <1>1, AccountInvHolds, PTL

-----------------------------------------------------------------------------
(* Who was told is on record                                               *)

Noted == ToSet(log) \cup missed

(* The lease on record has its row, if only in its owner's hands.          *)
ToldInv ==
  /\ HistoryInv
  /\ ClaimsRecorded
  /\ owner # NoProc => About("acquired", made) \in Noted \cup ToSet(todo[owner])
  /\ ToldIsRecorded

(* Whoever was told before needs no new row.                               *)
LEMMA StillTold ==
  ASSUME ToldInv, made' = made, Noted \subseteq Noted',
         \A p \in Proc \ cleared' : grant'[p] > 0 => p \notin cleared /\ grant[p] > 0
  PROVE  ToldIsRecorded'
  BY DEF ToldInv, ToldIsRecorded, Noted

(* All steps keep the lease's row where it can be found.                   *)
LEMMA ToldStep ==
  ASSUME ToldInv, HistoryInv', ClaimsRecorded', [HistoryNext]_<<vars, historyVars>>
  PROVE  ToldInv'
<1>0. /\ HistoryInv /\ HistoryTypeOK /\ TypeOK
      /\ \A p \in Proc : p \in Actor /\ p # NoProc
      /\ owner # NoProc => owner \in Proc
      /\ left \in Nat /\ \A p \in Proc : grant[p] \in Nat
      /\ Operator \notin Proc /\ Pruner \notin Proc
      /\ Operator \in Actor /\ Pruner \in Actor
  BY LeaseAssumption, HistoryAssumption
     DEF LeaseAssumption, HistoryAssumption, ToldInv, HistoryInv, TypeOK, Actor
<1>1. ASSUME owner' = NoProc, made' = made, log' = log, missed' = missed,
             \A p \in Proc \ cleared' : grant'[p] > 0 => p \notin cleared /\ grant[p] > 0
      PROVE  ToldInv'
  <2>1. Noted \subseteq Noted'
    BY <1>1 DEF Noted
  <2> QED BY <1>1, <2>1, StillTold DEF ToldInv
<1>2. ASSUME UNCHANGED <<owner, made, todo, log, missed>>,
             \A p \in Proc \ cleared' : grant'[p] > 0 => p \notin cleared /\ grant[p] > 0
      PROVE  ToldInv'
  <2>1. Noted' = Noted
    BY <1>2 DEF Noted
  <2>2. ToldIsRecorded'
    BY <1>2, <2>1, StillTold
  <2> QED BY <1>2, <2>1, <2>2 DEF ToldInv
<1>3. ASSUME NEW p \in Proc, TakeTold(p) PROVE ToldInv'
  <2>1. /\ owner' = p /\ made' = made + 1 /\ left = 0 /\ made < MaxLease
        /\ grant' = grant /\ cleared' = cleared
        /\ Owe(p, Append(Displaced, About("acquired", made + 1)))
    BY <1>3 DEF TakeTold, Take
  <2>2. ToldIsRecorded'
    <3>1. \A q \in Proc \ cleared : ~(grant[q] > 0)
      BY <1>0, <2>1 DEF ToldInv, ClaimsRecorded, Claim
    <3> QED BY <2>1, <3>1 DEF ToldIsRecorded
  <2>3. /\ Append(Displaced, About("acquired", made + 1)) \in Seq(Row)
        /\ About("acquired", made + 1)
             \in ToSet(Append(Displaced, About("acquired", made + 1)))
    BY <1>0, <2>1, TakenRows
  <2>4. todo'[p] = Append(Displaced, About("acquired", made + 1))
    BY <1>0, <2>1, <2>3, OweStep
  <2> QED BY <2>1, <2>2, <2>3, <2>4 DEF ToldInv
<1>4. ASSUME NEW p \in Proc, RenewTold(p) PROVE ToldInv'
  <2>1. /\ owner = p /\ owner # NoProc /\ made' = made /\ owner' = owner
        /\ grant' = grant /\ cleared' = cleared
        /\ Owe(p, <<About("renewed", made)>>)
    BY <1>0, <1>4 DEF RenewTold, Renew
  <2>2. <<About("renewed", made)>> \in Seq(Row)
    BY <1>0, <2>1, OwedRows
  <2>3. todo[p] = <<>> /\ log' = log /\ missed' = missed
    BY <1>0, <2>1, <2>2, OweStep
  <2>4. About("acquired", made) \in Noted /\ Noted' = Noted
    BY <2>1, <2>3, ShortLists DEF ToldInv, Noted
  <2>5. ToldIsRecorded'
    BY <2>1, <2>4, StillTold
  <2> QED BY <2>1, <2>4, <2>5 DEF ToldInv, About
<1>5. ASSUME NEW p \in Proc, GrantTold(p) PROVE ToldInv'
  <2>1. /\ owner = p /\ owner # NoProc /\ todo[p] = <<>>
        /\ UNCHANGED <<owner, made, todo, log, missed>>
        /\ cleared' = cleared \ {p}
        /\ \A q \in Proc \ {p} : grant'[q] = grant[q]
    BY <1>0, <1>5 DEF GrantTold, Returned, Grant, historyVars, TypeOK
  <2>2. About("acquired", made) \in Noted /\ Noted' = Noted
    BY <2>1, ShortLists DEF ToldInv, Noted
  <2>3. ToldIsRecorded'
    <3> SUFFICES ASSUME NEW q \in Proc \ cleared', grant'[q] > 0
                 PROVE  About("acquired", made) \in Noted
      BY <2>1 DEF ToldIsRecorded, Noted
    <3>1. CASE q = p
      BY <2>2
    <3>2. CASE q # p
      BY <2>1, <3>2 DEF ToldInv, ToldIsRecorded, Noted
    <3> QED BY <3>1, <3>2
  <2> QED BY <2>1, <2>2, <2>3 DEF ToldInv, About
<1>6. ASSUME NEW p \in Proc, ForgetTold(p) PROVE ToldInv'
  <2>1. /\ owner' = owner /\ made' = made
        /\ cleared' = cleared \ {p}
        /\ grant' = [grant EXCEPT ![p] = 0]
    BY <1>6 DEF ForgetTold, Forget
  <2>2. /\ \A y \in Actor \ {p} : todo'[y] = todo[y]
        /\ missed' = missed \cup ToSet(todo[p])
        /\ log' = log
    BY <1>0, <1>6, ForgetStep
  <2>3. Noted \subseteq Noted' /\ ToSet(todo[p]) \subseteq Noted'
    BY <2>2 DEF Noted
  <2>4. \A q \in Proc \ cleared' : grant'[q] > 0 => q \notin cleared /\ grant[q] > 0
    BY <1>0, <2>1 DEF TypeOK
  <2>5. ToldIsRecorded'
    BY <2>1, <2>3, <2>4, StillTold
  <2>6. owner # NoProc => About("acquired", made) \in Noted' \cup ToSet(todo'[owner])
    BY <1>0, <2>2, <2>3 DEF ToldInv
  <2> QED BY <2>1, <2>5, <2>6 DEF ToldInv, About
<1>7. ASSUME NEW p \in Proc, ReleaseTold(p) PROVE ToldInv'
  <2>1. /\ owner' = NoProc /\ made' = made /\ log' = log /\ missed' = missed
        /\ cleared' = cleared \ {p}
        /\ grant' = [grant EXCEPT ![p] = 0]
    BY <1>7 DEF ReleaseTold, Release, Owe
  <2>2. \A q \in Proc \ cleared' : grant'[q] > 0 => q \notin cleared /\ grant[q] > 0
    BY <1>0, <2>1 DEF TypeOK
  <2> QED BY <1>1, <2>1, <2>2
<1>8. CASE OverrideTold
  <2>1. /\ owner' = NoProc /\ made' = made /\ log' = log /\ missed' = missed
        /\ cleared \subseteq cleared' /\ grant' = grant
    BY <1>8 DEF OverrideTold, Override, Owe
  <2> QED BY <1>1, <2>1
<1>9. CASE ReapTold
  <2>1. /\ owner' = NoProc /\ made' = made /\ log' = log /\ missed' = missed
        /\ cleared' = cleared /\ grant' = grant
    BY <1>9 DEF ReapTold, Reap, Owe
  <2> QED BY <1>1, <2>1
<1>10. ASSUME NEW x \in Actor, Record(x) \/ Miss(x) PROVE ToldInv'
  <2>1. /\ \A y \in Actor \ {x} : todo'[y] = todo[y]
        /\ ToSet(log) \cup missed \subseteq (ToSet(log) \cup missed)'
        /\ \A r \in ToSet(todo[x]) :
             r \in ToSet(todo'[x]) \/ r \in (ToSet(log) \cup missed)'
        /\ UNCHANGED <<vars, made>>
    BY <1>0, <1>10, RecordStep
  <2>2. UNCHANGED <<owner, made, grant, cleared>>
    BY <2>1 DEF vars
  <2>3. Noted \subseteq Noted'
    BY <2>1 DEF Noted
  <2>4. ToldIsRecorded'
    BY <2>2, <2>3, StillTold
  <2>5. owner # NoProc => About("acquired", made) \in Noted' \cup ToSet(todo'[owner])
    <3> SUFFICES ASSUME owner # NoProc
                 PROVE  About("acquired", made) \in Noted' \cup ToSet(todo'[owner])
      OBVIOUS
    <3>1. About("acquired", made) \in Noted \cup ToSet(todo[owner]) /\ owner \in Actor
      BY <1>0 DEF ToldInv
    <3>2. CASE owner = x
      BY <2>1, <2>3, <3>1, <3>2 DEF Noted
    <3>3. CASE owner # x
      BY <2>1, <2>3, <3>1, <3>3
    <3> QED BY <3>2, <3>3
  <2> QED BY <2>2, <2>4, <2>5 DEF ToldInv, About
<1>11. CASE Tick /\ UNCHANGED historyVars
  <2>1. /\ UNCHANGED <<owner, made, todo, log, missed, cleared>>
        /\ \A p \in Proc : grant'[p] = Countdown(grant[p])
    BY <1>11 DEF Tick, historyVars
  <2>2. \A p \in Proc : grant'[p] > 0 => grant[p] > 0
    BY <1>0, <2>1 DEF Countdown
  <2> QED BY <1>2, <2>1, <2>2
<1>12. CASE UNCHANGED <<vars, historyVars>>
  BY <1>2, <1>12 DEF vars, historyVars
<1> QED BY <1>3, <1>4, <1>5, <1>6, <1>7, <1>8, <1>9, <1>10, <1>11, <1>12 DEF HistoryNext

(* A session that may rely on a lease is in the log, unless a row was      *)
(* lost: recording comes before the call returns.                          *)
THEOREM ToldAreRecorded == HistorySpec => []ToldIsRecorded
<1>1. HistoryInit /\ HistoryInv /\ ClaimsRecorded => ToldInv
  BY DEF HistoryInit, Init, ToldInv, ToldIsRecorded
<1>2. ToldInv /\ HistoryInv' /\ ClaimsRecorded' /\ [HistoryNext]_<<vars, historyVars>>
        => ToldInv'
  BY ToldStep
<1>3. ToldInv => ToldIsRecorded
  BY DEF ToldInv
<1>4. HistorySpec => []ClaimsRecorded
  BY HistoryImplementsLease, ClaimsAreRecorded, PTL
<1> QED BY <1>1, <1>2, <1>3, <1>4, HistoryInvHolds, PTL DEF HistorySpec

-----------------------------------------------------------------------------
(* One ending per lease                                                    *)

Clash(r, q) == r.lease = q.lease /\ r.event \in Endings /\ q.event \in Endings

Single(s) == \A i, j \in DOMAIN s : Clash(s[i], s[j]) => i = j

Apart(s, t) == \A r \in ToSet(s), q \in ToSet(t) : ~Clash(r, q)

(* No two lists have an ending of the same lease, and no list has two.     *)
OnceInv ==
  /\ AccountInv
  /\ Single(log)
  /\ \A x \in Actor : Single(todo[x]) /\ Apart(log, todo[x])
  /\ \A x, y \in Actor : x # y => Apart(todo[x], todo[y])

(* A row that clashes with none may be added.                              *)
LEMMA SingleAppend ==
  ASSUME NEW s \in Seq(Row), NEW e \in Row, Single(s),
         \A r \in ToSet(s) : ~Clash(r, e)
  PROVE  Single(Append(s, e))
<1>1. /\ Len(s) \in Nat
      /\ DOMAIN Append(s, e) = 1..(Len(s) + 1)
      /\ DOMAIN s = 1..Len(s)
      /\ Append(s, e)[Len(s) + 1] = e
      /\ \A i \in 1..Len(s) : Append(s, e)[i] = s[i]
  OBVIOUS
<1>2. \A i \in 1..Len(s) : ~Clash(s[i], e) /\ ~Clash(e, s[i])
  BY <1>1 DEF ToSet, Clash
<1> SUFFICES ASSUME NEW i \in 1..(Len(s) + 1), NEW j \in 1..(Len(s) + 1),
                    Clash(Append(s, e)[i], Append(s, e)[j])
             PROVE  i = j
  BY <1>1 DEF Single
<1>3. CASE i \in 1..Len(s) /\ j \in 1..Len(s)
  BY <1>1, <1>3 DEF Single
<1>4. CASE i \in 1..Len(s) /\ j = Len(s) + 1
  BY <1>1, <1>2, <1>4
<1>5. CASE i = Len(s) + 1 /\ j \in 1..Len(s)
  BY <1>1, <1>2, <1>5
<1>6. CASE i = Len(s) + 1 /\ j = Len(s) + 1
  BY <1>6
<1> QED BY <1>1, <1>3, <1>4, <1>5, <1>6

(* The first row may be taken away, and clashes with none of the rest.     *)
LEMMA SingleTail ==
  ASSUME NEW s \in Seq(Row), s # <<>>, Single(s)
  PROVE  Single(Tail(s)) /\ \A r \in ToSet(Tail(s)) : ~Clash(Head(s), r)
<1>1. /\ Len(s) \in Nat \ {0}
      /\ DOMAIN Tail(s) = 1..(Len(s) - 1)
      /\ DOMAIN s = 1..Len(s)
      /\ Head(s) = s[1]
      /\ \A i \in 1..(Len(s) - 1) : Tail(s)[i] = s[i + 1]
  OBVIOUS
<1>2. \A i \in 1..(Len(s) - 1) : i + 1 \in DOMAIN s /\ 1 \in DOMAIN s /\ i + 1 # 1
  BY <1>1
<1>3. ASSUME NEW i \in 1..(Len(s) - 1), NEW j \in 1..(Len(s) - 1),
             Clash(Tail(s)[i], Tail(s)[j])
      PROVE  i = j
  <2>1. Clash(s[i + 1], s[j + 1])
    BY <1>1, <1>3
  <2>2. i + 1 = j + 1
    BY <1>2, <2>1 DEF Single
  <2> QED BY <2>2
<1>4. ASSUME NEW i \in 1..(Len(s) - 1) PROVE ~Clash(Head(s), Tail(s)[i])
  BY <1>1, <1>2 DEF Single
<1>5. Single(Tail(s))
  BY <1>1, <1>3 DEF Single
<1>6. \A r \in ToSet(Tail(s)) : ~Clash(Head(s), r)
  BY <1>1, <1>4 DEF ToSet
<1> QED BY <1>5, <1>6

(* What a call adds about a lease that has no ending keeps endings single. *)
LEMMA OnceOwed ==
  ASSUME OnceInv, AccountInv', NEW x \in Actor, NEW rows \in Seq(Row), Owe(x, rows),
         Single(rows),
         \A r \in Rows, q \in ToSet(rows) : ~Clash(r, q)
  PROVE  OnceInv'
<1>0. HistoryTypeOK
  BY DEF OnceInv, AccountInv, HistoryInv
<1>1. /\ todo'[x] = rows
      /\ \A y \in Actor \ {x} : todo'[y] = todo[y]
      /\ log' = log
  BY <1>0, OweStep
<1>2. /\ \A r \in ToSet(log) : r \in Rows
      /\ \A y \in Actor : \A r \in ToSet(todo[y]) : r \in Rows
  BY WhereRowsAre
<1>3. /\ \A r \in Rows, q \in ToSet(rows) : ~Clash(r, q)
      /\ \A r \in Rows, q \in ToSet(rows) : ~Clash(q, r)
  BY DEF Clash
<1>4. \A y \in Actor : Single(todo'[y]) /\ Apart(log, todo'[y])
  BY <1>1, <1>2, <1>3 DEF OnceInv, Apart
<1>5. \A y, z \in Actor : y # z => Apart(todo'[y], todo'[z])
  BY <1>1, <1>2, <1>3 DEF OnceInv, Apart
<1> QED BY <1>1, <1>4, <1>5 DEF OnceInv

(* A row goes from one list to the log or is lost.                         *)
LEMMA OnceMoved ==
  ASSUME OnceInv, AccountInv', NEW x \in Actor, Record(x) \/ Miss(x)
  PROVE  OnceInv'
<1>0. HistoryTypeOK
  BY DEF OnceInv, AccountInv, HistoryInv
<1>1. /\ todo[x] # <<>>
      /\ todo'[x] = Tail(todo[x])
      /\ \A y \in Actor \ {x} : todo'[y] = todo[y]
  BY <1>0, RecordStep
<1>2. todo[x] \in Seq(Row) /\ log \in Seq(Row)
  BY <1>0 DEF HistoryTypeOK
<1>3. /\ Head(todo[x]) \in Row
      /\ ToSet(todo[x]) = {Head(todo[x])} \cup ToSet(Tail(todo[x]))
  BY <1>1, <1>2, HeadAndTail
<1>4. /\ Single(Tail(todo[x]))
      /\ \A r \in ToSet(Tail(todo[x])) : ~Clash(Head(todo[x]), r)
  BY <1>1, <1>2, SingleTail DEF OnceInv
<1>5. \A y, z \in Actor : y # z => Apart(todo'[y], todo'[z])
  BY <1>1, <1>3 DEF OnceInv, Apart
<1>6. \A y \in Actor : Apart(log, todo'[y])
  BY <1>1, <1>3 DEF OnceInv, Apart
<1>7. \A y \in Actor : Single(todo'[y])
  BY <1>1, <1>4 DEF OnceInv
<1>8. CASE Miss(x)
  BY <1>5, <1>6, <1>7, <1>8 DEF Miss, OnceInv
<1>9. CASE Record(x)
  <2>1. log' = Append(log, Head(todo[x]))
    BY <1>9 DEF Record
  <2>2. ToSet(log') = ToSet(log) \cup {Head(todo[x])}
    BY <2>1, <1>2, <1>3, Appended
  <2>3. \A r \in ToSet(log) : ~Clash(r, Head(todo[x]))
    BY <1>3 DEF OnceInv, Apart
  <2>4. Single(log')
    BY <2>1, <2>3, <1>2, <1>3, SingleAppend DEF OnceInv
  <2>5. \A y \in Actor : \A q \in ToSet(todo'[y]) : ~Clash(Head(todo[x]), q)
    BY <1>1, <1>3, <1>4 DEF OnceInv, Apart
  <2>6. \A y \in Actor : Apart(log', todo'[y])
    BY <1>6, <2>2, <2>5 DEF Apart
  <2> QED BY <1>5, <1>7, <2>4, <2>6 DEF OnceInv
<1> QED BY <1>8, <1>9

(* A lease on record has no ending yet, so its first one clashes with      *)
(* nothing.                                                                *)
LEMMA FirstEnding ==
  ASSUME AccountInv, owner # NoProc, NEW e \in Endings, NEW r \in Rows
  PROVE  ~Clash(r, About(e, made))
<1> SUFFICES ASSUME r.lease = made, r.event \in Endings PROVE FALSE
  BY DEF Clash, About
<1>1. r \in Row
  BY RowsTyped DEF AccountInv, HistoryInv
<1>2. r = About(r.event, made)
  BY <1>1 DEF Row, About
<1>3. made \in Nat /\ made > 0
  BY HistoryAssumption DEF HistoryAssumption, AccountInv, HistoryInv, HistoryTypeOK
<1>4. ~\E d \in Endings : About(d, made) \in Rows
  BY <1>3 DEF AccountInv, Accounted
<1> QED BY <1>2, <1>4

(* Short lists have no two endings.                                        *)
LEMMA SingleShort ==
  /\ Single(<<>>)
  /\ \A e : Single(<<e>>)
<1>1. Single(<<>>)
  BY DEF Single
<1>2. ASSUME NEW e PROVE Single(<<e>>)
  <2>1. DOMAIN <<e>> = 1..1
    OBVIOUS
  <2> QED BY <2>1 DEF Single
<1> QED BY <1>1, <1>2

(* The rows of a take: at most the ending of the displaced lease.          *)
LEMMA OnceTaken ==
  ASSUME OnceInv, AccountInv', NEW p \in Proc, TakeTold(p)
  PROVE  OnceInv'
<1> DEFINE acquired == About("acquired", made + 1)
<1>1. /\ HistoryInv /\ AccountInv /\ made < MaxLease
      /\ p \in Actor
      /\ Owe(p, Append(Displaced, acquired))
  BY DEF OnceInv, AccountInv, TakeTold, Actor
<1>2. /\ Displaced \in Seq(Row)
      /\ Append(Displaced, acquired) \in Seq(Row)
      /\ ToSet(Append(Displaced, acquired))
           = {r \in {About("expired", made)} : owner # NoProc} \cup {acquired}
  BY <1>1, TakenRows
<1>3. \A r : ~Clash(r, acquired)
  BY DEF Clash, About, Endings
<1>4. \A r \in Rows, q \in ToSet(Append(Displaced, acquired)) : ~Clash(r, q)
  <2>1. owner # NoProc => \A r \in Rows : ~Clash(r, About("expired", made))
    <3>1. "expired" \in Endings
      BY DEF Endings
    <3> QED BY <1>1, <3>1, FirstEnding
  <2> QED BY <1>2, <1>3, <2>1
<1>5. Single(Append(Displaced, acquired))
  <2>1. Single(Displaced)
    BY SingleShort DEF Displaced
  <2>2. acquired \in Row
    <3>1. acquired \in ToSet(Append(Displaced, acquired))
      BY <1>2
    <3>2. \A s \in Seq(Row) : \A r \in ToSet(s) : r \in Row
      BY DEF ToSet
    <3> HIDE DEF acquired
    <3> QED BY <1>2, <3>1, <3>2
  <2> HIDE DEF acquired
  <2> QED BY <1>2, <1>3, <2>1, <2>2, SingleAppend
<1> HIDE DEF acquired
<1> QED BY <1>1, <1>2, <1>4, <1>5, OnceOwed

(* All steps keep endings single.                                          *)
LEMMA OnceStep ==
  ASSUME OnceInv, AccountInv', [HistoryNext]_<<vars, historyVars>>
  PROVE  OnceInv'
<1>0. /\ AccountInv /\ HistoryInv /\ HistoryTypeOK
      /\ \A p \in Proc : p \in Actor /\ p # NoProc
      /\ Operator \in Actor /\ Pruner \in Actor
      /\ {"released", "force-released", "expired"} \subseteq Endings
  BY LeaseAssumption DEF LeaseAssumption, OnceInv, AccountInv, HistoryInv, Actor, Endings
<1>1. ASSUME NEW x \in Actor, NEW e \in Endings, owner # NoProc, Owe(x, <<About(e, made)>>)
      PROVE  OnceInv'
  <2>1. /\ <<About(e, made)>> \in Seq(Row)
        /\ ToSet(<<About(e, made)>>) = {About(e, made)}
    BY <1>0, <1>1, OwedRows
  <2>2. \A r \in Rows : ~Clash(r, About(e, made))
    BY <1>0, <1>1, FirstEnding
  <2>3. Single(<<About(e, made)>>)
    BY SingleShort
  <2>4. \A r \in Rows, q \in ToSet(<<About(e, made)>>) : ~Clash(r, q)
    BY <2>2, <2>1
  <2> QED BY <1>1, <2>1, <2>3, <2>4, OnceOwed
<1>2. CASE UNCHANGED <<todo, log>>
  BY <1>2 DEF OnceInv
<1>3. ASSUME NEW p \in Proc, TakeTold(p) PROVE OnceInv'
  BY <1>3, OnceTaken
<1>4. ASSUME NEW p \in Proc, RenewTold(p) PROVE OnceInv'
  <2>1. owner # NoProc /\ Owe(p, <<About("renewed", made)>>)
    BY <1>0, <1>4 DEF RenewTold, Renew
  <2>2. /\ <<About("renewed", made)>> \in Seq(Row)
        /\ ToSet(<<About("renewed", made)>>) = {About("renewed", made)}
    BY <1>0, <2>1, OwedRows
  <2>3. \A r \in Rows : ~Clash(r, About("renewed", made))
    BY DEF Clash, About, Endings
  <2>4. Single(<<About("renewed", made)>>)
    BY SingleShort
  <2>5. \A r \in Rows, q \in ToSet(<<About("renewed", made)>>) : ~Clash(r, q)
    BY <2>3, <2>2
  <2> QED BY <1>0, <1>4, <2>1, <2>2, <2>4, <2>5, OnceOwed
<1>5. ASSUME NEW p \in Proc, GrantTold(p) PROVE OnceInv'
  BY <1>2, <1>5 DEF GrantTold, historyVars
<1>6. ASSUME NEW p \in Proc, ForgetTold(p) PROVE OnceInv'
  <2>1. /\ todo'[p] = <<>> /\ log' = log /\ p \in Actor
        /\ \A y \in Actor \ {p} : todo'[y] = todo[y]
    BY <1>0, <1>6, ForgetStep
  <2>2. \A s : Apart(s, <<>>) /\ Apart(<<>>, s)
    BY ShortLists DEF Apart
  <2>3. \A y \in Actor : Single(todo'[y]) /\ Apart(log, todo'[y])
    BY <2>1, <2>2, SingleShort DEF OnceInv
  <2>4. \A y, z \in Actor : y # z => Apart(todo'[y], todo'[z])
    BY <2>1, <2>2 DEF OnceInv
  <2> QED BY <2>1, <2>3, <2>4 DEF OnceInv
<1>7. ASSUME NEW p \in Proc, ReleaseTold(p) PROVE OnceInv'
  BY <1>0, <1>1, <1>7 DEF ReleaseTold, Release
<1>8. CASE OverrideTold
  BY <1>0, <1>1, <1>8 DEF OverrideTold, Override
<1>9. CASE ReapTold
  BY <1>0, <1>1, <1>9 DEF ReapTold, Reap
<1>10. ASSUME NEW x \in Actor, Record(x) \/ Miss(x) PROVE OnceInv'
  BY <1>10, OnceMoved
<1>11. CASE Tick /\ UNCHANGED historyVars
  BY <1>2, <1>11 DEF historyVars
<1>12. CASE UNCHANGED <<vars, historyVars>>
  BY <1>2, <1>12 DEF historyVars
<1> QED BY <1>3, <1>4, <1>5, <1>6, <1>7, <1>8, <1>9, <1>10, <1>11, <1>12 DEF HistoryNext

(* The log never has two endings of one lease, in whatever order the rows  *)
(* of several processes arrive.                                            *)
THEOREM EndingsSingle == HistorySpec => []EndsOnce
<1>1. HistoryInit /\ AccountInv => OnceInv
  <2>1. ASSUME HistoryInit, NEW x \in Actor PROVE todo[x] = <<>>
    BY <2>1 DEF HistoryInit
  <2>2. Apart(<<>>, <<>>)
    BY ShortLists DEF Apart
  <2> QED BY <2>1, <2>2, SingleShort DEF HistoryInit, OnceInv
<1>2. OnceInv /\ AccountInv' /\ [HistoryNext]_<<vars, historyVars>> => OnceInv'
  BY OnceStep
<1>3. OnceInv => EndsOnce
  <2> SUFFICES ASSUME Single(log), NEW i \in DOMAIN log, NEW j \in DOMAIN log,
                      log[i].lease = log[j].lease,
                      {log[i].event, log[j].event} \subseteq Endings
               PROVE  i = j
    BY DEF OnceInv, EndsOnce
  <2>1. Clash(log[i], log[j])
    BY DEF Clash
  <2> QED BY <2>1 DEF Single
<1> QED BY <1>1, <1>2, <1>3, AccountInvHolds, PTL DEF HistorySpec
=============================================================================
