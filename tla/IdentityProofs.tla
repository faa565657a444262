------------------------------ MODULE IdentityProofs --------------------------
(***************************************************************************)
(* Theorems about the life of a business (IdentityMC): who has access to   *)
(* it, how its codes reach it, whose rights a turn acts with, what        *)
(* turns cost, and what a deletion leaves.  Each part has an invariant of  *)
(* its own, kept by its steps; the steps of the other parts leave it alone *)
(* (BearersFrame, BudgetFrame, ...), and the last section puts them        *)
(* together.                                                               *)
(***************************************************************************)
EXTENDS IdentityMC, SequenceTheorems, SumTheorems
-------------------------------------------------------------------------------
\* One place in a function of two arguments.
LEMMA PlaceWritten ==
  ASSUME NEW R, NEW f \in [Number \X Tenant -> R], NEW n \in Number, NEW t \in Tenant, NEW r \in R
  PROVE  /\ [f EXCEPT ![<<n, t>>] = r] \in [Number \X Tenant -> R]
         /\ [f EXCEPT ![<<n, t>>] = r][<<n, t>>] = r
         /\ \A m \in Number, u \in Tenant :
              m # n \/ u # t => [f EXCEPT ![<<n, t>>] = r][<<m, u>>] = f[<<m, u>>]
OBVIOUS
-------------------------------------------------------------------------------
(* Sequences without repetition *)

LEMMA LeastOf ==
  ASSUME NEW N, N \subseteq Nat, N # {}
  PROVE  Min(N) \in N /\ \A m \in N : Min(N) <= m
BY LeastNumber DEF Min

\* x is in the sequence.
Listed(s, x) == \E i \in 1..Len(s) : s[i] = x

LEMMA RemovedFirst ==
  ASSUME NEW S, NEW s \in Seq(S), NEW x, IsInjective(s)
  PROVE  /\ RemoveFirst(s, x) \in Seq(S) /\ IsInjective(RemoveFirst(s, x))
         /\ ~Listed(RemoveFirst(s, x), x)
         /\ \A y : y # x => (Listed(RemoveFirst(s, x), y) <=> Listed(s, y))
<1>1. CASE ~Listed(s, x)
  <2>1. RemoveFirst(s, x) = s
    BY <1>1 DEF RemoveFirst, Listed
  <2> QED BY <1>1, <2>1
<1>2. CASE Listed(s, x)
  <2> DEFINE I == {i \in 1..Len(s) : s[i] = x}
             k == Min(I)
             a == SubSeq(s, 1, k - 1)
             b == SubSeq(s, k + 1, Len(s))
  <2>1. I \subseteq Nat /\ I # {} /\ Len(s) \in Nat
    BY <1>2 DEF Listed
  <2>2. k \in 1..Len(s) /\ s[k] = x
    <3>1. Min(I) \in I
      <4> HIDE DEF I
      <4> QED BY <2>1, LeastOf
    <3> QED BY <3>1
  <2>3. RemoveFirst(s, x) = a \o b
    <3>1. SelectInSeq(s, LAMBDA v : v = x) = k
      BY <2>1 DEF SelectInSeq
    <3> QED BY <1>2, <3>1 DEF RemoveFirst, RemoveAt, Listed
  <2> HIDE DEF I, k
  <2>4. /\ a \in Seq(S) /\ Len(a) = k - 1
        /\ \A i \in 1..(k - 1) : a[i] = s[i]
    <3>1. \A i \in 1..(k - 1) : s[i] \in S
      BY <2>2
    <3>2. 1 \in Int /\ k - 1 \in Int /\ 1 - 1 = 0
      BY <2>2
    <3>3. /\ a \in Seq(S) /\ Len(a) = IF 1 <= k - 1 THEN k - 1 - 1 + 1 ELSE 0
          /\ \A i \in 1..(k - 1 - 1 + 1) : a[i] = s[1 + i - 1]
      BY <3>1, <3>2, SubSeqProperties
    <3> QED BY <3>3, <2>2
  <2>5. /\ b \in Seq(S) /\ Len(b) = Len(s) - k
        /\ \A i \in 1..(Len(s) - k) : b[i] = s[k + i]
    <3>1. \A i \in (k + 1)..Len(s) : s[i] \in S
      BY <2>2
    <3>2. k + 1 \in Int /\ Len(s) \in Int
      BY <2>1, <2>2
    <3>3. /\ b \in Seq(S) /\ Len(b) = IF k + 1 <= Len(s) THEN Len(s) - (k + 1) + 1 ELSE 0
          /\ \A i \in 1..(Len(s) - (k + 1) + 1) : b[i] = s[(k + 1) + i - 1]
      BY <3>1, <3>2, SubSeqProperties
    <3> QED BY <3>3, <2>1, <2>2
  <2> HIDE DEF a, b
  <2> DEFINE r == a \o b
  <2>6. /\ r \in Seq(S) /\ Len(r) = Len(s) - 1
        /\ \A i \in 1..(Len(s) - 1) : r[i] = IF i < k THEN s[i] ELSE s[i + 1]
    <3>1. /\ r \in Seq(S) /\ Len(r) = Len(a) + Len(b)
          /\ \A i \in 1..(Len(a) + Len(b)) : r[i] = IF i <= Len(a) THEN a[i] ELSE b[i - Len(a)]
      BY <2>4, <2>5, ConcatProperties
    <3> HIDE DEF r
    <3>2. Len(a) + Len(b) = Len(s) - 1
      BY <2>1, <2>2, <2>4, <2>5
    <3>3. ASSUME NEW i \in 1..(Len(s) - 1), i < k PROVE r[i] = s[i]
      BY <3>1, <3>2, <3>3, <2>1, <2>2, <2>4
    <3>4. ASSUME NEW i \in 1..(Len(s) - 1), ~(i < k) PROVE r[i] = s[i + 1]
      <4>1. i - (k - 1) \in 1..(Len(s) - k) /\ k + (i - (k - 1)) = i + 1 /\ ~(i <= Len(a))
        BY <3>4, <2>1, <2>2, <2>4
      <4>2. r[i] = b[i - (k - 1)]
        BY <4>1, <3>1, <3>2, <2>4
      <4> QED BY <4>1, <4>2, <2>5
    <3> QED BY <3>1, <3>2, <3>3, <3>4
  <2> HIDE DEF r
  <2>7. \A i, j \in 1..Len(s) : s[i] = s[j] => i = j
    BY DEF IsInjective
  <2>8. ASSUME NEW i \in 1..Len(r)
        PROVE  \E j \in 1..Len(s) : /\ r[i] = s[j] /\ j # k
                                    /\ j = IF i < k THEN i ELSE i + 1
    <3>1. CASE i < k
      BY <3>1, <2>1, <2>2, <2>6, <2>8
    <3>2. CASE ~(i < k)
      <4>1. i + 1 \in 1..Len(s) /\ i + 1 # k
        BY <3>2, <2>1, <2>2, <2>6, <2>8
      <4>2. r[i] = s[i + 1]
        BY <3>2, <2>1, <2>2, <2>6, <2>8
      <4> QED BY <3>2, <4>1, <4>2
    <3> QED BY <3>1, <3>2
  <2>9. IsInjective(r) /\ ~Listed(r, x)
    <3>1. ASSUME NEW i \in 1..Len(r), NEW j \in 1..Len(r), r[i] = r[j] PROVE i = j
      <4>1. PICK v \in 1..Len(s) : r[i] = s[v] /\ v = IF i < k THEN i ELSE i + 1
        BY <2>8
      <4>2. PICK w \in 1..Len(s) : r[j] = s[w] /\ w = IF j < k THEN j ELSE j + 1
        BY <2>8
      <4>3. v = w
        BY <4>1, <4>2, <3>1, <2>7
      <4> QED BY <4>1, <4>2, <4>3, <2>2
    <3>2. DOMAIN r = 1..Len(r)
      BY <2>6
    <3> QED BY <3>1, <3>2, <2>2, <2>7, <2>8 DEF IsInjective, Listed
  <2>10. ASSUME NEW y, y # x PROVE Listed(r, y) <=> Listed(s, y)
    <3>1. ASSUME NEW i \in 1..Len(s), s[i] = y PROVE Listed(r, y)
      <4>1. CASE i < k
        BY <4>1, <3>1, <2>1, <2>2, <2>6 DEF Listed
      <4>2. CASE i > k
        <5>1. i - 1 \in 1..(Len(s) - 1) /\ ~(i - 1 < k) /\ i - 1 + 1 = i
          BY <4>2, <2>1, <2>2
        <5> QED BY <5>1, <3>1, <2>6 DEF Listed
      <4> QED BY <4>1, <4>2, <3>1, <2>10, <2>2
    <3>2. ASSUME NEW i \in 1..Len(r), r[i] = y PROVE Listed(s, y)
      BY <3>2, <2>1, <2>2, <2>6 DEF Listed
    <3> QED BY <3>1, <3>2 DEF Listed
  <2> QED BY <2>3, <2>6, <2>9, <2>10 DEF r
<1> QED BY <1>1, <1>2

LEMMA GreatestOf ==
  ASSUME NEW L \in Nat, NEW N, N \subseteq 1..L, N # {}
  PROVE  Max(N) \in N /\ \A m \in N : m <= Max(N)
<1> DEFINE M == {L + 1 - i : i \in N}
<1>1. M \subseteq Nat /\ M # {}
  <2>1. \A i \in N : i \in Int /\ 1 <= i /\ i <= L
    OBVIOUS
  <2>2. \A i \in N : L + 1 - i \in Nat
    BY <2>1
  <2> QED BY <2>2
<1>2. PICK i \in N : Min(M) = L + 1 - i
  <2>1. Min(M) \in M
    <3> HIDE DEF M
    <3> QED BY <1>1, LeastOf
  <2> QED BY <2>1
<1>3. \A m \in M : Min(M) <= m
  <2>1. Min(M) \in M
    BY <1>2
  <2> HIDE DEF M
  <2> QED BY <1>1, <2>1, LeastOf
<1>4. ASSUME NEW j \in N PROVE j <= i
  <2>1. L + 1 - j \in M
    OBVIOUS
  <2>2. L + 1 - i <= L + 1 - j
    BY <2>1, <1>2, <1>3
  <2> QED BY <2>2
<1> QED BY <1>2, <1>4 DEF Max

LEMMA AppendedNew ==
  ASSUME NEW S, NEW s \in Seq(S), NEW x \in S, IsInjective(s), ~Listed(s, x)
  PROVE  /\ Append(s, x) \in Seq(S) /\ IsInjective(Append(s, x))
         /\ \A y : Listed(Append(s, x), y) <=> (y = x \/ Listed(s, y))
<1> DEFINE r == Append(s, x)
<1>1. /\ r \in Seq(S) /\ Len(r) = Len(s) + 1 /\ Len(s) \in Nat
      /\ \A i \in 1..Len(s) : r[i] = s[i]
      /\ r[Len(s) + 1] = x
  BY AppendProperties
<1> HIDE DEF r
<1>2. ASSUME NEW i \in 1..Len(r), NEW j \in 1..Len(r), r[i] = r[j] PROVE i = j
  <2>1. CASE i <= Len(s) /\ j <= Len(s)
    <3>1. i \in DOMAIN s /\ j \in DOMAIN s /\ s[i] = s[j]
      BY <1>1, <1>2, <2>1
    <3> QED BY <3>1 DEF IsInjective
  <2>2. CASE i = Len(s) + 1 /\ j <= Len(s)
    BY <1>1, <1>2, <2>2 DEF Listed
  <2>3. CASE i <= Len(s) /\ j = Len(s) + 1
    BY <1>1, <1>2, <2>3 DEF Listed
  <2> QED BY <1>1, <2>1, <2>2, <2>3
<1>3. IsInjective(r)
  BY <1>1, <1>2 DEF IsInjective
<1>4. ASSUME NEW y PROVE Listed(r, y) <=> (y = x \/ Listed(s, y))
  <2>1. ASSUME NEW i \in 1..Len(s), s[i] = y PROVE Listed(r, y)
    <3>1. i \in 1..Len(r) /\ r[i] = y
      BY <1>1, <2>1
    <3> QED BY <3>1 DEF Listed
  <2>2. Listed(r, x)
    <3>1. Len(s) + 1 \in 1..Len(r)
      BY <1>1
    <3> QED BY <1>1, <3>1 DEF Listed
  <2>3. ASSUME NEW i \in 1..Len(r), r[i] = y, y # x PROVE Listed(s, y)
    <3>1. i \in 1..Len(s) /\ s[i] = y
      BY <1>1, <2>3
    <3> QED BY <3>1 DEF Listed
  <2> QED BY <2>1, <2>2, <2>3 DEF Listed
<1> QED BY <1>1, <1>3, <1>4 DEF r
\* Without the injection the rest is a sequence all the same.
LEMMA RemovedFirstType ==
  ASSUME NEW S, NEW s \in Seq(S), NEW x
  PROVE  RemoveFirst(s, x) \in Seq(S)
<1>1. CASE ~Listed(s, x)
  BY <1>1 DEF RemoveFirst, Listed
<1>2. CASE Listed(s, x)
  <2> DEFINE I == {i \in 1..Len(s) : s[i] = x}
             k == Min(I)
  <2>1. I \subseteq Nat /\ I # {} /\ Len(s) \in Nat
    BY <1>2 DEF Listed
  <2>2. k \in 1..Len(s)
    <3>1. Min(I) \in I
      <4> HIDE DEF I
      <4> QED BY <2>1, LeastOf
    <3> QED BY <3>1
  <2>3. RemoveFirst(s, x) = SubSeq(s, 1, k - 1) \o SubSeq(s, k + 1, Len(s))
    <3>1. SelectInSeq(s, LAMBDA v : v = x) = k
      BY <2>1 DEF SelectInSeq
    <3> QED BY <1>2, <3>1 DEF RemoveFirst, RemoveAt, Listed
  <2> HIDE DEF I, k
  <2>4. SubSeq(s, 1, k - 1) \in Seq(S)
    <3>1. \A i \in 1..(k - 1) : s[i] \in S
      BY <2>2
    <3>2. 1 \in Int /\ k - 1 \in Int
      BY <2>2
    <3> QED BY <3>1, <3>2, SubSeqProperties
  <2>5. SubSeq(s, k + 1, Len(s)) \in Seq(S)
    <3>1. \A i \in (k + 1)..Len(s) : s[i] \in S
      BY <2>2
    <3>2. k + 1 \in Int /\ Len(s) \in Int
      BY <2>1, <2>2
    <3> QED BY <3>1, <3>2, SubSeqProperties
  <2> QED BY <2>3, <2>4, <2>5, ConcatProperties
<1> QED BY <1>1, <1>2
-------------------------------------------------------------------------------
(* The invariant of teams and signups *)

Owned(t) == tenant[t].owner # NoNumber

\* The business waits for the number n and for no other.
Addressed(t, n) ==
  /\ tenant[t].status # "absent"
  /\ tenant[t].applicant = n \/ (tenant[t].applicant = NoNumber /\ code[t].to = n)

TenantSound(t) ==
  /\ tenant[t].status = "absent" => tenant[t] = NoBusiness /\ code[t].to = NoNumber /\ ~code[t].live
  /\ tenant[t].status = "pending" => ~Owned(t)
  /\ tenant[t].status = "active" => Owned(t)
  /\ Owned(t) => {tenant[t].applicant, code[t].to} \subseteq {NoNumber, tenant[t].owner}
  /\ ~Owned(t) => plan[t] = NoSubscription
  /\ tenant[t].applicant # NoNumber => code[t].to \in {NoNumber, tenant[t].applicant}
  /\ ~paused => tenant[t].status # "suspended"

ReviewSound(t) ==
  /\ tenant[t].review = "none" <=> tenant[t].applicant = NoNumber
  /\ tenant[t].review = "approved" => t \in approved
  /\ tenant[t].applicant # NoNumber /\ code[t].to # NoNumber => t \in approved
  /\ code[t].live => code[t].fails < MaxFails /\ code[t].to # NoNumber

FormSound(n) ==
  /\ form[n].for # NoTenant => Addressed(form[n].for, n)
  /\ form[n].at \in {"reapply", "send"} => form[n].for # NoTenant
  /\ form[n].at = "reapply" => tenant[form[n].for].applicant = n
  /\ form[n].at = "issue" => sent[n].form < PerNumber

DeskSound == \A d \in desk : tenant[d[2]].applicant # NoNumber

OwnerRow == [NoRow EXCEPT !.status = "active"]

RowSound(n, t) ==
  /\ Live(n, t) => Owned(t)
  /\ Live(n, t) <=> Listed(created, <<n, t>>)
  /\ Live(n, t) /\ row[<<n, t>>].role = "owner" => n = tenant[t].owner
  /\ n = tenant[t].owner => row[<<n, t>>] = OwnerRow

MessageSound(n) ==
  /\ \A t \in Tenant : pick[n] = t => Live(n, t)
  /\ ~paused => \A t, u \in Tenant : Active(n, t) /\ Active(n, u) => t = u
  /\ ~paused /\ at[n][1] # "idle" => \A t \in Tenant : ~Active(n, t)

TenantsSound == \A t \in Tenant : TenantSound(t)
ReviewsSound == \A t \in Tenant : ReviewSound(t)
FormsSound == \A n \in Number : FormSound(n)
RowsSound == \A n \in Number, t \in Tenant : RowSound(n, t)
MessagesSound == \A n \in Number : MessageSound(n)

SignupSound == TenantsSound /\ ReviewsSound /\ FormsSound /\ DeskSound

AccessInv ==
  /\ TypeOK /\ SignupSound /\ RowsSound /\ MessagesSound
  /\ SeatsWithinPlan /\ ReviewedFirst
-------------------------------------------------------------------------------
LEMMA SignupKept ==
  ASSUME SignupSound, UNCHANGED <<tenant, plan, paused, signupVars>>
  PROVE  SignupSound'
<1>1. TenantsSound'
  BY DEF SignupSound, TenantsSound, TenantSound, Owned, signupVars
<1>2. ReviewsSound'
  BY DEF SignupSound, ReviewsSound, ReviewSound, signupVars
<1>3. FormsSound'
  BY DEF SignupSound, FormsSound, FormSound, Addressed, signupVars
<1>4. DeskSound'
  BY DEF SignupSound, DeskSound, signupVars
<1> QED BY <1>1, <1>2, <1>3, <1>4 DEF SignupSound


SeatsOK(t) == t \notin strained => SeatsUsed(t, NoNumber) <= Seats[plan[t]]

Holding(t) == {n \in Number : HoldsSeat(n, t)}

LEMMA SeatsCounted ==
  ASSUME NEW t, NEW e
  PROVE  /\ SeatsUsed(t, e) = Cardinality(Holding(t) \ {e}) /\ SeatsUsed(t, e) \in Nat
         /\ IsFiniteSet(Holding(t))
         /\ SeatsUsed(t, NoNumber) = Cardinality(Holding(t))
<1>1. {n \in Number \ {e} : HoldsSeat(n, t)} = Holding(t) \ {e}
  BY DEF Holding
<1>2. Holding(t) \ {NoNumber} = Holding(t)
  BY NobodyAssumption DEF Holding
<1>3. {n \in Number \ {NoNumber} : HoldsSeat(n, t)} = Holding(t)
  BY NobodyAssumption DEF Holding
<1>4. IsFiniteSet(Holding(t)) /\ IsFiniteSet(Holding(t) \ {e})
  <2>1. Holding(t) \subseteq Number /\ Holding(t) \ {e} \subseteq Number
    BY DEF Holding
  <2> QED BY <2>1, NumberAssumption, FS_Subset
<1>5. Cardinality(Holding(t) \ {e}) \in Nat
  BY <1>4, FS_CardinalityType
<1> QED BY <1>1, <1>3, <1>4, <1>5 DEF SeatsUsed

SeatsAreNumbers == \A t \in Tenant : SeatsUsed(t, NoNumber) \in Nat

LEMMA SeatsNumber == SeatsAreNumbers /\ SeatsAreNumbers'
<1>1. SeatsAreNumbers
  BY SeatsCounted DEF SeatsAreNumbers
<1> QED BY <1>1, PTL

\* Nobody takes a seat: no more are used.
LEMMA SeatsFewer ==
  ASSUME NEW t, \A m \in Number : HoldsSeat(m, t)' => HoldsSeat(m, t)
  PROVE  SeatsUsed(t, NoNumber)' <= SeatsUsed(t, NoNumber)
<1>1. Holding(t)' \subseteq Holding(t)
  BY DEF Holding
<1>2. IsFiniteSet(Holding(t)) /\ SeatsUsed(t, NoNumber) = Cardinality(Holding(t))
  BY SeatsCounted
<1>3. (SeatsUsed(t, NoNumber) = Cardinality(Holding(t)))'
  BY SeatsCounted, PTL
<1> QED BY <1>1, <1>2, <1>3, FS_Subset

\* One number takes a seat: one more than the others use.
LEMMA SeatsOneMore ==
  ASSUME NEW t, NEW n \in Number,
         \A m \in Number \ {n} : HoldsSeat(m, t)' => HoldsSeat(m, t)
  PROVE  SeatsUsed(t, NoNumber)' <= SeatsUsed(t, n) + 1
<1> DEFINE H == Holding(t) \ {n}
<1>1. Holding(t)' \subseteq H \cup {n}
  BY DEF Holding
<1>2. IsFiniteSet(H) /\ SeatsUsed(t, n) = Cardinality(H)
  <2>1. IsFiniteSet(Holding(t)) /\ H \subseteq Holding(t)
    BY SeatsCounted
  <2> QED BY <2>1, FS_Subset, SeatsCounted
<1>3. (SeatsUsed(t, NoNumber) = Cardinality(Holding(t)))'
  BY SeatsCounted, PTL
<1>4. IsFiniteSet(H \cup {n}) /\ Cardinality(H \cup {n}) <= Cardinality(H) + 1
  <2>1. Cardinality(H) \in Nat
    BY <1>2, FS_CardinalityType
  <2> HIDE DEF H
  <2> QED BY <1>2, <2>1, FS_AddElement
<1>5. Cardinality(Holding(t)') <= Cardinality(H \cup {n})
  BY <1>1, <1>4, FS_Subset
<1>6. Cardinality(Holding(t)') \in Nat /\ Cardinality(H) \in Nat /\ Cardinality(H \cup {n}) \in Nat
  BY <1>1, <1>2, <1>4, FS_Subset, FS_CardinalityType
<1> QED BY <1>2, <1>3, <1>4, <1>5, <1>6

LEMMA ResolvedNothing ==
  ASSUME TypeOK, NEW n \in Number, Resolved(n) = NoTenant
  PROVE  \A t \in Tenant : Listed(created, <<n, t>>) => ~Resolvable(n, t)
<1> DEFINE I == {i \in 1..Len(created) : created[i][1] = n /\ Resolvable(n, created[i][2])}
           oldest == IF I # {} THEN Min(I) ELSE 0
<1>1. created \in Seq(Number \X Tenant) /\ Len(created) \in Nat
  BY DEF TypeOK, TeamTypeOK
<1>2. Resolved(n) = IF oldest = 0 THEN NoTenant ELSE created[oldest][2]
  BY DEF Resolved, SelectInSeq
<1>3. CASE I # {}
  <2>1. Min(I) \in I
    <3>1. I \subseteq Nat
      BY <1>1
    <3> HIDE DEF I
    <3> QED BY <3>1, <1>3, LeastOf
  <2>2. Min(I) # 0 /\ created[Min(I)] \in Number \X Tenant
    BY <1>1, <2>1
  <2>3. Resolved(n) \in Tenant
    BY <1>2, <1>3, <2>2
  <2> QED BY <2>3, NobodyAssumption
<1>4. CASE I = {}
  <2> SUFFICES ASSUME NEW t \in Tenant, NEW i \in 1..Len(created), created[i] = <<n, t>>, Resolvable(n, t)
               PROVE  FALSE
    BY DEF Listed
  <2>1. created[i][1] = n /\ created[i][2] = t
    OBVIOUS
  <2>2. i \in I
    BY <2>1
  <2> QED BY <2>2, <1>4
<1> QED BY <1>3, <1>4

LEMMA AnswerableFound ==
  ASSUME TypeOK, NEW n \in Number, Answerable(n) # 0
  PROVE  touched[n][Answerable(n)] \in Tenant /\ Invited(n, touched[n][Answerable(n)])
<1> DEFINE s == touched[n]
           I == {i \in 1..Len(s) : Invited(n, s[i]) /\ ~row[<<n, s[i]>>].stale
                                   /\ tenant[s[i]].status = "active"}
<1>1. s \in Seq(Tenant) /\ Len(s) \in Nat
  BY DEF TypeOK, TeamTypeOK
<1>2. Answerable(n) = IF I # {} THEN Max(I) ELSE 0
  BY DEF Answerable, SelectLastInSeq
<1>3. I # {} /\ Max(I) \in I
  <2>1. I \subseteq 1..Len(s)
    OBVIOUS
  <2>2. I # {}
    BY <1>2, ZenonT(60)
  <2> HIDE DEF I
  <2> QED BY <1>1, <2>1, <2>2, GreatestOf
<1>4. Max(I) \in 1..Len(s) /\ Invited(n, s[Max(I)])
  BY <1>3, Zenon
<1>5. Answerable(n) = Max(I)
  BY <1>2, <1>3, Zenon
<1>6. s[Max(I)] \in Tenant
  <2> HIDE DEF I, s
  <2> QED BY <1>1, <1>4
<1> HIDE DEF I
<1> QED BY <1>4, <1>5, <1>6
LEMMA RestKept ==
  ASSUME AccessInv, UNCHANGED <<plan, row, created, pick, strained, paused>>,
         \A u \in Tenant : tenant'[u].owner = tenant[u].owner,
         \A u \in Tenant : Owned(u) => tenant'[u].applicant = tenant[u].applicant,
         \A n \in Number : at'[n][1] # "idle" => at[n][1] # "idle",
         approved \subseteq approved'
  PROVE  RowsSound' /\ MessagesSound' /\ SeatsWithinPlan' /\ ReviewedFirst'
<1>1. RowsSound'
  BY Zenon DEF AccessInv, RowsSound, RowSound, Owned, Live
<1>2. MessagesSound'
  <2> SUFFICES ASSUME NEW n \in Number PROVE MessageSound(n)'
    BY DEF MessagesSound
  <2>1. MessageSound(n)
    BY DEF AccessInv, MessagesSound
  <2> QED BY <2>1 DEF MessageSound, Live, Active
<1>3. SeatsWithinPlan'
  BY DEF AccessInv, SeatsWithinPlan, SeatsUsed, HoldsSeat, Active, Invited
<1>4. ReviewedFirst'
  BY DEF AccessInv, ReviewedFirst, Owned
<1> QED BY <1>1, <1>2, <1>3, <1>4

LEMMA RowPut ==
  ASSUME TypeOK, RowsSound, NEW n \in Number, NEW t \in Tenant, NEW r \in Row,
         PutRow(n, t, r), r.status # "none"
  PROVE  /\ row' \in [Number \X Tenant -> Row] /\ row'[<<n, t>>] = r
         /\ \A m \in Number, u \in Tenant : m # n \/ u # t => row'[<<m, u>>] = row[<<m, u>>]
         /\ created' \in Seq(Number \X Tenant) /\ IsInjective(created')
         /\ \A m \in Number, u \in Tenant : Live(m, u)' <=> Listed(created', <<m, u>>)
         /\ touched' \in [Number -> Seq(Tenant)]
<1> DEFINE k == <<n, t>>
<1>1. /\ row \in [Number \X Tenant -> Row] /\ row' = [row EXCEPT ![<<n, t>>] = r]
      /\ created \in Seq(Number \X Tenant) /\ IsInjective(created)
      /\ touched \in [Number -> Seq(Tenant)]
  BY DEF TypeOK, TeamTypeOK, PutRow
<1>2. /\ row' \in [Number \X Tenant -> Row] /\ row'[<<n, t>>] = r
      /\ \A m \in Number, u \in Tenant : m # n \/ u # t => row'[<<m, u>>] = row[<<m, u>>]
  BY <1>1, PlaceWritten, Zenon
<1>3. touched' \in [Number -> Seq(Tenant)]
  <2>1. touched' = [touched EXCEPT ![n] = Last1(touched[n], t)]
    BY DEF PutRow, Touch
  <2>2. RemoveFirst(touched[n], t) \in Seq(Tenant)
    BY <1>1, RemovedFirstType
  <2>3. Last1(touched[n], t) \in Seq(Tenant)
    BY <2>2, AppendProperties DEF Last1
  <2> QED BY <1>1, <2>1, <2>3
<1>4. \A m \in Number, u \in Tenant : Live(m, u) <=> Listed(created, <<m, u>>)
  BY Zenon DEF RowsSound, RowSound
<1>5. k \in Number \X Tenant /\ \A m, u : <<m, u>> = k <=> (m = n /\ u = t)
  OBVIOUS
<1>6. /\ created' \in Seq(Number \X Tenant) /\ IsInjective(created')
      /\ \A m \in Number, u \in Tenant :
           Listed(created', <<m, u>>) <=> (m = n /\ u = t) \/ Listed(created, <<m, u>>)
  <2>1. CASE Live(n, t)
    <3>1. created' = created /\ Listed(created, k)
      BY <2>1, <1>4 DEF PutRow
    <3> QED BY <3>1, <1>1, <1>5
  <2>2. CASE ~Live(n, t)
    <3>1. created' = Append(created, k) /\ ~Listed(created, k)
      BY <2>2, <1>4 DEF PutRow
    <3> HIDE DEF k
    <3>2. /\ Append(created, k) \in Seq(Number \X Tenant) /\ IsInjective(Append(created, k))
          /\ \A y : Listed(Append(created, k), y) <=> (y = k \/ Listed(created, y))
      BY <3>1, <1>1, <1>5, AppendedNew
    <3> QED BY <3>1, <3>2, <1>5
  <2> QED BY <2>1, <2>2
<1>7. \A m \in Number, u \in Tenant : Live(m, u)' <=> (m = n /\ u = t) \/ Live(m, u)
  BY <1>2, Zenon DEF Live
<1> QED BY <1>2, <1>3, <1>4, <1>6, <1>7
\* A row is put that is not the owner's, for a number that held a seat or finds one free.
LEMMA TeamChange ==
  ASSUME AccessInv, NEW n \in Number, NEW t \in Tenant, NEW r \in Row,
         PutRow(n, t, r), r.status # "none", r.role # "owner",
         Owned(t), n # tenant[t].owner,
         r.status = "active" /\ ~r.over => Active(n, t),
         UNCHANGED <<tenant, plan, at, pick, paused, signupVars>>,
         strained' \subseteq Tenant, strained \subseteq strained',
         t \notin strained' => HoldsSeat(n, t) \/ ~HoldsSeat(n, t)' \/ SeatFree(plan[t], SeatsUsed(t, n))
  PROVE  AccessInv'
<1>1. TypeOK /\ SignupSound /\ RowsSound /\ MessagesSound /\ SeatsWithinPlan /\ ReviewedFirst
  BY DEF AccessInv
<1>2. /\ row' \in [Number \X Tenant -> Row] /\ row'[<<n, t>>] = r
      /\ \A m \in Number, u \in Tenant : m # n \/ u # t => row'[<<m, u>>] = row[<<m, u>>]
      /\ created' \in Seq(Number \X Tenant) /\ IsInjective(created')
      /\ \A m \in Number, u \in Tenant : Live(m, u)' <=> Listed(created', <<m, u>>)
      /\ touched' \in [Number -> Seq(Tenant)]
  BY <1>1, RowPut
<1>3. TypeOK'
  BY <1>1, <1>2 DEF TypeOK, TeamTypeOK, signupVars
<1>4. SignupSound'
  BY <1>1, SignupKept
<1>5. \A m \in Number, u \in Tenant : Active(m, u)' => Active(m, u)
  BY <1>2 DEF Active
<1>6. RowsSound'
  <2> SUFFICES ASSUME NEW m \in Number, NEW u \in Tenant PROVE RowSound(m, u)'
    BY DEF RowsSound
  <2>1. RowSound(m, u)
    BY <1>1 DEF RowsSound
  <2>2. CASE m = n /\ u = t
    BY <1>2, <2>2 DEF RowSound, Owned, Live
  <2>3. CASE ~(m = n /\ u = t)
    BY <1>2, <2>1, <2>3 DEF RowSound, Owned, Live
  <2> QED BY <2>2, <2>3
<1>7. MessagesSound'
  <2> SUFFICES ASSUME NEW m \in Number PROVE MessageSound(m)'
    BY DEF MessagesSound
  <2>1. MessageSound(m)
    BY <1>1 DEF MessagesSound
  <2>2. \A u \in Tenant : Live(m, u) => Live(m, u)'
    BY <1>2 DEF Live
  <2> QED BY <1>5, <2>1, <2>2 DEF MessageSound
<1>8. SeatsWithinPlan'
  <2> SUFFICES ASSUME NEW u \in Tenant, u \notin strained'
               PROVE  SeatsUsed(u, NoNumber)' <= Seats[plan[u]]
    BY DEF SeatsWithinPlan
  <2>1. SeatsUsed(u, NoNumber) <= Seats[plan[u]] /\ Seats[plan[u]] \in Nat
    BY <1>1, PlanAssumption DEF SeatsWithinPlan, TypeOK, TeamTypeOK
  <2>2. SeatsUsed(u, NoNumber) \in Nat /\ SeatsUsed(u, n) \in Nat
    BY SeatsCounted
  <2>3. SeatsUsed(u, NoNumber)' \in Nat
    BY SeatsNumber DEF SeatsAreNumbers
  <2>4. \A m \in Number : m # n \/ u # t => (HoldsSeat(m, u)' => HoldsSeat(m, u))
    BY <1>2 DEF HoldsSeat, Active, Invited
  <2>5. CASE u # t \/ HoldsSeat(n, t) \/ ~HoldsSeat(n, t)'
    <3>1. SeatsUsed(u, NoNumber)' <= SeatsUsed(u, NoNumber)
      BY <2>4, <2>5, SeatsFewer
    <3> QED BY <2>1, <2>2, <2>3, <3>1
  <2>6. CASE u = t /\ SeatFree(plan[t], SeatsUsed(t, n))
    <3>1. SeatsUsed(t, NoNumber)' <= SeatsUsed(t, n) + 1
      BY <2>4, <2>6, SeatsOneMore
    <3> QED BY <2>1, <2>2, <2>3, <2>6, <3>1 DEF SeatFree
  <2> QED BY <2>5, <2>6
<1>9. ReviewedFirst'
  BY <1>1 DEF ReviewedFirst, Owned, signupVars
<1> QED BY <1>3, <1>4, <1>6, <1>7, <1>8, <1>9 DEF AccessInv

LEMMA InviteStep ==
  ASSUME AccessInv, NEW t \in Tenant, NEW n \in Number, NEW r \in Role,
         NEW limited \in BOOLEAN, NEW override \in BOOLEAN,
         InviteMember(t, n, r, limited, override), UNCHANGED signupVars
  PROVE  AccessInv'
<1> DEFINE x == [status |-> "invited", role |-> r, limited |-> limited,
                 over |-> FALSE, stale |-> FALSE]
<1>1. /\ PutRow(n, t, x) /\ tenant[t].status = "active" /\ ~Active(n, t)
      /\ strained' = IF SeatFree(plan[t], SeatsUsed(t, n)) THEN strained ELSE strained \cup {t}
      /\ UNCHANGED <<tenant, plan, at, pick, paused>>
  BY DEF InviteMember
<1>2. x \in Row /\ x.status = "invited" /\ x.role # "owner"
  BY RoleAssumption DEF Row
<1>3. Owned(t)
  BY <1>1 DEF AccessInv, SignupSound, TenantsSound, TenantSound
<1>4. n # tenant[t].owner
  BY <1>1 DEF AccessInv, RowsSound, RowSound, OwnerRow, NoRow, Active
<1>5. strained' \subseteq Tenant /\ strained \subseteq strained'
  BY <1>1 DEF AccessInv, TypeOK, TeamTypeOK
<1>6. t \notin strained' => SeatFree(plan[t], SeatsUsed(t, n))
  BY <1>1
<1> HIDE DEF x
<1> QED BY <1>1, <1>2, <1>3, <1>4, <1>5, <1>6, TeamChange

LEMMA ChangeStep ==
  ASSUME AccessInv, NEW t \in Tenant, NEW n \in Number, NEW r \in Role,
         NEW ends \in {"keep", "later", "never"},
         ChangeMember(t, n, r, ends), UNCHANGED signupVars
  PROVE  AccessInv'
<1> DEFINE old == row[<<n, t>>]
           x == IF ends = "keep" THEN [old EXCEPT !.role = r, !.stale = FALSE]
                ELSE [old EXCEPT !.role = r, !.limited = ends = "later",
                                 !.over = FALSE, !.stale = FALSE]
<1>1. /\ PutRow(n, t, x) /\ Changeable(n, t)
      /\ UNCHANGED <<tenant, plan, at, pick, strained, paused>>
  BY DEF ChangeMember
<1>2. old \in Row /\ RowSound(n, t) /\ strained \subseteq Tenant
  BY DEF AccessInv, TypeOK, TeamTypeOK, RowsSound
<1>3. /\ old.status # "none" /\ old.role # "owner" /\ ~old.over
      /\ old.status = "invited" => ~old.stale
  BY <1>1, <1>2 DEF Changeable, ListedAs, Row
<1>4. x \in Row /\ x.status = old.status /\ x.role = r /\ (x.over => old.over) /\ ~x.stale
  BY <1>2 DEF Row
<1>5. Owned(t) /\ n # tenant[t].owner
  BY <1>2, <1>3 DEF RowSound, Live, OwnerRow, NoRow
<1>6. HoldsSeat(n, t)
  BY <1>2, <1>3 DEF HoldsSeat, Active, Invited, Row
<1>7. x.status = "active" /\ ~x.over => Active(n, t)
  BY <1>3, <1>4 DEF Active
<1>8. x.role # "owner" /\ x.status # "none"
  BY <1>3, <1>4, RoleAssumption
<1> HIDE DEF x, old
<1> QED BY <1>1, <1>2, <1>4, <1>5, <1>6, <1>7, <1>8, TeamChange

LEMMA RefreshStep ==
  ASSUME AccessInv, NEW t \in Tenant, NEW n \in Number, RefreshInvite(t, n), UNCHANGED signupVars
  PROVE  AccessInv'
<1> DEFINE old == row[<<n, t>>]
           x == [old EXCEPT !.stale = FALSE]
<1>1. /\ PutRow(n, t, x) /\ Invited(n, t)
      /\ old.stale => SeatFree(plan[t], SeatsUsed(t, n))
      /\ UNCHANGED <<tenant, plan, at, pick, strained, paused>>
  BY DEF RefreshInvite
<1>2. old \in Row /\ RowSound(n, t) /\ strained \subseteq Tenant
  BY DEF AccessInv, TypeOK, TeamTypeOK, RowsSound
<1>3. old.status = "invited" /\ ~old.over
  BY <1>1 DEF Invited
<1>4. x \in Row /\ x.status = "invited" /\ x.role = old.role
  BY <1>2, <1>3 DEF Row
<1>5. Owned(t) /\ n # tenant[t].owner /\ old.role # "owner"
  BY <1>2, <1>3 DEF RowSound, Live, OwnerRow, NoRow
<1>6. HoldsSeat(n, t) \/ SeatFree(plan[t], SeatsUsed(t, n))
  BY <1>1, <1>2, <1>3 DEF HoldsSeat, Invited, Row
<1> HIDE DEF x, old
<1> QED BY <1>1, <1>2, <1>4, <1>5, <1>6, TeamChange
\* No seat is taken, the plans stay: no plan is exceeded that was not.
LEMMA SeatsKept ==
  ASSUME TypeOK, SeatsWithinPlan, strained \subseteq strained',
         NEW W \in SUBSET Tenant, strained' \cup W = strained',
         \A u \in Tenant \ W : Seats[plan[u]] <= Seats[plan'[u]],
         plan' \in [Tenant -> Plan],
         \A u \in Tenant \ W, m \in Number : HoldsSeat(m, u)' => HoldsSeat(m, u)
  PROVE  SeatsWithinPlan'
<1> SUFFICES ASSUME NEW u \in Tenant, u \notin strained'
             PROVE  SeatsUsed(u, NoNumber)' <= Seats[plan'[u]]
  BY DEF SeatsWithinPlan
<1>1. u \in Tenant \ W
  OBVIOUS
<1>2. SeatsUsed(u, NoNumber) <= Seats[plan[u]]
  BY DEF SeatsWithinPlan
<1>3. Seats[plan[u]] \in Nat /\ Seats[plan'[u]] \in Nat
  BY PlanAssumption DEF TypeOK, TeamTypeOK
<1>4. SeatsUsed(u, NoNumber) \in Nat /\ SeatsUsed(u, NoNumber)' \in Nat
  BY SeatsNumber DEF SeatsAreNumbers
<1>5. SeatsUsed(u, NoNumber)' <= SeatsUsed(u, NoNumber)
  BY <1>1, SeatsFewer
<1>6. Seats[plan[u]] <= Seats[plan'[u]]
  BY <1>1
<1> QED BY <1>2, <1>3, <1>4, <1>5, <1>6

LEMMA RemoveStep ==
  ASSUME AccessInv, NEW t \in Tenant, NEW n \in Number, RemoveMember(t, n), UNCHANGED signupVars
  PROVE  AccessInv'
<1> DEFINE k == <<n, t>>
<1>1. TypeOK /\ SignupSound /\ RowsSound /\ MessagesSound /\ SeatsWithinPlan /\ ReviewedFirst
  BY DEF AccessInv
<1>2. /\ Removable(n, t) /\ row' = [row EXCEPT ![<<n, t>>] = NoRow]
      /\ created' = RemoveFirst(created, k)
      /\ touched' = [touched EXCEPT ![n] = RemoveFirst(touched[n], t)]
      /\ pick' = [pick EXCEPT ![n] = IF pick[n] = t THEN NoTenant ELSE pick[n]]
      /\ UNCHANGED <<tenant, plan, at, strained, paused>>
  BY DEF RemoveMember
<1>3. NoRow \in Row /\ NoRow.status = "none"
  BY DEF NoRow, Row
<1>4. /\ row \in [Number \X Tenant -> Row] /\ touched \in [Number -> Seq(Tenant)]
      /\ created \in Seq(Number \X Tenant) /\ IsInjective(created)
      /\ pick \in [Number -> Tenant \cup {NoTenant}]
  BY <1>1 DEF TypeOK, TeamTypeOK
<1>5. /\ row' \in [Number \X Tenant -> Row] /\ row'[<<n, t>>] = NoRow
      /\ \A m \in Number, u \in Tenant : m # n \/ u # t => row'[<<m, u>>] = row[<<m, u>>]
  BY <1>2, <1>3, <1>4, PlaceWritten, Zenon
<1>6. touched' \in [Number -> Seq(Tenant)]
  <2>1. RemoveFirst(touched[n], t) \in Seq(Tenant)
    BY <1>4, RemovedFirstType
  <2> QED BY <1>2, <1>4, <2>1
<1>7. /\ created' \in Seq(Number \X Tenant) /\ IsInjective(created')
      /\ ~Listed(created', k) /\ \A y : y # k => (Listed(created', y) <=> Listed(created, y))
  <2> HIDE DEF k
  <2> QED BY <1>2, <1>4, RemovedFirst
<1>8. pick' \in [Number -> Tenant \cup {NoTenant}] /\ pick'[n] # t
      /\ \A m \in Number : pick'[m] = pick[m] \/ (m = n /\ pick'[m] = NoTenant)
  BY <1>2, <1>4, NobodyAssumption
<1>9. TypeOK'
  BY <1>1, <1>2, <1>5, <1>6, <1>7, <1>8 DEF TypeOK, TeamTypeOK, signupVars
<1>10. SignupSound'
  BY <1>1, <1>2, SignupKept
<1>11. \A m \in Number, u \in Tenant :
         row'[<<m, u>>] = row[<<m, u>>] \/ row'[<<m, u>>].status = "none"
  BY <1>3, <1>5, Zenon
<1>12. RowsSound'
  <2> SUFFICES ASSUME NEW m \in Number, NEW u \in Tenant PROVE RowSound(m, u)'
    BY DEF RowsSound
  <2>1. RowSound(m, u) /\ RowSound(n, t)
    BY <1>1 DEF RowsSound
  <2>2. CASE m = n /\ u = t
    <3>1. n # tenant[t].owner
      BY <1>2, <2>1 DEF RowSound, Removable, OwnerRow, NoRow
    <3>2. ~Live(n, t)' /\ ~Listed(created', <<n, t>>)
      BY <1>3, <1>5, <1>7 DEF Live
    <3> QED BY <1>2, <2>2, <3>1, <3>2 DEF RowSound, Owned
  <2>3. CASE ~(m = n /\ u = t)
    <3>1. <<m, u>> # k /\ row'[<<m, u>>] = row[<<m, u>>]
      BY <1>5, <2>3
    <3>2. Listed(created', <<m, u>>) <=> Listed(created, <<m, u>>)
      BY <1>7, <3>1
    <3> QED BY <1>2, <2>1, <3>1, <3>2 DEF RowSound, Owned, Live
  <2> QED BY <2>2, <2>3
<1>13. MessagesSound'
  <2> SUFFICES ASSUME NEW m \in Number PROVE MessageSound(m)'
    BY DEF MessagesSound
  <2>1. MessageSound(m)
    BY <1>1 DEF MessagesSound
  <2>2. \A u \in Tenant : Active(m, u)' => Active(m, u)
    BY <1>11 DEF Active
  <2>3. ASSUME NEW u \in Tenant, pick'[m] = u PROVE Live(m, u)'
    <3>1. pick[m] = u /\ ~(m = n /\ u = t)
      BY <1>8, <2>3, NobodyAssumption
    <3> QED BY <1>5, <2>1, <3>1 DEF MessageSound, Live
  <2> QED BY <1>2, <2>1, <2>2, <2>3 DEF MessageSound
<1>14. SeatsWithinPlan'
  <2>1. \A u \in Tenant, m \in Number : HoldsSeat(m, u)' => HoldsSeat(m, u)
    BY <1>11 DEF HoldsSeat, Active, Invited
  <2>2. \A u \in Tenant : Seats[plan[u]] <= Seats[plan'[u]]
    BY <1>1, <1>2, PlanAssumption DEF TypeOK, TeamTypeOK
  <2>3. plan' \in [Tenant -> Plan]
    BY <1>1, <1>2 DEF TypeOK, TeamTypeOK
  <2> DEFINE W == {}
  <2>4. W \in SUBSET Tenant /\ strained' \cup W = strained' /\ Tenant \ W = Tenant
    OBVIOUS
  <2> HIDE DEF W
  <2> QED BY <1>1, <1>2, <2>1, <2>2, <2>3, <2>4, SeatsKept
<1>15. ReviewedFirst'
  BY <1>1, <1>2 DEF ReviewedFirst, Owned, signupVars
<1> QED BY <1>9, <1>10, <1>12, <1>13, <1>14, <1>15 DEF AccessInv

LEMMA LapseStep ==
  ASSUME AccessInv, NEW t \in Tenant, NEW n \in Number, Lapse(n, t), UNCHANGED signupVars
  PROVE  AccessInv'
<1> DEFINE old == row[<<n, t>>]
<1>1. TypeOK /\ SignupSound /\ RowsSound /\ MessagesSound /\ SeatsWithinPlan /\ ReviewedFirst
  BY DEF AccessInv
<1>2. UNCHANGED <<tenant, plan, created, touched, at, pick, strained, paused>>
  BY DEF Lapse
<1>3. row \in [Number \X Tenant -> Row] /\ old \in Row
  BY <1>1 DEF TypeOK, TeamTypeOK
<1>4. PICK r \in Row :
         /\ row' = [row EXCEPT ![<<n, t>>] = r]
         /\ r.status = old.status /\ r.role = old.role /\ r.limited = old.limited
         /\ old.status # "none" /\ (old.over => r.over) /\ (old.stale => r.stale)
         /\ old.status = "invited" \/ old.limited
  <2>1. CASE old.status = "invited" /\ row' = [row EXCEPT ![<<n, t>>].stale = TRUE]
    <3> DEFINE x == [old EXCEPT !.stale = TRUE]
    <3>1. x \in Row /\ x.status = old.status /\ x.role = old.role /\ x.limited = old.limited
          /\ x.over = old.over /\ x.stale
      BY <1>3 DEF Row
    <3>2. row' = [row EXCEPT ![<<n, t>>] = x]
      BY <2>1
    <3> HIDE DEF x
    <3> QED BY <2>1, <3>1, <3>2
  <2>2. CASE old.status # "none" /\ old.limited /\ row' = [row EXCEPT ![<<n, t>>].over = TRUE]
    <3> DEFINE x == [old EXCEPT !.over = TRUE]
    <3>1. x \in Row /\ x.status = old.status /\ x.role = old.role /\ x.limited = old.limited
          /\ x.over /\ x.stale = old.stale
      BY <1>3 DEF Row
    <3>2. row' = [row EXCEPT ![<<n, t>>] = x]
      BY <2>2
    <3> HIDE DEF x
    <3> QED BY <2>2, <3>1, <3>2
  <2> QED BY <2>1, <2>2 DEF Lapse, Live
<1>5. /\ row' \in [Number \X Tenant -> Row] /\ row'[<<n, t>>] = r
      /\ \A m \in Number, u \in Tenant : m # n \/ u # t => row'[<<m, u>>] = row[<<m, u>>]
  BY <1>3, <1>4, PlaceWritten, Zenon
<1>6. TypeOK'
  BY <1>1, <1>2, <1>5 DEF TypeOK, TeamTypeOK, signupVars
<1>7. SignupSound'
  BY <1>1, <1>2, SignupKept
<1>8. \A m \in Number, u \in Tenant :
        /\ Live(m, u)' <=> Live(m, u)
        /\ Active(m, u)' => Active(m, u)
        /\ HoldsSeat(m, u)' => HoldsSeat(m, u)
  BY <1>4, <1>5, Zenon DEF Live, Active, Invited, HoldsSeat
<1>9. RowsSound'
  <2> SUFFICES ASSUME NEW m \in Number, NEW u \in Tenant PROVE RowSound(m, u)'
    BY DEF RowsSound
  <2>1. RowSound(m, u)
    BY <1>1 DEF RowsSound
  <2>2. CASE m = n /\ u = t
    BY <1>2, <1>4, <1>5, <1>8, <2>1, <2>2 DEF RowSound, Owned, OwnerRow, NoRow, Live
  <2>3. CASE ~(m = n /\ u = t)
    BY <1>2, <1>5, <1>8, <2>1, <2>3 DEF RowSound, Owned, Live
  <2> QED BY <2>2, <2>3
<1>10. MessagesSound'
  <2> SUFFICES ASSUME NEW m \in Number PROVE MessageSound(m)'
    BY DEF MessagesSound
  <2>1. MessageSound(m)
    BY <1>1 DEF MessagesSound
  <2> QED BY <1>2, <1>8, <2>1 DEF MessageSound
<1>11. SeatsWithinPlan'
  <2>1. \A u \in Tenant : Seats[plan[u]] <= Seats[plan'[u]]
    BY <1>1, <1>2, PlanAssumption DEF TypeOK, TeamTypeOK
  <2>2. plan' \in [Tenant -> Plan]
    BY <1>1, <1>2 DEF TypeOK, TeamTypeOK
  <2> DEFINE W == {}
  <2>3. W \in SUBSET Tenant /\ strained' \cup W = strained' /\ Tenant \ W = Tenant
    OBVIOUS
  <2> HIDE DEF W
  <2> QED BY <1>1, <1>2, <1>8, <2>1, <2>2, <2>3, SeatsKept
<1>12. ReviewedFirst'
  BY <1>1, <1>2 DEF ReviewedFirst, Owned, signupVars
<1> QED BY <1>6, <1>7, <1>9, <1>10, <1>11, <1>12 DEF AccessInv
LEMMA JoinStep ==
  ASSUME AccessInv, NEW n \in Number, Join(n), UNCHANGED signupVars
  PROVE  AccessInv'
<1> DEFINE t == pick[n]
           old == row[<<n, t>>]
           x == [old EXCEPT !.status = "active"]
<1>1. TypeOK /\ SignupSound /\ RowsSound /\ MessagesSound /\ SeatsWithinPlan /\ ReviewedFirst
  BY DEF AccessInv
<1>2. /\ at[n][1] = "join" /\ t # NoTenant /\ old.status = "invited"
      /\ row' = [row EXCEPT ![<<n, t>>].status = "active"]
      /\ touched' = [touched EXCEPT ![n] = Last1(touched[n], t)]
      /\ at' = [at EXCEPT ![n] = Idle]
      /\ pick' = [pick EXCEPT ![n] = NoTenant]
      /\ strained' = IF old.stale THEN strained \cup {t} ELSE strained
      /\ UNCHANGED <<tenant, plan, created, paused>>
  BY DEF Join, Touch
<1>3. /\ t \in Tenant
      /\ row \in [Number \X Tenant -> Row] /\ touched \in [Number -> Seq(Tenant)]
      /\ pick \in [Number -> Tenant \cup {NoTenant}] /\ strained \subseteq Tenant
      /\ at \in [Number -> {"idle", "known", "asked", "join", "stranger"} \X (Text \cup {Nothing})]
  BY <1>1, <1>2 DEF TypeOK, TeamTypeOK
<1>4. old \in Row
  BY <1>3
<1>5. x \in Row /\ x.status = "active" /\ x.role = old.role /\ x.over = old.over /\ x.stale = old.stale
  BY <1>4 DEF Row
<1>6. row' = [row EXCEPT ![<<n, t>>] = x]
  BY <1>2
<1> HIDE DEF x
<1>7. /\ row' \in [Number \X Tenant -> Row] /\ row'[<<n, t>>] = x
      /\ \A m \in Number, u \in Tenant : m # n \/ u # t => row'[<<m, u>>] = row[<<m, u>>]
  <2> HIDE DEF t
  <2> QED BY <1>3, <1>5, <1>6, PlaceWritten, Zenon
<1> HIDE DEF t
<1>8. touched' \in [Number -> Seq(Tenant)]
  <2>1. RemoveFirst(touched[n], t) \in Seq(Tenant)
    BY <1>3, RemovedFirstType
  <2>2. Last1(touched[n], t) \in Seq(Tenant)
    BY <1>3, <2>1, AppendProperties DEF Last1
  <2> QED BY <1>2, <1>3, <2>2
<1>9. /\ at' \in [Number -> {"idle", "known", "asked", "join", "stranger"} \X (Text \cup {Nothing})]
      /\ at'[n][1] = "idle" /\ \A m \in Number : m # n => at'[m] = at[m]
  BY <1>2, <1>3 DEF Idle
<1>10. /\ pick' \in [Number -> Tenant \cup {NoTenant}]
       /\ \A m \in Number : pick'[m] = pick[m] \/ pick'[m] = NoTenant
  BY <1>2, <1>3
<1>11. TypeOK'
  BY <1>1, <1>2, <1>3, <1>7, <1>8, <1>9, <1>10 DEF TypeOK, TeamTypeOK, signupVars
<1>12. SignupSound'
  BY <1>1, <1>2, SignupKept
<1>13. \A m \in Number, u \in Tenant : Live(m, u)' <=> Live(m, u)
  BY <1>2, <1>5, <1>7, Zenon DEF Live
<1>14. RowsSound'
  <2> SUFFICES ASSUME NEW m \in Number, NEW u \in Tenant PROVE RowSound(m, u)'
    BY DEF RowsSound
  <2>1. RowSound(m, u)
    BY <1>1 DEF RowsSound
  <2>2. CASE m = n /\ u = t
    BY <1>2, <1>5, <1>7, <1>13, <2>1, <2>2 DEF RowSound, Owned, OwnerRow, NoRow, Live
  <2>3. CASE ~(m = n /\ u = t)
    BY <1>2, <1>7, <1>13, <2>1, <2>3 DEF RowSound, Owned, Live
  <2> QED BY <2>2, <2>3
<1>15. MessagesSound'
  <2> SUFFICES ASSUME NEW m \in Number PROVE MessageSound(m)'
    BY DEF MessagesSound
  <2>1. MessageSound(m)
    BY <1>1 DEF MessagesSound
  <2>2. \A u \in Tenant : pick'[m] = u => Live(m, u)'
    BY <1>10, <1>13, <2>1, NobodyAssumption DEF MessageSound
  <2>3. CASE m # n
    <3>1. \A u \in Tenant : Active(m, u)' <=> Active(m, u)
      BY <1>7, <2>3 DEF Active
    <3> QED BY <1>2, <1>9, <2>1, <2>2, <2>3, <3>1 DEF MessageSound
  <2>4. CASE m = n
    <3>1. ~paused => \A u \in Tenant : Active(n, u)' => u = t
      BY <1>2, <1>7, <2>1, <2>4 DEF MessageSound, Active
    <3> QED BY <1>2, <1>9, <2>2, <2>4, <3>1 DEF MessageSound
  <2> QED BY <2>3, <2>4
<1>16. SeatsWithinPlan'
  <2>1. \A u \in Tenant : Seats[plan[u]] <= Seats[plan'[u]]
    BY <1>1, <1>2, PlanAssumption DEF TypeOK, TeamTypeOK
  <2>2. plan' \in [Tenant -> Plan]
    BY <1>1, <1>2 DEF TypeOK, TeamTypeOK
  <2> DEFINE W == IF old.stale THEN {t} ELSE {}
  <2>3. W \in SUBSET Tenant /\ strained' \cup W = strained' /\ strained \subseteq strained'
    BY <1>2, <1>3
  <2>4. \A u \in Tenant \ W, m \in Number : HoldsSeat(m, u)' => HoldsSeat(m, u)
    <3> SUFFICES ASSUME NEW u \in Tenant \ W, NEW m \in Number, HoldsSeat(m, u)'
                 PROVE  HoldsSeat(m, u)
      OBVIOUS
    <3>1. CASE m = n /\ u = t
      <4>1. ~old.stale /\ ~old.over
        BY <1>3, <1>4, <1>5, <1>7, <3>1 DEF HoldsSeat, Active, Invited, Row
      <4> QED BY <1>2, <3>1, <4>1 DEF HoldsSeat, Invited
    <3>2. CASE ~(m = n /\ u = t)
      BY <1>7, <3>2 DEF HoldsSeat, Active, Invited
    <3> QED BY <3>1, <3>2
  <2> HIDE DEF W
  <2> QED BY <1>1, <2>1, <2>2, <2>3, <2>4, SeatsKept
<1>17. ReviewedFirst'
  BY <1>1, <1>2 DEF ReviewedFirst, Owned, signupVars
<1> QED BY <1>11, <1>12, <1>14, <1>15, <1>16, <1>17 DEF AccessInv

\* A step of the message that leaves every row alone.
LEMMA HeardStep ==
  ASSUME AccessInv, NEW n \in Number,
         Hear(n, "join") \/ Hear(n, "code") \/ Hear(n, "other")
           \/ FindInvite(n) \/ InviteGone(n) \/ CheckPaused(n),
         UNCHANGED signupVars
  PROVE  AccessInv'
<1> DEFINE Where == {"idle", "known", "asked", "join", "stranger"}
<1>1. TypeOK /\ SignupSound /\ RowsSound /\ MessagesSound /\ SeatsWithinPlan /\ ReviewedFirst
  BY DEF AccessInv
<1>2. UNCHANGED <<tenant, plan, row, created, touched, strained, paused>>
  BY DEF Hear, FindInvite, InviteGone, CheckPaused
<1>3. /\ at \in [Number -> Where \X (Text \cup {Nothing})]
      /\ pick \in [Number -> Tenant \cup {NoTenant}]
  BY <1>1 DEF TypeOK, TeamTypeOK
<1>4. at[n] \in Where \X (Text \cup {Nothing}) /\ at[n][2] \in Text \cup {Nothing}
  BY <1>3
<1>5. PICK y \in Where \X (Text \cup {Nothing}) : at' = [at EXCEPT ![n] = y]
  <2>1. Idle \in Where \X (Text \cup {Nothing})
    BY DEF Idle
  <2>2. \A w \in Where : <<w, at[n][2]>> \in Where \X (Text \cup {Nothing})
    BY <1>4
  <2>3. \A w \in Where, text \in Text : <<w, text>> \in Where \X (Text \cup {Nothing})
    OBVIOUS
  <2>4. {"join", "code", "other"} \subseteq Text
    BY DEF Text
  <2>5. ASSUME NEW text \in Text, Hear(n, text)
        PROVE  \E y \in Where \X (Text \cup {Nothing}) : at' = [at EXCEPT ![n] = y]
    BY <2>3, <2>5 DEF Hear
  <2>6. CASE FindInvite(n) \/ InviteGone(n) \/ CheckPaused(n)
    BY <2>1, <2>2, <2>6 DEF FindInvite, InviteGone, CheckPaused
  <2> QED BY <2>4, <2>5, <2>6
<1>6. /\ pick' \in [Number -> Tenant \cup {NoTenant}]
      /\ \A m \in Number, u \in Tenant : pick'[m] = u => pick[m] = u \/ Live(m, u)
  <2>1. CASE UNCHANGED pick
    BY <1>3, <2>1
  <2>2. CASE FindInvite(n) /\ Answerable(n) # 0
    <3> DEFINE t == touched[n][Answerable(n)]
    <3>1. t \in Tenant /\ Invited(n, t)
      BY <1>1, <2>2, AnswerableFound
    <3>2. pick' = [pick EXCEPT ![n] = t]
      BY <2>2 DEF FindInvite
    <3> HIDE DEF t
    <3>3. Live(n, t)
      BY <3>1 DEF Live, Invited
    <3> QED BY <1>3, <3>1, <3>2, <3>3
  <2> QED BY <2>1, <2>2 DEF Hear, FindInvite, InviteGone, CheckPaused
<1>7. /\ at' \in [Number -> Where \X (Text \cup {Nothing})]
      /\ \A m \in Number : m # n => at'[m] = at[m]
  BY <1>3, <1>5
<1>8. TypeOK'
  BY <1>1, <1>2, <1>6, <1>7 DEF TypeOK, TeamTypeOK, signupVars
<1>9. SignupSound'
  BY <1>1, <1>2, SignupKept
<1>10. RowsSound'
  BY <1>1, <1>2, Zenon DEF RowsSound, RowSound, Owned, Live
<1>11. MessagesSound'
  <2> SUFFICES ASSUME NEW m \in Number PROVE MessageSound(m)'
    BY DEF MessagesSound
  <2>1. MessageSound(m)
    BY <1>1 DEF MessagesSound
  <2>2. \A u \in Tenant : (Active(m, u)' <=> Active(m, u)) /\ (Live(m, u)' <=> Live(m, u))
    BY <1>2 DEF Active, Live
  <2>3. ~paused /\ at'[m][1] # "idle" => \A u \in Tenant : ~Active(m, u)
    <3>1. CASE at[m][1] # "idle"
      BY <2>1, <3>1 DEF MessageSound
    <3>2. CASE at[m][1] = "idle" /\ m = n
      <4> SUFFICES ASSUME ~paused, NEW u \in Tenant, Active(n, u) PROVE FALSE
        BY <3>2
      <4>1. CASE Resolved(n) = NoTenant
        <5>1. Live(n, u) /\ RowSound(n, u) /\ TenantSound(u)
          BY <1>1 DEF Active, Live, RowsSound, SignupSound, TenantsSound
        <5>2. Owned(u) /\ Listed(created, <<n, u>>)
          BY <5>1 DEF RowSound
        <5>3. tenant[u].status = "active"
          <6>1. tenant[u].status \in {"absent", "pending", "active", "suspended"}
            BY <1>1 DEF TypeOK, TeamTypeOK, Business
          <6>2. tenant[u].status # "suspended" /\ tenant[u].status # "pending"
            BY <5>1, <5>2 DEF TenantSound
          <6>3. tenant[u].status # "absent"
            BY <5>1, <5>2 DEF TenantSound, Owned, NoBusiness
          <6> QED BY <6>1, <6>2, <6>3
        <5>4. Resolvable(n, u)
          BY <5>3 DEF Resolvable
        <5> QED BY <1>1, <4>1, <5>2, <5>4, ResolvedNothing
      <4>2. CASE FindInvite(n) \/ InviteGone(n) \/ CheckPaused(n)
        BY <3>2, <4>2 DEF FindInvite, InviteGone, CheckPaused
      <4> QED BY <4>1, <4>2 DEF Hear
    <3>3. CASE m # n
      BY <1>7, <2>1, <3>3 DEF MessageSound
    <3> QED BY <3>1, <3>2, <3>3
  <2>4. \A u \in Tenant : pick'[m] = u => Live(m, u)
    BY <1>6, <2>1 DEF MessageSound
  <2> QED BY <1>2, <2>1, <2>2, <2>3, <2>4 DEF MessageSound
<1>12. SeatsWithinPlan'
  BY <1>1, <1>2 DEF SeatsWithinPlan, SeatsUsed, HoldsSeat, Active, Invited
<1>13. ReviewedFirst'
  BY <1>1, <1>2 DEF ReviewedFirst, Owned, signupVars
<1> QED BY <1>8, <1>9, <1>10, <1>11, <1>12, <1>13 DEF AccessInv
LEMMA StatusStep ==
  ASSUME AccessInv, NEW t \in Tenant, Suspend(t) \/ Reactivate(t), UNCHANGED signupVars
  PROVE  AccessInv'
<1>1. TypeOK /\ SignupSound /\ MessagesSound
  BY DEF AccessInv
<1>2. /\ UNCHANGED <<plan, row, created, touched, at, pick, strained>>
      /\ paused => paused'
  BY DEF Suspend, Reactivate
<1>3. tenant \in [Tenant -> Business] /\ tenant[t] \in Business
  BY <1>1 DEF TypeOK, TeamTypeOK
<1>4. PICK x \in Business :
        /\ tenant' = [tenant EXCEPT ![t] = x]
        /\ x.owner = tenant[t].owner /\ x.review = tenant[t].review
        /\ x.applicant = tenant[t].applicant
        /\ \/ x.status = "suspended" /\ tenant[t].status # "absent" /\ paused'
           \/ x.status = "active" /\ Owned(t)
  <2>1. CASE Suspend(t)
    <3> DEFINE x == [tenant[t] EXCEPT !.status = "suspended"]
    <3>1. /\ x \in Business /\ x.owner = tenant[t].owner /\ x.review = tenant[t].review
          /\ x.applicant = tenant[t].applicant /\ x.status = "suspended"
      BY <1>3 DEF Business
    <3>2. tenant' = [tenant EXCEPT ![t] = x] /\ tenant[t].status # "absent" /\ paused'
      BY <2>1 DEF Suspend
    <3> HIDE DEF x
    <3> QED BY <3>1, <3>2
  <2>2. CASE Reactivate(t)
    <3> DEFINE x == [tenant[t] EXCEPT !.status = "active"]
    <3>1. /\ x \in Business /\ x.owner = tenant[t].owner /\ x.review = tenant[t].review
          /\ x.applicant = tenant[t].applicant /\ x.status = "active"
      BY <1>3 DEF Business
    <3>2. tenant' = [tenant EXCEPT ![t] = x] /\ Owned(t)
      BY <2>2 DEF Reactivate, Owned
    <3> HIDE DEF x
    <3> QED BY <3>1, <3>2
  <2> QED BY <2>1, <2>2
<1>5. /\ tenant' \in [Tenant -> Business] /\ tenant'[t] = x
      /\ \A u \in Tenant : u # t => tenant'[u] = tenant[u]
  BY <1>3, <1>4
<1>6. \A u \in Tenant : /\ tenant'[u].owner = tenant[u].owner
                        /\ tenant'[u].review = tenant[u].review
                        /\ tenant'[u].applicant = tenant[u].applicant
                        /\ tenant[u].status # "absent" => tenant'[u].status # "absent"
  <2>1. tenant[t].status = "absent" => ~Owned(t)
    BY <1>1 DEF SignupSound, TenantsSound, TenantSound, Owned, NoBusiness
  <2> QED BY <1>4, <1>5, <2>1
<1>7. TypeOK'
  <2>1. paused' \in BOOLEAN
    BY <1>1 DEF Suspend, Reactivate, TypeOK, TeamTypeOK
  <2> QED BY <1>1, <1>2, <1>5, <2>1 DEF TypeOK, TeamTypeOK, signupVars
<1>8. TenantsSound'
  <2> SUFFICES ASSUME NEW u \in Tenant PROVE TenantSound(u)'
    BY DEF TenantsSound
  <2>1. TenantSound(u)
    BY <1>1 DEF SignupSound, TenantsSound
  <2>2. CASE u = t
    BY <1>2, <1>4, <1>5, <2>1, <2>2 DEF TenantSound, Owned, signupVars
  <2>3. CASE u # t
    BY <1>2, <1>5, <2>1, <2>3 DEF TenantSound, Owned, signupVars
  <2> QED BY <2>2, <2>3
<1>9. ReviewsSound' /\ DeskSound'
  <2>1. \A d \in desk : d[2] \in Tenant
    BY <1>1 DEF TypeOK
  <2> QED BY <1>1, <1>6, <2>1 DEF SignupSound, ReviewsSound, ReviewSound, DeskSound, signupVars
<1>10. FormsSound'
  <2> SUFFICES ASSUME NEW m \in Number PROVE FormSound(m)'
    BY DEF FormsSound
  <2>1. FormSound(m) /\ form[m].for \in Tenant \cup {NoTenant}
    BY <1>1 DEF SignupSound, FormsSound, TypeOK, Form
  <2> QED BY <1>6, <2>1 DEF FormSound, Addressed, signupVars
<1>11. RowsSound'
  BY <1>2, <1>6, ZenonT(60) DEF AccessInv, RowsSound, RowSound, Owned, Live
<1>12. MessagesSound'
  <2> SUFFICES ASSUME NEW m \in Number PROVE MessageSound(m)'
    BY DEF MessagesSound
  <2>1. MessageSound(m)
    BY <1>1 DEF MessagesSound
  <2> QED BY <1>2, <2>1 DEF MessageSound, Live, Active
<1>13. SeatsWithinPlan'
  BY <1>2 DEF AccessInv, SeatsWithinPlan, SeatsUsed, HoldsSeat, Active, Invited
<1>14. ReviewedFirst'
  BY <1>6 DEF AccessInv, ReviewedFirst, Owned, signupVars
<1> QED BY <1>7, <1>8, <1>9, <1>10, <1>11, <1>12, <1>13, <1>14 DEF AccessInv, SignupSound

LEMMA PlanStep ==
  ASSUME AccessInv, NEW t \in Tenant, NEW p \in Plan, ChangePlan(t, p), UNCHANGED signupVars
  PROVE  AccessInv'
<1>1. TypeOK /\ SignupSound /\ RowsSound /\ MessagesSound /\ SeatsWithinPlan
  BY DEF AccessInv
<1>2. /\ tenant[t].status = "active" /\ plan' = [plan EXCEPT ![t] = p]
      /\ strained' = IF SeatsUsed(t, NoNumber) > Seats[p] THEN strained \cup {t} ELSE strained
      /\ UNCHANGED <<tenant, row, created, touched, at, pick, paused>>
  BY DEF ChangePlan
<1>3. /\ plan' \in [Tenant -> Plan] /\ plan'[t] = p
      /\ \A u \in Tenant : u # t => plan'[u] = plan[u]
  BY <1>1, <1>2 DEF TypeOK, TeamTypeOK
<1>4. TypeOK'
  BY <1>1, <1>2, <1>3 DEF TypeOK, TeamTypeOK, signupVars
<1>5. SignupSound'
  <2>1. TenantsSound'
    <3> SUFFICES ASSUME NEW u \in Tenant PROVE TenantSound(u)'
      BY DEF TenantsSound
    <3>1. TenantSound(u) /\ TenantSound(t)
      BY <1>1 DEF SignupSound, TenantsSound
    <3>2. Owned(t)
      BY <1>2, <3>1 DEF TenantSound
    <3> QED BY <1>2, <1>3, <3>1, <3>2 DEF TenantSound, Owned, signupVars
  <2>2. ReviewsSound'
    BY <1>1, <1>2 DEF SignupSound, ReviewsSound, ReviewSound, signupVars
  <2>3. FormsSound'
    BY <1>1, <1>2 DEF SignupSound, FormsSound, FormSound, Addressed, signupVars
  <2>4. DeskSound'
    BY <1>1, <1>2 DEF SignupSound, DeskSound, signupVars
  <2> QED BY <2>1, <2>2, <2>3, <2>4 DEF SignupSound
<1>6. RowsSound'
  BY <1>1, <1>2, Zenon DEF RowsSound, RowSound, Owned, Live
<1>7. MessagesSound'
  BY <1>1, <1>2 DEF MessagesSound, MessageSound, Live, Active
<1>8. SeatsWithinPlan'
  <2> SUFFICES ASSUME NEW u \in Tenant, u \notin strained'
               PROVE  SeatsUsed(u, NoNumber)' <= Seats[plan'[u]]
    BY DEF SeatsWithinPlan
  <2>1. SeatsUsed(u, NoNumber)' = SeatsUsed(u, NoNumber)
    BY <1>2 DEF SeatsUsed, HoldsSeat, Active, Invited
  <2>2. SeatsUsed(u, NoNumber) \in Nat /\ Seats[p] \in Nat
    BY SeatsNumber, PlanAssumption DEF SeatsAreNumbers
  <2>3. CASE u = t
    BY <1>2, <1>3, <2>1, <2>2, <2>3
  <2>4. CASE u # t
    BY <1>1, <1>2, <1>3, <2>1, <2>4 DEF SeatsWithinPlan
  <2> QED BY <2>3, <2>4
<1>9. ReviewedFirst'
  BY <1>2 DEF AccessInv, ReviewedFirst, Owned, signupVars
<1> QED BY <1>4, <1>5, <1>6, <1>7, <1>8, <1>9 DEF AccessInv
LEMMA TeamStep ==
  ASSUME AccessInv, TeamInputs \/ TeamSteps, UNCHANGED signupVars
  PROVE  AccessInv'
<1>1. CASE OwnerCommands
  <2>1. PICK t \in Tenant, n \in Number :
          \/ \E r \in Role, limited \in BOOLEAN : InviteMember(t, n, r, limited, FALSE)
          \/ \E r \in Role : ChangeMember(t, n, r, "keep")
          \/ RemoveMember(t, n)
    BY <1>1 DEF OwnerCommands
  <2> QED BY <2>1, InviteStep, ChangeStep, RemoveStep
<1>2. CASE DeskCommands
  <2>1. PICK t \in Tenant, n \in Number :
          \/ \E r \in Role, limited, override \in BOOLEAN :
               InviteMember(t, n, r, limited, override)
          \/ \E r \in Role, ends \in {"keep", "later", "never"} : ChangeMember(t, n, r, ends)
          \/ RemoveMember(t, n)
          \/ RefreshInvite(t, n)
    BY <1>2 DEF DeskCommands
  <2> QED BY <2>1, InviteStep, ChangeStep, RemoveStep, RefreshStep
<1>3. ASSUME NEW n \in Number, NEW t \in Tenant, Lapse(n, t) PROVE AccessInv'
  BY <1>3, LapseStep
<1>4. ASSUME NEW n \in Number, NEW text \in Text, Hear(n, text) PROVE AccessInv'
  BY <1>4, HeardStep DEF Text
<1>5. ASSUME NEW t \in Tenant, Suspend(t) \/ Reactivate(t) \/ \E p \in Plan : ChangePlan(t, p)
      PROVE  AccessInv'
  BY <1>5, StatusStep, PlanStep
<1>6. ASSUME NEW n \in Number, FindInvite(n) \/ Join(n) \/ InviteGone(n) \/ CheckPaused(n)
      PROVE  AccessInv'
  BY <1>6, HeardStep, JoinStep
<1> QED BY <1>1, <1>2, <1>3, <1>4, <1>5, <1>6 DEF TeamInputs, TeamSteps
-------------------------------------------------------------------------------
LEMMA SignupChange ==
  ASSUME AccessInv, TypeOK',
         UNCHANGED <<plan, row, created, touched, pick, strained, paused>>,
         \A n \in Number : at'[n][1] # "idle" => at[n][1] # "idle",
         approved \subseteq approved',
         \A u \in Tenant : /\ tenant'[u].owner = tenant[u].owner
                           /\ tenant[u].status # "absent" =>
                                tenant'[u].applicant = tenant[u].applicant
                                /\ tenant'[u].status # "absent",
         \A u \in Tenant : \/ tenant'[u] = tenant[u] /\ code'[u] = code[u]
                           \/ TenantSound(u)' /\ ReviewSound(u)',
         \A u \in Tenant, m \in Number : Addressed(u, m) => Addressed(u, m)',
         \A m \in Number : \/ form'[m] = form[m] /\ sent'[m].form <= sent[m].form
                           \/ FormSound(m)',
         DeskSound'
  PROVE  AccessInv'
<1>1. TypeOK /\ SignupSound
  BY DEF AccessInv
<1>2. TenantsSound'
  <2> SUFFICES ASSUME NEW u \in Tenant PROVE TenantSound(u)'
    BY DEF TenantsSound
  <2>1. TenantSound(u)
    BY <1>1 DEF SignupSound, TenantsSound
  <2>2. CASE tenant'[u] = tenant[u] /\ code'[u] = code[u]
    BY <2>1, <2>2 DEF TenantSound, Owned
  <2> QED BY <2>2
<1>3. ReviewsSound'
  <2> SUFFICES ASSUME NEW u \in Tenant PROVE ReviewSound(u)'
    BY DEF ReviewsSound
  <2>1. ReviewSound(u)
    BY <1>1 DEF SignupSound, ReviewsSound
  <2>2. CASE tenant'[u] = tenant[u] /\ code'[u] = code[u]
    BY <2>1, <2>2 DEF ReviewSound
  <2> QED BY <2>2
<1>4. FormsSound'
  <2> SUFFICES ASSUME NEW m \in Number PROVE FormSound(m)'
    BY DEF FormsSound
  <2>1. FormSound(m) /\ form[m].for \in Tenant \cup {NoTenant}
    BY <1>1 DEF SignupSound, FormsSound, TypeOK, Form
  <2>2. CASE form'[m] = form[m] /\ sent'[m].form <= sent[m].form
    <3>1. ASSUME NEW t \in Tenant, form[m].for = t
          PROVE  Addressed(t, m) /\ Addressed(t, m)'
      <4>1. Addressed(t, m)
        BY <2>1, <3>1, NobodyAssumption DEF FormSound
      <4> QED BY <4>1
    <3>2. form[m].at = "reapply" => tenant'[form[m].for].applicant = m
      <4>1. form[m].at = "reapply" => form[m].for \in Tenant /\ tenant[form[m].for].applicant = m
        BY <2>1 DEF FormSound
      <4> QED BY <3>1, <4>1, NobodyAssumption DEF Addressed
    <3>3. form[m].at = "issue" => sent'[m].form < PerNumber
      <4>1. sent[m].form \in Nat /\ sent'[m].form \in Nat /\ PerNumber \in Nat
        BY <1>1, CodeAssumption DEF TypeOK
      <4> QED BY <2>1, <2>2, <4>1 DEF FormSound
    <3> QED BY <2>1, <2>2, <3>1, <3>2, <3>3 DEF FormSound
  <2> QED BY <2>2
<1>5. \A u \in Tenant : Owned(u) => tenant[u].status # "absent"
  BY <1>1 DEF SignupSound, TenantsSound, TenantSound, Owned, NoBusiness
<1>6. RowsSound' /\ MessagesSound' /\ SeatsWithinPlan' /\ ReviewedFirst'
  BY <1>5, RestKept
<1> QED BY <1>2, <1>3, <1>4, <1>6 DEF AccessInv, SignupSound
-------------------------------------------------------------------------------
LEMMA AccessParts ==
  ASSUME AccessInv
  PROVE  /\ TypeOK /\ DeskSound
         /\ \A t \in Tenant : TenantSound(t) /\ ReviewSound(t)
         /\ \A n \in Number : FormSound(n)
         /\ tenant \in [Tenant -> Business] /\ code \in [Tenant -> Code]
         /\ form \in [Number -> Form] /\ sent \in [Number -> [form : 0..PerNumber, desk : 0..1]]
         /\ approved \subseteq Tenant /\ desk \subseteq {"approve", "decline"} \X Tenant
BY DEF AccessInv, SignupSound, TenantsSound, ReviewsSound, FormsSound, TypeOK, TeamTypeOK

LEMMA SubmitStep ==
  ASSUME AccessInv, NEW n \in Number, Submit(n)
  PROVE  AccessInv'
<1>1. UNCHANGED <<tenant, plan, row, created, touched, at, pick, strained, paused,
                  reviewed, code, sent, desk, approved>>
  BY DEF Submit, teamVars
<1>2. PICK what \in {"reapply", "issue", "apply"}, t \in Tenant \cup {NoTenant}, review \in Review :
        /\ Decide(n, what, t, review)
        /\ t # NoTenant => Addressed(t, n)
        /\ what = "reapply" => t # NoTenant /\ tenant[t].applicant = n
  <2>1. ASSUME NEW t \in Application(n)
        PROVE  t \in Tenant /\ tenant[t].review \in Review /\ Addressed(t, n)
               /\ t # NoTenant /\ tenant[t].applicant = n
    BY AccessParts, NobodyAssumption DEF Application, Addressed, Business
  <2>2. ASSUME NEW t \in Application(n),
               IF reviewed /\ tenant[t].review # "approved"
                 THEN Decide(n, "reapply", t, tenant[t].review)
                 ELSE Decide(n, "issue", t, tenant[t].review)
        PROVE  \E what \in {"reapply", "issue", "apply"}, u \in Tenant \cup {NoTenant}, review \in Review :
                 /\ Decide(n, what, u, review)
                 /\ u # NoTenant => Addressed(u, n)
                 /\ what = "reapply" => u # NoTenant /\ tenant[u].applicant = n
    BY <2>1, <2>2
  <2>3. "none" \in Review /\ NoTenant \in Tenant \cup {NoTenant}
    BY DEF Review
  <2>4. ASSUME NEW t \in ByCode(n) PROVE t \in Tenant /\ t # NoTenant /\ Addressed(t, n)
    <3>1. t \in Tenant /\ tenant[t].status = "pending" /\ code[t].to = n /\ TenantSound(t)
      BY AccessParts DEF ByCode
    <3>2. tenant[t].applicant = n \/ tenant[t].applicant = NoNumber
      BY <3>1, NobodyAssumption DEF TenantSound
    <3> QED BY <3>1, <3>2, NobodyAssumption DEF Addressed
  <2>5. ASSUME NEW t \in IF ByCode(n) # {} THEN ByCode(n) ELSE {NoTenant}, Decide(n, "issue", t, "none")
        PROVE  \E what \in {"reapply", "issue", "apply"}, u \in Tenant \cup {NoTenant}, review \in Review :
                 /\ Decide(n, what, u, review)
                 /\ u # NoTenant => Addressed(u, n)
                 /\ what = "reapply" => u # NoTenant /\ tenant[u].applicant = n
    <3>1. t \in Tenant \cup {NoTenant} /\ (t # NoTenant => Addressed(t, n))
      BY <2>4, <2>5
    <3> QED BY <2>3, <2>5, <3>1
  <2>6. CASE Decide(n, "apply", NoTenant, "none")
    BY <2>3, <2>6
  <2> QED BY <2>2, <2>5, <2>6 DEF Submit
<1> DEFINE f == [at |-> what, for |-> t, read |-> review]
<1>3. f \in Form /\ f.at = what /\ f.for = t
  BY DEF Form
<1>4. form' = [form EXCEPT ![n] = f]
  BY <1>2 DEF Decide
<1> HIDE DEF f
<1>5. form' \in [Number -> Form] /\ form'[n] = f /\ \A m \in Number : m # n => form'[m] = form[m]
  BY <1>3, <1>4, AccessParts
<1>6. TypeOK'
  BY <1>1, <1>5, AccessParts DEF TypeOK, TeamTypeOK
<1>7. sent[n].form < PerNumber
  <2>1. sent[n].form \in Nat /\ sent[n].desk \in Nat /\ PerNumber \in Nat
    BY AccessParts, CodeAssumption
  <2> QED BY <2>1 DEF Submit, MaySubmit, SentTo
<1>8. FormSound(n)'
  BY <1>1, <1>2, <1>3, <1>5, <1>7 DEF FormSound, Addressed
<1>9. DeskSound'
  BY <1>1, AccessParts DEF DeskSound
<1>10. \A m \in Number : sent'[m].form <= sent[m].form
  BY <1>1, AccessParts
<1>11. \A u \in Tenant, m \in Number : Addressed(u, m) => Addressed(u, m)'
  BY <1>1 DEF Addressed
<1> QED BY <1>1, <1>5, <1>6, <1>8, <1>9, <1>10, <1>11, SignupChange
LEMMA FormClosed ==
  ASSUME NEW n \in Number, form \in [Number -> Form], form' = [form EXCEPT ![n] = NoForm]
  PROVE  /\ form' \in [Number -> Form] /\ form'[n] = NoForm
         /\ \A m \in Number : m # n => form'[m] = form[m]
         /\ FormSound(n)'
<1>1. NoForm \in Form /\ NoForm.for = NoTenant /\ NoForm.at = "idle"
  BY DEF NoForm, Form, Review
<1>2. form' \in [Number -> Form] /\ form'[n] = NoForm /\ \A m \in Number : m # n => form'[m] = form[m]
  BY <1>1
<1> QED BY <1>1, <1>2 DEF FormSound

LEMMA ApplyStep ==
  ASSUME AccessInv, NEW n \in Number, Apply(n)
  PROVE  AccessInv'
<1> DEFINE x == [status |-> "pending", owner |-> NoNumber, review |-> "awaiting", applicant |-> n]
<1>1. /\ form' = [form EXCEPT ![n] = NoForm]
      /\ UNCHANGED <<plan, row, created, touched, at, pick, strained, paused,
                     reviewed, code, sent, desk, approved>>
  BY DEF Apply
<1>2. PICK t \in Absent : tenant' = [tenant EXCEPT ![t] = x]
  BY DEF Apply
<1>3. t \in Tenant /\ tenant[t].status = "absent" /\ TenantSound(t)
  BY AccessParts DEF Absent
<1>4. x \in Business /\ x.status = "pending" /\ x.owner = NoNumber /\ x.review = "awaiting" /\ x.applicant = n
  BY DEF Business, Review
<1> HIDE DEF x
<1>5. tenant' \in [Tenant -> Business] /\ tenant'[t] = x /\ \A u \in Tenant : u # t => tenant'[u] = tenant[u]
  BY <1>2, <1>3, <1>4, AccessParts
<1>6. form' \in [Number -> Form] /\ FormSound(n)' /\ \A m \in Number : m # n => form'[m] = form[m]
  BY <1>1, FormClosed, AccessParts
<1>7. TypeOK'
  BY <1>1, <1>5, <1>6, AccessParts DEF TypeOK, TeamTypeOK
<1>8. /\ tenant[t].owner = NoNumber /\ tenant[t].applicant = NoNumber
      /\ code[t].to = NoNumber /\ ~code[t].live
  BY <1>3 DEF TenantSound, NoBusiness
<1>9. TenantSound(t)' /\ ReviewSound(t)'
  <2>1. plan[t] = NoSubscription
    BY <1>3, <1>8 DEF TenantSound, Owned
  <2>2. TenantSound(t)'
    BY <1>1, <1>4, <1>5, <1>8, <2>1 DEF TenantSound, Owned
  <2>3. ReviewSound(t)'
    BY <1>1, <1>4, <1>5, <1>8, NobodyAssumption DEF ReviewSound
  <2> QED BY <2>2, <2>3
<1>10. \A u \in Tenant, m \in Number : Addressed(u, m) => Addressed(u, m)'
  BY <1>1, <1>3, <1>5 DEF Addressed
<1>11. DeskSound'
  <2> SUFFICES ASSUME NEW d \in desk PROVE tenant'[d[2]].applicant # NoNumber
    BY <1>1 DEF DeskSound
  <2>1. tenant[d[2]].applicant # NoNumber /\ d[2] \in Tenant
    BY AccessParts DEF DeskSound
  <2> QED BY <1>5, <1>8, <2>1
<1>12. \A m \in Number : sent'[m].form <= sent[m].form
  BY <1>1, AccessParts
<1>13. \A u \in Tenant : tenant'[u].owner = tenant[u].owner
  BY <1>4, <1>5, <1>8
<1> QED BY <1>1, <1>3, <1>5, <1>6, <1>7, <1>9, <1>10, <1>11, <1>12, <1>13, SignupChange

LEMMA ReapplyStep ==
  ASSUME AccessInv, NEW n \in Number, Reapply(n)
  PROVE  AccessInv'
<1>1. /\ form' = [form EXCEPT ![n] = NoForm] /\ form[n].at = "reapply"
      /\ tenant' = [tenant EXCEPT ![form[n].for].review = "awaiting"]
      /\ UNCHANGED <<plan, row, created, touched, at, pick, strained, paused,
                     reviewed, code, sent, desk, approved>>
  BY DEF Reapply
<1>2. PICK t \in Tenant : form[n].for = t /\ tenant[t].applicant = n /\ Addressed(t, n)
  <2>1. form[n] \in Form /\ FormSound(n)
    BY AccessParts
  <2> QED BY <1>1, <2>1 DEF FormSound, Form
<1> DEFINE x == [tenant[t] EXCEPT !.review = "awaiting"]
<1>3. /\ x \in Business /\ x.status = tenant[t].status /\ x.owner = tenant[t].owner
      /\ x.review = "awaiting" /\ x.applicant = n
  <2>1. tenant[t] \in Business
    BY <1>2, AccessParts
  <2> QED BY <1>2, <2>1 DEF Business, Review
<1>4. tenant' = [tenant EXCEPT ![t] = x]
  BY <1>1, <1>2
<1> HIDE DEF x
<1>5. tenant' \in [Tenant -> Business] /\ tenant'[t] = x /\ \A u \in Tenant : u # t => tenant'[u] = tenant[u]
  BY <1>2, <1>3, <1>4, AccessParts
<1>6. form' \in [Number -> Form] /\ FormSound(n)' /\ \A m \in Number : m # n => form'[m] = form[m]
  BY <1>1, FormClosed, AccessParts
<1>7. TypeOK'
  BY <1>1, <1>5, <1>6, AccessParts DEF TypeOK, TeamTypeOK
<1>8. tenant[t].status # "absent"
  BY <1>2 DEF Addressed
<1>9. TenantSound(t)' /\ ReviewSound(t)'
  <2>1. TenantSound(t)'
    BY <1>1, <1>2, <1>3, <1>5, <1>8, AccessParts DEF TenantSound, Owned
  <2>2. ReviewSound(t)'
    BY <1>1, <1>2, <1>3, <1>5, NobodyAssumption, AccessParts DEF ReviewSound
  <2> QED BY <2>1, <2>2
<1>10. \A u \in Tenant : /\ tenant'[u].owner = tenant[u].owner
                         /\ tenant'[u].status = tenant[u].status
                         /\ tenant'[u].applicant = tenant[u].applicant
  BY <1>2, <1>3, <1>5
<1>11. \A u \in Tenant, m \in Number : Addressed(u, m) => Addressed(u, m)'
  BY <1>1, <1>10 DEF Addressed
<1>12. DeskSound'
  <2> SUFFICES ASSUME NEW d \in desk PROVE tenant'[d[2]].applicant # NoNumber
    BY <1>1 DEF DeskSound
  <2>1. tenant[d[2]].applicant # NoNumber /\ d[2] \in Tenant
    BY AccessParts DEF DeskSound
  <2> QED BY <1>10, <2>1
<1>13. \A m \in Number : sent'[m].form <= sent[m].form
  BY <1>1, AccessParts
<1>14. \A u \in Tenant : \/ tenant'[u] = tenant[u] /\ code'[u] = code[u]
                         \/ TenantSound(u)' /\ ReviewSound(u)'
  BY <1>1, <1>5, <1>9
<1> QED BY <1>1, <1>6, <1>7, <1>10, <1>11, <1>12, <1>13, <1>14, SignupChange

LEMMA IssueStep ==
  ASSUME AccessInv, NEW n \in Number, Issue(n)
  PROVE  AccessInv'
<1>1. PICK t \in IF form[n].for = NoTenant THEN Absent ELSE {form[n].for} :
        /\ form[n].at = "issue"
        /\ tenant' = [tenant EXCEPT
             ![t].status = IF @ = "absent" THEN "pending" ELSE @,
             ![t].review = IF tenant[t].applicant # NoNumber /\ form[n].read # "approved"
                             THEN "approved" ELSE @]
        /\ approved' = IF tenant[t].applicant # NoNumber THEN approved \cup {t} ELSE approved
        /\ code' = [code EXCEPT ![t] = NewCode(n, "form")]
        /\ sent' = [sent EXCEPT ![n].form = @ + 1]
        /\ form' = [form EXCEPT ![n].at = "send", ![n].for = t]
        /\ UNCHANGED <<plan, row, created, touched, at, pick, strained, paused, reviewed, desk>>
  BY DEF Issue
<1>2. form[n] \in Form /\ FormSound(n)
  BY AccessParts
<1>3. t \in Tenant /\ (tenant[t].status = "absent" \/ Addressed(t, n))
  BY <1>1, <1>2 DEF Absent, FormSound, Form
<1>4. TenantSound(t) /\ ReviewSound(t) /\ tenant[t] \in Business
  BY <1>3, AccessParts
<1> DEFINE x == [tenant[t] EXCEPT
             !.status = IF tenant[t].status = "absent" THEN "pending" ELSE tenant[t].status,
             !.review = IF tenant[t].applicant # NoNumber /\ form[n].read # "approved"
                             THEN "approved" ELSE tenant[t].review]
           c == NewCode(n, "form")
           f == [form[n] EXCEPT !.at = "send", !.for = t]
           s == [sent[n] EXCEPT !.form = sent[n].form + 1]
<1>5. /\ x \in Business /\ x.owner = tenant[t].owner /\ x.applicant = tenant[t].applicant
      /\ x.status = (IF tenant[t].status = "absent" THEN "pending" ELSE tenant[t].status)
      /\ x.review = IF tenant[t].applicant # NoNumber /\ form[n].read # "approved"
                             THEN "approved" ELSE tenant[t].review
  BY <1>4 DEF Business, Review
<1>6. c \in Code /\ c.to = n /\ c.live /\ c.fails = 0
  BY CodeAssumption DEF NewCode, Code
<1>7. f \in Form /\ f.at = "send" /\ f.for = t
  BY <1>2, <1>3 DEF Form
<1>8. s \in [form : 0..PerNumber, desk : 0..1]
  <2>1. sent[n] \in [form : 0..PerNumber, desk : 0..1] /\ sent[n].form < PerNumber /\ PerNumber \in Nat
    BY <1>1, <1>2, AccessParts, CodeAssumption DEF FormSound
  <2>2. sent[n].form + 1 \in 0..PerNumber
    BY <2>1
  <2> QED BY <2>1, <2>2
<1>9. /\ tenant' = [tenant EXCEPT ![t] = x] /\ form' = [form EXCEPT ![n] = f]
      /\ sent' = [sent EXCEPT ![n] = s] /\ code' = [code EXCEPT ![t] = c]
  BY <1>1, <1>3, AccessParts
<1> HIDE DEF x, c, f, s
<1>10. /\ tenant' \in [Tenant -> Business] /\ tenant'[t] = x
       /\ \A u \in Tenant : u # t => tenant'[u] = tenant[u]
       /\ code' \in [Tenant -> Code] /\ code'[t] = c
       /\ \A u \in Tenant : u # t => code'[u] = code[u]
  BY <1>3, <1>5, <1>6, <1>9, AccessParts
<1>11. /\ form' \in [Number -> Form] /\ form'[n] = f
       /\ \A m \in Number : m # n => form'[m] = form[m]
       /\ sent' \in [Number -> [form : 0..PerNumber, desk : 0..1]]
       /\ \A m \in Number : m # n => sent'[m] = sent[m]
  BY <1>7, <1>8, <1>9, AccessParts
<1>12. approved' \subseteq Tenant /\ approved \subseteq approved'
  BY <1>1, <1>3, AccessParts
<1>13. TypeOK'
  BY <1>1, <1>10, <1>11, <1>12, AccessParts DEF TypeOK, TeamTypeOK
<1>14. /\ \A u \in Tenant : /\ tenant'[u].owner = tenant[u].owner
                            /\ tenant'[u].applicant = tenant[u].applicant
                            /\ tenant'[u].status # "absent" \/ (u # t /\ tenant'[u].status = tenant[u].status)
       /\ tenant[t].status = "absent" => tenant[t].owner = NoNumber /\ tenant[t].applicant = NoNumber
  BY <1>3, <1>4, <1>5, <1>10 DEF TenantSound, NoBusiness
<1>15. tenant[t].applicant \in {n, NoNumber} /\ tenant[t].owner \in {n, NoNumber}
  <2>1. CASE Addressed(t, n)
    BY <1>4, <2>1, NobodyAssumption DEF Addressed, TenantSound, Owned
  <2> QED BY <1>3, <1>14, <2>1
<1>16. TenantSound(t)'
  BY <1>1, <1>4, <1>5, <1>6, <1>10, <1>14, <1>15 DEF TenantSound, Owned
<1>17. ReviewSound(t)'
  <2>1. MaxFails \in Nat /\ 0 < MaxFails
    BY CodeAssumption
  <2>2. tenant'[t].review = "none" <=> tenant'[t].applicant = NoNumber
    BY <1>4, <1>5, <1>10 DEF ReviewSound
  <2>3. tenant'[t].applicant # NoNumber => t \in approved'
    BY <1>1, <1>5, <1>10
  <2> QED BY <1>4, <1>5, <1>6, <1>10, <1>12, <2>1, <2>2, <2>3, NobodyAssumption DEF ReviewSound
<1>24. /\ tenant'[t].status # "absent" /\ code'[t].to = n
       /\ tenant'[t].applicant = tenant[t].applicant
  BY <1>3, <1>6, <1>10, <1>14
<1>18. \A u \in Tenant, m \in Number : Addressed(u, m) => Addressed(u, m)'
  <2> SUFFICES ASSUME NEW u \in Tenant, NEW m \in Number, Addressed(u, m) PROVE Addressed(u, m)'
    OBVIOUS
  <2>1. CASE u # t
    BY <1>10, <2>1 DEF Addressed
  <2>2. CASE u = t
    <3>1. Addressed(t, n)
      BY <1>3, <2>2 DEF Addressed
    <3>2. tenant[t].applicant = m \/ (tenant[t].applicant = NoNumber /\ m = n)
      BY <2>2, <3>1, NobodyAssumption DEF Addressed
    <3> QED BY <1>24, <2>2, <3>2 DEF Addressed
  <2> QED BY <2>1, <2>2
<1>19. FormSound(n)'
  <2>1. Addressed(t, n)'
    BY <1>15, <1>24 DEF Addressed
  <2> QED BY <1>3, <1>7, <1>11, <2>1, NobodyAssumption DEF FormSound
<1>20. DeskSound'
  <2> SUFFICES ASSUME NEW d \in desk PROVE tenant'[d[2]].applicant # NoNumber
    BY <1>1 DEF DeskSound
  <2>1. tenant[d[2]].applicant # NoNumber /\ d[2] \in Tenant
    BY AccessParts DEF DeskSound
  <2> QED BY <1>14, <2>1
<1>21. \A m \in Number : \/ form'[m] = form[m] /\ sent'[m].form <= sent[m].form
                         \/ FormSound(m)'
  <2>1. \A m \in Number : sent[m].form \in Nat
    BY AccessParts, CodeAssumption
  <2> QED BY <1>11, <1>19, <2>1
<1>22. \A u \in Tenant : \/ tenant'[u] = tenant[u] /\ code'[u] = code[u]
                         \/ TenantSound(u)' /\ ReviewSound(u)'
  BY <1>10, <1>16, <1>17
<1>23. \A u \in Tenant : tenant[u].status # "absent" => tenant'[u].status # "absent"
  BY <1>14
<1> QED BY <1>1, <1>12, <1>13, <1>14, <1>18, <1>20, <1>21, <1>22, <1>23, SignupChange
LEMMA DeskCodeWritten ==
  ASSUME AccessInv, NEW t \in Tenant, NEW n \in Number, DeskCode(t, n)
  PROVE  /\ code' \in [Tenant -> Code]
         /\ code'[t].to = n /\ code'[t].fails < MaxFails
         /\ \A u \in Tenant : u # t => code'[u] = code[u]
         /\ sent' \in [Number -> [form : 0..PerNumber, desk : 0..1]]
         /\ \A m \in Number : sent'[m].form <= sent[m].form
<1> DEFINE c == NewCode(n, "desk")
           s == [sent[n] EXCEPT !.desk = 1]
<1>1. c \in Code /\ c.to = n /\ c.fails < MaxFails
  BY CodeAssumption DEF NewCode, Code
<1>2. code' = [code EXCEPT ![t] = c]
  BY DEF DeskCode
<1>3. sent[n] \in [form : 0..PerNumber, desk : 0..1]
  BY AccessParts
<1>4. s \in [form : 0..PerNumber, desk : 0..1] /\ s.form = sent[n].form
  BY <1>3
<1>5. sent' = sent \/ sent' = [sent EXCEPT ![n] = s]
  BY DEF DeskCode
<1> HIDE DEF c, s
<1>6. \A m \in Number : sent[m].form \in Nat
  BY AccessParts, CodeAssumption
<1>7. /\ sent' \in [Number -> [form : 0..PerNumber, desk : 0..1]]
      /\ \A m \in Number : sent'[m].form = sent[m].form
  BY <1>4, <1>5, AccessParts
<1>8. /\ code' \in [Tenant -> Code] /\ code'[t] = c
      /\ \A u \in Tenant : u # t => code'[u] = code[u]
  BY <1>1, <1>2, AccessParts
<1> QED BY <1>1, <1>6, <1>7, <1>8

\* A step that writes no business and no code but the form's own.
LEMMA LittleStep ==
  ASSUME AccessInv, NEW n \in Number, NEW t \in Tenant,
         SendAccepted(n) \/ BeginApprove(t) \/ BeginDecline(t) \/ Switch \/ DayPasses \/ NotPaired(n)
  PROVE  AccessInv'
<1>1. UNCHANGED <<tenant, plan, row, created, touched, pick, strained, paused, code, approved>>
  BY DEF SendAccepted, BeginApprove, BeginDecline, Switch, DayPasses, NotPaired, teamVars, signupVars
<1>2. /\ form' \in [Number -> Form]
      /\ \A m \in Number : form'[m] = form[m] \/ FormSound(m)'
  <2>1. CASE SendAccepted(n)
    BY <2>1, FormClosed, AccessParts DEF SendAccepted
  <2>2. CASE UNCHANGED form
    BY <2>2, AccessParts
  <2> QED BY <2>1, <2>2 DEF BeginApprove, BeginDecline, Switch, DayPasses, NotPaired, signupVars
<1>3. /\ sent' \in [Number -> [form : 0..PerNumber, desk : 0..1]]
      /\ \A m \in Number : sent'[m].form <= sent[m].form
  <2>1. \A m \in Number : sent[m].form \in Nat
    BY AccessParts, CodeAssumption
  <2>2. CASE DayPasses
    <3>1. 0 \in 0..PerNumber /\ 0 \in 0..1
      BY CodeAssumption
    <3>2. sent' = [m \in Number |-> [form |-> 0, desk |-> 0]]
      BY <2>2 DEF DayPasses
    <3> QED BY <2>1, <3>1, <3>2
  <2>3. CASE UNCHANGED sent
    BY <2>1, <2>3, AccessParts
  <2> QED BY <2>2, <2>3 DEF SendAccepted, BeginApprove, BeginDecline, Switch, NotPaired, signupVars
<1>4. desk' \subseteq {"approve", "decline"} \X Tenant /\ DeskSound'
  <2>1. CASE UNCHANGED desk
    BY <1>1, <2>1, AccessParts DEF DeskSound
  <2>2. CASE BeginApprove(t) \/ BeginDecline(t)
    <3>1. tenant[t].status = "pending" /\ tenant[t].review \in {"awaiting", "declined"}
      BY <2>2 DEF BeginApprove, BeginDecline
    <3>2. tenant[t].applicant # NoNumber
      BY <3>1, AccessParts DEF ReviewSound
    <3>3. PICK what \in {"approve", "decline"} : desk' = desk \cup {<<what, t>>}
      BY <2>2 DEF BeginApprove, BeginDecline
    <3> QED BY <1>1, <3>2, <3>3, AccessParts DEF DeskSound
  <2> QED BY <2>1, <2>2 DEF SendAccepted, Switch, DayPasses, NotPaired, signupVars
<1>5. reviewed' \in BOOLEAN
  BY AccessParts
    DEF SendAccepted, BeginApprove, BeginDecline, Switch, DayPasses, NotPaired, signupVars, TypeOK
<1>6. /\ at' \in [Number -> {"idle", "known", "asked", "join", "stranger"} \X (Text \cup {Nothing})]
      /\ \A m \in Number : at'[m] = at[m] \/ at'[m][1] = "idle"
  <2>1. at \in [Number -> {"idle", "known", "asked", "join", "stranger"} \X (Text \cup {Nothing})]
    BY AccessParts DEF TypeOK, TeamTypeOK
  <2>2. CASE at' = [at EXCEPT ![n] = Idle]
    BY <2>1, <2>2 DEF Idle
  <2>3. CASE UNCHANGED at
    BY <2>1, <2>3
  <2> QED BY <2>2, <2>3 DEF SendAccepted, BeginApprove, BeginDecline, Switch, DayPasses, NotPaired, teamVars
<1>7. TypeOK'
  BY <1>1, <1>2, <1>3, <1>4, <1>5, <1>6, AccessParts DEF TypeOK, TeamTypeOK
<1>8. \A u \in Tenant, m \in Number : Addressed(u, m) => Addressed(u, m)'
  BY <1>1 DEF Addressed
<1> QED BY <1>1, <1>2, <1>3, <1>4, <1>6, <1>7, <1>8, SignupChange

\* A code dies, or wrong guesses are counted on it.
LEMMA CodeWorn ==
  ASSUME AccessInv,
         UNCHANGED <<tenant, plan, row, created, touched, pick, strained, paused,
                     reviewed, desk, approved>>,
         at' \in [Number -> {"idle", "known", "asked", "join", "stranger"} \X (Text \cup {Nothing})],
         \A m \in Number : at'[m] = at[m] \/ at'[m][1] = "idle",
         code' \in [Tenant -> Code],
         \A u \in Tenant : /\ code'[u].to = code[u].to
                           /\ code'[u].live => code[u].live /\ code'[u].fails < MaxFails,
         form' \in [Number -> Form],
         sent' \in [Number -> [form : 0..PerNumber, desk : 0..1]],
         \A m \in Number : \/ form'[m] = form[m] /\ sent'[m].form <= sent[m].form
                           \/ FormSound(m)'
  PROVE  AccessInv'
<1>1. TypeOK'
  BY AccessParts DEF TypeOK, TeamTypeOK
<1>2. \A u \in Tenant : TenantSound(u)' /\ ReviewSound(u)'
  <2> SUFFICES ASSUME NEW u \in Tenant PROVE TenantSound(u)' /\ ReviewSound(u)'
    OBVIOUS
  <2>1. TenantSound(u) /\ ReviewSound(u)
    BY AccessParts
  <2>2. TenantSound(u)'
    BY <2>1 DEF TenantSound, Owned
  <2>3. ReviewSound(u)'
    BY <2>1 DEF ReviewSound
  <2> QED BY <2>2, <2>3
<1>3. \A u \in Tenant, m \in Number : Addressed(u, m) => Addressed(u, m)'
  BY DEF Addressed
<1>4. DeskSound'
  BY AccessParts DEF DeskSound
<1> QED BY <1>1, <1>2, <1>3, <1>4, SignupChange

LEMMA WornStep ==
  ASSUME AccessInv, NEW n \in Number, NEW t \in Tenant,
         SendRefused(n) \/ CodeExpires(t) \/ WrongCode(n)
  PROVE  AccessInv'
<1>1. UNCHANGED <<tenant, plan, row, created, touched, pick, strained, paused,
                  reviewed, desk, approved>>
  BY DEF SendRefused, CodeExpires, WrongCode, teamVars
<1>2. /\ at \in [Number -> {"idle", "known", "asked", "join", "stranger"} \X (Text \cup {Nothing})]
      /\ code \in [Tenant -> Code] /\ form \in [Number -> Form]
      /\ sent \in [Number -> [form : 0..PerNumber, desk : 0..1]]
      /\ \A m \in Number : sent[m].form \in Nat
      /\ \A u \in Tenant : code[u].live => code[u].fails < MaxFails
  BY AccessParts, CodeAssumption DEF TypeOK, TeamTypeOK, ReviewSound
<1>3. CASE SendRefused(n)
  <2>1. PICK u \in Tenant : form[n].for = u
    <3>1. form[n] \in Form /\ FormSound(n) /\ form[n].at = "send"
      BY <1>3, AccessParts DEF SendRefused
    <3> QED BY <3>1 DEF FormSound, Form
  <2> DEFINE c == [code[u] EXCEPT !.live = code[u].live /\ code[u].by # "form"]
             s == [sent[n] EXCEPT !.form = IF sent[n].form = 0 THEN 0 ELSE sent[n].form - 1]
  <2>2. /\ code' = [code EXCEPT ![u] = c] /\ sent' = [sent EXCEPT ![n] = s]
        /\ form' = [form EXCEPT ![n] = NoForm] /\ UNCHANGED at
    BY <1>3, <2>1 DEF SendRefused, teamVars
  <2>3. c \in Code /\ c.to = code[u].to /\ c.fails = code[u].fails /\ (c.live => code[u].live)
    BY <1>2, ZenonT(60) DEF Code
  <2>4. s \in [form : 0..PerNumber, desk : 0..1]
    <3>1. sent[n] \in [form : 0..PerNumber, desk : 0..1] /\ PerNumber \in Nat
      BY <1>2, CodeAssumption
    <3>2. (IF sent[n].form = 0 THEN 0 ELSE sent[n].form - 1) \in 0..PerNumber
      BY <3>1
    <3> QED BY <3>1, <3>2
  <2> HIDE DEF c, s
  <2>5. /\ code' \in [Tenant -> Code]
        /\ \A v \in Tenant : /\ code'[v].to = code[v].to
                             /\ code'[v].live => code[v].live /\ code'[v].fails < MaxFails
    BY <1>2, <2>2, <2>3
  <2>6. /\ form' \in [Number -> Form] /\ FormSound(n)'
        /\ \A m \in Number : m # n => form'[m] = form[m]
    BY <1>2, <2>2, FormClosed
  <2>7. /\ sent' \in [Number -> [form : 0..PerNumber, desk : 0..1]]
        /\ \A m \in Number : m # n => sent'[m].form <= sent[m].form
    BY <1>2, <2>2, <2>4
  <2> QED BY <1>1, <1>2, <2>2, <2>5, <2>6, <2>7, CodeWorn
<1>4. CASE CodeExpires(t)
  <2> DEFINE c == [code[t] EXCEPT !.live = FALSE]
  <2>1. code' = [code EXCEPT ![t] = c] /\ UNCHANGED <<at, sent, form>>
    BY <1>4 DEF CodeExpires, teamVars
  <2>2. c \in Code /\ c.to = code[t].to /\ ~c.live
    BY <1>2 DEF Code
  <2> HIDE DEF c
  <2>3. /\ code' \in [Tenant -> Code]
        /\ \A v \in Tenant : /\ code'[v].to = code[v].to
                             /\ code'[v].live => code[v].live /\ code'[v].fails < MaxFails
    BY <1>2, <2>1, <2>2
  <2> QED BY <1>1, <1>2, <2>1, <2>3, CodeWorn
<1>5. CASE WrongCode(n)
  <2>1. /\ code' = [u \in Tenant |-> IF code[u].live /\ code[u].to = n THEN Failed(code[u]) ELSE code[u]]
        /\ at' = [at EXCEPT ![n] = Idle] /\ UNCHANGED <<sent, form>>
    BY <1>5 DEF WrongCode
  <2>2. ASSUME NEW u \in Tenant, code[u].live
        PROVE  /\ Failed(code[u]) \in Code /\ Failed(code[u]).to = code[u].to
               /\ Failed(code[u]).live => Failed(code[u]).fails < MaxFails
    <3>1. code[u] \in Code /\ code[u].fails \in 0..MaxFails /\ code[u].fails < MaxFails /\ MaxFails \in Nat
      BY <1>2, <2>2, CodeAssumption DEF Code
    <3>2. code[u].fails + 1 \in 0..MaxFails
      BY <3>1
    <3> DEFINE c == code[u]
               y == c.fails + 1
               b == c.fails + 1 < MaxFails
    <3>3. c \in Code /\ y \in 0..MaxFails /\ b \in BOOLEAN /\ (b => y < MaxFails)
      BY <3>1, <3>2
    <3>4. Failed(c) = [c EXCEPT !.fails = y, !.live = b]
      BY DEF Failed
    <3> HIDE DEF c, y, b
    <3> QED BY <3>3, <3>4 DEF Code, c
  <2>3. /\ code' \in [Tenant -> Code]
        /\ \A v \in Tenant : /\ code'[v].to = code[v].to
                             /\ code'[v].live => code[v].live /\ code'[v].fails < MaxFails
    BY <1>2, <2>1, <2>2
  <2>4. /\ at' \in [Number -> {"idle", "known", "asked", "join", "stranger"} \X (Text \cup {Nothing})]
        /\ \A m \in Number : at'[m] = at[m] \/ at'[m][1] = "idle"
    BY <1>2, <2>1 DEF Idle
  <2> QED BY <1>1, <1>2, <2>1, <2>3, <2>4, CodeWorn
<1> QED BY <1>3, <1>4, <1>5
\* The operator writes to one business; its review and its code go together.
LEMMA DeskChange ==
  ASSUME AccessInv, NEW t \in Tenant,
         UNCHANGED <<plan, row, created, touched, at, pick, strained, paused, reviewed, form>>,
         tenant' \in [Tenant -> Business], \A u \in Tenant : u # t => tenant'[u] = tenant[u],
         tenant'[t].owner = tenant[t].owner, tenant'[t].applicant = tenant[t].applicant,
         tenant[t].status # "absent" => tenant'[t].status = tenant[t].status,
         tenant[t].status = "absent" => tenant'[t].status \in {"absent", "pending"},
         tenant'[t].status = "absent" => tenant'[t] = tenant[t] /\ code'[t] = code[t],
         tenant'[t].review = "none" <=> tenant[t].review = "none",
         code' \in [Tenant -> Code], \A u \in Tenant : u # t => code'[u] = code[u],
         \/ code'[t] = code[t]
         \/ /\ code'[t].fails < MaxFails
            /\ tenant[t].status = "absent" \/ Addressed(t, code'[t].to)
            /\ code'[t].to \in Number,
         sent' \in [Number -> [form : 0..PerNumber, desk : 0..1]],
         \A m \in Number : sent'[m].form <= sent[m].form,
         approved \subseteq approved', approved' \subseteq Tenant,
         tenant'[t].review = "approved" => t \in approved',
         tenant[t].applicant # NoNumber /\ code'[t].to # NoNumber => t \in approved',
         desk' \subseteq desk
  PROVE  AccessInv'
<1>1. TypeOK'
  BY AccessParts DEF TypeOK, TeamTypeOK
<1>2. TenantSound(t) /\ ReviewSound(t)
  BY AccessParts
<1>3. tenant[t].status = "absent" =>
        /\ tenant[t].owner = NoNumber /\ tenant[t].applicant = NoNumber
        /\ code[t].to = NoNumber /\ ~code[t].live
  BY <1>2 DEF TenantSound, NoBusiness
<1>4. TenantSound(t)'
  <2>1. tenant'[t].status # "absent" /\ tenant[t].status = "absent" => TenantSound(t)'
    BY <1>2, <1>3 DEF TenantSound, Owned
  <2>2. ASSUME tenant[t].status # "absent" PROVE TenantSound(t)'
    <3>1. CASE code'[t] = code[t]
      BY <1>2, <2>2, <3>1 DEF TenantSound, Owned
    <3>2. CASE Addressed(t, code'[t].to) /\ code'[t].to \in Number
      <4>1. tenant[t].applicant \in {NoNumber, code'[t].to}
        BY <3>2 DEF Addressed
      <4>2. Owned(t) => code'[t].to = tenant[t].owner
        BY <1>2, <3>2, NobodyAssumption DEF Addressed, TenantSound
      <4> QED BY <1>2, <2>2, <4>1, <4>2 DEF TenantSound, Owned
    <3> QED BY <2>2, <3>1, <3>2
  <2>3. tenant'[t].status = "absent" => TenantSound(t)'
    BY <1>2 DEF TenantSound, Owned
  <2> QED BY <2>1, <2>2, <2>3
<1>5. ReviewSound(t)'
  BY <1>2, <1>3, NobodyAssumption DEF ReviewSound
<1>6. \A u \in Tenant, m \in Number : Addressed(u, m) => Addressed(u, m)'
  <2> SUFFICES ASSUME NEW u \in Tenant, NEW m \in Number, Addressed(u, m) PROVE Addressed(u, m)'
    OBVIOUS
  <2>1. CASE u # t
    BY <2>1 DEF Addressed
  <2>2. CASE u = t /\ code'[t] = code[t]
    BY <2>2 DEF Addressed
  <2>3. CASE u = t /\ Addressed(t, code'[t].to) /\ code'[t].to \in Number
    BY <2>3, NobodyAssumption DEF Addressed
  <2> QED BY <2>1, <2>2, <2>3 DEF Addressed
<1>7. DeskSound'
  <2> SUFFICES ASSUME NEW d \in desk' PROVE tenant'[d[2]].applicant # NoNumber
    BY DEF DeskSound
  <2>1. tenant[d[2]].applicant # NoNumber /\ d[2] \in Tenant
    BY AccessParts DEF DeskSound
  <2> QED BY <2>1
<1>8. \A u \in Tenant : /\ tenant'[u].owner = tenant[u].owner
                        /\ tenant'[u].applicant = tenant[u].applicant
                        /\ tenant[u].status # "absent" => tenant'[u].status # "absent"
  OBVIOUS
<1>9. \A u \in Tenant : \/ tenant'[u] = tenant[u] /\ code'[u] = code[u]
                        \/ TenantSound(u)' /\ ReviewSound(u)'
  BY <1>4, <1>5
<1> QED BY <1>1, <1>6, <1>7, <1>8, <1>9, SignupChange

LEMMA DeskStep ==
  ASSUME AccessInv, NEW n \in Number, NEW t \in Tenant,
         CreateByHand(n, t) \/ Resend(t) \/ Approve(t) \/ Decline(t)
  PROVE  AccessInv'
<1>1. UNCHANGED <<plan, row, created, touched, at, pick, strained, paused, reviewed, form>>
  BY DEF CreateByHand, Resend, Approve, Decline, teamVars
<1>2. /\ TenantSound(t) /\ ReviewSound(t) /\ tenant[t] \in Business
      /\ tenant \in [Tenant -> Business] /\ code \in [Tenant -> Code]
      /\ sent \in [Number -> [form : 0..PerNumber, desk : 0..1]]
      /\ \A m \in Number : sent[m].form \in Nat
      /\ approved \subseteq Tenant
  BY AccessParts, CodeAssumption
<1>3. CASE CreateByHand(n, t)
  <2> DEFINE x == [tenant[t] EXCEPT !.status = "pending"]
  <2>1. /\ tenant[t].status = "absent" /\ tenant' = [tenant EXCEPT ![t] = x]
        /\ DeskCode(t, n) /\ UNCHANGED <<desk, approved>>
    BY <1>3 DEF CreateByHand, Absent
  <2>2. /\ x \in Business /\ x.status = "pending" /\ x.owner = tenant[t].owner
        /\ x.review = tenant[t].review /\ x.applicant = tenant[t].applicant
    BY <1>2 DEF Business
  <2> HIDE DEF x
  <2>3. tenant' \in [Tenant -> Business] /\ tenant'[t] = x /\ \A u \in Tenant : u # t => tenant'[u] = tenant[u]
    BY <1>2, <2>1, <2>2
  <2>4. tenant[t].applicant = NoNumber /\ tenant[t].review = "none"
    BY <1>2, <2>1 DEF TenantSound, NoBusiness
  <2> QED BY <1>1, <1>2, <2>1, <2>2, <2>3, <2>4, DeskCodeWritten, DeskChange
<1>4. CASE Resend(t)
  <2>1. tenant[t].status = "pending" /\ tenant[t].review \in {"none", "approved"}
    BY <1>2, <1>4 DEF Resend, MayHaveCode, Business, Review
  <2>2. PICK m \in {IF code[t].to # NoNumber THEN code[t].to ELSE tenant[t].applicant} \ {NoNumber} :
          DeskCode(t, m)
    BY <1>4 DEF Resend
  <2>3. m \in Number /\ Addressed(t, m)
    <3>1. code[t] \in Code
      BY <1>2
    <3> QED BY <1>2, <2>1, <2>2, <3>1 DEF Code, Business, Addressed, TenantSound
  <2>4. /\ tenant[t].applicant # NoNumber => t \in approved
        /\ tenant[t].review = "approved" => t \in approved
    BY <1>2, <2>1 DEF ReviewSound
  <2>5. UNCHANGED <<tenant, desk, approved>>
    BY <1>4 DEF Resend, teamVars
  <2>6. /\ code' \in [Tenant -> Code]
        /\ code'[t].to = m /\ code'[t].fails < MaxFails
        /\ \A u \in Tenant : u # t => code'[u] = code[u]
        /\ sent' \in [Number -> [form : 0..PerNumber, desk : 0..1]]
        /\ \A k \in Number : sent'[k].form <= sent[k].form
    BY <2>2, <2>3, DeskCodeWritten
  <2> QED BY <1>1, <1>2, <2>1, <2>3, <2>4, <2>5, <2>6, DeskChange
<1>5. CASE Approve(t)
  <2>1. <<"approve", t>> \in desk /\ desk' \subseteq desk
    BY <1>5 DEF Approve
  <2>2. tenant[t].applicant # NoNumber
    BY <2>1, AccessParts DEF DeskSound
  <2>3. CASE UNCHANGED <<tenant, approved, code, sent>>
    <3>1. \A m \in Number : sent'[m].form <= sent[m].form
      BY <1>2, <2>3
    <3>2. /\ tenant'[t].review = "approved" => t \in approved'
          /\ tenant[t].applicant # NoNumber /\ code'[t].to # NoNumber => t \in approved'
      BY <1>2, <2>3 DEF ReviewSound
    <3>3. tenant[t].status # "absent"
      BY <1>2, <2>2 DEF TenantSound, NoBusiness
    <3> QED BY <1>1, <1>2, <2>1, <2>3, <3>1, <3>2, <3>3, DeskChange
  <2>4. CASE /\ tenant[t].status = "pending"
             /\ tenant[t].review \in {"awaiting", "declined"}
             /\ tenant' = [tenant EXCEPT ![t].review = "approved"]
             /\ approved' = approved \cup {t}
             /\ UNCHANGED <<code, sent>> \/ DeskCode(t, tenant[t].applicant)
    <3> DEFINE x == [tenant[t] EXCEPT !.review = "approved"]
    <3>1. /\ x \in Business /\ x.status = tenant[t].status /\ x.owner = tenant[t].owner
          /\ x.review = "approved" /\ x.applicant = tenant[t].applicant
      BY <1>2 DEF Business, Review
    <3>2. tenant' = [tenant EXCEPT ![t] = x]
      BY <2>4
    <3> HIDE DEF x
    <3>3. tenant' \in [Tenant -> Business] /\ tenant'[t] = x /\ \A u \in Tenant : u # t => tenant'[u] = tenant[u]
      BY <1>2, <3>1, <3>2
    <3>4. tenant[t].applicant \in Number
      BY <1>2, <2>2 DEF Business
    <3>5. Addressed(t, tenant[t].applicant)
      BY <2>4 DEF Addressed
    <3>6. approved \subseteq approved' /\ approved' \subseteq Tenant /\ t \in approved'
      BY <1>2, <2>4
    <3>7. /\ code' \in [Tenant -> Code] /\ \A u \in Tenant : u # t => code'[u] = code[u]
          /\ sent' \in [Number -> [form : 0..PerNumber, desk : 0..1]]
          /\ \A m \in Number : sent'[m].form <= sent[m].form
          /\ \/ code'[t] = code[t]
             \/ code'[t].fails < MaxFails /\ code'[t].to = tenant[t].applicant
      <4>1. CASE UNCHANGED <<code, sent>>
        BY <1>2, <4>1
      <4>2. CASE DeskCode(t, tenant[t].applicant)
        BY <3>4, <4>2, DeskCodeWritten
      <4> QED BY <2>4, <4>1, <4>2
    <3> QED BY <1>1, <1>2, <2>1, <2>4, <3>1, <3>3, <3>4, <3>5, <3>6, <3>7, DeskChange
  <2> QED BY <1>5, <2>3, <2>4 DEF Approve
<1>6. CASE Decline(t)
  <2> DEFINE x == [tenant[t] EXCEPT !.review = "declined"]
  <2>1. /\ <<"decline", t>> \in desk /\ desk' \subseteq desk
        /\ tenant' = [tenant EXCEPT ![t] = x] /\ UNCHANGED <<code, sent, approved>>
    BY <1>6 DEF Decline
  <2>2. tenant[t].applicant # NoNumber
    BY <2>1, AccessParts DEF DeskSound
  <2>3. /\ x \in Business /\ x.status = tenant[t].status /\ x.owner = tenant[t].owner
        /\ x.review = "declined" /\ x.applicant = tenant[t].applicant
    BY <1>2 DEF Business, Review
  <2> HIDE DEF x
  <2>4. tenant' \in [Tenant -> Business] /\ tenant'[t] = x /\ \A u \in Tenant : u # t => tenant'[u] = tenant[u]
    BY <1>2, <2>1, <2>3
  <2>5. tenant[t].status # "absent" /\ tenant[t].review # "none"
    BY <1>2, <2>2 DEF TenantSound, ReviewSound, NoBusiness
  <2>6. \A m \in Number : sent'[m].form <= sent[m].form
    BY <1>2, <2>1
  <2>7. tenant[t].applicant # NoNumber /\ code'[t].to # NoNumber => t \in approved'
    BY <1>2, <2>1 DEF ReviewSound
  <2> QED BY <1>1, <1>2, <2>1, <2>3, <2>4, <2>5, <2>6, <2>7, DeskChange
<1> QED BY <1>3, <1>4, <1>5, <1>6
LEMMA ActivateStep ==
  ASSUME AccessInv, NEW n \in Number, NEW t \in Tenant, Activate(n, t),
         code' = [code EXCEPT ![t].live = FALSE],
         Addressed(t, n), at[n][1] = "stranger",
         tenant[t].applicant # NoNumber => t \in approved
  PROVE  AccessInv'
<1> DEFINE x == [tenant[t] EXCEPT !.status = "active", !.owner = n]
           c == [code[t] EXCEPT !.live = FALSE]
           p == IF plan[t] = NoSubscription THEN TrialPlan ELSE plan[t]
<1>1. TypeOK /\ SignupSound /\ RowsSound /\ MessagesSound /\ SeatsWithinPlan /\ ReviewedFirst
  BY DEF AccessInv
<1>2. /\ tenant' = [tenant EXCEPT ![t] = x] /\ code' = [code EXCEPT ![t] = c]
      /\ plan' = [plan EXCEPT ![t] = p] /\ at' = [at EXCEPT ![n] = Idle]
      /\ UNCHANGED <<pick, strained, paused, reviewed, sent, form, desk, approved>>
  BY DEF Activate
<1>3. /\ TenantSound(t) /\ ReviewSound(t) /\ tenant[t] \in Business /\ code[t] \in Code
      /\ tenant \in [Tenant -> Business] /\ code \in [Tenant -> Code] /\ plan \in [Tenant -> Plan]
      /\ at \in [Number -> {"idle", "known", "asked", "join", "stranger"} \X (Text \cup {Nothing})]
      /\ row \in [Number \X Tenant -> Row]
  BY AccessParts DEF TypeOK, TeamTypeOK
<1>4. /\ x \in Business /\ x.status = "active" /\ x.owner = n
      /\ x.review = tenant[t].review /\ x.applicant = tenant[t].applicant
  BY <1>3 DEF Business
<1>5. c \in Code /\ c.to = code[t].to /\ ~c.live
  BY <1>3 DEF Code
<1>6. p \in Plan /\ Seats[plan[t]] <= Seats[p] /\ (plan[t] = NoSubscription => Seats[p] > 0)
  <2>1. /\ Seats[NoSubscription] \in Nat /\ Seats[TrialPlan] \in Nat /\ Seats[plan[t]] \in Nat
        /\ TrialPlan \in Plan /\ Seats[NoSubscription] > 0
        /\ Seats[TrialPlan] >= Seats[NoSubscription]
    BY <1>3, PlanAssumption, TrialAssumption
  <2> QED BY <1>3, <2>1
<1> HIDE DEF x, c, p
<1>7. /\ tenant' \in [Tenant -> Business] /\ tenant'[t] = x /\ \A u \in Tenant : u # t => tenant'[u] = tenant[u]
      /\ code' \in [Tenant -> Code] /\ code'[t] = c /\ \A u \in Tenant : u # t => code'[u] = code[u]
      /\ plan' \in [Tenant -> Plan] /\ plan'[t] = p /\ \A u \in Tenant : u # t => plan'[u] = plan[u]
  BY <1>2, <1>3, <1>4, <1>5, <1>6
<1>8. /\ at' \in [Number -> {"idle", "known", "asked", "join", "stranger"} \X (Text \cup {Nothing})]
      /\ at'[n][1] = "idle" /\ \A m \in Number : m # n => at'[m] = at[m]
  BY <1>2, <1>3 DEF Idle
<1>9. /\ tenant[t].owner \in {n, NoNumber}
      /\ {tenant[t].applicant, code[t].to} \subseteq {n, NoNumber}
      /\ tenant[t].status # "absent"
  BY <1>3, NobodyAssumption DEF Addressed, TenantSound, Owned
<1>10. /\ row' \in [Number \X Tenant -> Row] /\ row'[<<n, t>>] = OwnerRow
       /\ \A m \in Number, u \in Tenant : m # n \/ u # t => row'[<<m, u>>] = row[<<m, u>>]
       /\ created' \in Seq(Number \X Tenant) /\ IsInjective(created')
       /\ \A m \in Number, u \in Tenant : Live(m, u)' <=> Listed(created', <<m, u>>)
       /\ touched' \in [Number -> Seq(Tenant)]
  <2>1. OwnerRow \in Row /\ OwnerRow.status = "active"
    BY DEF OwnerRow, NoRow, Row
  <2>2. CASE ~Live(n, t)
    <3>1. PutRow(n, t, OwnerRow)
      BY <2>2 DEF Activate, OwnerRow
    <3> QED BY <1>1, <2>1, <3>1, RowPut
  <2>3. CASE Live(n, t)
    <3>1. UNCHANGED <<row, created, touched>>
      BY <2>3 DEF Activate
    <3>2. tenant[t].owner = n /\ row[<<n, t>>] = OwnerRow
      BY <1>1, <1>9, <2>3 DEF RowsSound, RowSound, Owned
    <3>3. /\ created \in Seq(Number \X Tenant) /\ IsInjective(created)
          /\ touched \in [Number -> Seq(Tenant)]
      BY <1>1 DEF TypeOK, TeamTypeOK
    <3>4. \A m \in Number, u \in Tenant : Live(m, u) <=> Listed(created, <<m, u>>)
      BY <1>1, Zenon DEF RowsSound, RowSound
    <3> QED BY <1>3, <3>1, <3>2, <3>3, <3>4 DEF Live
  <2> QED BY <2>2, <2>3
<1>11. TypeOK'
  BY <1>1, <1>2, <1>7, <1>8, <1>10 DEF TypeOK, TeamTypeOK
<1>12. TenantsSound'
  <2> SUFFICES ASSUME NEW u \in Tenant PROVE TenantSound(u)'
    BY DEF TenantsSound
  <2>1. CASE u = t
    BY <1>2, <1>3, <1>4, <1>5, <1>7, <1>9, <2>1, NobodyAssumption DEF TenantSound, Owned
  <2>2. CASE u # t
    BY <1>2, <1>7, <2>2, AccessParts DEF TenantSound, Owned
  <2> QED BY <2>1, <2>2
<1>13. ReviewsSound'
  <2> SUFFICES ASSUME NEW u \in Tenant PROVE ReviewSound(u)'
    BY DEF ReviewsSound
  <2>1. CASE u = t
    BY <1>2, <1>3, <1>4, <1>5, <1>7, <2>1 DEF ReviewSound
  <2>2. CASE u # t
    BY <1>2, <1>7, <2>2, AccessParts DEF ReviewSound
  <2> QED BY <2>1, <2>2
<1>14. \A u \in Tenant : /\ tenant'[u].applicant = tenant[u].applicant
                         /\ code'[u].to = code[u].to
                         /\ tenant'[u].status = "absent" => tenant[u].status = "absent"
  BY <1>4, <1>5, <1>7
<1>15. FormsSound'
  <2> SUFFICES ASSUME NEW m \in Number PROVE FormSound(m)'
    BY DEF FormsSound
  <2>1. FormSound(m) /\ form[m].for \in Tenant \cup {NoTenant}
    BY AccessParts DEF Form
  <2> QED BY <1>2, <1>14, <2>1 DEF FormSound, Addressed
<1>16. DeskSound'
  <2> SUFFICES ASSUME NEW d \in desk PROVE tenant'[d[2]].applicant # NoNumber
    BY <1>2 DEF DeskSound
  <2>1. tenant[d[2]].applicant # NoNumber /\ d[2] \in Tenant
    BY AccessParts DEF DeskSound
  <2> QED BY <1>14, <2>1
<1>17. RowsSound'
  <2> SUFFICES ASSUME NEW m \in Number, NEW u \in Tenant PROVE RowSound(m, u)'
    BY DEF RowsSound
  <2>1. RowSound(m, u) /\ RowSound(m, t)
    BY <1>1 DEF RowsSound
  <2>2. CASE u = t /\ m = n
    BY <1>4, <1>7, <1>10, <2>2, NobodyAssumption DEF RowSound, Owned, OwnerRow, NoRow, Live
  <2>3. CASE u = t /\ m # n
    <3>1. row'[<<m, u>>] = row[<<m, u>>] /\ tenant'[u].owner = n
      BY <1>4, <1>7, <1>10, <2>3
    <3>2. Live(m, u) => tenant[t].owner = n
      BY <1>9, <2>1, <2>3 DEF RowSound, Owned
    <3> QED BY <1>10, <2>1, <2>3, <3>1, <3>2, NobodyAssumption DEF RowSound, Owned, Live
  <2>4. CASE u # t
    BY <1>7, <1>10, <2>1, <2>4 DEF RowSound, Owned, Live
  <2> QED BY <2>2, <2>3, <2>4
<1>18. MessagesSound'
  <2> SUFFICES ASSUME NEW m \in Number PROVE MessageSound(m)'
    BY DEF MessagesSound
  <2>1. MessageSound(m)
    BY <1>1 DEF MessagesSound
  <2>2. \A u \in Tenant : Live(m, u) => Live(m, u)'
    BY <1>10, ZenonT(60) DEF Live, OwnerRow, NoRow
  <2>3. CASE m # n
    <3>1. \A u \in Tenant : Active(m, u)' <=> Active(m, u)
      BY <1>10, <2>3 DEF Active
    <3> QED BY <1>2, <1>8, <2>1, <2>2, <2>3, <3>1 DEF MessageSound
  <2>4. CASE m = n
    <3>1. ~paused => \A u \in Tenant : Active(n, u)' => u = t
      BY <1>10, <2>1, <2>4 DEF MessageSound, Active
    <3> QED BY <1>2, <1>8, <2>1, <2>2, <2>4, <3>1 DEF MessageSound
  <2> QED BY <2>3, <2>4
<1>19. SeatsWithinPlan'
  <2> SUFFICES ASSUME NEW u \in Tenant, u \notin strained
               PROVE  SeatsUsed(u, NoNumber)' <= Seats[plan'[u]]
    BY <1>2 DEF SeatsWithinPlan
  <2>1. SeatsUsed(u, NoNumber) <= Seats[plan[u]] /\ Seats[plan[u]] \in Nat /\ Seats[plan'[u]] \in Nat
    BY <1>1, <1>3, <1>7, PlanAssumption DEF SeatsWithinPlan
  <2>2. SeatsUsed(u, NoNumber) \in Nat /\ SeatsUsed(u, NoNumber)' \in Nat
    BY SeatsNumber DEF SeatsAreNumbers
  <2>3. \A m \in Number : m # n \/ u # t => (HoldsSeat(m, u)' => HoldsSeat(m, u))
    BY <1>10 DEF HoldsSeat, Active, Invited
  <2>4. CASE u # t
    <3>1. SeatsUsed(u, NoNumber)' <= SeatsUsed(u, NoNumber)
      BY <2>3, <2>4, SeatsFewer
    <3> QED BY <1>7, <2>1, <2>2, <2>4, <3>1
  <2>5. CASE u = t /\ tenant[t].owner = n
    <3>1. HoldsSeat(n, t)
      BY <1>1, <2>5 DEF RowsSound, RowSound, OwnerRow, NoRow, HoldsSeat, Active
    <3>2. SeatsUsed(u, NoNumber)' <= SeatsUsed(u, NoNumber)
      BY <2>3, <2>5, <3>1, SeatsFewer
    <3> QED BY <1>6, <1>7, <2>1, <2>2, <2>5, <3>2
  <2>6. CASE u = t /\ tenant[t].owner = NoNumber
    <3>1. plan[t] = NoSubscription
      BY <1>3, <2>6 DEF TenantSound, Owned
    <3>2. \A m \in Number : ~HoldsSeat(m, t)
      BY <1>1, <2>6 DEF RowsSound, RowSound, Owned, HoldsSeat, Live, Active, Invited
    <3>3. SeatsUsed(t, n) = 0
      <4>1. Holding(t) = {} /\ Holding(t) \ {n} = {}
        BY <3>2 DEF Holding
      <4> QED BY <4>1, SeatsCounted, FS_EmptySet
    <3>4. SeatsUsed(t, NoNumber)' <= SeatsUsed(t, n) + 1
      BY <2>3, <2>6, SeatsOneMore
    <3> QED BY <1>6, <1>7, <2>1, <2>2, <2>6, <3>1, <3>3, <3>4
  <2> QED BY <1>9, <2>4, <2>5, <2>6
<1>20. ReviewedFirst'
  <2> SUFFICES ASSUME NEW u \in Tenant, Owned(u)', tenant'[u].applicant # NoNumber
               PROVE  u \in approved
    BY <1>2 DEF ReviewedFirst, Owned
  <2>1. CASE u = t
    BY <1>14, <2>1
  <2>2. CASE u # t
    BY <1>1, <1>7, <2>2 DEF ReviewedFirst, Owned
  <2> QED BY <2>1, <2>2
<1> QED BY <1>11, <1>12, <1>13, <1>15, <1>16, <1>17, <1>18, <1>19, <1>20 DEF AccessInv, SignupSound

LEMMA PairStep ==
  ASSUME AccessInv, NEW n \in Number, PairApproved(n) \/ PairByCode(n)
  PROVE  AccessInv'
<1>1. CASE PairApproved(n)
  <2>1. PICK t \in Open(n) :
          /\ tenant[t].review = "approved" /\ code' = [code EXCEPT ![t].live = FALSE]
          /\ Activate(n, t) /\ at[n][1] = "stranger"
    BY <1>1 DEF PairApproved
  <2>2. t \in Tenant /\ Addressed(t, n) /\ t \in approved
    BY <2>1, AccessParts DEF Open, Application, Addressed, ReviewSound
  <2> QED BY <2>1, <2>2, ActivateStep
<1>2. CASE PairByCode(n)
  <2>1. PICK t \in Tenant :
          /\ code[t].live /\ code[t].to = n /\ code' = [code EXCEPT ![t].live = FALSE]
          /\ Activate(n, t) /\ at[n] = <<"stranger", "code">>
    BY <1>2 DEF PairByCode, BoundTo
  <2>2. Addressed(t, n) /\ (tenant[t].applicant # NoNumber => t \in approved)
    <3>1. TenantSound(t) /\ ReviewSound(t)
      BY AccessParts
    <3> QED BY <2>1, <3>1, NobodyAssumption DEF TenantSound, ReviewSound, Addressed
  <2>3. at[n][1] = "stranger"
    BY <2>1
  <2> QED BY <2>1, <2>2, <2>3, ActivateStep
<1> QED BY <1>1, <1>2
LEMMA SignupStep ==
  ASSUME AccessInv, Next
  PROVE  AccessInv'
<1>1. ASSUME NEW n \in Number,
             \/ Apply(n) \/ Reapply(n) \/ Issue(n) \/ SendAccepted(n) \/ SendRefused(n)
             \/ PairApproved(n) \/ PairByCode(n) \/ WrongCode(n) \/ NotPaired(n) \/ Submit(n)
      PROVE  AccessInv'
  <2>1. \E t : t \in Tenant
    BY InputAssumption
  <2> QED BY <1>1, <2>1, ApplyStep, ReapplyStep, IssueStep, LittleStep, WornStep, PairStep, SubmitStep
<1>2. ASSUME NEW t \in Tenant,
             \/ Approve(t) \/ Decline(t) \/ Resend(t) \/ BeginApprove(t) \/ BeginDecline(t)
             \/ CodeExpires(t) \/ \E n \in Number : CreateByHand(n, t)
      PROVE  AccessInv'
  <2>1. \E n : n \in Number
    BY InputAssumption
  <2> QED BY <1>2, <2>1, DeskStep, LittleStep, WornStep
<1>3. CASE DayPasses \/ Switch
  <2>1. n1 \in Number /\ t1 \in Tenant
    BY InputAssumption
  <2> QED BY <1>3, <2>1, LittleStep
<1>4. CASE (TeamInputs \/ TeamSteps) /\ UNCHANGED signupVars
  BY <1>4, TeamStep
<1> QED BY <1>1, <1>2, <1>3, <1>4 DEF Next, Inputs, Steps, SignupInputs, SignupSteps

LEMMA AccessKept ==
  ASSUME AccessInv, UNCHANGED vars
  PROVE  AccessInv'
<1>1. UNCHANGED <<tenant, plan, row, created, touched, at, pick, strained, paused,
                  reviewed, code, sent, form, desk, approved>>
  BY DEF vars, teamVars, signupVars
<1>2. TypeOK'
  BY <1>1, AccessParts DEF TypeOK, TeamTypeOK
<1>3. \A m \in Number : sent'[m].form <= sent[m].form
  BY <1>1, AccessParts, CodeAssumption
<1>4. \A u \in Tenant, m \in Number : Addressed(u, m) => Addressed(u, m)'
  BY <1>1 DEF Addressed
<1>5. DeskSound'
  BY <1>1, AccessParts DEF DeskSound
<1> QED BY <1>1, <1>2, <1>3, <1>4, <1>5, SignupChange

LEMMA AccessInit ==
  ASSUME Init
  PROVE  AccessInv
<1>1. NoBusiness \in Business /\ NoRow \in Row /\ NoCode \in Code /\ NoForm \in Form
  BY CodeAssumption DEF NoBusiness, Business, Review, NoRow, Row, NoCode, Code, NoForm, Form
<1>2. Idle \in {"idle", "known", "asked", "join", "stranger"} \X (Text \cup {Nothing})
  BY DEF Idle
<1>3. <<>> \in Seq(Number \X Tenant) /\ IsInjective(<<>>) /\ <<>> \in Seq(Tenant)
  BY DEF IsInjective
<1>4. TypeOK
  <2>1. TeamTypeOK
    BY <1>1, <1>2, <1>3, TrialAssumption DEF Init, TeamTypeOK
  <2>2. 0 \in 0..PerNumber /\ 0 \in 0..1
    BY CodeAssumption
  <2> QED BY <1>1, <2>1, <2>2 DEF Init, TypeOK
<1>5. \A n \in Number, t \in Tenant : ~Live(n, t) /\ row[<<n, t>>] = NoRow
  BY DEF Init, Live, NoRow
<1>6. \A t \in Tenant : TenantSound(t) /\ ReviewSound(t)
  BY DEF Init, TenantSound, ReviewSound, Owned, NoBusiness, NoCode
<1>7. \A n \in Number : FormSound(n)
  BY DEF Init, FormSound, NoForm
<1>8. RowsSound
  <2>1. \A n \in Number, t \in Tenant : n # tenant[t].owner /\ ~Listed(created, <<n, t>>)
    BY NobodyAssumption DEF Init, NoBusiness, Listed
  <2> QED BY <1>5, <2>1, Zenon DEF RowsSound, RowSound
<1>9. MessagesSound
  <2>1. \A n \in Number, t \in Tenant : ~Active(n, t) /\ pick[n] # t
    BY <1>5, NobodyAssumption, Zenon DEF Init, Active, NoRow
  <2> QED BY <2>1 DEF MessagesSound, MessageSound
<1>10. SeatsWithinPlan
  <2> SUFFICES ASSUME NEW t \in Tenant PROVE SeatsUsed(t, NoNumber) <= Seats[plan[t]]
    BY DEF SeatsWithinPlan
  <2>1. Holding(t) = {}
    BY <1>5 DEF Holding, HoldsSeat, Active, Invited, NoRow
  <2>2. SeatsUsed(t, NoNumber) = 0
    BY <2>1, SeatsCounted, FS_EmptySet
  <2>3. Seats[plan[t]] \in Nat
    BY <1>4, PlanAssumption DEF TypeOK, TeamTypeOK
  <2> QED BY <2>2, <2>3
<1>11. ReviewedFirst /\ DeskSound
  BY DEF Init, ReviewedFirst, DeskSound, NoBusiness
<1> QED BY <1>4, <1>6, <1>7, <1>8, <1>9, <1>10, <1>11
     DEF AccessInv, SignupSound, TenantsSound, ReviewsSound, FormsSound

LEMMA AccessEstablished ==
  ASSUME Established
  PROVE  AccessInv
<1> DEFINE Lapsed == [status |-> "active", role |-> "accountant",
                      limited |-> TRUE, over |-> TRUE, stale |-> FALSE]
<1>1. /\ n1 \in Number /\ n2 \in Number /\ n3 \in Number /\ n1 # n2 /\ n1 # n3 /\ n2 # n3
      /\ t1 \in Tenant /\ t2 \in Tenant /\ t1 # t2
  BY InputAssumption
<1>2. /\ \A t \in Tenant : tenant[t] = IF t = t1 THEN Verified(n1) ELSE IF t = t2 THEN Verified(n2) ELSE NoBusiness
      /\ \A t \in Tenant : plan[t] = IF t \in {t1, t2} THEN TrialPlan ELSE NoSubscription
      /\ \A n \in Number : at[n] = Idle /\ pick[n] = NoTenant /\ form[n] = NoForm
      /\ \A t \in Tenant : code[t] = NoCode
      /\ paused = FALSE /\ desk = {}
  BY DEF Established
<1>3. \A n \in Number : /\ Verified(n) \in Business /\ Verified(n).status = "active"
                        /\ Verified(n).owner = n /\ Verified(n).review = "none"
                        /\ Verified(n).applicant = NoNumber
  BY DEF Verified, NoBusiness, Business, Review
<1>4. /\ NoBusiness \in Business /\ NoBusiness.status = "absent" /\ NoBusiness.owner = NoNumber
      /\ NoBusiness.review = "none" /\ NoBusiness.applicant = NoNumber
      /\ NoCode \in Code /\ NoCode.to = NoNumber /\ ~NoCode.live
      /\ NoForm \in Form /\ NoForm.at = "idle" /\ NoForm.for = NoTenant
  BY CodeAssumption DEF NoBusiness, Business, Review, NoCode, Code, NoForm, Form
<1>5. \A n \in Number, t \in Tenant :
        row[<<n, t>>] = IF (n = n1 /\ t = t1) \/ (n = n2 /\ t = t2) THEN OwnerRow
                        ELSE IF n = n3 /\ t = t1 THEN Lapsed ELSE NoRow
  <2> SUFFICES ASSUME NEW n \in Number, NEW t \in Tenant
               PROVE  row[<<n, t>>] = IF (n = n1 /\ t = t1) \/ (n = n2 /\ t = t2) THEN OwnerRow
                                      ELSE IF n = n3 /\ t = t1 THEN Lapsed ELSE NoRow
    BY Zenon
  <2> DEFINE k == <<n, t>>
  <2>1. row[k] = CASE k \in {<<n1, t1>>, <<n2, t2>>} -> OwnerRow
                   [] k = <<n3, t1>> -> Lapsed [] OTHER -> NoRow
    BY DEF Established, OwnerRow
  <2>2. /\ k \in {<<n1, t1>>, <<n2, t2>>} <=> (n = n1 /\ t = t1) \/ (n = n2 /\ t = t2)
        /\ k = <<n3, t1>> <=> n = n3 /\ t = t1
    OBVIOUS
  <2> HIDE DEF k, Lapsed
  <2>3. ~(k \in {<<n1, t1>>, <<n2, t2>>} /\ k = <<n3, t1>>)
    BY <1>1, <2>2
  <2>4. row[k] = IF (n = n1 /\ t = t1) \/ (n = n2 /\ t = t2) THEN OwnerRow
                 ELSE IF n = n3 /\ t = t1 THEN Lapsed ELSE NoRow
    BY <2>1, <2>2, <2>3
  <2> QED BY <2>4 DEF k
<1>6. /\ OwnerRow \in Row /\ OwnerRow.status = "active" /\ ~OwnerRow.over /\ OwnerRow.role = "owner"
      /\ NoRow \in Row /\ NoRow.status = "none"
      /\ Lapsed.status = "active" /\ Lapsed.over /\ Lapsed.role = "accountant"
  BY DEF OwnerRow, NoRow, Row
<1>7. /\ created = <<<<n1, t1>>, <<n3, t1>>, <<n2, t2>>>>
      /\ touched = [n \in Number |-> IF n \in {n1, n3} THEN <<t1>> ELSE IF n = n2 THEN <<t2>> ELSE <<>>]
  BY DEF Established
<1>8. created \in Seq(Number \X Tenant) /\ IsInjective(created)
  <2>1. created \in Seq(Number \X Tenant)
    BY <1>1, <1>7
  <2>2. /\ created[1] = <<n1, t1>> /\ created[2] = <<n3, t1>> /\ created[3] = <<n2, t2>>
        /\ DOMAIN created = 1..3
    BY <1>7
  <2>3. <<n1, t1>> # <<n3, t1>> /\ <<n1, t1>> # <<n2, t2>> /\ <<n3, t1>> # <<n2, t2>>
    BY <1>1
  <2>4. ASSUME NEW i \in 1..3, NEW j \in 1..3, created[i] = created[j] PROVE i = j
    <3>1. i \in {1, 2, 3} /\ j \in {1, 2, 3}
      OBVIOUS
    <3> QED BY <2>2, <2>3, <2>4, <3>1
  <2> QED BY <2>1, <2>2, <2>4 DEF IsInjective
<1>9. \A n \in Number, t \in Tenant :
        Listed(created, <<n, t>>) <=> (n = n1 /\ t = t1) \/ (n = n3 /\ t = t1) \/ (n = n2 /\ t = t2)
  <2> SUFFICES ASSUME NEW n \in Number, NEW t \in Tenant
               PROVE  Listed(created, <<n, t>>)
                        <=> (n = n1 /\ t = t1) \/ (n = n3 /\ t = t1) \/ (n = n2 /\ t = t2)
    BY Zenon
  <2>1. /\ created[1] = <<n1, t1>> /\ created[2] = <<n3, t1>> /\ created[3] = <<n2, t2>>
        /\ Len(created) = 3
    BY <1>7
  <2>2. Listed(created, <<n, t>>)
          <=> created[1] = <<n, t>> \/ created[2] = <<n, t>> \/ created[3] = <<n, t>>
    <3>1. 1..3 = {1, 2, 3}
      OBVIOUS
    <3> QED BY <2>1, <3>1 DEF Listed
  <2> QED BY <2>1, <2>2
<1>10. TypeOK
  <2>1. touched \in [Number -> Seq(Tenant)]
    <3>1. <<t1>> \in Seq(Tenant) /\ <<t2>> \in Seq(Tenant) /\ <<>> \in Seq(Tenant)
      BY <1>1
    <3> QED BY <1>7, <3>1
  <2>2. Lapsed \in Row
    BY InputAssumption DEF Row
  <2>3. row \in [Number \X Tenant -> Row]
    <3>1. DOMAIN row = Number \X Tenant /\ row = [k \in Number \X Tenant |-> row[k]]
      BY DEF Established
    <3>2. \A k \in Number \X Tenant : row[k] \in Row
      <4> HIDE DEF Lapsed
      <4> SUFFICES ASSUME NEW n \in Number, NEW t \in Tenant PROVE row[<<n, t>>] \in Row
        OBVIOUS
      <4> QED BY <1>5, <1>6, <2>2
    <3> QED BY <3>1, <3>2
  <2>4. tenant \in [Tenant -> Business] /\ plan \in [Tenant -> Plan]
    BY <1>1, <1>3, <1>4, TrialAssumption DEF Established
  <2>5. at \in [Number -> {"idle", "known", "asked", "join", "stranger"} \X (Text \cup {Nothing})]
    <3>1. Idle \in {"idle", "known", "asked", "join", "stranger"} \X (Text \cup {Nothing})
      BY DEF Idle
    <3> QED BY <3>1 DEF Established
  <2>6. TeamTypeOK
    BY <1>8, <2>1, <2>3, <2>4, <2>5 DEF Established, TeamTypeOK
  <2>7. 0 \in 0..PerNumber /\ 0 \in 0..1
    BY CodeAssumption
  <2> QED BY <1>4, <2>6, <2>7 DEF Established, TypeOK
<1> HIDE DEF Lapsed
<1>11. \A t \in Tenant : TenantSound(t) /\ ReviewSound(t)
  <2> SUFFICES ASSUME NEW t \in Tenant PROVE TenantSound(t) /\ ReviewSound(t)
    OBVIOUS
  <2>1. CASE tenant[t] = NoBusiness
    BY <1>2, <1>4, <2>1, <1>1, <1>3, NobodyAssumption DEF TenantSound, ReviewSound, Owned
  <2>2. ASSUME NEW n \in Number, tenant[t] = Verified(n) PROVE TenantSound(t) /\ ReviewSound(t)
    BY <1>2, <1>3, <1>4, <2>2, NobodyAssumption DEF TenantSound, ReviewSound, Owned
  <2> QED BY <1>1, <1>2, <2>1, <2>2
<1>12. \A n \in Number : FormSound(n)
  BY <1>2, <1>4 DEF FormSound
<1>13. RowsSound
  <2> SUFFICES ASSUME NEW n \in Number, NEW t \in Tenant PROVE RowSound(n, t)
    BY DEF RowsSound
  <2>1. tenant[t].owner = IF t = t1 THEN n1 ELSE IF t = t2 THEN n2 ELSE NoNumber
    BY <1>1, <1>2, <1>3, <1>4
  <2>2. Live(n, t) <=> Listed(created, <<n, t>>)
    BY <1>1, <1>5, <1>6, <1>9 DEF Live
  <2> QED BY <1>1, <1>5, <1>6, <1>9, <2>1, <2>2, NobodyAssumption DEF RowSound, Owned
<1>14. \A n \in Number, t \in Tenant : Active(n, t) <=> (n = n1 /\ t = t1) \/ (n = n2 /\ t = t2)
  BY <1>1, <1>5, <1>6, Zenon DEF Active
<1>15. MessagesSound
  BY <1>1, <1>2, <1>14, NobodyAssumption DEF MessagesSound, MessageSound, Idle
<1>16. SeatsWithinPlan
  <2> SUFFICES ASSUME NEW t \in Tenant PROVE SeatsUsed(t, NoNumber) <= Seats[plan[t]]
    BY DEF SeatsWithinPlan
  <2>1. Seats[plan[t]] \in Nat /\ Seats[plan[t]] >= 1
    BY <1>2, PlanAssumption, TrialAssumption
  <2>2. \A n \in Number : HoldsSeat(n, t) => (n = n1 /\ t = t1) \/ (n = n2 /\ t = t2)
    BY <1>5, <1>6, <1>14 DEF HoldsSeat, Invited
  <2>3. PICK n \in Number : Holding(t) \subseteq {n}
    BY <1>1, <2>2 DEF Holding
  <2>4. IsFiniteSet({n}) /\ Cardinality({n}) = 1
    BY FS_Singleton
  <2>5. Cardinality(Holding(t)) <= 1
    BY <2>3, <2>4, FS_Subset
  <2>6. SeatsUsed(t, NoNumber) <= 1 /\ SeatsUsed(t, NoNumber) \in Nat
    BY <2>5, SeatsCounted
  <2> QED BY <2>1, <2>6
<1>17. ReviewedFirst /\ DeskSound
  <2>1. \A t \in Tenant : tenant[t].applicant = NoNumber
    BY <1>1, <1>2, <1>3, <1>4
  <2> QED BY <1>2, <2>1 DEF ReviewedFirst, DeskSound
<1> QED BY <1>10, <1>11, <1>12, <1>13, <1>15, <1>16, <1>17
     DEF AccessInv, SignupSound, TenantsSound, ReviewsSound, FormsSound
-------------------------------------------------------------------------------
\* Signups and teams: what every step keeps of owners, seats, codes under review and
\* the businesses a number acts for (AccessInv), which AccessSound follows from.
THEOREM AccessAlways == MCSpec => []AccessInv
<1>1. MCInit => AccessInv
  BY AccessInit, AccessEstablished DEF MCInit
<1>2. AccessInv /\ [MCNext]_allVars => AccessInv'
  <2> SUFFICES ASSUME AccessInv, [MCNext]_allVars PROVE AccessInv'
    OBVIOUS
  <2>1. CASE Signup
    BY <2>1, SignupStep DEF Signup, Next
  <2>2. CASE UNCHANGED vars
    BY <2>2, AccessKept
  <2> QED BY <2>1, <2>2 DEF MCNext, Deliver, Act, Spend, Delete, allVars
<1> QED BY <1>1, <1>2, PTL DEF MCSpec

LEMMA OneBusinessFollows ==
  ASSUME AccessInv
  PROVE  OwnerKeepsBusiness /\ OneBusinessPerNumber
<1>1. OwnerKeepsBusiness
  BY DEF AccessInv, RowsSound, RowSound, OwnerKeepsBusiness, Owned, OwnerRow, NoRow, Active, Live
<1>2. OneBusinessPerNumber
  <2> SUFFICES ASSUME ~paused, NEW n \in Number
               PROVE  Cardinality({t \in Tenant : Resolvable(n, t)}) <= 1
    BY DEF OneBusinessPerNumber
  <2> DEFINE B == {t \in Tenant : Resolvable(n, t)}
  <2>1. \A t, u \in B : t = u
    BY DEF AccessInv, MessagesSound, MessageSound, Resolvable
  <2>2. CASE B = {}
    BY <2>2, FS_EmptySet
  <2>3. CASE B # {}
    <3>1. PICK t \in B : TRUE
      BY <2>3
    <3>2. B = {t}
      BY <2>1, <3>1
    <3> HIDE DEF B
    <3>3. Cardinality(B) = 1
      BY <3>2, FS_Singleton
    <3> QED BY <3>3 DEF B
  <2> QED BY <2>2, <2>3
<1> QED BY <1>1, <1>2
-------------------------------------------------------------------------------
(* The invariant of the bearers *)

TwoServers == {"ledger", "payments"}
Early == {"find", "make"}
Late == {"rotate", "start", "register", "run"}

\* No second vault.
OneVault == \A v, w \in Bearers!Existing : v = w

VaultsKnown ==
  /\ inUse \in Bearers!Existing \cup {0} /\ (alive => inUse # 0)
  /\ \A m \in Bearers!Busy :
       /\ acting[m].reuse \in Bearers!Existing \cup {0}
       /\ acting[m].at \in Late => acting[m].vault \in Bearers!Existing
  /\ \A w \in stray : w.vault \in Bearers!Existing

AloneAtWork ==
  /\ \A m \in Bearers!Busy \ shared : Bearers!Busy = {m} /\ stray = {}
  /\ \A w \in stray : ~w.shared => Bearers!Busy = {} /\ stray = {w}

\* A turn that is alone has put its own tokens into the vault, as far as it is.
OwnTokens ==
  OneVault =>
    /\ \A m \in Bearers!Busy \ shared :
         /\ acting[m].at = "rotate" =>
              \A i \in 1..2 : i <= acting[m].done =>
                vaults[acting[m].vault][<<"ledger", "payments">>[i]] = Bearers!Mint(acting[m].role)
         /\ acting[m].at \in {"start", "register", "run"} =>
              \A s \in TwoServers : vaults[acting[m].vault][s] = Bearers!Mint(acting[m].role)
    /\ \A w \in stray : ~w.shared => \A s \in TwoServers : vaults[w.vault][s] = Bearers!Mint(w.role)

VaultMadeOnce ==
  ~overlapped =>
    /\ \A m, n \in Bearers!Busy : m = n
    /\ \A m \in Bearers!Busy : acting[m].at = "make" => Bearers!Existing = {}
    /\ OneVault

BearersInv ==
  /\ Bearers!TypeOK /\ VaultsKnown /\ AloneAtWork /\ OwnTokens /\ VaultMadeOnce
  /\ "alone" \in misfits => ~OneVault
-------------------------------------------------------------------------------
LEMMA ServersAre ==
  /\ Bearers!Server = TwoServers
  /\ \A f \in [TwoServers -> Bearers!Token] : f # <<>>
<1>1. Len(<<"ledger", "payments">>) = 2 /\ 1..2 = {1, 2}
  OBVIOUS
<1>2. Bearers!Server = TwoServers
  BY <1>1 DEF Bearers!Server, TwoServers
<1>3. \A f \in [TwoServers -> Bearers!Token] : f # <<>>
  <2> SUFFICES ASSUME NEW f \in [TwoServers -> Bearers!Token], f = <<>> PROVE FALSE
    OBVIOUS
  <2>1. DOMAIN f = TwoServers
    OBVIOUS
  <2>2. DOMAIN <<>> = {}
    OBVIOUS
  <2> QED BY <2>1, <2>2 DEF TwoServers
<1> QED BY <1>2, <1>3

FirstTurn == [at : Early, role : Bearers!TokenRole, reuse : Bearers!Vault \cup {0}]
LaterTurn == [at : Late, role : Bearers!TokenRole, reuse : Bearers!Vault \cup {0},
              vault : Bearers!Vault, done : 0..2]

LEMMA TurnShape ==
  ASSUME NEW x \in Bearers!Turn
  PROVE  /\ x = Bearers!NoTurn \/ x \in FirstTurn \/ x \in LaterTurn
         /\ x.at \in Early <=> x \in FirstTurn
         /\ x.at \in Late <=> x \in LaterTurn
         /\ x.at = "none" <=> x = Bearers!NoTurn
<1>1. x = Bearers!NoTurn \/ x \in FirstTurn \/ x \in LaterTurn
  BY DEF Bearers!Turn, FirstTurn, LaterTurn, Early, Late
<1>2. Bearers!NoTurn.at = "none"
  BY DEF Bearers!NoTurn
<1>3. (x \in FirstTurn => x.at \in Early) /\ (x \in LaterTurn => x.at \in Late)
  BY DEF FirstTurn, LaterTurn
<1> QED BY <1>1, <1>2, <1>3 DEF Early, Late

LEMMA TurnIn ==
  /\ Bearers!NoTurn \in Bearers!Turn
  /\ FirstTurn \subseteq Bearers!Turn
  /\ LaterTurn \subseteq Bearers!Turn
BY DEF Bearers!Turn, FirstTurn, LaterTurn, Early, Late
LEMMA BearersParts ==
  ASSUME BearersInv
  PROVE  /\ vaults \in [Bearers!Vault -> [TwoServers -> Bearers!Token] \cup {<<>>}]
         /\ inUse \in Bearers!Vault \cup {0} /\ alive \in BOOLEAN
         /\ acting \in [Customer -> Bearers!Turn] /\ turns \in 0..MaxTurns
         /\ stray \subseteq [role : Bearers!TokenRole, vault : Bearers!Vault, shared : BOOLEAN]
         /\ shared \subseteq Customer /\ overlapped \in BOOLEAN
         /\ misfits \subseteq {"alone", "shared"}
         /\ VaultsKnown /\ AloneAtWork /\ OwnTokens /\ VaultMadeOnce
         /\ "alone" \in misfits => ~OneVault
BY ServersAre DEF BearersInv, Bearers!TypeOK

LEMMA TurnPut ==
  ASSUME NEW m \in Customer, NEW x \in Bearers!Turn, acting \in [Customer -> Bearers!Turn],
         acting' = [acting EXCEPT ![m] = x]
  PROVE  /\ acting' \in [Customer -> Bearers!Turn] /\ acting'[m] = x
         /\ \A n \in Customer : n # m => acting'[n] = acting[n]
         /\ Bearers!Busy' = IF x = Bearers!NoTurn THEN Bearers!Busy \ {m} ELSE Bearers!Busy \cup {m}
<1>1. /\ acting' \in [Customer -> Bearers!Turn] /\ acting'[m] = x
      /\ \A n \in Customer : n # m => acting'[n] = acting[n]
  OBVIOUS
<1>2. Bearers!Busy' = {n \in Customer : acting'[n] # Bearers!NoTurn}
  BY DEF Bearers!Busy, Bearers!NoTurn
<1>3. Bearers!Busy = {n \in Customer : acting[n] # Bearers!NoTurn}
  BY DEF Bearers!Busy
<1> QED BY <1>1, <1>2, <1>3

\* A step of a turn that is under way; vaults are only added.
LEMMA TurnMoved ==
  ASSUME BearersInv, NEW m \in Bearers!Busy, NEW x \in Bearers!Turn,
         acting' = [acting EXCEPT ![m] = x],
         UNCHANGED <<turns, stray, shared, overlapped, misfits>>,
         vaults' \in [Bearers!Vault -> [TwoServers -> Bearers!Token] \cup {<<>>}],
         Bearers!Existing \subseteq Bearers!Existing',
         inUse' \in Bearers!Existing' \cup {0}, alive' \in BOOLEAN, alive' => inUse' # 0,
         x # Bearers!NoTurn => x.reuse \in Bearers!Existing' \cup {0},
         x.at \in Late => x.vault \in Bearers!Existing',
         x.at = "make" => Bearers!Existing' = {},
         m \notin shared /\ OneVault' =>
           /\ x.at = "rotate" =>
                \A i \in 1..2 : i <= x.done =>
                  vaults'[x.vault][<<"ledger", "payments">>[i]] = Bearers!Mint(x.role)
           /\ x.at \in {"start", "register", "run"} =>
                \A s \in TwoServers : vaults'[x.vault][s] = Bearers!Mint(x.role),
         overlapped \/ OneVault'
  PROVE  BearersInv'
<1>1. /\ m \in Customer /\ acting \in [Customer -> Bearers!Turn]
      /\ Bearers!Busy \subseteq Customer
  BY BearersParts DEF Bearers!Busy
<1>2. /\ acting' \in [Customer -> Bearers!Turn] /\ acting'[m] = x
      /\ \A n \in Customer : n # m => acting'[n] = acting[n]
      /\ Bearers!Busy' = IF x = Bearers!NoTurn THEN Bearers!Busy \ {m} ELSE Bearers!Busy \cup {m}
  BY <1>1, TurnPut
<1>3. \A v \in Bearers!Existing' : v \in Bearers!Vault
  BY DEF Bearers!Existing, Bearers!Vault
<1>4. Bearers!TypeOK'
  <2>1. inUse' \in Bearers!Vault \cup {0}
    BY <1>3
  <2> QED BY <1>2, <2>1, BearersParts, ServersAre
       DEF Bearers!TypeOK, Bearers!Server, Bearers!Vault, Bearers!Token, Bearers!TokenRole, Bearers!Turn, Bearers!NoTurn
<1>5. VaultsKnown'
  <2> SUFFICES /\ inUse' \in Bearers!Existing' \cup {0} /\ (alive' => inUse' # 0)
               /\ \A n \in Bearers!Busy' :
                    /\ acting'[n].reuse \in Bearers!Existing' \cup {0}
                    /\ acting'[n].at \in Late => acting'[n].vault \in Bearers!Existing'
               /\ \A w \in stray : w.vault \in Bearers!Existing'
    BY DEF VaultsKnown, Late
  <2> QED BY <1>1, <1>2, BearersParts DEF VaultsKnown
<1>6. \A n \in Bearers!Busy' : n \in Bearers!Busy
  BY <1>2
<1>7. AloneAtWork'
  BY <1>2, <1>6, BearersParts DEF AloneAtWork
<1>8. (\A n \in Bearers!Busy \ shared : n = m) /\ \A w \in stray : w.shared
  BY BearersParts DEF AloneAtWork
<1>9. OwnTokens'
  <2> SUFFICES ASSUME OneVault'
               PROVE  /\ \A n \in Bearers!Busy' \ shared :
                           /\ acting'[n].at = "rotate" =>
                                \A i \in 1..2 : i <= acting'[n].done =>
                                  vaults'[acting'[n].vault][<<"ledger", "payments">>[i]] = Bearers!Mint(acting'[n].role)
                           /\ acting'[n].at \in {"start", "register", "run"} =>
                                \A s \in TwoServers : vaults'[acting'[n].vault][s] = Bearers!Mint(acting'[n].role)
                      /\ \A w \in stray : ~w.shared => \A s \in TwoServers : vaults'[w.vault][s] = Bearers!Mint(w.role)
    BY DEF OwnTokens, TwoServers, Bearers!Mint
  <2> QED BY <1>2, <1>6, <1>8
<1>10. OneVault' => OneVault
  BY DEF OneVault
<1>11. VaultMadeOnce'
  BY <1>1, <1>2, <1>6, BearersParts DEF VaultMadeOnce
<1>12. "alone" \in misfits' => ~OneVault'
  BY <1>10, BearersParts
<1> QED BY <1>4, <1>5, <1>7, <1>9, <1>11, <1>12 DEF BearersInv
BearerMove(m) ==
  \/ Bearers!FindVault(m) \/ \E ends \in BOOLEAN : Bearers!MakeVault(m, ends)
  \/ Bearers!Rotate(m) \/ Bearers!StartSession(m) \/ Bearers!Register(m)
  \/ Bearers!Fail(m) \/ Bearers!End(m)

LEMMA ExistingIs ==
  /\ Bearers!Existing = {v \in Bearers!Vault : vaults[v] # <<>>}
  /\ Bearers!Existing' = {v \in Bearers!Vault : vaults'[v] # <<>>}
BY DEF Bearers!Existing, Bearers!Vault

\* What is left of a turn whose call failed: none, or one that looks for a vault.
LEMMA DroppedIs ==
  ASSUME NEW y \in Bearers!Turn, y # Bearers!NoTurn, y.at \in Early \/ y.at \in Late
  PROVE  /\ Bearers!Dropped(y) \in Bearers!Turn
         /\ Bearers!Dropped(y) # Bearers!NoTurn => Bearers!Dropped(y).reuse = 0
         /\ Bearers!Dropped(y).at \in {"none", "find"}
<1> DEFINE x == [at |-> "find", role |-> y.role, reuse |-> 0]
<1>1. y \in FirstTurn \/ y \in LaterTurn
  BY TurnShape
<1>2. y.role \in Bearers!TokenRole
  BY <1>1 DEF FirstTurn, LaterTurn
<1>3. x \in FirstTurn /\ x.reuse = 0 /\ x.at = "find"
  BY <1>2 DEF FirstTurn, Early
<1>4. x \in Bearers!Turn
  BY <1>3, TurnIn
<1>5. Bearers!NoTurn \in Bearers!Turn /\ Bearers!NoTurn.at = "none"
  BY TurnIn DEF Bearers!NoTurn
<1>6. Bearers!Dropped(y) = x \/ Bearers!Dropped(y) = Bearers!NoTurn
  BY DEF Bearers!Dropped
<1> HIDE DEF x
<1> QED BY <1>3, <1>4, <1>5, <1>6

LEMMA BearerMoveStep ==
  ASSUME BearersInv, NEW m \in Customer, BearerMove(m)
  PROVE  BearersInv'
<1> DEFINE y == acting[m]
<1>1. y \in Bearers!Turn
  BY BearersParts
<1>2. UNCHANGED <<turns, stray, shared, overlapped, misfits>>
  BY DEF BearerMove, Bearers!FindVault, Bearers!MakeVault, Bearers!Rotate, Bearers!StartSession,
         Bearers!Register, Bearers!Fail, Bearers!End, Bearers!rest
<1>3. m \in Bearers!Busy /\ y # Bearers!NoTurn
  <2>1. y.at # "none"
    BY DEF BearerMove, Bearers!FindVault, Bearers!MakeVault, Bearers!Rotate, Bearers!StartSession,
           Bearers!Register, Bearers!Fail, Bearers!End
  <2>2. y # Bearers!NoTurn
    BY <2>1 DEF Bearers!NoTurn
  <2> QED BY <2>2 DEF Bearers!Busy
<1>4. /\ y.reuse \in Bearers!Existing \cup {0}
      /\ y.at \in Late => y.vault \in Bearers!Existing
  BY <1>3, BearersParts DEF VaultsKnown
<1>5. /\ inUse \in Bearers!Existing \cup {0} /\ alive \in BOOLEAN /\ (alive => inUse # 0)
      /\ vaults \in [Bearers!Vault -> [TwoServers -> Bearers!Token] \cup {<<>>}]
  BY BearersParts DEF VaultsKnown
<1>6. overlapped \/ OneVault
  BY BearersParts DEF VaultMadeOnce
<1>7. UNCHANGED vaults => Bearers!Existing' = Bearers!Existing /\ (OneVault' <=> OneVault)
  <2> SUFFICES ASSUME UNCHANGED vaults
               PROVE  Bearers!Existing' = Bearers!Existing /\ (OneVault' <=> OneVault)
    OBVIOUS
  <2>1. Bearers!Existing' = Bearers!Existing
    BY ExistingIs
  <2> QED BY <2>1 DEF OneVault
<1>8. y.at \in Late => y \in LaterTurn
  BY <1>1, TurnShape
<1>9. y.at \in Early => y \in FirstTurn
  BY <1>1, TurnShape
<1>10. Bearers!NoTurn \in Bearers!Turn /\ Bearers!NoTurn.at = "none"
  BY TurnIn DEF Bearers!NoTurn
<1>11. m \notin shared /\ OneVault =>
         /\ y.at = "rotate" =>
              \A i \in 1..2 : i <= y.done =>
                vaults[y.vault][<<"ledger", "payments">>[i]] = Bearers!Mint(y.role)
         /\ y.at \in {"start", "register", "run"} =>
              \A s \in TwoServers : vaults[y.vault][s] = Bearers!Mint(y.role)
  BY <1>3, BearersParts DEF OwnTokens
<1>12. CASE Bearers!End(m)
  <2>1. acting' = [acting EXCEPT ![m] = Bearers!NoTurn] /\ UNCHANGED <<vaults, inUse, alive>>
    BY <1>12 DEF Bearers!End, Bearers!rest
  <2> HIDE DEF y
  <2> QED BY <1>2, <1>3, <1>5, <1>6, <1>7, <1>10, <2>1, TurnMoved DEF Late
<1>18. CASE Bearers!Fail(m)
  <2> DEFINE x == Bearers!Dropped(y)
  <2>1. /\ acting' = [acting EXCEPT ![m] = x] /\ UNCHANGED <<vaults, inUse, alive>>
        /\ y.at \in Early \/ y.at \in Late
    BY <1>18 DEF Bearers!Fail, Bearers!rest, Early, Late
  <2>2. x \in Bearers!Turn /\ (x # Bearers!NoTurn => x.reuse = 0) /\ x.at \in {"none", "find"}
    BY <1>1, <1>3, <2>1, DroppedIs
  <2> HIDE DEF x, y
  <2> QED BY <1>2, <1>3, <1>5, <1>6, <1>7, <2>1, <2>2, TurnMoved DEF Late
<1>13. CASE Bearers!FindVault(m)
  <2>1. y.at = "find" /\ UNCHANGED <<vaults, inUse, alive>>
    BY <1>13 DEF Bearers!FindVault, Bearers!rest
  <2>2. y \in FirstTurn
    BY <1>9, <2>1 DEF Early
  <2>3. CASE \E v \in Bearers!Existing :
               acting' = [acting EXCEPT ![m] =
                 [at |-> "rotate", role |-> y.role, reuse |-> y.reuse, vault |-> v, done |-> 0]]
    <3>1. PICK v \in Bearers!Existing :
            acting' = [acting EXCEPT ![m] =
              [at |-> "rotate", role |-> y.role, reuse |-> y.reuse, vault |-> v, done |-> 0]]
      BY <2>3
    <3> DEFINE x == [at |-> "rotate", role |-> y.role, reuse |-> y.reuse, vault |-> v, done |-> 0]
    <3>2. v \in Bearers!Vault
      BY DEF Bearers!Existing
    <3>3. /\ x \in LaterTurn /\ x.at = "rotate" /\ x.reuse = y.reuse
          /\ x.vault = v /\ x.done = 0 /\ x # Bearers!NoTurn
      BY <2>2, <3>2, <1>10 DEF FirstTurn, LaterTurn, Late
    <3>4. x \in Bearers!Turn /\ acting' = [acting EXCEPT ![m] = x]
      BY <3>1, <3>3, TurnIn
    <3> HIDE DEF x, y
    <3>5. /\ x.reuse \in Bearers!Existing' \cup {0} /\ x.vault \in Bearers!Existing'
          /\ Bearers!Existing \subseteq Bearers!Existing'
          /\ x.at # "make" /\ x.at \notin {"start", "register", "run"}
      BY <1>4, <1>7, <2>1, <3>3
    <3>6. inUse' \in Bearers!Existing' \cup {0} /\ alive' \in BOOLEAN /\ (alive' => inUse' # 0)
      BY <1>5, <1>7, <2>1
    <3>7. overlapped \/ OneVault'
      BY <1>6, <1>7, <2>1
    <3>8. vaults' \in [Bearers!Vault -> [TwoServers -> Bearers!Token] \cup {<<>>}]
      BY <1>5, <2>1
    <3>9. \A i \in 1..2 : ~(i <= x.done)
      BY <3>3
    <3> QED BY <1>2, <1>3, <3>4, <3>5, <3>6, <3>7, <3>8, <3>9, TurnMoved
  <2>4. CASE Bearers!Existing = {} /\ acting' = [acting EXCEPT ![m].at = "make"]
    <3> DEFINE x == [y EXCEPT !.at = "make"]
    <3>1. x \in FirstTurn /\ x.at = "make" /\ x.reuse = y.reuse /\ x # Bearers!NoTurn
      BY <2>2, <1>10 DEF FirstTurn, Early
    <3>2. x \in Bearers!Turn /\ acting' = [acting EXCEPT ![m] = x]
      BY <2>4, <3>1, TurnIn
    <3> HIDE DEF x, y
    <3>3. /\ Bearers!Existing' = {} /\ Bearers!Existing = {} /\ x.at \notin Late
          /\ x.at # "rotate" /\ x.at \notin {"start", "register", "run"}
          /\ x.reuse = 0 /\ inUse' = 0
      BY <1>4, <1>5, <1>7, <2>1, <2>4, <3>1 DEF Late
    <3>4. inUse' \in Bearers!Existing' \cup {0} /\ alive' \in BOOLEAN /\ (alive' => inUse' # 0)
      BY <1>5, <1>7, <2>1
    <3>5. overlapped \/ OneVault'
      BY <1>6, <1>7, <2>1
    <3>6. vaults' \in [Bearers!Vault -> [TwoServers -> Bearers!Token] \cup {<<>>}]
      BY <1>5, <2>1
    <3> QED BY <1>2, <1>3, <3>2, <3>3, <3>4, <3>5, <3>6, TurnMoved
  <2> QED BY <1>13, <2>3, <2>4 DEF Bearers!FindVault
<1>14. ASSUME NEW ends \in BOOLEAN, Bearers!MakeVault(m, ends) PROVE BearersInv'
  <2>1. y.at = "make" /\ UNCHANGED <<inUse, alive>>
    BY <1>14 DEF Bearers!MakeVault, Bearers!rest
  <2>2. y \in FirstTurn
    BY <1>9, <2>1 DEF Early
  <2>3. PICK v \in Bearers!Vault :
          /\ v \notin Bearers!Existing
          /\ vaults' = [vaults EXCEPT ![v] = Bearers!Empty]
          /\ acting' = [acting EXCEPT ![m] = IF ends THEN Bearers!Dropped(y) ELSE
                [at |-> "rotate", role |-> y.role, reuse |-> y.reuse, vault |-> v, done |-> 0]]
    BY <1>14 DEF Bearers!MakeVault
  <2> DEFINE z == Bearers!Dropped(y)
             x == IF ends THEN z ELSE
                [at |-> "rotate", role |-> y.role, reuse |-> y.reuse, vault |-> v, done |-> 0]
  <2>12. /\ z \in Bearers!Turn /\ (z # Bearers!NoTurn => z.reuse = 0)
         /\ z.at \in {"none", "find"}
    BY <1>1, <1>3, <2>1, DroppedIs DEF Early
  <2> HIDE DEF z
  <2>4. /\ ends => x = z
        /\ ~ends => /\ x \in LaterTurn /\ x.at = "rotate" /\ x.reuse = y.reuse
                    /\ x.vault = v /\ x.done = 0
    BY <2>2 DEF FirstTurn, LaterTurn, Late
  <2>5. x \in Bearers!Turn /\ acting' = [acting EXCEPT ![m] = x]
    BY <2>3, <2>4, <2>12, TurnIn DEF z
  <2>6. Bearers!Empty \in [TwoServers -> Bearers!Token]
    BY ServersAre DEF Bearers!Empty, Bearers!NoToken, Bearers!Token
  <2>7. /\ vaults' \in [Bearers!Vault -> [TwoServers -> Bearers!Token] \cup {<<>>}]
        /\ Bearers!Existing' = Bearers!Existing \cup {v}
    <3>1. Bearers!Empty # <<>>
      BY <2>6, ServersAre
    <3> HIDE DEF x, y
    <3> QED BY <1>5, <2>3, <2>6, <3>1, ExistingIs
  <2>8. overlapped \/ OneVault'
    <3>1. ~overlapped => Bearers!Existing = {}
      BY <1>3, <2>1, BearersParts DEF VaultMadeOnce
    <3>2. ~overlapped => Bearers!Existing' = {v}
      BY <2>7, <3>1
    <3> QED BY <3>2 DEF OneVault
  <2> HIDE DEF x, y
  <2>9. /\ x # Bearers!NoTurn => x.reuse \in Bearers!Existing' \cup {0}
        /\ x.at \in Late => x.vault \in Bearers!Existing'
        /\ x.at # "make" /\ x.at \notin {"start", "register", "run"}
        /\ x.at = "rotate" => x.done = 0
    BY <1>4, <2>4, <2>7, <2>12 DEF Late
  <2>10. inUse' \in Bearers!Existing' \cup {0} /\ alive' \in BOOLEAN /\ (alive' => inUse' # 0)
    BY <1>5, <2>1, <2>7
  <2>11. \A i \in 1..2 : ~(i <= 0)
    OBVIOUS
  <2> QED BY <1>2, <1>3, <2>5, <2>7, <2>8, <2>9, <2>10, <2>11, TurnMoved
<1>15. CASE Bearers!StartSession(m)
  <2> DEFINE x == [y EXCEPT !.at = "register"]
  <2>1. y.at = "start" /\ acting' = [acting EXCEPT ![m] = x] /\ UNCHANGED <<vaults, inUse, alive>>
    BY <1>15 DEF Bearers!StartSession, Bearers!rest
  <2>2. y \in LaterTurn
    BY <1>8, <2>1 DEF Late
  <2>3. /\ x \in LaterTurn /\ x.at = "register" /\ x.reuse = y.reuse /\ x.vault = y.vault
        /\ x.role = y.role /\ x # Bearers!NoTurn
    BY <2>2, <1>10 DEF LaterTurn, Late
  <2>4. x \in Bearers!Turn
    BY <2>3, TurnIn
  <2> HIDE DEF x, y
  <2> QED BY <1>2, <1>3, <1>4, <1>5, <1>6, <1>7, <1>11, <2>1, <2>3, <2>4, TurnMoved DEF Late
<1>16. CASE Bearers!Register(m)
  <2> DEFINE x == [y EXCEPT !.at = "run"]
  <2>1. /\ y.at = "register" /\ acting' = [acting EXCEPT ![m] = x] /\ UNCHANGED vaults
        /\ inUse' = y.vault /\ alive' = TRUE
    BY <1>16 DEF Bearers!Register
  <2>2. y \in LaterTurn
    BY <1>8, <2>1 DEF Late
  <2>3. /\ x \in LaterTurn /\ x.at = "run" /\ x.reuse = y.reuse /\ x.vault = y.vault
        /\ x.role = y.role /\ x # Bearers!NoTurn
    BY <2>2, <1>10 DEF LaterTurn, Late
  <2>4. x \in Bearers!Turn
    BY <2>3, TurnIn
  <2>5. y.vault \in Bearers!Existing /\ y.vault # 0
    BY <1>4, <2>1 DEF Late, Bearers!Existing, Bearers!Vault
  <2> HIDE DEF x, y
  <2> QED BY <1>2, <1>3, <1>4, <1>5, <1>6, <1>7, <1>11, <2>1, <2>3, <2>4, <2>5, TurnMoved DEF Late
<1>17. CASE Bearers!Rotate(m)
  <2>1. y.at = "rotate" /\ UNCHANGED <<inUse, alive>>
    BY <1>17 DEF Bearers!Rotate, Bearers!rest
  <2>2. y \in LaterTurn
    BY <1>8, <2>1 DEF Late
  <2>3. Len(<<"ledger", "payments">>) = 2
    OBVIOUS
  <2>4. CASE y.done < 2
    <3> DEFINE next == y.done + 1
               x == [y EXCEPT !.done = next]
               s == <<"ledger", "payments">>[next]
    <3>1. /\ vaults' = [vaults EXCEPT ![y.vault][s] = Bearers!Mint(y.role)]
          /\ acting' = [acting EXCEPT ![m] = x]
      BY <1>17, <2>3, <2>4 DEF Bearers!Rotate, Bearers!Rotated, Bearers!Mint
    <3>2. next \in 1..2 /\ \A i \in 1..2 : i <= next <=> i <= y.done \/ i = next
      BY <2>2, <2>4 DEF LaterTurn
    <3>3. /\ x \in LaterTurn /\ x.at = "rotate" /\ x.reuse = y.reuse /\ x.vault = y.vault
          /\ x.role = y.role /\ x.done = next /\ x # Bearers!NoTurn
      BY <2>1, <2>2, <3>2, <1>10 DEF LaterTurn, Late
    <3>4. x \in Bearers!Turn /\ y.vault \in Bearers!Vault /\ y.role \in Bearers!TokenRole
      BY <2>2, <3>3, TurnIn DEF LaterTurn
    <3>5. s \in TwoServers /\ \A i \in 1..2 : <<"ledger", "payments">>[i] = s <=> i = next
      <4>1. next \in {1, 2}
        BY <3>2
      <4>2. \A i \in 1..2 : i = 1 \/ i = 2
        OBVIOUS
      <4> QED BY <4>1, <4>2 DEF TwoServers
    <3> DEFINE t == Bearers!Mint(y.role)
    <3>6. t \in Bearers!Token
      BY <3>4 DEF Bearers!Mint, Bearers!Token
    <3>7. y.vault \in Bearers!Existing
      BY <1>4, <2>1 DEF Late
    <3> HIDE DEF x, y, s, t, next
    <3>8. vaults[y.vault] \in [TwoServers -> Bearers!Token]
      BY <1>5, <3>4, <3>7, ExistingIs
    <3> DEFINE g == [vaults[y.vault] EXCEPT ![s] = t]
    <3>9. /\ g \in [TwoServers -> Bearers!Token] /\ g[s] = t
          /\ \A z \in TwoServers : z # s => g[z] = vaults[y.vault][z]
      BY <3>5, <3>6, <3>8
    <3>10. vaults' = [vaults EXCEPT ![y.vault] = g]
      BY <3>1, <1>5, <3>4 DEF t
    <3> HIDE DEF g
    <3>11. /\ vaults' \in [Bearers!Vault -> [TwoServers -> Bearers!Token] \cup {<<>>}]
           /\ vaults'[y.vault] = g
           /\ \A v \in Bearers!Vault : v # y.vault => vaults'[v] = vaults[v]
      BY <1>5, <3>4, <3>9, <3>10
    <3>12. Bearers!Existing' = Bearers!Existing
      <4>1. g # <<>>
        BY <3>9, ServersAre
      <4> QED BY <3>7, <3>11, <4>1, ExistingIs
    <3>13. OneVault' <=> OneVault
      BY <3>12 DEF OneVault
    <3>14. m \notin shared /\ OneVault' =>
             \A i \in 1..2 : i <= next => vaults'[y.vault][<<"ledger", "payments">>[i]] = t
      <4> SUFFICES ASSUME m \notin shared, OneVault, NEW i \in 1..2, i <= next
                   PROVE  g[<<"ledger", "payments">>[i]] = t
        BY <3>11, <3>13
      <4>1. CASE i = next
        BY <3>5, <3>9, <4>1
      <4>2. CASE i <= y.done /\ i # next
        <5>1. vaults[y.vault][<<"ledger", "payments">>[i]] = t
          BY <1>11, <2>1, <4>2 DEF t
        <5>2. <<"ledger", "payments">>[i] # s /\ <<"ledger", "payments">>[i] \in TwoServers
          <6>1. i = 1 \/ i = 2
            OBVIOUS
          <6> QED BY <3>5, <4>2, <6>1 DEF TwoServers
        <5> QED BY <3>9, <5>1, <5>2
      <4> QED BY <3>2, <4>1, <4>2
    <3>15. t = Bearers!Mint(y.role)
      BY DEF t
    <3> QED BY <1>2, <1>3, <1>4, <1>5, <1>6, <2>1, <3>1, <3>3, <3>4, <3>7, <3>11, <3>12, <3>13, <3>14, <3>15, TurnMoved
         DEF Late
  <2>5. CASE ~(y.done < 2)
    <3> DEFINE x == IF y.reuse # 0 THEN [y EXCEPT !.at = "run", !.vault = y.reuse]
                                   ELSE [y EXCEPT !.at = "start"]
    <3>1. acting' = [acting EXCEPT ![m] = x] /\ UNCHANGED vaults
      BY <1>17, <2>3, <2>5 DEF Bearers!Rotate
    <3>2. /\ x \in LaterTurn /\ x.at \in {"run", "start"} /\ x.reuse = y.reuse
          /\ x.vault = (IF y.reuse # 0 THEN y.reuse ELSE y.vault)
          /\ x.role = y.role /\ x # Bearers!NoTurn
      BY <2>2, <1>4, <1>10 DEF LaterTurn, Late, Bearers!Existing
    <3>3. x \in Bearers!Turn /\ y.vault \in Bearers!Existing /\ x.vault \in Bearers!Existing
      BY <1>4, <2>1, <3>2, TurnIn DEF Late
    <3>4. y.done = 2
      BY <2>2, <2>5 DEF LaterTurn
    <3> HIDE DEF x, y
    <3>5. m \notin shared /\ OneVault' => \A s \in TwoServers : vaults'[x.vault][s] = Bearers!Mint(x.role)
      <4> SUFFICES ASSUME m \notin shared, OneVault, NEW s \in TwoServers
                   PROVE  vaults[x.vault][s] = Bearers!Mint(x.role)
        BY <1>7, <3>1
      <4>1. x.vault = y.vault
        BY <3>3 DEF OneVault
      <4>2. PICK i \in 1..2 : s = <<"ledger", "payments">>[i]
        <5>1. s = <<"ledger", "payments">>[1] \/ s = <<"ledger", "payments">>[2]
          BY DEF TwoServers
        <5> QED BY <5>1
      <4>3. i <= y.done
        BY <3>4
      <4> QED BY <1>11, <2>1, <3>2, <4>1, <4>2, <4>3
    <3> QED BY <1>2, <1>3, <1>4, <1>5, <1>6, <1>7, <2>1, <3>1, <3>2, <3>3, <3>5, TurnMoved DEF Late
  <2> QED BY <2>4, <2>5
<1> QED BY <1>12, <1>13, <1>14, <1>15, <1>16, <1>17, <1>18 DEF BearerMove
LEMMA BeginStep ==
  ASSUME BearersInv, NEW m \in Customer, NEW role \in {"owner", "staff"}, Bearers!Begin(m, role)
  PROVE  BearersInv'
<1>16. PICK reuse \in {0, IF alive THEN inUse ELSE 0} :
         acting' = [acting EXCEPT ![m] = [at |-> "find", role |-> role, reuse |-> reuse]]
  BY DEF Bearers!Begin
<1> DEFINE x == [at |-> "find", role |-> role, reuse |-> reuse]
           others == Bearers!Busy # {} \/ stray # {}
<1>1. /\ acting[m] = Bearers!NoTurn /\ turns < MaxTurns /\ turns' = turns + 1
      /\ acting' = [acting EXCEPT ![m] = x]
      /\ shared' = IF others THEN shared \cup Bearers!Busy \cup {m} ELSE shared \ {m}
      /\ stray' = {[w EXCEPT !.shared = TRUE] : w \in stray}
      /\ overlapped' = (overlapped \/ others)
      /\ UNCHANGED <<vaults, inUse, alive, misfits>>
  BY <1>16 DEF Bearers!Begin
<1>2. inUse \in Bearers!Vault \cup {0} /\ inUse \in Bearers!Existing \cup {0}
  BY BearersParts DEF VaultsKnown
<1>3. /\ x \in FirstTurn /\ x.at = "find" /\ x.reuse \in Bearers!Existing \cup {0}
      /\ x # Bearers!NoTurn
  BY <1>2 DEF FirstTurn, Early, Bearers!TokenRole, Bearers!NoTurn
<1>4. x \in Bearers!Turn
  BY <1>3, TurnIn
<1> HIDE DEF x
<1>5. /\ acting' \in [Customer -> Bearers!Turn] /\ acting'[m] = x
      /\ \A n \in Customer : n # m => acting'[n] = acting[n]
      /\ Bearers!Busy' = Bearers!Busy \cup {m}
  BY <1>1, <1>3, <1>4, TurnPut, BearersParts
<1>6. m \notin Bearers!Busy /\ Bearers!Busy \subseteq Customer
  BY <1>1 DEF Bearers!Busy
<1>7. /\ stray' \subseteq [role : Bearers!TokenRole, vault : Bearers!Vault, shared : BOOLEAN]
      /\ \A w \in stray' : w.shared /\ \E v \in stray : w.vault = v.vault
  <2> SUFFICES ASSUME NEW w \in stray'
               PROVE  /\ w \in [role : Bearers!TokenRole, vault : Bearers!Vault, shared : BOOLEAN]
                      /\ w.shared /\ \E v \in stray : w.vault = v.vault
    OBVIOUS
  <2>1. PICK v \in stray : w = [v EXCEPT !.shared = TRUE]
    BY <1>1
  <2>2. v \in [role : Bearers!TokenRole, vault : Bearers!Vault, shared : BOOLEAN]
    BY BearersParts
  <2> QED BY <2>1, <2>2
<1>8. Bearers!Existing' = Bearers!Existing /\ (OneVault' <=> OneVault)
  <2>1. Bearers!Existing' = Bearers!Existing
    BY <1>1, ExistingIs
  <2> QED BY <2>1 DEF OneVault
<1>9. Bearers!TypeOK'
  <2>1. turns' \in 0..MaxTurns
    BY <1>1, BearersParts, BearerAssumption
  <2>2. shared' \subseteq Customer /\ overlapped' \in BOOLEAN
    BY <1>1, <1>6, BearersParts
  <2> QED BY <1>1, <1>5, <1>7, <2>1, <2>2, BearersParts, ServersAre
       DEF Bearers!TypeOK, Bearers!Server, Bearers!Vault, Bearers!Token, Bearers!TokenRole, Bearers!Turn, Bearers!NoTurn
<1>10. VaultsKnown'
  <2>1. \A n \in Bearers!Busy' :
          /\ acting'[n].reuse \in Bearers!Existing \cup {0}
          /\ acting'[n].at \in Late => acting'[n].vault \in Bearers!Existing
    BY <1>3, <1>5, <1>6, BearersParts DEF VaultsKnown, Late
  <2>2. \A w \in stray' : w.vault \in Bearers!Existing
    BY <1>7, BearersParts DEF VaultsKnown
  <2> QED BY <1>1, <1>2, <1>8, <2>1, <2>2, BearersParts DEF VaultsKnown, Late
<1>11. ASSUME NEW n \in Bearers!Busy', n \notin shared' PROVE n = m /\ Bearers!Busy' = {m} /\ stray' = {}
  <2>1. ~others
    BY <1>1, <1>5, <1>11
  <2> QED BY <1>1, <1>5, <1>11, <2>1
<1>12. AloneAtWork'
  BY <1>7, <1>11 DEF AloneAtWork
<1>13. OwnTokens'
  <2>1. \A n \in Bearers!Busy' \ shared' :
          acting'[n].at # "rotate" /\ acting'[n].at \notin {"start", "register", "run"}
    BY <1>3, <1>5, <1>11
  <2>2. \A w \in stray' : w.shared
    BY <1>7
  <2> QED BY <2>1, <2>2 DEF OwnTokens
<1>14. VaultMadeOnce'
  <2> SUFFICES ASSUME ~overlapped'
               PROVE  /\ \A n, k \in Bearers!Busy' : n = k
                      /\ \A n \in Bearers!Busy' : acting'[n].at = "make" => Bearers!Existing' = {}
                      /\ OneVault'
    BY DEF VaultMadeOnce
  <2>1. ~others /\ ~overlapped
    BY <1>1
  <2>2. Bearers!Busy' = {m} /\ acting'[m].at # "make"
    BY <1>3, <1>5, <2>1
  <2> QED BY <1>8, <2>1, <2>2, BearersParts DEF VaultMadeOnce
<1>15. "alone" \in misfits' => ~OneVault'
  BY <1>1, <1>8, BearersParts
<1> QED BY <1>9, <1>10, <1>12, <1>13, <1>14, <1>15 DEF BearersInv

\* A fresh token of the asker's own role lets through what the role allows, no more.
LEMMA OwnTokenFits ==
  ASSUME NEW role, NEW capability
  PROVE  Bearers!CarriedOut(Bearers!Mint(role), capability) = Bearers!Can(role, capability)
BY DEF Bearers!CarriedOut, Bearers!Accepted, Bearers!Mint, Bearers!Can

LEMMA JudgeStep ==
  ASSUME BearersInv, NEW role, NEW v, NEW kind \in {"alone", "shared"}, Bearers!Judge(role, v, kind),
         UNCHANGED <<vaults, inUse, alive, acting, turns, stray, shared, overlapped>>,
         kind = "alone" /\ OneVault => \A s \in TwoServers : vaults[v][s] = Bearers!Mint(role)
  PROVE  BearersInv'
<1>1. PICK s \in TwoServers : \E capability \in Bearers!Asks(s) :
        misfits' = misfits \cup
          {k \in {kind} : Bearers!CarriedOut(vaults[v][s], capability) # Bearers!Can(role, capability)}
  BY ServersAre DEF Bearers!Judge
<1>2. misfits' \subseteq {"alone", "shared"}
  BY <1>1, BearersParts
<1>3. "alone" \in misfits' => ~OneVault
  <2> SUFFICES ASSUME OneVault, kind = "alone" PROVE misfits' = misfits
    BY <1>1, BearersParts
  <2>1. vaults[v][s] = Bearers!Mint(role)
    OBVIOUS
  <2> QED BY <1>1, <2>1, OwnTokenFits
<1>4. Bearers!Existing' = Bearers!Existing /\ Bearers!Busy' = Bearers!Busy
  BY ExistingIs DEF Bearers!Busy, Bearers!NoTurn
<1>5. OneVault' <=> OneVault
  BY <1>4 DEF OneVault
<1>6. Bearers!TypeOK'
  BY <1>2, BearersParts, ServersAre
     DEF Bearers!TypeOK, Bearers!Server, Bearers!Vault, Bearers!Token, Bearers!TokenRole, Bearers!Turn, Bearers!NoTurn
<1>7. VaultsKnown' /\ AloneAtWork' /\ VaultMadeOnce'
  BY <1>4, <1>5, BearersParts DEF VaultsKnown, AloneAtWork, VaultMadeOnce, Late
<1>8. OwnTokens'
  BY <1>4, <1>5, BearersParts DEF OwnTokens, TwoServers, Bearers!Mint
<1> QED BY <1>3, <1>5, <1>6, <1>7, <1>8 DEF BearersInv
-------------------------------------------------------------------------------
LEMMA ShapeKept ==
  ASSUME BearersInv, UNCHANGED vaults
  PROVE  /\ Bearers!Existing' = Bearers!Existing
         /\ OneVault' <=> OneVault
<1>1. Bearers!Existing' = Bearers!Existing
  BY ExistingIs
<1> QED BY <1>1 DEF OneVault

LEMMA TurnCallStep ==
  ASSUME BearersInv, NEW m \in Customer, Bearers!Call(m)
  PROVE  BearersInv'
<1> DEFINE kind == IF m \in shared THEN "shared" ELSE "alone"
<1>1. /\ acting[m].at = "run" /\ Bearers!Judge(acting[m].role, acting[m].vault, kind)
      /\ UNCHANGED <<vaults, inUse, alive, acting, turns, stray, shared, overlapped>>
  BY DEF Bearers!Call
<1>2. acting[m] # Bearers!NoTurn
  BY <1>1 DEF Bearers!NoTurn
<1>3. m \in Bearers!Busy
  BY <1>2 DEF Bearers!Busy
<1>4. kind \in {"alone", "shared"} /\ (kind = "alone" => m \notin shared)
  OBVIOUS
<1> HIDE DEF kind
<1>5. kind = "alone" /\ OneVault =>
        \A s \in TwoServers : vaults[acting[m].vault][s] = Bearers!Mint(acting[m].role)
  BY <1>1, <1>3, <1>4, BearersParts DEF OwnTokens
<1> QED BY <1>1, <1>4, <1>5, JudgeStep

LEMMA StrayCallStep ==
  ASSUME BearersInv, NEW w \in stray, Bearers!StrayCall(w)
  PROVE  BearersInv'
<1> DEFINE kind == IF w.shared THEN "shared" ELSE "alone"
<1>1. /\ Bearers!Judge(w.role, w.vault, kind)
      /\ UNCHANGED <<vaults, inUse, alive, acting, turns, stray, shared, overlapped>>
  BY DEF Bearers!StrayCall
<1>2. kind \in {"alone", "shared"} /\ (kind = "alone" => ~w.shared)
  OBVIOUS
<1> HIDE DEF kind
<1>3. kind = "alone" /\ OneVault => \A s \in TwoServers : vaults[w.vault][s] = Bearers!Mint(w.role)
  BY <1>2, BearersParts DEF OwnTokens
<1> QED BY <1>1, <1>2, <1>3, JudgeStep

\* Turns that end leave work of theirs behind, with what was known of it.
LEMMA LeftBehind ==
  ASSUME BearersInv, NEW gone \in SUBSET Bearers!Busy, NEW left2 \in SUBSET gone,
         \A m \in left2 : acting[m].at = "run",
         acting' = [m \in Customer |-> IF m \in gone THEN Bearers!NoTurn ELSE acting[m]],
         stray' = stray \cup {Bearers!Work(m) : m \in left2},
         UNCHANGED <<vaults, inUse, alive, turns, shared, overlapped, misfits>>
  PROVE  BearersInv'
<1>1. Bearers!Existing' = Bearers!Existing /\ (OneVault' <=> OneVault)
  BY ShapeKept
<1>2. Bearers!Busy \subseteq Customer /\ acting \in [Customer -> Bearers!Turn]
  BY BearersParts DEF Bearers!Busy
<1>3. /\ acting' \in [Customer -> Bearers!Turn]
      /\ \A n \in Customer : n \notin gone => acting'[n] = acting[n]
      /\ \A n \in gone : acting'[n] = Bearers!NoTurn
  BY <1>2, TurnIn
<1>4. Bearers!Busy' = Bearers!Busy \ gone
  <2>1. Bearers!Busy' = {n \in Customer : acting'[n] # Bearers!NoTurn}
    BY DEF Bearers!Busy, Bearers!NoTurn
  <2>2. Bearers!Busy = {n \in Customer : acting[n] # Bearers!NoTurn}
    BY DEF Bearers!Busy
  <2> QED BY <1>2, <1>3, <2>1, <2>2
<1>5. ASSUME NEW m \in left2
      PROVE  /\ Bearers!Work(m) \in [role : Bearers!TokenRole, vault : Bearers!Vault, shared : BOOLEAN]
             /\ Bearers!Work(m).vault = acting[m].vault /\ Bearers!Work(m).role = acting[m].role
             /\ Bearers!Work(m).shared = (m \in shared)
             /\ acting[m].vault \in Bearers!Existing /\ m \in Bearers!Busy
  <2>1. m \in Bearers!Busy /\ acting[m].at = "run" /\ acting[m].at \in Late
    BY DEF Late
  <2>2. acting[m] \in LaterTurn
    BY <1>2, <2>1, TurnShape
  <2> QED BY <2>1, <2>2, BearersParts DEF Bearers!Work, LaterTurn, VaultsKnown
<1>6. ASSUME NEW w \in stray'
      PROVE  w \in stray \/ \E m \in left2 : w = Bearers!Work(m)
  OBVIOUS
<1>7. Bearers!TypeOK'
  <2>1. stray' \subseteq [role : Bearers!TokenRole, vault : Bearers!Vault, shared : BOOLEAN]
    BY <1>5, BearersParts
  <2> QED BY <1>3, <2>1, BearersParts, ServersAre
     DEF Bearers!TypeOK, Bearers!Server, Bearers!Vault, Bearers!Token, Bearers!TokenRole, Bearers!Turn, Bearers!NoTurn
<1>8. VaultsKnown'
  <2>1. \A w \in stray' : w.vault \in Bearers!Existing
    BY <1>5, <1>6, BearersParts DEF VaultsKnown
  <2>2. \A n \in Bearers!Busy' :
          /\ acting'[n].reuse \in Bearers!Existing \cup {0}
          /\ acting'[n].at \in Late => acting'[n].vault \in Bearers!Existing
    BY <1>2, <1>3, <1>4, BearersParts DEF VaultsKnown
  <2>3. inUse \in Bearers!Existing \cup {0} /\ (alive => inUse # 0)
    BY BearersParts DEF VaultsKnown
  <2> QED BY <1>1, <2>1, <2>2, <2>3 DEF VaultsKnown, Late
<1>9. AloneAtWork'
  <2>1. ASSUME NEW n \in Bearers!Busy', n \notin shared
        PROVE  Bearers!Busy' = {n} /\ stray' = {}
    <3>1. n \in Bearers!Busy /\ n \notin gone
      BY <1>4, <2>1
    <3>2. Bearers!Busy = {n} /\ stray = {}
      BY <2>1, <3>1, BearersParts DEF AloneAtWork
    <3>3. gone = {}
      BY <3>1, <3>2
    <3> QED BY <1>4, <3>2, <3>3
  <2>2. ASSUME NEW w \in stray', ~w.shared
        PROVE  Bearers!Busy' = {} /\ stray' = {w}
    <3>1. CASE w \in stray
      <4>1. Bearers!Busy = {} /\ stray = {w}
        BY <2>2, <3>1, BearersParts DEF AloneAtWork
      <4> QED BY <1>4, <4>1
    <3>2. CASE \E m \in left2 : w = Bearers!Work(m)
      <4>1. PICK m \in left2 : w = Bearers!Work(m)
        BY <3>2
      <4>2. m \in Bearers!Busy \ shared
        BY <1>5, <2>2, <4>1
      <4>3. Bearers!Busy = {m} /\ stray = {}
        BY <4>2, BearersParts DEF AloneAtWork
      <4>4. gone = {m} /\ left2 = {m}
        BY <4>3
      <4> QED BY <1>4, <4>1, <4>3, <4>4
    <3> QED BY <1>6, <3>1, <3>2
  <2> QED BY <2>1, <2>2 DEF AloneAtWork
<1>10. OwnTokens'
  <2> SUFFICES ASSUME OneVault'
               PROVE  /\ \A n \in Bearers!Busy' \ shared :
                           /\ acting'[n].at = "rotate" =>
                                \A i \in 1..2 : i <= acting'[n].done =>
                                  vaults[acting'[n].vault][<<"ledger", "payments">>[i]] = Bearers!Mint(acting'[n].role)
                           /\ acting'[n].at \in {"start", "register", "run"} =>
                                \A s \in TwoServers : vaults[acting'[n].vault][s] = Bearers!Mint(acting'[n].role)
                      /\ \A w \in stray' : ~w.shared => \A s \in TwoServers : vaults[w.vault][s] = Bearers!Mint(w.role)
    BY DEF OwnTokens, TwoServers, Bearers!Mint
  <2>1. OneVault
    BY <1>1
  <2>2. ASSUME NEW w \in stray', ~w.shared, NEW s \in TwoServers
        PROVE  vaults[w.vault][s] = Bearers!Mint(w.role)
    <3>1. CASE w \in stray
      BY <2>1, <2>2, <3>1, BearersParts DEF OwnTokens
    <3>2. CASE \E m \in left2 : w = Bearers!Work(m)
      <4>1. PICK m \in left2 : w = Bearers!Work(m)
        BY <3>2
      <4>2. m \in Bearers!Busy \ shared /\ acting[m].at = "run"
        BY <1>5, <2>2, <4>1
      <4>3. vaults[acting[m].vault][s] = Bearers!Mint(acting[m].role)
        BY <2>1, <4>2, BearersParts DEF OwnTokens
      <4> QED BY <1>5, <4>1, <4>3
    <3> QED BY <1>6, <3>1, <3>2
  <2>3. \A n \in Bearers!Busy' \ shared : n \in Bearers!Busy \ shared /\ acting'[n] = acting[n]
    BY <1>2, <1>3, <1>4
  <2>4. \A n \in Bearers!Busy \ shared :
           /\ acting[n].at = "rotate" =>
                \A i \in 1..2 : i <= acting[n].done =>
                  vaults[acting[n].vault][<<"ledger", "payments">>[i]] = Bearers!Mint(acting[n].role)
           /\ acting[n].at \in {"start", "register", "run"} =>
                \A s \in TwoServers : vaults[acting[n].vault][s] = Bearers!Mint(acting[n].role)
    BY <2>1, BearersParts DEF OwnTokens
  <2> QED BY <2>2, <2>3, <2>4
<1>11. VaultMadeOnce'
  BY <1>1, <1>2, <1>3, <1>4, BearersParts DEF VaultMadeOnce
<1>12. "alone" \in misfits' => ~OneVault'
  BY <1>1, BearersParts
<1> QED BY <1>7, <1>8, <1>9, <1>10, <1>11, <1>12 DEF BearersInv

LEMMA TimeOutStep ==
  ASSUME BearersInv, NEW m \in Customer, Bearers!TimeOut(m)
  PROVE  BearersInv'
<1>1. /\ acting[m].at = "run" /\ acting' = [acting EXCEPT ![m] = Bearers!NoTurn]
      /\ stray' = stray \cup {Bearers!Work(m)}
      /\ UNCHANGED <<vaults, inUse, alive, turns, shared, overlapped, misfits>>
  BY DEF Bearers!TimeOut
<1>2. acting[m] # Bearers!NoTurn
  BY <1>1 DEF Bearers!NoTurn
<1>3. {m} \in SUBSET Bearers!Busy
  BY <1>2 DEF Bearers!Busy
<1>4. acting \in [Customer -> Bearers!Turn]
  BY BearersParts
<1>5. acting' = [n \in Customer |-> IF n \in {m} THEN Bearers!NoTurn ELSE acting[n]]
  BY <1>1, <1>4
<1>6. stray' = stray \cup {Bearers!Work(n) : n \in {m}}
  BY <1>1
<1>7. {m} \in SUBSET {m} /\ \A n \in {m} : acting[n].at = "run"
  BY <1>1
<1> QED BY <1>1, <1>3, <1>5, <1>6, <1>7, LeftBehind

LEMMA KillStep ==
  ASSUME BearersInv, Bearers!Kill
  PROVE  BearersInv'
<1> DEFINE atRun == {n \in Bearers!Busy : acting[n].at = "run"}
<1>1. /\ acting' = [m \in Customer |-> Bearers!NoTurn]
      /\ stray' = stray \cup {Bearers!Work(m) : m \in atRun}
      /\ UNCHANGED <<vaults, inUse, alive, turns, shared, overlapped, misfits>>
  BY DEF Bearers!Kill
<1>2. Bearers!Busy \in SUBSET Bearers!Busy /\ atRun \in SUBSET Bearers!Busy
  OBVIOUS
<1>3. \A m \in atRun : acting[m].at = "run"
  OBVIOUS
<1>4. acting' = [m \in Customer |-> IF m \in Bearers!Busy THEN Bearers!NoTurn ELSE acting[m]]
  BY <1>1 DEF Bearers!Busy
<1> HIDE DEF atRun
<1> QED BY <1>1, <1>2, <1>3, <1>4, LeftBehind
-------------------------------------------------------------------------------
LEMMA BearersQuietStep ==
  ASSUME BearersInv, Bearers!StrayEnds \/ Bearers!SessionGone \/ UNCHANGED bearerVars
  PROVE  BearersInv'
<1>1. /\ UNCHANGED <<vaults, inUse, acting, turns, shared, overlapped, misfits>>
      /\ stray' \subseteq stray /\ (alive' = alive \/ alive' = FALSE)
  BY DEF Bearers!StrayEnds, Bearers!SessionGone, bearerVars
<1>2. Bearers!Existing' = Bearers!Existing /\ Bearers!Busy' = Bearers!Busy
  BY <1>1, ExistingIs DEF Bearers!Busy, Bearers!NoTurn
<1>3. OneVault' <=> OneVault
  BY <1>2 DEF OneVault
<1>4. Bearers!TypeOK'
  BY <1>1, BearersParts, ServersAre
     DEF Bearers!TypeOK, Bearers!Server, Bearers!Vault, Bearers!Token, Bearers!TokenRole, Bearers!Turn, Bearers!NoTurn
<1>5. VaultsKnown'
  BY <1>1, <1>2, BearersParts DEF VaultsKnown, Late
<1>6. AloneAtWork'
  <2>1. \A m \in Bearers!Busy \ shared : Bearers!Busy = {m} /\ stray' = {}
    BY <1>1, BearersParts DEF AloneAtWork
  <2>2. \A w \in stray' : ~w.shared => Bearers!Busy = {} /\ stray' = {w}
    BY <1>1, BearersParts DEF AloneAtWork
  <2> QED BY <1>1, <1>2, <2>1, <2>2 DEF AloneAtWork
<1>7. OwnTokens'
  <2>1. OneVault =>
          /\ \A n \in Bearers!Busy \ shared :
               /\ acting[n].at = "rotate" =>
                    \A i \in 1..2 : i <= acting[n].done =>
                      vaults[acting[n].vault][<<"ledger", "payments">>[i]] = Bearers!Mint(acting[n].role)
               /\ acting[n].at \in {"start", "register", "run"} =>
                    \A s \in TwoServers : vaults[acting[n].vault][s] = Bearers!Mint(acting[n].role)
          /\ \A w \in stray' : ~w.shared => \A s \in TwoServers : vaults[w.vault][s] = Bearers!Mint(w.role)
    BY <1>1, BearersParts DEF OwnTokens
  <2> QED BY <1>1, <1>2, <1>3, <2>1 DEF OwnTokens, TwoServers, Bearers!Mint
<1>8. VaultMadeOnce'
  BY <1>1, <1>2, <1>3, BearersParts DEF VaultMadeOnce
<1> QED BY <1>1, <1>3, <1>4, <1>5, <1>6, <1>7, <1>8, BearersParts DEF BearersInv

LEMMA NightStep ==
  ASSUME BearersInv, Bearers!Night
  PROVE  BearersInv'
<1>1. /\ Bearers!Busy = {} /\ stray = {}
      /\ vaults' = [v \in Bearers!Vault |->
           IF v \in Bearers!Existing
             THEN [s \in Bearers!Server |-> [vaults[v][s] EXCEPT !.fresh = FALSE]] ELSE <<>>]
      /\ UNCHANGED <<inUse, alive, acting, turns, stray, shared, overlapped, misfits>>
  BY DEF Bearers!Night, Bearers!rest
<1>2. ASSUME NEW v \in Bearers!Existing
      PROVE  [s \in TwoServers |-> [vaults[v][s] EXCEPT !.fresh = FALSE]] \in [TwoServers -> Bearers!Token]
  <2>1. v \in Bearers!Vault /\ vaults[v] # <<>>
    BY ExistingIs
  <2>2. vaults[v] \in [TwoServers -> Bearers!Token]
    BY <2>1, BearersParts
  <2> QED BY <2>2 DEF Bearers!Token
<1>3. vaults' \in [Bearers!Vault -> [TwoServers -> Bearers!Token] \cup {<<>>}]
  BY <1>1, <1>2, ServersAre
<1>4. Bearers!Existing' = Bearers!Existing
  <2>1. \A v \in Bearers!Vault : v \in Bearers!Existing => vaults'[v] \in [TwoServers -> Bearers!Token]
    BY <1>1, <1>2, ServersAre
  <2>2. \A v \in Bearers!Vault : v \notin Bearers!Existing => vaults'[v] = <<>>
    BY <1>1
  <2>3. \A v \in Bearers!Vault : vaults'[v] # <<>> <=> v \in Bearers!Existing
    BY <2>1, <2>2, ServersAre
  <2> QED BY <2>3, ExistingIs
<1>5. Bearers!Busy' = {} /\ (OneVault' <=> OneVault)
  <2>1. Bearers!Busy' = Bearers!Busy
    BY <1>1 DEF Bearers!Busy, Bearers!NoTurn
  <2> QED BY <1>1, <1>4, <2>1 DEF OneVault
<1>6. Bearers!TypeOK'
  BY <1>1, <1>3, BearersParts, ServersAre
     DEF Bearers!TypeOK, Bearers!Server, Bearers!Vault, Bearers!Token, Bearers!TokenRole, Bearers!Turn, Bearers!NoTurn
<1>7. VaultsKnown' /\ AloneAtWork' /\ OwnTokens'
  BY <1>1, <1>4, <1>5, BearersParts DEF VaultsKnown, AloneAtWork, OwnTokens
<1>8. VaultMadeOnce'
  BY <1>1, <1>4, <1>5, BearersParts DEF VaultMadeOnce
<1> QED BY <1>1, <1>5, <1>6, <1>7, <1>8, BearersParts DEF BearersInv

LEMMA BearersKept == BearersInv /\ [MCNext]_allVars => BearersInv'
<1> SUFFICES ASSUME BearersInv, [MCNext]_allVars PROVE BearersInv'
  OBVIOUS
<1>1. Bearers!Next \/ UNCHANGED bearerVars
  BY DEF MCNext, Signup, Deliver, Act, Spend, Delete, allVars
<1>2. CASE Bearers!Next
  <2>1. \/ \E m \in Customer : BearerMove(m)
        \/ \E m \in Customer : \E role \in {"owner", "staff"} : Bearers!Begin(m, role)
        \/ \E m \in Customer : Bearers!Call(m)
        \/ \E m \in Customer : Bearers!TimeOut(m)
        \/ \E w \in stray : Bearers!StrayCall(w)
        \/ Bearers!Kill \/ Bearers!StrayEnds \/ Bearers!SessionGone \/ Bearers!Night
    BY <1>2 DEF Bearers!Next, BearerMove
  <2> QED BY <2>1, BearerMoveStep, BeginStep, TurnCallStep, TimeOutStep, StrayCallStep, KillStep,
             BearersQuietStep, NightStep
<1> QED BY <1>1, <1>2, BearersQuietStep

LEMMA BearersStart == MCInit => BearersInv
<1> SUFFICES ASSUME MCInit PROVE BearersInv
  OBVIOUS
<1>1. /\ vaults = [v \in Bearers!Vault |-> <<>>] /\ inUse = 0 /\ alive = FALSE
      /\ acting = [m \in Customer |-> Bearers!NoTurn] /\ turns = 0
      /\ stray = {} /\ shared = {} /\ overlapped = FALSE /\ misfits = {}
  BY DEF MCInit, Bearers!Init
<1>2. Bearers!Existing = {} /\ Bearers!Busy = {}
  BY <1>1 DEF Bearers!Existing, Bearers!Busy
<1>3. Bearers!TypeOK
  <2>1. acting \in [Customer -> Bearers!Turn]
    BY <1>1, TurnIn
  <2>2. turns \in 0..MaxTurns
    BY <1>1, BearerAssumption
  <2> QED BY <1>1, <2>1, <2>2 DEF Bearers!TypeOK
<1> QED BY <1>1, <1>2, <1>3 DEF BearersInv, VaultsKnown, AloneAtWork, OwnTokens, VaultMadeOnce, OneVault

\* Bearers: what every step keeps of the vaults and of the token a turn was handed
\* (BearersInv), which the rights of a turn alone with the agent follow from.
THEOREM BearersAlways == MCSpec => []BearersInv
BY BearersStart, BearersKept, PTL DEF MCSpec

\* Two vaults are more than one.
LEMMA SecondVault == (\A v \in Bearers!Existing : v \in Bearers!Vault) /\ (Cardinality(Bearers!Existing) > 1 <=> ~OneVault)
<1>1. IsFiniteSet(Bearers!Existing)
  <2>1. IsFiniteSet(Bearers!Vault)
    BY FS_Interval, BearerAssumption DEF Bearers!Vault
  <2> QED BY <2>1, FS_Subset, ExistingIs
<1>2. OneVault => ~(Cardinality(Bearers!Existing) > 1)
  <2> SUFFICES ASSUME OneVault PROVE ~(Cardinality(Bearers!Existing) > 1)
    OBVIOUS
  <2>1. CASE Bearers!Existing = {}
    BY <2>1, FS_EmptySet
  <2>2. CASE \E v \in Bearers!Existing : TRUE
    <3>1. PICK v : Bearers!Existing = {v}
      BY <2>2 DEF OneVault
    <3> QED BY <3>1, FS_Singleton
  <2> QED BY <2>1, <2>2
<1>3. ASSUME ~OneVault PROVE Cardinality(Bearers!Existing) > 1
  <2>1. PICK v \in Bearers!Existing, w \in Bearers!Existing : v # w
    BY <1>3 DEF OneVault
  <2>2. Cardinality({v, w}) = 2
    <3>1. IsFiniteSet({v}) /\ Cardinality({v}) = 1
      BY FS_Singleton
    <3>2. Cardinality({v} \cup {w}) = Cardinality({v}) + 1
      BY <2>1, <3>1, FS_AddElement
    <3>3. {v} \cup {w} = {v, w}
      OBVIOUS
    <3> QED BY <3>1, <3>2, <3>3
  <2>3. Cardinality({v, w}) <= Cardinality(Bearers!Existing)
    <3>1. {v, w} \subseteq Bearers!Existing
      OBVIOUS
    <3> QED BY <1>1, <3>1, FS_Subset
  <2> QED BY <1>1, <2>2, <2>3, FS_CardinalityType
<1> QED BY <1>2, <1>3, ExistingIs

LEMMA OwnRights == BearersInv => Bearers!OwnRightsAlone /\ Bearers!OneVaultUnlessCrossed
<1> SUFFICES ASSUME BearersInv PROVE Bearers!OwnRightsAlone /\ Bearers!OneVaultUnlessCrossed
  OBVIOUS
<1>1. /\ "alone" \in misfits => ~OneVault
      /\ ~overlapped => OneVault
  BY BearersParts DEF VaultMadeOnce
<1>2. Cardinality(Bearers!Existing) > 1 <=> ~OneVault
  BY SecondVault
<1>3. \A S : Bearers!Cardinality(S) = Cardinality(S)
  BY DEF Bearers!Cardinality, Cardinality
<1> HIDE DEF OneVault
<1> QED BY <1>1, <1>2, <1>3 DEF Bearers!OwnRightsAlone, Bearers!OneVaultUnlessCrossed
-------------------------------------------------------------------------------
(* The invariant of the delivery of codes *)

MsgIds == 1..Len(msgs)

ProbeRow(m) == Delivery!Outstanding(m) /\ m.probe

HandsSound ==
  \A r \in Retrier :
    /\ hand[r].rows \subseteq MsgIds
    /\ hand[r].rows = {} <=> hand[r].at \in {"idle", "claim"}
    /\ hand[r].at = "idle" => hand[r] = Delivery!IdleHand

RowsMade == \A i \in MsgIds : msgs[i].attempt > 0 /\ (msgs[i].probe => msgs[i].attempt > 1)

\* A row in a hand, or sent again from one, is superseded: it is in one hand, and nobody
\* takes it up again.
RowsTaken ==
  /\ \A r \in Retrier : \A i \in hand[r].rows :
       msgs[i].superseded /\ \A j \in MsgIds : msgs[j].of # i
  /\ \A q, r \in Retrier : \A i \in hand[q].rows : i \in hand[r].rows => q = r
  /\ \A j \in MsgIds : msgs[j].of # 0 => msgs[j].of \in MsgIds /\ msgs[msgs[j].of].superseded

\* The rows that one row was sent again as are a notice and the code after it.
SentOnce ==
  \A i, j \in MsgIds :
    (i # j /\ msgs[i].of # 0 /\ msgs[i].of = msgs[j].of) => msgs[i].kind # msgs[j].kind

ProbeAlone ==
  met = {} =>
    /\ \A q, r \in Delivery!Busy : q = r
    /\ \A i, j \in MsgIds : ProbeRow(msgs[i]) /\ ProbeRow(msgs[j]) => i = j
    /\ \A r \in Delivery!Busy : hand[r].probing =>
         /\ \A i \in MsgIds : ~ProbeRow(msgs[i])
         /\ \A i, j \in hand[r].rows : i = j

DeliveryInv == Delivery!TypeOK /\ HandsSound /\ RowsMade /\ RowsTaken /\ SentOnce /\ ProbeAlone
-------------------------------------------------------------------------------
Statuses == {"accepted", "sent", "failed", "delivered", "read"}

Msg == [for : Customer, kind : Delivery!Kind, status : Statuses, scope : Delivery!Scope \cup {"none"},
        attempt : Nat, retry : {"no", "later", "due"}, superseded : BOOLEAN,
        fresh : BOOLEAN, of : Nat, probe : BOOLEAN]

Stages == [Customer -> {"review", "approved", "pending", "closed"}]
DeskType == [Retrier -> Delivery!Request \cup {Delivery!NoRequest}]
Mishaps == {"retriers", "batch"}

LEMMA StatusesAre ==
  /\ Delivery!Range(Delivery!Status) = Statuses
  /\ Delivery!Message = Msg
<1>1. Delivery!Range(Delivery!Status) = Statuses
  <2>1. DOMAIN Delivery!Status = 1..5
    BY DEF Delivery!Status
  <2>2. 1..5 = {1, 2, 3, 4, 5}
    OBVIOUS
  <2> QED BY <2>1, <2>2 DEF Delivery!Range, Delivery!Status, Statuses
<1> QED BY <1>1 DEF Delivery!Message, Msg

LEMMA RankIs ==
  /\ Delivery!Rank("accepted") = 1 /\ Delivery!Rank("sent") = 2 /\ Delivery!Rank("failed") = 3
  /\ Delivery!Rank("delivered") = 4 /\ Delivery!Rank("read") = 5
<1>1. Len(Delivery!Status) = 5 /\ 1..5 = {1, 2, 3, 4, 5}
  BY DEF Delivery!Status
<1>2. /\ Delivery!Status[1] = "accepted" /\ Delivery!Status[2] = "sent" /\ Delivery!Status[3] = "failed"
      /\ Delivery!Status[4] = "delivered" /\ Delivery!Status[5] = "read"
  BY DEF Delivery!Status
<1>3. ASSUME NEW s, NEW k \in {1, 2, 3, 4, 5}, Delivery!Status[k] = s PROVE Delivery!Rank(s) = k
  <2>1. \A i \in {1, 2, 3, 4, 5} : Delivery!Status[i] = s => i = k
    BY <1>2, <1>3
  <2> QED BY <1>1, <1>3, <2>1 DEF Delivery!Rank
<1> QED BY <1>2, <1>3

\* A report takes a message on: what was delivered, read or failed is never open again.
LEMMA MergedStatus ==
  ASSUME NEW s \in Statuses, NEW t \in Statuses, Delivery!MergeStatus(s, t) # s
  PROVE  /\ Delivery!MergeStatus(s, t) \in Statuses
         /\ s \notin {"accepted", "sent"} => Delivery!MergeStatus(s, t) \in {"delivered", "read"}
BY RankIs DEF Delivery!MergeStatus, Statuses

LEMMA DeliveryParts ==
  ASSUME DeliveryInv
  PROVE  /\ msgs \in Seq(Msg) /\ Len(msgs) \in Nat /\ Len(msgs) <= MaxSends + 1
         /\ \A i \in MsgIds : msgs[i] \in Msg
         /\ last \in 0..Len(msgs) /\ stage \in Stages
         /\ hand \in [Retrier -> [at : {"idle", "claim", "check", "send"}, probing : BOOLEAN,
                                  rows : SUBSET MsgIds]]
         /\ busyDesk \in DeskType /\ met \subseteq Mishaps
         /\ HandsSound /\ RowsMade /\ RowsTaken /\ SentOnce /\ ProbeAlone
<1>1. msgs \in Seq(Msg)
  BY StatusesAre DEF DeliveryInv, Delivery!TypeOK
<1>2. \A i \in MsgIds : msgs[i] \in Msg
  BY <1>1 DEF MsgIds
<1> QED BY <1>1, <1>2 DEF DeliveryInv, Delivery!TypeOK, MsgIds, Stages, DeskType, Mishaps

\* The earliest of the rows in a hand.
LEMMA CurrentRow ==
  ASSUME DeliveryInv, NEW r \in Retrier, hand[r].rows # {}
  PROVE  /\ Delivery!Current(r) \in hand[r].rows /\ Delivery!Current(r) \in MsgIds
<1>1. hand[r].rows \subseteq Nat /\ hand[r].rows \subseteq MsgIds
  BY DeliveryParts DEF MsgIds
<1>2. Min(hand[r].rows) \in hand[r].rows
  <2> DEFINE N == hand[r].rows
  <2>1. N \subseteq Nat /\ N # {}
    BY <1>1
  <2> HIDE DEF N
  <2>2. Min(N) \in N
    BY <2>1, LeastOf
  <2> QED BY <2>2 DEF N
<1>3. Delivery!Current(r) = Min(hand[r].rows)
  BY DEF Delivery!Current, Delivery!Min, Min
<1> QED BY <1>1, <1>2, <1>3

Batch(made, c, a, by) ==
  /\ made \in Seq(Msg) /\ Len(made) \in {1, 2}
  /\ \A i \in 1..Len(made) :
       made[i].for = c /\ made[i].attempt = a /\ made[i].of = by.of /\ made[i].probe = by.probe
  /\ Len(made) = 2 => made[1].kind # made[2].kind /\ ~ProbeRow(made[1])

Sender == [of : Nat, probe : BOOLEAN]
By(o, p) == [of |-> o, probe |-> p]

LEMMA SenderIs ==
  ASSUME NEW o \in Nat, NEW p \in BOOLEAN
  PROVE  By(o, p) \in Sender /\ By(o, p).of = o /\ By(o, p).probe = p
BY DEF By, Sender

LEMMA CodeBatch ==
  ASSUME NEW c \in Customer, NEW k \in Delivery!Kind, NEW a \in Nat, NEW by \in Sender,
         NEW made \in Delivery!CodeSent(c, k, a, by)
  PROVE  /\ \E m \in Msg :
              /\ made = <<m>> /\ m.for = c /\ m.attempt = a /\ m.kind = k /\ m.of = by.of /\ m.probe = by.probe
         /\ Batch(made, c, a, by)
<1> DEFINE x == Delivery!Accepted(c, k, a, by)
           y(s) == Delivery!Refused(c, k, a, by, s, TRUE)
<1>1. /\ x \in Msg /\ x.for = c /\ x.attempt = a /\ x.kind = k /\ x.of = by.of /\ x.probe = by.probe
  BY DEF Sender, Delivery!Accepted, Msg, Statuses
<1>2. ASSUME NEW s \in Failure
      PROVE  /\ y(s) \in Msg /\ y(s).for = c /\ y(s).attempt = a /\ y(s).kind = k /\ y(s).of = by.of /\ y(s).probe = by.probe
  <2>1. s \in Delivery!Scope
    BY DeliveryAssumption DEF Delivery!Scope
  <2> QED BY <2>1 DEF Sender, Delivery!Accepted, Delivery!Refused, Msg, Statuses
<1>3. made = <<x>> \/ \E s \in Failure : made = <<y(s)>>
  BY DEF Delivery!CodeSent
<1> HIDE DEF x, y
<1>4. PICK m \in Msg :
        /\ made = <<m>> /\ m.for = c /\ m.attempt = a /\ m.kind = k /\ m.of = by.of /\ m.probe = by.probe
  BY <1>1, <1>2, <1>3
<1>5. Batch(made, c, a, by)
  <2>1. made \in Seq(Msg) /\ Len(made) = 1 /\ 1..1 = {1} /\ made[1] = m
    BY <1>4
  <2> QED BY <1>4, <2>1 DEF Batch
<1> QED BY <1>4, <1>5

LEMMA ApprovalBatch ==
  ASSUME NEW c \in Customer, NEW a \in Nat, NEW by \in Sender,
         NEW made \in Delivery!ApprovalSent(c, a, by)
  PROVE  Batch(made, c, a, by)
<1> DEFINE x == Delivery!Accepted(c, "approval_notice", a, by)
           y(s) == Delivery!Refused(c, "approval_notice", a, by, s, FALSE)
<1>1. /\ x \in Msg /\ x.for = c /\ x.attempt = a /\ x.of = by.of /\ x.probe = by.probe
  BY DEF Sender, Delivery!Accepted, Msg, Statuses, Delivery!Kind
<1>2. ASSUME NEW s \in Failure
      PROVE  /\ y(s) \in Msg /\ y(s).for = c /\ y(s).attempt = a /\ y(s).kind = "approval_notice"
             /\ y(s).of = by.of /\ y(s).probe = by.probe /\ y(s).status = "failed"
  <2>1. s \in Delivery!Scope
    BY DeliveryAssumption DEF Delivery!Scope
  <2> QED BY <2>1 DEF Sender, Delivery!Accepted, Delivery!Refused, Msg, Statuses, Delivery!Kind
<1>3. \/ made = <<x>>
      \/ \E s \in Failure, code_ \in Delivery!CodeSent(c, "approval_code", a, by) : made = <<y(s)>> \o code_
  <2> DEFINE C == Delivery!CodeSent(c, "approval_code", a, by)
  <2>1. Delivery!ApprovalSent(c, a, by) = {<<x>>} \cup {<<y(s)>> \o k : s \in Failure, k \in C}
    BY DEF Delivery!ApprovalSent
  <2> HIDE DEF C, x, y
  <2> DEFINE T == {<<y(s)>> \o k : s \in Failure, k \in C}
             z == <<x>>
  <2>2. made = z \/ made \in T
    <3> HIDE DEF T, z
    <3>1. Delivery!ApprovalSent(c, a, by) = {z} \cup T
      BY <2>1 DEF T, z
    <3> QED BY <3>1
  <2>3. made \in T => \E s \in Failure, k \in C : made = <<y(s)>> \o k
    <3> SUFFICES ASSUME made \in T PROVE \E s \in Failure, k \in C : made = <<y(s)>> \o k
      OBVIOUS
    <3> QED OBVIOUS
  <2>4. made = <<x>> \/ \E s \in Failure, k \in C : made = <<y(s)>> \o k
    <3> HIDE DEF T
    <3>1. made = <<x>> \/ made \in T
      BY <2>2 DEF z
    <3> QED BY <2>3, <3>1, Zenon
  <2> QED BY <2>4 DEF C
<1> HIDE DEF x, y
<1>4. CASE made = <<x>>
  <2>1. made \in Seq(Msg) /\ Len(made) = 1 /\ 1..1 = {1} /\ made[1] = x
    BY <1>1, <1>4
  <2> QED BY <1>1, <2>1 DEF Batch
<1>5. ASSUME NEW s \in Failure, NEW code_ \in Delivery!CodeSent(c, "approval_code", a, by),
             made = <<y(s)>> \o code_
      PROVE  Batch(made, c, a, by)
  <2>1. "approval_code" \in Delivery!Kind
    BY DEF Delivery!Kind
  <2>2. PICK m \in Msg :
          /\ code_ = <<m>> /\ m.for = c /\ m.attempt = a /\ m.kind = "approval_code" /\ m.of = by.of /\ m.probe = by.probe
    BY <2>1, CodeBatch
  <2> DEFINE z == y(s)
  <2>3. made = <<z>> \o <<m>>
    BY <1>5, <2>2
  <2>4. /\ z \in Msg /\ z.for = c /\ z.attempt = a /\ z.kind = "approval_notice"
        /\ z.of = by.of /\ z.probe = by.probe /\ z.status = "failed"
    BY <1>2
  <2> HIDE DEF z
  <2>5. /\ made \in Seq(Msg) /\ Len(made) = 2 /\ made[1] = z /\ made[2] = m
        /\ 1..2 = {1, 2}
    BY <2>3, <2>4
  <2>6. ~ProbeRow(z)
    BY <2>4 DEF ProbeRow, Delivery!Outstanding
  <2> QED BY <2>2, <2>4, <2>5, <2>6 DEF Batch
<1> QED BY <1>3, <1>4, <1>5
-------------------------------------------------------------------------------
HandType == [at : {"idle", "claim", "check", "send"}, probing : BOOLEAN, rows : SUBSET MsgIds]

\* No retrier takes up anything new.
HandsLess ==
  /\ hand' \in [Retrier -> HandType]
  /\ \A r \in Retrier :
       /\ hand'[r].rows \subseteq hand[r].rows
       /\ hand'[r].rows = {} <=> hand'[r].at \in {"idle", "claim"}
       /\ hand'[r].at = "idle" => hand'[r] = Delivery!IdleHand
       /\ hand'[r].at # "idle" => hand[r].at # "idle" /\ hand'[r].probing = hand[r].probing

\* What is known of the messages changes; none is given back.
RowsWorn ==
  /\ msgs' \in Seq(Msg) /\ Len(msgs') = Len(msgs)
  /\ \A i \in MsgIds :
       /\ msgs'[i].for = msgs[i].for /\ msgs'[i].kind = msgs[i].kind
       /\ msgs'[i].attempt = msgs[i].attempt
       /\ msgs'[i].of = msgs[i].of /\ msgs'[i].probe = msgs[i].probe
       /\ msgs[i].superseded => msgs'[i].superseded
       /\ ProbeRow(msgs'[i]) => ProbeRow(msgs[i])

\* The desk and the stages are changed as they may be, and nothing of met is forgotten.
RestTyped ==
  /\ busyDesk' \in DeskType /\ stage' \in Stages
  /\ met \subseteq met' /\ met' \subseteq Mishaps

LEMMA BusyIs ==
  /\ Delivery!Busy = {r \in Retrier : hand[r].at # "idle"}
  /\ Delivery!Busy' = {r \in Retrier : hand'[r].at # "idle"}
BY DEF Delivery!Busy

LEMMA HandsLessBusy ==
  ASSUME DeliveryInv, HandsLess
  PROVE  /\ Delivery!Busy' \subseteq Delivery!Busy
         /\ \A r \in Delivery!Busy' : hand'[r].probing = hand[r].probing
BY BusyIs DEF HandsLess

LEMMA NothingHeld ==
  ASSUME DeliveryInv, UNCHANGED hand
  PROVE  HandsLess
BY DeliveryParts DEF HandsLess, HandsSound, HandType

LEMMA RowsAsTheyWere ==
  ASSUME DeliveryInv, UNCHANGED msgs
  PROVE  RowsWorn
BY DeliveryParts DEF RowsWorn

LEMMA RestAsItWas ==
  ASSUME DeliveryInv, UNCHANGED <<stage, busyDesk, met>>
  PROVE  RestTyped
BY DeliveryParts DEF RestTyped

LEMMA MessageSame == (Delivery!Message)' = Delivery!Message
BY DEF Delivery!Message, Delivery!Range, Delivery!Status, Delivery!Kind, Delivery!Scope

LEMMA WornParts ==
  ASSUME DeliveryInv, RowsWorn, RestTyped, last' \in 0..Len(msgs), hand' \in [Retrier -> HandType]
  PROVE  /\ MsgIds' = MsgIds /\ \A i \in MsgIds : msgs'[i] \in Msg
         /\ Delivery!TypeOK' /\ RowsMade' /\ SentOnce'
         /\ met' = {} => /\ met = {}
                         /\ \A i, j \in MsgIds : ProbeRow(msgs'[i]) /\ ProbeRow(msgs'[j]) => i = j
<1>1. MsgIds' = MsgIds /\ \A i \in MsgIds : msgs'[i] \in Msg
  BY DEF RowsWorn, MsgIds
<1>2. Delivery!TypeOK'
  <2>1. msgs' \in Seq(Delivery!Message) /\ Len(msgs') <= MaxSends + 1
    BY DeliveryParts, StatusesAre DEF RowsWorn
  <2>2. last' \in 0..Len(msgs')
    BY DEF RowsWorn
  <2>3. hand' \in [Retrier -> [at : {"idle", "claim", "check", "send"}, probing : BOOLEAN,
                               rows : SUBSET (1..Len(msgs'))]]
    BY <1>1 DEF HandType, MsgIds
  <2>4. busyDesk' \in [Retrier -> (Delivery!Request)' \cup {(Delivery!NoRequest)'}]
    BY DEF RestTyped, DeskType, Delivery!Request, Delivery!NoRequest
  <2> QED BY <2>1, <2>2, <2>3, <2>4, MessageSame DEF Delivery!TypeOK, RestTyped, Stages, Mishaps
<1>3. RowsMade'
  BY <1>1, DeliveryParts DEF RowsMade, RowsWorn
<1>4. SentOnce'
  BY <1>1, DeliveryParts DEF SentOnce, RowsWorn
<1>5. met' = {} => /\ met = {}
                   /\ \A i, j \in MsgIds : ProbeRow(msgs'[i]) /\ ProbeRow(msgs'[j]) => i = j
  BY DeliveryParts DEF ProbeAlone, RowsWorn, RestTyped
<1> QED BY <1>1, <1>2, <1>3, <1>4, <1>5

LEMMA DeliveryWorn ==
  ASSUME DeliveryInv, HandsLess, RowsWorn, RestTyped, last' \in 0..Len(msgs)
  PROVE  DeliveryInv'
<1>1. /\ MsgIds' = MsgIds /\ Delivery!TypeOK' /\ RowsMade' /\ SentOnce'
      /\ met' = {} => /\ met = {}
                      /\ \A i, j \in MsgIds : ProbeRow(msgs'[i]) /\ ProbeRow(msgs'[j]) => i = j
  BY WornParts DEF HandsLess
<1>2. HandsSound'
  BY <1>1, DeliveryParts DEF HandsSound, HandsLess, HandType, Delivery!IdleHand
<1>3. RowsTaken'
  <2>1. \A r \in Retrier : \A i \in hand'[r].rows : i \in hand[r].rows /\ i \in MsgIds
    BY DeliveryParts DEF HandsLess, HandsSound
  <2>2. \A r \in Retrier : \A i \in hand'[r].rows :
          msgs'[i].superseded /\ \A j \in MsgIds : msgs'[j].of # i
    BY <2>1, DeliveryParts DEF RowsTaken, RowsWorn
  <2>3. \A q, r \in Retrier : \A i \in hand'[q].rows : i \in hand'[r].rows => q = r
    BY <2>1, DeliveryParts DEF RowsTaken
  <2>4. \A j \in MsgIds : msgs'[j].of # 0 => msgs'[j].of \in MsgIds /\ msgs'[msgs'[j].of].superseded
    BY DeliveryParts DEF RowsTaken, RowsWorn
  <2> QED BY <1>1, <2>2, <2>3, <2>4 DEF RowsTaken
<1>4. ProbeAlone'
  <2> SUFFICES ASSUME met' = {}
               PROVE  /\ \A q, r \in Delivery!Busy' : q = r
                      /\ \A i, j \in MsgIds : ProbeRow(msgs'[i]) /\ ProbeRow(msgs'[j]) => i = j
                      /\ \A r \in Delivery!Busy' : hand'[r].probing =>
                           /\ \A i \in MsgIds : ~ProbeRow(msgs'[i])
                           /\ \A i, j \in hand'[r].rows : i = j
    BY <1>1 DEF ProbeAlone, ProbeRow, Delivery!Outstanding
  <2>1. \A r \in Delivery!Busy' : r \in Retrier
    BY BusyIs
  <2> QED BY <1>1, <2>1, HandsLessBusy, DeliveryParts DEF ProbeAlone, RowsWorn, HandsLess
<1> QED BY <1>1, <1>2, <1>3, <1>4 DEF DeliveryInv
-------------------------------------------------------------------------------
\* One message is changed.
LEMMA OneWorn ==
  ASSUME DeliveryInv, NEW i \in MsgIds, NEW m \in Msg, msgs' = [msgs EXCEPT ![i] = m],
         m.for = msgs[i].for, m.kind = msgs[i].kind, m.attempt = msgs[i].attempt,
         m.of = msgs[i].of, m.probe = msgs[i].probe, m.superseded = msgs[i].superseded,
         ProbeRow(m) => ProbeRow(msgs[i])
  PROVE  RowsWorn
<1>1. msgs \in Seq(Msg)
  BY DeliveryParts
<1>2. /\ msgs' \in Seq(Msg) /\ Len(msgs') = Len(msgs) /\ msgs'[i] = m
      /\ \A j \in MsgIds : j # i => msgs'[j] = msgs[j]
  <2>1. DOMAIN msgs = 1..Len(msgs)
    BY <1>1
  <2> QED BY <1>1, <2>1 DEF MsgIds
<1> QED BY <1>2, DeliveryParts DEF RowsWorn

LEMMA ReportStep ==
  ASSUME DeliveryInv, NEW i \in MsgIds, NEW incoming \in Statuses, NEW scope \in Failure,
         Delivery!Report(i, incoming, scope)
  PROVE  DeliveryInv'
<1> DEFINE m == msgs[i]
           merged == Delivery!MergeStatus(m.status, incoming)
           decision == Delivery!DecideRetry(scope, m.attempt, m.kind)
           newScope == IF merged = "failed" THEN scope ELSE m.scope
           newRetry == IF merged # "failed" THEN IF m.status = "failed" THEN "no" ELSE m.retry
                       ELSE CASE decision = "retry" -> "later"
                              [] decision = "fallback" -> "due"
                              [] OTHER -> "no"
           x == [m EXCEPT !.status = merged, !.scope = newScope, !.retry = newRetry]
<1>1. /\ merged # m.status /\ msgs' = [msgs EXCEPT ![i] = x]
      /\ last' = IF merged \in Delivery!Outcome THEN i ELSE last
      /\ UNCHANGED <<stage, hand, busyDesk, met>>
  BY DEF Delivery!Report
<1>2. m \in Msg
  BY DeliveryParts
<1>3. /\ merged \in Statuses
      /\ m.status \notin {"accepted", "sent"} => merged \in {"delivered", "read"}
  BY <1>1, <1>2, MergedStatus DEF Msg
<1>4. newScope \in Delivery!Scope \cup {"none"}
  BY <1>2, DeliveryAssumption DEF Msg, Delivery!Scope
<1>6. newRetry \in {"no", "later", "due"}
  <2>1. CASE merged # "failed"
    <3>1. newRetry = IF m.status = "failed" THEN "no" ELSE m.retry
      BY <2>1
    <3> HIDE DEF newRetry, merged, decision
    <3> QED BY <3>1, <1>2 DEF Msg
  <2>2. CASE merged = "failed"
    <3> HIDE DEF merged, decision
    <3>1. CASE decision = "retry"
      BY <2>2, <3>1
    <3>2. CASE decision = "fallback"
      BY <2>2, <3>2
    <3>3. CASE decision # "retry" /\ decision # "fallback"
      BY <2>2, <3>3
    <3> HIDE DEF newRetry
    <3> QED BY <2>2, <3>1, <3>2, <3>3
  <2> HIDE DEF newRetry, merged
  <2> QED BY <2>1, <2>2
<1> HIDE DEF merged, decision, newScope, newRetry
<1>8. /\ x \in Msg /\ x.for = m.for /\ x.kind = m.kind /\ x.attempt = m.attempt
      /\ x.of = m.of /\ x.probe = m.probe /\ x.status = merged /\ x.superseded = m.superseded /\ x.fresh = m.fresh
  BY <1>2, <1>3, <1>4, <1>6 DEF Msg
<1>10. ProbeRow(x) => ProbeRow(m)
  BY <1>3, <1>8 DEF ProbeRow, Delivery!Outstanding
<1> HIDE DEF x, m
<1>11. RowsWorn
  <2>1. m = msgs[i]
    BY DEF m
  <2> QED BY <1>1, <1>8, <1>10, <2>1, OneWorn
<1>12. last' \in 0..Len(msgs)
  BY <1>1, DeliveryParts DEF MsgIds
<1> QED BY <1>1, <1>11, <1>12, NothingHeld, RestAsItWas, DeliveryWorn

LEMMA AgeStep ==
  ASSUME DeliveryInv, NEW i \in MsgIds, Delivery!BecomesDue(i) \/ Delivery!WindowOver(i)
  PROVE  DeliveryInv'
<1> DEFINE m == msgs[i]
<1>1. m \in Msg
  BY DeliveryParts
<1>2. UNCHANGED <<last, stage, hand, busyDesk, met>>
  BY DEF Delivery!BecomesDue, Delivery!WindowOver
<1>3. last' \in 0..Len(msgs)
  BY <1>2, DeliveryParts
<1>4. RowsWorn
  <2>1. CASE Delivery!BecomesDue(i)
    <3> DEFINE x == [m EXCEPT !.retry = "due"]
    <3>1. msgs' = [msgs EXCEPT ![i] = x] /\ m.retry = "later"
      BY <2>1 DEF Delivery!BecomesDue
    <3>2. /\ x \in Msg /\ x.for = m.for /\ x.kind = m.kind /\ x.attempt = m.attempt
          /\ x.of = m.of /\ x.probe = m.probe /\ x.status = m.status /\ x.retry = "due" /\ x.superseded = m.superseded /\ x.fresh = m.fresh
      BY <1>1 DEF Msg
    <3>3. ProbeRow(x) => ProbeRow(m)
      BY <3>1, <3>2 DEF ProbeRow, Delivery!Outstanding
    <3>4. m = msgs[i]
      OBVIOUS
    <3> HIDE DEF x, m
    <3> QED BY <1>1, <3>1, <3>2, <3>3, <3>4, OneWorn
  <2>2. CASE Delivery!WindowOver(i)
    <3> DEFINE x == [m EXCEPT !.fresh = FALSE]
    <3>1. msgs' = [msgs EXCEPT ![i] = x]
      BY <2>2 DEF Delivery!WindowOver
    <3>2. /\ x \in Msg /\ x.for = m.for /\ x.kind = m.kind /\ x.attempt = m.attempt
          /\ x.of = m.of /\ x.probe = m.probe /\ x.status = m.status /\ x.retry = m.retry /\ x.superseded = m.superseded /\ ~x.fresh
      BY <1>1 DEF Msg
    <3>3. ProbeRow(x) => ProbeRow(m)
      BY <3>1, <3>2 DEF ProbeRow, Delivery!Outstanding
    <3>4. m = msgs[i]
      OBVIOUS
    <3> HIDE DEF x, m
    <3> QED BY <1>1, <3>1, <3>2, <3>3, <3>4, OneWorn
  <2> QED BY <2>1, <2>2
<1> QED BY <1>2, <1>3, <1>4, NothingHeld, RestAsItWas, DeliveryWorn

\* One hand is emptied, wholly or of its current row, or goes on to send it.
LEMMA OneHandLess ==
  ASSUME DeliveryInv, NEW r \in Retrier, NEW h \in HandType, hand' = [hand EXCEPT ![r] = h],
         h.rows \subseteq hand[r].rows, h.rows = {} <=> h.at \in {"idle", "claim"},
         h.at = "idle" => h = Delivery!IdleHand,
         h.at # "idle" => hand[r].at # "idle" /\ h.probing = hand[r].probing
  PROVE  HandsLess
<1>1. hand \in [Retrier -> HandType]
  BY DeliveryParts DEF HandType
<1>2. hand' \in [Retrier -> HandType] /\ hand'[r] = h /\ \A q \in Retrier : q # r => hand'[q] = hand[q]
  BY <1>1
<1> QED BY <1>2, DeliveryParts DEF HandsLess, HandsSound

\* A hand that has done with its current row.
LEMMA RowDone ==
  ASSUME DeliveryInv, NEW r \in Retrier, hand[r].rows # {}, Delivery!NextRow(r)
  PROVE  /\ HandsLess
         /\ hand'[r].rows = hand[r].rows \ {Delivery!Current(r)}
         /\ hand'[r].rows = {} => hand'[r].at = "idle"
         /\ \A q \in Retrier : q # r => hand'[q] = hand[q]
<1> DEFINE h == hand[r]
           others == h.rows \ {Delivery!Current(r)}
           x == IF others = {} THEN Delivery!IdleHand ELSE [h EXCEPT !.at = "check", !.rows = others]
<1>1. hand' = [hand EXCEPT ![r] = x]
  BY DEF Delivery!NextRow
<1>2. h \in HandType /\ hand \in [Retrier -> HandType]
  BY DeliveryParts DEF HandType
<1>3. h.at # "idle"
  BY DeliveryParts DEF HandsSound
<1>4. others \subseteq h.rows /\ others \subseteq MsgIds
  BY <1>2 DEF HandType
<1>5. /\ x \in HandType /\ x.rows = others
      /\ others = {} <=> x.at = "idle"
      /\ others = {} => x = Delivery!IdleHand
      /\ others # {} => x.at = "check" /\ x.probing = h.probing
  <2> HIDE DEF others
  <2>1. CASE others = {}
    BY <2>1 DEF HandType, Delivery!IdleHand
  <2>2. CASE others # {}
    BY <2>2, <1>2, <1>4 DEF HandType
  <2> QED BY <2>1, <2>2
<1> HIDE DEF x
<1>6. HandsLess
  BY <1>1, <1>3, <1>4, <1>5, OneHandLess
<1>7. hand'[r] = x /\ \A q \in Retrier : q # r => hand'[q] = hand[q]
  BY <1>1, <1>2
<1> QED BY <1>5, <1>6, <1>7

LEMMA HandStep ==
  ASSUME DeliveryInv, NEW r \in Retrier,
         Delivery!Skip(r) \/ Delivery!Check(r) \/ Delivery!Killed(r)
  PROVE  DeliveryInv'
<1>1. UNCHANGED <<msgs, last, stage, busyDesk, met>>
  BY DEF Delivery!Skip, Delivery!Check, Delivery!Killed
<1>2. last' \in 0..Len(msgs)
  BY <1>1, DeliveryParts
<1> DEFINE h == hand[r]
<1>3. h \in HandType
  BY DeliveryParts DEF HandType
<1>4. HandsLess
  <2>1. CASE Delivery!Skip(r)
    <3>1. hand[r].at = "check" /\ Delivery!NextRow(r)
      BY <2>1 DEF Delivery!Skip
    <3>2. hand[r].rows # {}
      BY <3>1, DeliveryParts DEF HandsSound
    <3> QED BY <3>1, <3>2, RowDone
  <2>2. CASE Delivery!Check(r)
    <3> DEFINE x == [h EXCEPT !.at = "send"]
    <3>1. hand' = [hand EXCEPT ![r] = x] /\ h.at = "check"
      BY <2>2 DEF Delivery!Check
    <3>2. h.rows # {}
      BY <3>1, DeliveryParts DEF HandsSound
    <3>3. x \in HandType /\ x.at = "send" /\ x.rows = h.rows /\ x.probing = h.probing
      BY <1>3 DEF HandType
    <3> HIDE DEF x
    <3> QED BY <3>1, <3>2, <3>3, OneHandLess
  <2>3. CASE Delivery!Killed(r)
    <3>1. hand' = [hand EXCEPT ![r] = Delivery!IdleHand]
      BY <2>3 DEF Delivery!Killed
    <3>2. Delivery!IdleHand \in HandType /\ Delivery!IdleHand.at = "idle" /\ Delivery!IdleHand.rows = {}
      BY DEF Delivery!IdleHand, HandType
    <3>3. {} \subseteq hand[r].rows
      OBVIOUS
    <3> QED BY <3>1, <3>2, <3>3, OneHandLess
  <2> QED BY <2>1, <2>2, <2>3
<1> QED BY <1>1, <1>2, <1>4, RowsAsTheyWere, RestAsItWas, DeliveryWorn

LEMMA RowsSuperseded ==
  ASSUME DeliveryInv, NEW S, S \subseteq MsgIds,
         msgs' = [i \in 1..Len(msgs) |-> IF i \in S THEN Delivery!Supersede(msgs[i]) ELSE msgs[i]]
  PROVE  /\ RowsWorn
         /\ \A i \in S : msgs'[i].superseded
<1>1. ASSUME NEW m \in Msg
      PROVE  LET x == Delivery!Supersede(m) IN
             /\ x \in Msg /\ x.for = m.for /\ x.kind = m.kind /\ x.attempt = m.attempt
             /\ x.of = m.of /\ x.probe = m.probe /\ x.superseded /\ ~ProbeRow(x)
  BY Zenon DEF Delivery!Supersede, Msg, ProbeRow, Delivery!Outstanding
<1>2. \A i \in MsgIds : /\ msgs[i] \in Msg
                        /\ msgs'[i] = IF i \in S THEN Delivery!Supersede(msgs[i]) ELSE msgs[i]
  BY DeliveryParts DEF MsgIds
<1> DEFINE n == Len(msgs)
<1>3. msgs' \in Seq(Msg) /\ Len(msgs') = Len(msgs)
  <2>1. n \in Nat /\ n = Len(msgs)
    BY DeliveryParts
  <2>2. msgs' \in [1..n -> Msg]
    BY <1>1, <1>2 DEF MsgIds
  <2> HIDE DEF n
  <2>3. msgs' \in Seq(Msg)
    BY <2>1, <2>2, SeqDef
  <2>4. DOMAIN msgs' = 1..n
    BY <2>2
  <2>5. Len(msgs') = n
    BY <2>1, <2>3, <2>4, LenProperties
  <2> QED BY <2>1, <2>3, <2>5
<1>4. ASSUME NEW i \in MsgIds
      PROVE  /\ msgs'[i].for = msgs[i].for /\ msgs'[i].kind = msgs[i].kind
             /\ msgs'[i].attempt = msgs[i].attempt
             /\ msgs'[i].of = msgs[i].of /\ msgs'[i].probe = msgs[i].probe
             /\ msgs[i].superseded => msgs'[i].superseded
             /\ ProbeRow(msgs'[i]) => ProbeRow(msgs[i])
             /\ i \in S => msgs'[i].superseded
  <2>1. CASE i \in S
    BY <1>1, <1>2, <2>1
  <2>2. CASE i \notin S
    BY <1>2, <2>2
  <2> QED BY <2>1, <2>2
<1> QED BY <1>3, <1>4 DEF RowsWorn

\* Requests, approvals and those that leave: nothing is sent yet.
LEMMA StillStep ==
  ASSUME DeliveryInv,
         \/ UNCHANGED deliveryVars
         \/ \E c \in Customer : Delivery!Leaves(c)
         \/ \E k \in Retrier, c \in Customer : Delivery!Approve(k, c)
  PROVE  DeliveryInv'
<1>1. UNCHANGED <<msgs, last, hand, met>>
  BY DEF deliveryVars, Delivery!Leaves, Delivery!Approve
<1>2. stage' \in Stages
  <2>1. \A c \in Customer : \A s \in {"review", "approved", "closed"} :
          [stage EXCEPT ![c] = s] \in Stages
    BY DeliveryParts DEF Stages
  <2> QED BY <2>1, DeliveryParts DEF deliveryVars, Delivery!Leaves, Delivery!Approve
<1>3. busyDesk' \in DeskType
  <2>1. ASSUME NEW c \in Customer, NEW k \in Retrier, Delivery!To(k, c, "approval_notice", 1)
        PROVE  busyDesk' \in DeskType
    <3>1. [for |-> c, kind |-> "approval_notice", attempt |-> 1] \in Delivery!Request
      BY DEF Delivery!Request
    <3> QED BY <2>1, <3>1, DeliveryParts DEF Delivery!To, DeskType
  <2> QED BY <2>1, DeliveryParts DEF deliveryVars, Delivery!Leaves, Delivery!Approve
<1>4. RestTyped
  BY <1>1, <1>2, <1>3, DeliveryParts DEF RestTyped
<1>5. last' \in 0..Len(msgs)
  BY <1>1, DeliveryParts
<1> QED BY <1>1, <1>4, <1>5, NothingHeld, RowsAsTheyWere, DeliveryWorn

LEMMA PressRetryStep ==
  ASSUME DeliveryInv, NEW k \in Retrier, NEW c \in Customer, Delivery!PressRetry(k, c)
  PROVE  DeliveryInv'
<1> DEFINE S == {i \in MsgIds : msgs[i].for = c /\ ~msgs[i].superseded}
           kind_ == IF stage[c] = "approved" THEN "approval_notice" ELSE "admin_code"
           a == Delivery!LastAttempt(c) + 1
<1>1. /\ msgs' = [i \in 1..Len(msgs) |-> IF msgs[i].for = c /\ ~msgs[i].superseded
                                         THEN Delivery!Supersede(msgs[i]) ELSE msgs[i]]
      /\ Delivery!To(k, c, kind_, a)
      /\ UNCHANGED <<last, stage, hand, met>>
  BY DEF Delivery!PressRetry
<1>2. RowsWorn
  <2>1. S \subseteq MsgIds
    OBVIOUS
  <2>2. msgs' = [i \in 1..Len(msgs) |-> IF i \in S THEN Delivery!Supersede(msgs[i]) ELSE msgs[i]]
    BY <1>1 DEF MsgIds
  <2> HIDE DEF S
  <2> QED BY <2>1, <2>2, RowsSuperseded
<1>3. a \in Nat \ {0}
  <2>1. Delivery!LastAttempt(c) \in Nat
    <3> DEFINE T == Delivery!Of(c)
    <3>1. CASE T = {}
      BY <3>1 DEF Delivery!LastAttempt
    <3>2. CASE T # {}
      <4>1. T \subseteq 1..Len(msgs) /\ Len(msgs) \in Nat
        BY DeliveryParts DEF Delivery!Of
      <4>2. Max(T) \in T
        <5> HIDE DEF T
        <5> QED BY <3>2, <4>1, GreatestOf
      <4>3. Delivery!Max(T) \in MsgIds
        <5>1. Delivery!Max(T) = Max(T)
          BY DEF Delivery!Max, Max
        <5> QED BY <4>1, <4>2, <5>1 DEF MsgIds
      <4>4. msgs[Delivery!Max(T)].attempt \in Nat
        BY <4>3, DeliveryParts DEF Msg
      <4> QED BY <3>2, <4>4 DEF Delivery!LastAttempt
    <3> QED BY <3>1, <3>2
  <2> QED BY <2>1
<1>4. busyDesk' \in DeskType
  <2>1. [for |-> c, kind |-> kind_, attempt |-> a] \in Delivery!Request
    BY <1>3 DEF Delivery!Request
  <2> HIDE DEF kind_, a
  <2> QED BY <1>1, <2>1, DeliveryParts DEF Delivery!To, DeskType
<1>5. RestTyped /\ last' \in 0..Len(msgs)
  BY <1>1, <1>4, DeliveryParts DEF RestTyped
<1> QED BY <1>1, <1>2, <1>5, NothingHeld, DeliveryWorn
-------------------------------------------------------------------------------
\* Messages to one business are added.
LEMMA BatchAdded ==
  ASSUME DeliveryInv, HandsLess, RestTyped,
         NEW c \in Customer, NEW a \in Nat, NEW o \in Nat, NEW p \in BOOLEAN, NEW made,
         Batch(made, c, a, By(o, p)), Delivery!Insert(made), Len(msgs) < MaxSends,
         a > 0, p => a > 1,
         o # 0 => /\ o \in MsgIds /\ msgs[o].superseded
                  /\ \A j \in MsgIds : msgs[j].of # o
                  /\ \A r \in Retrier : o \notin hand'[r].rows,
         met' = {} /\ p =>
           /\ \A i \in MsgIds : ~ProbeRow(msgs[i])
           /\ \A r \in Delivery!Busy' : ~hand'[r].probing
  PROVE  DeliveryInv'
<1> DEFINE L == Len(msgs)
           k == Len(made)
<1>0. L = Len(msgs) /\ k = Len(made)
  OBVIOUS
<1>1. L \in Nat /\ k \in {1, 2} /\ L + k \in Nat /\ msgs \in Seq(Msg) /\ made \in Seq(Msg)
  BY DeliveryParts DEF Batch
<1>2. /\ msgs' \in Seq(Msg) /\ Len(msgs') = L + k
      /\ \A i \in 1..L : msgs'[i] = msgs[i]
      /\ \A i \in 1..k : msgs'[L + i] = made[i]
  <2>1. msgs' = msgs \o made
    BY DEF Delivery!Insert
  <2>2. /\ msgs' \in Seq(Msg) /\ Len(msgs') = L + k
        /\ \A i \in 1..(L + k) : msgs'[i] = IF i <= L THEN msgs[i] ELSE made[i - L]
    BY <1>1, <2>1, ConcatProperties
  <2>3. ASSUME NEW i \in 1..k PROVE L + i \in 1..(L + k) /\ ~(L + i <= L) /\ L + i - L = i
    BY <1>1
  <2> QED BY <1>1, <2>2, <2>3
<1> HIDE DEF L, k
<1> DEFINE New(i) == i \in (L + 1)..(L + k)
<1>3. \A i \in MsgIds : i \in MsgIds' /\ msgs'[i] = msgs[i] /\ ~New(i)
  BY <1>0, <1>1, <1>2 DEF MsgIds
<1>4. ASSUME NEW i \in MsgIds'
      PROVE  (i \in MsgIds /\ msgs'[i] = msgs[i]) \/ New(i)
  BY <1>0, <1>1, <1>2 DEF MsgIds
<1>5. ASSUME NEW i, New(i)
      PROVE  /\ i \in MsgIds' /\ i > L /\ msgs'[i] \in Msg
             /\ msgs'[i].attempt = a /\ msgs'[i].of = o /\ msgs'[i].probe = p
  <2>1. i \in 1..(L + k) /\ i - L \in 1..k /\ L + (i - L) = i /\ i > L
    BY <1>1, <1>5
  <2>2. msgs'[i] = made[i - L]
    BY <1>2, <2>1
  <2>3. made[i - L] \in Msg
    BY <1>0, <1>1, <2>1
  <2> QED BY <1>0, <1>2, <2>1, <2>2, <2>3, SenderIs DEF Batch, MsgIds
<1>6. ASSUME NEW i, NEW j, New(i), New(j), i # j
      PROVE  ~(ProbeRow(msgs'[i]) /\ ProbeRow(msgs'[j])) /\ msgs'[i].kind # msgs'[j].kind
  <2>1. k = 2 /\ ((i = L + 1 /\ j = L + 2) \/ (i = L + 2 /\ j = L + 1))
    BY <1>1, <1>6
  <2>2. msgs'[L + 1] = made[1] /\ msgs'[L + 2] = made[2]
    BY <1>2, <2>1
  <2>3. made[1].kind # made[2].kind /\ ~ProbeRow(made[1])
    BY <1>0, <2>1 DEF Batch
  <2> QED BY <2>1, <2>2, <2>3
<1>7. last' \in 0..Len(msgs')
  <2>1. last \in 0..L
    BY <1>0, DeliveryParts
  <2>2. last' \in {L + k, last} \/ (k = 2 /\ last' = L + 1)
    BY <1>0, <1>2 DEF Delivery!Insert
  <2> QED BY <1>1, <1>2, <2>1, <2>2
<1> HIDE DEF New
<1>8. Delivery!TypeOK'
  <2>1. msgs' \in Seq(Delivery!Message) /\ Len(msgs') <= MaxSends + 1
    <3>1. MaxSends \in Nat /\ L < MaxSends
      BY <1>0, DeliveryAssumption
    <3> QED BY <1>1, <1>2, <3>1, StatusesAre
  <2>3. hand' \in [Retrier -> [at : {"idle", "claim", "check", "send"}, probing : BOOLEAN,
                               rows : SUBSET (1..Len(msgs'))]]
    <3>1. MsgIds \subseteq 1..Len(msgs')
      BY <1>0, <1>1, <1>2 DEF MsgIds
    <3> QED BY <3>1 DEF HandsLess, HandType
  <2>4. busyDesk' \in [Retrier -> (Delivery!Request)' \cup {(Delivery!NoRequest)'}]
    BY DEF RestTyped, DeskType, Delivery!Request, Delivery!NoRequest
  <2> QED BY <1>7, <2>1, <2>3, <2>4, MessageSame DEF Delivery!TypeOK, RestTyped, Stages, Mishaps
<1>9. HandsSound'
  BY <1>3, DeliveryParts DEF HandsSound, HandsLess, HandType, Delivery!IdleHand
<1>10. RowsMade'
  BY <1>4, <1>5, DeliveryParts DEF RowsMade
<1>11. \A r \in Retrier : \A i \in hand'[r].rows : i \in hand[r].rows /\ i \in MsgIds
  BY DeliveryParts DEF HandsLess, HandsSound
<1>12. RowsTaken'
  <2>1. ASSUME NEW r \in Retrier, NEW i \in hand'[r].rows
        PROVE  msgs'[i].superseded /\ \A j \in MsgIds' : msgs'[j].of # i
    <3>1. i \in hand[r].rows /\ i \in MsgIds /\ msgs'[i] = msgs[i] /\ i # 0
      BY <1>3, <1>11, <2>1 DEF MsgIds
    <3>2. msgs[i].superseded /\ \A j \in MsgIds : msgs[j].of # i
      BY <3>1, DeliveryParts DEF RowsTaken
    <3>3. ASSUME NEW j \in MsgIds' PROVE msgs'[j].of # i
      <4>1. CASE j \in MsgIds
        BY <1>3, <3>2, <4>1
      <4>2. CASE New(j)
        BY <1>5, <2>1, <3>1, <4>2
      <4> QED BY <1>4, <4>1, <4>2
    <3> QED BY <3>1, <3>2, <3>3
  <2>2. \A q, r \in Retrier : \A i \in hand'[q].rows : i \in hand'[r].rows => q = r
    BY <1>11, DeliveryParts DEF RowsTaken
  <2>3. ASSUME NEW j \in MsgIds', msgs'[j].of # 0
        PROVE  msgs'[j].of \in MsgIds' /\ msgs'[msgs'[j].of].superseded
    <3>1. msgs'[j].of \in MsgIds /\ msgs[msgs'[j].of].superseded
      <4>1. CASE j \in MsgIds
        BY <1>3, <2>3, <4>1, DeliveryParts DEF RowsTaken
      <4>2. CASE New(j)
        BY <1>5, <2>3, <4>2
      <4> QED BY <1>4, <4>1, <4>2
    <3> QED BY <1>3, <3>1
  <2> QED BY <2>1, <2>2, <2>3 DEF RowsTaken
<1>13. SentOnce'
  <2> SUFFICES ASSUME NEW i \in MsgIds', NEW j \in MsgIds', i # j,
                      msgs'[i].of # 0, msgs'[i].of = msgs'[j].of
               PROVE  msgs'[i].kind # msgs'[j].kind
    BY DEF SentOnce
  <2>1. CASE i \in MsgIds /\ j \in MsgIds
    BY <1>3, <2>1, DeliveryParts DEF SentOnce
  <2>2. CASE i \in MsgIds /\ New(j)
    BY <1>3, <1>5, <2>2
  <2>3. CASE New(i) /\ j \in MsgIds
    BY <1>3, <1>5, <2>3
  <2>4. CASE New(i) /\ New(j)
    BY <1>6, <2>4
  <2> QED BY <1>4, <2>1, <2>2, <2>3, <2>4
<1>14. ProbeAlone'
  <2> SUFFICES ASSUME met' = {}
               PROVE  /\ \A q, r \in Delivery!Busy' : q = r
                      /\ \A i, j \in MsgIds' : ProbeRow(msgs'[i]) /\ ProbeRow(msgs'[j]) => i = j
                      /\ \A r \in Delivery!Busy' : hand'[r].probing =>
                           /\ \A i \in MsgIds' : ~ProbeRow(msgs'[i])
                           /\ \A i, j \in hand'[r].rows : i = j
    BY DEF ProbeAlone, ProbeRow, Delivery!Outstanding
  <2>1. \A r \in Delivery!Busy' : r \in Retrier /\ r \in Delivery!Busy /\ hand'[r].probing = hand[r].probing
    BY BusyIs, HandsLessBusy
  <2>2. \A i : New(i) /\ ProbeRow(msgs'[i]) => p
    BY <1>5 DEF ProbeRow
  <2>3. /\ \A q, r \in Delivery!Busy : q = r
        /\ \A i, j \in MsgIds : ProbeRow(msgs[i]) /\ ProbeRow(msgs[j]) => i = j
        /\ \A r \in Delivery!Busy : hand[r].probing =>
             /\ \A i \in MsgIds : ~ProbeRow(msgs[i])
             /\ \A i, j \in hand[r].rows : i = j
    <3>1. met = {}
      BY DEF RestTyped
    <3> QED BY <3>1, DeliveryParts DEF ProbeAlone
  <2>4. \A i, j \in MsgIds' : ProbeRow(msgs'[i]) /\ ProbeRow(msgs'[j]) => i = j
    BY <1>3, <1>4, <1>6, <2>2, <2>3
  <2>5. ASSUME NEW r \in Delivery!Busy', hand'[r].probing
        PROVE  (\A i \in MsgIds' : ~ProbeRow(msgs'[i])) /\ \A i, j \in hand'[r].rows : i = j
    <3>1. ~p /\ hand[r].probing /\ r \in Delivery!Busy /\ r \in Retrier
      BY <2>1, <2>5
    <3>2. \A i \in MsgIds' : ~ProbeRow(msgs'[i])
      BY <1>3, <1>4, <2>2, <2>3, <3>1
    <3> QED BY <1>11, <2>3, <3>1, <3>2
  <2> QED BY <2>1, <2>3, <2>4, <2>5
<1> QED BY <1>8, <1>9, <1>10, <1>12, <1>13, <1>14 DEF DeliveryInv
-------------------------------------------------------------------------------
\* What neither the website nor the operator sends is sent again from a row.
LEMMA OthersAdd ==
  ASSUME DeliveryInv, UNCHANGED hand, RestTyped, NEW c \in Customer, NEW a \in Nat, a > 0,
         Len(msgs) < MaxSends, NEW made, Batch(made, c, a, By(0, FALSE)), Delivery!Insert(made)
  PROVE  DeliveryInv'
<1>1. HandsLess
  BY NothingHeld
<1>2. 0 \in Nat /\ FALSE \in BOOLEAN
  OBVIOUS
<1> QED BY <1>1, <1>2, BatchAdded

LEMMA OthersAre == Delivery!Others = By(0, FALSE)
BY DEF Delivery!Others, By

LEMMA WebsiteStep ==
  ASSUME DeliveryInv, NEW c \in Customer, Delivery!WebsiteSends(c)
  PROVE  DeliveryInv'
<1> DEFINE x == Delivery!Accepted(c, "signup_code", 1, Delivery!Others)
<1>1. /\ stage' = [stage EXCEPT ![c] = IF @ = "review" THEN "approved" ELSE @]
      /\ Delivery!Insert(<<x>>) \/ UNCHANGED <<msgs, last>>
      /\ Len(msgs) < MaxSends /\ UNCHANGED <<hand, busyDesk, met>>
  BY DEF Delivery!WebsiteSends
<1>2. RestTyped
  BY <1>1, DeliveryParts DEF RestTyped, Stages
<1>3. CASE Delivery!Insert(<<x>>)
  <2>1. "signup_code" \in Delivery!Kind /\ 1 \in Nat /\ 1 > 0 /\ 0 \in Nat /\ FALSE \in BOOLEAN
    BY DEF Delivery!Kind
  <2>2. <<x>> \in Delivery!CodeSent(c, "signup_code", 1, By(0, FALSE))
    BY OthersAre DEF Delivery!CodeSent
  <2> HIDE DEF x
  <2>3. Batch(<<x>>, c, 1, By(0, FALSE))
    BY <2>1, <2>2, CodeBatch, SenderIs
  <2> QED BY <1>1, <1>2, <1>3, <2>1, <2>3, OthersAdd
<1>4. CASE UNCHANGED <<msgs, last>>
  <2>1. last' \in 0..Len(msgs)
    BY <1>4, DeliveryParts
  <2> QED BY <1>1, <1>2, <1>4, <2>1, NothingHeld, RowsAsTheyWere, DeliveryWorn
<1> QED BY <1>1, <1>3, <1>4

LEMMA ResendStep ==
  ASSUME DeliveryInv, NEW c \in Customer, Delivery!Resend(c)
  PROVE  DeliveryInv'
<1>1. PICK made \in Delivery!CodeSent(c, "admin_code", 1, By(0, FALSE)) : Delivery!Insert(made)
  BY OthersAre DEF Delivery!Resend
<1>2. Len(msgs) < MaxSends /\ UNCHANGED <<stage, hand, busyDesk, met>>
  BY DEF Delivery!Resend
<1>3. "admin_code" \in Delivery!Kind /\ 1 \in Nat /\ 1 > 0 /\ 0 \in Nat /\ FALSE \in BOOLEAN
  BY DEF Delivery!Kind
<1>4. Batch(made, c, 1, By(0, FALSE))
  BY <1>1, <1>3, CodeBatch, SenderIs
<1> QED BY <1>1, <1>2, <1>3, <1>4, RestAsItWas, OthersAdd

\* A request of the operator sends what it was made for.
LEMMA DeskSendsStep ==
  ASSUME DeliveryInv, NEW k \in Retrier, Delivery!DeskSends(k)
  PROVE  DeliveryInv'
<1> DEFINE q == busyDesk[k]
           c == q.for
           a == q.attempt
<1>1. PICK made \in Delivery!ApprovalSent(c, a, By(0, FALSE))
                      \cup Delivery!CodeSent(c, "admin_code", a, By(0, FALSE)) :
        Delivery!Insert(made)
  BY OthersAre DEF Delivery!DeskSends
<1>2. /\ Len(msgs) < MaxSends /\ UNCHANGED <<stage, hand, met>>
      /\ q # Delivery!NoRequest /\ busyDesk' = [busyDesk EXCEPT ![k] = Delivery!NoRequest]
  BY DEF Delivery!DeskSends
<1>3. c \in Customer /\ a \in Nat \ {0}
  BY <1>2, DeliveryParts DEF DeskType, Delivery!Request
<1>4. RestTyped
  BY <1>2, DeliveryParts DEF RestTyped, DeskType
<1> HIDE DEF q, c, a
<1>5. "admin_code" \in Delivery!Kind /\ a > 0 /\ 0 \in Nat /\ FALSE \in BOOLEAN
  BY <1>3 DEF Delivery!Kind
<1>6. Batch(made, c, a, By(0, FALSE))
  BY <1>1, <1>3, <1>5, CodeBatch, ApprovalBatch, SenderIs
<1> QED BY <1>1, <1>2, <1>3, <1>4, <1>5, <1>6, OthersAdd

\* A row in hand is sent again, one attempt on.
LEMMA SendAgainStep ==
  ASSUME DeliveryInv, NEW r \in Retrier, Delivery!SendAgain(r)
  PROVE  DeliveryInv'
<1> DEFINE i == Delivery!Current(r)
           m == msgs[i]
           c == m.for
           a == m.attempt + 1
           p == Delivery!SenderDegraded
           k == IF m.kind = "approval_notice" THEN "approval_code" ELSE m.kind
<1>1. PICK made \in Delivery!ApprovalSent(c, a, By(i, p)) \cup Delivery!CodeSent(c, k, a, By(i, p)) :
        Delivery!Insert(made)
  BY DEF Delivery!SendAgain, By
<1>2. /\ hand[r].at = "send" /\ Len(msgs) < MaxSends /\ Delivery!NextRow(r)
      /\ met' = IF p /\ ~hand[r].probing THEN met \cup {"batch"} ELSE met
      /\ UNCHANGED <<stage, busyDesk>>
  BY DEF Delivery!SendAgain
<1>3. hand[r].rows # {}
  BY <1>2, DeliveryParts DEF HandsSound
<1>4. /\ i \in hand[r].rows /\ i \in MsgIds /\ i \in Nat /\ m \in Msg
      /\ p \in BOOLEAN /\ hand[r].probing \in BOOLEAN
  BY <1>3, CurrentRow, DeliveryParts DEF MsgIds, Delivery!SenderDegraded
<1>5. c \in Customer /\ a \in Nat /\ a > 1 /\ k \in Delivery!Kind
  BY <1>4, DeliveryParts DEF Msg, Delivery!Kind, RowsMade
<1>6. /\ HandsLess
      /\ hand'[r].rows = hand[r].rows \ {i}
      /\ hand'[r].rows = {} => hand'[r].at = "idle"
      /\ \A q \in Retrier : q # r => hand'[q] = hand[q]
  BY <1>2, <1>3, RowDone
<1>7. /\ msgs[i].superseded /\ \A j \in MsgIds : msgs[j].of # i
      /\ \A q \in Retrier : i \notin hand'[q].rows
  BY <1>4, <1>6, DeliveryParts DEF RowsTaken
<1>8. met' = {} /\ p =>
        /\ \A j \in MsgIds : ~ProbeRow(msgs[j])
        /\ \A q \in Delivery!Busy' : ~hand'[q].probing
  <2> SUFFICES ASSUME met' = {}, p
               PROVE  /\ \A j \in MsgIds : ~ProbeRow(msgs[j])
                      /\ \A q \in Delivery!Busy' : ~hand'[q].probing
    OBVIOUS
  <2>0. met = {} /\ hand[r].probing
    <3> HIDE DEF p
    <3> QED BY <1>2
  <2>1. r \in Delivery!Busy
    BY <1>2, BusyIs
  <2>2. /\ \A j \in MsgIds : ~ProbeRow(msgs[j])
        /\ \A j, l \in hand[r].rows : j = l
        /\ \A q \in Delivery!Busy : q = r
    BY <2>0, <2>1, DeliveryParts DEF ProbeAlone
  <2>3. hand'[r].rows = {} /\ hand'[r].at = "idle"
    BY <1>4, <1>6, <2>2
  <2>4. Delivery!Busy' = {}
    BY <1>6, <2>2, <2>3, BusyIs, HandsLessBusy
  <2> QED BY <2>2, <2>4
<1>9. RestTyped
  <2> HIDE DEF p
  <2> QED BY <1>2, DeliveryParts DEF RestTyped, Mishaps
<1> HIDE DEF i, m, c, a, p, k
<1>10. Batch(made, c, a, By(i, p))
  BY <1>1, <1>4, <1>5, CodeBatch, ApprovalBatch, SenderIs
<1>11. Delivery!Insert(made) /\ a > 0 /\ (p => a > 1)
  BY <1>1, <1>5
<1> QED BY <1>2, <1>4, <1>5, <1>6, <1>7, <1>8, <1>9, <1>10, <1>11, BatchAdded
-------------------------------------------------------------------------------
LEMMA LookUpStep ==
  ASSUME DeliveryInv, NEW r \in Retrier, Delivery!LookUp(r)
  PROVE  DeliveryInv'
<1> DEFINE x == [at |-> "claim", probing |-> Delivery!SenderDegraded, rows |-> {}]
<1>1. /\ hand[r].at = "idle" /\ ~(Delivery!SenderDegraded /\ Delivery!ProbeInFlight)
      /\ hand' = [hand EXCEPT ![r] = x]
      /\ met' = IF Delivery!Busy = {} THEN met ELSE met \cup {"retriers"}
      /\ UNCHANGED <<msgs, last, stage, busyDesk>>
  BY DEF Delivery!LookUp
<1>2. /\ x \in HandType /\ x.at = "claim" /\ x.rows = {} /\ x.probing = Delivery!SenderDegraded
  BY DEF HandType, Delivery!SenderDegraded
<1> HIDE DEF x
<1>3. /\ hand' \in [Retrier -> HandType] /\ hand'[r] = x /\ \A q \in Retrier : q # r => hand'[q] = hand[q]
  <2>1. hand \in [Retrier -> HandType]
    BY DeliveryParts DEF HandType
  <2> QED BY <1>1, <1>2, <2>1
<1>4. RowsWorn /\ RestTyped /\ last' \in 0..Len(msgs)
  BY <1>1, RowsAsTheyWere, DeliveryParts DEF RestTyped, Mishaps
<1>5. /\ Delivery!TypeOK' /\ RowsMade' /\ SentOnce' /\ MsgIds' = MsgIds
      /\ met' = {} => met = {}
  BY <1>3, <1>4, WornParts
<1>6. HandsSound'
  BY <1>2, <1>3, <1>5, DeliveryParts DEF HandsSound, Delivery!IdleHand
<1>9. \A q \in Retrier : \A i \in hand'[q].rows : i \in hand[q].rows
  BY <1>2, <1>3
<1>10. RowsTaken'
  BY <1>1, <1>5, <1>9, DeliveryParts DEF RowsTaken
<1>11. ProbeAlone'
  <2> SUFFICES ASSUME met' = {}
               PROVE  /\ \A q, s \in Delivery!Busy' : q = s
                      /\ \A i, j \in MsgIds : ProbeRow(msgs[i]) /\ ProbeRow(msgs[j]) => i = j
                      /\ \A s \in Delivery!Busy' : hand'[s].probing =>
                           /\ \A i \in MsgIds : ~ProbeRow(msgs[i])
                           /\ \A i, j \in hand'[s].rows : i = j
    BY <1>1, <1>5 DEF ProbeAlone, ProbeRow, Delivery!Outstanding
  <2>1. Delivery!Busy = {} /\ met = {}
    BY <1>1, <1>5
  <2>2. Delivery!Busy' = {r}
    BY <1>2, <1>3, <2>1, BusyIs
  <2>3. hand'[r].probing => \A i \in MsgIds : ~ProbeRow(msgs[i])
    <3>1. hand'[r].probing => ~Delivery!ProbeInFlight
      BY <1>1, <1>2, <1>3
    <3> QED BY <3>1, DeliveryParts DEF Delivery!ProbeInFlight, ProbeRow, RowsMade, MsgIds
  <2> QED BY <1>2, <1>3, <2>1, <2>2, <2>3, DeliveryParts DEF ProbeAlone
<1> QED BY <1>5, <1>6, <1>10, <1>11 DEF DeliveryInv
-------------------------------------------------------------------------------
LEMMA ClaimStep ==
  ASSUME DeliveryInv, NEW r \in Retrier, Delivery!Claim(r)
  PROVE  DeliveryInv'
<1> DEFINE h == hand[r]
<1>1. PICK S : /\ S \in IF h.probing /\ Delivery!DueRows # {} THEN {{i} : i \in Delivery!DueRows}
                                                              ELSE {Delivery!DueRows}
               /\ hand' = [hand EXCEPT ![r] = IF S = {} THEN Delivery!IdleHand
                             ELSE [h EXCEPT !.at = "check", !.rows = S]]
               /\ msgs' = [i \in 1..Len(msgs) |-> IF i \in S THEN Delivery!Supersede(msgs[i]) ELSE msgs[i]]
  BY Zenon DEF Delivery!Claim
<1>2. h.at = "claim" /\ UNCHANGED <<last, stage, busyDesk, met>>
  BY DEF Delivery!Claim
<1>3. /\ S \subseteq Delivery!DueRows
      /\ h.probing => \A i, j \in S : i = j
  BY <1>1
<1>4. \A i \in S : i \in MsgIds /\ ~msgs[i].superseded
  BY <1>3 DEF Delivery!DueRows, Delivery!Claimable, MsgIds
<1>5. RowsWorn /\ \A i \in S : msgs'[i].superseded
  <2>1. S \subseteq MsgIds
    BY <1>4
  <2> QED BY <1>1, <2>1, RowsSuperseded
<1>6. RestTyped /\ last' \in 0..Len(msgs)
  BY <1>2, RestAsItWas, DeliveryParts
<1> DEFINE x == IF S = {} THEN Delivery!IdleHand ELSE [h EXCEPT !.at = "check", !.rows = S]
<1>7. h \in HandType /\ hand \in [Retrier -> HandType] /\ h.rows = {} /\ r \in Delivery!Busy
  BY <1>2, BusyIs, DeliveryParts DEF HandType, HandsSound
<1>8. /\ x \in HandType /\ x.rows = S
      /\ S = {} => x = Delivery!IdleHand /\ x.at = "idle"
      /\ S # {} => x.at = "check" /\ x.probing = h.probing
  <2>1. CASE S = {}
    BY <2>1 DEF HandType, Delivery!IdleHand
  <2>2. CASE S # {}
    <3>1. S \subseteq MsgIds
      BY <1>4
    <3> QED BY <2>2, <3>1, <1>7 DEF HandType
  <2> QED BY <2>1, <2>2
<1>9. hand' = [hand EXCEPT ![r] = x]
  BY <1>1
<1> HIDE DEF x, h
<1>10. hand' \in [Retrier -> HandType] /\ hand'[r] = x /\ \A q \in Retrier : q # r => hand'[q] = hand[q]
  BY <1>7, <1>8, <1>9
<1>12. /\ Delivery!TypeOK' /\ RowsMade' /\ SentOnce' /\ MsgIds' = MsgIds
       /\ met' = {} => /\ met = {}
                       /\ \A i, j \in MsgIds : ProbeRow(msgs'[i]) /\ ProbeRow(msgs'[j]) => i = j
  BY <1>5, <1>6, <1>10, WornParts
<1>13. HandsSound'
  <2>1. ASSUME NEW q \in Retrier
        PROVE  /\ hand'[q].rows \subseteq MsgIds
               /\ hand'[q].rows = {} <=> hand'[q].at \in {"idle", "claim"}
               /\ hand'[q].at = "idle" => hand'[q] = Delivery!IdleHand
    <3>1. CASE q = r
      BY <3>1, <1>4, <1>8, <1>10
    <3>2. CASE q # r
      BY <3>2, <1>10, DeliveryParts DEF HandsSound
    <3> QED BY <3>1, <3>2
  <2> QED BY <1>12, <2>1 DEF HandsSound, Delivery!IdleHand
<1>15. RowsTaken'
  <2>1. \A j \in MsgIds : msgs'[j].of = msgs[j].of /\ (msgs[j].superseded => msgs'[j].superseded)
    BY <1>5 DEF RowsWorn
  <2>2. \A i \in S : \A j \in MsgIds : msgs[j].of # i
    <3> SUFFICES ASSUME NEW i \in S, NEW j \in MsgIds, msgs[j].of = i PROVE FALSE
      OBVIOUS
    <3>1. i # 0
      BY <1>4 DEF MsgIds
    <3> QED BY <1>4, <3>1, DeliveryParts DEF RowsTaken
  <2>3. \A q \in Retrier : q # r => hand'[q].rows = hand[q].rows /\ hand'[q].rows \subseteq MsgIds
    BY <1>10, DeliveryParts DEF HandsSound
  <2>4. hand'[r].rows = S
    BY <1>8, <1>10
  <2>5. ASSUME NEW q \in Retrier, NEW i \in hand'[q].rows
        PROVE  msgs'[i].superseded /\ \A j \in MsgIds : msgs'[j].of # i
    <3>1. CASE q = r
      BY <1>5, <2>1, <2>2, <2>4, <2>5, <3>1
    <3>2. CASE q # r
      BY <2>1, <2>3, <2>5, <3>2, DeliveryParts DEF RowsTaken
    <3> QED BY <3>1, <3>2
  <2>6. ASSUME NEW q \in Retrier, NEW s \in Retrier, NEW i \in hand'[q].rows, i \in hand'[s].rows
        PROVE  q = s
    <3>1. \A t \in Retrier : t # r => hand'[t].rows \cap S = {}
      BY <1>4, <2>3, DeliveryParts DEF RowsTaken
    <3>2. CASE q = r \/ s = r
      BY <2>4, <2>6, <3>1, <3>2
    <3>3. CASE q # r /\ s # r
      BY <2>3, <2>6, <3>3, DeliveryParts DEF RowsTaken
    <3> QED BY <3>2, <3>3
  <2>7. \A j \in MsgIds : msgs'[j].of # 0 => msgs'[j].of \in MsgIds /\ msgs'[msgs'[j].of].superseded
    BY <2>1, DeliveryParts DEF RowsTaken
  <2> QED BY <1>12, <2>5, <2>6, <2>7 DEF RowsTaken
<1>16. ProbeAlone'
  <2> SUFFICES ASSUME met' = {}
               PROVE  /\ \A q, s \in Delivery!Busy' : q = s
                      /\ \A i, j \in MsgIds : ProbeRow(msgs'[i]) /\ ProbeRow(msgs'[j]) => i = j
                      /\ \A s \in Delivery!Busy' : hand'[s].probing =>
                           /\ \A i \in MsgIds : ~ProbeRow(msgs'[i])
                           /\ \A i, j \in hand'[s].rows : i = j
    BY <1>12 DEF ProbeAlone, ProbeRow, Delivery!Outstanding
  <2>1. met = {}
    BY <1>12
  <2>2. Delivery!Busy = {r}
    BY <1>7, <2>1, DeliveryParts DEF ProbeAlone
  <2>3. Delivery!Busy' \subseteq {r} /\ \A s \in Delivery!Busy' : s = r /\ hand'[r].at # "idle"
    BY <1>10, <2>2, BusyIs
  <2>4. hand'[r].at # "idle" => hand'[r].probing = h.probing /\ hand'[r].rows = S
    BY <1>8, <1>10
  <2>5. h.probing => \A i \in MsgIds : ~ProbeRow(msgs[i])
    BY <2>1, <2>2, DeliveryParts DEF ProbeAlone, h
  <2>6. \A i \in MsgIds : ProbeRow(msgs'[i]) => ProbeRow(msgs[i])
    BY <1>5 DEF RowsWorn
  <2> QED BY <1>3, <1>12, <2>3, <2>4, <2>5, <2>6
<1> QED BY <1>12, <1>13, <1>15, <1>16 DEF DeliveryInv

LEMMA DeliveryKept == DeliveryInv /\ [MCNext]_allVars => DeliveryInv'
<1> SUFFICES ASSUME DeliveryInv, [MCNext]_allVars PROVE DeliveryInv'
  OBVIOUS
<1>1. Delivery!Inputs \/ Delivery!Steps \/ UNCHANGED deliveryVars
  BY DEF MCNext, Signup, Deliver, Act, Spend, Delete, allVars
<1>2. CASE Delivery!Inputs
  <2>1. \/ \E c \in Customer :
             Delivery!WebsiteSends(c) \/ Delivery!Resend(c) \/ Delivery!Leaves(c)
        \/ \E k \in Retrier, c \in Customer : Delivery!Approve(k, c) \/ Delivery!PressRetry(k, c)
        \/ \E i \in MsgIds :
             \/ \E incoming \in Statuses, scope \in Failure : Delivery!Report(i, incoming, scope)
             \/ Delivery!WindowOver(i)
        \/ \E r \in Retrier : Delivery!LookUp(r) \/ Delivery!Killed(r)
    <3>1. {"sent", "failed", "delivered"} \subseteq Statuses
      BY DEF Statuses
    <3> QED BY <1>2, <3>1 DEF Delivery!Inputs, MsgIds
  <2> QED BY <2>1, WebsiteStep, ResendStep, StillStep, PressRetryStep, ReportStep, AgeStep,
             LookUpStep, HandStep
<1>3. CASE Delivery!Steps
  <2>1. \/ \E r \in Retrier :
             Delivery!Claim(r) \/ Delivery!Skip(r) \/ Delivery!Check(r) \/ Delivery!SendAgain(r)
        \/ \E k \in Retrier : Delivery!DeskSends(k)
        \/ \E i \in MsgIds : Delivery!BecomesDue(i)
    BY <1>3 DEF Delivery!Steps, MsgIds
  <2> QED BY <2>1, ClaimStep, HandStep, SendAgainStep, DeskSendsStep, AgeStep
<1> QED BY <1>1, <1>2, <1>3, StillStep

LEMMA DeliveryStart == MCInit => DeliveryInv
<1> SUFFICES ASSUME MCInit PROVE DeliveryInv
  OBVIOUS
<1>1. /\ msgs = <<>> /\ last = 0 /\ stage \in Stages
      /\ hand = [r \in Retrier |-> Delivery!IdleHand]
      /\ busyDesk = [k \in Retrier |-> Delivery!NoRequest] /\ met = {}
  <2>1. \A S : S = [Customer -> {"review", "pending"}] => S \subseteq Stages
    BY DEF Stages
  <2> QED BY <2>1 DEF MCInit, Delivery!Init
<1>2. Len(msgs) = 0 /\ MsgIds = {} /\ msgs \in Seq(Delivery!Message)
  BY <1>1 DEF MsgIds
<1>3. Delivery!TypeOK
  <2>1. hand \in [Retrier -> [at : {"idle", "claim", "check", "send"}, probing : BOOLEAN,
                               rows : SUBSET (1..Len(msgs))]]
    BY <1>1 DEF Delivery!IdleHand
  <2>2. MaxSends \in Nat
    BY DeliveryAssumption
  <2> QED BY <1>1, <1>2, <2>1, <2>2 DEF Delivery!TypeOK, Stages
<1>4. HandsSound /\ Delivery!Busy = {}
  BY <1>1 DEF HandsSound, Delivery!IdleHand, Delivery!Busy
<1>5. RowsTaken
  BY <1>1, <1>2 DEF RowsTaken, Delivery!IdleHand
<1> QED BY <1>1, <1>2, <1>3, <1>4, <1>5 DEF DeliveryInv, RowsMade, SentOnce, ProbeAlone

\* Delivery of codes: what every step of the website, the panel, the reports and the
\* retriers keeps of the rows and of the rows in their hands (DeliveryInv).
THEOREM DeliveryAlways == MCSpec => []DeliveryInv
BY DeliveryStart, DeliveryKept, PTL DEF MCSpec

LEMMA AtMostOne ==
  ASSUME NEW S, \A i, j \in S : i = j
  PROVE  Cardinality(S) <= 1
<1>1. CASE S = {}
  <2>1. Cardinality(S) = 0
    BY <1>1, FS_EmptySet, Zenon
  <2> QED BY <2>1
<1>2. CASE \E i \in S : TRUE
  <2>1. PICK i : S = {i}
    BY <1>2
  <2>2. Cardinality({i}) = 1
    BY FS_Singleton
  <2>3. Cardinality(S) = 1
    BY <2>1, <2>2, Zenon
  <2> QED BY <2>3
<1> QED BY <1>1, <1>2

\* What the delivery's invariant says of rows sent again and of probes.
LEMMA OnceAndAlone == DeliveryInv => Delivery!ResentOnce /\ Delivery!OneProbe
<1> SUFFICES ASSUME DeliveryInv PROVE Delivery!ResentOnce /\ Delivery!OneProbe
  OBVIOUS
<1>1. Delivery!ResentOnce
  BY DeliveryParts DEF Delivery!ResentOnce, SentOnce, MsgIds
<1>2. Delivery!OneProbe
  <2> DEFINE S == {i \in MsgIds : ProbeRow(msgs[i])}
  <2> SUFFICES ASSUME met = {} PROVE Cardinality(S) <= 1
    <3>1. Delivery!Cardinality(S) = Cardinality(S)
      BY DEF Delivery!Cardinality, Cardinality
    <3>2. S = {i \in 1..Len(msgs) : Delivery!Outstanding(msgs[i]) /\ msgs[i].probe}
      BY DEF MsgIds, ProbeRow
    <3> HIDE DEF S
    <3> QED BY <3>1, <3>2 DEF Delivery!OneProbe
  <2>1. \A i, j \in S : i = j
    BY DeliveryParts DEF ProbeAlone
  <2> HIDE DEF S
  <2> QED BY <2>1, AtMostOne
<1> QED BY <1>1, <1>2
-------------------------------------------------------------------------------
(* The invariant of the budget *)

Plans == {"starter", "pro", "none"}
TalkType == [at: Budget!Stage, text: Budget!Text, plan: Plans, cost: {0, 5}, note: 0..2]

\* What the members' turns cost that are over and not recorded; what the months cost.
Owing(h) == [m \in Customer |-> IF h[m].at = "record" THEN h[m].cost ELSE 0]
Costs(c) == [k \in 1..2 |-> c[k].cost]

\* Members whose turn the gate has let through and whose cost is on no counter yet.
PastGate == {"latch", "session", "turn", "record"}
UnderWay(h) == {m \in Customer : h[m].at \in PastGate}

\* The note of a month is with one member at most, or sent; either way the month is marked.
NotesSound(c, h, nu) ==
  /\ \A m \in Customer : h[m].note # 0 =>
       /\ h[m].at \in {"session", "turn", "record", "note"}
       /\ nu[h[m].note] = 0 /\ c[h[m].note].warned
  /\ \A m \in Customer : h[m].at = "note" => h[m].note # 0
  /\ \A m, n \in Customer : h[m].note # 0 /\ h[m].note = h[n].note => m = n
  /\ \A k \in 1..2 : nu[k] <= 1 /\ (nu[k] = 1 => c[k].warned)

CostsKnown(h) ==
  \A m \in Customer :
    /\ h[m].at = "record" => h[m].cost = 5
    /\ h[m].at \notin {"record", "note"} => h[m].cost = 0

\* A month that has not begun has cost nothing, no month more than the budget and a turn of
\* every member, and the turns under way still fit.
Room == 10 + 5 * Cardinality(Customer)
OvershotBounded(mo, c, h) ==
  /\ \A k \in 1..2 : (k > mo => c[k].cost = 0) /\ c[k].cost < Room
  /\ c[mo].cost + 5 * Cardinality(UnderWay(h)) < Room

AddUp(c, h, sp, lo) ==
  SumFunctionOnSet(Costs(c), 1..2) + lo + SumFunctionOnSet(Owing(h), Customer) = sp

NoAnswerThanked(h) ==
  \A m \in Customer : h[m].at \in {"thank", "count"} => h[m].text # "yes"

MoneyTypes(mo, c, h, nu, sp, lo) ==
  /\ mo \in 1..2 /\ c \in [1..2 -> Budget!Counter] /\ h \in [Customer -> TalkType]
  /\ nu \in [1..2 -> Nat] /\ sp \in Nat /\ lo \in Nat

MoneySound(mo, c, h, nu, sp, lo) ==
  /\ MoneyTypes(mo, c, h, nu, sp, lo)
  /\ NotesSound(c, h, nu) /\ CostsKnown(h) /\ OvershotBounded(mo, c, h)
  /\ AddUp(c, h, sp, lo) /\ NoAnswerThanked(h)

BudgetInv ==
  /\ MoneySound(month, counter, talk, nudged, spent, lost)
  /\ tier \in Plans /\ bucket \in 0..3 /\ yes \subseteq Customer
-------------------------------------------------------------------------------
LEMMA BudgetRules ==
  /\ Budget!Month = 1..2 /\ Budget!Tier = {"starter", "pro"} /\ Budget!Tier \cup {"none"} = Plans
  /\ Budget!Idle \in TalkType /\ Budget!NoCounter \in Budget!Counter
  /\ \A p \in Plans, c \in Nat :
       /\ Budget!Verdict(p, c) \in {"THROTTLE", "WARN", "OK"}
       /\ c >= 10 => Budget!Verdict(p, c) = "THROTTLE"
<1>1. /\ Budget!Month = 1..2 /\ Budget!Tier = {"starter", "pro"}
  BY DEF Budget!Month, Budget!Tier
<1>2. /\ Budget!Idle \in TalkType /\ Budget!NoCounter \in Budget!Counter
  BY DEF Budget!Idle, TalkType, Budget!NoCounter, Budget!Counter, Budget!Stage, Budget!Text, Plans
<1>3. ASSUME NEW p \in Plans, NEW c \in Nat
      PROVE  /\ Budget!Verdict(p, c) \in {"THROTTLE", "WARN", "OK"}
             /\ c >= 10 => Budget!Verdict(p, c) = "THROTTLE"
  <2>1. Budget!CapOf(p) \in {6, 10}
    BY <1>1 DEF Budget!CapOf
  <2>2. CASE Budget!CapOf(p) = 6
    BY <2>2 DEF Budget!Verdict
  <2>3. CASE Budget!CapOf(p) = 10
    BY <2>3 DEF Budget!Verdict
  <2> QED BY <2>1, <2>2, <2>3
<1> QED BY <1>1, <1>2, <1>3 DEF Plans

LEMMA BudgetFinite ==
  /\ IsFiniteSet(Customer) /\ Cardinality(Customer) \in Nat
  /\ IsFiniteSet(1..2)
  /\ \A h : /\ IsFiniteSet(UnderWay(h)) /\ Cardinality(UnderWay(h)) \in Nat
            /\ Cardinality(UnderWay(h)) <= Cardinality(Customer)
<1>1. IsFiniteSet(Customer)
  BY CustomerAssumption
<1>2. IsFiniteSet(1..2)
  <2>1. 1 \in Int /\ 2 \in Int
    OBVIOUS
  <2> QED BY <2>1, FS_Interval
<1>3. \A h : UnderWay(h) \subseteq Customer
  BY DEF UnderWay
<1> QED BY <1>1, <1>2, <1>3, FS_Subset, FS_CardinalityType

\* The sum over the members and the number of those under way, before and after the
\* message of one of them moves on.
Moved(h, g, m) ==
  /\ SumFunctionOnSet(Owing(h), Customer) \in Nat
  /\ SumFunctionOnSet(Owing(g), Customer) \in Nat
  /\ SumFunctionOnSet(Owing(g), Customer) =
       SumFunctionOnSet(Owing(h), Customer) + (Owing(g)[m] - Owing(h)[m])
  /\ Cardinality(UnderWay(g)) <=
       Cardinality(UnderWay(h)) + (IF g[m].at \in PastGate THEN 1 ELSE 0)
  /\ h[m].at \in PastGate =>
       Cardinality(UnderWay(g)) <=
         Cardinality(UnderWay(h)) - (IF g[m].at \in PastGate THEN 0 ELSE 1)

LEMMA MessageMoves ==
  ASSUME NEW h \in [Customer -> TalkType], NEW m \in Customer,
         NEW g \in [Customer -> TalkType], \A n \in Customer : n # m => g[n] = h[n]
  PROVE  Moved(h, g, m)
<1>1. h \in [Customer -> TalkType] /\ g \in [Customer -> TalkType]
  OBVIOUS
<1> DEFINE a == Owing(h)
           b == Owing(g)
<1>2. \A n \in Customer : a[n] \in Int /\ b[n] \in Int /\ a[n] >= 0 /\ b[n] >= 0
  BY <1>1 DEF Owing, TalkType
<1>3. \A n \in Customer \ {m} : a[n] = b[n]
  BY <1>1 DEF Owing
<1> HIDE DEF a, b
<1>4. SumFunctionOnSet(a, Customer) \in Nat /\ SumFunctionOnSet(b, Customer) \in Nat
  BY <1>2, BudgetFinite, SumTyped
<1>5. SumFunctionOnSet(b, Customer) = SumFunctionOnSet(a, Customer) + (b[m] - a[m])
  BY <1>2, <1>3, BudgetFinite, SumChange
<1>6. IsFiniteSet(UnderWay(h)) /\ IsFiniteSet(UnderWay(g))
  BY BudgetFinite
<1>7. UnderWay(g) \ {m} = UnderWay(h) \ {m}
  BY <1>1 DEF UnderWay
<1>8. /\ m \in UnderWay(g) <=> g[m].at \in PastGate
      /\ m \in UnderWay(h) <=> h[m].at \in PastGate
  BY <1>1 DEF UnderWay
<1>9. \A S : IsFiniteSet(S) =>
        /\ Cardinality(S \ {m}) \in Nat /\ Cardinality(S) \in Nat
        /\ Cardinality(S) = Cardinality(S \ {m}) + IF m \in S THEN 1 ELSE 0
  <2> SUFFICES ASSUME NEW S, IsFiniteSet(S)
               PROVE  /\ Cardinality(S \ {m}) \in Nat /\ Cardinality(S) \in Nat
                      /\ Cardinality(S) = Cardinality(S \ {m}) + IF m \in S THEN 1 ELSE 0
    OBVIOUS
  <2>1. IsFiniteSet(S \ {m}) /\ Cardinality(S) \in Nat
    BY FS_Subset, FS_CardinalityType
  <2>2. Cardinality(S \ {m}) \in Nat
    BY <2>1, FS_CardinalityType
  <2>3. Cardinality(S \ {m}) = IF m \in S THEN Cardinality(S) - 1 ELSE Cardinality(S)
    BY FS_RemoveElement
  <2> QED BY <2>1, <2>2, <2>3
<1> DEFINE k == Cardinality(UnderWay(h) \ {m})
           i == Cardinality(UnderWay(h))
           j == Cardinality(UnderWay(g))
<1>10. /\ k \in Nat /\ i \in Nat /\ j \in Nat
       /\ i = k + IF h[m].at \in PastGate THEN 1 ELSE 0
       /\ j = k + IF g[m].at \in PastGate THEN 1 ELSE 0
  BY <1>6, <1>7, <1>8, <1>9
<1> HIDE DEF k, i, j
<1>11. /\ j <= i + (IF g[m].at \in PastGate THEN 1 ELSE 0)
       /\ h[m].at \in PastGate => j <= i - (IF g[m].at \in PastGate THEN 0 ELSE 1)
  BY <1>10
<1> QED BY <1>4, <1>5, <1>11 DEF a, b, i, j, Moved
-------------------------------------------------------------------------------
(* What the steps do to the money, with the message of one member *)

\* A counter may be marked and count turns: nothing is lost.
LEMMA MarkedOnly ==
  ASSUME NEW mo, NEW c, NEW h, NEW nu, NEW sp, NEW lo, MoneySound(mo, c, h, nu, sp, lo),
         NEW d \in [1..2 -> Budget!Counter],
         \A k \in 1..2 : d[k].cost = c[k].cost /\ (c[k].warned => d[k].warned)
  PROVE  MoneySound(mo, d, h, nu, sp, lo)
<1>1. MoneyTypes(mo, d, h, nu, sp, lo)
  BY DEF MoneySound, MoneyTypes
<1>2. h \in [Customer -> TalkType] /\ mo \in 1..2
  BY DEF MoneySound, MoneyTypes
<1>3. NotesSound(d, h, nu)
  BY <1>2 DEF MoneySound, NotesSound, TalkType
<1>4. OvershotBounded(mo, d, h)
  BY <1>2 DEF MoneySound, OvershotBounded
<1>5. AddUp(d, h, sp, lo)
  <2>1. Costs(d) = Costs(c)
    BY DEF Costs
  <2> QED BY <2>1 DEF MoneySound, AddUp
<1> QED BY <1>1, <1>3, <1>4, <1>5 DEF MoneySound

\* A message moves on, between gates or to its end, and costs nothing.
LEMMA QuietMove ==
  ASSUME NEW mo, NEW c, NEW h, NEW nu, NEW sp, NEW lo, MoneySound(mo, c, h, nu, sp, lo),
         NEW m \in Customer, NEW r \in TalkType, r.at # "record", h[m].at # "record",
         r.note # 0 => r.note = h[m].note /\ r.at \in {"session", "turn", "record"},
         r.at # "note", r.cost = 0,
         r.at \in PastGate => h[m].at \in PastGate \/ c[mo].cost < 10,
         r.at \in {"thank", "count"} => r.text # "yes"
  PROVE  MoneySound(mo, c, [h EXCEPT ![m] = r], nu, sp, lo)
<1> DEFINE g == [h EXCEPT ![m] = r]
<1>1. MoneyTypes(mo, c, h, nu, sp, lo) /\ h \in [Customer -> TalkType]
  BY DEF MoneySound, MoneyTypes
<1>2. g = [h EXCEPT ![m] = r]
  OBVIOUS
<1> HIDE DEF g
<1>3. /\ g \in [Customer -> TalkType] /\ g[m] = r /\ \A n \in Customer : n # m => g[n] = h[n]
      /\ Moved(h, g, m)
  <2>1. g \in [Customer -> TalkType] /\ g[m] = r /\ \A n \in Customer : n # m => g[n] = h[n]
    BY <1>1, <1>2
  <2> QED BY <1>1, <2>1, MessageMoves
<1>4. MoneyTypes(mo, c, g, nu, sp, lo)
  BY <1>1, <1>3 DEF MoneyTypes
<1>5. NotesSound(c, g, nu)
  BY <1>3 DEF MoneySound, NotesSound
<1>6. CostsKnown(g)
  BY <1>3 DEF MoneySound, CostsKnown
<1>7. OvershotBounded(mo, c, g)
  <2>1. /\ OvershotBounded(mo, c, h) /\ mo \in 1..2 /\ c[mo].cost \in Nat
    BY <1>1 DEF MoneySound, MoneyTypes, Budget!Counter
  <2>2. /\ Cardinality(UnderWay(g)) \in Nat /\ Cardinality(UnderWay(h)) \in Nat
        /\ Cardinality(UnderWay(g)) <= Cardinality(Customer) /\ Cardinality(Customer) \in Nat
    BY BudgetFinite
  <2> DEFINE i == Cardinality(UnderWay(h))
             j == Cardinality(UnderWay(g))
             a == c[mo].cost
             z == Cardinality(Customer)
  <2>3. a + 5 * i < 10 + 5 * z
    BY <2>1 DEF OvershotBounded, Room
  <2>4. (h[m].at \in PastGate \/ r.at \notin PastGate) => j <= i
    <3> QED BY <1>3, <2>2 DEF Moved
  <2>5. j <= i \/ a < 10
    BY <2>4
  <2> HIDE DEF i, j, a, z
  <2>6. a + 5 * j < 10 + 5 * z
    BY <2>2, <2>3, <2>5, <2>1 DEF i, j, a, z
  <2> QED BY <2>1, <2>6 DEF OvershotBounded, Room, a, j, z
<1>8. AddUp(c, g, sp, lo)
  <2>1. Owing(g)[m] = 0 /\ Owing(h)[m] = 0
    BY <1>3 DEF Owing
  <2>2. SumFunctionOnSet(Owing(g), Customer) = SumFunctionOnSet(Owing(h), Customer)
    BY <1>3, <2>1 DEF Moved
  <2> QED BY <2>2 DEF MoneySound, AddUp
<1>9. NoAnswerThanked(g)
  BY <1>3 DEF MoneySound, NoAnswerThanked
<1> QED BY <1>4, <1>5, <1>6, <1>7, <1>8, <1>9 DEF MoneySound, g

\* Who marks the month has its note to send.
LEMMA NoteTaken ==
  ASSUME NEW mo, NEW c, NEW h, NEW nu, NEW sp, NEW lo, MoneySound(mo, c, h, nu, sp, lo),
         NEW m \in Customer, h[m].at = "latch", ~c[mo].warned,
         NEW d, d = [c EXCEPT ![mo].warned = TRUE],
         NEW r \in TalkType, r.at = "session", r.note = mo, r.cost = h[m].cost
  PROVE  MoneySound(mo, d, [h EXCEPT ![m] = r], nu, sp, lo)
<1>1. /\ mo \in 1..2 /\ c \in [1..2 -> Budget!Counter] /\ h \in [Customer -> TalkType]
      /\ nu \in [1..2 -> Nat] /\ sp \in Nat /\ lo \in Nat
  BY DEF MoneySound, MoneyTypes
<1>2. /\ d \in [1..2 -> Budget!Counter] /\ d[mo].warned
      /\ \A k \in 1..2 : d[k].cost = c[k].cost /\ (c[k].warned => d[k].warned)
  <2>1. c[mo] \in Budget!Counter /\ [c[mo] EXCEPT !.warned = TRUE] \in Budget!Counter
    BY <1>1 DEF Budget!Counter
  <2>2. [c[mo] EXCEPT !.warned = TRUE].cost = c[mo].cost /\ [c[mo] EXCEPT !.warned = TRUE].warned
    BY <1>1 DEF Budget!Counter
  <2>3. d = [c EXCEPT ![mo] = [c[mo] EXCEPT !.warned = TRUE]]
    OBVIOUS
  <2> QED BY <1>1, <2>1, <2>2, <2>3
<1>3. MoneySound(mo, d, h, nu, sp, lo)
  BY <1>2, MarkedOnly
<1> DEFINE q == [r EXCEPT !.note = 0]
           f == [h EXCEPT ![m] = q]
           g == [h EXCEPT ![m] = r]
<1>4. /\ q \in TalkType /\ q.note = 0 /\ q.at = "session" /\ q.cost = 0
  BY DEF TalkType, MoneySound, CostsKnown
<1> HIDE DEF q
<1>5. MoneySound(mo, d, f, nu, sp, lo)
  <2>1. q.at # "record" /\ h[m].at # "record" /\ h[m].at \in PastGate
    BY <1>4 DEF PastGate
  <2> QED BY <1>3, <1>4, <2>1, QuietMove
<1>6. /\ f \in [Customer -> TalkType] /\ f[m] = q /\ g[m] = r /\ g \in [Customer -> TalkType]
      /\ \A n \in Customer : n # m => g[n] = h[n] /\ f[n] = h[n]
      /\ \A n \in Customer : g[n].at = f[n].at /\ (g[n].at = "record" => g[n].cost = f[n].cost)
  BY <1>1, <1>4
<1> HIDE DEF f, g
<1>7. MoneyTypes(mo, d, g, nu, sp, lo)
  BY <1>1, <1>2, <1>6 DEF MoneyTypes
<1>8. NotesSound(d, g, nu)
  <2>1. NotesSound(c, h, nu) /\ NotesSound(d, h, nu)
    BY <1>3 DEF MoneySound
  <2>2. nu[mo] = 0
    BY <2>1, <1>1 DEF NotesSound
  <2>3. \A n \in Customer : h[n].note # mo
    BY <2>1, <1>1 DEF NotesSound
  <2>4. ASSUME NEW n \in Customer, g[n].note # 0
        PROVE  /\ g[n].at \in {"session", "turn", "record", "note"}
               /\ nu[g[n].note] = 0 /\ d[g[n].note].warned
    <3>1. CASE n = m
      BY <3>1, <1>2, <1>6, <2>2
    <3>2. CASE n # m
      BY <3>2, <1>6, <2>1, <2>4 DEF NotesSound
    <3> QED BY <3>1, <3>2
  <2>5. ASSUME NEW n \in Customer, NEW p \in Customer, g[n].note # 0, g[n].note = g[p].note
        PROVE  n = p
    BY <2>1, <2>3, <2>5, <1>6 DEF NotesSound
  <2>6. \A n \in Customer : g[n].at = "note" => g[n].note # 0
    BY <2>1, <1>6, <1>4 DEF NotesSound
  <2> QED BY <2>1, <2>4, <2>5, <2>6 DEF NotesSound
<1>9. CostsKnown(g)
  BY <1>6, <1>4 DEF MoneySound, CostsKnown
<1>10. OvershotBounded(mo, d, g)
  <2>1. UnderWay(g) = UnderWay(f)
    BY <1>6 DEF UnderWay
  <2> QED BY <2>1, <1>5 DEF MoneySound, OvershotBounded
<1>11. AddUp(d, g, sp, lo)
  <2>1. Owing(g) = Owing(f)
    BY <1>6 DEF Owing
  <2> QED BY <2>1, <1>5 DEF MoneySound, AddUp
<1>12. NoAnswerThanked(g)
  BY <1>5, <1>6 DEF MoneySound, NoAnswerThanked
<1> QED BY <1>7, <1>8, <1>9, <1>10, <1>11, <1>12 DEF MoneySound, g
\* The turn is over and costs 5.
LEMMA TurnEnds ==
  ASSUME NEW mo, NEW c, NEW h, NEW nu, NEW sp, NEW lo, MoneySound(mo, c, h, nu, sp, lo),
         NEW m \in Customer, h[m].at = "turn",
         NEW r \in TalkType, r.at = "record", r.cost = 5, r.note = h[m].note
  PROVE  MoneySound(mo, c, [h EXCEPT ![m] = r], nu, sp + 5, lo)
<1> DEFINE g == [h EXCEPT ![m] = r]
<1>1. MoneyTypes(mo, c, h, nu, sp, lo) /\ h \in [Customer -> TalkType] /\ sp \in Nat /\ lo \in Nat
  BY DEF MoneySound, MoneyTypes
<1>2. g \in [Customer -> TalkType] /\ g[m] = r /\ \A n \in Customer : n # m => g[n] = h[n]
  BY <1>1
<1> HIDE DEF g
<1>3. Moved(h, g, m)
  BY <1>1, <1>2, MessageMoves
<1>4. MoneyTypes(mo, c, g, nu, sp + 5, lo)
  BY <1>1, <1>2 DEF MoneyTypes
<1>5. NotesSound(c, g, nu)
  BY <1>2 DEF MoneySound, NotesSound
<1>6. CostsKnown(g)
  BY <1>2 DEF MoneySound, CostsKnown
<1>7. OvershotBounded(mo, c, g)
  <2>1. UnderWay(g) = UnderWay(h)
    BY <1>2 DEF UnderWay, PastGate
  <2> QED BY <2>1 DEF MoneySound, OvershotBounded
<1>8. AddUp(c, g, sp + 5, lo)
  <2>1. Owing(g)[m] = 5 /\ Owing(h)[m] = 0
    BY <1>2 DEF Owing
  <2>2. SumFunctionOnSet(Owing(g), Customer) = SumFunctionOnSet(Owing(h), Customer) + 5
    BY <1>3, <2>1 DEF Moved
  <2>3. SumFunctionOnSet(Costs(c), 1..2) \in Int
    <3>1. \A k \in 1..2 : Costs(c)[k] \in Int
      BY <1>1 DEF Costs, MoneyTypes, Budget!Counter
    <3> QED BY <3>1, BudgetFinite, SumTyped
  <2>4. SumFunctionOnSet(Owing(h), Customer) \in Int
    BY <1>3 DEF Moved
  <2>5. SumFunctionOnSet(Costs(c), 1..2) + lo + SumFunctionOnSet(Owing(h), Customer) = sp
    BY DEF MoneySound, AddUp
  <2>6. SumFunctionOnSet(Costs(c), 1..2) + lo + SumFunctionOnSet(Owing(g), Customer) = sp + 5
    BY <2>2, <2>3, <2>4, <2>5, <1>1
  <2> QED BY <2>6 DEF AddUp
<1>9. NoAnswerThanked(g)
  BY <1>2 DEF MoneySound, NoAnswerThanked
<1> QED BY <1>4, <1>5, <1>6, <1>7, <1>8, <1>9 DEF MoneySound, g

\* A message whose turn is over leaves for its note or its end.
HasLeft(c, h, nu, g) ==
  /\ g \in [Customer -> TalkType] /\ NotesSound(c, g, nu) /\ CostsKnown(g) /\ NoAnswerThanked(g)
  /\ SumFunctionOnSet(Owing(h), Customer) \in Nat /\ SumFunctionOnSet(Owing(g), Customer) \in Nat
  /\ SumFunctionOnSet(Owing(g), Customer) = SumFunctionOnSet(Owing(h), Customer) - 5
  /\ Cardinality(UnderWay(g)) <= Cardinality(UnderWay(h)) - 1

LEMMA Leaves ==
  ASSUME NEW mo, NEW c, NEW h, NEW nu, NEW sp, NEW lo, MoneySound(mo, c, h, nu, sp, lo),
         NEW m \in Customer, h[m].at = "record",
         NEW r \in TalkType, r.at \in {"idle", "note"}, r.at = "note" => r.note = h[m].note /\ r.note # 0,
         r.at = "idle" => r.note = 0 /\ r.cost = 0
  PROVE  HasLeft(c, h, nu, [h EXCEPT ![m] = r])
<1> DEFINE g == [h EXCEPT ![m] = r]
<1>1. h \in [Customer -> TalkType]
  BY DEF MoneySound, MoneyTypes
<1>2. g \in [Customer -> TalkType] /\ g[m] = r /\ \A n \in Customer : n # m => g[n] = h[n]
  BY <1>1
<1> HIDE DEF g
<1>3. Moved(h, g, m)
  BY <1>1, <1>2, MessageMoves
<1>4. NotesSound(c, g, nu)
  <2>1. /\ r.note # 0 => r.at = "note" /\ r.note = h[m].note
        /\ r.at = "note" => r.note # 0
    OBVIOUS
  <2> QED BY <1>2, <2>1 DEF MoneySound, NotesSound
<1>5. CostsKnown(g)
  BY <1>2 DEF MoneySound, CostsKnown
<1>6. NoAnswerThanked(g)
  BY <1>2 DEF MoneySound, NoAnswerThanked
<1>7. Owing(g)[m] = 0 /\ Owing(h)[m] = 5
  BY <1>2 DEF Owing, MoneySound, CostsKnown
<1>8. h[m].at \in PastGate /\ g[m].at \notin PastGate
  BY <1>2 DEF PastGate
<1>9. /\ SumFunctionOnSet(Owing(h), Customer) \in Nat /\ SumFunctionOnSet(Owing(g), Customer) \in Nat
      /\ SumFunctionOnSet(Owing(g), Customer) = SumFunctionOnSet(Owing(h), Customer) - 5
  BY <1>3, <1>7 DEF Moved
<1>10. Cardinality(UnderWay(g)) <= Cardinality(UnderWay(h)) - 1
  BY <1>3, <1>8 DEF Moved
<1> QED BY <1>2, <1>4, <1>5, <1>6, <1>9, <1>10 DEF HasLeft, g

\* The sum over the months, when one of them costs more.
LEMMA MonthSum ==
  ASSUME NEW mo \in 1..2, NEW a, NEW b, \A k \in 1..2 : a[k] \in Int /\ b[k] \in Int,
         \A k \in (1..2) \ {mo} : a[k] = b[k], IsFiniteSet(1..2)
  PROVE  SumFunctionOnSet(b, 1..2) = SumFunctionOnSet(a, 1..2) + (b[mo] - a[mo])
BY SumChange

LEMMA CostAdded ==
  ASSUME NEW c \in [1..2 -> Budget!Counter], NEW d \in [1..2 -> Budget!Counter], NEW mo \in 1..2,
         d[mo].cost = c[mo].cost + 5, \A k \in 1..2 : k # mo => d[k].cost = c[k].cost
  PROVE  /\ SumFunctionOnSet(Costs(d), 1..2) = SumFunctionOnSet(Costs(c), 1..2) + 5
         /\ SumFunctionOnSet(Costs(c), 1..2) \in Int
<1> DEFINE a == Costs(c)
           b == Costs(d)
<1>1. \A k \in 1..2 : a[k] \in Int /\ b[k] \in Int
  BY DEF Costs, Budget!Counter
<1>2. b[mo] = a[mo] + 5
  BY DEF Costs
<1>3. \A k \in (1..2) \ {mo} : a[k] = b[k]
  BY DEF Costs
<1>4. IsFiniteSet(1..2)
  BY BudgetFinite
<1> HIDE DEF a, b
<1>5. SumFunctionOnSet(b, 1..2) = SumFunctionOnSet(a, 1..2) + (b[mo] - a[mo])
  BY <1>1, <1>3, <1>4, MonthSum
<1>6. SumFunctionOnSet(a, 1..2) \in Int
  BY <1>1, <1>4, SumTyped
<1>7. SumFunctionOnSet(b, 1..2) = SumFunctionOnSet(a, 1..2) + 5
  BY <1>1, <1>2, <1>5
<1> QED BY <1>6, <1>7 DEF a, b

\* What the turn cost is added to the counter of the month it is recorded in.
LEMMA Recorded ==
  ASSUME NEW mo, NEW c, NEW h, NEW nu, NEW sp, NEW lo, MoneySound(mo, c, h, nu, sp, lo),
         NEW m \in Customer, h[m].at = "record",
         NEW r \in TalkType, r.at \in {"idle", "note"}, r.at = "note" => r.note = h[m].note /\ r.note # 0,
         r.at = "idle" => r.note = 0 /\ r.cost = 0,
         NEW d \in [1..2 -> Budget!Counter], d[mo].cost = c[mo].cost + 5,
         \A k \in 1..2 : k # mo => d[k].cost = c[k].cost,
         \A k \in 1..2 : c[k].warned => d[k].warned
  PROVE  MoneySound(mo, d, [h EXCEPT ![m] = r], nu, sp, lo)
<1> DEFINE g == [h EXCEPT ![m] = r]
<1>1. /\ mo \in 1..2 /\ c \in [1..2 -> Budget!Counter] /\ h \in [Customer -> TalkType]
      /\ nu \in [1..2 -> Nat] /\ sp \in Nat /\ lo \in Nat
  BY DEF MoneySound, MoneyTypes
<1>2. HasLeft(c, h, nu, g)
  BY Leaves
<1> HIDE DEF g
<1>3. /\ g \in [Customer -> TalkType] /\ NotesSound(c, g, nu) /\ CostsKnown(g) /\ NoAnswerThanked(g)
      /\ SumFunctionOnSet(Owing(h), Customer) \in Nat /\ SumFunctionOnSet(Owing(g), Customer) \in Nat
      /\ SumFunctionOnSet(Owing(g), Customer) = SumFunctionOnSet(Owing(h), Customer) - 5
      /\ Cardinality(UnderWay(g)) <= Cardinality(UnderWay(h)) - 1
  BY <1>2 DEF HasLeft
<1>4. MoneyTypes(mo, d, g, nu, sp, lo)
  BY <1>1, <1>3 DEF MoneyTypes
<1>5. NotesSound(d, g, nu)
  BY <1>3 DEF NotesSound, TalkType
<1>6. OvershotBounded(mo, d, g)
  <2>1. OvershotBounded(mo, c, h)
    BY DEF MoneySound
  <2>2. /\ Cardinality(UnderWay(g)) \in Nat /\ Cardinality(UnderWay(h)) \in Nat
        /\ Cardinality(Customer) \in Nat
    BY BudgetFinite
  <2>3. \A k \in 1..2 : c[k].cost \in Nat /\ d[k].cost \in Nat
    BY <1>1 DEF Budget!Counter
  <2> DEFINE i == Cardinality(UnderWay(h))
             j == Cardinality(UnderWay(g))
             z == Room
             a == c[mo].cost
             b == d[mo].cost
  <2>4. z \in Nat
    BY <2>2 DEF Room
  <2>5. a + 5 * i < z /\ b = a + 5 /\ j <= i - 1 /\ a \in Nat /\ i \in Nat /\ j \in Nat
    BY <2>1, <2>2, <2>3, <1>1, <1>3 DEF OvershotBounded
  <2> HIDE DEF i, j, z, a, b
  <2>6. b + 5 * j < z /\ b < z
    BY <2>4, <2>5
  <2>7. \A k \in 1..2 : (k > mo => d[k].cost = 0) /\ d[k].cost < z
    <3>1. SUFFICES ASSUME NEW k \in 1..2 PROVE (k > mo => d[k].cost = 0) /\ d[k].cost < z
      OBVIOUS
    <3>2. CASE k = mo
      BY <3>2, <2>6, <1>1 DEF b
    <3>3. CASE k # mo
      BY <3>3, <2>1 DEF OvershotBounded, z
    <3> QED BY <3>2, <3>3
  <2> QED BY <2>6, <2>7 DEF OvershotBounded, b, j, z
<1>7. AddUp(d, g, sp, lo)
  <2> DEFINE x == Costs(c)
             y == Costs(d)
  <2>2. SumFunctionOnSet(y, 1..2) = SumFunctionOnSet(x, 1..2) + 5 /\ SumFunctionOnSet(x, 1..2) \in Int
    BY <1>1, CostAdded
  <2>4. SumFunctionOnSet(x, 1..2) + lo + SumFunctionOnSet(Owing(h), Customer) = sp
    BY DEF MoneySound, AddUp, x
  <2>5. SumFunctionOnSet(y, 1..2) + lo + SumFunctionOnSet(Owing(g), Customer) = sp
    <3> HIDE DEF x, y
    <3> QED BY <2>2, <2>4, <1>1, <1>3
  <2> QED BY <2>5 DEF AddUp, y
<1> QED BY <1>3, <1>4, <1>5, <1>6, <1>7 DEF MoneySound, g

\* The counter cannot be written: the cost is lost, and the message leaves all the same.
LEMMA RecordLost ==
  ASSUME NEW mo, NEW c, NEW h, NEW nu, NEW sp, NEW lo, MoneySound(mo, c, h, nu, sp, lo),
         NEW m \in Customer, h[m].at = "record",
         NEW r \in TalkType, r.at \in {"idle", "note"}, r.at = "note" => r.note = h[m].note /\ r.note # 0,
         r.at = "idle" => r.note = 0 /\ r.cost = 0
  PROVE  MoneySound(mo, c, [h EXCEPT ![m] = r], nu, sp, lo + 5)
<1> DEFINE g == [h EXCEPT ![m] = r]
<1>1. /\ mo \in 1..2 /\ c \in [1..2 -> Budget!Counter] /\ h \in [Customer -> TalkType]
      /\ nu \in [1..2 -> Nat] /\ sp \in Nat /\ lo \in Nat
  BY DEF MoneySound, MoneyTypes
<1>2. HasLeft(c, h, nu, g)
  BY Leaves
<1> HIDE DEF g
<1>3. /\ g \in [Customer -> TalkType] /\ NotesSound(c, g, nu) /\ CostsKnown(g) /\ NoAnswerThanked(g)
      /\ SumFunctionOnSet(Owing(h), Customer) \in Nat /\ SumFunctionOnSet(Owing(g), Customer) \in Nat
      /\ SumFunctionOnSet(Owing(g), Customer) = SumFunctionOnSet(Owing(h), Customer) - 5
      /\ Cardinality(UnderWay(g)) <= Cardinality(UnderWay(h)) - 1
  BY <1>2 DEF HasLeft
<1>4. MoneyTypes(mo, c, g, nu, sp, lo + 5)
  BY <1>1, <1>3 DEF MoneyTypes
<1>5. OvershotBounded(mo, c, g)
  <2>1. OvershotBounded(mo, c, h)
    BY DEF MoneySound
  <2>2. /\ Cardinality(UnderWay(g)) \in Nat /\ Cardinality(UnderWay(h)) \in Nat
        /\ Cardinality(Customer) \in Nat /\ c[mo].cost \in Nat
    BY <1>1, BudgetFinite DEF Budget!Counter
  <2>3. c[mo].cost + 5 * Cardinality(UnderWay(g)) < Room
    BY <2>1, <2>2, <1>3 DEF OvershotBounded, Room
  <2> QED BY <2>1, <2>3 DEF OvershotBounded
<1>6. AddUp(c, g, sp, lo + 5)
  <2>1. SumFunctionOnSet(Costs(c), 1..2) \in Int
    <3>1. \A k \in 1..2 : Costs(c)[k] \in Int
      BY <1>1 DEF Costs, Budget!Counter
    <3> QED BY <3>1, BudgetFinite, SumTyped
  <2>2. SumFunctionOnSet(Costs(c), 1..2) + lo + SumFunctionOnSet(Owing(h), Customer) = sp
    BY DEF MoneySound, AddUp
  <2>3. SumFunctionOnSet(Costs(c), 1..2) + (lo + 5) + SumFunctionOnSet(Owing(g), Customer) = sp
    BY <2>1, <2>2, <1>1, <1>3
  <2> QED BY <2>3 DEF AddUp
<1> QED BY <1>3, <1>4, <1>5, <1>6 DEF MoneySound, g
\* The note is sent.
LEMMA NoteSent ==
  ASSUME NEW mo, NEW c, NEW h, NEW nu, NEW sp, NEW lo, MoneySound(mo, c, h, nu, sp, lo),
         NEW m \in Customer, h[m].at = "note", h[m].note # 0,
         NEW w, w = [nu EXCEPT ![h[m].note] = nu[h[m].note] + 1]
  PROVE  MoneySound(mo, c, [h EXCEPT ![m] = Budget!Idle], w, sp, lo)
<1> DEFINE g == [h EXCEPT ![m] = Budget!Idle]
           k == h[m].note
<1>1. /\ h \in [Customer -> TalkType] /\ nu \in [1..2 -> Nat] /\ k \in 1..2
  BY DEF MoneySound, MoneyTypes, TalkType
<1>2. Budget!Idle \in TalkType /\ Budget!Idle.at = "idle" /\ Budget!Idle.note = 0 /\ Budget!Idle.cost = 0
  BY BudgetRules DEF Budget!Idle
<1>3. MoneySound(mo, c, g, nu, sp, lo)
  <2>1. /\ Budget!Idle.at \notin PastGate /\ Budget!Idle.at \notin {"thank", "count", "note"}
        /\ Budget!Idle.at # "record"
    BY <1>2 DEF PastGate
  <2> QED BY <1>2, <2>1, QuietMove
<1>4. g \in [Customer -> TalkType] /\ g[m].note = 0 /\ \A n \in Customer : n # m => g[n] = h[n]
  BY <1>1, <1>2
<1> HIDE DEF g
<1>5. NotesSound(c, h, nu) /\ NotesSound(c, g, nu)
  BY <1>3 DEF MoneySound
<1>6. nu[k] = 0 /\ c[k].warned /\ \A n \in Customer : g[n].note # k
  BY <1>1, <1>4, <1>5 DEF NotesSound
<1>7. w \in [1..2 -> Nat] /\ w[k] = 1 /\ \A x \in 1..2 : x # k => w[x] = nu[x]
  BY <1>1, <1>6
<1> HIDE DEF k
<1>8. NotesSound(c, g, w)
  <2>1. ASSUME NEW n \in Customer, g[n].note # 0
        PROVE  /\ g[n].at \in {"session", "turn", "record", "note"}
               /\ w[g[n].note] = 0 /\ c[g[n].note].warned
    <3>1. g[n].note \in 1..2 /\ g[n].note # k
      BY <2>1, <1>4, <1>6 DEF TalkType
    <3> QED BY <3>1, <2>1, <1>5, <1>7 DEF NotesSound
  <2>2. \A x \in 1..2 : w[x] <= 1 /\ (w[x] = 1 => c[x].warned)
    BY <1>1, <1>5, <1>6, <1>7 DEF NotesSound
  <2> QED BY <2>1, <2>2, <1>5 DEF NotesSound
<1>9. MoneyTypes(mo, c, g, w, sp, lo)
  BY <1>3, <1>7 DEF MoneySound, MoneyTypes
<1> QED BY <1>3, <1>8, <1>9 DEF MoneySound, g

\* The next month has cost nothing yet.
LEMMA MonthTurns ==
  ASSUME NEW mo, NEW c, NEW h, NEW nu, NEW sp, NEW lo, MoneySound(mo, c, h, nu, sp, lo), mo < 2
  PROVE  MoneySound(mo + 1, c, h, nu, sp, lo)
<1>1. mo \in 1..2 /\ mo = 1
  BY DEF MoneySound, MoneyTypes
<1>2. MoneyTypes(mo + 1, c, h, nu, sp, lo)
  BY <1>1 DEF MoneySound, MoneyTypes
<1>3. OvershotBounded(mo + 1, c, h)
  <2>1. OvershotBounded(mo, c, h) /\ c[2].cost = 0
    BY <1>1 DEF MoneySound, OvershotBounded
  <2>2. /\ Cardinality(UnderWay(h)) \in Nat /\ Cardinality(Customer) \in Nat
        /\ Cardinality(UnderWay(h)) <= Cardinality(Customer)
    BY BudgetFinite
  <2>3. c[mo + 1].cost + 5 * Cardinality(UnderWay(h)) < Room
    BY <1>1, <2>1, <2>2 DEF Room
  <2> QED BY <1>1, <2>1, <2>3 DEF OvershotBounded
<1> QED BY <1>2, <1>3 DEF MoneySound

\* The process is killed: every message is gone, and with it what is not recorded.
LEMMA AllStopped ==
  ASSUME NEW mo, NEW c, NEW h, NEW nu, NEW sp, NEW lo, MoneySound(mo, c, h, nu, sp, lo)
  PROVE  MoneySound(mo, c, [m \in Customer |-> Budget!Idle], nu, sp,
                    lo + SumFunctionOnSet(Owing(h), Customer))
<1> DEFINE g == [m \in Customer |-> Budget!Idle]
           x == SumFunctionOnSet(Owing(h), Customer)
<1>1. /\ mo \in 1..2 /\ c \in [1..2 -> Budget!Counter] /\ h \in [Customer -> TalkType]
      /\ nu \in [1..2 -> Nat] /\ sp \in Nat /\ lo \in Nat
  BY DEF MoneySound, MoneyTypes
<1>2. Budget!Idle \in TalkType /\ Budget!Idle.at = "idle" /\ Budget!Idle.note = 0 /\ Budget!Idle.cost = 0
  BY BudgetRules DEF Budget!Idle
<1>3. /\ g \in [Customer -> TalkType]
      /\ \A m \in Customer : g[m].at = "idle" /\ g[m].note = 0 /\ g[m].cost = 0
  BY <1>2
<1> HIDE DEF g
<1>4. x \in Nat
  <2>1. \A m \in Customer : Owing(h)[m] \in Int /\ Owing(h)[m] >= 0
    BY <1>1 DEF Owing, TalkType
  <2> QED BY <2>1, BudgetFinite, SumTyped
<1>5. SumFunctionOnSet(Owing(g), Customer) = 0
  <2>1. \A m \in Customer : Owing(g)[m] = 0
    BY <1>3 DEF Owing
  <2> QED BY <2>1, BudgetFinite, SumZero
<1>6. MoneyTypes(mo, c, g, nu, sp, lo + x)
  <2>1. lo + x \in Nat
    <3> HIDE DEF x
    <3> QED BY <1>1, <1>4
  <2> QED BY <1>1, <1>3, <2>1 DEF MoneyTypes
<1>7. NotesSound(c, g, nu)
  BY <1>3 DEF MoneySound, NotesSound
<1>8. CostsKnown(g) /\ NoAnswerThanked(g)
  BY <1>3 DEF CostsKnown, NoAnswerThanked
<1>9. OvershotBounded(mo, c, g)
  <2>1. UnderWay(g) = {}
    BY <1>3 DEF UnderWay, PastGate
  <2>2. Cardinality(UnderWay(g)) = 0
    BY <2>1, FS_EmptySet
  <2>3. OvershotBounded(mo, c, h) /\ c[mo].cost \in Nat
    BY <1>1 DEF MoneySound, Budget!Counter
  <2> QED BY <1>1, <2>2, <2>3 DEF OvershotBounded
<1>10. AddUp(c, g, sp, lo + x)
  <2>1. SumFunctionOnSet(Costs(c), 1..2) \in Int
    <3>1. \A k \in 1..2 : Costs(c)[k] \in Int
      BY <1>1 DEF Costs, Budget!Counter
    <3> QED BY <3>1, BudgetFinite, SumTyped
  <2>2. SumFunctionOnSet(Costs(c), 1..2) + lo + x = sp
    BY DEF MoneySound, AddUp
  <2> HIDE DEF x
  <2>3. SumFunctionOnSet(Costs(c), 1..2) + (lo + x) + 0 = sp
    BY <2>1, <2>2, <1>1, <1>4
  <2> QED BY <2>3, <1>5 DEF AddUp
<1> HIDE DEF x
<1>11. MoneySound(mo, c, g, nu, sp, lo + x)
  BY <1>6, <1>7, <1>8, <1>9, <1>10 DEF MoneySound
<1> QED BY <1>11 DEF g, x
-------------------------------------------------------------------------------
(* The steps *)

LEMMA BudgetSum == \A f : Budget!SumFunction(f) = SumFunctionOnSet(f, DOMAIN f)
BY DEF Budget!SumFunction, Budget!SumFunctionOnSet, Budget!FoldFunctionOnSet, Budget!MapThenFoldSet,
       SumFunctionOnSet, FoldFunctionOnSet, MapThenFoldSet

\* A turn on the counter.
Bumped(o, x) == [o EXCEPT !.row = TRUE, !.turns = @ + 1, !.cost = @ + x]

LEMMA CounterAdded ==
  ASSUME NEW o \in Budget!Counter, NEW x \in Nat
  PROVE  /\ Bumped(o, x) \in Budget!Counter /\ Bumped(o, x).cost = o.cost + x
         /\ Bumped(o, x).warned = o.warned /\ o.cost \in Nat
<1>1. /\ o.turns \in Nat /\ o.cost \in Nat /\ o.warned \in BOOLEAN
  BY DEF Budget!Counter
<1>2. o.turns + 1 \in Nat /\ o.cost + x \in Nat
  BY <1>1
<1> DEFINE V(y, z) == [o EXCEPT !.row = TRUE, !.turns = y, !.cost = z]
<1>3. \A y \in Nat, z \in Nat :
        V(y, z) \in Budget!Counter /\ V(y, z).cost = z /\ V(y, z).warned = o.warned
  BY DEF Budget!Counter
<1>4. Bumped(o, x) = V(o.turns + 1, o.cost + x)
  BY DEF Bumped
<1> HIDE DEF V
<1> QED BY <1>1, <1>2, <1>3, <1>4

\* Whoever marks the month takes its note along.
Noted(o, k) == [o EXCEPT !.at = "session", !.note = k]

LEMMA NoteCarried ==
  ASSUME NEW o \in TalkType, NEW k \in 1..2
  PROVE  /\ Noted(o, k) \in TalkType /\ Noted(o, k).at = "session" /\ Noted(o, k).note = k
         /\ Noted(o, k).cost = o.cost
<1> DEFINE r == Noted(o, k)
<1>1. o.text \in Budget!Text /\ o.plan \in Plans /\ o.cost \in {0, 5}
  BY DEF TalkType
<1>2. k \in 0..2 /\ "session" \in Budget!Stage
  BY DEF Budget!Stage
<1>3. r.at = "session" /\ r.note = k /\ r.cost = o.cost
  BY DEF TalkType, Noted
<1>4. r \in TalkType
  BY <1>1, <1>2 DEF TalkType, Noted
<1> QED BY <1>3, <1>4 DEF r

LEMMA BudgetParts ==
  BudgetInv =>
    /\ MoneySound(month, counter, talk, nudged, spent, lost)
    /\ tier \in Plans /\ bucket \in 0..3 /\ yes \subseteq Customer
    /\ month \in 1..2 /\ counter \in [1..2 -> Budget!Counter] /\ talk \in [Customer -> TalkType]
    /\ counter[month] \in Budget!Counter /\ spent \in Nat /\ lost \in Nat
    /\ \A m \in Customer :
         /\ talk[m] \in TalkType
         /\ talk[m].at = "record" => talk[m].cost = 5
         /\ talk[m].at \notin {"record", "note"} => talk[m].cost = 0
         /\ talk[m].note # 0 => talk[m].at \in {"session", "turn", "record", "note"}
         /\ talk[m].at = "note" => talk[m].note # 0
         /\ talk[m].at \in {"thank", "count"} => talk[m].text # "yes"
BY DEF BudgetInv, MoneySound, MoneyTypes, CostsKnown, NotesSound, NoAnswerThanked

\* A step that moves one message on and leaves the money alone.
LEMMA QuietStep ==
  ASSUME BudgetInv, NEW m \in Customer, NEW r \in TalkType, talk' = [talk EXCEPT ![m] = r],
         r.at # "record", talk[m].at # "record",
         r.note # 0 => r.note = talk[m].note /\ r.at \in {"session", "turn", "record"},
         r.at # "note", r.cost = 0,
         r.at \in PastGate => talk[m].at \in PastGate \/ counter[month].cost < 10,
         r.at \in {"thank", "count"} => r.text # "yes",
         month' = month, counter' = counter, nudged' = nudged, spent' = spent, lost' = lost,
         tier' = tier, bucket' \in 0..3, yes' \subseteq Customer
  PROVE  BudgetInv'
<1>1. MoneySound(month, counter, talk, nudged, spent, lost)
  BY DEF BudgetInv
<1>2. MoneySound(month, counter, [talk EXCEPT ![m] = r], nudged, spent, lost)
  BY <1>1, QuietMove
<1>3. MoneySound(month', counter', talk', nudged', spent', lost')
  BY <1>2
<1> QED BY <1>3 DEF BudgetInv

LEMMA ReceiveBudget ==
  ASSUME BudgetInv, NEW m \in Customer, NEW x \in Budget!Text, Budget!Receive(m, x)
  PROVE  BudgetInv'
<1> DEFINE k == IF x = "secret" THEN "block" ELSE IF x = "yes" THEN "approve" ELSE Budget!Routed(m, x)
           q == [talk[m] EXCEPT !.text = x, !.at = k]
           r == IF bucket = 0 \/ x = "voice" THEN talk[m] ELSE q
<1>1. /\ talk[m].at = "idle" /\ talk[m] \in TalkType /\ talk \in [Customer -> TalkType]
      /\ talk[m].cost = 0 /\ talk[m].note = 0 /\ bucket \in 0..3
  BY BudgetParts DEF Budget!Receive
<1>2. k \in {"block", "approve", "thank", "plan"} /\ (k = "thank" => x # "yes")
  BY DEF Budget!Routed, Budget!AnsweredLocally, Budget!Approves
<1>3. /\ q \in TalkType /\ q.at = k /\ q.text = x /\ q.cost = 0 /\ q.note = 0
  BY <1>1, <1>2 DEF TalkType, Budget!Stage
<1>4. /\ talk' = [talk EXCEPT ![m] = r]
      /\ bucket' \in 0..3 /\ UNCHANGED <<month, tier, counter, yes, nudged, spent, lost>>
  <2>1. bucket' \in 0..3
    BY <1>1 DEF Budget!Receive
  <2>2. UNCHANGED <<month, tier, counter, yes, nudged, spent, lost>>
    BY DEF Budget!Receive
  <2>3. talk' = IF bucket = 0 \/ x = "voice" THEN talk ELSE [talk EXCEPT ![m].text = x, ![m].at = k]
    BY DEF Budget!Receive, Budget!Approves
  <2>4. [talk EXCEPT ![m].text = x, ![m].at = k] = [talk EXCEPT ![m] = q]
    BY <1>1
  <2> QED BY <1>1, <2>1, <2>2, <2>3, <2>4
<1>5. r \in TalkType /\ r.at \in {"idle", "block", "approve", "thank", "plan"} /\ r.cost = 0 /\ r.note = 0
  BY <1>1, <1>2, <1>3
<1>6. r.at = "thank" => r.text # "yes"
  BY <1>1, <1>2, <1>3
<1> HIDE DEF r
<1>7. r.at \notin PastGate /\ r.at # "record" /\ r.at # "count"
  BY <1>5 DEF PastGate
<1>8. yes' \subseteq Customer
  BY <1>4, BudgetParts
<1> QED BY <1>1, <1>4, <1>5, <1>6, <1>7, <1>8, QuietStep

\* The steps between the gates.
LEMMA BlockBudget ==
  ASSUME BudgetInv, NEW m \in Customer, Budget!Block(m)
  PROVE  BudgetInv'
<1> DEFINE r == Budget!Idle
<1>1. r \in TalkType /\ r.at = "idle" /\ r.note = 0 /\ r.cost = 0
  BY BudgetRules DEF Budget!Idle
<1>2. /\ talk[m].at = "block" /\ talk' = [talk EXCEPT ![m] = r]
      /\ UNCHANGED <<month, tier, counter, bucket, yes, nudged, spent, lost>>
      /\ yes' \subseteq Customer /\ bucket' \in 0..3
  BY BudgetParts DEF Budget!Block, Budget!Done
<1> HIDE DEF r
<1>3. r.at \notin PastGate
  BY <1>1 DEF PastGate
<1> QED BY <1>1, <1>2, <1>3, QuietStep

LEMMA ApproveBudget ==
  ASSUME BudgetInv, NEW m \in Customer, Budget!Approve(m)
  PROVE  BudgetInv'
<1> DEFINE k == Budget!Routed(m, talk[m].text)
           r == [talk[m] EXCEPT !.at = k]
<1>1. /\ talk[m].at = "approve" /\ talk[m] \in TalkType /\ talk \in [Customer -> TalkType]
      /\ talk[m].cost = 0 /\ talk[m].note = 0
  BY BudgetParts DEF Budget!Approve
<1>2. k \in {"thank", "plan"} /\ (k = "thank" => talk[m].text # "yes")
  BY DEF Budget!Routed, Budget!AnsweredLocally, Budget!Approves
<1>3. /\ talk' = [talk EXCEPT ![m] = r]
      /\ UNCHANGED <<month, tier, counter, bucket, nudged, spent, lost>>
      /\ yes' \subseteq Customer /\ bucket' \in 0..3
  BY <1>1, BudgetParts DEF Budget!Approve, Budget!Goto
<1> HIDE DEF k
<1>4. /\ r \in TalkType /\ r.at = k /\ r.cost = 0 /\ r.note = 0 /\ r.text = talk[m].text
  BY <1>1, <1>2 DEF TalkType, Budget!Stage
<1> HIDE DEF r
<1>5. /\ r.at \notin PastGate /\ r.at # "record" /\ r.at # "note"
      /\ r.at \in {"thank", "count"} => r.text # "yes"
  BY <1>2, <1>4 DEF PastGate
<1> QED BY <1>1, <1>3, <1>4, <1>5, QuietStep

LEMMA ThankBudget ==
  ASSUME BudgetInv, NEW m \in Customer, Budget!Thank(m)
  PROVE  BudgetInv'
<1> DEFINE r == [talk[m] EXCEPT !.at = "count"]
<1>1. /\ talk[m].at = "thank" /\ talk[m] \in TalkType /\ talk \in [Customer -> TalkType]
      /\ talk[m].cost = 0 /\ talk[m].note = 0 /\ talk[m].text # "yes"
  BY BudgetParts DEF Budget!Thank
<1>2. /\ talk' = [talk EXCEPT ![m] = r]
      /\ UNCHANGED <<month, tier, counter, bucket, yes, nudged, spent, lost>>
      /\ yes' \subseteq Customer /\ bucket' \in 0..3
  BY <1>1, BudgetParts DEF Budget!Thank, Budget!Goto
<1>3. /\ r \in TalkType /\ r.at = "count" /\ r.cost = 0 /\ r.note = 0 /\ r.text = talk[m].text
  BY <1>1 DEF TalkType, Budget!Stage
<1> HIDE DEF r
<1>4. r.at \notin PastGate
  BY <1>3 DEF PastGate
<1> QED BY <1>1, <1>2, <1>3, <1>4, QuietStep

LEMMA ReadPlanBudget ==
  ASSUME BudgetInv, NEW m \in Customer, Budget!ReadPlan(m)
  PROVE  BudgetInv'
<1> DEFINE r == [talk[m] EXCEPT !.at = "usage", !.plan = tier]
<1>1. /\ talk[m].at = "plan" /\ talk[m] \in TalkType /\ talk \in [Customer -> TalkType]
      /\ talk[m].cost = 0 /\ talk[m].note = 0 /\ tier \in Plans
  BY BudgetParts DEF Budget!ReadPlan
<1>2. /\ talk' = [talk EXCEPT ![m] = r]
      /\ UNCHANGED <<month, tier, counter, bucket, yes, nudged, spent, lost>>
      /\ yes' \subseteq Customer /\ bucket' \in 0..3
  BY <1>1, BudgetParts DEF Budget!ReadPlan
<1>3. /\ r \in TalkType /\ r.at = "usage" /\ r.cost = 0 /\ r.note = 0
  BY <1>1 DEF TalkType, Budget!Stage
<1> HIDE DEF r
<1>4. r.at \notin PastGate
  BY <1>3 DEF PastGate
<1> QED BY <1>1, <1>2, <1>3, <1>4, QuietStep

LEMMA ReadUsageBudget ==
  ASSUME BudgetInv, NEW m \in Customer, Budget!ReadUsage(m)
  PROVE  BudgetInv'
<1> DEFINE v == Budget!Verdict(talk[m].plan, counter[month].cost)
           r == IF v = "THROTTLE" THEN Budget!Idle
                ELSE [talk[m] EXCEPT !.at = IF v = "WARN" THEN "latch" ELSE "session"]
<1>1. /\ talk[m].at = "usage" /\ talk[m] \in TalkType /\ talk \in [Customer -> TalkType]
      /\ talk[m].cost = 0 /\ talk[m].note = 0 /\ talk[m].plan \in Plans /\ counter[month].cost \in Nat
  BY BudgetParts DEF Budget!ReadUsage, TalkType, Budget!Counter
<1>2. v \in {"THROTTLE", "WARN", "OK"} /\ (counter[month].cost >= 10 => v = "THROTTLE")
  BY <1>1, BudgetRules
<1>3. talk' = [talk EXCEPT ![m] =
        CASE v = "THROTTLE" -> Budget!Idle
          [] v = "WARN"     -> [talk[m] EXCEPT !.at = "latch"]
          [] v = "OK"       -> [talk[m] EXCEPT !.at = "session"]]
  BY <1>1 DEF Budget!ReadUsage
<1> HIDE DEF v
<1>4. talk' = [talk EXCEPT ![m] = r]
  <2>1. (CASE v = "THROTTLE" -> Budget!Idle
           [] v = "WARN"     -> [talk[m] EXCEPT !.at = "latch"]
           [] v = "OK"       -> [talk[m] EXCEPT !.at = "session"]) = r
    BY <1>2
  <2> QED BY <1>3, <2>1
<1>5. /\ UNCHANGED <<month, tier, counter, bucket, yes, nudged, spent, lost>>
      /\ yes' \subseteq Customer /\ bucket' \in 0..3
  BY BudgetParts DEF Budget!ReadUsage
<1>6. /\ Budget!Idle \in TalkType /\ Budget!Idle.at = "idle" /\ Budget!Idle.note = 0 /\ Budget!Idle.cost = 0
  BY BudgetRules DEF Budget!Idle
<1>7. /\ r \in TalkType /\ r.at \in {"idle", "latch", "session"} /\ r.cost = 0 /\ r.note = 0
      /\ r.at \in PastGate => v # "THROTTLE"
  BY <1>1, <1>6 DEF TalkType, Budget!Stage, PastGate
<1> HIDE DEF r
<1>8. r.at \in PastGate => counter[month].cost < 10
  BY <1>1, <1>2, <1>7
<1>9. r.at # "record" /\ r.at # "thank" /\ r.at # "count"
  BY <1>7
<1> QED BY <1>1, <1>4, <1>5, <1>7, <1>8, <1>9, QuietStep

LEMMA OpenSessionBudget ==
  ASSUME BudgetInv, NEW m \in Customer, Budget!OpenSession(m)
  PROVE  BudgetInv'
<1> DEFINE q == [talk[m] EXCEPT !.at = "turn"]
<1>1. /\ talk[m].at = "session" /\ talk[m] \in TalkType /\ talk \in [Customer -> TalkType]
      /\ talk[m].cost = 0
  BY BudgetParts DEF Budget!OpenSession
<1>2. PICK r \in {q, Budget!Idle} : talk' = [talk EXCEPT ![m] = r]
  BY <1>1 DEF Budget!OpenSession, Budget!Goto, Budget!Done
<1>3. /\ UNCHANGED <<month, tier, counter, bucket, yes, nudged, spent, lost>>
      /\ yes' \subseteq Customer /\ bucket' \in 0..3
  BY BudgetParts DEF Budget!OpenSession
<1>4. /\ Budget!Idle \in TalkType /\ Budget!Idle.at = "idle" /\ Budget!Idle.note = 0 /\ Budget!Idle.cost = 0
  BY BudgetRules DEF Budget!Idle
<1>5. /\ q \in TalkType /\ q.at = "turn" /\ q.cost = 0 /\ q.note = talk[m].note
  BY <1>1 DEF TalkType, Budget!Stage
<1> HIDE DEF q
<1>6. /\ r \in TalkType /\ r.at \in {"idle", "turn"} /\ r.cost = 0
      /\ r.note # 0 => r.note = talk[m].note /\ r.at = "turn"
  BY <1>4, <1>5, <1>2
<1>7. talk[m].at \in PastGate /\ r.at # "record" /\ r.at # "thank" /\ r.at # "count"
  BY <1>1, <1>6 DEF PastGate
<1> QED BY <1>1, <1>2, <1>3, <1>6, <1>7, QuietStep
\* Thanks cost nothing, but the month's counter counts them.
LEMMA CountThanksBudget ==
  ASSUME BudgetInv, NEW m \in Customer, Budget!CountThanks(m)
  PROVE  BudgetInv'
<1> DEFINE w == Bumped(counter[month], talk[m].cost)
           d == [counter EXCEPT ![month] = w]
           g == [talk EXCEPT ![m] = Budget!Idle]
<1>1. /\ talk[m].at = "count" /\ talk[m].cost = 0 /\ month \in 1..2
      /\ counter \in [1..2 -> Budget!Counter] /\ counter[month] \in Budget!Counter
      /\ MoneySound(month, counter, talk, nudged, spent, lost)
  BY BudgetParts DEF Budget!CountThanks
<1>2. counter' = d /\ talk' = g /\ UNCHANGED <<month, tier, bucket, yes, nudged, spent, lost>>
  BY DEF Budget!CountThanks, Budget!Added, Budget!Done, Bumped
<1>3. w \in Budget!Counter /\ w.cost = counter[month].cost /\ w.warned = counter[month].warned
  <2>1. counter[month] \in Budget!Counter /\ talk[m].cost \in Nat
    BY <1>1
  <2>3. /\ w \in Budget!Counter /\ w.cost = counter[month].cost + talk[m].cost
        /\ w.warned = counter[month].warned /\ counter[month].cost \in Nat
    BY <2>1, CounterAdded
  <2> HIDE DEF w
  <2> QED BY <2>3, <1>1
<1> HIDE DEF w
<1>4. /\ d \in [1..2 -> Budget!Counter]
      /\ \A k \in 1..2 : d[k].cost = counter[k].cost /\ (counter[k].warned => d[k].warned)
  BY <1>1, <1>3
<1> HIDE DEF d
<1>5. MoneySound(month, d, talk, nudged, spent, lost)
  BY <1>1, <1>4, MarkedOnly
<1>6. /\ Budget!Idle \in TalkType /\ Budget!Idle.at = "idle" /\ Budget!Idle.note = 0
      /\ Budget!Idle.cost = 0 /\ "idle" \notin PastGate
  BY BudgetRules DEF Budget!Idle, PastGate
<1>7. MoneySound(month, d, g, nudged, spent, lost)
  <2>1. Budget!Idle.at # "record" /\ Budget!Idle.at \notin {"thank", "count"} /\ talk[m].at # "record"
    BY <1>1, <1>6
  <2> QED BY <1>5, <1>6, <2>1, QuietMove
<1> HIDE DEF g
<1>8. MoneySound(month', counter', talk', nudged', spent', lost')
  BY <1>2, <1>7
<1>9. tier' \in Plans /\ bucket' \in 0..3 /\ yes' \subseteq Customer
  BY <1>2, BudgetParts
<1> QED BY <1>8, <1>9 DEF BudgetInv

LEMMA LatchBudget ==
  ASSUME BudgetInv, NEW m \in Customer, Budget!Latch(m)
  PROVE  BudgetInv'
<1>1. /\ talk[m].at = "latch" /\ talk[m].cost = 0 /\ talk[m].note = 0 /\ talk[m] \in TalkType
      /\ talk \in [Customer -> TalkType] /\ month \in 1..2
      /\ MoneySound(month, counter, talk, nudged, spent, lost)
  BY BudgetParts DEF Budget!Latch
<1>2. /\ UNCHANGED <<month, tier, bucket, yes, nudged, spent, lost>>
      /\ tier' \in Plans /\ bucket' \in 0..3 /\ yes' \subseteq Customer
  BY BudgetParts DEF Budget!Latch
<1>3. CASE Budget!Unwarned(counter[month])
  <2> DEFINE r == Noted(talk[m], month)
             d == [counter EXCEPT ![month].warned = TRUE]
  <2>1. ~counter[month].warned
    BY <1>3 DEF Budget!Unwarned
  <2>2. counter' = d /\ talk' = [talk EXCEPT ![m] = r]
    BY <1>1, <1>3 DEF Budget!Latch, Noted
  <2>3. r \in TalkType /\ r.at = "session" /\ r.note = month /\ r.cost = talk[m].cost
    BY <1>1, NoteCarried
  <2> HIDE DEF r
  <2>4. MoneySound(month, d, [talk EXCEPT ![m] = r], nudged, spent, lost)
    BY <1>1, <2>1, <2>3, NoteTaken
  <2> HIDE DEF d
  <2>5. MoneySound(month', counter', talk', nudged', spent', lost')
    BY <1>2, <2>2, <2>4
  <2> QED BY <1>2, <2>5 DEF BudgetInv
<1>4. CASE ~Budget!Unwarned(counter[month])
  <2> DEFINE r == [talk[m] EXCEPT !.at = "session"]
  <2>1. counter' = counter /\ talk' = [talk EXCEPT ![m] = r]
    BY <1>1, <1>4 DEF Budget!Latch, Budget!Goto
  <2>2. r \in TalkType /\ r.at = "session" /\ r.note = 0 /\ r.cost = 0
    BY <1>1 DEF TalkType, Budget!Stage
  <2> HIDE DEF r
  <2>3. talk[m].at \in PastGate
    BY <1>1 DEF PastGate
  <2>4. /\ r.at # "record" /\ talk[m].at # "record" /\ r.at \notin {"thank", "count"}
    BY <1>1, <2>2
  <2> QED BY <1>2, <2>1, <2>2, <2>3, <2>4, QuietStep
<1> QED BY <1>3, <1>4

LEMMA EndTurnBudget ==
  ASSUME BudgetInv, NEW m \in Customer, Budget!EndTurn(m, 5)
  PROVE  BudgetInv'
<1> DEFINE r == [talk[m] EXCEPT !.at = "record", !.cost = 5]
<1>1. /\ talk[m].at = "turn" /\ talk[m] \in TalkType /\ talk \in [Customer -> TalkType]
      /\ MoneySound(month, counter, talk, nudged, spent, lost)
  BY BudgetParts DEF Budget!EndTurn
<1>2. /\ talk' = [talk EXCEPT ![m] = r] /\ spent' = spent + 5
      /\ UNCHANGED <<month, tier, counter, bucket, yes, nudged, lost>>
      /\ tier' \in Plans /\ bucket' \in 0..3 /\ yes' \subseteq Customer
  BY <1>1, BudgetParts DEF Budget!EndTurn
<1>3. r \in TalkType /\ r.at = "record" /\ r.cost = 5 /\ r.note = talk[m].note
  BY <1>1 DEF TalkType, Budget!Stage
<1> HIDE DEF r
<1>4. MoneySound(month, counter, [talk EXCEPT ![m] = r], nudged, spent + 5, lost)
  BY <1>1, <1>3, TurnEnds
<1>5. MoneySound(month', counter', talk', nudged', spent', lost')
  BY <1>2, <1>4
<1> QED BY <1>2, <1>5 DEF BudgetInv

\* Where a message is that has been recorded, or not.
LEMMA AfterRecordBudget ==
  ASSUME BudgetInv, NEW m \in Customer, talk[m].at = "record", Budget!AfterRecord(m)
  PROVE  \E r \in TalkType :
           /\ talk' = [talk EXCEPT ![m] = r]
           /\ r.at \in {"idle", "note"} /\ (r.at = "note" => r.note = talk[m].note /\ r.note # 0)
           /\ r.at = "idle" => r.note = 0 /\ r.cost = 0
<1> DEFINE q == [talk[m] EXCEPT !.at = "note"]
<1>1. talk[m] \in TalkType /\ talk \in [Customer -> TalkType]
  BY BudgetParts
<1>2. /\ Budget!Idle \in TalkType /\ Budget!Idle.at = "idle" /\ Budget!Idle.note = 0 /\ Budget!Idle.cost = 0
  BY BudgetRules DEF Budget!Idle
<1>3. q \in TalkType /\ q.at = "note" /\ q.note = talk[m].note
  BY <1>1 DEF TalkType, Budget!Stage
<1>4. talk' = [talk EXCEPT ![m] = Budget!Idle] \/ (talk[m].note # 0 /\ talk' = [talk EXCEPT ![m] = q])
  BY <1>1 DEF Budget!AfterRecord, Budget!Done, Budget!Goto
<1> HIDE DEF q
<1> QED BY <1>2, <1>3, <1>4

LEMMA RecordBudget ==
  ASSUME BudgetInv, NEW m \in Customer, Budget!Record(m)
  PROVE  BudgetInv'
<1> DEFINE w == Bumped(counter[month], talk[m].cost)
           d == [counter EXCEPT ![month] = w]
<1>1. /\ talk[m].at = "record" /\ talk[m].cost = 5 /\ month \in 1..2 /\ Budget!AfterRecord(m)
      /\ counter \in [1..2 -> Budget!Counter] /\ counter[month] \in Budget!Counter
      /\ MoneySound(month, counter, talk, nudged, spent, lost)
  BY BudgetParts DEF Budget!Record
<1>2. /\ counter' = d /\ UNCHANGED <<month, tier, bucket, yes, nudged, spent, lost>>
      /\ tier' \in Plans /\ bucket' \in 0..3 /\ yes' \subseteq Customer
  BY BudgetParts DEF Budget!Record, Budget!Added, Bumped
<1>3. w \in Budget!Counter /\ w.cost = counter[month].cost + 5 /\ w.warned = counter[month].warned
  <2>1. counter[month] \in Budget!Counter /\ talk[m].cost \in Nat
    BY <1>1
  <2>3. /\ w \in Budget!Counter /\ w.cost = counter[month].cost + talk[m].cost
        /\ w.warned = counter[month].warned /\ counter[month].cost \in Nat
    BY <2>1, CounterAdded
  <2> HIDE DEF w
  <2> QED BY <2>3, <1>1
<1> HIDE DEF w
<1>4. /\ d \in [1..2 -> Budget!Counter] /\ d[month].cost = counter[month].cost + 5
      /\ \A k \in 1..2 : k # month => d[k].cost = counter[k].cost
      /\ \A k \in 1..2 : counter[k].warned => d[k].warned
  BY <1>1, <1>3
<1> HIDE DEF d
<1>5. PICK r \in TalkType :
        /\ talk' = [talk EXCEPT ![m] = r]
        /\ r.at \in {"idle", "note"} /\ (r.at = "note" => r.note = talk[m].note /\ r.note # 0)
        /\ r.at = "idle" => r.note = 0 /\ r.cost = 0
  BY <1>1, AfterRecordBudget
<1>6. MoneySound(month, d, [talk EXCEPT ![m] = r], nudged, spent, lost)
  BY <1>1, <1>4, <1>5, Recorded
<1>7. MoneySound(month', counter', talk', nudged', spent', lost')
  BY <1>2, <1>5, <1>6
<1> QED BY <1>2, <1>7 DEF BudgetInv

LEMMA RecordFailsBudget ==
  ASSUME BudgetInv, NEW m \in Customer, Budget!RecordFails(m)
  PROVE  BudgetInv'
<1>1. /\ talk[m].at = "record" /\ talk[m].cost = 5 /\ Budget!AfterRecord(m)
      /\ MoneySound(month, counter, talk, nudged, spent, lost)
  BY BudgetParts DEF Budget!RecordFails
<1>2. /\ lost' = lost + 5 /\ UNCHANGED <<month, tier, counter, bucket, yes, nudged, spent>>
      /\ tier' \in Plans /\ bucket' \in 0..3 /\ yes' \subseteq Customer
  BY <1>1, BudgetParts DEF Budget!RecordFails
<1>3. PICK r \in TalkType :
        /\ talk' = [talk EXCEPT ![m] = r]
        /\ r.at \in {"idle", "note"} /\ (r.at = "note" => r.note = talk[m].note /\ r.note # 0)
        /\ r.at = "idle" => r.note = 0 /\ r.cost = 0
  BY <1>1, AfterRecordBudget
<1>4. MoneySound(month, counter, [talk EXCEPT ![m] = r], nudged, spent, lost + 5)
  BY <1>1, <1>3, RecordLost
<1>5. MoneySound(month', counter', talk', nudged', spent', lost')
  BY <1>2, <1>3, <1>4
<1> QED BY <1>2, <1>5 DEF BudgetInv
LEMMA SendNoteBudget ==
  ASSUME BudgetInv, NEW m \in Customer, Budget!SendNote(m)
  PROVE  BudgetInv'
<1> DEFINE w == [nudged EXCEPT ![talk[m].note] = nudged[talk[m].note] + 1]
<1>1. /\ talk[m].at = "note" /\ talk[m].note # 0
      /\ MoneySound(month, counter, talk, nudged, spent, lost)
  BY BudgetParts DEF Budget!SendNote
<1>2. /\ talk' = [talk EXCEPT ![m] = Budget!Idle] /\ nudged' = w
      /\ UNCHANGED <<month, tier, counter, bucket, yes, spent, lost>>
      /\ tier' \in Plans /\ bucket' \in 0..3 /\ yes' \subseteq Customer
  BY BudgetParts DEF Budget!SendNote, Budget!Done
<1>3. MoneySound(month, counter, [talk EXCEPT ![m] = Budget!Idle], w, spent, lost)
  BY <1>1, NoteSent
<1> HIDE DEF w
<1>4. MoneySound(month', counter', talk', nudged', spent', lost')
  BY <1>2, <1>3
<1> QED BY <1>2, <1>4 DEF BudgetInv
LEMMA RestartBudget ==
  ASSUME BudgetInv, Budget!Restart
  PROVE  BudgetInv'
<1> DEFINE g == [m \in Customer |-> Budget!Idle]
           x == SumFunctionOnSet(Owing(talk), Customer)
<1>1. MoneySound(month, counter, talk, nudged, spent, lost)
  BY BudgetParts
<1>2. Budget!SumFunction(Budget!Owed) = x
  <2>1. Budget!Owed = Owing(talk)
    BY DEF Budget!Owed, Owing
  <2>2. DOMAIN Owing(talk) = Customer
    BY DEF Owing
  <2> QED BY <2>1, <2>2, BudgetSum
<1>3. /\ talk' = g /\ lost' = lost + x /\ bucket' = 3
      /\ UNCHANGED <<month, tier, counter, yes, nudged, spent>>
  BY <1>2 DEF Budget!Restart
<1>4. MoneySound(month, counter, g, nudged, spent, lost + x)
  BY <1>1, AllStopped
<1> HIDE DEF g, x
<1>5. MoneySound(month', counter', talk', nudged', spent', lost')
  BY <1>3, <1>4
<1>6. tier' \in Plans /\ bucket' \in 0..3 /\ yes' \subseteq Customer
  BY <1>3, BudgetParts
<1> QED BY <1>5, <1>6 DEF BudgetInv

\* Refills, changes of plan and the turn of the month.
LEMMA OutsideBudget ==
  ASSUME BudgetInv, Budget!Refill \/ Budget!NextMonth \/ \E p \in Budget!Tier : Budget!ChangePlan(p)
  PROVE  BudgetInv'
<1>1. /\ MoneySound(month, counter, talk, nudged, spent, lost) /\ month \in 1..2
      /\ tier \in Plans /\ bucket \in 0..3 /\ yes \subseteq Customer
  BY BudgetParts
<1>2. CASE Budget!Refill
  <2>1. /\ bucket' \in 0..3 /\ UNCHANGED <<month, tier, counter, talk, yes, nudged, spent, lost>>
    BY <1>1, <1>2 DEF Budget!Refill
  <2> QED BY <1>1, <2>1 DEF BudgetInv
<1>3. CASE Budget!NextMonth
  <2>1. /\ month < 2 /\ month' = month + 1
        /\ UNCHANGED <<tier, counter, bucket, talk, yes, nudged, spent, lost>>
    BY <1>3 DEF Budget!NextMonth
  <2>2. MoneySound(month + 1, counter, talk, nudged, spent, lost)
    BY <1>1, <2>1, MonthTurns
  <2>3. MoneySound(month', counter', talk', nudged', spent', lost')
    BY <2>1, <2>2
  <2> QED BY <1>1, <2>1, <2>3 DEF BudgetInv
<1>4. ASSUME NEW p \in Budget!Tier, Budget!ChangePlan(p) PROVE BudgetInv'
  <2>1. tier' \in Plans /\ UNCHANGED <<month, counter, bucket, talk, yes, nudged, spent, lost>>
    BY <1>4, BudgetRules DEF Budget!ChangePlan
  <2> QED BY <1>1, <2>1 DEF BudgetInv
<1> QED BY <1>2, <1>3, <1>4

LEMMA HandleBudget ==
  ASSUME BudgetInv, NEW m \in Customer, Budget!Handle(m)
  PROVE  BudgetInv'
<1>1. \/ \E x \in Budget!Text : Budget!Receive(m, x)
      \/ Budget!Block(m) \/ Budget!Approve(m) \/ Budget!Thank(m) \/ Budget!CountThanks(m)
      \/ Budget!ReadPlan(m) \/ Budget!ReadUsage(m) \/ Budget!Latch(m) \/ Budget!OpenSession(m)
      \/ Budget!EndTurn(m, 5)
      \/ Budget!Record(m) \/ Budget!RecordFails(m) \/ Budget!SendNote(m)
  BY DEF Budget!Handle
<1> QED BY <1>1, ReceiveBudget, BlockBudget, ApproveBudget, ThankBudget, CountThanksBudget,
           ReadPlanBudget, ReadUsageBudget, LatchBudget, OpenSessionBudget, EndTurnBudget,
           RecordBudget, RecordFailsBudget, SendNoteBudget

LEMMA BudgetKept == BudgetInv /\ Budget!Next => BudgetInv'
<1> SUFFICES ASSUME BudgetInv, Budget!Next PROVE BudgetInv'
  OBVIOUS
<1>1. \/ \E m \in Customer : Budget!Handle(m)
      \/ Budget!Restart
      \/ Budget!Refill \/ Budget!NextMonth \/ \E p \in Budget!Tier : Budget!ChangePlan(p)
  BY DEF Budget!Next
<1> QED BY <1>1, HandleBudget, RestartBudget, OutsideBudget

LEMMA BudgetInit == Budget!Init => BudgetInv
<1> SUFFICES ASSUME Budget!Init PROVE BudgetInv
  OBVIOUS
<1>1. PICK first \in {Budget!NoCounter} \cup
                     {[Budget!NoCounter EXCEPT !.row = TRUE, !.turns = 1, !.cost = c] : c \in {5}} :
        /\ counter = [k \in 1..2 |-> IF k = 1 THEN first ELSE Budget!NoCounter]
        /\ spent = first.cost
  BY BudgetRules DEF Budget!Init
<1>2. /\ first \in Budget!Counter /\ first.cost \in {0, 5}
      /\ Budget!NoCounter \in Budget!Counter /\ Budget!NoCounter.cost = 0
  <2>1. Budget!NoCounter \in Budget!Counter /\ Budget!NoCounter.cost = 0
    BY BudgetRules DEF Budget!NoCounter
  <2>2. first = Budget!NoCounter \/ first = [Budget!NoCounter EXCEPT !.row = TRUE, !.turns = 1, !.cost = 5]
    OBVIOUS
  <2>3. CASE first = [Budget!NoCounter EXCEPT !.row = TRUE, !.turns = 1, !.cost = 5]
    <3>1. first = [row |-> TRUE, turns |-> 1, cost |-> 5, warned |-> FALSE]
      BY <2>3 DEF Budget!NoCounter
    <3> QED BY <2>1, <3>1 DEF Budget!Counter
  <2> QED BY <2>1, <2>2, <2>3
<1>3. /\ month = 1 /\ tier \in Plans /\ bucket \in 0..3 /\ yes = {} /\ lost = 0
      /\ talk = [m \in Customer |-> Budget!Idle] /\ nudged = [k \in 1..2 |-> 0]
  BY BudgetRules DEF Budget!Init
<1>4. counter \in [1..2 -> Budget!Counter] /\ counter[1].cost \in {0, 5} /\ counter[2].cost = 0
  BY <1>1, <1>2
<1>5. /\ talk \in [Customer -> TalkType]
      /\ \A m \in Customer : talk[m].at = "idle" /\ talk[m].note = 0 /\ talk[m].cost = 0
  BY <1>3, BudgetRules DEF Budget!Idle
<1>6. MoneyTypes(month, counter, talk, nudged, spent, lost)
  <2>1. spent \in Nat
    BY <1>1, <1>2
  <2> QED BY <1>3, <1>4, <1>5, <2>1 DEF MoneyTypes
<1>7. NotesSound(counter, talk, nudged)
  BY <1>3, <1>5 DEF NotesSound
<1>8. CostsKnown(talk) /\ NoAnswerThanked(talk)
  BY <1>5 DEF CostsKnown, NoAnswerThanked
<1>9. OvershotBounded(month, counter, talk)
  <2>1. UnderWay(talk) = {}
    BY <1>5 DEF UnderWay, PastGate
  <2>2. Cardinality(UnderWay(talk)) = 0
    BY <2>1, FS_EmptySet
  <2>3. Room \in Nat /\ 10 <= Room
    BY BudgetFinite DEF Room
  <2> QED BY <1>3, <1>4, <2>2, <2>3 DEF OvershotBounded
<1>10. AddUp(counter, talk, spent, lost)
  <2>1. SumFunctionOnSet(Owing(talk), Customer) = 0
    <3>1. \A m \in Customer : Owing(talk)[m] = 0
      BY <1>5 DEF Owing
    <3> QED BY <3>1, BudgetFinite, SumZero
  <2> DEFINE a == Costs(counter)
             z == [k \in 1..2 |-> 0]
  <2>2. /\ \A k \in 1..2 : z[k] \in Int /\ a[k] \in Int
        /\ \A k \in (1..2) \ {1} : z[k] = a[k]
        /\ a[1] = first.cost /\ z[1] = 0
    BY <1>1, <1>2, <1>4 DEF Costs
  <2>3. SumFunctionOnSet(z, 1..2) = 0
    BY BudgetFinite, SumZero
  <2> HIDE DEF a, z
  <2>4. SumFunctionOnSet(a, 1..2) = SumFunctionOnSet(z, 1..2) + (a[1] - z[1])
    <3>1. 1 \in 1..2
      OBVIOUS
    <3> QED BY <3>1, <2>2, BudgetFinite, MonthSum
  <2>5. SumFunctionOnSet(a, 1..2) + lost + SumFunctionOnSet(Owing(talk), Customer) = spent
    BY <1>1, <1>2, <1>3, <2>1, <2>2, <2>3, <2>4
  <2> QED BY <2>5 DEF AddUp, a
<1>11. MoneySound(month, counter, talk, nudged, spent, lost)
  BY <1>6, <1>7, <1>8, <1>9, <1>10 DEF MoneySound
<1> QED BY <1>3, <1>11 DEF BudgetInv

\* Only steps of the budget write its state.
LEMMA BudgetFrame ==
  ASSUME BudgetInv, [MCNext]_allVars
  PROVE  BudgetInv'
<1>1. \/ Budget!Next
      \/ UNCHANGED <<month, tier, counter, bucket, talk, yes, nudged, spent, lost>>
  BY DEF MCNext, allVars, Signup, Deliver, Act, Spend, Delete, budgetVars
<1>2. CASE Budget!Next
  BY <1>2, BudgetKept
<1>3. CASE UNCHANGED <<month, tier, counter, bucket, talk, yes, nudged, spent, lost>>
  BY <1>3 DEF BudgetInv
<1> QED BY <1>1, <1>2, <1>3

\* Spending: what every step keeps of the counters, of what a crash lost and of the turns
\* that are still to be counted (BudgetInv).
THEOREM BudgetAlways == MCSpec => []BudgetInv
<1>1. MCInit => BudgetInv
  BY BudgetInit DEF MCInit
<1>2. BudgetInv /\ [MCNext]_allVars => BudgetInv'
  BY BudgetFrame
<1> QED BY <1>1, <1>2, PTL DEF MCSpec

LEMMA SpendingSound ==
  BudgetInv =>
    /\ Budget!NudgedOnce /\ Budget!CountersAddUp
    /\ Budget!OverspendBounded /\ Budget!AnswersReachAgent
<1> SUFFICES ASSUME BudgetInv
             PROVE  /\ Budget!NudgedOnce /\ Budget!CountersAddUp
                    /\ Budget!OverspendBounded /\ Budget!AnswersReachAgent
  OBVIOUS
<1>1. MoneySound(month, counter, talk, nudged, spent, lost)
  BY BudgetParts
<1>2. Budget!NudgedOnce
  BY <1>1, BudgetRules DEF MoneySound, NotesSound, Budget!NudgedOnce
<1>3. Budget!CountersAddUp
  <2>1. [k \in Budget!Month |-> counter[k].cost] = Costs(counter) /\ DOMAIN Costs(counter) = 1..2
    BY BudgetRules DEF Costs
  <2>2. Budget!Owed = Owing(talk) /\ DOMAIN Owing(talk) = Customer
    BY DEF Budget!Owed, Owing
  <2> QED BY <1>1, <2>1, <2>2, BudgetSum DEF MoneySound, AddUp, Budget!CountersAddUp
<1>4. Budget!OverspendBounded
  <2>1. Budget!Max({5}) = 5
    BY DEF Budget!Max
  <2>2. Budget!Max({[starter |-> 6, pro |-> 10][p] : p \in Budget!Tier}) = 10
    <3>1. {[starter |-> 6, pro |-> 10][p] : p \in Budget!Tier} = {6, 10}
      BY BudgetRules
    <3>2. Budget!Max({6, 10}) = 10
      BY DEF Budget!Max
    <3> QED BY <3>1, <3>2
  <2>3. Budget!Cardinality(Customer) = Cardinality(Customer)
    BY DEF Budget!Cardinality, Cardinality
  <2>4. \A k \in 1..2 : counter[k].cost < 10 + 5 * Cardinality(Customer)
    BY <1>1 DEF MoneySound, OvershotBounded, Room
  <2>5. Cardinality(Customer) * 5 = 5 * Cardinality(Customer)
    BY BudgetFinite
  <2> QED BY <2>1, <2>2, <2>3, <2>4, <2>5, BudgetRules DEF Budget!OverspendBounded
<1>5. Budget!AnswersReachAgent
  BY <1>1 DEF MoneySound, NoAnswerThanked, Budget!AnswersReachAgent, Budget!Approves
<1> QED BY <1>2, <1>3, <1>4, <1>5

LEMMA BudgetTyped == BudgetInv /\ inputs \in Nat => Budget!TypeOK
BY BudgetRules DEF BudgetInv, MoneySound, MoneyTypes, Budget!TypeOK, TalkType
-------------------------------------------------------------------------------
(* The invariant of the deletion *)

TurnType == [at: {"idle", "create", "register"}, of: Tenant \cup {NoTenant}, session: 0..2]
PurgeType ==
  [at: {"idle", "sessions", "rows", "proof"}, of: Tenant \cup {NoTenant}, step: 1..9,
   sessions: SUBSET (1..2), gone: SUBSET (Deletion!Table \X Deletion!Age),
   left: SUBSET Customer, persons: SUBSET Customer, unregistered: BOOLEAN, warned: BOOLEAN]

PurgeTypes ==
  /\ business \subseteq Tenant /\ proof \subseteq Tenant \X BOOLEAN
  /\ blamed \subseteq Tenant /\ crossed \subseteq Tenant
  /\ rows \in [Tenant -> SUBSET (Deletion!Table \X Deletion!Age)]
  /\ user \subseteq Customer /\ member \subseteq Customer \X Tenant
  /\ registry \in [Tenant -> 0..2] /\ opened \in [Tenant -> 0..2]
  /\ live \subseteq (1..2) \X Tenant
  /\ turn \in [{n1} -> TurnType] /\ purge \in [Retrier -> PurgeType]
  /\ turn[n1].at # "idle" => turn[n1].of \in Tenant
  /\ \A g \in Retrier :
       /\ purge[g].at # "idle" => purge[g].of \in Tenant
       /\ purge[g].persons \subseteq purge[g].left
       /\ purge[g].step # 9 => purge[g].persons = {}
       /\ purge[g].at = "sessions" => purge[g].step = 1

\* A purge nobody has crossed.
Smooth(g) == purge[g].at # "idle" /\ purge[g].of \notin crossed

\* It is the only one open, no turn looks for a session of its business, and the
\* business is there until it deletes it.
PurgeAlone ==
  \A g \in Retrier : Smooth(g) =>
    /\ \A h \in Retrier : purge[h].at # "idle" => h = g
    /\ ~(turn[n1].at # "idle" /\ turn[n1].of = purge[g].of)
    /\ purge[g].at # "proof" => purge[g].of \in business

\* What the statements so far have deleted is all there was.
PurgeSees ==
  \A g \in Retrier : Smooth(g) /\ purge[g].at = "rows" =>
    LET p == purge[g]
        t == purge[g].of
    IN  /\ \A i \in 1..9 : i < p.step =>
             \A r \in rows[t] : r[1] = Deletion!PurgeOrder[i] => r \in p.gone
        /\ p.step > 4 => (p.unregistered <=> registry[t] # 0)
        /\ p.step > 7 => p.left = {c \in Customer : <<c, t>> \in member}
        /\ p.step > 8 =>
             p.persons = {c \in p.left : \A s \in Tenant \ {t} : <<c, s>> \notin member}

\* Persons a purge deletes serve no other business.
PersonsFree ==
  \A g \in Retrier : \A c \in purge[g].persons : \A t \in Tenant :
    t # purge[g].of => <<c, t>> \notin member

ProofFollows ==
  /\ \A g \in Retrier : purge[g].at = "proof" => purge[g].of \notin business
  /\ \A t \in Tenant : t \notin business /\ t \notin crossed =>
       \/ \E g \in Retrier : purge[g].at = "proof" /\ purge[g].of = t
       \/ <<t, TRUE>> \in proof \/ <<t, FALSE>> \in proof

SessionsKnown ==
  /\ \A t \in Tenant : registry[t] <= opened[t]
  /\ turn[n1].at # "idle" => turn[n1].session <= opened[turn[n1].of]
  /\ turn[n1].at # "idle" /\ turn[n1].of \notin crossed =>
       turn[n1].of \in business /\ <<registry[turn[n1].of], turn[n1].of>> \notin live
  /\ \A s \in live : s[2] \in business /\ s[2] \notin crossed =>
       \/ s[1] = registry[s[2]]
       \/ turn[n1].at = "register" /\ turn[n1].of = s[2] /\ turn[n1].session = s[1]
  /\ \A g \in Retrier : Smooth(g) =>
       /\ purge[g].at = "sessions" => purge[g].sessions = {registry[purge[g].of]} \ {0}
       /\ purge[g].at # "sessions" /\ ~purge[g].warned => \A s \in live : s[2] # purge[g].of

DeletionInv ==
  /\ PurgeTypes /\ PurgeAlone /\ PurgeSees /\ PersonsFree /\ ProofFollows /\ SessionsKnown
  /\ Deletion!NothingLeft /\ Deletion!GoesThrough /\ Deletion!OrphansLeave /\ Deletion!SessionsGone
-------------------------------------------------------------------------------
LEMMA PurgeFacts ==
  /\ Deletion!NoPurge \in PurgeType /\ Deletion!NoPurge.at = "idle" /\ Deletion!NoPurge.persons = {}
  /\ Deletion!NoPurge.left = {} /\ Deletion!NoPurge.step = 1 /\ Deletion!NoTurn \in TurnType /\ Deletion!NoTurn.at = "idle"
  /\ Deletion!NoTurn.session = 0
BY DEF Deletion!NoPurge, PurgeType, Deletion!NoTurn, TurnType

LEMMA PurgeRecords ==
  PurgeTypes =>
    /\ turn[n1] \in TurnType
    /\ \A g \in Retrier :
         /\ purge[g] \in PurgeType
         /\ purge[g].at # "idle" => purge[g].of \in Tenant
BY DEF PurgeTypes

\* A statement of the purge that changes nothing outside its transaction.
LEMMA StatementKept ==
  ASSUME DeletionInv, NEW g \in Retrier, NEW q \in PurgeType, purge[g].at = "rows",
         purge' = [purge EXCEPT ![g] = q],
         UNCHANGED <<business, rows, user, member, registry, live, opened, turn, proof,
                     blamed, crossed>>,
         q.at = "rows", q.of = purge[g].of, q.warned = purge[g].warned,
         q.step = purge[g].step + 1, q.persons \subseteq q.left, q.step # 9 => q.persons = {},
         Smooth(g) =>
           LET t == purge[g].of
           IN  /\ \A i \in 1..9 : i < q.step =>
                    \A r \in rows[t] : r[1] = Deletion!PurgeOrder[i] => r \in q.gone
               /\ q.step > 4 => (q.unregistered <=> registry[t] # 0)
               /\ q.step > 7 => q.left = {c \in Customer : <<c, t>> \in member}
               /\ q.step > 8 =>
                    q.persons = {c \in q.left : \A s \in Tenant \ {t} : <<c, s>> \notin member},
         \A c \in q.persons : \A t \in Tenant : t # purge[g].of => <<c, t>> \notin member
  PROVE  DeletionInv'
<1>1. PurgeTypes /\ purge[g] \in PurgeType /\ purge[g].of \in Tenant
  BY PurgeRecords DEF DeletionInv
<1>2. /\ purge' \in [Retrier -> PurgeType] /\ purge'[g] = q
      /\ \A h \in Retrier : h # g => purge'[h] = purge[h]
  BY <1>1 DEF PurgeTypes
<1>3. \A h \in Retrier :
        /\ purge'[h].at = purge[h].at /\ purge'[h].of = purge[h].of /\ purge'[h].warned = purge[h].warned
        /\ Smooth(h)' <=> Smooth(h)
  BY <1>2 DEF Smooth
<1>4. PurgeTypes'
  BY <1>1, <1>2 DEF PurgeTypes
<1>5. PurgeAlone'
  BY <1>3 DEF DeletionInv, PurgeAlone
<1>6. PurgeSees'
  <2>1. ASSUME NEW h \in Retrier, Smooth(h)', purge'[h].at = "rows", h # g
        PROVE  FALSE
    BY <2>1, <1>3 DEF DeletionInv, PurgeAlone
  <2>2. Smooth(g)' => Smooth(g)
    BY <1>3
  <2> QED BY <2>1, <2>2, <1>2 DEF PurgeSees
<1>7. PersonsFree'
  BY <1>2, <1>3 DEF DeletionInv, PersonsFree
<1>8. ProofFollows'
  <2>1. \A h \in Retrier : purge'[h].at = "proof" => purge'[h].of \notin business
    BY <1>3 DEF DeletionInv, ProofFollows
  <2>2. ASSUME NEW t \in Tenant, t \notin business, t \notin crossed
        PROVE  \/ \E h \in Retrier : purge'[h].at = "proof" /\ purge'[h].of = t
               \/ <<t, TRUE>> \in proof \/ <<t, FALSE>> \in proof
    <3>1. \/ \E h \in Retrier : purge[h].at = "proof" /\ purge[h].of = t
          \/ <<t, TRUE>> \in proof \/ <<t, FALSE>> \in proof
      BY <2>2 DEF DeletionInv, ProofFollows
    <3> QED BY <3>1, <1>3
  <2> QED BY <2>1, <2>2, ZenonT(60) DEF ProofFollows
<1>9. SessionsKnown'
  <2>1. ASSUME NEW h \in Retrier, Smooth(h)', purge'[h].at # "sessions", ~purge'[h].warned, NEW s \in live
        PROVE  s[2] # purge'[h].of
    BY <2>1, <1>3 DEF DeletionInv, SessionsKnown
  <2>2. ASSUME NEW h \in Retrier, Smooth(h)', purge'[h].at = "sessions"
        PROVE  purge'[h].sessions = {registry[purge'[h].of]} \ {0}
    <3>1. h # g
      BY <2>2, <1>2
    <3> QED BY <2>2, <3>1, <1>2, <1>3 DEF DeletionInv, SessionsKnown
  <2> QED BY <2>1, <2>2 DEF DeletionInv, SessionsKnown
<1>10. /\ Deletion!NothingLeft' /\ Deletion!GoesThrough' /\ Deletion!OrphansLeave'
       /\ Deletion!SessionsGone'
  BY DEF DeletionInv, Deletion!NothingLeft, Deletion!GoesThrough, Deletion!OrphansLeave,
         Deletion!SessionsGone, Deletion!MembersOf
<1> QED BY <1>4, <1>5, <1>6, <1>7, <1>8, <1>9, <1>10 DEF DeletionInv

\* A purge that is rolled back, or dies, leaves everything as it was.
LEMMA RollBackKept ==
  ASSUME DeletionInv, NEW g \in Retrier, purge[g].at # "idle", NEW itself, Deletion!RollBack(g, itself),
         itself => purge[g].of \in crossed
  PROVE  DeletionInv'
<1>1. PurgeTypes /\ purge[g] \in PurgeType /\ purge[g].of \in Tenant
  BY PurgeRecords DEF DeletionInv
<1>2. /\ purge' = [purge EXCEPT ![g] = Deletion!NoPurge]
      /\ UNCHANGED <<business, rows, user, member, registry, live, opened, turn, proof>>
      /\ blamed' = IF itself THEN blamed \cup {purge[g].of} ELSE blamed
      /\ crossed' = IF purge[g].at = "proof" THEN crossed \cup {purge[g].of} ELSE crossed
  BY DEF Deletion!RollBack
<1>3. crossed \subseteq crossed' /\ crossed' \subseteq Tenant /\ blamed' \subseteq crossed \cup blamed
  BY <1>1, <1>2 DEF PurgeTypes
<1>4. /\ purge' \in [Retrier -> PurgeType] /\ purge'[g] = Deletion!NoPurge
      /\ \A h \in Retrier : h # g => purge'[h] = purge[h]
  BY <1>1, <1>2, PurgeFacts DEF PurgeTypes
<1>5. \A h \in Retrier : Smooth(h)' => h # g /\ Smooth(h) /\ purge'[h] = purge[h]
  BY <1>3, <1>4, PurgeFacts DEF Smooth
<1>6. PurgeTypes'
  <2>1. blamed' \subseteq Tenant
    BY <1>1, <1>2 DEF PurgeTypes
  <2> QED BY <1>1, <1>2, <1>3, <1>4, <2>1, PurgeFacts DEF PurgeTypes
<1>7. PurgeAlone'
  BY <1>2, <1>3, <1>4, <1>5, PurgeFacts DEF DeletionInv, PurgeAlone
<1>8. PurgeSees'
  BY <1>2, <1>5 DEF DeletionInv, PurgeSees
<1>9. PersonsFree'
  BY <1>2, <1>4, PurgeFacts DEF DeletionInv, PersonsFree
<1>10. ProofFollows'
  <2>1. \A h \in Retrier : purge'[h].at = "proof" => purge'[h].of \notin business
    BY <1>4, PurgeFacts DEF DeletionInv, ProofFollows
  <2>2. ASSUME NEW t \in Tenant, t \notin business, t \notin crossed'
        PROVE  \/ \E h \in Retrier : purge'[h].at = "proof" /\ purge'[h].of = t
               \/ <<t, TRUE>> \in proof \/ <<t, FALSE>> \in proof
    <3>1. ~(purge[g].at = "proof" /\ purge[g].of = t)
      BY <2>2, <1>2
    <3> QED BY <3>1, <2>2, <1>3, <1>4 DEF DeletionInv, ProofFollows
  <2> QED BY <2>1, <2>2, <1>2 DEF ProofFollows
<1>11. SessionsKnown'
  <2>1. ASSUME NEW h \in Retrier, Smooth(h)'
        PROVE  /\ purge'[h].at = "sessions" => purge'[h].sessions = {registry[purge'[h].of]} \ {0}
               /\ purge'[h].at # "sessions" /\ ~purge'[h].warned => \A s \in live : s[2] # purge'[h].of
    BY <2>1, <1>5 DEF DeletionInv, SessionsKnown
  <2> QED BY <2>1, <1>2, <1>3 DEF DeletionInv, SessionsKnown
<1>12. Deletion!NothingLeft'
  BY <1>2 DEF DeletionInv, Deletion!NothingLeft, Deletion!MembersOf
<1>13. Deletion!GoesThrough'
  BY <1>2, <1>3 DEF DeletionInv, Deletion!GoesThrough
<1>14. Deletion!OrphansLeave'
  BY <1>2, <1>3 DEF DeletionInv, Deletion!OrphansLeave
<1>15. Deletion!SessionsGone'
  BY <1>2, <1>3 DEF DeletionInv, Deletion!SessionsGone
<1> QED BY <1>6, <1>7, <1>8, <1>9, <1>10, <1>11, <1>12, <1>13, <1>14, <1>15 DEF DeletionInv
-------------------------------------------------------------------------------
(* The statements of the transaction *)

LEMMA OrderFacts ==
  /\ Deletion!PurgeOrder[1] = "payments" /\ Deletion!PurgeOrder[2] = "sales"
  /\ Deletion!PurgeOrder[3] = "logs" /\ Deletion!PurgeOrder[4] = "sessions"
  /\ Deletion!PurgeOrder[5] = "jobs" /\ Deletion!PurgeOrder[6] = "connectors"
  /\ Deletion!PurgeOrder[7] = "memberships" /\ Deletion!PurgeOrder[8] = "users"
  /\ Deletion!PurgeOrder[9] = "tenants"
BY DEF Deletion!PurgeOrder

\* Where the transaction is, by the table of its next statement.
LEMMA StepOf ==
  ASSUME NEW i \in 1..9
  PROVE  /\ Deletion!PurgeOrder[i] \in Deletion!Table =>
              i \in {1, 2, 3, 5, 6}
         /\ Deletion!PurgeOrder[i] = "sales" => i = 2
         /\ Deletion!PurgeOrder[i] = "connectors" => i = 6
         /\ Deletion!PurgeOrder[i] = "sessions" => i = 4
         /\ Deletion!PurgeOrder[i] = "memberships" => i = 7
         /\ Deletion!PurgeOrder[i] = "users" => i = 8
         /\ Deletion!PurgeOrder[i] = "tenants" => i = 9
<1>1. i \in {1, 2, 3, 4, 5, 6, 7, 8, 9}
  OBVIOUS
<1> QED BY <1>1, OrderFacts DEF Deletion!Table

\* A statement that does not delete rows of the tables.
LEMMA OtherStatement ==
  ASSUME DeletionInv, NEW g \in Retrier, NEW q \in PurgeType, purge[g].at = "rows",
         Deletion!PurgeOrder[purge[g].step] \notin Deletion!Table,
         purge' = [purge EXCEPT ![g] = q],
         UNCHANGED <<business, rows, user, member, registry, live, opened, turn, proof,
                     blamed, crossed>>,
         q.at = "rows", q.of = purge[g].of, q.warned = purge[g].warned, q.gone = purge[g].gone,
         q.step = purge[g].step + 1, q.persons \subseteq q.left, q.step # 9 => q.persons = {},
         Smooth(g) =>
           LET t == purge[g].of
           IN  /\ q.step > 4 => (q.unregistered <=> registry[t] # 0)
               /\ q.step > 7 => q.left = {c \in Customer : <<c, t>> \in member}
               /\ q.step > 8 =>
                    q.persons = {c \in q.left : \A s \in Tenant \ {t} : <<c, s>> \notin member},
         \A c \in q.persons : \A t \in Tenant : t # purge[g].of => <<c, t>> \notin member
  PROVE  DeletionInv'
<1>1. PurgeTypes /\ purge[g] \in PurgeType /\ purge[g].of \in Tenant /\ purge[g].step \in 1..9
  BY PurgeRecords DEF DeletionInv, PurgeType
<1>2. Smooth(g) => \A i \in 1..9 : i < q.step =>
        \A r \in rows[purge[g].of] : r[1] = Deletion!PurgeOrder[i] => r \in q.gone
  <2> SUFFICES ASSUME Smooth(g), NEW i \in 1..9, i < q.step,
                      NEW r \in rows[purge[g].of], r[1] = Deletion!PurgeOrder[i]
               PROVE  r \in q.gone
    OBVIOUS
  <2>1. r[1] \in Deletion!Table
    BY <1>1 DEF PurgeTypes
  <2>2. i < purge[g].step
    BY <1>1, <2>1
  <2> QED BY <2>2 DEF DeletionInv, PurgeSees
<1> QED BY <1>2, StatementKept

\* What the statements write into the record of the purge.
Unregisters(p, b, k) == [p EXCEPT !.unregistered = b, !.step = k]
Leaving(p, l, k) == [p EXCEPT !.left = l, !.step = k]
Removing(p, c, k) == [p EXCEPT !.persons = c, !.step = k]
Emptying(p, r, k) == [p EXCEPT !.gone = r, !.step = k]

LEMMA UnregistersType ==
  ASSUME NEW p \in PurgeType, NEW k \in 1..9, NEW b \in BOOLEAN
  PROVE  /\ Unregisters(p, b, k) \in PurgeType /\ Unregisters(p, b, k).unregistered = b
         /\ Unregisters(p, b, k).step = k /\ Unregisters(p, b, k).at = p.at
         /\ Unregisters(p, b, k).of = p.of /\ Unregisters(p, b, k).warned = p.warned
         /\ Unregisters(p, b, k).gone = p.gone
         /\ Unregisters(p, b, k).left = p.left
         /\ Unregisters(p, b, k).persons = p.persons
BY DEF Unregisters, PurgeType

LEMMA LeavingType ==
  ASSUME NEW p \in PurgeType, NEW k \in 1..9, NEW l \in SUBSET Customer
  PROVE  /\ Leaving(p, l, k) \in PurgeType /\ Leaving(p, l, k).left = l
         /\ Leaving(p, l, k).step = k /\ Leaving(p, l, k).at = p.at
         /\ Leaving(p, l, k).of = p.of /\ Leaving(p, l, k).warned = p.warned
         /\ Leaving(p, l, k).unregistered = p.unregistered
         /\ Leaving(p, l, k).gone = p.gone
         /\ Leaving(p, l, k).persons = p.persons
BY DEF Leaving, PurgeType

LEMMA RemovingType ==
  ASSUME NEW p \in PurgeType, NEW k \in 1..9, NEW c \in SUBSET Customer
  PROVE  /\ Removing(p, c, k) \in PurgeType /\ Removing(p, c, k).persons = c
         /\ Removing(p, c, k).step = k /\ Removing(p, c, k).at = p.at
         /\ Removing(p, c, k).of = p.of /\ Removing(p, c, k).warned = p.warned
         /\ Removing(p, c, k).unregistered = p.unregistered
         /\ Removing(p, c, k).gone = p.gone
         /\ Removing(p, c, k).left = p.left
BY DEF Removing, PurgeType

LEMMA EmptyingType ==
  ASSUME NEW p \in PurgeType, NEW k \in 1..9, NEW r \in SUBSET (Deletion!Table \X Deletion!Age)
  PROVE  /\ Emptying(p, r, k) \in PurgeType /\ Emptying(p, r, k).gone = r
         /\ Emptying(p, r, k).step = k /\ Emptying(p, r, k).at = p.at
         /\ Emptying(p, r, k).of = p.of /\ Emptying(p, r, k).warned = p.warned
         /\ Emptying(p, r, k).unregistered = p.unregistered
         /\ Emptying(p, r, k).left = p.left
         /\ Emptying(p, r, k).persons = p.persons
BY DEF Emptying, PurgeType

LEMMA RegistrationKept ==
  ASSUME DeletionInv, NEW g \in Retrier, Deletion!DeleteRegistration(g)
  PROVE  DeletionInv'
<1> DEFINE p == purge[g]
<1>0. PICK b \in BOOLEAN : b <=> registry[p.of] # 0
  OBVIOUS
<1> DEFINE q == Unregisters(p, b, 5)
<1>1. /\ p \in PurgeType /\ p.of \in Tenant /\ p.at = "rows" /\ p.step \in 1..9
      /\ Deletion!PurgeOrder[p.step] = "sessions" /\ p.persons \subseteq p.left
      /\ purge \in [Retrier -> PurgeType] /\ (p.step # 9 => p.persons = {})
  BY PurgeRecords DEF DeletionInv, Deletion!DeleteRegistration, Deletion!At, PurgeType, PurgeTypes
<1>2. p.step = 4 /\ p.step + 1 = 5 /\ p.persons = {}
  BY <1>1, StepOf
<1>3. purge' = [purge EXCEPT ![g] = q]
  BY <1>0, <1>1, <1>2 DEF Deletion!DeleteRegistration, Deletion!Step, Unregisters
<1>4. UNCHANGED <<business, rows, user, member, registry, live, opened, turn, proof, blamed, crossed>>
  BY DEF Deletion!DeleteRegistration
<1>5. /\ q \in PurgeType /\ q.at = "rows" /\ q.of = p.of /\ q.warned = p.warned /\ q.gone = p.gone
      /\ q.step = 5 /\ q.left = p.left /\ q.persons = {} /\ q.unregistered = b
  <2>1. 5 \in 1..9
    OBVIOUS
  <2>2. p \in PurgeType
    BY <1>1
  <2> HIDE DEF p
  <2>3. /\ Unregisters(p, b, 5) \in PurgeType /\ Unregisters(p, b, 5).at = p.at
        /\ Unregisters(p, b, 5).of = p.of /\ Unregisters(p, b, 5).warned = p.warned
        /\ Unregisters(p, b, 5).step = 5 /\ Unregisters(p, b, 5).gone = p.gone
    BY <2>1, <2>2, UnregistersType
  <2>4. Unregisters(p, b, 5).unregistered = b
    BY <2>1, <2>2, UnregistersType
  <2>5. Unregisters(p, b, 5).left = p.left /\ Unregisters(p, b, 5).persons = p.persons
    BY <2>1, <2>2, UnregistersType
  <2> QED BY <1>1, <1>2, <2>3, <2>4, <2>5
<1>6. Deletion!PurgeOrder[p.step] \notin Deletion!Table
  BY <1>1 DEF Deletion!Table
<1> HIDE DEF q
<1>7. Smooth(g) =>
         LET t == purge[g].of
         IN  /\ q.step > 4 => (q.unregistered <=> registry[t] # 0)
             /\ q.step > 7 => q.left = {c \in Customer : <<c, t>> \in member}
             /\ q.step > 8 =>
                  q.persons = {c \in q.left : \A s \in Tenant \ {t} : <<c, s>> \notin member}
  <2>1. q.unregistered <=> registry[purge[g].of] # 0
    BY <1>0, <1>5
  <2> QED BY <1>5, <2>1
<1> QED BY <1>1, <1>2, <1>3, <1>4, <1>5, <1>6, <1>7, OtherStatement

LEMMA MembershipsKept ==
  ASSUME DeletionInv, NEW g \in Retrier, Deletion!DeleteMemberships(g)
  PROVE  DeletionInv'
<1> DEFINE p == purge[g]
           l == {c \in Customer : <<c, p.of>> \in member}
           q == Leaving(p, l, 8)
<1>1. /\ p \in PurgeType /\ p.of \in Tenant /\ p.at = "rows" /\ p.step \in 1..9
      /\ Deletion!PurgeOrder[p.step] = "memberships"
      /\ purge \in [Retrier -> PurgeType] /\ (p.step # 9 => p.persons = {})
  BY PurgeRecords DEF DeletionInv, Deletion!DeleteMemberships, Deletion!At, PurgeType, PurgeTypes
<1>2. p.step = 7 /\ p.step + 1 = 8 /\ p.persons = {}
  BY <1>1, StepOf
<1>3. purge' = [purge EXCEPT ![g] = q]
  BY <1>1, <1>2 DEF Deletion!DeleteMemberships, Deletion!Step, Deletion!MembersOf, Leaving
<1>4. UNCHANGED <<business, rows, user, member, registry, live, opened, turn, proof, blamed, crossed>>
  BY DEF Deletion!DeleteMemberships
<1>5. /\ q \in PurgeType /\ q.at = "rows" /\ q.of = p.of /\ q.warned = p.warned /\ q.gone = p.gone
      /\ q.step = 8 /\ q.left = l /\ q.persons = {} /\ q.unregistered = p.unregistered
  <2>1. l \in SUBSET Customer /\ 8 \in 1..9
    OBVIOUS
  <2> HIDE DEF p, l
  <2>2. /\ Leaving(p, l, 8) \in PurgeType /\ Leaving(p, l, 8).left = l
        /\ Leaving(p, l, 8).step = 8 /\ Leaving(p, l, 8).at = p.at
        /\ Leaving(p, l, 8).of = p.of /\ Leaving(p, l, 8).warned = p.warned
        /\ Leaving(p, l, 8).unregistered = p.unregistered /\ Leaving(p, l, 8).gone = p.gone
        /\ Leaving(p, l, 8).persons = p.persons
    BY <1>1, <2>1, LeavingType
  <2> QED BY <1>1, <1>2, <2>2
<1>6. Deletion!PurgeOrder[p.step] \notin Deletion!Table
  BY <1>1 DEF Deletion!Table
<1> HIDE DEF q
<1>7. Smooth(g) => (q.unregistered <=> registry[p.of] # 0)
  BY <1>1, <1>2, <1>5 DEF DeletionInv, PurgeSees
<1>8. Smooth(g) =>
         LET t == purge[g].of
         IN  /\ q.step > 4 => (q.unregistered <=> registry[t] # 0)
             /\ q.step > 7 => q.left = {c \in Customer : <<c, t>> \in member}
             /\ q.step > 8 =>
                  q.persons = {c \in q.left : \A s \in Tenant \ {t} : <<c, s>> \notin member}
  BY <1>5, <1>7
<1> QED BY <1>1, <1>2, <1>3, <1>4, <1>5, <1>6, <1>8, OtherStatement

LEMMA UsersKept ==
  ASSUME DeletionInv, NEW g \in Retrier, Deletion!DeleteUsers(g)
  PROVE  DeletionInv'
<1> DEFINE p == purge[g]
           o == {c \in p.left : \A s \in Tenant \ {p.of} : <<c, s>> \notin member}
           q == Removing(p, o, 9)
<1>1. /\ p \in PurgeType /\ p.of \in Tenant /\ p.at = "rows" /\ p.step \in 1..9
      /\ Deletion!PurgeOrder[p.step] = "users" /\ p.left \subseteq Customer
      /\ purge \in [Retrier -> PurgeType]
  BY PurgeRecords DEF DeletionInv, Deletion!DeleteUsers, Deletion!At, PurgeType, PurgeTypes
<1>2. p.step = 8 /\ p.step + 1 = 9
  BY <1>1, StepOf
<1>3. purge' = [purge EXCEPT ![g] = q]
  BY <1>1, <1>2 DEF Deletion!DeleteUsers, Deletion!Step, Deletion!Orphans, Removing
<1>4. UNCHANGED <<business, rows, user, member, registry, live, opened, turn, proof, blamed, crossed>>
  BY DEF Deletion!DeleteUsers
<1>5. /\ q \in PurgeType /\ q.at = "rows" /\ q.of = p.of /\ q.warned = p.warned /\ q.gone = p.gone
      /\ q.step = 9 /\ q.left = p.left /\ q.persons = o /\ q.unregistered = p.unregistered
  <2>1. o \in SUBSET Customer /\ 9 \in 1..9
    BY <1>1
  <2> QED BY <1>1, <2>1, RemovingType
<1>6. Deletion!PurgeOrder[p.step] \notin Deletion!Table
  BY <1>1 DEF Deletion!Table
<1> HIDE DEF q
<1>7. Smooth(g) => /\ q.unregistered <=> registry[p.of] # 0
                   /\ q.left = {c \in Customer : <<c, p.of>> \in member}
  BY <1>1, <1>2, <1>5 DEF DeletionInv, PurgeSees
<1>8. Smooth(g) =>
         LET t == purge[g].of
         IN  /\ q.step > 4 => (q.unregistered <=> registry[t] # 0)
             /\ q.step > 7 => q.left = {c \in Customer : <<c, t>> \in member}
             /\ q.step > 8 =>
                  q.persons = {c \in q.left : \A s \in Tenant \ {t} : <<c, s>> \notin member}
  BY <1>5, <1>7
<1>9. \A c \in q.persons : \A t \in Tenant : t # purge[g].of => <<c, t>> \notin member
  BY <1>5
<1>10. q.persons \subseteq q.left /\ q.step = purge[g].step + 1
  BY <1>2, <1>5
<1> QED BY <1>1, <1>3, <1>4, <1>5, <1>6, <1>8, <1>9, <1>10, OtherStatement
-------------------------------------------------------------------------------
LEMMA TableKept ==
  ASSUME DeletionInv, NEW g \in Retrier, Deletion!DeleteTable(g)
  PROVE  DeletionInv'
<1> DEFINE p == purge[g]
<1>1. PICK x \in Deletion!Table :
        /\ Deletion!At(g, x)
        /\ IF Deletion!Seen(g, x) # {} /\ Deletion!ReferredTo(g, x) THEN Deletion!RollBack(g, TRUE)
           ELSE /\ Deletion!Step(g, [purge[g] EXCEPT !.gone = @ \cup Deletion!Seen(g, x)])
                /\ UNCHANGED <<business, rows, user, member, registry, live, opened, turn, proof,
                               inputs, blamed, crossed>>
  BY DEF Deletion!DeleteTable
<1>2. /\ p \in PurgeType /\ p.of \in Tenant /\ p.at = "rows" /\ p.step \in 1..9
      /\ Deletion!PurgeOrder[p.step] = x /\ p.persons \subseteq p.left
      /\ purge \in [Retrier -> PurgeType] /\ (p.step # 9 => p.persons = {})
      /\ rows[p.of] \subseteq Deletion!Table \X Deletion!Age
      /\ p.gone \subseteq Deletion!Table \X Deletion!Age
  BY <1>1, PurgeRecords DEF DeletionInv, Deletion!At, PurgeType, PurgeTypes
<1>3. p.step \in {1, 2, 3, 5, 6} /\ p.persons = {}
  BY <1>2, StepOf
<1>4. CASE Deletion!Seen(g, x) # {} /\ Deletion!ReferredTo(g, x)
  <2>1. Deletion!RollBack(g, TRUE)
    BY <1>1, <1>4
  <2>2. ~Smooth(g)
    <3>1. PICK r \in Deletion!RefersTo : r[2] = x /\ Deletion!Seen(g, r[1]) # {}
      BY <1>4 DEF Deletion!ReferredTo
    <3>2. \/ r[1] = "payments" /\ x = "sales"
          \/ r[1] = "jobs" /\ x = "connectors"
      BY <3>1 DEF Deletion!RefersTo
    <3>3. \/ r[1] = Deletion!PurgeOrder[1] /\ 1 < p.step
          \/ r[1] = Deletion!PurgeOrder[5] /\ 5 < p.step
      BY <1>2, <3>2, StepOf, OrderFacts
    <3>4. PICK d \in rows[p.of] \ p.gone : d[1] = r[1]
      BY <3>1 DEF Deletion!Seen
    <3> QED BY <1>2, <3>3, <3>4 DEF DeletionInv, PurgeSees
  <2>3. purge[g].of \in crossed
    BY <1>2, <2>2 DEF Smooth
  <2>4. purge[g].at # "idle"
    BY <1>2
  <2> QED BY <2>1, <2>3, <2>4, RollBackKept
<1>5. CASE ~(Deletion!Seen(g, x) # {} /\ Deletion!ReferredTo(g, x))
  <2> DEFINE r == p.gone \cup Deletion!Seen(g, x)
             k == p.step + 1
             q == Emptying(p, r, k)
  <2>1. /\ Deletion!Step(g, [purge[g] EXCEPT !.gone = @ \cup Deletion!Seen(g, x)])
        /\ UNCHANGED <<business, rows, user, member, registry, live, opened, turn, proof, blamed, crossed>>
    BY <1>1, <1>5
  <2>2. purge' = [purge EXCEPT ![g] = q]
    BY <1>2, <2>1 DEF Deletion!Step, Emptying, PurgeType
  <2>3. r \in SUBSET (Deletion!Table \X Deletion!Age) /\ k \in 1..9 /\ p \in PurgeType
    <3>1. Deletion!Seen(g, x) \subseteq rows[p.of]
      BY DEF Deletion!Seen
    <3> QED BY <1>2, <1>3, <3>1
  <2>4. /\ q \in PurgeType /\ q.gone = r /\ q.step = k /\ q.at = p.at /\ q.of = p.of
        /\ q.warned = p.warned /\ q.unregistered = p.unregistered /\ q.left = p.left
        /\ q.persons = p.persons
    <3> HIDE DEF p, r, k
    <3> QED BY <2>3, EmptyingType
  <2> HIDE DEF q
  <2>5. \A i \in 1..9 : i < q.step => (i < p.step \/ i = p.step)
    BY <1>2, <2>4
  <2>6. Smooth(g) => \A i \in 1..9 : i < q.step =>
          \A d \in rows[p.of] : d[1] = Deletion!PurgeOrder[i] => d \in q.gone
    <3> SUFFICES ASSUME Smooth(g), NEW i \in 1..9, i < q.step,
                        NEW d \in rows[p.of], d[1] = Deletion!PurgeOrder[i]
                 PROVE  d \in r
      BY <2>4
    <3>1. CASE i < p.step
      BY <1>2, <3>1 DEF DeletionInv, PurgeSees
    <3>2. CASE i = p.step
      BY <1>2, <3>2 DEF Deletion!Seen
    <3> QED BY <2>5, <3>1, <3>2
  <2>7. Smooth(g) /\ q.step > 4 => (q.unregistered <=> registry[p.of] # 0)
    <3>1. q.step > 4 => p.step > 4 \/ p.step = 4
      BY <1>2, <2>4
    <3> QED BY <1>2, <1>3, <2>4, <3>1 DEF DeletionInv, PurgeSees
  <2>8. ~(q.step > 7) /\ ~(q.step > 8) /\ q.step # 9 /\ q.step = purge[g].step + 1
    BY <1>2, <1>3, <2>4
  <2>9. Smooth(g) =>
          LET t == purge[g].of
          IN  /\ \A i \in 1..9 : i < q.step =>
                   \A d \in rows[t] : d[1] = Deletion!PurgeOrder[i] => d \in q.gone
              /\ q.step > 4 => (q.unregistered <=> registry[t] # 0)
              /\ q.step > 7 => q.left = {c \in Customer : <<c, t>> \in member}
              /\ q.step > 8 =>
                   q.persons = {c \in q.left : \A s \in Tenant \ {t} : <<c, s>> \notin member}
    BY <2>6, <2>7, <2>8
  <2>10. /\ q.at = "rows" /\ q.of = purge[g].of /\ q.warned = purge[g].warned
         /\ q.persons = {} /\ purge[g].at = "rows"
    BY <1>2, <1>3, <2>4
  <2> HIDE DEF p, r, k
  <2>11. /\ q.persons \subseteq q.left
         /\ \A c \in q.persons : \A t \in Tenant : t # purge[g].of => <<c, t>> \notin member
    BY <2>10
  <2>12. /\ UNCHANGED <<business, rows, user, member, registry, live, opened, turn, proof,
                        blamed, crossed>>
         /\ q.step # 9 => q.persons = {}
    BY <2>1, <2>10
  <2> QED BY <2>2, <2>4, <2>8, <2>9, <2>10, <2>11, <2>12, StatementKept
<1> QED BY <1>4, <1>5
-------------------------------------------------------------------------------
\* The last statement finds nothing a purge alone could have left, but rows of a table
\* that is not on its list.
LEMMA OnlyUnlistedStay ==
  ASSUME DeletionInv, NEW g \in Retrier, Smooth(g), purge[g].at = "rows", purge[g].step = 9,
         Deletion!Dangling(g)
  PROVE  rows[purge[g].of] \cap (Deletion!Unlisted \X Deletion!Age) # {}
<1> DEFINE p == purge[g]
           t == purge[g].of
<1>1. /\ t \in Tenant /\ rows[t] \subseteq Deletion!Table \X Deletion!Age
  BY PurgeRecords DEF DeletionInv, PurgeTypes
<1>2. /\ \A i \in 1..9 : i < 9 => \A r \in rows[t] : r[1] = Deletion!PurgeOrder[i] => r \in p.gone
      /\ p.unregistered <=> registry[t] # 0
      /\ p.left = {c \in Customer : <<c, t>> \in member}
  BY DEF DeletionInv, PurgeSees
<1>3. rows[t] \ p.gone # {}
  BY <1>2 DEF Deletion!Dangling, Deletion!MembersOf
<1>4. PICK r \in rows[t] : r \notin p.gone
  BY <1>3
<1>5. r \in Deletion!Table \X Deletion!Age /\ r = <<r[1], r[2]>>
  BY <1>1, <1>4
<1>6. r[1] # "payments" /\ r[1] # "sales" /\ r[1] # "logs" /\ r[1] # "jobs" /\ r[1] # "connectors"
  BY <1>2, <1>4, OrderFacts
<1>7. r[1] = "parties" /\ r[2] \in Deletion!Age
  BY <1>5, <1>6 DEF Deletion!Table
<1>8. r \in Deletion!Unlisted \X Deletion!Age
  BY <1>5, <1>7 DEF Deletion!Unlisted
<1> QED BY <1>4, <1>8

LEMMA BusinessKept ==
  ASSUME DeletionInv, NEW g \in Retrier, Deletion!DeleteBusiness(g)
  PROVE  DeletionInv'
<1> DEFINE p == purge[g]
           t == purge[g].of
<1>1. /\ p \in PurgeType /\ t \in Tenant /\ p.at = "rows" /\ p.step \in 1..9 /\ p.at # "idle"
      /\ Deletion!PurgeOrder[p.step] = "tenants" /\ p.persons \subseteq p.left
      /\ PurgeTypes
  BY PurgeRecords DEF DeletionInv, Deletion!DeleteBusiness, Deletion!At, PurgeType, PurgeTypes
<1>2. p.step = 9
  BY <1>1, StepOf
<1>3. CASE t \in business /\ Deletion!Dangling(g)
  <2>1. Deletion!RollBack(g, rows[t] \cap (Deletion!Unlisted \X Deletion!Age) = {})
    BY <1>3 DEF Deletion!DeleteBusiness
  <2>2. rows[t] \cap (Deletion!Unlisted \X Deletion!Age) = {} => t \in crossed
    BY <1>1, <1>2, <1>3, OnlyUnlistedStay DEF Smooth
  <2> QED BY <1>1, <2>1, <2>2, RollBackKept
<1>4. CASE ~(t \in business /\ Deletion!Dangling(g))
  <2>1. /\ business' = business \ {t}
        /\ rows' = [rows EXCEPT ![t] = rows[t] \ p.gone]
        /\ member' = {m \in member : ~(m[2] = t /\ m[1] \in p.left)}
        /\ user' = user \ p.persons
        /\ registry' = IF p.unregistered THEN [registry EXCEPT ![t] = 0] ELSE registry
        /\ purge' = [purge EXCEPT ![g].at = "proof"]
        /\ UNCHANGED <<live, opened, turn, proof, blamed, crossed>>
    BY <1>4 DEF Deletion!DeleteBusiness
  <2>2. /\ purge' \in [Retrier -> PurgeType] /\ purge'[g].at = "proof" /\ purge'[g].of = t
        /\ purge'[g].warned = p.warned /\ purge'[g].persons = p.persons /\ purge'[g].left = p.left
        /\ purge'[g].step = 9
        /\ \A h \in Retrier : h # g => purge'[h] = purge[h]
    BY <1>1, <1>2, <2>1 DEF PurgeTypes, PurgeType
  <2>3. \A h \in Retrier : (Smooth(h)' <=> Smooth(h)) /\ purge'[h].of = purge[h].of
    BY <1>1, <2>1, <2>2 DEF Smooth
  <2>4. \A h \in Retrier : Smooth(h)' => h = g
    BY <1>1, <2>3 DEF DeletionInv, PurgeAlone
  <2>5. /\ registry' \in [Tenant -> 0..2]
        /\ \A s \in Tenant : registry'[s] = registry[s] \/ (s = t /\ registry'[s] = 0)
        /\ rows' \in [Tenant -> SUBSET (Deletion!Table \X Deletion!Age)]
        /\ rows'[t] = rows[t] \ p.gone
        /\ \A s \in Tenant : s # t => rows'[s] = rows[s]
    BY <1>1, <2>1 DEF PurgeTypes
  <2>6. PurgeTypes'
    <3>1. \A h \in Retrier : /\ purge'[h].at # "idle" => purge'[h].of \in Tenant
                             /\ purge'[h].persons \subseteq purge'[h].left
                             /\ purge'[h].step # 9 => purge'[h].persons = {}
      BY <1>1, <2>2 DEF PurgeTypes
    <3> QED BY <1>1, <2>1, <2>2, <2>5, <3>1 DEF PurgeTypes
  <2>7. PurgeAlone'
    <3>1. ASSUME Smooth(g)'
          PROVE  /\ \A h \in Retrier : purge'[h].at # "idle" => h = g
                 /\ ~(turn'[n1].at # "idle" /\ turn'[n1].of = purge'[g].of)
      BY <3>1, <2>1, <2>2, <2>3 DEF DeletionInv, PurgeAlone
    <3> QED BY <2>2, <2>4, <3>1 DEF PurgeAlone
  <2>8. PurgeSees'
    BY <2>2, <2>4 DEF PurgeSees
  <2>9. PersonsFree'
    BY <2>1, <2>2 DEF DeletionInv, PersonsFree
  <2>10. ProofFollows'
    <3>1. ASSUME NEW h \in Retrier, purge'[h].at = "proof" PROVE purge'[h].of \notin business'
      BY <3>1, <2>1, <2>2 DEF DeletionInv, ProofFollows
    <3>2. ASSUME NEW s \in Tenant, s \notin business', s \notin crossed'
          PROVE  \/ \E h \in Retrier : purge'[h].at = "proof" /\ purge'[h].of = s
                 \/ <<s, TRUE>> \in proof' \/ <<s, FALSE>> \in proof'
      <4>1. CASE s = t
        BY <2>2, <4>1
      <4>2. CASE s # t
        <5>1. \/ \E h \in Retrier : purge[h].at = "proof" /\ purge[h].of = s
              \/ <<s, TRUE>> \in proof \/ <<s, FALSE>> \in proof
          BY <3>2, <4>2, <2>1 DEF DeletionInv, ProofFollows
        <5>2. \A h \in Retrier : purge[h].at = "proof" => purge'[h] = purge[h]
          BY <1>1, <2>2
        <5> QED BY <5>1, <5>2, <2>1
      <4> QED BY <4>1, <4>2
    <3> QED BY <3>1, <3>2 DEF ProofFollows
  <2>11. SessionsKnown'
    <3>1. \A s \in Tenant : registry'[s] <= opened'[s]
      BY <1>1, <2>1, <2>5 DEF DeletionInv, SessionsKnown, PurgeTypes
    <3>2. ASSUME turn[n1].at # "idle", turn[n1].of \notin crossed
          PROVE  turn[n1].of \in business' /\ <<registry'[turn[n1].of], turn[n1].of>> \notin live
      <4>1. turn[n1].of # t
        BY <1>1, <3>2 DEF DeletionInv, PurgeAlone, Smooth
      <4>2. turn[n1].of \in Tenant
        BY <1>1, <3>2 DEF PurgeTypes
      <4> QED BY <3>2, <4>1, <4>2, <2>1, <2>5 DEF DeletionInv, SessionsKnown
    <3>3. ASSUME NEW s \in live, s[2] \in business', s[2] \notin crossed
          PROVE  \/ s[1] = registry'[s[2]]
                 \/ turn[n1].at = "register" /\ turn[n1].of = s[2] /\ turn[n1].session = s[1]
      <4>1. s[2] # t /\ s[2] \in business /\ s[2] \in Tenant
        BY <1>1, <3>3, <2>1 DEF PurgeTypes
      <4> QED BY <3>3, <4>1, <2>5 DEF DeletionInv, SessionsKnown
    <3>4. ASSUME Smooth(g)', ~purge'[g].warned
          PROVE  \A s \in live : s[2] # purge'[g].of
      BY <1>1, <3>4, <2>2, <2>3 DEF DeletionInv, SessionsKnown
    <3>5. turn' = turn /\ live' = live /\ crossed' = crossed /\ opened' = opened
      BY <2>1
    <3>6. \A h \in Retrier : Smooth(h)' =>
            /\ purge'[h].at = "sessions" => purge'[h].sessions = {registry'[purge'[h].of]} \ {0}
            /\ purge'[h].at # "sessions" /\ ~purge'[h].warned => \A s \in live' : s[2] # purge'[h].of
      BY <2>2, <2>4, <3>4, <3>5
    <3>7. turn[n1].at # "idle" => turn[n1].session <= opened[turn[n1].of]
      BY DEF DeletionInv, SessionsKnown
    <3> QED BY <3>1, <3>2, <3>3, <3>5, <3>6, <3>7 DEF SessionsKnown
  <2>12. Deletion!NothingLeft'
    <3>1. /\ rows[t] \ p.gone = {}
          /\ \A c \in Customer : <<c, t>> \in member => c \in p.left
          /\ registry[t] # 0 => p.unregistered
      <4>1. CASE t \in business
        BY <1>4, <4>1 DEF Deletion!Dangling, Deletion!MembersOf
      <4>2. CASE t \notin business
        BY <1>1, <4>2 DEF DeletionInv, Deletion!NothingLeft, Deletion!MembersOf
      <4> QED BY <4>1, <4>2
    <3>2. registry'[t] = 0 /\ rows'[t] = {} /\ \A c \in Customer : <<c, t>> \notin member'
      BY <3>1, <1>1, <2>1, <2>5 DEF PurgeTypes
    <3>3. ASSUME NEW s \in Tenant \ business', s # t
          PROVE  rows'[s] = {} /\ (\A c \in Customer : <<c, s>> \notin member') /\ registry'[s] = 0
      <4>1. s \in Tenant \ business
        BY <3>3, <2>1
      <4>2. rows[s] = {} /\ (\A c \in Customer : <<c, s>> \notin member) /\ registry[s] = 0
        BY <4>1 DEF DeletionInv, Deletion!NothingLeft, Deletion!MembersOf
      <4> QED BY <3>3, <4>2, <2>1, <2>5
    <3>4. \A d \in proof : d[1] \notin business'
      BY <2>1 DEF DeletionInv, Deletion!NothingLeft
    <3> QED BY <2>1, <3>2, <3>3, <3>4 DEF Deletion!NothingLeft, Deletion!MembersOf
  <2>13. Deletion!GoesThrough'
    BY <2>1 DEF DeletionInv, Deletion!GoesThrough
  <2>14. Deletion!OrphansLeave'
    <3>1. ASSUME NEW m \in member' PROVE m[1] \in user'
      <4>1. m \in member /\ m[2] \in Tenant /\ m = <<m[1], m[2]>> /\ ~(m[2] = t /\ m[1] \in p.left)
        BY <1>1, <2>1 DEF PurgeTypes
      <4>2. m[1] \notin p.persons
        BY <1>1, <4>1 DEF DeletionInv, PersonsFree
      <4> QED BY <4>1, <4>2, <2>1 DEF DeletionInv, Deletion!OrphansLeave
    <3>2. ASSUME NEW c \in user', \A s \in Tenant : <<c, s>> \notin member', crossed = {}
          PROVE  FALSE
      <4>1. Smooth(g) /\ c \in user /\ c \notin p.persons /\ c \in Customer
        BY <1>1, <3>2, <2>1 DEF Smooth, PurgeTypes
      <4>2. \A s \in Tenant \ {t} : <<c, s>> \notin member
        BY <3>2, <2>1
      <4>3. <<c, t>> \in member
        BY <4>1, <4>2, <3>2 DEF DeletionInv, Deletion!OrphansLeave
      <4>4. /\ p.left = {d \in Customer : <<d, t>> \in member}
            /\ p.persons = {d \in p.left : \A s \in Tenant \ {t} : <<d, s>> \notin member}
        BY <1>1, <1>2, <4>1 DEF DeletionInv, PurgeSees
      <4> QED BY <4>1, <4>2, <4>3, <4>4
    <3> QED BY <3>1, <3>2, <2>1 DEF Deletion!OrphansLeave
  <2>15. Deletion!SessionsGone'
    BY <2>1 DEF DeletionInv, Deletion!SessionsGone
  <2> QED BY <2>6, <2>7, <2>8, <2>9, <2>10, <2>11, <2>12, <2>13, <2>14, <2>15 DEF DeletionInv
<1> QED BY <1>3, <1>4
-------------------------------------------------------------------------------
LEMMA ProveKept ==
  ASSUME DeletionInv, NEW g \in Retrier, Deletion!Prove(g)
  PROVE  DeletionInv'
<1> DEFINE t == purge[g].of
           w == purge[g].warned
<1>1. /\ PurgeTypes /\ t \in Tenant /\ w \in BOOLEAN /\ purge[g].at = "proof"
      /\ purge' = [purge EXCEPT ![g] = Deletion!NoPurge]
      /\ proof' = proof \cup {<<t, w>>}
      /\ UNCHANGED <<business, rows, user, member, registry, live, opened, turn, blamed, crossed>>
  BY PurgeRecords DEF DeletionInv, Deletion!Prove, PurgeType
<1>2. /\ purge' \in [Retrier -> PurgeType] /\ purge'[g] = Deletion!NoPurge
      /\ \A h \in Retrier : h # g => purge'[h] = purge[h]
  BY <1>1, PurgeFacts DEF PurgeTypes
<1>3. \A h \in Retrier : Smooth(h)' => h # g /\ Smooth(h) /\ purge'[h] = purge[h]
  BY <1>1, <1>2, PurgeFacts DEF Smooth
<1>4. PurgeTypes'
  <2>1. proof' \subseteq Tenant \X BOOLEAN
    BY <1>1 DEF PurgeTypes
  <2> QED BY <1>1, <1>2, <2>1, PurgeFacts DEF PurgeTypes
<1>5. PurgeAlone'
  BY <1>1, <1>2, <1>3, PurgeFacts DEF DeletionInv, PurgeAlone
<1>6. PurgeSees'
  BY <1>1, <1>3 DEF DeletionInv, PurgeSees
<1>7. PersonsFree'
  BY <1>1, <1>2, PurgeFacts DEF DeletionInv, PersonsFree
<1>8. t \notin business
  BY <1>1 DEF DeletionInv, ProofFollows
<1>9. ProofFollows'
  <2>1. \A h \in Retrier : purge'[h].at = "proof" => purge'[h].of \notin business
    BY <1>2, PurgeFacts DEF DeletionInv, ProofFollows
  <2>2. ASSUME NEW s \in Tenant, s \notin business, s \notin crossed
        PROVE  \/ \E h \in Retrier : purge'[h].at = "proof" /\ purge'[h].of = s
               \/ <<s, TRUE>> \in proof' \/ <<s, FALSE>> \in proof'
    <3>1. CASE s = t
      <4>1. w = TRUE \/ w = FALSE
        BY <1>1
      <4> QED BY <1>1, <3>1, <4>1
    <3>2. CASE s # t
      BY <2>2, <3>2, <1>1, <1>2 DEF DeletionInv, ProofFollows
    <3> QED BY <3>1, <3>2
  <2> QED BY <1>1, <2>1, <2>2 DEF ProofFollows
<1>10. SessionsKnown'
  <2>1. ASSUME NEW h \in Retrier, Smooth(h)'
        PROVE  /\ purge'[h].at = "sessions" => purge'[h].sessions = {registry[purge'[h].of]} \ {0}
               /\ purge'[h].at # "sessions" /\ ~purge'[h].warned => \A s \in live : s[2] # purge'[h].of
    BY <2>1, <1>3 DEF DeletionInv, SessionsKnown
  <2> QED BY <1>1, <2>1 DEF DeletionInv, SessionsKnown
<1>11. Deletion!NothingLeft'
  <2>1. \A d \in proof' : d[1] \notin business'
    BY <1>1, <1>8 DEF DeletionInv, Deletion!NothingLeft
  <2> QED BY <1>1, <2>1 DEF DeletionInv, Deletion!NothingLeft, Deletion!MembersOf
<1>12. Deletion!GoesThrough' /\ Deletion!OrphansLeave'
  BY <1>1 DEF DeletionInv, Deletion!GoesThrough, Deletion!OrphansLeave
<1>13. Deletion!SessionsGone'
  <2> SUFFICES ASSUME NEW s \in live, <<s[2], FALSE>> \in proof', s[2] \notin crossed PROVE FALSE
    BY <1>1 DEF Deletion!SessionsGone
  <2>1. <<s[2], FALSE>> \notin proof
    BY DEF DeletionInv, Deletion!SessionsGone
  <2>2. s[2] = t /\ ~w
    BY <1>1, <2>1
  <2>3. Smooth(g)
    BY <1>1, <2>2 DEF Smooth
  <2> QED BY <1>1, <2>2, <2>3 DEF DeletionInv, SessionsKnown
<1> QED BY <1>4, <1>5, <1>6, <1>7, <1>9, <1>10, <1>11, <1>12, <1>13 DEF DeletionInv

LEMMA DeleteSessionsKept ==
  ASSUME DeletionInv, NEW g \in Retrier, Deletion!DeleteSessions(g)
  PROVE  DeletionInv'
<1> DEFINE p == purge[g]
           t == purge[g].of
<1>1. /\ PurgeTypes /\ p \in PurgeType /\ t \in Tenant /\ p.at = "sessions" /\ p.step = 1
      /\ p.persons = {}
      /\ UNCHANGED <<business, rows, user, member, registry, opened, turn, proof, blamed, crossed>>
  BY PurgeRecords DEF DeletionInv, PurgeTypes, Deletion!DeleteSessions
<1>2. live' \subseteq live
  BY DEF Deletion!DeleteSessions
<1>3. /\ purge' \in [Retrier -> PurgeType] /\ purge'[g].at = "rows" /\ purge'[g].of = t
      /\ purge'[g].step = 1 /\ purge'[g].persons = {}
      /\ \A h \in Retrier : h # g => purge'[h] = purge[h]
      /\ \/ purge'[g].warned
         \/ live' = {s \in live : ~(s[2] = t /\ s[1] \in p.sessions)}
  BY <1>1 DEF Deletion!DeleteSessions, PurgeTypes, PurgeType
<1>4. \A h \in Retrier : /\ Smooth(h)' <=> Smooth(h)
                         /\ purge'[h].of = purge[h].of
                         /\ purge'[h].at = "proof" <=> purge[h].at = "proof"
                         /\ purge'[h].at = "idle" <=> purge[h].at = "idle"
  BY <1>1, <1>3 DEF Smooth
<1>5. PurgeTypes'
  <2>1. live' \subseteq (1..2) \X Tenant
    BY <1>1, <1>2 DEF PurgeTypes
  <2> QED BY <1>1, <1>3, <2>1 DEF PurgeTypes
<1>6. PurgeAlone'
  BY <1>1, <1>4 DEF DeletionInv, PurgeAlone
<1>7. PurgeSees'
  <2>1. ASSUME NEW h \in Retrier, Smooth(h)', purge'[h].at = "rows", h # g PROVE FALSE
    BY <2>1, <1>1, <1>4 DEF DeletionInv, PurgeAlone
  <2>2. ~(1 > 4) /\ ~(1 > 7) /\ ~(1 > 8) /\ \A i \in 1..9 : ~(i < 1)
    OBVIOUS
  <2> QED BY <1>3, <2>1, <2>2 DEF PurgeSees
<1>8. PersonsFree'
  BY <1>1, <1>3 DEF DeletionInv, PersonsFree
<1>9. ProofFollows'
  BY <1>1, <1>4 DEF DeletionInv, ProofFollows
<1>10. SessionsKnown'
  <2>1. ASSUME Smooth(g), ~purge'[g].warned, NEW s \in live', s[2] = t
        PROVE  FALSE
    <3>1. t \in business /\ t \notin crossed /\ ~(turn[n1].at # "idle" /\ turn[n1].of = t)
      BY <2>1, <1>1 DEF DeletionInv, PurgeAlone, Smooth
    <3>2. s \in live /\ s[1] \in 1..2
      BY <1>1, <1>2, <2>1 DEF PurgeTypes
    <3>3. s[1] = registry[t]
      BY <2>1, <3>1, <3>2 DEF DeletionInv, SessionsKnown
    <3>4. p.sessions = {registry[t]} \ {0}
      BY <1>1, <2>1 DEF DeletionInv, SessionsKnown
    <3> QED BY <2>1, <1>3, <3>2, <3>3, <3>4
  <2>2. \A h \in Retrier : Smooth(h)' =>
            /\ purge'[h].at = "sessions" => purge'[h].sessions = {registry'[purge'[h].of]} \ {0}
            /\ purge'[h].at # "sessions" /\ ~purge'[h].warned => \A s \in live' : s[2] # purge'[h].of
    <3> SUFFICES ASSUME NEW h \in Retrier, Smooth(h)'
                 PROVE  /\ purge'[h].at = "sessions" => purge'[h].sessions = {registry'[purge'[h].of]} \ {0}
                        /\ purge'[h].at # "sessions" /\ ~purge'[h].warned => \A s \in live' : s[2] # purge'[h].of
      OBVIOUS
    <3>1. CASE h = g
      BY <3>1, <1>3, <1>4, <2>1
    <3>2. CASE h # g
      BY <3>2, <1>1, <1>4 DEF DeletionInv, PurgeAlone
    <3> QED BY <3>1, <3>2
  <2>3. \A s \in live' : s[2] \in business' /\ s[2] \notin crossed' =>
          \/ s[1] = registry'[s[2]]
          \/ turn'[n1].at = "register" /\ turn'[n1].of = s[2] /\ turn'[n1].session = s[1]
    BY <1>1, <1>2 DEF DeletionInv, SessionsKnown
  <2>4. /\ \A s \in Tenant : registry'[s] <= opened'[s]
        /\ turn'[n1].at # "idle" => turn'[n1].session <= opened'[turn'[n1].of]
        /\ turn'[n1].at # "idle" /\ turn'[n1].of \notin crossed' =>
             turn'[n1].of \in business' /\ <<registry'[turn'[n1].of], turn'[n1].of>> \notin live'
    BY <1>1, <1>2 DEF DeletionInv, SessionsKnown
  <2> QED BY <2>2, <2>3, <2>4 DEF SessionsKnown
<1>11. Deletion!NothingLeft'
  BY <1>1 DEF DeletionInv, Deletion!NothingLeft, Deletion!MembersOf
<1>12. Deletion!GoesThrough' /\ Deletion!OrphansLeave' /\ Deletion!SessionsGone'
  BY <1>1, <1>2 DEF DeletionInv, Deletion!GoesThrough, Deletion!OrphansLeave, Deletion!SessionsGone
<1> QED BY <1>5, <1>6, <1>7, <1>8, <1>9, <1>10, <1>11, <1>12 DEF DeletionInv

\* The record of a purge that begins.
Opening(p, t, c) == [p EXCEPT !.at = "sessions", !.of = t, !.sessions = c]

LEMMA OpeningType ==
  ASSUME NEW p \in PurgeType, NEW t \in Tenant, NEW c \in SUBSET (1..2)
  PROVE  /\ Opening(p, t, c) \in PurgeType /\ Opening(p, t, c).at = "sessions"
         /\ Opening(p, t, c).of = t /\ Opening(p, t, c).step = p.step
         /\ Opening(p, t, c).persons = p.persons /\ Opening(p, t, c).left = p.left
         /\ Opening(p, t, c).sessions = c
BY DEF Opening, PurgeType

LEMMA BeginKept ==
  ASSUME DeletionInv, NEW g \in Retrier, NEW t \in Tenant, Deletion!Begin(g, t)
  PROVE  DeletionInv'
<1>1. /\ PurgeTypes /\ purge[g].at = "idle" /\ <<t, TRUE>> \notin proof /\ <<t, FALSE>> \notin proof
      /\ purge' = [purge EXCEPT ![g] = [Deletion!NoPurge EXCEPT !.at = "sessions", !.of = t,
                                                               !.sessions = Deletion!Captured(t)]]
      /\ UNCHANGED <<business, rows, user, member, registry, live, opened, turn, proof, blamed>>
  BY DEF DeletionInv, Deletion!Begin
<1>2. /\ crossed \subseteq crossed' /\ crossed' \subseteq Tenant
      /\ turn[n1].at # "idle" /\ turn[n1].of = t => t \in crossed'
      /\ \A h \in Retrier : purge[h].at # "idle" => t \in crossed' /\ purge[h].of \in crossed'
  <2>1. crossed' = (IF \E u \in {n1} : turn[u].at # "idle" /\ turn[u].of = t THEN {t} ELSE {})
                  \cup (IF \E h \in Retrier : purge[h].at # "idle"
                        THEN {t} \cup {purge[h].of : h \in {k \in Retrier : purge[k].at # "idle"}} ELSE {})
                  \cup crossed
    BY DEF Deletion!Begin
  <2>2. \A h \in {k \in Retrier : purge[k].at # "idle"} : purge[h].of \in Tenant
    BY <1>1 DEF PurgeTypes
  <2> QED BY <1>1, <2>1, <2>2 DEF PurgeTypes
<1>3. Deletion!Captured(t) = {registry[t]} \ {0} /\ Deletion!Captured(t) \in SUBSET (1..2)
  BY <1>1 DEF Deletion!Captured, PurgeTypes
<1>4. /\ purge' \in [Retrier -> PurgeType] /\ purge'[g].at = "sessions" /\ purge'[g].of = t
      /\ purge'[g].step = 1 /\ purge'[g].persons = {} /\ purge'[g].left = {}
      /\ purge'[g].sessions = {registry[t]} \ {0}
      /\ \A h \in Retrier : h # g => purge'[h] = purge[h]
  <2> DEFINE q == Opening(Deletion!NoPurge, t, Deletion!Captured(t))
  <2>1. purge' = [purge EXCEPT ![g] = q]
    BY <1>1 DEF Opening
  <2>2. /\ q \in PurgeType /\ q.at = "sessions" /\ q.of = t /\ q.step = 1 /\ q.persons = {}
        /\ q.left = {} /\ q.sessions = Deletion!Captured(t)
    BY <1>3, PurgeFacts, OpeningType
  <2> HIDE DEF q
  <2>3. purge'[g] = q /\ purge' \in [Retrier -> PurgeType] /\ \A h \in Retrier : h # g => purge'[h] = purge[h]
    BY <1>1, <2>1, <2>2 DEF PurgeTypes
  <2> QED BY <1>3, <2>2, <2>3
<1>5. \A h \in Retrier : Smooth(h)' => h = g
  BY <1>2, <1>4 DEF Smooth
<1>6. PurgeTypes'
  <2>1. \A h \in Retrier :
          /\ purge'[h].at # "idle" => purge'[h].of \in Tenant
          /\ purge'[h].persons \subseteq purge'[h].left
          /\ purge'[h].step # 9 => purge'[h].persons = {}
          /\ purge'[h].at = "sessions" => purge'[h].step = 1
    BY <1>1, <1>4 DEF PurgeTypes
  <2> QED BY <1>1, <1>2, <1>4, <2>1 DEF PurgeTypes
<1>7. PurgeAlone'
  <2> SUFFICES ASSUME Smooth(g)'
               PROVE  /\ \A h \in Retrier : purge'[h].at # "idle" => h = g
                      /\ ~(turn[n1].at # "idle" /\ turn[n1].of = t)
                      /\ t \in business
    BY <1>1, <1>4, <1>5 DEF PurgeAlone
  <2>1. t \notin crossed' /\ t \notin crossed
    BY <1>2, <1>4 DEF Smooth
  <2>2. \A h \in Retrier : purge[h].at = "idle"
    BY <1>2, <2>1
  <2>3. t \in business
    BY <1>1, <2>1, <2>2 DEF DeletionInv, ProofFollows
  <2> QED BY <1>2, <1>4, <2>1, <2>2, <2>3
<1>8. PurgeSees'
  BY <1>4, <1>5 DEF PurgeSees
<1>9. PersonsFree'
  BY <1>1, <1>4 DEF DeletionInv, PersonsFree
<1>10. ProofFollows'
  <2>1. \A h \in Retrier : purge'[h].at = "proof" => purge'[h].of \notin business
    BY <1>4 DEF DeletionInv, ProofFollows
  <2>2. \A h \in Retrier : purge[h].at = "proof" => purge'[h] = purge[h]
    BY <1>1, <1>4
  <2>3. ASSUME NEW s \in Tenant, s \notin business, s \notin crossed'
        PROVE  \/ \E h \in Retrier : purge'[h].at = "proof" /\ purge'[h].of = s
               \/ <<s, TRUE>> \in proof \/ <<s, FALSE>> \in proof
    BY <2>2, <2>3, <1>2 DEF DeletionInv, ProofFollows
  <2> QED BY <1>1, <2>1, <2>3 DEF ProofFollows
<1>11. SessionsKnown'
  BY <1>1, <1>2, <1>4, <1>5 DEF DeletionInv, SessionsKnown
<1>12. Deletion!NothingLeft'
  BY <1>1 DEF DeletionInv, Deletion!NothingLeft, Deletion!MembersOf
<1>13. Deletion!GoesThrough' /\ Deletion!OrphansLeave' /\ Deletion!SessionsGone'
  BY <1>1, <1>2 DEF DeletionInv, Deletion!GoesThrough, Deletion!OrphansLeave, Deletion!SessionsGone
<1> QED BY <1>6, <1>7, <1>8, <1>9, <1>10, <1>11, <1>12, <1>13 DEF DeletionInv
-------------------------------------------------------------------------------
(* The turns and the tool calls *)

\* What the other side does between two statements: it crosses the purge it meets.
LEMMA CrossedGrows ==
  ASSUME DeletionInv, NEW t \in Tenant, crossed' = Deletion!Crossing(t), purge' = purge
  PROVE  /\ crossed \subseteq crossed' /\ crossed' \subseteq Tenant
         /\ \A h \in Retrier : Smooth(h)' => Smooth(h) /\ purge[h].of # t
BY DEF DeletionInv, PurgeTypes, Deletion!Crossing, Deletion!Open, Smooth

LEMMA FindSessionKept ==
  ASSUME DeletionInv, NEW t \in Tenant, Deletion!FindSession(n1, t)
  PROVE  DeletionInv'
<1>1. /\ PurgeTypes /\ turn[n1].at = "idle" /\ t \in business /\ <<registry[t], t>> \notin live
      /\ turn' = [turn EXCEPT ![n1] = [at |-> "create", of |-> t, session |-> 0]]
      /\ UNCHANGED <<business, rows, user, member, registry, live, opened, purge, proof, blamed>>
  BY DEF DeletionInv, Deletion!FindSession
<1>2. crossed' = Deletion!Crossing(t)
  BY <1>1 DEF Deletion!FindSession
<1>3. /\ turn' \in [{n1} -> TurnType] /\ turn'[n1].at = "create" /\ turn'[n1].of = t
      /\ turn'[n1].session = 0
  BY <1>1 DEF PurgeTypes, TurnType
<1>4. /\ crossed \subseteq crossed' /\ crossed' \subseteq Tenant
      /\ \A h \in Retrier : Smooth(h)' => Smooth(h) /\ purge[h].of # t
  BY <1>1, <1>2, CrossedGrows
<1>5. PurgeTypes'
  BY <1>1, <1>3, <1>4 DEF PurgeTypes
<1>6. PurgeAlone'
  BY <1>1, <1>3, <1>4 DEF DeletionInv, PurgeAlone
<1>7. PurgeSees' /\ PersonsFree'
  BY <1>1, <1>4 DEF DeletionInv, PurgeSees, PersonsFree
<1>8. ProofFollows'
  BY <1>1, <1>4 DEF DeletionInv, ProofFollows
<1>9. SessionsKnown'
  <2>1. 0 <= opened[t]
    BY <1>1 DEF PurgeTypes
  <2> QED BY <1>1, <1>3, <1>4, <2>1 DEF DeletionInv, SessionsKnown
<1>10. Deletion!NothingLeft'
  BY <1>1 DEF DeletionInv, Deletion!NothingLeft, Deletion!MembersOf
<1>11. Deletion!GoesThrough' /\ Deletion!OrphansLeave' /\ Deletion!SessionsGone'
  BY <1>1, <1>4 DEF DeletionInv, Deletion!GoesThrough, Deletion!OrphansLeave, Deletion!SessionsGone
<1> QED BY <1>5, <1>6, <1>7, <1>8, <1>9, <1>10, <1>11 DEF DeletionInv

LEMMA CreateSessionKept ==
  ASSUME DeletionInv, Deletion!CreateSession(n1)
  PROVE  DeletionInv'
<1> DEFINE t == turn[n1].of
           k == opened[t] + 1
<1>1. /\ PurgeTypes /\ turn[n1].at = "create" /\ t \in Tenant /\ opened[t] < 2
      /\ opened' = [opened EXCEPT ![t] = @ + 1] /\ live' = live \cup {<<k, t>>}
      /\ turn' = [turn EXCEPT ![n1].at = "register", ![n1].session = k]
      /\ UNCHANGED <<business, rows, user, member, registry, purge, proof, blamed, crossed>>
  BY DEF DeletionInv, PurgeTypes, Deletion!CreateSession
<1>2. opened[t] \in Nat /\ k \in 1..2 /\ k \in 0..2 /\ ~(k <= opened[t]) /\ opened \in [Tenant -> 0..2]
  BY <1>1 DEF PurgeTypes
<1>3. /\ opened' \in [Tenant -> 0..2] /\ opened'[t] = k
      /\ \A s \in Tenant : s # t => opened'[s] = opened[s]
  BY <1>1, <1>2
<1>4. /\ turn' \in [{n1} -> TurnType] /\ turn'[n1].at = "register" /\ turn'[n1].of = t
      /\ turn'[n1].session = k
  BY <1>1, <1>2 DEF PurgeTypes, TurnType
<1>5. \A h \in Retrier : (Smooth(h)' <=> Smooth(h)) /\ (Smooth(h) => purge[h].of # t)
  BY <1>1 DEF Smooth, DeletionInv, PurgeAlone
<1> HIDE DEF k
<1>6. PurgeTypes'
  BY <1>1, <1>2, <1>3, <1>4 DEF PurgeTypes
<1>7. PurgeAlone'
  BY <1>1, <1>4, <1>5 DEF DeletionInv, PurgeAlone
<1>8. PurgeSees' /\ PersonsFree'
  BY <1>1, <1>5 DEF DeletionInv, PurgeSees, PersonsFree
<1>9. ProofFollows'
  BY <1>1 DEF DeletionInv, ProofFollows
<1>10. SessionsKnown'
  <2>1. \A s \in Tenant : registry[s] <= opened[s]
    BY DEF DeletionInv, SessionsKnown
  <2>2. \A s \in Tenant : registry[s] <= opened'[s]
    <3>1. registry[t] <= k
      BY <1>1, <1>2, <2>1 DEF PurgeTypes, k
    <3> QED BY <2>1, <3>1, <1>3
  <2>3. k <= opened'[t] /\ registry[t] # k
    BY <1>2, <1>3, <1>1, <2>1
  <2>4. t \notin crossed => t \in business /\ <<registry[t], t>> \notin live'
    BY <1>1, <2>3 DEF DeletionInv, SessionsKnown
  <2>5. \A s \in live' : s[2] \in business /\ s[2] \notin crossed =>
          \/ s[1] = registry[s[2]]
          \/ turn'[n1].at = "register" /\ turn'[n1].of = s[2] /\ turn'[n1].session = s[1]
    BY <1>1, <1>4 DEF DeletionInv, SessionsKnown
  <2>6. \A h \in Retrier : Smooth(h) =>
          /\ purge[h].at = "sessions" => purge[h].sessions = {registry[purge[h].of]} \ {0}
          /\ purge[h].at # "sessions" /\ ~purge[h].warned => \A s \in live' : s[2] # purge[h].of
    BY <1>1, <1>5 DEF DeletionInv, SessionsKnown
  <2> QED BY <1>1, <1>4, <1>5, <2>2, <2>3, <2>4, <2>5, <2>6 DEF SessionsKnown
<1>11. Deletion!NothingLeft'
  BY <1>1 DEF DeletionInv, Deletion!NothingLeft, Deletion!MembersOf
<1>12. Deletion!GoesThrough' /\ Deletion!OrphansLeave'
  BY <1>1 DEF DeletionInv, Deletion!GoesThrough, Deletion!OrphansLeave
<1>13. Deletion!SessionsGone'
  <2> SUFFICES ASSUME NEW s \in live', <<s[2], FALSE>> \in proof, s[2] \notin crossed PROVE FALSE
    BY <1>1 DEF Deletion!SessionsGone
  <2>1. s \in live => FALSE
    BY DEF DeletionInv, Deletion!SessionsGone
  <2>2. s[2] = t
    BY <1>1, <2>1
  <2>3. t \in business
    BY <1>1, <2>2 DEF DeletionInv, SessionsKnown
  <2> QED BY <2>2, <2>3 DEF DeletionInv, Deletion!NothingLeft
<1> QED BY <1>6, <1>7, <1>8, <1>9, <1>10, <1>11, <1>12, <1>13 DEF DeletionInv

LEMMA RegisterSessionKept ==
  ASSUME DeletionInv, Deletion!RegisterSession(n1)
  PROVE  DeletionInv'
<1> DEFINE t == turn[n1].of
           k == turn[n1].session
<1>1. /\ PurgeTypes /\ turn[n1].at = "register" /\ t \in Tenant /\ k \in 0..2
      /\ registry' = IF t \in business THEN [registry EXCEPT ![t] = k] ELSE registry
      /\ turn' = [turn EXCEPT ![n1] = Deletion!NoTurn]
      /\ UNCHANGED <<business, rows, user, member, live, opened, purge, proof, blamed, crossed>>
  BY DEF DeletionInv, PurgeTypes, TurnType, Deletion!RegisterSession
<1>2. /\ registry' \in [Tenant -> 0..2]
      /\ t \in business => registry'[t] = k
      /\ \A s \in Tenant : (s # t \/ s \notin business) => registry'[s] = registry[s]
  BY <1>1 DEF PurgeTypes
<1>3. turn' \in [{n1} -> TurnType] /\ turn'[n1].at = "idle"
  BY <1>1, PurgeFacts DEF PurgeTypes
<1>4. \A h \in Retrier : (Smooth(h)' <=> Smooth(h)) /\ (Smooth(h) => purge[h].of # t /\ purge[h].of \in Tenant)
  BY <1>1 DEF Smooth, DeletionInv, PurgeAlone, PurgeTypes
<1>5. \A h \in Retrier : Smooth(h) => registry'[purge[h].of] = registry[purge[h].of]
  BY <1>2, <1>4
<1>6. PurgeTypes'
  BY <1>1, <1>2, <1>3 DEF PurgeTypes
<1>7. PurgeAlone'
  BY <1>1, <1>3, <1>4 DEF DeletionInv, PurgeAlone
<1>8. PurgeSees' /\ PersonsFree'
  BY <1>1, <1>4, <1>5 DEF DeletionInv, PurgeSees, PersonsFree
<1>9. ProofFollows'
  BY <1>1 DEF DeletionInv, ProofFollows
<1>10. SessionsKnown'
  <2>1. \A s \in Tenant : registry'[s] <= opened[s]
    BY <1>1, <1>2 DEF DeletionInv, SessionsKnown
  <2>2. ASSUME NEW s \in live, s[2] \in business, s[2] \notin crossed
        PROVE  s[1] = registry'[s[2]]
    <3>1. s[2] \in Tenant /\ s = <<s[1], s[2]>>
      BY <1>1 DEF PurgeTypes
    <3>2. CASE s[2] = t
      <4>1. <<registry[t], t>> \notin live
        BY <1>1, <2>2, <3>2 DEF DeletionInv, SessionsKnown
      <4>2. s[1] # registry[t]
        BY <3>1, <3>2, <4>1
      <4>3. s[1] = k
        BY <2>2, <3>2, <4>2 DEF DeletionInv, SessionsKnown
      <4> QED BY <4>3, <3>2, <2>2, <1>2
    <3>3. CASE s[2] # t
      BY <3>1, <3>3, <2>2, <1>2 DEF DeletionInv, SessionsKnown
    <3> QED BY <3>2, <3>3
  <2>3. \A h \in Retrier : Smooth(h) =>
          /\ purge[h].at = "sessions" => purge[h].sessions = {registry'[purge[h].of]} \ {0}
          /\ purge[h].at # "sessions" /\ ~purge[h].warned => \A s \in live : s[2] # purge[h].of
    BY <1>5 DEF DeletionInv, SessionsKnown
  <2> QED BY <1>1, <1>3, <1>4, <2>1, <2>2, <2>3 DEF SessionsKnown
<1>11. Deletion!NothingLeft'
  <2>1. \A s \in Tenant \ business : registry'[s] = registry[s]
    BY <1>2
  <2> QED BY <1>1, <2>1 DEF DeletionInv, Deletion!NothingLeft, Deletion!MembersOf
<1>12. Deletion!GoesThrough' /\ Deletion!OrphansLeave' /\ Deletion!SessionsGone'
  BY <1>1 DEF DeletionInv, Deletion!GoesThrough, Deletion!OrphansLeave, Deletion!SessionsGone
<1> QED BY <1>6, <1>7, <1>8, <1>9, <1>10, <1>11, <1>12 DEF DeletionInv

LEMMA WriteKept ==
  ASSUME DeletionInv, NEW t \in Tenant, Deletion!Write(t, "payments")
  PROVE  DeletionInv'
<1>1. /\ PurgeTypes /\ t \in business
      /\ rows' = [rows EXCEPT ![t] = @ \cup {<<"payments", "late">>}]
      /\ crossed' = Deletion!Crossing(t)
      /\ UNCHANGED <<business, user, member, registry, live, opened, turn, purge, proof, blamed>>
  BY DEF DeletionInv, Deletion!Write
<1>2. /\ crossed \subseteq crossed' /\ crossed' \subseteq Tenant
      /\ \A h \in Retrier : Smooth(h)' => Smooth(h) /\ purge[h].of # t
  BY <1>1, CrossedGrows
<1>3. /\ rows' \in [Tenant -> SUBSET (Deletion!Table \X Deletion!Age)]
      /\ \A s \in Tenant : s # t => rows'[s] = rows[s]
  <2>1. <<"payments", "late">> \in Deletion!Table \X Deletion!Age
    BY DEF Deletion!Table, Deletion!Age
  <2> QED BY <1>1, <2>1 DEF PurgeTypes
<1>4. PurgeTypes'
  BY <1>1, <1>2, <1>3 DEF PurgeTypes
<1>5. PurgeAlone'
  BY <1>1, <1>2 DEF DeletionInv, PurgeAlone
<1>6. PurgeSees' /\ PersonsFree'
  <2>1. \A h \in Retrier : Smooth(h)' => rows'[purge[h].of] = rows[purge[h].of]
    BY <1>1, <1>2, <1>3 DEF PurgeTypes, Smooth
  <2> QED BY <1>1, <1>2, <2>1 DEF DeletionInv, PurgeSees, PersonsFree
<1>7. ProofFollows'
  BY <1>1, <1>2 DEF DeletionInv, ProofFollows
<1>8. SessionsKnown'
  BY <1>1, <1>2 DEF DeletionInv, SessionsKnown
<1>9. Deletion!NothingLeft'
  <2>1. \A s \in Tenant \ business : rows'[s] = rows[s]
    BY <1>1, <1>3
  <2> QED BY <1>1, <2>1 DEF DeletionInv, Deletion!NothingLeft, Deletion!MembersOf
<1>10. Deletion!GoesThrough' /\ Deletion!OrphansLeave' /\ Deletion!SessionsGone'
  BY <1>1, <1>2 DEF DeletionInv, Deletion!GoesThrough, Deletion!OrphansLeave, Deletion!SessionsGone
<1> QED BY <1>4, <1>5, <1>6, <1>7, <1>8, <1>9, <1>10 DEF DeletionInv

LEMMA JoinKept ==
  ASSUME DeletionInv, NEW c \in Customer, NEW t \in Tenant, Deletion!Join(c, t)
  PROVE  DeletionInv'
<1>1. /\ PurgeTypes /\ t \in business /\ \A g \in Retrier : c \notin purge[g].persons
      /\ user' = user \cup {c} /\ member' = member \cup {<<c, t>>}
      /\ crossed' = crossed \cup {purge[g].of : g \in {h \in Retrier : purge[h].at # "idle"}}
      /\ UNCHANGED <<business, rows, registry, live, opened, turn, purge, proof, blamed>>
  BY DEF DeletionInv, Deletion!Join
<1>2. crossed \subseteq crossed' /\ crossed' \subseteq Tenant /\ \A h \in Retrier : ~Smooth(h)'
  BY <1>1 DEF PurgeTypes, Smooth
<1>3. PurgeTypes'
  BY <1>1, <1>2 DEF PurgeTypes
<1>4. PurgeAlone' /\ PurgeSees'
  BY <1>2 DEF PurgeAlone, PurgeSees
<1>5. PersonsFree'
  BY <1>1 DEF DeletionInv, PersonsFree
<1>6. ProofFollows'
  BY <1>1, <1>2 DEF DeletionInv, ProofFollows
<1>7. SessionsKnown'
  BY <1>1, <1>2 DEF DeletionInv, SessionsKnown
<1>8. Deletion!NothingLeft'
  <2>1. \A s \in Tenant \ business : \A d \in Customer : <<d, s>> \in member' => <<d, s>> \in member
    BY <1>1
  <2> QED BY <1>1, <2>1 DEF DeletionInv, Deletion!NothingLeft, Deletion!MembersOf
<1>9. Deletion!OrphansLeave'
  <2>1. \A m \in member' : m[1] \in user'
    BY <1>1 DEF DeletionInv, Deletion!OrphansLeave
  <2>2. ASSUME NEW d \in user', \A s \in Tenant : <<d, s>> \notin member'
        PROVE  crossed' # {}
    <3>1. d # c /\ d \in user
      BY <1>1, <2>2
    <3>2. \A s \in Tenant : <<d, s>> \notin member
      BY <1>1, <2>2
    <3> QED BY <3>1, <3>2, <1>2 DEF DeletionInv, Deletion!OrphansLeave
  <2> QED BY <2>1, <2>2 DEF Deletion!OrphansLeave
<1>10. Deletion!GoesThrough' /\ Deletion!SessionsGone'
  BY <1>1, <1>2 DEF DeletionInv, Deletion!GoesThrough, Deletion!SessionsGone
<1> QED BY <1>3, <1>4, <1>5, <1>6, <1>7, <1>8, <1>9, <1>10 DEF DeletionInv
-------------------------------------------------------------------------------
LEMMA DeletionInit ==
  ASSUME Deletion!Init
  PROVE  DeletionInv
<1>1. /\ business = Tenant /\ member \in SUBSET (Customer \X Tenant)
      /\ user = {m[1] : m \in member} /\ opened \in [Tenant -> {1}]
      /\ registry = opened /\ live = {<<1, t>> : t \in {x \in Tenant : opened[x] = 1}}
      /\ turn = [u \in {n1} |-> Deletion!NoTurn] /\ purge = [g \in Retrier |-> Deletion!NoPurge]
      /\ proof = {} /\ blamed = {} /\ crossed = {}
  BY DEF Deletion!Init
<1>2. rows \in [Tenant -> SUBSET (Deletion!Table \X Deletion!Age)]
  <2>1. PICK c \in [Tenant -> {{"logs", "payments", "sales", "jobs", "connectors"}, {"parties"}}] :
          rows = [t \in Tenant |-> c[t] \X {"early"}]
    BY DEF Deletion!Init
  <2>2. ASSUME NEW t \in Tenant PROVE c[t] \X {"early"} \in SUBSET (Deletion!Table \X Deletion!Age)
    <3>1. c[t] \subseteq Deletion!Table /\ "early" \in Deletion!Age
      BY <2>1 DEF Deletion!Table, Deletion!Age
    <3> QED BY <3>1
  <2> QED BY <2>1, <2>2
<1>3. \A g \in Retrier : purge[g] = Deletion!NoPurge
  BY <1>1
<1>4. turn[n1] = Deletion!NoTurn
  BY <1>1
<1>5. user \subseteq Customer
  BY <1>1
<1>6. registry \in [Tenant -> 0..2] /\ opened \in [Tenant -> 0..2] /\ \A t \in Tenant : registry[t] = 1
  BY <1>1
<1>7. /\ live \subseteq (1..2) \X Tenant /\ \A s \in live : s[2] \in Tenant /\ s[1] = 1
  BY <1>1
<1>8. purge \in [Retrier -> PurgeType] /\ turn \in [{n1} -> TurnType]
  BY <1>1, PurgeFacts
<1>9. PurgeTypes
  BY <1>1, <1>2, <1>3, <1>4, <1>5, <1>6, <1>7, <1>8, PurgeFacts DEF PurgeTypes
<1>10. PurgeAlone /\ PurgeSees /\ PersonsFree
  BY <1>3, PurgeFacts DEF PurgeAlone, PurgeSees, PersonsFree, Smooth
<1>11. ProofFollows
  BY <1>1, <1>3, PurgeFacts DEF ProofFollows
<1>12. SessionsKnown
  BY <1>1, <1>3, <1>4, <1>6, <1>7, PurgeFacts DEF SessionsKnown, Smooth
<1>13. Deletion!NothingLeft /\ Deletion!GoesThrough /\ Deletion!SessionsGone
  BY <1>1 DEF Deletion!NothingLeft, Deletion!GoesThrough, Deletion!SessionsGone
<1>14. Deletion!OrphansLeave
  <2>1. \A m \in member : m[1] \in user /\ m[2] \in Tenant /\ m = <<m[1], m[2]>>
    BY <1>1
  <2> QED BY <1>1, <2>1 DEF Deletion!OrphansLeave
<1> QED BY <1>9, <1>10, <1>11, <1>12, <1>13, <1>14 DEF DeletionInv

LEMMA BreaksKept ==
  ASSUME DeletionInv, NEW g \in Retrier, Deletion!Breaks(g)
  PROVE  DeletionInv'
<1>1. purge[g].at # "idle" /\ Deletion!RollBack(g, FALSE)
  BY DEF Deletion!Breaks
<1> QED BY <1>1, RollBackKept

LEMMA DeletionKept ==
  ASSUME DeletionInv, Deletion!Next
  PROVE  DeletionInv'
<1>1. CASE Deletion!Inputs
  <2>1. PICK t \in Tenant : \/ Deletion!FindSession(n1, t) \/ Deletion!Write(t, "payments")
                            \/ \E c \in Customer : Deletion!Join(c, t)
    BY <1>1 DEF Deletion!Inputs
  <2> QED BY <2>1, FindSessionKept, WriteKept, JoinKept
<1>2. CASE \E u \in {n1} : Deletion!CreateSession(u) \/ Deletion!RegisterSession(u)
  BY <1>2, CreateSessionKept, RegisterSessionKept
<1>3. ASSUME NEW g \in Retrier,
             \/ \E t \in Tenant : Deletion!Begin(g, t)
             \/ Deletion!DeleteSessions(g) \/ Deletion!DeleteTable(g)
             \/ Deletion!DeleteRegistration(g) \/ Deletion!DeleteMemberships(g)
             \/ Deletion!DeleteUsers(g) \/ Deletion!DeleteBusiness(g) \/ Deletion!Prove(g)
             \/ Deletion!Breaks(g)
      PROVE  DeletionInv'
  BY <1>3, BeginKept, DeleteSessionsKept, TableKept, RegistrationKept, MembershipsKept, UsersKept,
     BusinessKept, ProveKept, BreaksKept
<1> QED BY <1>1, <1>2, <1>3 DEF Deletion!Next

\* Only steps of the deletion write its state.
LEMMA DeletionFrame ==
  ASSUME DeletionInv, [MCNext]_allVars
  PROVE  DeletionInv'
<1>1. Deletion!Next \/ UNCHANGED deletionVars
  BY DEF MCNext, allVars, Signup, Deliver, Act, Spend, Delete
<1>2. CASE Deletion!Next
  BY <1>2, DeletionKept
<1>3. CASE UNCHANGED deletionVars
  <2>1. UNCHANGED <<business, rows, user, member, registry, live, opened, turn, purge, proof, blamed, crossed>>
    BY <1>3 DEF deletionVars
  <2>2. PurgeTypes' /\ PersonsFree' /\ ProofFollows'
    BY <2>1 DEF DeletionInv, PurgeTypes, PersonsFree, ProofFollows
  <2>3. PurgeAlone' /\ PurgeSees' /\ SessionsKnown'
    BY <2>1 DEF DeletionInv, PurgeAlone, PurgeSees, SessionsKnown, Smooth
  <2>4. /\ Deletion!NothingLeft' /\ Deletion!GoesThrough' /\ Deletion!OrphansLeave'
        /\ Deletion!SessionsGone'
    BY <2>1 DEF DeletionInv, Deletion!NothingLeft, Deletion!MembersOf, Deletion!GoesThrough,
       Deletion!OrphansLeave, Deletion!SessionsGone
  <2> QED BY <2>2, <2>3, <2>4 DEF DeletionInv
<1> QED BY <1>1, <1>2, <1>3

\* Deletion: what every step keeps of the rows of a business from its request to its purge
\* (DeletionInv).
THEOREM DeletionAlways == MCSpec => []DeletionInv
<1>1. MCInit => DeletionInv
  BY DeletionInit DEF MCInit
<1>2. DeletionInv /\ [MCNext]_allVars => DeletionInv'
  BY DeletionFrame
<1> QED BY <1>1, <1>2, PTL DEF MCSpec

LEMMA DeletionTyped == DeletionInv /\ inputs \in Nat => Deletion!TypeOK
<1> SUFFICES ASSUME DeletionInv, inputs \in Nat PROVE Deletion!TypeOK
  OBVIOUS
<1>1. PurgeTypes /\ turn[n1] \in TurnType /\ \A g \in Retrier : purge[g] \in PurgeType
  BY DEF DeletionInv, PurgeTypes
<1>2. Len(Deletion!PurgeOrder) = 9
  BY DEF Deletion!PurgeOrder
<1> QED BY <1>1, <1>2 DEF PurgeTypes, TurnType, PurgeType, Deletion!TypeOK

\* The inputs of the budget and of the deletion are counted.
LEMMA InputsCounted == MCSpec => [](inputs \in Nat)
<1>1. MCInit => inputs \in Nat
  BY DEF MCInit, Deletion!Init
<1>2. inputs \in Nat /\ [MCNext]_allVars => (inputs \in Nat)'
  <2> SUFFICES ASSUME inputs \in Nat, [MCNext]_allVars PROVE inputs' \in Nat
    OBVIOUS
  <2>1. CASE Spend
    <3>1. Budget!Next
      BY <2>1 DEF Spend
    <3>2. inputs' = inputs \/ inputs' = inputs + 1
      BY <3>1, Zenon DEF Budget!Next, Budget!Handle, Budget!Receive, Budget!Block, Budget!Approve, Budget!Thank,
         Budget!CountThanks, Budget!ReadPlan, Budget!ReadUsage, Budget!Latch, Budget!OpenSession,
         Budget!EndTurn, Budget!Record, Budget!RecordFails, Budget!SendNote, Budget!Refill,
         Budget!NextMonth, Budget!Restart, Budget!ChangePlan, Budget!Input
    <3> QED BY <3>2
  <2>2. CASE Delete
    <3>1. Deletion!Next
      BY <2>2 DEF Delete
    <3>2. inputs' = inputs \/ inputs' = inputs + 1
      BY <3>1, ZenonT(60) DEF Deletion!Next, Deletion!Inputs, Deletion!FindSession, Deletion!Write, Deletion!Join,
         Deletion!Input, Deletion!CreateSession, Deletion!RegisterSession, Deletion!Begin,
         Deletion!DeleteSessions, Deletion!DeleteTable, Deletion!RollBack, Deletion!DeleteRegistration,
         Deletion!DeleteMemberships, Deletion!DeleteUsers, Deletion!DeleteBusiness, Deletion!Prove,
         Deletion!Breaks
    <3> QED BY <3>2
  <2>3. CASE Signup \/ Deliver \/ Act \/ UNCHANGED allVars
    BY <2>3 DEF Signup, Deliver, Act, allVars
  <2> QED BY <2>1, <2>2, <2>3 DEF MCNext
<1> QED BY <1>1, <1>2, PTL DEF MCSpec
-------------------------------------------------------------------------------
(* The life of a business *)

\* AccessSound: in teams and signups the owner of a business stays its owner, no plan has
\* more people at work than it has seats and no number acts for two businesses unless one was
\* suspended; and alone with the agent a turn acts with the rights of its own member
\* (team.ts, membership.ts, onboarding.ts, member-bearers.ts).
THEOREM AccessIsSound == MCSpec => []AccessSound
<1>1. AccessInv /\ BearersInv => AccessSound
  BY OneBusinessFollows, OwnRights DEF AccessInv, AccessSound
<1> QED BY <1>1, AccessAlways, BearersAlways, PTL

\* OnboardingSound: a business that had to be reviewed is not opened before somebody
\* approved it; of the retriers one sends a row again, once, and while nobody else of them is
\* at work and none has rows in hand from before, one probe at a time goes into a broken
\* account (signup.ts, delivery.ts, admin/routes.ts).
THEOREM OnboardingAlwaysSound == MCSpec => []OnboardingSound
<1>1. AccessInv /\ DeliveryInv => OnboardingSound
  BY OnceAndAlone DEF AccessInv, OnboardingSound
<1> QED BY <1>1, AccessAlways, DeliveryAlways, PTL

\* SpendingAndDeletion: the counters and what was lost add up to what turns have cost, a
\* budget is overshot by less than the turns under way, its note is sent once and an answer
\* is never thanked for; of a business deleted nothing is left, its purge fails only when
\* crossed, persons go with their last business and sessions with their business
\* (usage-service.ts, gate.ts, data-deletion.ts).
THEOREM SpendingAndDeletionSound == MCSpec => []SpendingAndDeletion
<1>1. DeletionInv => /\ Deletion!NothingLeft /\ Deletion!GoesThrough
                     /\ Deletion!OrphansLeave /\ Deletion!SessionsGone
  BY DEF DeletionInv
<1>2. BudgetInv /\ DeletionInv => SpendingAndDeletion
  BY <1>1, SpendingSound DEF SpendingAndDeletion
<1> QED BY <1>2, BudgetAlways, DeletionAlways, PTL

\* AllTypesOK: the state of every part is well typed.
THEOREM IdentityTyped == MCSpec => []AllTypesOK
<1>1. AccessInv => TypeOK
  BY DEF AccessInv
<1>2. DeliveryInv => Delivery!TypeOK
  BY DEF DeliveryInv
<1>3. BearersInv => Bearers!TypeOK
  BY DEF BearersInv
<1> DEFINE Parts == part \in {"signups", "teams", "delivery", "bearers", "budget", "deletion"}
<1>4. MCSpec => []Parts
  <2>1. MCInit => Parts
    BY DEF MCInit
  <2>2. Parts /\ [MCNext]_allVars => Parts'
    BY DEF MCNext, Signup, Deliver, Act, Spend, Delete, allVars
  <2> QED BY <2>1, <2>2, PTL DEF MCSpec
<1>5. /\ AccessInv /\ DeliveryInv /\ BearersInv /\ BudgetInv /\ DeletionInv
      /\ inputs \in Nat /\ Parts
      => AllTypesOK
  BY <1>1, <1>2, <1>3, BudgetTyped, DeletionTyped DEF AllTypesOK
<1> HIDE DEF Parts
<1> QED BY <1>4, <1>5, AccessAlways, DeliveryAlways, BearersAlways, BudgetAlways, DeletionAlways,
           InputsCounted, PTL
===============================================================================
