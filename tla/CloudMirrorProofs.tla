-------------------------- MODULE CloudMirrorProofs --------------------------
(***************************************************************************)
(* Proofs about CloudMirror, for any runs, calls under way, page size and  *)
(* length of the logs, with or without restarts of the application.        *)
(***************************************************************************)
EXTENDS CloudMirror, FiniteSetTheorems, SequenceTheorems, TLAPS

-----------------------------------------------------------------------------
(* Numbers in their order                                                  *)

\* s lists the members of S upwards.
Enumerates(s, S) ==
    /\ s \in Seq(S)
    /\ \A x \in S : \E i \in 1 .. Len(s) : s[i] = x
    /\ \A i, j \in 1 .. Len(s) : i < j => s[i] < s[j]

LEMMA LeastExists ==
    ASSUME NEW S \in SUBSET Nat, S # {}
    PROVE  \E i \in S : \A j \in S : i <= j
<1>1. PICK i \in S : \A j \in S : ~ (<<j, i>> \in OpToRel(<, Nat))
  BY NatLessThanWellFounded, WFMin
<1>2. \A j \in S : ~ (j < i)
  BY <1>1 DEF OpToRel
<1> QED
  BY <1>2

LEMMA SeqFacts ==
    ASSUME NEW S, NEW s \in Seq(S)
    PROVE  /\ DOMAIN s = 1 .. Len(s) /\ Len(s) \in Nat
           /\ \A i \in 1 .. Len(s) : s[i] \in S
  BY LenProperties

\* The members of a list are those at its places.
LEMMA RangeOfList ==
    ASSUME NEW s, NEW n, DOMAIN s = 1 .. n, NEW x
    PROVE  x \in Range(s) <=> \E i \in 1 .. n : s[i] = x
  BY DEF Range

LEMMA AppendRange ==
    ASSUME NEW T, NEW s \in Seq(T), NEW e \in T, NEW x
    PROVE  x \in Range(Append(s, e)) <=> x \in Range(s) \/ x = e
<1>1. DOMAIN s = 1 .. Len(s) /\ Len(s) \in Nat
  BY LenProperties
<1>2. PICK u : u = Append(s, e)
  OBVIOUS
<1>3. /\ DOMAIN u = 1 .. Len(s) + 1 /\ u[Len(s) + 1] = e
      /\ \A i \in 1 .. Len(s) : u[i] = s[i]
  BY <1>2, AppendProperties
<1>4. x \in Range(u) <=> \E i \in 1 .. Len(s) + 1 : u[i] = x
  BY <1>3, RangeOfList
<1>5. x \in Range(s) <=> \E i \in 1 .. Len(s) : s[i] = x
  BY <1>1, RangeOfList
<1>6. \A i : i \in 1 .. Len(s) + 1 <=> i \in 1 .. Len(s) \/ i = Len(s) + 1
  BY <1>1
<1> QED
  BY <1>2, <1>3, <1>4, <1>5, <1>6

LEMMA AppendEnumerates ==
    ASSUME NEW S \in SUBSET Nat, NEW s, Enumerates(s, S), NEW n \in Nat, \A i \in S : i < n
    PROVE  Enumerates(Append(s, n), S \cup {n})
<1>1. s \in Seq(S \cup {n}) /\ Len(s) \in Nat /\ \A i \in 1 .. Len(s) : s[i] \in S
  BY SeqMonotonic, SeqFacts DEF Enumerates
<1>2. PICK t : t = Append(s, n)
  OBVIOUS
<1>3. /\ t \in Seq(S \cup {n}) /\ Len(t) = Len(s) + 1
      /\ \A i \in 1 .. Len(s) : t[i] = s[i]
      /\ t[Len(s) + 1] = n
  BY <1>1, <1>2, AppendProperties
<1>4. ASSUME NEW x \in S \cup {n} PROVE \E i \in 1 .. Len(t) : t[i] = x
  <2>1. CASE x \in S
    <3>1. PICK i \in 1 .. Len(s) : s[i] = x
      BY <2>1 DEF Enumerates
    <3>2. i \in 1 .. Len(t) /\ t[i] = x
      BY <1>1, <1>3, <3>1
    <3> QED
      BY <3>2
  <2>2. CASE x = n
    <3>1. Len(s) + 1 \in 1 .. Len(t)
      BY <1>1, <1>3
    <3> QED
      BY <1>3, <2>2, <3>1
  <2> QED
    BY <2>1, <2>2
<1>5. ASSUME NEW i \in 1 .. Len(t), NEW j \in 1 .. Len(t), i < j PROVE t[i] < t[j]
  <2>1. CASE j <= Len(s)
    BY <1>1, <1>3, <1>5, <2>1 DEF Enumerates
  <2>2. CASE j = Len(s) + 1
    <3>1. i \in 1 .. Len(s) /\ t[i] = s[i] /\ s[i] \in S /\ t[j] = n
      BY <1>1, <1>3, <1>5, <2>2
    <3> QED
      BY <3>1
  <2> QED
    BY <1>1, <1>3, <2>1, <2>2
<1> QED
  BY <1>2, <1>3, <1>4, <1>5 DEF Enumerates

\* Every bounded set of numbers can be listed,
LEMMA EnumerationExists ==
    ASSUME NEW n \in Nat, NEW S \in SUBSET (1 .. n)
    PROVE  \E s : Enumerates(s, S)
<1> DEFINE Bad == {m \in Nat : \E U \in SUBSET (1 .. m) : \A s : ~ Enumerates(s, U)}
<1>1. SUFFICES ASSUME Bad # {} PROVE FALSE
  OBVIOUS
<1>2. PICK m \in Bad : \A k \in Bad : m <= k
  BY <1>1, LeastExists
<1>3. PICK U \in SUBSET (1 .. m) : \A s : ~ Enumerates(s, U)
  BY <1>2
<1>4. ASSUME NEW k \in Nat, k < m, NEW W \in SUBSET (1 .. k)
      PROVE  \E s : Enumerates(s, W)
  <2>1. m \in Nat /\ ~ (m <= k)
    BY <1>2, <1>4
  <2>2. k \notin Bad
    BY <1>2, <2>1
  <2> QED
    BY <2>2
<1>5. CASE m = 0
  <2>1. U = {}
    BY <1>3, <1>5
  <2>2. << >> \in Seq(U) /\ Len(<< >>) = 0
    BY EmptySeq
  <2>3. Enumerates(<< >>, U)
    BY <2>1, <2>2 DEF Enumerates
  <2> QED
    BY <2>3, <1>3
<1>6. CASE m # 0
  <2>1. m - 1 \in Nat /\ m - 1 < m /\ m \in Nat
    BY <1>2, <1>6
  <2>2. U \ {m} \in SUBSET (1 .. m - 1) /\ U \ {m} \in SUBSET Nat
    BY <1>3, <2>1
  <2>3. PICK s : Enumerates(s, U \ {m})
    BY <2>1, <2>2, <1>4
  <2>4. CASE m \in U
    <3>1. U = (U \ {m}) \cup {m} /\ \A i \in U \ {m} : i < m
      BY <2>1, <2>2, <2>4
    <3>2. Enumerates(Append(s, m), (U \ {m}) \cup {m})
      BY <2>1, <2>2, <2>3, <3>1, AppendEnumerates
    <3> QED
      BY <3>1, <3>2, <1>3
  <2>5. CASE m \notin U
    <3>1. U = U \ {m}
      BY <2>5
    <3> QED
      BY <3>1, <2>3, <1>3
  <2> QED
    BY <2>4, <2>5
<1> QED
  BY <1>5, <1>6

LEMMA EnumeratesUpwards ==
    ASSUME NEW S \in SUBSET Nat, NEW s, Enumerates(s, S)
    PROVE  /\ \A i \in 1 .. Len(s) : s[i] \in Nat /\ s[i] \in S
           /\ \A i, j \in 1 .. Len(s) : (s[i] < s[j] => i < j) /\ (s[i] = s[j] => i = j)
           /\ s \in Seq(S) /\ Len(s) \in Nat
<1>1. s \in Seq(S) /\ Len(s) \in Nat /\ \A i \in 1 .. Len(s) : s[i] \in S /\ s[i] \in Nat
  BY SeqFacts DEF Enumerates
<1>2. ASSUME NEW i \in 1 .. Len(s), NEW j \in 1 .. Len(s)
      PROVE  (s[i] < s[j] => i < j) /\ (s[i] = s[j] => i = j)
  <2>1. i < j \/ i = j \/ j < i
    BY <1>1
  <2> QED
    BY <1>1, <2>1 DEF Enumerates
<1> QED
  BY <1>1, <1>2

\* Where two listings differ first, neither has the lesser number.
LEMMA FirstDifference ==
    ASSUME NEW S \in SUBSET Nat, NEW s, NEW t, Enumerates(s, S), Enumerates(t, S),
           NEW i \in 1 .. Len(s), i \in 1 .. Len(t),
           \A j \in 1 .. Len(s) : j < i => j \in 1 .. Len(t) /\ s[j] = t[j]
    PROVE  ~ (t[i] < s[i])
<1>1. SUFFICES ASSUME t[i] < s[i] PROVE FALSE
  OBVIOUS
<1>2. PICK j \in 1 .. Len(s) : s[j] = t[i]
  BY EnumeratesUpwards DEF Enumerates
<1>3. j < i
  BY <1>1, <1>2, EnumeratesUpwards
<1>4. t[j] = t[i] /\ j \in 1 .. Len(t)
  BY <1>2, <1>3
<1>5. j = i
  BY <1>4, EnumeratesUpwards
<1>6. j \in Int /\ i \in Int
  OBVIOUS
<1> QED
  BY <1>3, <1>5, <1>6

LEMMA EnumerationsAgree ==
    ASSUME NEW S \in SUBSET Nat, NEW s, NEW t, Enumerates(s, S), Enumerates(t, S),
           Len(s) <= Len(t)
    PROVE  s = t
<1> DEFINE Differ == {i \in 1 .. Len(s) : s[i] # t[i]}
<1>1. /\ s \in Seq(S) /\ Len(s) \in Nat /\ t \in Seq(S) /\ Len(t) \in Nat
      /\ \A i \in 1 .. Len(s) : s[i] \in Nat
      /\ \A i \in 1 .. Len(t) : t[i] \in Nat
  BY EnumeratesUpwards
<1>2. \A i \in 1 .. Len(s) : i \in 1 .. Len(t)
  BY <1>1
<1>3. Differ = {}
  <2>1. SUFFICES ASSUME Differ # {} PROVE FALSE
    OBVIOUS
  <2>2. Differ \in SUBSET Nat
    BY <1>1
  <2>3. PICK i \in Differ : \A j \in Differ : i <= j
    BY <2>1, <2>2, LeastExists
  <2>4. i \in 1 .. Len(s) /\ i \in 1 .. Len(t) /\ s[i] # t[i] /\ i \in Nat
    BY <1>2, <2>3
  <2>5. \A j \in 1 .. Len(s) : j < i => j \in 1 .. Len(t) /\ s[j] = t[j]
    BY <1>1, <1>2, <2>3, <2>4
  <2>6. \A j \in 1 .. Len(t) : j < i => j \in 1 .. Len(s) /\ t[j] = s[j]
    BY <1>1, <2>4, <2>5
  <2>7. ~ (t[i] < s[i])
    BY <2>4, <2>5, FirstDifference
  <2>8. ~ (s[i] < t[i])
    BY <2>4, <2>6, FirstDifference
  <2> QED
    BY <1>1, <2>4, <2>7, <2>8
<1>4. \A i \in 1 .. Len(s) : s[i] = t[i]
  BY <1>3
<1>5. Len(s) = Len(t)
  <2>1. SUFFICES ASSUME Len(s) < Len(t) PROVE FALSE
    BY <1>1
  <2>2. Len(s) + 1 \in 1 .. Len(t) /\ t[Len(s) + 1] \in S
    BY <1>1, <2>1, EnumeratesUpwards
  <2>3. PICK j \in 1 .. Len(s) : s[j] = t[Len(s) + 1]
    BY <2>2 DEF Enumerates
  <2>4. t[j] = t[Len(s) + 1] /\ j \in 1 .. Len(t)
    BY <1>2, <1>4, <2>3
  <2>5. j = Len(s) + 1
    BY <2>2, <2>4, EnumeratesUpwards
  <2> QED
    BY <1>1, <2>3, <2>5
<1> QED
  BY <1>1, <1>4, <1>5, SeqEqual

\* and in one way.
LEMMA EnumerationIsUnique ==
    ASSUME NEW S \in SUBSET Nat, NEW s, NEW t, Enumerates(s, S), Enumerates(t, S)
    PROVE  s = t
<1>1. Len(s) \in Nat /\ Len(t) \in Nat
  BY EnumeratesUpwards
<1>2. Len(s) <= Len(t) \/ Len(t) <= Len(s)
  BY <1>1
<1> QED
  BY <1>2, EnumerationsAgree

\* InOrder lists the members of a set.
LEMMA InOrderEnumerates ==
    ASSUME NEW n \in Nat, NEW S \in SUBSET (1 .. n)
    PROVE  Enumerates(InOrder(S), S)
<1> DEFINE Good(s) == /\ s \in [1 .. Cardinality(S) -> S]
                      /\ Range(s) = S /\ \A i, j \in DOMAIN s : i < j => s[i] < s[j]
<1>1. S \in SUBSET Nat
  OBVIOUS
<1>2. PICK s : Enumerates(s, S)
  BY EnumerationExists
<1>3. s \in Seq(S) /\ Len(s) \in Nat /\ s \in [1 .. Len(s) -> S] /\ DOMAIN s = 1 .. Len(s)
  <2>1. s \in Seq(S)
    BY <1>2 DEF Enumerates
  <2> QED
    BY <2>1, LenProperties
<1>4. Range(s) = S
  <2>1. ASSUME NEW x PROVE x \in Range(s) <=> \E i \in 1 .. Len(s) : s[i] = x
    BY <1>3, RangeOfList
  <2>2. \A i \in 1 .. Len(s) : s[i] \in S
    BY <1>3
  <2>3. \A x : x \in Range(s) <=> x \in S
    BY <1>2, <2>1, <2>2 DEF Enumerates
  <2> QED
    BY <2>3
<1>5. Cardinality(S) = Len(s)
  <2>1. s \in Bijection(1 .. Len(s), S)
    <3>1. IsInjective(s)
      BY <1>1, <1>2, <1>3, EnumeratesUpwards DEF IsInjective
    <3>2. \A x \in S : \E i \in 1 .. Len(s) : s[i] = x
      BY <1>2 DEF Enumerates
    <3> QED
      BY <1>3, <3>1, <3>2 DEF Bijection, Injection, Surjection
  <2>2. ExistsBijection(1 .. Len(s), S)
    BY <2>1 DEF ExistsBijection
  <2> QED
    BY <1>3, <2>2, FS_CountingElements
<1>6. Good(s)
  BY <1>2, <1>3, <1>4, <1>5 DEF Enumerates
<1>7. InOrder(S) = CHOOSE u : Good(u)
  BY DEF InOrder
<1>8. Good(InOrder(S))
  BY <1>6, <1>7
<1>9. PICK u : u = InOrder(S)
  OBVIOUS
<1>10. u \in [1 .. Len(s) -> S]
  BY <1>5, <1>8, <1>9
<1>11. u \in Seq(S) /\ Len(u) = Len(s)
  BY <1>3, <1>10
<1> HIDE DEF Good
<1>12. /\ DOMAIN u = 1 .. Len(u)
       /\ \A x : x \in Range(u) <=> \E i \in 1 .. Len(u) : u[i] = x
  <2>1. DOMAIN u = 1 .. Len(u)
    BY <1>11, LenProperties
  <2>2. ASSUME NEW x PROVE x \in Range(u) <=> \E i \in 1 .. Len(u) : u[i] = x
    BY <2>1, RangeOfList
  <2> QED
    BY <2>1, <2>2
<1> USE DEF Good
<1>13. Range(u) = S /\ \A i, j \in DOMAIN u : i < j => u[i] < u[j]
  BY <1>8, <1>9
<1>14. Enumerates(u, S)
  BY <1>11, <1>12, <1>13 DEF Enumerates
<1> QED
  BY <1>9, <1>14

\* The next number goes behind all the others.
LEMMA InOrderGrows ==
    ASSUME NEW n \in Nat, NEW S \in SUBSET (1 .. n)
    PROVE  InOrder(S \cup {n + 1}) = Append(InOrder(S), n + 1)
<1>1. S \in SUBSET Nat /\ (\A i \in S : i < n + 1) /\ n + 1 \in Nat
  OBVIOUS
<1>2. S \cup {n + 1} \in SUBSET (1 .. n + 1) /\ S \cup {n + 1} \in SUBSET Nat
  OBVIOUS
<1>3. Enumerates(Append(InOrder(S), n + 1), S \cup {n + 1})
  BY <1>1, InOrderEnumerates, AppendEnumerates
<1>4. Enumerates(InOrder(S \cup {n + 1}), S \cup {n + 1})
  BY <1>1, <1>2, InOrderEnumerates
<1> QED
  BY <1>2, <1>3, <1>4, EnumerationIsUnique

LEMMA GreatestIs ==
    ASSUME NEW n \in Nat, NEW S \in SUBSET (1 .. n), S # {}
    PROVE  Max(S) \in S /\ \A i \in S : i <= Max(S)
<1> DEFINE M == {n - i : i \in S}
<1>1. M \in SUBSET Nat /\ M # {}
  <2>1. ASSUME NEW i \in S PROVE n - i \in Nat
    OBVIOUS
  <2> QED
    BY <2>1
<1>2. PICK d \in M : \A c \in M : d <= c
  BY <1>1, LeastExists
<1>3. PICK m \in S : d = n - m
  BY <1>2
<1>4. \A i \in S : n - m <= n - i
  BY <1>2, <1>3
<1>5. \A i \in S : m >= i
  BY <1>4
<1>6. Max(S) \in S /\ \A i \in S : Max(S) >= i
  BY <1>3, <1>5 DEF Max
<1> QED
  BY <1>6

-----------------------------------------------------------------------------
(* Type correctness                                                        *)

\* A call that is under way is about a run, what it asks after is in the log
\* of that run, and the page it was served is a stretch of it.
KnownCall(k) ==
    /\ k.stage # "idle" => k.run \in Run
    /\ k.stage \in {"asking", "served", "applying"} => k.after <= Len(log[k.run])
    /\ k.stage \in {"served", "applying"} => k.after <= k.upto /\ k.upto <= Len(log[k.run])

CallsKnown == \A t \in Task : KnownCall(task[t])

CursorKnown == \A r \in Run : cursor[r] <= Len(log[r])

Typed == TypeOK /\ CallsKnown /\ CursorKnown

LEMMA NextStatusType == ASSUME NEW s PROVE NextStatus(s) \subseteq RemoteStatus
  BY DEF NextStatus, RemoteStatus, RemoteTerminal

LEMMA LocalStatusType ==
    ASSUME NEW s \in RemoteStatus
    PROVE  /\ LOCAL_STATUS[s] \in LocalStatus \ {"ABSENT"}
           /\ LOCAL_STATUS[s] \in {"DONE", "CANCELLED"} => s = LOCAL_STATUS[s]
  BY DEF LOCAL_STATUS, RemoteStatus, RemoteTerminal, LocalStatus, Terminal

LEMMA StatusAfterType ==
    ASSUME NEW old \in LocalStatus, NEW s \in RemoteStatus
    PROVE  /\ StatusAfter(old, s) \in LocalStatus
           /\ old \in Terminal => StatusAfter(old, s) \in {old, "CANCELLED"}
           /\ StatusAfter(old, s) \in {"DONE", "CANCELLED"} => StatusAfter(old, s) \in {old, s}
  BY LocalStatusType DEF StatusAfter

\* The status of a run is one that was recorded, if any was.
LEMMA StatusInIs ==
    ASSUME NEW s \in Seq(Entry)
    PROVE  /\ StatusIn(s) \in RemoteStatus
           /\ StatusIn(s) = "QUEUED" \/ \E i \in 1 .. Len(s) : s[i] = StatusIn(s)
<1> DEFINE S == {i \in DOMAIN s : s[i] \in RemoteStatus}
<1>1. DOMAIN s = 1 .. Len(s) /\ Len(s) \in Nat
  BY LenProperties
<1>2. CASE S = {}
  BY <1>2 DEF StatusIn, RemoteStatus
<1>3. CASE S # {}
  <2>1. S \in SUBSET (1 .. Len(s))
    BY <1>1
  <2>2. Max(S) \in S
    BY <1>1, <1>3, <2>1, GreatestIs
  <2>3. StatusIn(s) = s[Max(S)]
    BY <1>3 DEF StatusIn
  <2> QED
    BY <1>1, <2>2, <2>3
<1> QED
  BY <1>2, <1>3

\* What recording an event does to the logs.
LogGrows(r, e) ==
    /\ log' \in [Run -> Seq(Entry)]
    /\ \A x \in Run : x # r => log'[x] = log[x]
    /\ Len(log'[r]) = Len(log[r]) + 1
    /\ \A i \in 1 .. Len(log[r]) : log'[r][i] = log[r][i]
    /\ log'[r][Len(log[r]) + 1] = e

LEMMA RecordedGrows ==
    ASSUME TypeOK, NEW r \in Run, NEW e \in Entry, Recorded(r, e)
    PROVE  LogGrows(r, e)
<1>1. log[r] \in Seq(Entry)
  BY DEF TypeOK
<1>2. log' = [log EXCEPT ![r] = Append(log[r], e)]
  BY DEF Recorded
<1>3. Append(log[r], e) \in Seq(Entry)
  BY <1>1
<1>4. log' \in [Run -> Seq(Entry)] /\ log'[r] = Append(log[r], e)
      /\ \A x \in Run : x # r => log'[x] = log[x]
  BY <1>2, <1>3 DEF TypeOK
<1> QED
  BY <1>1, <1>4, AppendProperties DEF LogGrows

LEMMA GrownTyped ==
    ASSUME TypeOK, NEW r \in Run, NEW e, LogGrows(r, e), Room(r)
    PROVE  /\ \A x \in Run : Len(log'[x]) <= MaxEvents
           /\ \A x \in Run : Len(log[x]) <= Len(log'[x]) /\ Len(log[x]) \in Nat
<1>1. \A x \in Run : Len(log[x]) \in Nat
  BY LenProperties DEF TypeOK
<1>2. ASSUME NEW x \in Run
      PROVE  Len(log'[x]) <= MaxEvents /\ Len(log[x]) <= Len(log'[x])
  <2>1. Len(log[x]) \in Nat /\ Len(log[r]) \in Nat /\ MaxEvents \in Nat
    BY <1>1, MirrorAssumption
  <2>2. CASE x = r
    <3>1. Len(log'[x]) = Len(log[r]) + 1
      BY <2>2 DEF LogGrows
    <3> QED
      BY <2>1, <2>2, <3>1 DEF Room
  <2>3. CASE x # r
    <3>1. log'[x] = log[x] /\ Len(log[x]) <= MaxEvents
      BY <2>3 DEF TypeOK, LogGrows
    <3> QED
      BY <2>1, <3>1
  <2> QED
    BY <2>2, <2>3
<1> QED
  BY <1>1, <1>2

LEMMA TaskType ==
    ASSUME TypeOK, NEW t \in Task
    PROVE  /\ task[t] \in TaskState
           /\ task[t].stage \in Stage /\ task[t].run \in Run \cup {NoRun}
           /\ task[t].todo \in SUBSET Run /\ task[t].status \in RemoteStatus
           /\ task[t].after \in 0 .. MaxEvents /\ task[t].upto \in 0 .. MaxEvents
           /\ task[t].full \in BOOLEAN
  BY DEF TypeOK, TaskState

LEMMA IdleType == Idle \in TaskState /\ Idle.stage = "idle"
  BY MirrorAssumption DEF Idle, TaskState, Stage, RemoteStatus

LEMMA AskingType ==
    ASSUME TypeOK, NEW r \in Run, NEW todo \in SUBSET Run
    PROVE  /\ Asking(r, todo) \in TaskState
           /\ Asking(r, todo).stage = "asking" /\ Asking(r, todo).run = r
           /\ Asking(r, todo).after = cursor[r]
<1>1. cursor[r] \in 0 .. MaxEvents /\ 0 \in 0 .. MaxEvents
  BY MirrorAssumption DEF TypeOK
<1>2. "asking" \in Stage
  BY DEF Stage
<1>3. PICK i : i = Idle
  OBVIOUS
<1>4. i \in TaskState
  BY <1>3, IdleType
<1>5. Asking(r, todo) = [i EXCEPT !.stage = "asking", !.run = r, !.todo = todo, !.after = cursor[r]]
  BY <1>3 DEF Asking
<1> QED
  BY <1>1, <1>2, <1>4, <1>5 DEF TaskState

\* A task that is done with its run rests, or asks for another one's events.
Turned(t) ==
    \E k \in TaskState :
        /\ task' = [task EXCEPT ![t] = k]
        /\ \/ k.stage = "idle"
           \/ \E r \in Run : k.stage = "asking" /\ k.run = r /\ k.after = cursor[r]

LEMMA TurnsIs ==
    ASSUME TypeOK, NEW t \in Task, TurnsToNext(t)
    PROVE  Turned(t)
<1>1. CASE task[t].todo = {}
  BY <1>1, IdleType DEF TurnsToNext, Turned
<1>2. CASE task[t].todo # {}
  <2>1. PICK r \in task[t].todo : task' = [task EXCEPT ![t] = Asking(r, task[t].todo \ {r})]
    BY <1>2 DEF TurnsToNext
  <2>2. r \in Run /\ task[t].todo \ {r} \in SUBSET Run
    BY <2>1, TaskType
  <2>3. PICK k : k = Asking(r, task[t].todo \ {r})
    OBVIOUS
  <2>4. k \in TaskState /\ k.stage = "asking" /\ k.run = r /\ k.after = cursor[r]
    BY <2>2, <2>3, AskingType
  <2>5. task' = [task EXCEPT ![t] = k]
    BY <2>1, <2>3
  <2> QED
    BY <2>2, <2>4, <2>5 DEF Turned
<1> QED
  BY <1>1, <1>2

\* The calls are known when all but one stay and that one is.
LEMMA OneTaskTyped ==
    ASSUME Typed, NEW t \in Task, NEW k \in TaskState, task' = [task EXCEPT ![t] = k],
           KnownCall(k), UNCHANGED log
    PROVE  task' \in [Task -> TaskState] /\ CallsKnown'
<1>1. task' \in [Task -> TaskState] /\ task'[t] = k /\ \A u \in Task : u # t => task'[u] = task[u]
  BY DEF Typed, TypeOK
<1>2. CallsKnown'
  BY <1>1 DEF Typed, CallsKnown, KnownCall
<1> QED
  BY <1>1, <1>2

LEMMA InitTyped == Init => Typed
<1> SUFFICES ASSUME Init PROVE Typed
  OBVIOUS
<1>1. << >> \in Seq(Entry) /\ Len(<< >>) = 0 /\ << >> \in Seq(1 .. MaxEvents)
      /\ << >> \in Seq([run : Run, seq : 1 .. MaxEvents])
  BY EmptySeq
<1>2. TypeOK
  BY <1>1, IdleType, MirrorAssumption DEF Init, TypeOK, LocalStatus
<1>3. CallsKnown /\ CursorKnown
  BY <1>1, IdleType DEF Init, CallsKnown, KnownCall, CursorKnown
<1> QED
  BY <1>2, <1>3 DEF Typed

\* A step of the desktop that changes neither a log nor a call.
LEMMA RecordTyped ==
    ASSUME Typed, UNCHANGED <<log, task>>,
           status' \in [Run -> LocalStatus], bound' \in [Run -> BOOLEAN],
           submitting' \subseteq Run, UNCHANGED <<cursor, steps, messages>>
    PROVE  Typed'
  BY DEF Typed, TypeOK, CallsKnown, KnownCall, CursorKnown

\* A step of a call that leaves the logs and the record alone.
LEMMA CallTyped ==
    ASSUME Typed, NEW t \in Task, NEW k \in TaskState, task' = [task EXCEPT ![t] = k],
           KnownCall(k), UNCHANGED <<log, record, submitting>>
    PROVE  Typed'
<1>1. task' \in [Task -> TaskState] /\ CallsKnown'
  BY OneTaskTyped
<1> QED
  BY <1>1 DEF Typed, TypeOK, CursorKnown, record

\* The coordinator records an event.
LEMMA EventTyped ==
    ASSUME Typed, NEW r \in Run, NEW e \in Entry, Recorded(r, e), Room(r),
           UNCHANGED <<record, submitting>>,
           task' \in [Task -> TaskState],
           \A t \in Task :
               \/ task'[t] = task[t]
               \/ task[t].stage # "idle" /\ task'[t] = [task[t] EXCEPT !.stage = "cancelled"]
    PROVE  Typed'
<1>1. TypeOK /\ CallsKnown /\ CursorKnown
  BY DEF Typed
<1>2. LogGrows(r, e)
  BY <1>1, RecordedGrows
<1>3. /\ \A x \in Run : Len(log'[x]) <= MaxEvents
      /\ \A x \in Run : Len(log[x]) <= Len(log'[x]) /\ Len(log[x]) \in Nat
      /\ \A x \in Run : Len(log'[x]) \in Nat
  BY <1>1, <1>2, GrownTyped, LenProperties DEF LogGrows
<1>4. TypeOK'
  BY <1>1, <1>2, <1>3 DEF TypeOK, LogGrows, record
<1>5. ASSUME NEW t \in Task PROVE KnownCall(task[t])'
  <2>1. task[t].upto \in 0 .. MaxEvents /\ task[t].after \in 0 .. MaxEvents /\ task[t] \in TaskState
    BY <1>1, TaskType
  <2>2. KnownCall(task[t])
    BY <1>1 DEF CallsKnown
  <2>3. CASE task'[t] = task[t]
    BY <1>3, <2>1, <2>2, <2>3 DEF KnownCall
  <2>4. CASE task[t].stage # "idle" /\ task'[t] = [task[t] EXCEPT !.stage = "cancelled"]
    <3>1. task'[t].stage = "cancelled" /\ task'[t].run = task[t].run
      BY <2>1, <2>4 DEF TaskState
    <3> QED
      BY <2>2, <2>4, <3>1 DEF KnownCall
  <2> QED
    BY <2>3, <2>4
<1>6. CallsKnown'
  BY <1>5 DEF CallsKnown
<1>7. CursorKnown'
  <2>1. ASSUME NEW x \in Run PROVE cursor'[x] <= Len(log'[x])
    <3>1. cursor'[x] \in 0 .. MaxEvents /\ cursor'[x] <= Len(log[x])
      BY <1>1 DEF TypeOK, CursorKnown, record
    <3> QED
      BY <1>3, <3>1
  <2> QED
    BY <2>1 DEF CursorKnown
<1> QED
  BY <1>4, <1>6, <1>7 DEF Typed

\* A step that moves one call and writes to the record of runs.
LEMMA SyncTyped ==
    ASSUME Typed, NEW t \in Task, NEW k \in TaskState,
           task' = [task EXCEPT ![t] = k], KnownCall(k),
           status' \in [Run -> LocalStatus], cursor' \in [Run -> 0 .. MaxEvents],
           \A r \in Run : cursor'[r] <= Len(log[r]),
           steps' \in [Run -> Seq(1 .. MaxEvents)],
           messages' \in Seq([run : Run, seq : 1 .. MaxEvents]),
           UNCHANGED <<log, bound, submitting>>
    PROVE  Typed'
<1>1. task' \in [Task -> TaskState] /\ CallsKnown'
  BY OneTaskTyped
<1> QED
  BY <1>1 DEF Typed, TypeOK, CursorKnown

\* What a call that turns to its next run waits for.
LEMMA TurnedCall ==
    ASSUME Typed, NEW t \in Task, TurnsToNext(t)
    PROVE  \E k \in TaskState :
               /\ task' = [task EXCEPT ![t] = k]
               /\ KnownCall(k)
               /\ \/ k.stage = "idle"
                  \/ k.stage = "asking" /\ k.after = cursor[k.run]
<1>1. PICK k \in TaskState :
        /\ task' = [task EXCEPT ![t] = k]
        /\ \/ k.stage = "idle"
           \/ \E r \in Run : k.stage = "asking" /\ k.run = r /\ k.after = cursor[r]
  BY TurnsIs DEF Turned, Typed
<1>2. KnownCall(k)
  BY <1>1 DEF KnownCall, Typed, CursorKnown
<1> QED
  BY <1>1, <1>2

LEMMA StatusWritten ==
    ASSUME TypeOK, NEW r \in Run, NEW s \in RemoteStatus,
           status' = [status EXCEPT ![r] = StatusAfter(@, s)]
    PROVE  /\ status' \in [Run -> LocalStatus]
           /\ status'[r] = StatusAfter(status[r], s)
           /\ \A x \in Run : x # r => status'[x] = status[x]
<1>1. StatusAfter(status[r], s) \in LocalStatus
  BY StatusAfterType DEF TypeOK
<1> QED
  BY <1>1 DEF TypeOK

\* The event a call applies is one of the log, and its number one of a page.
LEMMA EventApplied ==
    ASSUME Typed, NEW t \in Task, task[t].stage = "applying", task[t].after < task[t].upto
    PROVE  LET r == task[t].run
               seq == task[t].after + 1
           IN  /\ r \in Run /\ seq \in 1 .. Len(log[r]) /\ seq \in 1 .. MaxEvents
               /\ seq <= task[t].upto /\ log[r][seq] \in Entry
<1>1. task[t].run \in Run /\ task[t].after <= task[t].upto /\ task[t].upto <= Len(log[task[t].run])
  BY DEF Typed, CallsKnown, KnownCall
<1>2. task[t].after \in 0 .. MaxEvents /\ task[t].upto \in 0 .. MaxEvents
  BY TaskType DEF Typed
<1>3. log[task[t].run] \in Seq(Entry) /\ Len(log[task[t].run]) \in Nat
      /\ Len(log[task[t].run]) <= MaxEvents
  BY <1>1, LenProperties DEF Typed, TypeOK
<1>4. task[t].after + 1 \in 1 .. Len(log[task[t].run]) /\ task[t].after + 1 \in 1 .. MaxEvents
      /\ task[t].after + 1 <= task[t].upto
  BY <1>1, <1>2, <1>3, MirrorAssumption
<1>5. log[task[t].run][task[t].after + 1] \in Entry
  BY <1>3, <1>4, ElementOfSeq
<1> QED
  BY <1>1, <1>4, <1>5

LEMMA StepOnceIs ==
    ASSUME NEW n \in Nat, NEW s \in Seq(1 .. n), NEW i \in 1 .. n
    PROVE  /\ StepOnce(s, i) \in Seq(1 .. n)
           /\ i \in Range(s) => StepOnce(s, i) = s
           /\ i \notin Range(s) => StepOnce(s, i) = Append(s, i)
<1>1. DOMAIN s = 1 .. Len(s)
  BY LenProperties
<1>2. Contains(s, i) <=> i \in Range(s)
  BY <1>1, RangeOfList DEF Contains
<1>3. Append(s, i) \in Seq(1 .. n)
  OBVIOUS
<1> QED
  BY <1>2, <1>3 DEF StepOnce

LEMMA MessageOnceIs ==
    ASSUME NEW T, NEW lines \in Seq(T), NEW line \in T
    PROVE  /\ MessageOnce(lines, line) \in Seq(T)
           /\ MessageOnce(lines, line) = lines
              \/ /\ MessageOnce(lines, line) = Append(lines, line)
                 /\ \A i \in 1 .. Len(lines) : lines[i].seq # line.seq
<1>1. DOMAIN lines = 1 .. Len(lines) /\ Append(lines, line) \in Seq(T)
  BY LenProperties
<1> QED
  BY <1>1 DEF MessageOnce

LEMMA StepTyped == Typed /\ [Next]_vars => Typed'
<1> SUFFICES ASSUME Typed, [Next]_vars PROVE Typed'
  OBVIOUS
<1>a. TypeOK /\ CallsKnown /\ CursorKnown
  BY DEF Typed
<1>1. CASE UNCHANGED vars
  BY <1>1, <1>a DEF vars, Typed, TypeOK, CallsKnown, KnownCall, CursorKnown
<1>2. ASSUME NEW r \in Run, Start(r) PROVE Typed'
  <2>1. status' \in [Run -> LocalStatus]
    BY <1>2, <1>a DEF Start, TypeOK, LocalStatus
  <2> QED
    BY <1>2, <1>a, <2>1, RecordTyped DEF Start, TypeOK
<1>3. ASSUME NEW r \in Run, SubmissionArrives(r) PROVE Typed'
  <2>1. Room(r)
    BY <1>3, MirrorAssumption, EmptySeq DEF SubmissionArrives, Room
  <2> QED
    BY <1>3, <1>a, <2>1, EventTyped DEF SubmissionArrives, TypeOK, Entry
<1>4. ASSUME NEW r \in Run, Accepted(r) PROVE Typed'
  <2>1. status' \in [Run -> LocalStatus]
    BY <1>4, <1>a, StatusWritten DEF Accepted, RemoteStatus
  <2> QED
    BY <1>4, <1>a, <2>1, RecordTyped DEF Accepted, TypeOK
<1>5. ASSUME NEW r \in Run, Unsent(r) PROVE Typed'
  BY <1>5, <1>a, RecordTyped DEF Unsent, TypeOK, record
<1>6. ASSUME NEW r \in Run, DriveReports(r) PROVE Typed'
  <2>1. PICK e \in {"step", "message"} \cup NextStatus(StatusIn(log[r])) : Recorded(r, e)
    BY <1>6 DEF DriveReports
  <2>2. e \in Entry
    BY <2>1, NextStatusType DEF Entry
  <2> QED
    BY <1>6, <1>a, <2>1, <2>2, EventTyped DEF DriveReports, TypeOK
<1>7. ASSUME NEW t \in Task, SyncAll(t) PROVE Typed'
  <2>1. PICK r \in listUnfinishedRemote :
          task' = [task EXCEPT ![t] = Asking(r, listUnfinishedRemote \ {r})]
    BY <1>7 DEF SyncAll
  <2>2. r \in Run /\ listUnfinishedRemote \ {r} \in SUBSET Run
    BY <2>1 DEF listUnfinishedRemote
  <2>3. PICK k : k = Asking(r, listUnfinishedRemote \ {r})
    OBVIOUS
  <2>4. k \in TaskState /\ KnownCall(k)
    BY <1>a, <2>2, <2>3, AskingType DEF KnownCall, CursorKnown
  <2>5. task' = [task EXCEPT ![t] = k]
    BY <2>1, <2>3
  <2> QED
    BY <1>7, <2>4, <2>5, CallTyped DEF SyncAll
<1>8. ASSUME NEW t \in Task, Cancel(t) PROVE Typed'
  <2>1. PICK r \in Run : task' = [task EXCEPT ![t] = [Idle EXCEPT !.stage = "cancelling", !.run = r]]
    BY <1>8 DEF Cancel
  <2>2. PICK i : i = Idle
    OBVIOUS
  <2>3. PICK k : k = [i EXCEPT !.stage = "cancelling", !.run = r]
    OBVIOUS
  <2>4. k \in TaskState /\ KnownCall(k)
    BY <2>2, <2>3, IdleType DEF TaskState, Stage, KnownCall
  <2>5. task' = [task EXCEPT ![t] = k]
    BY <2>1, <2>2, <2>3
  <2> QED
    BY <1>8, <2>4, <2>5, CallTyped DEF Cancel
<1>9. ASSUME NEW t \in Task, ServeEvents(t) PROVE Typed'
  <2>1. task[t].stage = "asking" /\ task[t] \in TaskState /\ task[t].after \in 0 .. MaxEvents
        /\ KnownCall(task[t])
    BY <1>9, <1>a, TaskType DEF ServeEvents, CallsKnown
  <2>2. PICK j : j = task[t]
    OBVIOUS
  <2>3. j \in TaskState /\ j.stage = "asking" /\ j.run \in Run /\ j.after \in 0 .. MaxEvents
        /\ j.after <= Len(log[j.run])
    BY <2>1, <2>2 DEF KnownCall
  <2>4. log[j.run] \in Seq(Entry) /\ Len(log[j.run]) \in Nat /\ Len(log[j.run]) <= MaxEvents
    BY <1>a, <2>3, LenProperties DEF TypeOK
  <2>5. StatusIn(log[j.run]) \in RemoteStatus
    BY <2>4, StatusInIs
  <2>6. PageEnd(j) \in 0 .. MaxEvents /\ j.after <= PageEnd(j) /\ PageEnd(j) <= Len(log[j.run])
    BY <2>3, <2>4, MirrorAssumption DEF PageEnd
  <2>7. PICK k : k = [j EXCEPT !.stage = "served", !.upto = PageEnd(j),
                              !.full = PageEnd(j) = j.after + PageSize,
                              !.status = StatusIn(log[j.run])]
    OBVIOUS
  <2>8. k \in TaskState /\ KnownCall(k)
    BY <2>3, <2>5, <2>6, <2>7 DEF TaskState, Stage, KnownCall
  <2>9. task' = [task EXCEPT ![t] = k]
    BY <1>9, <2>2, <2>7 DEF ServeEvents
  <2> QED
    BY <1>9, <2>8, <2>9, CallTyped DEF ServeEvents
<1>10. ASSUME NEW t \in Task, ServeCancel(t) PROVE Typed'
  <2>1. task[t].stage = "cancelling" /\ task[t] \in TaskState /\ task[t].run \in Run
    BY <1>10, <1>a, TaskType DEF ServeCancel, CallsKnown, KnownCall
  <2>2. PICK k : k = [task[t] EXCEPT !.stage = "cancelled"]
    OBVIOUS
  <2>3. k \in TaskState /\ KnownCall(k) /\ task' = [task EXCEPT ![t] = k]
    BY <1>10, <2>1, <2>2 DEF TaskState, Stage, KnownCall, ServeCancel
  <2>4. CASE UNCHANGED log
    BY <1>10, <2>3, <2>4, CallTyped DEF ServeCancel
  <2>5. CASE Room(task[t].run) /\ Recorded(task[t].run, "CANCELLED")
    <3>1. task' \in [Task -> TaskState]
      BY <1>a, <2>3 DEF TypeOK
    <3>2. \A u \in Task :
            \/ task'[u] = task[u]
            \/ task[u].stage # "idle" /\ task'[u] = [task[u] EXCEPT !.stage = "cancelled"]
      BY <1>a, <2>1, <2>2, <2>3 DEF TypeOK
    <3> QED
      BY <1>10, <2>1, <2>5, <3>1, <3>2, EventTyped
         DEF ServeCancel, Entry, RemoteStatus, RemoteTerminal
  <2> QED
    BY <1>10, <2>4, <2>5 DEF ServeCancel
<1>11. ASSUME NEW t \in Task, NothingNew(t) PROVE Typed'
  <2>1. task[t].run \in Run /\ task[t].status \in RemoteStatus
    BY <1>11, <1>a, TaskType DEF NothingNew, CallsKnown, KnownCall
  <2>2. status' \in [Run -> LocalStatus]
    BY <1>11, <1>a, <2>1, StatusWritten DEF NothingNew
  <2>3. PICK k \in TaskState : task' = [task EXCEPT ![t] = k] /\ KnownCall(k)
    BY <1>11, TurnedCall DEF NothingNew
  <2> QED
    BY <1>11, <1>a, <2>1, <2>2, <2>3, SyncTyped DEF NothingNew, TypeOK, CursorKnown
<1>12. ASSUME NEW t \in Task, PageArrives(t) PROVE Typed'
  <2>1. task[t].stage = "served" /\ task[t] \in TaskState /\ KnownCall(task[t])
    BY <1>12, <1>a, TaskType DEF PageArrives, CallsKnown
  <2>2. PICK k : k = [task[t] EXCEPT !.stage = "applying"]
    OBVIOUS
  <2>3. k \in TaskState /\ KnownCall(k) /\ task' = [task EXCEPT ![t] = k]
    BY <1>12, <2>1, <2>2 DEF TaskState, Stage, KnownCall, PageArrives
  <2> QED
    BY <1>12, <2>3, CallTyped DEF PageArrives
<1>13. ASSUME NEW t \in Task, ApplyEvent(t) PROVE Typed'
  <2>1. PICK r, seq : r = task[t].run /\ seq = task[t].after + 1
    OBVIOUS
  <2>2. task[t].stage = "applying" /\ task[t] \in TaskState /\ KnownCall(task[t])
        /\ task[t].after < task[t].upto
    BY <1>13, <1>a, TaskType DEF ApplyEvent, CallsKnown
  <2>3. r \in Run /\ seq \in 1 .. Len(log[r]) /\ seq \in 1 .. MaxEvents
        /\ seq <= task[t].upto /\ log[r][seq] \in Entry
    BY <2>1, <2>2, EventApplied
  <2>4. PICK k : k = [task[t] EXCEPT !.after = seq]
    OBVIOUS
  <2>5. k \in TaskState /\ KnownCall(k)
    BY <2>1, <2>2, <2>3, <2>4 DEF TaskState, KnownCall
  <2>6. task' = [task EXCEPT ![t] = k]
    BY <1>13, <2>1, <2>4 DEF ApplyEvent
  <2>7. StepOnce(steps[r], seq) \in Seq(1 .. MaxEvents)
    BY <1>a, <2>3, StepOnceIs, MirrorAssumption DEF TypeOK
  <2>8. MessageOnce(messages, [run |-> r, seq |-> seq]) \in Seq([run : Run, seq : 1 .. MaxEvents])
    BY <1>a, <2>3, MessageOnceIs DEF TypeOK
  <2>9. status' \in [Run -> LocalStatus] /\ steps' \in [Run -> Seq(1 .. MaxEvents)]
        /\ messages' \in Seq([run : Run, seq : 1 .. MaxEvents])
    <3>1. CASE Visible(log[r][seq])
      BY <1>13, <1>a, <2>1, <2>7, <2>8, <3>1 DEF ApplyEvent, TypeOK
    <3>2. CASE ~ Visible(log[r][seq])
      <4>1. log[r][seq] \in RemoteStatus
        BY <2>3, <3>2 DEF Visible
      <4>2. status' = [status EXCEPT ![r] = StatusAfter(@, log[r][seq])]
        BY <1>13, <2>1, <3>2 DEF ApplyEvent
      <4> QED
        BY <1>13, <1>a, <2>1, <2>3, <3>2, <4>1, <4>2, StatusWritten DEF ApplyEvent, TypeOK
    <3> QED
      BY <3>1, <3>2
  <2> QED
    BY <1>13, <1>a, <2>5, <2>6, <2>9, SyncTyped DEF ApplyEvent, TypeOK, CursorKnown
<1>14. ASSUME NEW t \in Task, PageApplied(t) PROVE Typed'
  <2>1. task[t].run \in Run /\ task[t].status \in RemoteStatus /\ task[t] \in TaskState
        /\ task[t].upto \in 0 .. MaxEvents /\ KnownCall(task[t])
        /\ task[t].upto <= Len(log[task[t].run]) /\ task[t].stage = "applying"
    BY <1>14, <1>a, TaskType DEF PageApplied, CallsKnown, KnownCall
  <2>2. status' \in [Run -> LocalStatus]
    BY <1>14, <1>a, <2>1, StatusWritten DEF PageApplied
  <2>3. cursor' \in [Run -> 0 .. MaxEvents] /\ \A r \in Run : cursor'[r] <= Len(log[r])
    BY <1>14, <1>a, <2>1 DEF PageApplied, CursorAt, TypeOK, CursorKnown
  <2>4. \E k \in TaskState : task' = [task EXCEPT ![t] = k] /\ KnownCall(k)
    <3>1. CASE task[t].full
      <4>1. PICK k : k = [task[t] EXCEPT !.stage = "asking"]
        OBVIOUS
      <4>2. k \in TaskState /\ KnownCall(k) /\ task' = [task EXCEPT ![t] = k]
        BY <1>14, <2>1, <3>1, <4>1 DEF TaskState, Stage, KnownCall, PageApplied, AsksOn
      <4> QED
        BY <4>2
    <3>2. CASE ~ task[t].full
      BY <1>14, <3>2, TurnedCall DEF PageApplied
    <3> QED
      BY <3>1, <3>2
  <2> QED
    BY <1>14, <1>a, <2>2, <2>3, <2>4, SyncTyped DEF PageApplied, TypeOK
<1>15. ASSUME NEW t \in Task, CancelAnswered(t) PROVE Typed'
  <2>1. task[t].run \in Run
    BY <1>15, <1>a DEF CancelAnswered, CallsKnown, KnownCall
  <2>2. PICK k : k = Asking(task[t].run, {})
    OBVIOUS
  <2>3. k \in TaskState /\ KnownCall(k)
    BY <1>a, <2>1, <2>2, AskingType DEF KnownCall, CursorKnown
  <2>4. task' = [task EXCEPT ![t] = k]
    BY <1>15, <2>2 DEF CancelAnswered
  <2> QED
    BY <1>15, <2>3, <2>4, CallTyped DEF CancelAnswered
<1>16. ASSUME NEW t \in Task, RequestFails(t) PROVE Typed'
  <2>1. PICK k \in TaskState : task' = [task EXCEPT ![t] = k] /\ KnownCall(k)
    BY <1>16, TurnedCall DEF RequestFails
  <2> QED
    BY <1>16, <2>1, CallTyped DEF RequestFails
<1>17. CASE Restart
  <2>1. task' \in [Task -> TaskState] /\ CallsKnown'
    BY <1>17, IdleType DEF Restart, CallsKnown, KnownCall
  <2>2. status' \in [Run -> LocalStatus]
    BY <1>17, <1>a DEF Restart, Reconciled, TypeOK, LocalStatus, Terminal
  <2> QED
    BY <1>17, <1>a, <2>1, <2>2 DEF Restart, Typed, TypeOK, CursorKnown
<1> QED
  BY <1>1, <1>2, <1>3, <1>4, <1>5, <1>6, <1>7, <1>8, <1>9, <1>10, <1>11, <1>12, <1>13, <1>14,
     <1>15, <1>16, <1>17 DEF Next, CallStep

\* The state of the mirror, of its calls and of the logs is always well-formed.
THEOREM TypeCorrect == Spec => []TypeOK
<1>1. Init => Typed
  BY InitTyped
<1>2. Typed /\ [Next]_vars => Typed'
  BY StepTyped
<1>3. Typed => TypeOK
  BY DEF Typed
<1> QED
  BY <1>1, <1>2, <1>3, PTL DEF Spec

-----------------------------------------------------------------------------
(* What a step does to the logs, to the steps and to the calls             *)

LEMMA LogStep ==
    ASSUME Typed, [Next]_vars
    PROVE  \/ UNCHANGED log
           \/ UNCHANGED record /\ \E r \in Run, e \in Entry : LogGrows(r, e)
<1>a. TypeOK /\ CallsKnown
  BY DEF Typed
<1>1. ASSUME NEW r \in Run, NEW e \in Entry, Recorded(r, e)
      PROVE  \E x \in Run, y \in Entry : LogGrows(x, y)
  BY <1>1, <1>a, RecordedGrows
<1>2. ASSUME NEW r \in Run, SubmissionArrives(r)
      PROVE  UNCHANGED record /\ \E x \in Run, y \in Entry : LogGrows(x, y)
  BY <1>1, <1>2 DEF SubmissionArrives, Entry
<1>3. ASSUME NEW r \in Run, DriveReports(r)
      PROVE  UNCHANGED record /\ \E x \in Run, y \in Entry : LogGrows(x, y)
  <2>1. PICK e \in {"step", "message"} \cup NextStatus(StatusIn(log[r])) : Recorded(r, e)
    BY <1>3 DEF DriveReports
  <2>2. e \in Entry
    BY <2>1, NextStatusType DEF Entry
  <2> QED
    BY <1>1, <1>3, <2>1, <2>2 DEF DriveReports
<1>4. ASSUME NEW t \in Task, ServeCancel(t)
      PROVE  \/ UNCHANGED log
             \/ UNCHANGED record /\ \E x \in Run, y \in Entry : LogGrows(x, y)
  <2>1. task[t].run \in Run
    BY <1>4, <1>a DEF ServeCancel, CallsKnown, KnownCall
  <2> QED
    BY <1>1, <1>4, <2>1 DEF ServeCancel, Entry, RemoteStatus, RemoteTerminal
<1>5. ASSUME NEW r \in Run, Start(r) \/ Accepted(r) \/ Unsent(r) PROVE UNCHANGED log
  BY <1>5 DEF Start, Accepted, Unsent
<1>6. ASSUME NEW t \in Task,
             \/ SyncAll(t) \/ Cancel(t) \/ ServeEvents(t) \/ NothingNew(t) \/ PageArrives(t)
             \/ ApplyEvent(t) \/ PageApplied(t) \/ CancelAnswered(t) \/ RequestFails(t)
      PROVE  UNCHANGED log
  BY <1>6 DEF SyncAll, Cancel, ServeEvents, NothingNew, PageArrives, ApplyEvent, PageApplied,
              CancelAnswered, RequestFails
<1> QED
  BY <1>2, <1>3, <1>4, <1>5, <1>6 DEF Next, CallStep, vars, Restart

\* Nothing that was recorded is lost or changed.
LEMMA LogsKept ==
    ASSUME Typed, [Next]_vars, NEW r \in Run
    PROVE  /\ log[r] \in Seq(Entry) /\ log'[r] \in Seq(Entry)
           /\ Len(log[r]) \in Nat /\ Len(log'[r]) \in Nat /\ Len(log[r]) <= Len(log'[r])
           /\ \A i \in 1 .. Len(log[r]) : log'[r][i] = log[r][i]
<1>1. Typed'
  BY StepTyped
<1>2. log[r] \in Seq(Entry) /\ log'[r] \in Seq(Entry)
  BY <1>1 DEF Typed, TypeOK
<1>3. Len(log[r]) \in Nat /\ Len(log'[r]) \in Nat
  BY <1>2, LenProperties
<1>4. Len(log[r]) <= Len(log'[r]) /\ \A i \in 1 .. Len(log[r]) : log'[r][i] = log[r][i]
  BY <1>3, LogStep DEF LogGrows
<1> QED
  BY <1>2, <1>3, <1>4

LEMMA StepsStep ==
    ASSUME Typed, [Next]_vars
    PROVE  \/ UNCHANGED steps
           \/ \E t \in Task : ApplyEvent(t)
<1>1. ASSUME NEW r \in Run,
             Start(r) \/ SubmissionArrives(r) \/ Accepted(r) \/ Unsent(r) \/ DriveReports(r)
      PROVE  UNCHANGED steps
  BY <1>1 DEF Start, SubmissionArrives, Accepted, Unsent, DriveReports, record
<1>2. ASSUME NEW t \in Task,
             \/ SyncAll(t) \/ Cancel(t) \/ ServeEvents(t) \/ ServeCancel(t) \/ NothingNew(t)
             \/ PageArrives(t) \/ PageApplied(t) \/ CancelAnswered(t) \/ RequestFails(t)
      PROVE  UNCHANGED steps
  BY <1>2 DEF SyncAll, Cancel, ServeEvents, ServeCancel, NothingNew, PageArrives, PageApplied,
              CancelAnswered, RequestFails, record
<1> QED
  BY <1>1, <1>2 DEF Next, CallStep, vars, Restart

\* What applying an event does to the steps of its run.
LEMMA StepsApplied ==
    ASSUME Typed, NEW t \in Task, ApplyEvent(t),
           NEW r, r = task[t].run, NEW seq, seq = task[t].after + 1
    PROVE  /\ r \in Run /\ seq \in 1 .. Len(log[r]) /\ seq \in 1 .. MaxEvents
           /\ UNCHANGED log /\ steps[r] \in Seq(1 .. MaxEvents)
           /\ \A x \in Run : x # r => steps'[x] = steps[x]
           /\ ~ Visible(log[r][seq]) => steps' = steps
           /\ Visible(log[r][seq]) /\ seq \in Range(steps[r]) => steps'[r] = steps[r]
           /\ Visible(log[r][seq]) /\ seq \notin Range(steps[r]) =>
                  steps'[r] = Append(steps[r], seq)
<1>1. r \in Run /\ seq \in 1 .. Len(log[r]) /\ seq \in 1 .. MaxEvents
  BY EventApplied DEF ApplyEvent
<1>2. steps \in [Run -> Seq(1 .. MaxEvents)] /\ steps[r] \in Seq(1 .. MaxEvents)
  BY <1>1 DEF Typed, TypeOK
<1>3. Visible(log[r][seq]) => steps' = [steps EXCEPT ![r] = StepOnce(@, seq)]
  BY DEF ApplyEvent
<1>4. ~ Visible(log[r][seq]) => steps' = steps
  BY DEF ApplyEvent
<1>5. /\ seq \in Range(steps[r]) => StepOnce(steps[r], seq) = steps[r]
      /\ seq \notin Range(steps[r]) => StepOnce(steps[r], seq) = Append(steps[r], seq)
  <2>1. PICK u : u = steps[r]
    OBVIOUS
  <2>2. u \in Seq(1 .. MaxEvents) /\ seq \in 1 .. MaxEvents /\ MaxEvents \in Nat
    BY <1>1, <1>2, <2>1, MirrorAssumption
  <2>3. /\ seq \in Range(u) => StepOnce(u, seq) = u
        /\ seq \notin Range(u) => StepOnce(u, seq) = Append(u, seq)
    BY <2>2, StepOnceIs
  <2> QED
    BY <2>1, <2>3
<1>6. UNCHANGED log
  BY DEF ApplyEvent
<1> QED
  BY <1>1, <1>2, <1>3, <1>4, <1>5, <1>6

\* What the mirror shows stays, and an event that is applied is shown.
LEMMA StepsKept ==
    ASSUME Typed, [Next]_vars, NEW x \in Run
    PROVE  /\ steps[x] \in Seq(1 .. MaxEvents) /\ steps'[x] \in Seq(1 .. MaxEvents)
           /\ \A i : i \in Range(steps[x]) => i \in Range(steps'[x])
<1>1. Typed'
  BY StepTyped
<1>2. steps[x] \in Seq(1 .. MaxEvents) /\ steps'[x] \in Seq(1 .. MaxEvents)
  BY <1>1 DEF Typed, TypeOK
<1>3. CASE steps'[x] = steps[x]
  BY <1>2, <1>3
<1>4. CASE steps'[x] # steps[x]
  <2>1. PICK t \in Task : ApplyEvent(t)
    BY <1>4, StepsStep
  <2>2. PICK r, seq : r = task[t].run /\ seq = task[t].after + 1
    OBVIOUS
  <2>3. seq \in 1 .. MaxEvents /\ steps'[x] = Append(steps[x], seq)
    BY <1>4, <2>1, <2>2, StepsApplied
  <2>4. ASSUME NEW i, i \in Range(steps[x]) PROVE i \in Range(steps'[x])
    <3>1. PICK u : u = steps[x]
      OBVIOUS
    <3>2. u \in Seq(1 .. MaxEvents) /\ seq \in 1 .. MaxEvents /\ i \in Range(u)
      BY <1>2, <2>3, <2>4, <3>1
    <3>3. i \in Range(Append(u, seq))
      BY <3>2, AppendRange
    <3> QED
      BY <2>3, <3>1, <3>3
  <2> QED
    BY <1>2, <2>4
<1> QED
  BY <1>3, <1>4

\* What a step does to a call: it leaves it, turns it to a run whose cursor it
\* reads, brings it a page and the status beside it, or moves it on in its page.
Turns(k) == k.stage \in {"asking", "served", "applying"} =>
                k.stage = "asking" /\ k.run \in Run /\ k.after = cursor[k.run]

CallMoves(t) ==
    \/ task'[t] = task[t]
    \/ Turns(task'[t])
    \/ /\ task'[t].run = task[t].run /\ task'[t].after = task[t].after
       /\ \/ /\ task[t].stage = "asking" /\ task'[t].stage = "served"
             /\ task'[t].status = StatusIn(log[task[t].run])
          \/ /\ task[t].stage \in {"served", "applying"}
             /\ task'[t].stage \in {"applying", "asking"}
             /\ task'[t].status = task[t].status
    \/ /\ ApplyEvent(t)
       /\ task'[t].run = task[t].run /\ task'[t].after = task[t].after + 1
       /\ task'[t].stage = "applying" /\ task'[t].status = task[t].status

LEMMA TurnsToNextMoves ==
    ASSUME Typed, NEW t \in Task, TurnsToNext(t)
    PROVE  Turns(task'[t]) /\ \A u \in Task : u # t => task'[u] = task[u]
<1>1. PICK k \in TaskState :
        /\ task' = [task EXCEPT ![t] = k]
        /\ KnownCall(k)
        /\ \/ k.stage = "idle"
           \/ k.stage = "asking" /\ k.after = cursor[k.run]
  BY TurnedCall
<1>2. task'[t] = k /\ \A u \in Task : u # t => task'[u] = task[u]
  BY <1>1 DEF Typed, TypeOK
<1> QED
  BY <1>1, <1>2 DEF Turns, KnownCall

LEMMA CallStepMoves ==
    ASSUME Typed, [Next]_vars, NEW u \in Task
    PROVE  CallMoves(u)
<1>a. TypeOK /\ CallsKnown /\ task \in [Task -> TaskState]
  BY DEF Typed, TypeOK
<1>1. ASSUME NEW r \in Run,
             Start(r) \/ SubmissionArrives(r) \/ Accepted(r) \/ Unsent(r) \/ DriveReports(r)
      PROVE  CallMoves(u)
  BY <1>1 DEF Start, SubmissionArrives, Accepted, Unsent, DriveReports, CallMoves
<1>2. CASE UNCHANGED vars
  BY <1>2 DEF vars, CallMoves
<1>3. CASE Restart
  BY <1>3, IdleType DEF Restart, CallMoves, Turns
<1>4. ASSUME NEW t \in Task, NothingNew(t) \/ RequestFails(t) PROVE CallMoves(u)
  BY <1>4, TurnsToNextMoves DEF NothingNew, RequestFails, CallMoves
<1>5. ASSUME NEW t \in Task, NEW r \in Run, NEW todo \in SUBSET Run,
             task' = [task EXCEPT ![t] = Asking(r, todo)]
      PROVE  CallMoves(u)
  <2>1. CASE u = t
    <3>1. task'[u] = Asking(r, todo)
      BY <1>5, <1>a, <2>1
    <3> QED
      BY <1>a, <3>1, AskingType DEF CallMoves, Turns
  <2>2. CASE u # t
    BY <1>5, <1>a, <2>2 DEF CallMoves
  <2> QED
    BY <2>1, <2>2
<1>6. ASSUME NEW t \in Task, SyncAll(t) PROVE CallMoves(u)
  <2>1. PICK r \in listUnfinishedRemote :
          task' = [task EXCEPT ![t] = Asking(r, listUnfinishedRemote \ {r})]
    BY <1>6 DEF SyncAll
  <2>2. r \in Run /\ listUnfinishedRemote \ {r} \in SUBSET Run
    BY <2>1 DEF listUnfinishedRemote
  <2> QED
    BY <1>5, <2>1, <2>2
<1>7. ASSUME NEW t \in Task, CancelAnswered(t) PROVE CallMoves(u)
  <2>1. task[t].run \in Run /\ {} \in SUBSET Run
    BY <1>7, <1>a DEF CancelAnswered, CallsKnown, KnownCall
  <2> QED
    BY <1>5, <1>7, <2>1 DEF CancelAnswered
<1>8. ASSUME NEW t \in Task, NEW k, task' = [task EXCEPT ![t] = k],
             k.stage \notin {"asking", "served", "applying"}
      PROVE  CallMoves(u)
  BY <1>8, <1>a DEF CallMoves, Turns
<1>9. ASSUME NEW t \in Task, Cancel(t) PROVE CallMoves(u)
  <2>1. PICK r \in Run : task' = [task EXCEPT ![t] = [Idle EXCEPT !.stage = "cancelling", !.run = r]]
    BY <1>9 DEF Cancel
  <2>2. [Idle EXCEPT !.stage = "cancelling", !.run = r].stage = "cancelling"
    BY DEF Idle
  <2> QED
    BY <1>8, <2>1, <2>2
<1>10. ASSUME NEW t \in Task, ServeCancel(t) PROVE CallMoves(u)
  <2>1. task' = [task EXCEPT ![t] = [task[t] EXCEPT !.stage = "cancelled"]]
    BY <1>10 DEF ServeCancel
  <2>2. [task[t] EXCEPT !.stage = "cancelled"].stage = "cancelled"
    BY <1>a DEF TaskState
  <2> QED
    BY <1>8, <2>1, <2>2
<1>11. ASSUME NEW t \in Task, ServeEvents(t) PROVE CallMoves(u)
  <2>1. CASE u = t
    <3>1. PICK k : k = task[t]
      OBVIOUS
    <3>2. k \in TaskState
      BY <1>a, <3>1
    <3>3. task'[u] = [k EXCEPT !.stage = "served", !.upto = PageEnd(k),
                                !.full = PageEnd(k) = k.after + PageSize,
                                !.status = StatusIn(log[k.run])]
      BY <1>11, <1>a, <2>1, <3>1 DEF ServeEvents
    <3>4. task'[u].run = k.run /\ task'[u].after = k.after /\ task'[u].stage = "served"
          /\ task'[u].status = StatusIn(log[k.run])
      BY <3>2, <3>3 DEF TaskState
    <3>5. k.stage = "asking"
      BY <1>11, <3>1 DEF ServeEvents
    <3> QED
      BY <2>1, <3>1, <3>4, <3>5 DEF CallMoves
  <2>2. CASE u # t
    BY <1>11, <1>a, <2>2 DEF CallMoves, ServeEvents
  <2> QED
    BY <2>1, <2>2
<1>12. ASSUME NEW t \in Task, NEW stage, task' = [task EXCEPT ![t] = [task[t] EXCEPT !.stage = stage]],
              task[t].stage \in {"served", "applying"}, stage \in {"applying", "asking"}
       PROVE  CallMoves(u)
  <2>1. CASE u = t
    <3>1. task'[u] = [task[t] EXCEPT !.stage = stage]
      BY <1>12, <1>a, <2>1
    <3>2. task'[u].run = task[t].run /\ task'[u].after = task[t].after /\ task'[u].stage = stage
          /\ task'[u].status = task[t].status
      BY <1>a, <3>1 DEF TaskState
    <3> QED
      BY <1>12, <2>1, <3>2 DEF CallMoves
  <2>2. CASE u # t
    BY <1>12, <1>a, <2>2 DEF CallMoves
  <2> QED
    BY <2>1, <2>2
<1>13. ASSUME NEW t \in Task, PageArrives(t) PROVE CallMoves(u)
  BY <1>12, <1>13 DEF PageArrives
<1>14. ASSUME NEW t \in Task, PageApplied(t) PROVE CallMoves(u)
  <2>1. CASE task[t].full
    BY <1>12, <1>14, <2>1 DEF PageApplied, AsksOn
  <2>2. CASE ~ task[t].full
    BY <1>14, <2>2, TurnsToNextMoves DEF PageApplied, CallMoves
  <2> QED
    BY <2>1, <2>2
<1>15. ASSUME NEW t \in Task, ApplyEvent(t) PROVE CallMoves(u)
  <2>1. CASE u = t
    <3>1. task'[u] = [task[t] EXCEPT !.after = task[t].after + 1]
      BY <1>15, <1>a, <2>1 DEF ApplyEvent
    <3>2. task'[u].run = task[t].run /\ task'[u].after = task[t].after + 1
          /\ task'[u].stage = task[t].stage /\ task'[u].status = task[t].status
      BY <1>a, <3>1 DEF TaskState
    <3>3. task[t].stage = "applying"
      BY <1>15 DEF ApplyEvent
    <3> QED
      BY <1>15, <2>1, <3>2, <3>3 DEF CallMoves
  <2>2. CASE u # t
    <3>1. task'[u] = task[u]
      BY <1>15, <1>a, <2>2 DEF ApplyEvent
    <3> QED
      BY <3>1 DEF CallMoves
  <2> QED
    BY <2>1, <2>2
<1> QED
  BY <1>1, <1>2, <1>3, <1>4, <1>6, <1>7, <1>9, <1>10, <1>11, <1>13, <1>14, <1>15
     DEF Next, CallStep

\* The cursor of a run moves to the end of a page that is applied, or not.
LEMMA CursorStep ==
    ASSUME Typed, [Next]_vars, NEW r \in Run
    PROVE  \/ cursor'[r] = cursor[r]
           \/ \E t \in Task : /\ task[t].stage = "applying" /\ task[t].after = task[t].upto
                              /\ task[t].run = r /\ cursor'[r] = task[t].after
<1>a. cursor \in [Run -> 0 .. MaxEvents]
  BY DEF Typed, TypeOK
<1>1. ASSUME NEW x \in Run,
             Start(x) \/ SubmissionArrives(x) \/ Accepted(x) \/ Unsent(x) \/ DriveReports(x)
      PROVE  UNCHANGED cursor
  BY <1>1 DEF Start, SubmissionArrives, Accepted, Unsent, DriveReports, record
<1>2. ASSUME NEW t \in Task,
             \/ SyncAll(t) \/ Cancel(t) \/ ServeEvents(t) \/ ServeCancel(t) \/ NothingNew(t)
             \/ PageArrives(t) \/ ApplyEvent(t) \/ CancelAnswered(t) \/ RequestFails(t)
      PROVE  UNCHANGED cursor
  BY <1>2 DEF SyncAll, Cancel, ServeEvents, ServeCancel, NothingNew, PageArrives, ApplyEvent,
              CancelAnswered, RequestFails, record
<1>3. ASSUME NEW t \in Task, PageApplied(t), cursor'[r] # cursor[r]
      PROVE  /\ task[t].stage = "applying" /\ task[t].after = task[t].upto
             /\ task[t].run = r /\ cursor'[r] = task[t].after
  BY <1>3, <1>a DEF PageApplied, CursorAt
<1> QED
  BY <1>1, <1>2, <1>3 DEF Next, CallStep, vars, Restart

-----------------------------------------------------------------------------
(* Nothing is left out                                                     *)

\* What the events up to a number show is in the mirror.
Followed(r, n) == \A i \in VisibleNumbers(r) : i <= n => i \in Range(steps[r])

InLog(r, e) == \E i \in 1 .. Len(log[r]) : log[r][i] = e

\* A call asks behind what the mirror has, and the status that came with a
\* page was recorded of the run.
CallFollows(k) ==
    /\ k.stage \in {"asking", "served", "applying"} => Followed(k.run, k.after)
    /\ k.stage \in {"served", "applying"} => k.status = "QUEUED" \/ InLog(k.run, k.status)

NothingLeftOut ==
    /\ \A r \in Run : Followed(r, cursor[r])
    /\ \A t \in Task : CallFollows(task[t])

LEMMA VisibleNumbersAre ==
    ASSUME Typed, NEW r \in Run
    PROVE  /\ Len(log[r]) \in Nat /\ VisibleNumbers(r) \in SUBSET (1 .. Len(log[r]))
           /\ \A i : i \in VisibleNumbers(r) <=> i \in 1 .. Len(log[r]) /\ Visible(log[r][i])
<1>1. DOMAIN log[r] = 1 .. Len(log[r]) /\ Len(log[r]) \in Nat
  BY LenProperties DEF Typed, TypeOK
<1> QED
  BY <1>1 DEF VisibleNumbers

LEMMA FollowedStays ==
    ASSUME Typed, [Next]_vars, NEW r \in Run, NEW n \in Nat, n <= Len(log[r]), Followed(r, n)
    PROVE  Followed(r, n)'
<1>1. Typed'
  BY StepTyped
<1>2. /\ Len(log[r]) \in Nat /\ Len(log[r]) <= Len(log'[r])
      /\ \A i \in 1 .. Len(log[r]) : log'[r][i] = log[r][i]
  BY LogsKept
<1>3. \A i : i \in VisibleNumbers(r) <=> i \in 1 .. Len(log[r]) /\ Visible(log[r][i])
  BY VisibleNumbersAre
<1>4. Len(log'[r]) \in Nat
      /\ \A i : i \in VisibleNumbers(r)' <=> i \in 1 .. Len(log'[r]) /\ Visible(log'[r][i])
  <2>1. DOMAIN log'[r] = 1 .. Len(log'[r]) /\ Len(log'[r]) \in Nat
    BY <1>1, LenProperties DEF Typed, TypeOK
  <2> QED
    BY <2>1 DEF VisibleNumbers, Visible
<1>5. ASSUME NEW i, i \in VisibleNumbers(r)', i <= n
      PROVE  i \in Range(steps'[r])
  <2>1. i \in 1 .. Len(log[r]) /\ Visible(log'[r][i])
    BY <1>2, <1>4, <1>5
  <2>2. i \in VisibleNumbers(r)
    BY <1>2, <1>3, <2>1
  <2>3. i \in Range(steps[r])
    BY <1>5, <2>2 DEF Followed
  <2> QED
    BY <2>3, StepsKept
<1> QED
  BY <1>5 DEF Followed

LEMMA FollowedOn ==
    ASSUME Typed, [Next]_vars, NEW t \in Task, ApplyEvent(t),
           NEW r, r = task[t].run, NEW n, n = task[t].after, Followed(r, n)
    PROVE  Followed(r, n + 1)'
<1>1. PICK seq : seq = n + 1
  OBVIOUS
<1>2. /\ r \in Run /\ seq \in 1 .. Len(log[r]) /\ seq \in 1 .. MaxEvents
      /\ UNCHANGED log /\ steps[r] \in Seq(1 .. MaxEvents)
      /\ Visible(log[r][seq]) /\ seq \in Range(steps[r]) => steps'[r] = steps[r]
      /\ Visible(log[r][seq]) /\ seq \notin Range(steps[r]) => steps'[r] = Append(steps[r], seq)
  BY <1>1, StepsApplied
<1>3. n \in Nat /\ n <= Len(log[r]) /\ Len(log[r]) \in Nat
  BY <1>1, <1>2, TaskType, VisibleNumbersAre DEF Typed
<1>4. Followed(r, n)'
  BY <1>2, <1>3, FollowedStays
<1>5. Visible(log[r][seq]) => seq \in Range(steps'[r])
  <2>1. seq \in Range(Append(steps[r], seq))
    BY <1>2, AppendRange
  <2> QED
    BY <1>2, <2>1
<1>6. ASSUME NEW i, i \in VisibleNumbers(r)', i <= seq PROVE i \in Range(steps'[r])
  <2>1. VisibleNumbers(r)' = VisibleNumbers(r)
    BY <1>2 DEF VisibleNumbers, Visible
  <2>2. i \in 1 .. Len(log[r]) /\ Visible(log[r][i]) /\ Len(log[r]) \in Nat
    BY <1>2, <1>6, <2>1, VisibleNumbersAre
  <2>3. CASE i = seq
    BY <1>5, <2>2, <2>3
  <2>4. CASE i # seq
    <3>1. i <= n
      BY <1>1, <1>3, <1>6, <2>2, <2>4
    <3> QED
      BY <1>4, <1>6, <3>1 DEF Followed
  <2> QED
    BY <2>3, <2>4
<1> QED
  BY <1>1, <1>6 DEF Followed

LEMMA InLogStays ==
    ASSUME Typed, [Next]_vars, NEW r \in Run, NEW e, InLog(r, e)
    PROVE  InLog(r, e)'
<1>1. /\ Len(log[r]) \in Nat /\ Len(log'[r]) \in Nat /\ Len(log[r]) <= Len(log'[r])
      /\ \A i \in 1 .. Len(log[r]) : log'[r][i] = log[r][i]
  BY LogsKept
<1>2. PICK i \in 1 .. Len(log[r]) : log[r][i] = e
  BY DEF InLog
<1>3. i \in 1 .. Len(log'[r]) /\ log'[r][i] = e
  BY <1>1, <1>2
<1> QED
  BY <1>3 DEF InLog

LEMMA StepFollows == Typed /\ NothingLeftOut /\ [Next]_vars => NothingLeftOut'
<1> SUFFICES ASSUME Typed, NothingLeftOut, [Next]_vars PROVE NothingLeftOut'
  OBVIOUS
<1>a. TypeOK /\ CallsKnown /\ CursorKnown
  BY DEF Typed
<1>b. ASSUME NEW r \in Run, NEW n, n = cursor[r]
      PROVE  Followed(r, n)'
  <2>1. n \in Nat /\ n <= Len(log[r]) /\ Followed(r, n)
    BY <1>a, <1>b DEF TypeOK, CursorKnown, NothingLeftOut
  <2> QED
    BY <2>1, FollowedStays
<1>c. ASSUME NEW t \in Task, task[t].stage \in {"asking", "served", "applying"},
             NEW r, r = task[t].run, NEW n, n = task[t].after
      PROVE  r \in Run /\ n \in Nat /\ Followed(r, n) /\ Followed(r, n)'
  <2>1. n \in Nat /\ n <= Len(log[r]) /\ r \in Run
    BY <1>a, <1>c, TaskType DEF CallsKnown, KnownCall
  <2>2. Followed(r, n)
    BY <1>c DEF NothingLeftOut, CallFollows
  <2> QED
    BY <2>1, <2>2, FollowedStays
<1>1. ASSUME NEW r \in Run PROVE Followed(r, cursor[r])'
  <2>1. PICK n : n = cursor'[r]
    OBVIOUS
  <2>2. CASE cursor'[r] = cursor[r]
    BY <1>b, <2>1, <2>2
  <2>3. CASE \E t \in Task : /\ task[t].stage = "applying" /\ task[t].after = task[t].upto
                             /\ task[t].run = r /\ cursor'[r] = task[t].after
    BY <1>c, <2>1, <2>3
  <2>4. Followed(r, n)'
    BY <2>1, <2>2, <2>3, CursorStep, <1>b
  <2> QED
    BY <2>1, <2>4 DEF Followed
<1>2. ASSUME NEW t \in Task, NEW k, k = task'[t] PROVE CallFollows(k)'
  <2>1. CASE k = task[t]
    <3>1. CASE k.stage \in {"asking", "served", "applying"}
      <4>1. PICK r, n : r = k.run /\ n = k.after
        OBVIOUS
      <4>2. Followed(r, n)' /\ r \in Run
        BY <1>c, <2>1, <3>1, <4>1
      <4>3. ASSUME k.stage \in {"served", "applying"} PROVE k.status = "QUEUED" \/ InLog(r, k.status)'
        <5>1. k.status = "QUEUED" \/ InLog(r, k.status)
          BY <2>1, <4>1, <4>3 DEF NothingLeftOut, CallFollows
        <5> QED
          BY <4>2, <5>1, InLogStays
      <4> QED
        BY <4>1, <4>2, <4>3 DEF CallFollows
    <3>2. CASE k.stage \notin {"asking", "served", "applying"}
      BY <3>2 DEF CallFollows
    <3> QED
      BY <3>1, <3>2
  <2>2. CASE Turns(k)
    <3>1. CASE k.stage \in {"asking", "served", "applying"}
      <4>1. k.stage = "asking" /\ k.run \in Run /\ k.after = cursor[k.run]
        BY <2>2, <3>1 DEF Turns
      <4> QED
        BY <1>b, <4>1 DEF CallFollows
    <3>2. CASE k.stage \notin {"asking", "served", "applying"}
      BY <3>2 DEF CallFollows
    <3> QED
      BY <3>1, <3>2
  <2>3. PICK r, n : r = task[t].run /\ n = task[t].after
    OBVIOUS
  <2>4. CASE /\ k.run = task[t].run /\ k.after = task[t].after
             /\ task[t].stage = "asking" /\ k.stage = "served"
             /\ k.status = StatusIn(log[task[t].run])
    <3>1. r \in Run /\ Followed(r, n)'
      BY <1>c, <2>3, <2>4
    <3>2. k.status = "QUEUED" \/ InLog(r, k.status)
      BY <1>a, <2>3, <2>4, <3>1, StatusInIs DEF TypeOK, InLog
    <3>3. k.status = "QUEUED" \/ InLog(r, k.status)'
      BY <3>1, <3>2, InLogStays
    <3> QED
      BY <2>3, <2>4, <3>1, <3>3 DEF CallFollows
  <2>5. CASE /\ k.run = task[t].run /\ k.after = task[t].after
             /\ task[t].stage \in {"served", "applying"}
             /\ k.stage \in {"applying", "asking"} /\ k.status = task[t].status
    <3>1. r \in Run /\ Followed(r, n)'
      BY <1>c, <2>3, <2>5
    <3>2. k.status = "QUEUED" \/ InLog(r, k.status)
      BY <2>3, <2>5 DEF NothingLeftOut, CallFollows
    <3>3. k.status = "QUEUED" \/ InLog(r, k.status)'
      BY <3>1, <3>2, InLogStays
    <3> QED
      BY <2>3, <2>5, <3>1, <3>3 DEF CallFollows
  <2>6. CASE /\ ApplyEvent(t) /\ k.run = task[t].run /\ k.after = task[t].after + 1
             /\ k.stage = "applying" /\ k.status = task[t].status
    <3>0. task[t].stage = "applying"
      BY <2>6 DEF ApplyEvent
    <3>1. r \in Run /\ Followed(r, n)
      BY <1>c, <2>3, <3>0
    <3>2. Followed(r, n + 1)'
      BY <2>3, <2>6, <3>1, FollowedOn
    <3>3. k.status = "QUEUED" \/ InLog(r, k.status)
      BY <2>3, <2>6, <3>0 DEF NothingLeftOut, CallFollows
    <3>4. k.status = "QUEUED" \/ InLog(r, k.status)'
      BY <3>1, <3>3, InLogStays
    <3> QED
      BY <2>3, <2>6, <3>2, <3>4 DEF CallFollows
  <2> QED
    BY <1>2, <2>1, <2>2, <2>4, <2>5, <2>6, CallStepMoves DEF CallMoves
<1>3. ASSUME NEW t \in Task PROVE CallFollows(task[t])'
  <2>1. PICK k : k = task'[t]
    OBVIOUS
  <2>2. CallFollows(k)'
    BY <1>2, <2>1
  <2> QED
    BY <2>1, <2>2 DEF CallFollows, Followed, InLog
<1> QED
  BY <1>1, <1>3 DEF NothingLeftOut

-----------------------------------------------------------------------------
(* The mirror implements EventMirror                                       *)

\* A list that holds all the smaller members of S is followed by the next one.
Begins(s, V) ==
    /\ DOMAIN s = 1 .. Len(s) /\ Len(s) \in Nat /\ Len(s) <= Len(V)
    /\ \A i \in 1 .. Len(s) : s[i] = V[i]

HasAllBefore(s, S, q) == q \notin Range(s) /\ \A i \in S : i < q => i \in Range(s)

LEMMA NextIsNext ==
    ASSUME NEW S \in SUBSET Nat, NEW V, Enumerates(V, S), NEW s, Begins(s, V),
           NEW q \in S, HasAllBefore(s, S, q)
    PROVE  Len(s) + 1 <= Len(V) /\ V[Len(s) + 1] = q
<1>0. PICK m : m = Len(s)
  OBVIOUS
<1>a. /\ m \in Nat /\ DOMAIN s = 1 .. m /\ m <= Len(V) /\ \A i \in 1 .. m : s[i] = V[i]
      /\ q \notin Range(s) /\ \A i \in S : i < q => i \in Range(s)
  BY <1>0 DEF Begins, HasAllBefore
<1>1. Len(V) \in Nat /\ \A i \in 1 .. Len(V) : V[i] \in S
  BY SeqFacts DEF Enumerates
<1>2. PICK j \in 1 .. Len(V) : V[j] = q
  BY DEF Enumerates
<1>3. \A x : x \in Range(s) <=> \E i \in 1 .. m : s[i] = x
  BY <1>a, RangeOfList
<1>4. j > m
  <2>1. SUFFICES ASSUME j <= m PROVE FALSE
    BY <1>a, <1>1, <1>2
  <2>2. j \in 1 .. m /\ s[j] = q
    BY <1>a, <1>2, <2>1
  <2> QED
    BY <1>a, <1>2, <1>3, <2>2
<1>5. m + 1 \in 1 .. Len(V)
  BY <1>a, <1>1, <1>2, <1>4
<1>6. CASE j = m + 1
  BY <1>0, <1>a, <1>1, <1>2, <1>5, <1>6
<1>7. CASE m + 1 < j
  <2>1. V[m + 1] < V[j] /\ V[m + 1] \in S
    BY <1>1, <1>5, <1>7 DEF Enumerates
  <2>2. V[m + 1] \in Range(s)
    BY <1>a, <1>2, <2>1
  <2>3. PICK i \in 1 .. m : s[i] = V[m + 1]
    BY <1>3, <2>2
  <2>4. V[i] = V[m + 1] /\ i \in 1 .. Len(V) /\ i < m + 1
    BY <1>a, <1>1, <2>3
  <2>5. V[i] < V[m + 1]
    BY <1>5, <2>4 DEF Enumerates
  <2>6. V[i] \in Nat
    BY <1>1, <2>4
  <2> QED
    BY <2>4, <2>5, <2>6
<1> QED
  BY <1>0, <1>a, <1>1, <1>2, <1>4, <1>5, <1>6, <1>7

LEMMA VisibleLogLists ==
    ASSUME Typed, NEW r \in Run
    PROVE  /\ Enumerates(VisibleLog(r), VisibleNumbers(r))
           /\ VisibleNumbers(r) \in SUBSET Nat
           /\ VisibleLog(r) \in Seq(Nat) /\ Len(VisibleLog(r)) \in Nat
<1>1. Len(log[r]) \in Nat /\ VisibleNumbers(r) \in SUBSET (1 .. Len(log[r]))
  BY VisibleNumbersAre
<1>2. Enumerates(VisibleLog(r), VisibleNumbers(r))
  BY <1>1, InOrderEnumerates DEF VisibleLog
<1>3. VisibleNumbers(r) \in SUBSET Nat
  BY <1>1
<1>4. PICK u : u = VisibleLog(r)
  OBVIOUS
<1>5. u \in Seq(VisibleNumbers(r))
  BY <1>2, <1>4 DEF Enumerates
<1>6. u \in Seq(Nat) /\ Len(u) \in Nat
  BY <1>3, <1>5
<1> QED
  BY <1>2, <1>3, <1>4, <1>6

\* What a recorded event does to the numbers a mirror has to show.
LEMMA VisibleLogGrows ==
    ASSUME Typed, [Next]_vars, NEW r \in Run, NEW e \in Entry, LogGrows(r, e)
    PROVE  /\ \A x \in Run : x # r => VisibleLog(x)' = VisibleLog(x)
           /\ ~ Visible(e) => VisibleLog(r)' = VisibleLog(r)
           /\ Visible(e) => VisibleLog(r)' = Append(VisibleLog(r), Len(log[r]) + 1)
<1>1. Typed'
  BY StepTyped
<1>2. ASSUME NEW x \in Run, x # r PROVE VisibleLog(x)' = VisibleLog(x)
  BY <1>2 DEF LogGrows, VisibleLog, VisibleNumbers, Visible
<1>3. \A i : i \in VisibleNumbers(r) <=> i \in 1 .. Len(log[r]) /\ Visible(log[r][i])
  BY VisibleNumbersAre
<1>4. Len(log[r]) \in Nat /\ VisibleNumbers(r) \in SUBSET (1 .. Len(log[r]))
  BY VisibleNumbersAre
<1>5. DOMAIN log'[r] = 1 .. Len(log'[r]) /\ Len(log'[r]) = Len(log[r]) + 1
  BY <1>1, LenProperties DEF Typed, TypeOK, LogGrows
<1>6. \A i \in 1 .. Len(log[r]) : log'[r][i] = log[r][i]
  BY DEF LogGrows
<1>7. log'[r][Len(log[r]) + 1] = e
  BY DEF LogGrows
<1>8. \A i : i \in VisibleNumbers(r)' <=> i \in 1 .. Len(log'[r]) /\ Visible(log'[r][i])
  BY <1>5 DEF VisibleNumbers, Visible
<1>9. CASE Visible(e)
  <2>1. \A i : i \in VisibleNumbers(r)' <=> i \in VisibleNumbers(r) \cup {Len(log[r]) + 1}
    BY <1>3, <1>4, <1>5, <1>6, <1>7, <1>8, <1>9
  <2>2. VisibleNumbers(r)' = VisibleNumbers(r) \cup {Len(log[r]) + 1}
    BY <2>1
  <2>3. VisibleLog(r)' = InOrder(VisibleNumbers(r) \cup {Len(log[r]) + 1})
    BY <2>2 DEF VisibleLog, InOrder
  <2> QED
    BY <1>2, <1>4, <1>9, <2>3, InOrderGrows DEF VisibleLog
<1>10. CASE ~ Visible(e)
  <2>1. \A i : i \in VisibleNumbers(r)' <=> i \in VisibleNumbers(r)
    BY <1>3, <1>4, <1>5, <1>6, <1>7, <1>8, <1>10
  <2>2. VisibleNumbers(r)' = VisibleNumbers(r)
    BY <2>1
  <2>3. VisibleLog(r)' = VisibleLog(r)
    BY <2>2 DEF VisibleLog, InOrder
  <2> QED
    BY <1>2, <1>10, <2>3
<1> QED
  BY <1>9, <1>10

\* The mirror of a run is the beginning of what it has to show.
MirrorIsPrefix ==
    \A r \in Run : /\ Len(steps[r]) <= Len(VisibleLog(r))
                   /\ \A i \in 1 .. Len(steps[r]) : steps[r][i] = VisibleLog(r)[i]

LEMMA PrefixGrows ==
    ASSUME NEW T, NEW s \in Seq(T), NEW V \in Seq(Nat), Len(s) + 1 <= Len(V),
           \A i \in 1 .. Len(s) : s[i] = V[i], NEW q \in T, V[Len(s) + 1] = q
    PROVE  Append(s, q) = SubSeq(V, 1, Len(s) + 1)
<1>1. Len(s) \in Nat /\ Len(V) \in Nat
  BY LenProperties
<1>2. PICK m : m = Len(s) + 1
  OBVIOUS
<1>3. m \in Int /\ 1 \in Int /\ \A i \in 1 .. m : V[i] \in Nat
  BY <1>1, <1>2
<1>4. PICK u : u = SubSeq(V, 1, m)
  OBVIOUS
<1>5. u \in Seq(Nat) /\ Len(u) = m /\ \A i \in 1 .. m : u[i] = V[i]
  <2>1. /\ u \in Seq(Nat) /\ Len(u) = (IF 1 <= m THEN m - 1 + 1 ELSE 0)
        /\ \A i \in 1 .. m - 1 + 1 : u[i] = V[1 + i - 1]
    BY <1>3, <1>4, SubSeqProperties
  <2> QED
    BY <1>1, <1>2, <2>1
<1>6. PICK a : a = Append(s, q)
  OBVIOUS
<1>7. a \in Seq(T) /\ Len(a) = m /\ (\A i \in 1 .. Len(s) : a[i] = s[i]) /\ a[m] = q
  BY <1>2, <1>6, AppendProperties
<1>8. \A i \in 1 .. m : a[i] = u[i]
  <2>1. ASSUME NEW i \in 1 .. m PROVE i \in 1 .. Len(s) \/ i = m
    BY <1>1, <1>2
  <2> QED
    BY <1>2, <1>5, <1>7, <2>1
<1>9. a = u
  BY <1>5, <1>7, <1>8, SeqEqual
<1> QED
  BY <1>2, <1>4, <1>6, <1>9

\* The state the mirror implements.
absLog == [r \in Run |-> VisibleLog(r)]

\* An event that is applied is shown already, or it is the next one to show.
LEMMA ApplyMirrors ==
    ASSUME Typed, NothingLeftOut, MirrorIsPrefix, [Next]_vars, NEW t \in Task, ApplyEvent(t)
    PROVE  MirrorIsPrefix' /\ [Mirror!Next]_<<absLog, steps>>
<1>1. PICK r, seq : r = task[t].run /\ seq = task[t].after + 1
  OBVIOUS
<1>2. /\ r \in Run /\ seq \in 1 .. Len(log[r]) /\ seq \in 1 .. MaxEvents
      /\ UNCHANGED log /\ steps[r] \in Seq(1 .. MaxEvents)
      /\ \A x \in Run : x # r => steps'[x] = steps[x]
      /\ ~ Visible(log[r][seq]) => steps' = steps
      /\ Visible(log[r][seq]) /\ seq \in Range(steps[r]) => steps'[r] = steps[r]
      /\ Visible(log[r][seq]) /\ seq \notin Range(steps[r]) => steps'[r] = Append(steps[r], seq)
  BY <1>1, StepsApplied
<1>3. Typed'
  BY StepTyped
<1>4. steps \in [Run -> Seq(1 .. MaxEvents)] /\ steps' \in [Run -> Seq(1 .. MaxEvents)]
  BY <1>3 DEF Typed, TypeOK
<1>5. \A x \in Run : VisibleLog(x)' = VisibleLog(x)
  BY <1>2 DEF VisibleLog, VisibleNumbers, Visible, InOrder
<1>6. absLog' = absLog
  BY <1>5 DEF absLog
<1>7. CASE steps'[r] = steps[r]
  <2>1. steps' = steps
    BY <1>2, <1>4, <1>7
  <2>2. MirrorIsPrefix'
    BY <1>5, <2>1 DEF MirrorIsPrefix
  <2> QED
    BY <1>6, <2>1, <2>2
<1>8. CASE steps'[r] # steps[r]
  <2>1. Visible(log[r][seq]) /\ seq \notin Range(steps[r]) /\ steps'[r] = Append(steps[r], seq)
    BY <1>2, <1>8
  <2>2. PICK V, s : V = VisibleLog(r) /\ s = steps[r]
    OBVIOUS
  <2>3. /\ Enumerates(V, VisibleNumbers(r)) /\ VisibleNumbers(r) \in SUBSET Nat
        /\ V \in Seq(Nat) /\ Len(V) \in Nat
    BY <1>2, <2>2, VisibleLogLists
  <2>4. /\ s \in Seq(1 .. MaxEvents) /\ Len(s) \in Nat /\ DOMAIN s = 1 .. Len(s)
        /\ Len(s) <= Len(V) /\ \A i \in 1 .. Len(s) : s[i] = V[i]
    BY <1>2, <2>2, LenProperties DEF MirrorIsPrefix
  <2>5. seq \in VisibleNumbers(r)
    BY <1>2, <2>1, VisibleNumbersAre
  <2>6. ASSUME NEW i \in VisibleNumbers(r), i < seq PROVE i \in Range(s)
    <3>1. task[t].stage = "applying" /\ task[t].after \in Nat
      BY TaskType DEF ApplyEvent, Typed
    <3>2. Followed(r, task[t].after)
      BY <1>1, <3>1 DEF NothingLeftOut, CallFollows
    <3>3. i \in Nat /\ i <= task[t].after
      BY <1>1, <2>3, <2>6, <3>1
    <3> QED
      BY <2>2, <3>2, <3>3 DEF Followed
  <2>7. Len(s) + 1 <= Len(V) /\ V[Len(s) + 1] = seq
    <3>1. Begins(s, V)
      BY <2>4 DEF Begins
    <3>2. HasAllBefore(s, VisibleNumbers(r), seq)
      BY <2>1, <2>2, <2>6 DEF HasAllBefore
    <3> QED
      BY <2>3, <2>5, <3>1, <3>2, NextIsNext
  <2>8. Append(s, seq) = SubSeq(V, 1, Len(s) + 1)
    BY <1>2, <2>3, <2>4, <2>7, PrefixGrows
  <2>9. steps' = [steps EXCEPT ![r] = SubSeq(V, 1, Len(s) + 1)]
    BY <1>2, <1>4, <2>1, <2>2, <2>8
  <2>10. MirrorIsPrefix'
    <3>1. PICK u : u = steps'[r]
      OBVIOUS
    <3>2. u = Append(s, seq)
      BY <2>1, <2>2, <3>1
    <3>3. Len(u) = Len(s) + 1 /\ (\A i \in 1 .. Len(s) : u[i] = s[i]) /\ u[Len(s) + 1] = seq
      BY <1>2, <2>4, <3>2, AppendProperties
    <3>4. \A i \in 1 .. Len(u) : u[i] = V[i]
      <4>1. ASSUME NEW i \in 1 .. Len(u) PROVE i \in 1 .. Len(s) \/ i = Len(s) + 1
        BY <2>4, <3>3
      <4> QED
        BY <2>4, <2>7, <3>3, <4>1
    <3>5. Len(steps'[r]) <= Len(VisibleLog(r)')
          /\ \A i \in 1 .. Len(steps'[r]) : steps'[r][i] = VisibleLog(r)'[i]
      BY <1>2, <1>5, <2>2, <2>7, <3>1, <3>3, <3>4
    <3>6. ASSUME NEW x \in Run, x # r
          PROVE  Len(steps'[x]) <= Len(VisibleLog(x)')
                 /\ \A i \in 1 .. Len(steps'[x]) : steps'[x][i] = VisibleLog(x)'[i]
      BY <1>2, <1>5, <3>6 DEF MirrorIsPrefix
    <3> QED
      BY <3>5, <3>6 DEF MirrorIsPrefix
  <2>11. Mirror!Extend(r)
    <3>1. absLog[r] = V /\ absLog = [x \in Run |-> VisibleLog(x)]
      BY <1>2, <2>2 DEF absLog
    <3>2. Len(s) + 1 \in Len(s) + 1 .. Len(V)
      BY <2>3, <2>4, <2>7
    <3>3. \E n \in Len(steps[r]) + 1 .. Len(absLog[r]) :
             steps' = [steps EXCEPT ![r] = SubSeq(absLog[r], 1, n)]
      BY <2>2, <2>9, <3>1, <3>2
    <3> QED
      BY <1>6, <3>3 DEF Mirror!Extend, absLog
  <2> QED
    BY <1>2, <2>10, <2>11 DEF Mirror!Next
<1> QED
  BY <1>7, <1>8

LEMMA StepMirrors ==
    ASSUME Typed, NothingLeftOut, MirrorIsPrefix, [Next]_vars
    PROVE  MirrorIsPrefix' /\ [Mirror!Next]_<<absLog, steps>>
<1>1. CASE \E t \in Task : ApplyEvent(t)
  BY <1>1, ApplyMirrors
<1>2. CASE UNCHANGED log /\ UNCHANGED steps
  <2>1. \A x \in Run : VisibleLog(x)' = VisibleLog(x)
    BY <1>2 DEF VisibleLog, VisibleNumbers, Visible, InOrder
  <2>2. absLog' = absLog
    BY <2>1 DEF absLog
  <2> QED
    BY <1>2, <2>1, <2>2 DEF MirrorIsPrefix
<1>3. ASSUME UNCHANGED record, NEW r \in Run, NEW e \in Entry, LogGrows(r, e)
      PROVE  MirrorIsPrefix' /\ [Mirror!Next]_<<absLog, steps>>
  <2>1. UNCHANGED steps
    BY <1>3 DEF record
  <2>2. \A x \in Run : x # r => VisibleLog(x)' = VisibleLog(x)
    BY <1>3, VisibleLogGrows
  <2>3. CASE ~ Visible(e)
    <3>1. \A x \in Run : VisibleLog(x)' = VisibleLog(x)
      BY <1>3, <2>2, <2>3, VisibleLogGrows
    <3>2. absLog' = absLog
      BY <3>1 DEF absLog
    <3> QED
      BY <2>1, <3>1, <3>2 DEF MirrorIsPrefix
  <2>4. CASE Visible(e)
    <3>1. PICK V, n : V = VisibleLog(r) /\ n = Len(log[r]) + 1
      OBVIOUS
    <3>2. VisibleLog(r)' = Append(V, n)
      BY <1>3, <2>4, <3>1, VisibleLogGrows
    <3>3. V \in Seq(Nat) /\ Len(V) \in Nat
      BY <1>3, <3>1, VisibleLogLists
    <3>4. n \in Nat /\ n \in 1 .. MaxEvents
      <4>1. Typed' /\ Len(log'[r]) = n /\ Len(log[r]) \in Nat
        BY <1>3, <3>1, StepTyped, VisibleNumbersAre DEF LogGrows
      <4>2. n <= MaxEvents
        BY <1>3, <4>1 DEF Typed, TypeOK
      <4> QED
        BY <3>1, <4>1, <4>2, MirrorAssumption
    <3>5. PICK a : a = Append(V, n)
      OBVIOUS
    <3>6. Len(a) = Len(V) + 1 /\ \A i \in 1 .. Len(V) : a[i] = V[i]
      BY <3>3, <3>4, <3>5, AppendProperties
    <3>7. MirrorIsPrefix'
      <4>1. Len(steps[r]) \in Nat
        BY <1>3, LenProperties DEF Typed, TypeOK
      <4>2. Len(steps[r]) <= Len(V) /\ \A i \in 1 .. Len(steps[r]) : steps[r][i] = V[i]
        BY <1>3, <3>1 DEF MirrorIsPrefix
      <4>3. Len(steps[r]) <= Len(a) /\ \A i \in 1 .. Len(steps[r]) : steps[r][i] = a[i]
        BY <3>3, <3>6, <4>1, <4>2
      <4>4. VisibleLog(r)' = a
        BY <3>2, <3>5
      <4> QED
        BY <2>1, <2>2, <4>3, <4>4 DEF MirrorIsPrefix
    <3>8. absLog' = [absLog EXCEPT ![r] = Append(absLog[r], n)]
      BY <1>3, <2>2, <3>1, <3>2 DEF absLog
    <3>9. Mirror!Record(r)
      BY <2>1, <3>4, <3>8 DEF Mirror!Record, absLog
    <3> QED
      BY <1>3, <3>7, <3>9 DEF Mirror!Next
  <2> QED
    BY <2>3, <2>4
<1> QED
  BY <1>1, <1>2, <1>3, LogStep, StepsStep

Inv == Typed /\ NothingLeftOut /\ MirrorIsPrefix

LEMMA InitMirrors == Init => Inv /\ Mirror!Init
<1> SUFFICES ASSUME Init PROVE Inv /\ Mirror!Init
  OBVIOUS
<1>1. Typed
  BY InitTyped
<1>2. << >> \in Seq(Nat) /\ Len(<< >>) = 0
  BY EmptySeq
<1>3. ASSUME NEW r \in Run PROVE VisibleNumbers(r) = {} /\ VisibleLog(r) = << >>
  <2>1. Len(log[r]) = 0
    BY <1>2 DEF Init
  <2>2. VisibleNumbers(r) = {}
    BY <1>1, <2>1, VisibleNumbersAre
  <2>3. Enumerates(VisibleLog(r), {})
    BY <1>1, <2>2, VisibleLogLists
  <2>4. Enumerates(<< >>, {})
    BY <1>2 DEF Enumerates
  <2> QED
    BY <2>2, <2>3, <2>4, EnumerationIsUnique
<1>4. NothingLeftOut
  BY <1>3, IdleType DEF Init, NothingLeftOut, Followed, CallFollows
<1>5. MirrorIsPrefix
  BY <1>2, <1>3 DEF Init, MirrorIsPrefix
<1>6. Mirror!Init
  BY <1>3 DEF Init, Mirror!Init
<1> QED
  BY <1>1, <1>4, <1>5, <1>6 DEF Inv

LEMMA InvHolds == Spec => []Inv
<1>1. Init => Inv
  BY InitMirrors
<1>2. Inv /\ [Next]_vars => Inv'
  BY StepTyped, StepFollows, StepMirrors DEF Inv
<1> QED
  BY <1>1, <1>2, PTL DEF Spec

\* Whichever syncs overlap, fail or die, what the desktop shows of a run is the
\* beginning of its history in the cloud and only grows.
THEOREM MirrorImplements == Spec => ImplementsEventMirror
<1>1. Init => Mirror!Init
  BY InitMirrors
<1>2. Inv /\ [Next]_vars => [Mirror!Next]_<<absLog, steps>>
  BY StepMirrors DEF Inv
<1> QED
  BY <1>1, <1>2, InvHolds, PTL DEF Spec, ImplementsEventMirror, Mirror!Spec, absLog

-----------------------------------------------------------------------------
(* What is shown happened                                                  *)

\* A status is written because a submission was accepted, because the run of
\* the cloud had it, or because the application starts.
LEMMA StatusStep ==
    ASSUME Inv, [Next]_vars, NEW r \in Run
    PROVE  \/ status'[r] = status[r]
           \/ status[r] = "ABSENT" /\ status'[r] = "PENDING"
           \/ status'[r] = Reconciled(status[r])
           \/ \E s \in RemoteStatus : /\ s \in {"QUEUED", "RUNNING"} \/ InLog(r, s)
                                      /\ status'[r] = StatusAfter(status[r], s)
<1> DEFINE P == \E s \in RemoteStatus : /\ s \in {"QUEUED", "RUNNING"} \/ InLog(r, s)
                                        /\ status'[r] = StatusAfter(status[r], s)
<1>a. Typed /\ TypeOK /\ CallsKnown /\ NothingLeftOut
  BY DEF Inv, Typed
<1>1. ASSUME NEW x \in Run, NEW s \in RemoteStatus, s \in {"QUEUED", "RUNNING"} \/ InLog(x, s),
             status' = [status EXCEPT ![x] = StatusAfter(@, s)]
      PROVE  status'[r] = status[r] \/ P
  <2>1. status'[x] = StatusAfter(status[x], s) /\ (r # x => status'[r] = status[r])
    BY <1>1, <1>a, StatusWritten
  <2> QED
    BY <1>1, <2>1
<1>2. ASSUME NEW t \in Task, task[t].stage \in {"served", "applying"},
             status' = [status EXCEPT ![task[t].run] = StatusAfter(@, task[t].status)]
      PROVE  status'[r] = status[r] \/ P
  <2>1. task[t].run \in Run /\ task[t].status \in RemoteStatus
    BY <1>2, <1>a, TaskType DEF CallsKnown, KnownCall
  <2>2. task[t].status \in {"QUEUED", "RUNNING"} \/ InLog(task[t].run, task[t].status)
    BY <1>2, <1>a DEF NothingLeftOut, CallFollows
  <2>3. PICK x, s : x = task[t].run /\ s = task[t].status
    OBVIOUS
  <2> QED
    BY <1>1, <1>2, <2>1, <2>2, <2>3
<1>3. ASSUME NEW t \in Task, NothingNew(t) \/ PageApplied(t)
      PROVE  status'[r] = status[r] \/ P
  BY <1>2, <1>3 DEF NothingNew, PageApplied
<1>4. ASSUME NEW t \in Task, ApplyEvent(t) PROVE status'[r] = status[r] \/ P
  <2>1. PICK x, seq : x = task[t].run /\ seq = task[t].after + 1
    OBVIOUS
  <2>2. x \in Run /\ seq \in 1 .. Len(log[x]) /\ log[x][seq] \in Entry
    BY <1>4, <1>a, <2>1, EventApplied DEF ApplyEvent
  <2>3. CASE Visible(log[x][seq])
    BY <1>4, <2>1, <2>3 DEF ApplyEvent
  <2>4. CASE ~ Visible(log[x][seq])
    <3>1. log[x][seq] \in RemoteStatus /\ InLog(x, log[x][seq])
      BY <2>2, <2>4 DEF Visible, InLog
    <3>2. status' = [status EXCEPT ![x] = StatusAfter(@, log[x][seq])]
      BY <1>4, <2>1, <2>4 DEF ApplyEvent
    <3> QED
      BY <1>1, <2>2, <3>1, <3>2
  <2> QED
    BY <2>3, <2>4
<1>5. ASSUME NEW x \in Run, Accepted(x) PROVE status'[r] = status[r] \/ P
  <2>1. "RUNNING" \in RemoteStatus
    BY DEF RemoteStatus
  <2> QED
    BY <1>1, <1>5, <2>1 DEF Accepted
<1>6. ASSUME NEW x \in Run, Start(x)
      PROVE  \/ status'[r] = status[r]
             \/ status[r] = "ABSENT" /\ status'[r] = "PENDING"
  BY <1>6, <1>a DEF Start, TypeOK
<1>7. ASSUME NEW x \in Run, SubmissionArrives(x) \/ Unsent(x) \/ DriveReports(x)
      PROVE  UNCHANGED status
  BY <1>7 DEF SubmissionArrives, Unsent, DriveReports, record
<1>8. ASSUME NEW t \in Task,
             \/ SyncAll(t) \/ Cancel(t) \/ ServeEvents(t) \/ ServeCancel(t) \/ PageArrives(t)
             \/ CancelAnswered(t) \/ RequestFails(t)
      PROVE  UNCHANGED status
  BY <1>8 DEF SyncAll, Cancel, ServeEvents, ServeCancel, PageArrives, CancelAnswered,
              RequestFails, record
<1>9. CASE Restart
  BY <1>9 DEF Restart
<1> QED
  BY <1>3, <1>4, <1>5, <1>6, <1>7, <1>8, <1>9 DEF Next, CallStep, vars

LEMMA FinalStep ==
    ASSUME Inv, [Next]_vars, NEW r \in Run, status[r] \in Terminal
    PROVE  status'[r] \in {status[r], "CANCELLED"}
<1>1. status[r] \in LocalStatus
  BY DEF Inv, Typed, TypeOK
<1>2. Reconciled(status[r]) = status[r] /\ status[r] # "ABSENT"
  BY DEF Terminal, Reconciled
<1> QED
  BY <1>1, <1>2, StatusStep, StatusAfterType

\* A mirrored run that has ended stays ended, with the outcome it has; only a
\* cancellation goes over it.
THEOREM FinalStatus == Spec => FinalStatusStays
<1>1. Inv /\ [Next]_vars =>
        [\A r \in Run : status[r] \in Terminal => status'[r] \in {status[r], "CANCELLED"}]_vars
  BY FinalStep
<1> QED
  BY <1>1, InvHolds, PTL DEF Spec, FinalStatusStays

OutcomesHappened ==
    \A r \in Run : status[r] \in {"DONE", "CANCELLED"} => InLog(r, status[r])

\* A line of the conversation stands for a message that was recorded, and no
\* other line has its number.
LinesHappened ==
    /\ \A i \in 1 .. Len(messages) :
           /\ messages[i].seq \in 1 .. Len(log[messages[i].run])
           /\ log[messages[i].run][messages[i].seq] = "message"
    /\ \A i, j \in 1 .. Len(messages) : messages[i].seq = messages[j].seq => i = j

LEMMA OutcomesStay == Inv /\ OutcomesHappened /\ [Next]_vars => OutcomesHappened'
<1> SUFFICES ASSUME Inv, OutcomesHappened, [Next]_vars,
                    NEW r \in Run, NEW o, o = status'[r], o \in {"DONE", "CANCELLED"}
             PROVE  InLog(r, o)'
  BY DEF OutcomesHappened, InLog
<1>1. status[r] \in LocalStatus /\ Typed
  BY DEF Inv, Typed, TypeOK
<1>2. CASE o = status[r]
  BY <1>1, <1>2, InLogStays DEF OutcomesHappened
<1>3. CASE o # status[r]
  <2>1. o # Reconciled(status[r])
    BY <1>3 DEF Reconciled
  <2>2. PICK s \in RemoteStatus : /\ s \in {"QUEUED", "RUNNING"} \/ InLog(r, s)
                                  /\ o = StatusAfter(status[r], s)
    BY <1>3, <2>1, StatusStep
  <2>3. o = s
    BY <1>1, <1>3, <2>2, StatusAfterType
  <2>4. InLog(r, o)
    BY <2>2, <2>3
  <2> QED
    BY <1>1, <2>4, InLogStays
<1> QED
  BY <1>2, <1>3

LEMMA MessagesStep ==
    ASSUME [Next]_vars
    PROVE  \/ UNCHANGED messages
           \/ \E t \in Task :
                  LET r == task[t].run
                      seq == task[t].after + 1
                  IN  /\ ApplyEvent(t) /\ log[r][seq] = "message"
                      /\ messages' = MessageOnce(messages, [run |-> r, seq |-> seq])
<1>1. ASSUME NEW r \in Run,
             Start(r) \/ SubmissionArrives(r) \/ Accepted(r) \/ Unsent(r) \/ DriveReports(r)
      PROVE  UNCHANGED messages
  BY <1>1 DEF Start, SubmissionArrives, Accepted, Unsent, DriveReports, record
<1>2. ASSUME NEW t \in Task,
             \/ SyncAll(t) \/ Cancel(t) \/ ServeEvents(t) \/ ServeCancel(t) \/ NothingNew(t)
             \/ PageArrives(t) \/ PageApplied(t) \/ CancelAnswered(t) \/ RequestFails(t)
      PROVE  UNCHANGED messages
  BY <1>2 DEF SyncAll, Cancel, ServeEvents, ServeCancel, NothingNew, PageArrives, PageApplied,
              CancelAnswered, RequestFails, record
<1>3. ASSUME NEW t \in Task, ApplyEvent(t)
      PROVE  \/ UNCHANGED messages
             \/ LET r == task[t].run
                    seq == task[t].after + 1
                IN  /\ ApplyEvent(t) /\ log[r][seq] = "message"
                    /\ messages' = MessageOnce(messages, [run |-> r, seq |-> seq])
  BY <1>3 DEF ApplyEvent
<1> QED
  BY <1>1, <1>2, <1>3 DEF Next, CallStep, vars, Restart

LEMMA LinesStay == Inv /\ LinesHappened /\ [Next]_vars => LinesHappened'
<1> SUFFICES ASSUME Inv, LinesHappened, [Next]_vars PROVE LinesHappened'
  OBVIOUS
<1> DEFINE Line == [run : Run, seq : 1 .. MaxEvents]
<1>a. Typed /\ messages \in Seq(Line) /\ Len(messages) \in Nat
  BY LenProperties DEF Inv, Typed, TypeOK
<1>1. \A i \in 1 .. Len(messages) :
         /\ messages[i].seq \in 1 .. Len(log'[messages[i].run])
         /\ log'[messages[i].run][messages[i].seq] = "message"
  <2>1. ASSUME NEW i \in 1 .. Len(messages)
        PROVE  /\ messages[i].seq \in 1 .. Len(log'[messages[i].run])
               /\ log'[messages[i].run][messages[i].seq] = "message"
    <3>1. PICK x, n : x = messages[i].run /\ n = messages[i].seq
      OBVIOUS
    <3>2. messages[i] \in Line
      BY <1>a, <2>1, ElementOfSeq
    <3>3. x \in Run
      BY <3>1, <3>2
    <3>4. n \in 1 .. Len(log[x]) /\ log[x][n] = "message"
      BY <3>1 DEF LinesHappened
    <3>5. /\ Len(log[x]) \in Nat /\ Len(log'[x]) \in Nat /\ Len(log[x]) <= Len(log'[x])
          /\ \A k \in 1 .. Len(log[x]) : log'[x][k] = log[x][k]
      BY <1>a, <3>3, LogsKept
    <3> QED
      BY <3>1, <3>4, <3>5
  <2> QED
    BY <2>1
<1>2. CASE UNCHANGED messages
  BY <1>1, <1>2 DEF LinesHappened
<1>3. CASE messages' # messages
  <2>1. PICK t \in Task :
          LET r == task[t].run
              seq == task[t].after + 1
          IN  /\ ApplyEvent(t) /\ log[r][seq] = "message"
              /\ messages' = MessageOnce(messages, [run |-> r, seq |-> seq])
    BY <1>3, MessagesStep
  <2>2. PICK r, seq : r = task[t].run /\ seq = task[t].after + 1
    OBVIOUS
  <2>3. r \in Run /\ seq \in 1 .. Len(log[r]) /\ seq \in 1 .. MaxEvents /\ UNCHANGED log
    BY <1>a, <2>1, <2>2, StepsApplied
  <2>4. PICK line : line = [run |-> r, seq |-> seq]
    OBVIOUS
  <2>5. line \in Line /\ line.run = r /\ line.seq = seq
    BY <2>3, <2>4
  <2>6. messages' = Append(messages, line) /\ \A i \in 1 .. Len(messages) : messages[i].seq # seq
    <3>1. messages' = MessageOnce(messages, line)
      BY <2>1, <2>2, <2>4
    <3> HIDE DEF Line
    <3>2. \/ MessageOnce(messages, line) = messages
          \/ /\ MessageOnce(messages, line) = Append(messages, line)
             /\ \A i \in 1 .. Len(messages) : messages[i].seq # line.seq
      BY <1>a, <2>5, MessageOnceIs
    <3> QED
      BY <1>3, <2>5, <3>1, <3>2
  <2>7. /\ Len(messages') = Len(messages) + 1 /\ messages'[Len(messages) + 1] = line
        /\ \A i \in 1 .. Len(messages) : messages'[i] = messages[i]
    BY <1>a, <2>5, <2>6, AppendProperties
  <2>8. ASSUME NEW i \in 1 .. Len(messages') PROVE i \in 1 .. Len(messages) \/ i = Len(messages) + 1
    BY <1>a, <2>7
  <2>9. ASSUME NEW i \in 1 .. Len(messages')
        PROVE  /\ messages'[i].seq \in 1 .. Len(log'[messages'[i].run])
               /\ log'[messages'[i].run][messages'[i].seq] = "message"
    <3>1. CASE i \in 1 .. Len(messages)
      BY <1>1, <2>7, <3>1
    <3>2. CASE i = Len(messages) + 1
      BY <2>1, <2>2, <2>3, <2>5, <2>7, <3>2
    <3> QED
      BY <2>8, <3>1, <3>2
  <2>10. ASSUME NEW i \in 1 .. Len(messages'), NEW j \in 1 .. Len(messages'),
                messages'[i].seq = messages'[j].seq
         PROVE  i = j
    <3>1. CASE i \in 1 .. Len(messages) /\ j \in 1 .. Len(messages)
      BY <2>7, <2>10, <3>1 DEF LinesHappened
    <3>2. CASE i = Len(messages) + 1 /\ j \in 1 .. Len(messages)
      BY <2>5, <2>6, <2>7, <2>10, <3>2
    <3>3. CASE i \in 1 .. Len(messages) /\ j = Len(messages) + 1
      BY <2>5, <2>6, <2>7, <2>10, <3>3
    <3> QED
      BY <2>8, <3>1, <3>2, <3>3
  <2> QED
    BY <2>9, <2>10 DEF LinesHappened
<1> QED
  BY <1>2, <1>3

\* A run is shown as done or cancelled only if it was, and each line of the
\* conversation stands for one message of the history.
THEOREM NothingInvented == Spec => []ShownIsReal
<1>1. Init => OutcomesHappened /\ LinesHappened
  <2> SUFFICES ASSUME Init PROVE OutcomesHappened /\ LinesHappened
    OBVIOUS
  <2>1. Len(messages) = 0
    BY EmptySeq DEF Init
  <2> QED
    BY <2>1 DEF Init, OutcomesHappened, LinesHappened
<1>2. Inv /\ OutcomesHappened /\ LinesHappened /\ [Next]_vars
        => OutcomesHappened' /\ LinesHappened'
  BY OutcomesStay, LinesStay
<1>3. Inv /\ OutcomesHappened /\ LinesHappened => ShownIsReal
  <2> SUFFICES ASSUME Inv, OutcomesHappened, LinesHappened PROVE ShownIsReal
    OBVIOUS
  <2>1. DOMAIN messages = 1 .. Len(messages)
    BY LenProperties DEF Inv, Typed, TypeOK
  <2>2. IsInjective(messages)
    BY <2>1 DEF IsInjective, LinesHappened
  <2>3. ASSUME NEW r \in Run, status[r] \in {"DONE", "CANCELLED"} PROVE status[r] \in Range(log[r])
    <3>1. DOMAIN log[r] = 1 .. Len(log[r])
      BY LenProperties DEF Inv, Typed, TypeOK
    <3> QED
      BY <2>3, <3>1, RangeOfList DEF OutcomesHappened, InLog
  <2> QED
    BY <2>1, <2>2, <2>3 DEF ShownIsReal, LinesHappened
<1> QED
  BY <1>1, <1>2, <1>3, InvHolds, PTL DEF Spec

=============================================================================
