------------------------ MODULE HookExecutionProofs -------------------------
(***************************************************************************)
(* Proofs about HookExecution, for any plans, hooks and modules: what a    *)
(* stage reports, which payload it returns and to its hooks, and what it   *)
(* keeps for later stages, whatever answers, time-outs and rejections      *)
(* overlap.                                                                *)
(***************************************************************************)
EXTENDS HookExecution, FiniteSetTheorems, WellFoundedInduction, TLAPS

Responses == [hook : Hooks, kind : Kinds \cup {"timeout"}]
Outcomes == [hook : Hooks, status : Statuses]

\* A set of numbers that has an element has a least one.
LEMMA LeastOf ==
  ASSUME NEW T \in SUBSET Nat, T # {}
  PROVE  \E m \in T : \A k \in T : m <= k
<1>1. IsWellFoundedOn({ss \in Nat \X Nat : ss[1] < ss[2]}, Nat)
  BY NatLessThanWellFounded DEF OpToRel
<1>2. PICK x \in T : \A y \in T : ~ (<<y, x>> \in {ss \in Nat \X Nat : ss[1] < ss[2]})
  BY Zenon, <1>1, WFMin
<1>3. \A y \in T : ~(y < x)
  BY Zenon, <1>2
<1> QED
  BY <1>3

-----------------------------------------------------------------------------
(* Only.                                                                   *)

\* f gives the elements kept among the first i of s for i up to n.
Keeps(f, s, S, n) ==
  f = [i \in 0 .. n |-> IF i = 0 THEN << >>
                        ELSE IF s[i] \in S THEN Append(f[i - 1], s[i]) ELSE f[i - 1]]

Keeper(s, S) == CHOOSE f : Keeps(f, s, S, Len(s))

\* The sequences kept so far exist, for sequences of any length.
LEMMA KeeperExists ==
  ASSUME NEW s, NEW S, NEW n \in Nat
  PROVE  \E f : Keeps(f, s, S, n)
<1> DEFINE T == {k \in Nat : ~ \E f : Keeps(f, s, S, k)}
<1> SUFFICES ASSUME T # {} PROVE FALSE
  OBVIOUS
<1>1. PICK m \in T : \A k \in T : m <= k
  BY Zenon, LeastOf
<1>2. CASE m = 0
  <2> DEFINE f == [i \in 0 .. 0 |-> << >>]
  <2>1. Keeps(f, s, S, 0)
    BY DEF Keeps
  <2> QED
    BY <1>2, <2>1
<1>3. CASE m # 0
  <2>1. m \in Nat \ {0} /\ m - 1 \in Nat /\ m - 1 \notin T
    BY <1>1, <1>3
  <2>2. PICK f : Keeps(f, s, S, m - 1)
    BY <2>1
  <2> DEFINE last == IF s[m] \in S THEN Append(f[m - 1], s[m]) ELSE f[m - 1]
             h == [i \in 0 .. m |-> IF i = m THEN last ELSE f[i]]
  <2>3. \A i \in 0 .. m - 1 : f[i] = IF i = 0 THEN << >>
                                     ELSE IF s[i] \in S THEN Append(f[i - 1], s[i]) ELSE f[i - 1]
    BY Zenon, <2>2 DEF Keeps
  <2> HIDE DEF last
  <2>4. \A i \in 0 .. m : h[i] = IF i = 0 THEN << >>
                                 ELSE IF s[i] \in S THEN Append(h[i - 1], s[i]) ELSE h[i - 1]
    <3> TAKE i \in 0 .. m
    <3>1. CASE i = m
      <4>1. m - 1 \in 0 .. m /\ m - 1 # m /\ m \in 0 .. m /\ m # 0
        BY <2>1
      <4>2. h[m] = last /\ h[m - 1] = f[m - 1]
        BY <4>1
      <4> QED
        BY <3>1, <4>1, <4>2 DEF last
    <3>2. CASE i # m
      <4>1. i \in 0 .. m - 1 /\ h[i] = f[i]
        BY <2>1, <3>2
      <4>2. i # 0 => i - 1 \in 0 .. m /\ i - 1 # m
        BY <2>1, <4>1
      <4>3. i # 0 => h[i - 1] = f[i - 1]
        BY <4>2
      <4> QED
        BY <2>3, <4>1, <4>3
    <3> QED
      BY <3>1, <3>2
  <2>5. Keeps(h, s, S, m)
    BY <2>4 DEF Keeps
  <2> QED
    BY <1>1, <2>5
<1> QED
  BY <1>2, <1>3

\* The equations of Keeper.
LEMMA KeeperIs ==
  ASSUME NEW s, NEW S, Len(s) \in Nat
  PROVE  /\ Only(s, S) = Keeper(s, S)[Len(s)]
         /\ Keeper(s, S)[0] = << >>
         /\ \A i \in 1 .. Len(s) :
              Keeper(s, S)[i] = IF s[i] \in S THEN Append(Keeper(s, S)[i - 1], s[i]) ELSE Keeper(s, S)[i - 1]
<1>1. Only(s, S) = Keeper(s, S)[Len(s)]
  BY DEF Only, Keeper, Keeps
<1>2. Keeps(Keeper(s, S), s, S, Len(s))
  BY KeeperExists DEF Keeper
<1> DEFINE f == Keeper(s, S)
<1> HIDE DEF f
<1>3. \A i \in 0 .. Len(s) : f[i] = IF i = 0 THEN << >>
                                    ELSE IF s[i] \in S THEN Append(f[i - 1], s[i]) ELSE f[i - 1]
  BY Zenon, <1>2 DEF Keeps, f
<1>4. 0 \in 0 .. Len(s) /\ \A i \in 1 .. Len(s) : i \in 0 .. Len(s) /\ i # 0
  OBVIOUS
<1>5. f[0] = << >>
  BY <1>3, <1>4
<1>6. \A i \in 1 .. Len(s) : f[i] = IF s[i] \in S THEN Append(f[i - 1], s[i]) ELSE f[i - 1]
  BY <1>3, <1>4
<1> QED
  BY <1>1, <1>5, <1>6 DEF f

\* Two sequences of which the same elements are kept up to n.
AlikeUpTo(n, s, S, t, T) ==
  /\ Len(s) \in Nat /\ Len(t) \in Nat /\ n \in Nat /\ n <= Len(s) /\ n <= Len(t)
  /\ \A i \in 1 .. n : s[i] = t[i] /\ (s[i] \in S <=> s[i] \in T)

\* Then what is kept of them up to n is the same.
LEMMA KeepersAgree ==
  ASSUME NEW n, NEW s, NEW S, NEW t, NEW T, AlikeUpTo(n, s, S, t, T)
  PROVE  Keeper(s, S)[n] = Keeper(t, T)[n]
<1> USE DEF AlikeUpTo
<1> DEFINE f == Keeper(s, S)
           d == Keeper(t, T)
           D == {k \in 0 .. n : f[k] # d[k]}
<1>1. /\ f[0] = << >> /\ d[0] = << >>
      /\ \A i \in 1 .. Len(s) : f[i] = IF s[i] \in S THEN Append(f[i - 1], s[i]) ELSE f[i - 1]
      /\ \A i \in 1 .. Len(t) : d[i] = IF t[i] \in T THEN Append(d[i - 1], t[i]) ELSE d[i - 1]
  BY KeeperIs
<1> HIDE DEF f, d
<1> SUFFICES ASSUME D # {} PROVE FALSE
  BY DEF f, d
<1>0. D \subseteq Nat
  OBVIOUS
<1>2. PICK m \in D : \A k \in D : m <= k
  <2> HIDE DEF D
  <2> QED
    BY <1>0, LeastOf
<1>3. m \in 0 .. n /\ f[m] # d[m]
  BY <1>2
<1>4. m # 0
  BY <1>1, <1>3
<1>5. m \in 1 .. n /\ m \in 1 .. Len(s) /\ m \in 1 .. Len(t) /\ m - 1 \in 0 .. n /\ m - 1 < m
  BY <1>3, <1>4
<1>6. m - 1 \notin D
  <2> HIDE DEF D
  <2> QED
    BY <1>2, <1>5
<1>7. f[m - 1] = d[m - 1]
  BY <1>5, <1>6
<1>8. f[m] = (IF s[m] \in S THEN Append(f[m - 1], s[m]) ELSE f[m - 1])
  BY <1>1, <1>5
<1>9. d[m] = (IF t[m] \in T THEN Append(d[m - 1], t[m]) ELSE d[m - 1])
  BY <1>1, <1>5
<1> QED
  BY <1>3, <1>5, <1>7, <1>8, <1>9

\* Nothing is kept of nothing.
LEMMA OnlyEmpty == \A S : Only(<< >>, S) = << >>
<1> TAKE S
<1>1. Len(<< >>) \in Nat /\ Len(<< >>) = 0
  OBVIOUS
<1> QED
  BY <1>1, KeeperIs

\* Sets that agree on the elements of s keep the same.
LEMMA OnlySame ==
  ASSUME NEW s, Len(s) \in Nat, NEW S, NEW T, \A i \in 1 .. Len(s) : s[i] \in S <=> s[i] \in T
  PROVE  Only(s, S) = Only(s, T)
<1>1. AlikeUpTo(Len(s), s, S, s, T)
  BY DEF AlikeUpTo
<1>2. Keeper(s, S)[Len(s)] = Keeper(s, T)[Len(s)]
  BY <1>1, KeepersAgree
<1> QED
  BY <1>2, KeeperIs

\* An element that is appended is kept if it lies in the set.
LEMMA OnlyAppend ==
  ASSUME NEW R, NEW s \in Seq(R), NEW o \in R, NEW S
  PROVE  Only(Append(s, o), S) = IF o \in S THEN Append(Only(s, S), o) ELSE Only(s, S)
<1> DEFINE t == Append(s, o)
           n == Len(s)
<1>1. /\ n \in Nat /\ Len(t) = n + 1 /\ n + 1 \in 1 .. Len(t) /\ n <= Len(t) /\ n <= n /\ (n + 1) - 1 = n
      /\ t[n + 1] = o
      /\ \A i \in 1 .. n : s[i] = t[i] /\ (s[i] \in S <=> s[i] \in S)
  OBVIOUS
<1> HIDE DEF t
<1>2. Keeper(s, S)[n] = Keeper(t, S)[n]
  <2>1. AlikeUpTo(n, s, S, t, S)
    BY <1>1 DEF AlikeUpTo
  <2> QED
    BY <2>1, KeepersAgree
<1>3. Only(s, S) = Keeper(s, S)[n]
  BY <1>1, KeeperIs
<1>4. Only(t, S) = Keeper(t, S)[n + 1]
  <2>1. Len(t) \in Nat
    BY <1>1
  <2>2. Only(t, S) = Keeper(t, S)[Len(t)]
    BY <2>1, KeeperIs
  <2> QED
    BY <1>1, <2>2
<1>5. Keeper(t, S)[n + 1] = IF t[n + 1] \in S THEN Append(Keeper(t, S)[(n + 1) - 1], t[n + 1]) ELSE Keeper(t, S)[(n + 1) - 1]
  <2>1. Len(t) \in Nat
    BY <1>1
  <2> QED
    BY <1>1, <2>1, KeeperIs
<1> QED
  BY Zenon, <1>1, <1>2, <1>3, <1>4, <1>5 DEF t

\* What is kept lies in the set.
LEMMA OnlyType ==
  ASSUME NEW s, Len(s) \in Nat, NEW S
  PROVE  Only(s, S) \in Seq(S)
<1> DEFINE f == Keeper(s, S)
           D == {k \in 0 .. Len(s) : f[k] \notin Seq(S)}
<1>1. /\ f[0] = << >>
      /\ \A i \in 1 .. Len(s) : f[i] = IF s[i] \in S THEN Append(f[i - 1], s[i]) ELSE f[i - 1]
      /\ Only(s, S) = f[Len(s)]
  BY KeeperIs
<1> HIDE DEF f
<1> SUFFICES ASSUME D # {} PROVE FALSE
  BY <1>1
<1>0. D \subseteq Nat
  OBVIOUS
<1>2. PICK m \in D : \A k \in D : m <= k
  <2> HIDE DEF D
  <2> QED
    BY <1>0, LeastOf
<1>3. m \in 0 .. Len(s) /\ f[m] \notin Seq(S)
  BY <1>2
<1>4. m # 0
  <2>1. << >> \in Seq(S)
    OBVIOUS
  <2> QED
    BY Zenon, <1>1, <1>3, <2>1
<1>5. m \in 1 .. Len(s) /\ m - 1 \in 0 .. Len(s) /\ m - 1 < m
  BY <1>3, <1>4
<1>6. m - 1 \notin D
  <2> HIDE DEF D
  <2> QED
    BY <1>2, <1>5
<1>7. f[m - 1] \in Seq(S)
  BY <1>5, <1>6
<1>8. f[m] = (IF s[m] \in S THEN Append(f[m - 1], s[m]) ELSE f[m - 1])
  BY <1>1, <1>5
<1> DEFINE p == f[m - 1]
<1> HIDE DEF p
<1>9. p \in Seq(S) /\ f[m] = (IF s[m] \in S THEN Append(p, s[m]) ELSE p)
  BY <1>7, <1>8 DEF p
<1> QED
  BY <1>3, <1>9

-----------------------------------------------------------------------------
(* The changes a sequence of outcomes reports.                             *)

Made(hs) == [hook : hs, status : {"updated"}]

Updates(s, hs) == [i \in DOMAIN Only(s, Made(hs)) |-> Only(s, Made(hs))[i].hook]

\* UpdatesOf in terms of the sequence of outcomes.
LEMMA UpdatesOfIs == \A hs : UpdatesOf(hs) = Updates(outcomes, hs)
BY DEF UpdatesOf, Updates, Made

\* A stage without outcomes has changed nothing.
LEMMA UpdatesEmpty == \A hs : Updates(<< >>, hs) = << >>
<1> TAKE hs
<1>1. Only(<< >>, Made(hs)) = << >>
  BY OnlyEmpty
<1> QED
  BY <1>1 DEF Updates

\* An outcome adds a change if it is an update by one of the hooks.
LEMMA UpdatesAppend ==
  ASSUME NEW s \in Seq(Outcomes), NEW o \in Outcomes, NEW hs
  PROVE  /\ o.hook \in hs /\ o.status = "updated" => Updates(Append(s, o), hs) = Append(Updates(s, hs), o.hook)
         /\ ~(o.hook \in hs /\ o.status = "updated") => Updates(Append(s, o), hs) = Updates(s, hs)
<1> DEFINE k == Only(s, Made(hs))
           m == Only(Append(s, o), Made(hs))
<1>1. m = IF o \in Made(hs) THEN Append(k, o) ELSE k
  BY OnlyAppend
<1>2. k \in Seq(Made(hs))
  <2>1. Len(s) \in Nat
    OBVIOUS
  <2> QED
    BY <2>1, OnlyType
<1>3. o \in Made(hs) <=> o.hook \in hs /\ o.status = "updated"
  BY DEF Made, Outcomes
<1>4. Updates(s, hs) = [i \in DOMAIN k |-> k[i].hook] /\ Updates(Append(s, o), hs) = [i \in DOMAIN m |-> m[i].hook]
  BY DEF Updates
<1> HIDE DEF k, m
<1>5. CASE o \in Made(hs)
  <2>1. m = Append(k, o)
    BY <1>1, <1>5
  <2>2. [i \in DOMAIN m |-> m[i].hook] = Append([i \in DOMAIN k |-> k[i].hook], o.hook)
    <3> DEFINE kh == [i \in DOMAIN k |-> k[i].hook]
    <3>1. Len(k) \in Nat /\ DOMAIN k = 1 .. Len(k)
      BY <1>2
    <3>2. Len(m) = Len(k) + 1 /\ DOMAIN m = 1 .. Len(k) + 1 /\ m[Len(k) + 1] = o
          /\ \A i \in 1 .. Len(k) : m[i] = k[i]
      BY <1>2, <1>5, <2>1
    <3>3. \A i \in 1 .. Len(k) : k[i].hook \in hs
      <4>1. \A i \in 1 .. Len(k) : k[i] \in Made(hs)
        BY <1>2
      <4> QED
        BY <4>1 DEF Made
    <3>4. kh \in Seq(hs) /\ Len(kh) = Len(k)
      BY <3>1, <3>3
    <3>5. /\ DOMAIN Append(kh, o.hook) = 1 .. Len(k) + 1
          /\ \A i \in 1 .. Len(k) : Append(kh, o.hook)[i] = kh[i]
          /\ Append(kh, o.hook)[Len(k) + 1] = o.hook
          /\ Append(kh, o.hook) \in Seq(hs)
      BY <1>3, <1>5, <3>4
    <3>6. \A i \in 1 .. Len(k) : kh[i] = k[i].hook
      BY <3>1
    <3> DEFINE left == [i \in DOMAIN m |-> m[i].hook]
               right == Append(kh, o.hook)
    <3>7. \A i \in 1 .. Len(k) + 1 : left[i] = right[i]
      <4> TAKE i \in 1 .. Len(k) + 1
      <4> HIDE DEF kh, right
      <4>1. CASE i = Len(k) + 1
        BY <3>2, <3>5, <4>1 DEF right
      <4>2. CASE i # Len(k) + 1
        <5>1. i \in 1 .. Len(k)
          BY <3>1, <4>2
        <5> QED
          BY <3>2, <3>5, <3>6, <5>1 DEF right
      <4> QED
        BY <4>1, <4>2
    <3>8. right = [i \in 1 .. Len(k) + 1 |-> right[i]]
      BY <3>5
    <3>9. left = [i \in 1 .. Len(k) + 1 |-> left[i]]
      BY <3>2
    <3> HIDE DEF left, right
    <3>10. left = right
      BY <3>7, <3>8, <3>9
    <3> QED
      BY Zenon, <3>10 DEF left, right
  <2> QED
    BY Zenon, <1>3, <1>4, <1>5, <2>2
<1>6. CASE o \notin Made(hs)
  BY <1>1, <1>3, <1>4, <1>6
<1> QED
  BY <1>5, <1>6

\* Which hooks without an outcome are in the set does not matter.
LEMMA UpdatesSame ==
  ASSUME NEW s \in Seq(Outcomes), NEW hs, NEW gs,
         \A i \in DOMAIN s : s[i].hook \in hs <=> s[i].hook \in gs
  PROVE  Updates(s, hs) = Updates(s, gs)
<1>1. Len(s) \in Nat /\ DOMAIN s = 1 .. Len(s) /\ \A i \in 1 .. Len(s) : s[i] \in Outcomes
  OBVIOUS
<1>2. \A i \in 1 .. Len(s) : s[i] \in Made(hs) <=> s[i] \in Made(gs)
  BY <1>1 DEF Made, Outcomes
<1>3. Only(s, Made(hs)) = Only(s, Made(gs))
  BY <1>1, <1>2, OnlySame
<1> QED
  BY <1>3 DEF Updates

\* The changes are a sequence of hooks.
LEMMA UpdatesType ==
  ASSUME NEW s \in Seq(Outcomes), NEW hs \in SUBSET Hooks
  PROVE  Updates(s, hs) \in Seq(Hooks)
<1> DEFINE k == Only(s, Made(hs))
<1>1. Len(s) \in Nat
  OBVIOUS
<1>2. k \in Seq(Made(hs))
  BY <1>1, OnlyType
<1> HIDE DEF k
<1>3. \A i \in DOMAIN k : k[i].hook \in Hooks
  <2>1. \A i \in DOMAIN k : k[i] \in Made(hs)
    BY <1>2
  <2> QED
    BY <2>1 DEF Made
<1>4. [i \in DOMAIN k |-> k[i].hook] \in Seq(Hooks)
  BY <1>2, <1>3
<1> QED
  BY <1>4 DEF Updates, k

-----------------------------------------------------------------------------
(* Sequences as sets of their elements.                                    *)

Those(s) == {s[i] : i \in DOMAIN s}
HooksIn(s) == {r.hook : r \in Those(s)}
Distinct(s) == \A i, j \in DOMAIN s : s[i].hook = s[j].hook => i = j

\* What appending a response or an outcome adds.
LEMMA PushThose ==
  ASSUME NEW R, NEW s \in Seq(R), NEW r \in R
  PROVE  /\ Append(s, r) \in Seq(R) /\ Append(s, r) # << >>
         /\ Those(Append(s, r)) = Those(s) \cup {r}
         /\ HooksIn(Append(s, r)) = HooksIn(s) \cup {r.hook}
         /\ Distinct(s) /\ r.hook \notin HooksIn(s) => Distinct(Append(s, r))
<1> DEFINE t == Append(s, r)
<1>1. /\ Len(s) \in Nat /\ DOMAIN s = 1 .. Len(s) /\ DOMAIN t = 1 .. Len(s) + 1
      /\ t[Len(s) + 1] = r /\ \A i \in 1 .. Len(s) : t[i] = s[i]
      /\ t \in Seq(R) /\ t # << >>
  OBVIOUS
<1> HIDE DEF t
<1>2. DOMAIN t = DOMAIN s \cup {Len(s) + 1} /\ Len(s) + 1 \notin DOMAIN s
  BY <1>1
<1>3. Those(t) = Those(s) \cup {r}
  BY <1>1, <1>2 DEF Those
<1>4. HooksIn(t) = HooksIn(s) \cup {r.hook}
  BY <1>3 DEF HooksIn
<1>5. ASSUME Distinct(s), r.hook \notin HooksIn(s) PROVE Distinct(t)
  <2>1. \A i \in DOMAIN s : t[i].hook = s[i].hook /\ s[i].hook # r.hook
    BY <1>1, <1>5 DEF HooksIn, Those
  <2>2. t[Len(s) + 1].hook = r.hook
    BY <1>1
  <2> SUFFICES ASSUME NEW i \in DOMAIN t, NEW j \in DOMAIN t, t[i].hook = t[j].hook PROVE i = j
    BY DEF Distinct
  <2>3. CASE i \in DOMAIN s /\ j \in DOMAIN s
    BY <1>5, <2>1, <2>3 DEF Distinct
  <2>4. CASE i = Len(s) + 1 /\ j = Len(s) + 1
    BY <2>4
  <2>5. ~(i \in DOMAIN s /\ j = Len(s) + 1) /\ ~(j \in DOMAIN s /\ i = Len(s) + 1)
    BY <2>1, <2>2
  <2> QED
    BY <1>2, <2>3, <2>4, <2>5
<1> QED
  BY <1>1, <1>3, <1>4, <1>5 DEF t

\* What taking the head of a list of responses takes away.
LEMMA PopThose ==
  ASSUME NEW R, NEW s \in Seq(R), s # << >>
  PROVE  /\ Head(s) \in R /\ Tail(s) \in Seq(R)
         /\ Those(s) = Those(Tail(s)) \cup {Head(s)}
         /\ HooksIn(s) = HooksIn(Tail(s)) \cup {Head(s).hook}
         /\ Distinct(s) => Distinct(Tail(s)) /\ Head(s).hook \notin HooksIn(Tail(s))
<1> DEFINE t == Tail(s)
           r == Head(s)
           n == Len(s)
<1>1. /\ n \in Nat \ {0} /\ DOMAIN s = 1 .. n /\ DOMAIN t = 1 .. n - 1
      /\ s[1] = r /\ \A i \in 1 .. n - 1 : t[i] = s[i + 1]
      /\ r \in R /\ t \in Seq(R)
  OBVIOUS
<1> HIDE DEF t, r, n
<1>2. \A i \in 1 .. n : i = 1 \/ (i - 1 \in 1 .. n - 1 /\ i = (i - 1) + 1)
  BY <1>1
<1>3. \A i \in 1 .. n - 1 : i + 1 \in 1 .. n /\ i + 1 # 1
  BY <1>1
<1>4. 1 \in 1 .. n
  BY <1>1
<1>5. Those(s) = Those(t) \cup {r}
  <2>1. ASSUME NEW x \in Those(s) PROVE x \in Those(t) \cup {r}
    <3>1. PICK i \in 1 .. n : x = s[i]
      BY <1>1, <2>1 DEF Those
    <3>2. CASE i = 1
      BY <1>1, <3>1, <3>2
    <3>3. CASE i # 1
      <4>1. i - 1 \in 1 .. n - 1 /\ t[i - 1] = s[i]
        BY <1>1, <1>2, <3>3
      <4> QED
        BY Zenon, <1>1, <3>1, <4>1 DEF Those
    <3> QED
      BY <3>2, <3>3
  <2>2. r \in Those(s)
    BY <1>1, <1>4 DEF Those
  <2>3. ASSUME NEW x \in Those(t) PROVE x \in Those(s)
    <3>1. PICK i \in 1 .. n - 1 : x = t[i]
      BY <1>1, <2>3 DEF Those
    <3> QED
      BY <1>1, <1>3, <3>1 DEF Those
  <2> QED
    BY <2>1, <2>2, <2>3
<1>6. HooksIn(s) = HooksIn(t) \cup {r.hook}
  BY <1>5 DEF HooksIn
<1>7. ASSUME Distinct(s) PROVE Distinct(t) /\ r.hook \notin HooksIn(t)
  <2>1. \A i, j \in 1 .. n : s[i].hook = s[j].hook => i = j
    BY Zenon, <1>1, <1>7 DEF Distinct
  <2>2. \A i, j \in 1 .. n - 1 : t[i].hook = t[j].hook => i = j
    <3> TAKE i, j \in 1 .. n - 1
    <3>1. t[i] = s[i + 1] /\ t[j] = s[j + 1] /\ i + 1 \in 1 .. n /\ j + 1 \in 1 .. n
      BY <1>1, <1>3
    <3>2. t[i].hook = t[j].hook => i + 1 = j + 1
      BY <2>1, <3>1
    <3> QED
      BY <1>1, <3>2
  <2>3. \A i \in 1 .. n - 1 : t[i].hook # r.hook
    BY <1>1, <1>3, <1>4, <2>1
  <2> QED
    BY <1>1, <2>2, <2>3 DEF Distinct, HooksIn, Those
<1> QED
  BY <1>1, <1>5, <1>6, <1>7 DEF t, r

-----------------------------------------------------------------------------
(* Plans.                                                                  *)

IsPlan(p) ==
  /\ p \in Seq((SUBSET Hooks) \ {{}})
  /\ \A j, k \in DOMAIN p : j # k => p[j] \cap p[k] = {}
  /\ DOMAIN p \subseteq GroupIds

\* The hooks of the groups before k.
Before(p, k) == UNION {p[j] : j \in 1 .. k - 1}

Place(p, h) == CHOOSE k \in DOMAIN p : h \in p[k]

\* A hook is in one group of a plan.
LEMMA PlaceIs ==
  ASSUME NEW p, IsPlan(p), NEW k \in DOMAIN p, NEW h \in p[k]
  PROVE  Place(p, h) = k /\ h \in Hooks
<1>1. \A j \in DOMAIN p : h \in p[j] => j = k
  BY DEF IsPlan
<1>2. p[k] \in SUBSET Hooks
  BY DEF IsPlan
<1> QED
  BY <1>1, <1>2 DEF Place

\* The hooks before group n are those of the groups with a smaller number.
LEMMA BeforeIs ==
  ASSUME NEW p, IsPlan(p), NEW k \in DOMAIN p, NEW h \in p[k], NEW n \in Nat, n <= Len(p) + 1
  PROVE  h \in Before(p, n) <=> k < n
<1>1. Len(p) \in Nat /\ DOMAIN p = 1 .. Len(p)
  BY DEF IsPlan
<1>2. k < n => k \in 1 .. n - 1
  BY <1>1
<1>3. \A j \in 1 .. n - 1 : j \in DOMAIN p /\ j < n
  BY <1>1
<1>4. \A j \in DOMAIN p : h \in p[j] => j = k
  BY DEF IsPlan
<1> QED
  BY <1>2, <1>3, <1>4 DEF Before

\* There are not more groups than hooks: a group has a hook of its own.
LEMMA PlanIsSmall ==
  ASSUME NEW p \in Seq((SUBSET Hooks) \ {{}}), \A j, k \in DOMAIN p : j # k => p[j] \cap p[k] = {}
  PROVE  IsPlan(p)
<1>1. Len(p) \in Nat /\ DOMAIN p = 1 .. Len(p)
  OBVIOUS
<1>2. \A k \in DOMAIN p : p[k] \in SUBSET Hooks /\ p[k] # {}
  OBVIOUS
<1> DEFINE f == [k \in DOMAIN p |-> CHOOSE h : h \in p[k]]
<1>3. \A k \in DOMAIN p : f[k] \in p[k]
  BY <1>2
<1>4. f \in [DOMAIN p -> Hooks]
  BY <1>2, <1>3
<1>5. \A j, k \in DOMAIN p : f[j] = f[k] => j = k
  BY <1>3
<1> HIDE DEF f
<1>6. f \in Injection(DOMAIN p, Hooks)
  BY <1>4, <1>5 DEF Injection, IsInjective
<1>7. Cardinality(DOMAIN p) <= Cardinality(Hooks)
  BY <1>6, FS_Injection, FiniteAssumption
<1>8. Cardinality(1 .. Len(p)) = Len(p)
  <2>1. 1 \in Int /\ Len(p) \in Int
    BY <1>1
  <2>2. Cardinality(1 .. Len(p)) = IF 1 > Len(p) THEN 0 ELSE Len(p) - 1 + 1
    BY <2>1, FS_Interval
  <2> QED
    BY <1>1, <2>2
<1>9. Cardinality(Hooks) \in Nat
  BY FiniteAssumption, FS_CardinalityType
<1>10. DOMAIN p \subseteq GroupIds
  BY <1>1, <1>7, <1>8, <1>9 DEF GroupIds
<1> QED
  BY <1>10 DEF IsPlan

\* getPlan and getMergedPlan give plans.
LEMMA MergedPlanIs == ASSUME NEW c \in Configs PROVE IsPlan(MergedPlan(c))
<1> DEFINE NE == (SUBSET Hooks) \ {{}}
<1>1. ASSUME NEW cfg, Len(cfg) \in Nat, DOMAIN cfg = 1 .. Len(cfg) PROVE GetPlan(cfg) \in Seq(NE)
  <2> DEFINE known == [i \in DOMAIN cfg |-> cfg[i] \cap Hooks]
  <2>1. known \in Seq(SUBSET Hooks)
    BY <1>1
  <2>2. Len(known) \in Nat
    BY <2>1
  <2> HIDE DEF known, NE
  <2>3. Only(known, NE) \in Seq(NE)
    BY <2>2, OnlyType
  <2> QED
    BY <2>3 DEF GetPlan, known, NE
<1>2. GetPlan(c.host) \in Seq(NE) /\ GetPlan(AccountPlan(c)) \in Seq(NE)
  <2>1. \A cfg \in {c.host, AccountPlan(c)} : Len(cfg) \in Nat /\ DOMAIN cfg = 1 .. Len(cfg)
    BY Zenon, ConfigAssumption
  <2> QED
    BY Zenon, <1>1, <2>1
<1> HIDE DEF NE
<1>3. MergedPlan(c) \in Seq(NE)
  <2>1. \A s, t \in Seq(NE) : s \o t \in Seq(NE)
    OBVIOUS
  <2> QED
    BY Zenon, <1>2, <2>1 DEF MergedPlan
<1>4. \A j, k \in DOMAIN MergedPlan(c) : j # k => MergedPlan(c)[j] \cap MergedPlan(c)[k] = {}
  BY PlanAssumption
<1> QED
  BY Zenon, <1>3, <1>4, PlanIsSmall DEF NE

-----------------------------------------------------------------------------
(* The inductive invariant.                                                *)

\* The hook h has been started when the stage is at group n in a phase f.
Started(p, n, f, h) == \E k \in DOMAIN p : h \in p[k] /\ (k < n \/ (k = n /\ f # "start"))

\* An executeHook runs from the start of its group until it has sent its response,
\* or has left because its group was rejected.
Goroutines ==
  /\ IsPlan(plan)
  /\ phase # "done" => g \in DOMAIN plan
  /\ \A h \in Hooks : exec[h] # "idle" <=> Started(plan, g, phase, h)
  /\ \A h \in Hooks : exec[h] = "sending" => msg[h] # "none"
  /\ \A h \in Hooks : exec[h] = "left" => Place(plan, h) \in rejected
  /\ \A k \in closed : \A h \in plan[k] : exec[h] \in {"sent", "left"}

\* A hook whose response has been sent is in one place of one list.
Tokens ==
  /\ Distinct(outcomes) /\ Distinct(collected) /\ HooksIn(outcomes) \cap HooksIn(collected) = {}
  /\ \A k \in DOMAIN plan :
       /\ Distinct(resp[k]) /\ HooksIn(resp[k]) \subseteq plan[k]
       /\ HooksIn(resp[k]) \cap (HooksIn(outcomes) \cup HooksIn(collected)) = {}
  /\ \A h \in Hooks :
       exec[h] = "sent" <=> \/ h \in HooksIn(outcomes) \cup HooksIn(collected)
                            \/ \E k \in DOMAIN plan : h \in HooksIn(resp[k])
  /\ \A h \in HooksIn(collected) : g \in DOMAIN plan /\ h \in plan[g]
  /\ phase = "start" => collected = << >>
  /\ phase \in {"start", "collect"} => HooksIn(outcomes) \subseteq Before(plan, g)
  /\ \A r \in Those(collected) : Rejects(r.kind) => g \in rejected

\* Once a group that was not rejected is over, its hooks have been reported or
\* are about to be.
Reported ==
  /\ \A k \in DOMAIN plan \ rejected : k < g => plan[k] \subseteq HooksIn(outcomes)
  /\ phase \in {"handle", "done"} =>
       \A k \in DOMAIN plan \ rejected : k = g => plan[k] \subseteq HooksIn(outcomes) \cup HooksIn(collected)
  /\ phase = "done" /\ g \notin rejected => collected = << >>

Refused(s) == \E o \in Those(s) : o.status = "rejected"

\* A rejection that is reported ends the stage.
Rejection ==
  Refused(outcomes) => phase = "done" /\ IsRejectable /\ outcomes[Len(outcomes)].status = "rejected"

\* UsesReturned and UpdatesRequest as predicates of the name of a stage.
Returned(st) == st \in {"entrypoint", "raw_auction_request", "exitpoint"}
Scrubs(st) == st \in {"processed_auction_request", "bidder_request"}

ForHook(st, h, changes) == IF Scrubs(st) /\ h \in Denied THEN Append(changes, Scrub) ELSE changes

\* What the payload of the stage, its copy at the start of the group and those
\* given to the hooks hold, in terms of the outcomes.
Payloads ==
  /\ ~(Refused(outcomes) /\ Returned(stage)) => payload = Updates(outcomes, Hooks)
  /\ phase \in {"collect", "handle"} => base = Updates(outcomes, Before(plan, g))
  /\ Refused(outcomes) /\ Returned(stage) => payload = Updates(outcomes, Before(plan, g))
  /\ \A h \in Hooks : exec[h] # "idle" =>
       given[h] = ForHook(stage, h, Updates(outcomes, Before(plan, Place(plan, h))))

Alone(p, h) == \A f \in p[Place(p, h)] : ModuleOf[f] = ModuleOf[h] => f = h

Kept(p, h, ctx) == Alone(p, h) => h \in ctx[ModuleOf[h]]

\* Where the context of a hook that was reported is at the moment.
Contexts ==
  /\ \A m \in Modules : Earlier \in saved[m]
  /\ \A o \in Those(outcomes) : o.status # "timeout" =>
       /\ o.hook \in Before(plan, g) => Kept(plan, o.hook, stageCtx)
       /\ o.hook \notin Before(plan, g) => Kept(plan, o.hook, groupCtx)
       /\ phase = "done" => Kept(plan, o.hook, saved)

HookInv == TypeOK /\ Goroutines /\ Tokens /\ Reported /\ Rejection /\ Payloads /\ Contexts

\* A stage starts with nothing called and the contexts of the earlier stages.
LEMMA InitHooks == Init => HookInv
<1> SUFFICES ASSUME Init PROVE HookInv
  OBVIOUS
<1>1. IsPlan(plan)
  BY MergedPlanIs DEF Init
<1>2. plan \in Seq(SUBSET Hooks) /\ Len(plan) \in Nat /\ DOMAIN plan = 1 .. Len(plan)
  BY <1>1 DEF IsPlan
<1>3. /\ outcomes = << >> /\ collected = << >> /\ payload = << >> /\ g = 1
      /\ closed = {} /\ rejected = {}
      /\ \A k \in DOMAIN plan : resp[k] = << >>
      /\ \A h \in Hooks : exec[h] = "idle"
      /\ plan # << >> => phase = "start"
      /\ plan = << >> => phase = "done"
  BY <1>1 DEF Init, IsPlan
<1>4. Those(<< >>) = {} /\ HooksIn(<< >>) = {} /\ Distinct(<< >>)
  BY DEF Those, HooksIn, Distinct
<1>5. plan # << >> => 1 \in DOMAIN plan
  BY <1>2
<1>6. TypeOK
  <2>1. \A S : << >> \in Seq(S)
    OBVIOUS
  <2>2. /\ stage \in Stages /\ plan \in Seq(SUBSET Hooks) /\ g \in Groups \cup {1}
        /\ phase \in {"start", "collect", "handle", "done"}
        /\ closed \subseteq Groups /\ rejected \subseteq Groups
    BY <1>2, <1>3 DEF Init
  <2>3. /\ hook \in [Hooks -> {"idle", "running", "panicked", "answered"}]
        /\ exec \in [Hooks -> {"idle", "waiting", "sending", "sent", "left"}]
        /\ msg \in [Hooks -> Kinds \cup {"none", "timeout"}]
    BY DEF Init
  <2>4. /\ given \in [Hooks -> Seq(Hooks \cup {Scrub})]
        /\ resp \in [GroupIds -> Seq([hook : Hooks, kind : Kinds \cup {"timeout"}])]
        /\ collected \in Seq([hook : Hooks, kind : Kinds \cup {"timeout"}])
        /\ outcomes \in Seq([hook : Hooks, status : Statuses])
        /\ base \in Seq(Hooks) /\ payload \in Seq(Hooks)
    BY <2>1 DEF Init
  <2>5. /\ groupCtx \in [Modules -> SUBSET Hooks] /\ stageCtx \in [Modules -> SUBSET Hooks]
        /\ saved \in [Modules -> SUBSET (Hooks \cup {Earlier})]
    BY DEF Init, NoContext
  <2>6. \A k \in Groups : Len(resp[k]) <= Cardinality(plan[k])
    <3> TAKE k \in Groups
    <3>1. plan[k] \in SUBSET Hooks
      BY <1>2 DEF Groups
    <3>2. Cardinality(plan[k]) \in Nat
      BY <3>1, FiniteAssumption, FS_Subset, FS_CardinalityType
    <3>3. resp[k] = << >>
      BY <1>3 DEF Groups
    <3> QED
      BY <3>2, <3>3
  <2> QED
    BY Zenon, <2>2, <2>3, <2>4, <2>5, <2>6 DEF TypeOK
<1>7. Goroutines
  <2>1. \A h \in Hooks : ~Started(plan, g, phase, h)
    BY <1>2, <1>3, <1>5 DEF Started
  <2> QED
    BY <1>1, <1>3, <1>5, <2>1 DEF Goroutines
<1>8. Tokens
  BY Zenon, <1>3, <1>4 DEF Tokens
<1>9. Reported
  BY <1>2, <1>3, <1>4, <1>5 DEF Reported
<1>10. ~Refused(outcomes)
  BY <1>3, <1>4 DEF Refused
<1>11. Rejection /\ Payloads
  BY Zenon, <1>3, <1>10, UpdatesEmpty DEF Rejection, Payloads, Init
<1>12. Contexts
  BY Zenon, <1>3, <1>4 DEF Contexts, Init
<1> QED
  BY <1>6, <1>7, <1>8, <1>9, <1>11, <1>12 DEF HookInv

\* The capacity of the channel of a group is a number.
LEMMA CapacityType ==
  ASSUME TypeOK, NEW k \in Groups
  PROVE  Cardinality(plan[k]) \in Nat /\ k \in DOMAIN plan
<1>1. plan[k] \in SUBSET Hooks
  BY DEF TypeOK, Groups
<1> QED
  BY <1>1, FiniteAssumption, FS_Subset, FS_CardinalityType DEF Groups

\* A module answers or panics: only its message changes (executeHook).
LEMMA AnswerHooks ==
  ASSUME HookInv, NEW h \in Hooks, HookAnswers(h) \/ HookPanics(h)
  PROVE  HookInv'
<1>1. /\ UNCHANGED <<plan, stage, g, phase, exec, msg, given, resp, closed, rejected>>
      /\ UNCHANGED <<collected, outcomes, base, payload, groupCtx, stageCtx, saved>>
      /\ hook' \in [Hooks -> {"idle", "running", "panicked", "answered"}]
  BY Zenon DEF HookInv, TypeOK, HookAnswers, HookPanics
<1>2. TypeOK'
  BY Zenon, <1>1 DEF HookInv, TypeOK, Groups
<1>3. Goroutines' /\ Tokens'
  BY Zenon, <1>1 DEF HookInv, Goroutines, Tokens
<1>4. Reported' /\ Rejection'
  BY Zenon, <1>1 DEF HookInv, Reported, Rejection, IsRejectable
<1>5. Payloads' /\ Contexts'
  BY Zenon, <1>1 DEF HookInv, Payloads, Contexts
<1> QED
  BY <1>2, <1>3, <1>4, <1>5 DEF HookInv

\* executeHook takes the answer, the time-out or the rejection.
LEMMA SelectHooks == ASSUME HookInv, NEW h \in Hooks, Select(h) PROVE HookInv'
<1>0. TypeOK /\ Goroutines /\ Tokens /\ Reported /\ Rejection /\ Payloads /\ Contexts
  BY Zenon DEF HookInv
<1>1. /\ UNCHANGED <<plan, stage, g, phase, hook, given, resp, closed, rejected>>
      /\ UNCHANGED <<collected, outcomes, base, payload, groupCtx, stageCtx, saved>>
  BY DEF Select
<1>2. /\ exec \in [Hooks -> {"idle", "waiting", "sending", "sent", "left"}]
      /\ msg \in [Hooks -> Kinds \cup {"none", "timeout"}]
      /\ exec[h] = "waiting"
  BY Zenon, <1>0 DEF TypeOK, Select
<1>3. \/ /\ exec' = [exec EXCEPT ![h] = "sending"]
         /\ \E kind \in Kinds \cup {"timeout"} : msg' = [msg EXCEPT ![h] = kind]
      \/ /\ exec' = [exec EXCEPT ![h] = "left"] /\ UNCHANGED msg
         /\ Place(plan, h) \in rejected
  BY Zenon DEF Select, ChooseAnswer, ChooseTimeout, ChooseRejected, GroupOf, Groups, Place
<1>4. /\ exec' \in [Hooks -> {"idle", "waiting", "sending", "sent", "left"}]
      /\ msg' \in [Hooks -> Kinds \cup {"none", "timeout"}]
      /\ exec'[h] \in {"sending", "left"}
      /\ \A f \in Hooks \ {h} : exec'[f] = exec[f] /\ msg'[f] = msg[f]
  BY <1>2, <1>3 DEF Kinds
<1>5. exec'[h] = "sending" => msg'[h] # "none"
  BY <1>2, <1>3 DEF Kinds
<1>6. exec'[h] = "left" => Place(plan, h) \in rejected
  BY <1>2, <1>3
<1>7. TypeOK'
  BY Zenon, <1>0, <1>1, <1>4 DEF TypeOK, Groups
<1>8. Goroutines'
  <2>1. \A f \in Hooks : exec'[f] # "idle" <=> Started(plan, g, phase, f)
    BY <1>0, <1>2, <1>4 DEF Goroutines
  <2>2. \A f \in Hooks : exec'[f] = "sending" => msg'[f] # "none"
    BY Zenon, <1>0, <1>4, <1>5 DEF Goroutines
  <2>3. \A f \in Hooks : exec'[f] = "left" => Place(plan, f) \in rejected
    BY Zenon, <1>0, <1>4, <1>6 DEF Goroutines
  <2>4. \A k \in closed : \A f \in plan[k] : exec'[f] \in {"sent", "left"}
    <3> TAKE k \in closed
    <3> TAKE f \in plan[k]
    <3>1. k \in DOMAIN plan /\ f \in Hooks
      BY <1>0 DEF TypeOK, Groups
    <3>2. exec[f] \in {"sent", "left"}
      BY Zenon, <1>0 DEF Goroutines
    <3> QED
      BY Zenon, <1>2, <1>4, <3>1, <3>2
  <2> QED
    BY ZenonT(30), <1>0, <1>1, <2>1, <2>2, <2>3, <2>4 DEF Goroutines
<1>9. Tokens'
  <2>1. \A f \in Hooks : exec'[f] = "sent" <=> exec[f] = "sent"
    BY <1>2, <1>4
  <2> QED
    BY Zenon, <1>0, <1>1, <2>1 DEF Tokens
<1>10. Reported' /\ Rejection' /\ Contexts'
  BY Zenon, <1>0, <1>1 DEF Reported, Rejection, IsRejectable, Contexts
<1>11. Payloads'
  <2>1. \A f \in Hooks : exec'[f] # "idle" <=> exec[f] # "idle"
    BY <1>2, <1>4
  <2> QED
    BY Zenon, <1>0, <1>1, <2>1 DEF Payloads
<1> QED
  BY <1>7, <1>8, <1>9, <1>10, <1>11 DEF HookInv

\* The channel of a group is closed once its hooks have returned (executeGroup).
LEMMA CloseHooks == ASSUME HookInv, NEW k \in GroupIds, CloseResponses(k) PROVE HookInv'
<1>0. TypeOK /\ Goroutines /\ Tokens /\ Reported /\ Rejection /\ Payloads /\ Contexts
  BY DEF HookInv
<1>1. /\ UNCHANGED <<plan, stage, g, phase, hook, exec, msg, given, resp, rejected>>
      /\ UNCHANGED <<collected, outcomes, base, payload, groupCtx, stageCtx, saved>>
      /\ closed' = closed \cup {k} /\ k \in Groups
      /\ \A h \in plan[k] : exec[h] \in {"sent", "left"}
  BY Zenon DEF CloseResponses, AllReturned
<1>2. TypeOK'
  BY Zenon, <1>0, <1>1 DEF TypeOK, Groups
<1>3. Goroutines'
  BY Zenon, <1>0, <1>1 DEF Goroutines
<1>4. Tokens' /\ Payloads'
  BY Zenon, <1>0, <1>1 DEF Tokens, Payloads
<1>5. Reported' /\ Rejection' /\ Contexts'
  BY Zenon, <1>0, <1>1 DEF Reported, Rejection, IsRejectable, Contexts
<1> QED
  BY <1>2, <1>3, <1>4, <1>5 DEF HookInv

\* A response joins the channel of its group (executeHook).
LEMMA SendHooks == ASSUME HookInv, NEW h \in Hooks, SendResponse(h) PROVE HookInv'
<1>0. TypeOK /\ Goroutines /\ Tokens /\ Reported /\ Rejection /\ Payloads /\ Contexts
  BY DEF HookInv
<1>1. /\ UNCHANGED <<plan, stage, g, phase, hook, msg, given, closed, rejected>>
      /\ UNCHANGED <<collected, outcomes, base, payload, groupCtx, stageCtx, saved>>
      /\ exec[h] = "sending" /\ exec' = [exec EXCEPT ![h] = "sent"]
  BY Zenon DEF SendResponse
<1>2. PICK k \in DOMAIN plan : h \in plan[k]
  BY Zenon, <1>0, <1>1 DEF Goroutines, Started
<1>3. Place(plan, h) = k /\ GroupOf(h) = k
  BY Zenon, <1>0, <1>2, PlaceIs DEF Goroutines, Place, GroupOf, Groups
<1>4. PICK r \in Responses : r = Response(h, msg[h]) /\ r.hook = h
  <2>1. msg[h] \in Kinds \cup {"none", "timeout"} /\ msg[h] # "none"
    BY Zenon, <1>0, <1>1 DEF Goroutines, TypeOK
  <2>2. msg[h] \in Kinds \cup {"timeout"}
    BY <2>1
  <2>3. Response(h, msg[h]) \in Responses /\ Response(h, msg[h]).hook = h
    BY Zenon, <2>2 DEF Response, Responses
  <2> QED
    BY <2>3
<1>5. /\ resp \in [GroupIds -> Seq(Responses)] /\ k \in GroupIds
      /\ resp' = [resp EXCEPT ![k] = Append(@, r)]
      /\ Len(resp[k]) < Cardinality(plan[k])
  BY Zenon, <1>0, <1>2, <1>3, <1>4 DEF SendResponse, RespCapacity, TypeOK, Goroutines, IsPlan, Responses
<1>6. PICK q \in Seq(Responses) : q = resp[k]
  BY <1>5
<1>7. /\ Append(q, r) \in Seq(Responses) /\ Len(Append(q, r)) = Len(q) + 1 /\ Len(q) \in Nat
      /\ HooksIn(Append(q, r)) = HooksIn(q) \cup {h}
      /\ Distinct(q) /\ h \notin HooksIn(q) => Distinct(Append(q, r))
  BY <1>4, <1>6, PushThose
<1>8. /\ resp' \in [GroupIds -> Seq(Responses)] /\ resp'[k] = Append(q, r)
      /\ \A j \in GroupIds \ {k} : resp'[j] = resp[j]
  BY Zenon, <1>5, <1>6, <1>7
<1>9. /\ exec' \in [Hooks -> {"idle", "waiting", "sending", "sent", "left"}]
      /\ exec'[h] = "sent" /\ \A f \in Hooks \ {h} : exec'[f] = exec[f]
  BY Zenon, <1>0, <1>1 DEF TypeOK
<1>10. TypeOK'
  <2>1. \A j \in Groups : Len(resp'[j]) <= Cardinality(plan[j])
    <3> TAKE j \in Groups
    <3>1. CASE j = k
      <4>1. Cardinality(plan[k]) \in Nat
        BY <1>0, <3>1, CapacityType
      <4> QED
        BY <1>5, <1>6, <1>7, <1>8, <3>1, <4>1
    <3>2. CASE j # k
      <4>1. j \in GroupIds
        BY Zenon, <1>0 DEF Goroutines, IsPlan, Groups
      <4> QED
        BY Zenon, <1>0, <1>8, <3>2, <4>1 DEF TypeOK
    <3> QED
      BY <3>1, <3>2
  <2> QED
    BY Zenon, <1>0, <1>1, <1>8, <1>9, <2>1 DEF TypeOK, Groups, Responses
<1>11. Goroutines'
  <2>1. \A f \in Hooks : exec'[f] # "idle" <=> Started(plan, g, phase, f)
    BY Zenon, <1>0, <1>1, <1>9 DEF Goroutines
  <2>2. \A f \in Hooks : exec'[f] = "sending" => msg[f] # "none"
    BY Zenon, <1>0, <1>9 DEF Goroutines
  <2>3. \A f \in Hooks : exec'[f] = "left" => Place(plan, f) \in rejected
    BY Zenon, <1>0, <1>9 DEF Goroutines
  <2>4. \A j \in closed : \A f \in plan[j] : exec'[f] \in {"sent", "left"}
    <3> TAKE j \in closed
    <3> TAKE f \in plan[j]
    <3>1. j \in DOMAIN plan /\ f \in Hooks
      BY <1>0 DEF TypeOK, Groups
    <3>2. exec[f] \in {"sent", "left"}
      BY Zenon, <1>0 DEF Goroutines
    <3> QED
      BY Zenon, <1>9, <3>1, <3>2
  <2> QED
    BY Zenon, <1>0, <1>1, <2>1, <2>2, <2>3, <2>4 DEF Goroutines
<1>12. Tokens'
  <2>1. h \notin HooksIn(outcomes) \cup HooksIn(collected) /\ \A j \in DOMAIN plan : h \notin HooksIn(resp[j])
    BY Zenon, <1>0, <1>1 DEF Tokens
  <2>2. \A j \in DOMAIN plan : j \in GroupIds
    BY Zenon, <1>0 DEF Goroutines, IsPlan
  <2>3. Distinct(q) /\ HooksIn(q) \subseteq plan[k] /\ HooksIn(q) \cap (HooksIn(outcomes) \cup HooksIn(collected)) = {}
    BY Zenon, <1>0, <1>2, <1>6 DEF Tokens
  <2>4. /\ Distinct(resp'[k]) /\ HooksIn(resp'[k]) = HooksIn(resp[k]) \cup {h}
        /\ HooksIn(resp'[k]) \subseteq plan[k]
        /\ HooksIn(resp'[k]) \cap (HooksIn(outcomes) \cup HooksIn(collected)) = {}
    BY Zenon, <1>2, <1>6, <1>7, <1>8, <2>1, <2>3
  <2>5. \A j \in DOMAIN plan :
          /\ Distinct(resp'[j]) /\ HooksIn(resp'[j]) \subseteq plan[j]
          /\ HooksIn(resp'[j]) \cap (HooksIn(outcomes) \cup HooksIn(collected)) = {}
          /\ HooksIn(resp'[j]) = IF j = k THEN HooksIn(resp[j]) \cup {h} ELSE HooksIn(resp[j])
    <3> TAKE j \in DOMAIN plan
    <3>1. CASE j = k
      BY ZenonT(30), <2>4, <3>1
    <3>2. CASE j # k
      <4>1. resp'[j] = resp[j]
        BY Zenon, <1>8, <2>2, <3>2
      <4> QED
        BY Zenon, <1>0, <3>2, <4>1 DEF Tokens
    <3> QED
      BY ZenonT(30), <3>1, <3>2
  <2>6. \A f \in Hooks :
          exec'[f] = "sent" <=> \/ f \in HooksIn(outcomes) \cup HooksIn(collected)
                                \/ \E j \in DOMAIN plan : f \in HooksIn(resp'[j])
    <3> TAKE f \in Hooks
    <3>1. CASE f = h
      BY Zenon, <1>2, <1>9, <2>5, <3>1
    <3>2. CASE f # h
      <4>1. \A j \in DOMAIN plan : f \in HooksIn(resp'[j]) <=> f \in HooksIn(resp[j])
        <5> TAKE j \in DOMAIN plan
        <5>1. HooksIn(resp'[j]) = HooksIn(resp[j]) \cup {h} \/ HooksIn(resp'[j]) = HooksIn(resp[j])
          BY Zenon, <2>5
        <5> QED
          BY ZenonT(30), <3>2, <5>1
      <4>2. exec[f] = "sent" <=> \/ f \in HooksIn(outcomes) \cup HooksIn(collected)
                                 \/ \E j \in DOMAIN plan : f \in HooksIn(resp[j])
        BY Zenon, <1>0 DEF Tokens
      <4>3. exec'[f] = exec[f]
        BY <1>9, <3>2
      <4> QED
        BY Zenon, <4>1, <4>2, <4>3
    <3> QED
      BY Zenon, <3>1, <3>2
  <2> QED
    BY Zenon, <1>0, <1>1, <2>5, <2>6 DEF Tokens
<1>13. Reported' /\ Rejection' /\ Contexts'
  BY Zenon, <1>0, <1>1 DEF Reported, Rejection, IsRejectable, Contexts
<1>14. Payloads'
  <2>1. \A f \in Hooks : exec'[f] # "idle" <=> exec[f] # "idle"
    BY Zenon, <1>1, <1>9
  <2> QED
    BY Zenon, <1>0, <1>1, <2>1 DEF Payloads
<1> QED
  BY <1>10, <1>11, <1>12, <1>13, <1>14 DEF HookInv

\* The collector takes a response from the channel (collectHookResponses).
LEMMA CollectHooks == ASSUME HookInv, Collect PROVE HookInv'
<1>0. TypeOK /\ Goroutines /\ Tokens /\ Reported /\ Rejection /\ Payloads /\ Contexts
  BY DEF HookInv
<1>1. /\ UNCHANGED <<plan, stage, g, hook, exec, msg, given, closed>>
      /\ UNCHANGED <<outcomes, base, payload, groupCtx, stageCtx, saved>>
      /\ phase = "collect" /\ resp[g] # << >>
  BY Zenon DEF Collect
<1>2. PICK k \in DOMAIN plan : k = g
  BY Zenon, <1>0, <1>1 DEF Goroutines
<1>3. k \in GroupIds /\ resp \in [GroupIds -> Seq(Responses)] /\ collected \in Seq(Responses)
  BY Zenon, <1>0 DEF Goroutines, IsPlan, TypeOK, Responses
<1>4. PICK q \in Seq(Responses), c \in Seq(Responses) : q = resp[k] /\ c = collected
  BY <1>3
<1>5. q # << >>
  BY Zenon, <1>1, <1>2, <1>4
<1>6. PICK r \in Responses, t \in Seq(Responses) :
        /\ r = Head(q) /\ t = Tail(q)
        /\ HooksIn(q) = HooksIn(t) \cup {r.hook}
        /\ Distinct(q) => Distinct(t) /\ r.hook \notin HooksIn(t)
  BY Zenon, <1>5, PopThose
<1>7. /\ resp' = [resp EXCEPT ![k] = t] /\ collected' = Append(c, r)
      /\ rejected' = IF Rejects(r.kind) THEN rejected \cup {k} ELSE rejected
      /\ phase' = IF Rejects(r.kind) THEN "handle" ELSE "collect"
  BY Zenon, <1>2, <1>4, <1>6 DEF Collect
<1>8. /\ resp' \in [GroupIds -> Seq(Responses)] /\ resp'[k] = t
      /\ \A j \in GroupIds \ {k} : resp'[j] = resp[j]
  BY <1>3, <1>7
<1>9. /\ collected' \in Seq(Responses)
      /\ Those(collected') = Those(c) \cup {r}
      /\ HooksIn(collected') = HooksIn(c) \cup {r.hook}
      /\ Distinct(c) /\ r.hook \notin HooksIn(c) => Distinct(collected')
  BY <1>7, PushThose
<1>10. Len(t) <= Len(q) /\ Len(t) \in Nat /\ Len(q) \in Nat
  BY <1>5, <1>6
<1>11. TypeOK'
  <2>1. \A j \in Groups : Len(resp'[j]) <= Cardinality(plan[j])
    <3> TAKE j \in Groups
    <3>0. Len(resp[j]) <= Cardinality(plan[j]) /\ Cardinality(plan[j]) \in Nat
      BY Zenon, <1>0, CapacityType DEF TypeOK
    <3>1. CASE j = k
      BY <1>4, <1>8, <1>10, <3>0, <3>1
    <3>2. CASE j # k
      <4>1. j \in GroupIds
        BY Zenon, <1>0 DEF Goroutines, IsPlan, Groups
      <4> QED
        BY Zenon, <1>8, <3>0, <3>2, <4>1
    <3> QED
      BY <3>1, <3>2
  <2>2. rejected' \subseteq Groups /\ phase' \in {"start", "collect", "handle", "done"}
    BY Zenon, <1>0, <1>2, <1>7 DEF TypeOK, Groups
  <2> QED
    BY Zenon, <1>0, <1>1, <1>8, <1>9, <2>1, <2>2 DEF TypeOK, Groups, Responses
<1>12. Goroutines'
  <2>1. \A h \in Hooks : Started(plan, g, phase', h) <=> Started(plan, g, phase, h)
    BY Zenon, <1>1, <1>7 DEF Started
  <2>2. rejected \subseteq rejected'
    BY <1>7
  <2> QED
    BY Zenon, <1>0, <1>1, <1>2, <2>1, <2>2 DEF Goroutines
<1>13. HooksIn(outcomes) \subseteq Before(plan, g)
  BY Zenon, <1>0, <1>1 DEF Tokens
<1>14. Tokens'
  <2>1. /\ Distinct(outcomes) /\ Distinct(c) /\ HooksIn(outcomes) \cap HooksIn(c) = {}
        /\ \A h \in HooksIn(c) : g \in DOMAIN plan /\ h \in plan[g]
        /\ Distinct(q) /\ HooksIn(q) \subseteq plan[k]
        /\ HooksIn(q) \cap (HooksIn(outcomes) \cup HooksIn(c)) = {}
        /\ \A x \in Those(c) : Rejects(x.kind) => g \in rejected
    BY Zenon, <1>0, <1>4 DEF Tokens
  <2>2. /\ r.hook \in HooksIn(q) /\ r.hook \notin HooksIn(t) /\ Distinct(t) /\ HooksIn(t) \subseteq HooksIn(q)
        /\ r.hook \in plan[k]
    BY Zenon, <1>6, <2>1
  <2>3. Distinct(collected') /\ HooksIn(outcomes) \cap HooksIn(collected') = {}
    BY Zenon, <1>9, <2>1, <2>2
  <2>4. \A j \in DOMAIN plan : j \in GroupIds
    BY Zenon, <1>0 DEF Goroutines, IsPlan
  <2>5. \A j \in DOMAIN plan :
          /\ Distinct(resp'[j]) /\ HooksIn(resp'[j]) \subseteq plan[j]
          /\ HooksIn(resp'[j]) \cap (HooksIn(outcomes) \cup HooksIn(collected')) = {}
          /\ j # k => resp'[j] = resp[j]
    <3> TAKE j \in DOMAIN plan
    <3>1. CASE j = k
      BY <1>8, <1>9, <2>1, <2>2, <3>1
    <3>2. CASE j # k
      <4>1. resp'[j] = resp[j]
        BY Zenon, <1>8, <2>4, <3>2
      <4>2. /\ Distinct(resp[j]) /\ HooksIn(resp[j]) \subseteq plan[j]
            /\ HooksIn(resp[j]) \cap (HooksIn(outcomes) \cup HooksIn(c)) = {}
        BY Zenon, <1>0, <1>4 DEF Tokens
      <4>3. r.hook \notin plan[j]
        BY Zenon, <1>0, <2>2, <3>2 DEF Goroutines, IsPlan
      <4> QED
        BY Zenon, <1>9, <4>1, <4>2, <4>3
    <3> QED
      BY Zenon, <3>1, <3>2
  <2>6. \A h \in Hooks :
          exec[h] = "sent" <=> \/ h \in HooksIn(outcomes) \cup HooksIn(collected')
                               \/ \E j \in DOMAIN plan : h \in HooksIn(resp'[j])
    <3> TAKE h \in Hooks
    <3>1. exec[h] = "sent" <=> \/ h \in HooksIn(outcomes) \cup HooksIn(c)
                               \/ \E j \in DOMAIN plan : h \in HooksIn(resp[j])
      BY Zenon, <1>0, <1>4 DEF Tokens
    <3>2. CASE h = r.hook
      <4>1. h \in HooksIn(resp[k]) /\ h \in HooksIn(collected')
        BY Zenon, <1>4, <1>9, <2>2, <3>2
      <4> QED
        BY Zenon, <3>1, <4>1
    <3>3. CASE h # r.hook
      <4>1. \A j \in DOMAIN plan : h \in HooksIn(resp'[j]) <=> h \in HooksIn(resp[j])
        <5> TAKE j \in DOMAIN plan
        <5>1. CASE j = k
          BY Zenon, <1>4, <1>6, <1>8, <3>3, <5>1
        <5>2. CASE j # k
          <6>1. resp'[j] = resp[j]
            BY Zenon, <2>5, <5>2
          <6> QED
            BY Zenon, <6>1
        <5> QED
          BY Zenon, <5>1, <5>2
      <4>2. h \in HooksIn(collected') <=> h \in HooksIn(c)
        BY Zenon, <1>9, <3>3
      <4> QED
        BY Zenon, <3>1, <4>1, <4>2
    <3> QED
      BY Zenon, <3>2, <3>3
  <2>7. \A h \in HooksIn(collected') : g \in DOMAIN plan /\ h \in plan[g]
    BY Zenon, <1>2, <1>9, <2>1, <2>2
  <2>8. \A x \in Those(collected') : Rejects(x.kind) => g \in rejected'
    BY Zenon, <1>2, <1>7, <1>9, <2>1
  <2>9. phase' # "start"
    BY <1>7
  <2> QED
    BY ZenonT(30), <1>0, <1>1, <1>13, <2>3, <2>5, <2>6, <2>7, <2>8, <2>9 DEF Tokens
<1>15. Reported'
  <2>1. \A j \in DOMAIN plan \ rejected' : j < g => plan[j] \subseteq HooksIn(outcomes)
    BY Zenon, <1>0, <1>7 DEF Reported
  <2>2. phase' # "collect" => g \in rejected'
    BY <1>2, <1>7
  <2>3. phase' \in {"collect", "handle"}
    BY <1>7
  <2> QED
    BY Zenon, <1>1, <2>1, <2>2, <2>3 DEF Reported
<1>16. ~Refused(outcomes)
  BY Zenon, <1>0, <1>1 DEF Rejection
<1>17. Rejection'
  BY Zenon, <1>1, <1>16 DEF Rejection
<1>18. Payloads'
  BY Zenon, <1>0, <1>1, <1>7 DEF Payloads
<1>19. Contexts'
  <2>1. phase' # "done"
    BY Zenon, <1>7
  <2> QED
    BY Zenon, <1>0, <1>1, <2>1 DEF Contexts
<1> QED
  BY <1>11, <1>12, <1>14, <1>15, <1>17, <1>18, <1>19 DEF HookInv

\* The collector ends at a rejection or when the channel is closed.
LEMMA CollectEndsHooks == ASSUME HookInv, CollectEnds PROVE HookInv'
<1>0. TypeOK /\ Goroutines /\ Tokens /\ Reported /\ Rejection /\ Payloads /\ Contexts
  BY DEF HookInv
<1>1. /\ UNCHANGED <<plan, stage, g, hook, exec, msg, given, resp, closed, rejected>>
      /\ UNCHANGED <<collected, outcomes, base, payload, groupCtx, stageCtx, saved>>
      /\ phase = "collect" /\ phase' = "handle" /\ resp[g] = << >> /\ g \in closed
  BY Zenon DEF CollectEnds
<1>2. TypeOK'
  BY Zenon, <1>0, <1>1 DEF TypeOK, Groups
<1>3. Goroutines'
  <2>1. \A h \in Hooks : Started(plan, g, phase', h) <=> Started(plan, g, phase, h)
    BY Zenon, <1>1 DEF Started
  <2>2. g \in DOMAIN plan
    BY Zenon, <1>0, <1>1 DEF Goroutines
  <2> QED
    BY Zenon, <1>0, <1>1, <2>1, <2>2 DEF Goroutines
<1>4. Tokens'
  BY Zenon, <1>0, <1>1 DEF Tokens
<1>5. Reported'
  <2>1. ASSUME NEW k \in DOMAIN plan \ rejected, k = g, NEW h \in plan[k]
        PROVE  h \in HooksIn(outcomes) \cup HooksIn(collected)
    <3>1. h \in Hooks /\ Place(plan, h) = k
      BY Zenon, <1>0, <2>1, PlaceIs DEF Goroutines
    <3>2. exec[h] = "sent"
      BY Zenon, <1>0, <1>1, <2>1, <3>1 DEF Goroutines
    <3>3. \A j \in DOMAIN plan : h \notin HooksIn(resp[j])
      <4> TAKE j \in DOMAIN plan
      <4>1. CASE j = k
        <5>1. HooksIn(<< >>) = {}
          BY DEF HooksIn, Those
        <5> QED
          BY Zenon, <1>1, <2>1, <4>1, <5>1
      <4>2. CASE j # k
        <5>1. h \notin plan[j]
          BY Zenon, <1>0, <2>1, <4>2 DEF Goroutines, IsPlan
        <5> QED
          BY Zenon, <1>0, <5>1 DEF Tokens
      <4> QED
        BY Zenon, <4>1, <4>2
    <3> QED
      BY Zenon, <1>0, <3>1, <3>2, <3>3 DEF Tokens
  <2>2. \A k \in DOMAIN plan \ rejected : k < g => plan[k] \subseteq HooksIn(outcomes)
    BY Zenon, <1>0 DEF Reported
  <2>3. \A k \in DOMAIN plan \ rejected : k = g => plan[k] \subseteq HooksIn(outcomes) \cup HooksIn(collected)
    BY Zenon, <2>1
  <2> QED
    BY Zenon, <1>1, <2>2, <2>3 DEF Reported
<1>6. Rejection' /\ Contexts'
  BY Zenon, <1>0, <1>1 DEF Rejection, Contexts
<1>7. Payloads'
  BY Zenon, <1>0, <1>1 DEF Payloads
<1> QED
  BY Zenon, <1>2, <1>3, <1>4, <1>5, <1>6, <1>7 DEF HookInv

\* An outcome is one of a hook of a group up to the current one.
LEMMA OutcomePlaces ==
  ASSUME HookInv, NEW h \in HooksIn(outcomes) \cup HooksIn(collected)
  PROVE  h \in Hooks /\ \E k \in DOMAIN plan : h \in plan[k] /\ (k < g \/ (k = g /\ phase # "start"))
<1>1. h \in Hooks
  <2>1. outcomes \in Seq(Outcomes) /\ collected \in Seq(Responses)
    BY Zenon DEF HookInv, TypeOK, Outcomes, Responses
  <2>2. (\A o \in Those(outcomes) : o \in Outcomes) /\ (\A o \in Those(collected) : o \in Responses)
    BY <2>1 DEF Those
  <2> QED
    BY Zenon, <2>2 DEF HooksIn, Outcomes, Responses
<1>2. exec[h] = "sent"
  BY Zenon, <1>1 DEF HookInv, Tokens
<1> QED
  BY Zenon, <1>1, <1>2 DEF HookInv, Goroutines, Started

\* The hooks of the next group are called with the payload so far (executeGroup).
LEMMA StartHooks == ASSUME HookInv, StartGroup PROVE HookInv'
<1>0. TypeOK /\ Goroutines /\ Tokens /\ Reported /\ Rejection /\ Payloads /\ Contexts
  BY DEF HookInv
<1>1. /\ UNCHANGED <<plan, stage, g, msg, resp, closed, rejected, outcomes, payload, stageCtx, saved>>
      /\ phase = "start" /\ phase' = "collect" /\ base' = payload
      /\ collected' = << >> /\ collected = << >> /\ groupCtx' = NoContext
  BY Zenon, <1>0 DEF StartGroup, Tokens
<1>2. /\ exec' = [h \in Hooks |-> IF h \in plan[g] THEN "waiting" ELSE exec[h]]
      /\ hook' = [h \in Hooks |-> IF h \in plan[g] THEN "running" ELSE hook[h]]
      /\ given' = [h \in Hooks |-> IF h \in plan[g] THEN ForHook(stage, h, payload) ELSE given[h]]
  BY Zenon DEF StartGroup, ModulePayload, ForHook, UpdatesRequest, Scrubs
<1>3. g \in DOMAIN plan /\ IsPlan(plan)
  BY Zenon, <1>0, <1>1 DEF Goroutines
<1>4. \A h \in plan[g] : h \in Hooks /\ Place(plan, h) = g /\ exec[h] = "idle"
  <2> TAKE h \in plan[g]
  <2>1. h \in Hooks /\ Place(plan, h) = g
    BY Zenon, <1>3, PlaceIs
  <2>2. \A k \in DOMAIN plan : h \in plan[k] => k = g
    BY Zenon, <1>3 DEF IsPlan
  <2>3. g \in Nat
    BY <1>3 DEF IsPlan
  <2>4. ~Started(plan, g, phase, h)
    BY <1>1, <2>2, <2>3 DEF Started
  <2> QED
    BY Zenon, <1>0, <2>1, <2>4 DEF Goroutines
<1>5. TypeOK'
  <2>1. \A h \in Hooks : ForHook(stage, h, payload) \in Seq(Hooks \cup {Scrub})
    <3>1. payload \in Seq(Hooks \cup {Scrub})
      BY <1>0 DEF TypeOK
    <3> QED
      BY <3>1 DEF ForHook
  <2>2. given' \in [Hooks -> Seq(Hooks \cup {Scrub})]
    BY Zenon, <1>0, <1>2, <2>1 DEF TypeOK
  <2>3. /\ exec' \in [Hooks -> {"idle", "waiting", "sending", "sent", "left"}]
        /\ hook' \in [Hooks -> {"idle", "running", "panicked", "answered"}]
    BY Zenon, <1>0, <1>2 DEF TypeOK
  <2>4. groupCtx' \in [Modules -> SUBSET Hooks]
    BY <1>1 DEF NoContext
  <2> QED
    BY Zenon, <1>0, <1>1, <2>2, <2>3, <2>4 DEF TypeOK, Groups
<1>6. \A h \in Hooks : exec'[h] = IF h \in plan[g] THEN "waiting" ELSE exec[h]
  BY Zenon, <1>2
<1>7. Goroutines'
  <2>1. \A h \in Hooks : Started(plan, g, phase', h) <=> h \in plan[g] \/ Started(plan, g, phase, h)
    BY Zenon, <1>1, <1>3 DEF Started
  <2>2. \A h \in Hooks : exec'[h] # "idle" <=> Started(plan, g, phase', h)
    BY Zenon, <1>0, <1>6, <2>1 DEF Goroutines
  <2>3. \A k \in closed : \A h \in plan[k] : exec'[h] \in {"sent", "left"}
    <3> TAKE k \in closed
    <3> TAKE h \in plan[k]
    <3>1. k \in DOMAIN plan /\ h \in Hooks
      BY <1>0 DEF TypeOK, Groups
    <3>2. exec[h] \in {"sent", "left"}
      BY Zenon, <1>0 DEF Goroutines
    <3>3. h \notin plan[g]
      BY Zenon, <1>4, <3>2
    <3> QED
      BY <1>6, <3>1, <3>2, <3>3
  <2>4. \A h \in Hooks : exec'[h] = "sending" => msg[h] # "none"
    BY Zenon, <1>0, <1>6 DEF Goroutines
  <2>5. \A h \in Hooks : exec'[h] = "left" => Place(plan, h) \in rejected
    BY Zenon, <1>0, <1>6 DEF Goroutines
  <2> QED
    BY Zenon, <1>1, <1>3, <2>2, <2>3, <2>4, <2>5 DEF Goroutines
<1>8. Tokens'
  <2>1. \A h \in Hooks : exec'[h] = "sent" <=> exec[h] = "sent"
    BY Zenon, <1>4, <1>6
  <2> QED
    BY Zenon, <1>0, <1>1, <2>1 DEF Tokens
<1>9. Reported'
  BY Zenon, <1>0, <1>1 DEF Reported
<1>10. ~Refused(outcomes)
  BY Zenon, <1>0, <1>1 DEF Rejection
<1>11. HooksIn(outcomes) \subseteq Before(plan, g)
  BY Zenon, <1>0, <1>1 DEF Tokens
<1>12. Payloads'
  <2>1. Updates(outcomes, Hooks) = Updates(outcomes, Before(plan, g))
    <3>1. outcomes \in Seq(Outcomes)
      BY Zenon, <1>0 DEF TypeOK, Outcomes
    <3>2. \A i \in DOMAIN outcomes : outcomes[i].hook \in Hooks /\ outcomes[i].hook \in Before(plan, g)
      <4>1. \A i \in DOMAIN outcomes : outcomes[i].hook \in HooksIn(outcomes)
        BY Zenon DEF HooksIn, Those
      <4>2. \A i \in DOMAIN outcomes : outcomes[i].hook \in Hooks
        <5>1. \A i \in DOMAIN outcomes : outcomes[i] \in Outcomes
          BY <3>1
        <5> QED
          BY Zenon, <5>1 DEF Outcomes
      <4> QED
        BY <1>11, <4>1, <4>2
    <3> QED
      BY Zenon, <3>1, <3>2, UpdatesSame
  <2>2. payload = Updates(outcomes, Hooks)
    BY Zenon, <1>0, <1>10 DEF Payloads
  <2>3. \A h \in Hooks : exec'[h] # "idle" =>
          given'[h] = ForHook(stage, h, Updates(outcomes, Before(plan, Place(plan, h))))
    <3> TAKE h \in Hooks
    <3>1. CASE h \in plan[g]
      BY Zenon, <1>2, <1>4, <2>1, <2>2, <3>1
    <3>2. CASE h \notin plan[g]
      <4>1. exec'[h] = exec[h] /\ given'[h] = given[h]
        BY Zenon, <1>2, <3>2
      <4> QED
        BY Zenon, <1>0, <4>1 DEF Payloads
    <3> QED
      BY Zenon, <3>1, <3>2
  <2> QED
    BY Zenon, <1>1, <1>10, <2>1, <2>2, <2>3 DEF Payloads
<1>13. Rejection'
  BY Zenon, <1>1, <1>10 DEF Rejection
<1>14. Contexts'
  <2>1. \A o \in Those(outcomes) : o.hook \in Before(plan, g)
    BY Zenon, <1>11 DEF HooksIn
  <2> QED
    BY Zenon, <1>0, <1>1, <2>1 DEF Contexts
<1> QED
  BY <1>5, <1>7, <1>8, <1>9, <1>12, <1>13, <1>14 DEF HookInv

\* A context that grows loses nothing.
LEMMA KeptMore ==
  ASSUME NEW p, NEW h, NEW c, NEW d, Kept(p, h, c), c[ModuleOf[h]] \subseteq d[ModuleOf[h]]
  PROVE  Kept(p, h, d)
BY Zenon DEF Kept

\* put adds to the context of a module (moduleContexts.put).
LEMMA MergedMore ==
  ASSUME NEW c, NEW d, NEW m \in Modules
  PROVE  Merged(c, d)[m] = c[m] \cup d[m]
BY DEF Merged

\* Merged contexts keep their type.
LEMMA MergedType ==
  ASSUME NEW S, NEW T, S \subseteq T, NEW c \in [Modules -> SUBSET T], NEW d \in [Modules -> SUBSET S]
  PROVE  Merged(c, d) \in [Modules -> SUBSET T]
BY DEF Merged

\* The contexts of a group are kept and the stage goes on (executeStage).
LEMMA EndHooks == ASSUME HookInv, EndGroup PROVE HookInv'
<1>0. TypeOK /\ Goroutines /\ Tokens /\ Reported /\ Rejection /\ Payloads /\ Contexts
  BY DEF HookInv
<1>1. /\ UNCHANGED <<plan, stage, hook, exec, msg, given, resp, closed, rejected>>
      /\ UNCHANGED <<collected, outcomes, base, payload, groupCtx>>
      /\ phase = "handle" /\ collected = << >>
      /\ stageCtx' = Merged(stageCtx, groupCtx)
  BY ZenonT(30) DEF EndGroup
<1>2. /\ IsPlan(plan) /\ g \in DOMAIN plan /\ g \in 1 .. Len(plan) /\ Len(plan) \in Nat
      /\ DOMAIN plan = 1 .. Len(plan)
  BY <1>0, <1>1 DEF Goroutines, IsPlan
<1>3. /\ groupCtx \in [Modules -> SUBSET Hooks] /\ stageCtx \in [Modules -> SUBSET Hooks]
      /\ saved \in [Modules -> SUBSET (Hooks \cup {Earlier})]
  BY Zenon, <1>0 DEF TypeOK
<1>4. stageCtx' \in [Modules -> SUBSET Hooks]
  BY Zenon, <1>1, <1>3, MergedType
<1>5. \A o \in Those(outcomes) : o.hook \in Hooks /\ o.hook \in HooksIn(outcomes) /\ ModuleOf[o.hook] \in Modules
  BY ZenonT(30), OutcomePlaces, ModuleAssumption DEF HooksIn
<1>6. \A m \in Modules : stageCtx[m] \subseteq stageCtx'[m] /\ groupCtx[m] \subseteq stageCtx'[m]
  BY <1>1, MergedMore
<1>7. ~Refused(outcomes)
  BY ZenonT(30), <1>0, <1>1 DEF Rejection
<1>8. HooksIn(collected) = {} /\ Those(collected) = {}
  <2>1. collected = << >>
    BY Zenon, <1>1
  <2> QED
    BY <2>1 DEF HooksIn, Those
<1>9. CASE g < Len(plan) /\ g' = g + 1 /\ phase' = "start" /\ UNCHANGED saved
  <2>1. g' \in DOMAIN plan
    BY <1>2, <1>9
  <2>2. TypeOK'
    BY Zenon, <1>0, <1>1, <1>4, <1>9, <2>1 DEF TypeOK, Groups
  <2>3. \A h \in Hooks : Started(plan, g', phase', h) <=> Started(plan, g, phase, h)
    <3>1. \A k \in DOMAIN plan : (k < g' \/ (k = g' /\ phase' # "start")) <=> (k < g \/ (k = g /\ phase # "start"))
      BY <1>1, <1>2, <1>9
    <3> QED
      BY Zenon, <3>1 DEF Started
  <2>4. Goroutines'
    BY Zenon, <1>0, <1>1, <1>9, <2>1, <2>3 DEF Goroutines
  <2>5. HooksIn(outcomes) \subseteq Before(plan, g')
    <3> SUFFICES ASSUME NEW h \in HooksIn(outcomes) PROVE h \in Before(plan, g')
      OBVIOUS
    <3>1. PICK k \in DOMAIN plan : h \in plan[k] /\ (k < g \/ (k = g /\ phase # "start"))
      BY Zenon, OutcomePlaces
    <3>2. g + 1 \in Nat /\ g + 1 <= Len(plan) + 1 /\ k < g + 1
      BY <1>2, <3>1
    <3>3. h \in Before(plan, g + 1)
      BY Zenon, <1>2, <3>1, <3>2, BeforeIs
    <3> QED
      BY <1>9, <3>3
  <2>6. Tokens'
    BY Zenon, <1>0, <1>1, <1>8, <1>9, <2>5 DEF Tokens
  <2>7. Reported'
    <3>1. \A k \in DOMAIN plan \ rejected : k < g' => plan[k] \subseteq HooksIn(outcomes)
      <4> TAKE k \in DOMAIN plan \ rejected
      <4>1. CASE k < g
        BY Zenon, <1>0, <4>1 DEF Reported
      <4>2. CASE k = g
        BY Zenon, <1>0, <1>1, <1>8, <4>2 DEF Reported
      <4>3. k < g' => k < g \/ k = g
        BY <1>2, <1>9
      <4> QED
        BY Zenon, <4>1, <4>2, <4>3
    <3> QED
      BY Zenon, <1>1, <1>9, <3>1 DEF Reported
  <2>8. Rejection' /\ Payloads'
    BY Zenon, <1>0, <1>1, <1>7, <1>9 DEF Rejection, Payloads
  <2>9. Contexts'
    <3>1. ASSUME NEW o \in Those(outcomes), o.status # "timeout"
          PROVE  Kept(plan, o.hook, stageCtx')
      <4>1. Kept(plan, o.hook, stageCtx) \/ Kept(plan, o.hook, groupCtx)
        BY Zenon, <1>0, <3>1 DEF Contexts
      <4> QED
        BY Zenon, <1>5, <1>6, <4>1, KeptMore
    <3>2. \A o \in Those(outcomes) : o.hook \in Before(plan, g')
      BY Zenon, <1>5, <2>5
    <3> QED
      BY Zenon, <1>0, <1>1, <1>9, <3>1, <3>2 DEF Contexts
  <2> QED
    BY <2>2, <2>4, <2>6, <2>7, <2>8, <2>9 DEF HookInv
<1>10. CASE g = Len(plan) /\ phase' = "done" /\ SaveContexts(groupCtx) /\ UNCHANGED g
  <2>1. saved' = Merged(saved, Merged(stageCtx, groupCtx))
    BY <1>10 DEF SaveContexts
  <2>2. saved' \in [Modules -> SUBSET (Hooks \cup {Earlier})]
    BY Zenon, <1>1, <1>3, <1>4, <2>1, MergedType
  <2>3. TypeOK'
    BY Zenon, <1>0, <1>1, <1>2, <1>4, <1>10, <2>2 DEF TypeOK, Groups
  <2>4. \A h \in Hooks : Started(plan, g, phase', h) <=> Started(plan, g, phase, h)
    BY Zenon, <1>1, <1>10 DEF Started
  <2>5. Goroutines'
    BY Zenon, <1>0, <1>1, <1>10, <2>4 DEF Goroutines
  <2>6. Tokens'
    BY Zenon, <1>0, <1>1, <1>10 DEF Tokens
  <2>7. Reported'
    BY Zenon, <1>0, <1>1, <1>10 DEF Reported
  <2>8. Rejection' /\ Payloads'
    BY Zenon, <1>0, <1>1, <1>7, <1>10 DEF Rejection, Payloads
  <2>9. \A m \in Modules : /\ stageCtx'[m] \subseteq saved'[m] /\ saved[m] \subseteq saved'[m]
                           /\ stageCtx[m] \subseteq saved'[m] /\ groupCtx[m] \subseteq saved'[m]
    BY <1>1, <1>6, <2>1, MergedMore
  <2>10. Contexts'
    <3>1. ASSUME NEW o \in Those(outcomes), o.status # "timeout"
          PROVE  /\ o.hook \in Before(plan, g) => Kept(plan, o.hook, stageCtx')
                 /\ Kept(plan, o.hook, saved')
      <4>1. /\ o.hook \in Before(plan, g) => Kept(plan, o.hook, stageCtx)
            /\ Kept(plan, o.hook, stageCtx) \/ Kept(plan, o.hook, groupCtx)
        BY Zenon, <1>0, <3>1 DEF Contexts
      <4> QED
        BY Zenon, <1>5, <1>6, <2>9, <4>1, KeptMore
    <3>2. \A m \in Modules : Earlier \in saved'[m]
      BY Zenon, <1>0, <2>9 DEF Contexts
    <3> QED
      BY Zenon, <1>0, <1>1, <1>10, <3>1, <3>2 DEF Contexts
  <2> QED
    BY Zenon, <2>3, <2>5, <2>6, <2>7, <2>8, <2>10 DEF HookInv
<1> QED
  BY Zenon, <1>9, <1>10 DEF EndGroup

\* What handleHookResponse makes of a response.
LEMMA StatusFacts ==
  ASSUME NEW r \in Responses
  PROVE  /\ StatusOf(r) \in Statuses
         /\ StatusOf(r) # "timeout" => ContextOf(r) = {r.hook}
         /\ StatusOf(r) = "rejected" => Rejects(r.kind) /\ IsRejectable
         /\ StatusOf(r) = "updated" <=> r.kind = "update"
<1>1. r.kind \in Kinds \cup {"timeout"}
  BY DEF Responses
<1> QED
  BY <1>1 DEF StatusOf, ContextOf, Kinds, Statuses, Rejects

\* A response is reported and its change is applied (handleHookResponses).
LEMMA HandleHooks == ASSUME HookInv, HandleResponse PROVE HookInv'
<1>0. TypeOK /\ Goroutines /\ Tokens /\ Reported /\ Rejection /\ Payloads /\ Contexts
  BY DEF HookInv
<1>1. /\ UNCHANGED <<plan, stage, g, hook, exec, msg, given, resp, closed, rejected, base, stageCtx>>
      /\ phase = "handle" /\ collected # << >>
  BY Zenon DEF HandleResponse
<1>2. collected \in Seq(Responses) /\ outcomes \in Seq(Outcomes)
  BY Zenon, <1>0 DEF TypeOK, Responses, Outcomes
<1>3. PICK r : r = Head(collected)
  OBVIOUS
<1>4. /\ r \in Responses /\ Tail(collected) \in Seq(Responses)
      /\ Those(collected) = Those(Tail(collected)) \cup {r}
      /\ HooksIn(collected) = HooksIn(Tail(collected)) \cup {r.hook}
      /\ Distinct(collected) => Distinct(Tail(collected)) /\ r.hook \notin HooksIn(Tail(collected))
  BY Zenon, <1>1, <1>2, <1>3, PopThose
<1>5. PICK o : o = [hook |-> r.hook, status |-> StatusOf(r)]
  BY Zenon
<1>6. /\ StatusOf(r) \in Statuses
      /\ StatusOf(r) # "timeout" => ContextOf(r) = {r.hook}
      /\ StatusOf(r) = "rejected" => Rejects(r.kind) /\ IsRejectable
      /\ StatusOf(r) = "updated" <=> r.kind = "update"
  BY Zenon, <1>4, StatusFacts
<1>7. o \in Outcomes /\ o.hook = r.hook /\ o.status = StatusOf(r) /\ r.hook \in Hooks
  BY Zenon, <1>4, <1>5, <1>6 DEF Outcomes, Responses
<1>8. PICK ctx : ctx = [groupCtx EXCEPT ![ModuleOf[r.hook]] = ContextOf(r)]
  BY Zenon
<1>9. /\ outcomes' = Append(outcomes, o) /\ groupCtx' = ctx /\ collected' = Tail(collected)
      /\ phase' = IF o.status = "rejected" THEN "done" ELSE "handle"
      /\ payload' = IF o.status = "rejected" THEN (IF Returned(stage) THEN base ELSE payload) ELSE Mutated(r)
      /\ o.status = "rejected" => saved' = Merged(saved, Merged(stageCtx, ctx))
      /\ o.status # "rejected" => saved' = saved
  BY ZenonT(30), <1>3, <1>5, <1>7, <1>8 DEF HandleResponse, PayloadOfRejected, UsesReturned, Returned, SaveContexts
<1>10. /\ IsPlan(plan) /\ g \in DOMAIN plan /\ Len(plan) \in Nat /\ DOMAIN plan = 1 .. Len(plan)
       /\ g \in Nat
  BY <1>0, <1>1 DEF Goroutines, IsPlan
<1>11. r.hook \in HooksIn(collected) /\ r.hook \in plan[g] /\ r.hook \notin HooksIn(outcomes)
  BY ZenonT(30), <1>0, <1>4 DEF Tokens
<1>12. /\ outcomes' \in Seq(Outcomes) /\ Those(outcomes') = Those(outcomes) \cup {o}
       /\ HooksIn(outcomes') = HooksIn(outcomes) \cup {r.hook}
       /\ Distinct(outcomes) => Distinct(outcomes')
  BY <1>2, <1>7, <1>9, <1>11, PushThose
<1>13. ctx \in [Modules -> SUBSET Hooks] /\ ctx[ModuleOf[r.hook]] = ContextOf(r)
  <2>1. groupCtx \in [Modules -> SUBSET Hooks] /\ ModuleOf[r.hook] \in Modules
    BY Zenon, <1>0, <1>7, ModuleAssumption DEF TypeOK
  <2>2. ContextOf(r) \in SUBSET Hooks
    BY Zenon, <1>7 DEF ContextOf
  <2> QED
    BY Zenon, <1>8, <2>1, <2>2
<1>14. ~Refused(outcomes)
  BY Zenon, <1>0, <1>1 DEF Rejection
<1>15. Refused(outcomes') <=> o.status = "rejected"
  BY Zenon, <1>12, <1>14 DEF Refused
<1>16. TypeOK'
  <2>1. payload' \in Seq(Hooks)
    <3>1. payload \in Seq(Hooks) /\ base \in Seq(Hooks)
      BY Zenon, <1>0 DEF TypeOK
    <3>2. Append(payload, r.hook) \in Seq(Hooks)
      BY <1>7, <3>1
    <3> QED
      BY Zenon, <1>9, <3>1, <3>2 DEF Mutated
  <2>2. saved' \in [Modules -> SUBSET (Hooks \cup {Earlier})]
    <3>1. saved \in [Modules -> SUBSET (Hooks \cup {Earlier})] /\ stageCtx \in [Modules -> SUBSET Hooks]
      BY Zenon, <1>0 DEF TypeOK
    <3>2. Merged(stageCtx, ctx) \in [Modules -> SUBSET Hooks]
      BY Zenon, <1>13, <3>1, MergedType
    <3>3. Merged(saved, Merged(stageCtx, ctx)) \in [Modules -> SUBSET (Hooks \cup {Earlier})]
      BY Zenon, <3>1, <3>2, MergedType
    <3> QED
      BY Zenon, <1>9, <3>1, <3>3
  <2>3. phase' \in {"start", "collect", "handle", "done"}
    BY <1>9
  <2>4. /\ outcomes' \in Seq([hook : Hooks, status : Statuses])
        /\ collected' \in Seq([hook : Hooks, kind : Kinds \cup {"timeout"}])
        /\ groupCtx' \in [Modules -> SUBSET Hooks]
    BY Zenon, <1>4, <1>9, <1>12, <1>13 DEF Outcomes, Responses
  <2> QED
    BY Zenon, <1>0, <1>1, <2>1, <2>2, <2>3, <2>4 DEF TypeOK, Groups
<1>17. Goroutines'
  <2>1. \A h \in Hooks : Started(plan, g, phase', h) <=> Started(plan, g, phase, h)
    BY Zenon, <1>1, <1>9 DEF Started
  <2> QED
    BY Zenon, <1>0, <1>1, <1>10, <2>1 DEF Goroutines
<1>18. Tokens'
  <2>1. Distinct(outcomes') /\ Distinct(collected') /\ HooksIn(outcomes') \cap HooksIn(collected') = {}
    BY <1>0, <1>4, <1>9, <1>12 DEF Tokens
  <2>2. HooksIn(outcomes') \cup HooksIn(collected') = HooksIn(outcomes) \cup HooksIn(collected)
    BY Zenon, <1>4, <1>9, <1>12
  <2>3. phase' \notin {"start", "collect"}
    BY <1>9
  <2>4. HooksIn(collected') \subseteq HooksIn(collected) /\ Those(collected') \subseteq Those(collected)
    BY Zenon, <1>4, <1>9
  <2> QED
    BY ZenonT(30), <1>0, <1>1, <2>1, <2>2, <2>3, <2>4 DEF Tokens
<1>19. Reported'
  <2>1. HooksIn(outcomes') \cup HooksIn(collected') = HooksIn(outcomes) \cup HooksIn(collected)
    BY Zenon, <1>4, <1>9, <1>12
  <2>2. phase' = "done" => g \in rejected
    <3>1. phase' = "done" => Rejects(r.kind) /\ r \in Those(collected)
      BY Zenon, <1>4, <1>6, <1>7, <1>9
    <3> QED
      BY Zenon, <1>0, <3>1 DEF Tokens
  <2>3. HooksIn(outcomes) \subseteq HooksIn(outcomes')
    BY Zenon, <1>12
  <2> QED
    BY Zenon, <1>0, <1>1, <2>1, <2>2, <2>3 DEF Reported
<1>20. Rejection'
  <2>1. Len(outcomes') = Len(outcomes) + 1 /\ outcomes'[Len(outcomes')] = o
    BY <1>2, <1>9
  <2>2. IsRejectable' <=> IsRejectable
    BY Zenon, <1>1 DEF IsRejectable
  <2> QED
    BY ZenonT(30), <1>6, <1>7, <1>9, <1>15, <2>1, <2>2 DEF Rejection
<1>21. \A n \in Nat : n <= g => r.hook \notin Before(plan, n)
  <2> SUFFICES ASSUME NEW n \in Nat, n <= g PROVE r.hook \notin Before(plan, n)
    OBVIOUS
  <2>1. n <= Len(plan) + 1 /\ ~(g < n)
    BY <1>10
  <2> QED
    BY Zenon, <1>10, <1>11, <2>1, BeforeIs
<1>22. \A n \in Nat : n <= g => Updates(outcomes', Before(plan, n)) = Updates(outcomes, Before(plan, n))
  BY ZenonT(30), <1>2, <1>7, <1>9, <1>21, UpdatesAppend
<1>23. base = Updates(outcomes', Before(plan, g))
  BY <1>0, <1>1, <1>10, <1>22 DEF Payloads
<1>24. ~(o.status = "rejected" /\ Returned(stage)) => payload' = Updates(outcomes', Hooks)
  <2>1. payload = Updates(outcomes, Hooks)
    BY ZenonT(30), <1>0, <1>14 DEF Payloads
  <2>2. /\ r.kind = "update" => Updates(outcomes', Hooks) = Append(Updates(outcomes, Hooks), r.hook)
        /\ r.kind # "update" => Updates(outcomes', Hooks) = Updates(outcomes, Hooks)
    BY <1>2, <1>6, <1>7, <1>9, UpdatesAppend
  <2> QED
    BY Zenon, <1>6, <1>7, <1>9, <2>1, <2>2 DEF Mutated
<1>25. Payloads'
  <2>1. \A h \in Hooks : exec[h] # "idle" =>
          given[h] = ForHook(stage, h, Updates(outcomes', Before(plan, Place(plan, h))))
    <3> SUFFICES ASSUME NEW h \in Hooks, exec[h] # "idle"
                 PROVE  given[h] = ForHook(stage, h, Updates(outcomes', Before(plan, Place(plan, h))))
      BY Zenon
    <3>1. PICK k \in DOMAIN plan : h \in plan[k] /\ (k < g \/ k = g)
      BY Zenon, <1>0 DEF Goroutines, Started
    <3>2. Place(plan, h) = k /\ k \in Nat /\ k <= g
      BY <1>10, <3>1, PlaceIs
    <3>3. Updates(outcomes', Before(plan, k)) = Updates(outcomes, Before(plan, k))
      BY Zenon, <1>22, <3>2
    <3> QED
      BY Zenon, <1>0, <3>2, <3>3 DEF Payloads
  <2> QED
    BY Zenon, <1>1, <1>9, <1>15, <1>23, <1>24, <2>1 DEF Payloads
<1>26. ASSUME NEW q \in Those(outcomes'), q.status # "timeout"
       PROVE  /\ q.hook \in Before(plan, g) => Kept(plan, q.hook, stageCtx)
              /\ q.hook \notin Before(plan, g) => Kept(plan, q.hook, ctx)
  <2>1. CASE q = o
    <3>1. q.hook = r.hook /\ r.hook \notin Before(plan, g) /\ ContextOf(r) = {r.hook}
      BY <1>6, <1>7, <1>10, <1>21, <1>26, <2>1
    <3> QED
      BY ZenonT(30), <1>13, <3>1 DEF Kept
  <2>2. CASE q \in Those(outcomes)
    <3>1. /\ q.hook \in Before(plan, g) => Kept(plan, q.hook, stageCtx)
          /\ q.hook \notin Before(plan, g) => Kept(plan, q.hook, groupCtx)
      BY Zenon, <1>0, <1>26, <2>2 DEF Contexts
    <3>2. ASSUME q.hook \notin Before(plan, g) PROVE Kept(plan, q.hook, ctx)
      <4>1. q.hook \in HooksIn(outcomes)
        BY Zenon, <2>2 DEF HooksIn
      <4>2. q.hook \in Hooks /\ \E k \in DOMAIN plan : q.hook \in plan[k] /\ (k < g \/ k = g)
        BY Zenon, <4>1, OutcomePlaces
      <4>3. PICK k \in DOMAIN plan : q.hook \in plan[k] /\ (k < g \/ k = g)
        BY Zenon, <4>2
      <4>4. g <= Len(plan) + 1
        BY <1>10
      <4>5. q.hook \in plan[g] /\ Place(plan, q.hook) = g
        BY Zenon, <1>10, <3>2, <4>3, <4>4, BeforeIs, PlaceIs
      <4>6. Alone(plan, q.hook) => ModuleOf[r.hook] # ModuleOf[q.hook]
        BY Zenon, <1>11, <4>1, <4>5 DEF Alone
      <4>7. ModuleOf[r.hook] # ModuleOf[q.hook] => ctx[ModuleOf[q.hook]] = groupCtx[ModuleOf[q.hook]]
        <5>1. groupCtx \in [Modules -> SUBSET Hooks] /\ ModuleOf[q.hook] \in Modules
          BY Zenon, <1>0, <4>2, ModuleAssumption DEF TypeOK
        <5> QED
          BY Zenon, <1>8, <5>1
      <4> QED
        BY Zenon, <3>1, <3>2, <4>6, <4>7 DEF Kept
    <3> QED
      BY Zenon, <3>1, <3>2
  <2> QED
    BY Zenon, <1>12, <2>1, <2>2
<1>27. Contexts'
  <2>1. CASE o.status # "rejected"
    BY Zenon, <1>0, <1>1, <1>9, <1>26, <2>1 DEF Contexts
  <2>2. CASE o.status = "rejected"
    <3>1. \A m \in Modules : /\ stageCtx[m] \subseteq saved'[m] /\ ctx[m] \subseteq saved'[m]
                             /\ saved[m] \subseteq saved'[m]
      BY <1>9, <2>2, MergedMore
    <3>2. \A q \in Those(outcomes') : ModuleOf[q.hook] \in Modules
      <4>1. \A q \in Those(outcomes') : q \in Outcomes
        BY <1>12 DEF Those
      <4>2. \A q \in Those(outcomes') : q.hook \in Hooks
        BY <4>1 DEF Outcomes
      <4> QED
        BY <4>2, ModuleAssumption
    <3>3. \A q \in Those(outcomes') : q.status # "timeout" => Kept(plan, q.hook, saved')
      BY Zenon, <1>26, <3>1, <3>2, KeptMore
    <3>4. \A m \in Modules : Earlier \in saved'[m]
      BY Zenon, <1>0, <3>1 DEF Contexts
    <3> QED
      BY ZenonT(30), <1>1, <1>9, <1>26, <3>3, <3>4 DEF Contexts
  <2> QED
    BY <2>1, <2>2
<1> QED
  BY <1>16, <1>17, <1>18, <1>19, <1>20, <1>25, <1>27 DEF HookInv

\* Every step of modules, goroutines and collector keeps the invariant.
LEMMA StepHooks == HookInv /\ [Next]_vars => HookInv'
<1> SUFFICES ASSUME HookInv, [Next]_vars PROVE HookInv'
  OBVIOUS
<1>1. CASE UNCHANGED vars
  <2>1. /\ UNCHANGED <<plan, stage, g, phase, hook, exec, msg, given, resp, closed, rejected>>
        /\ UNCHANGED <<collected, outcomes, base, payload, groupCtx, stageCtx, saved>>
    BY Zenon, <1>1 DEF vars
  <2>2. TypeOK' /\ Goroutines'
    BY Zenon, <2>1 DEF HookInv, TypeOK, Groups, Goroutines
  <2>3. Tokens' /\ Reported' /\ Rejection' /\ Payloads' /\ Contexts'
    BY Zenon, <2>1 DEF HookInv, Tokens, Reported, Rejection, IsRejectable, Payloads, Contexts
  <2> QED
    BY <2>2, <2>3 DEF HookInv
<1>2. CASE \E h \in Hooks : HookAnswers(h) \/ HookPanics(h) \/ Select(h) \/ SendResponse(h)
  BY Zenon, <1>2, AnswerHooks, SelectHooks, SendHooks
<1>3. CASE \E k \in GroupIds : CloseResponses(k)
  BY <1>3, CloseHooks
<1> QED
  BY Zenon, <1>1, <1>2, <1>3, StartHooks, CollectHooks, CollectEndsHooks, HandleHooks, EndHooks DEF Next

\* The invariant holds throughout a stage (executeStage).
LEMMA HookInvHolds == Spec => []HookInv
<1> QED
  BY InitHooks, StepHooks, PTL DEF Spec

\* The state of a stage is well formed in every reachable state, whatever the
\* plan: executeStage, executeGroup, executeHook and collectHookResponses.
THEOREM HookTypeCorrect == Spec => []TypeOK
<1>1. HookInv => TypeOK
  BY DEF HookInv
<1> QED
  BY <1>1, HookInvHolds, PTL

\* Whatever the plan and the order in which hooks answer, time out and panic,
\* executeHook and collectHookResponses report no hook twice, and every hook
\* of a group that is over and in which nobody rejected.
THEOREM EveryHookReportedHolds == Spec => []EveryHookReported
<1>1. ASSUME HookInv PROVE EveryHookReported
  <2>1. \A i, j \in DOMAIN outcomes : outcomes[i].hook = outcomes[j].hook => i = j
    BY Zenon, <1>1 DEF HookInv, Tokens, Distinct
  <2>2. ASSUME NEW k \in DOMAIN plan \ rejected, Over(k), NEW h \in plan[k]
        PROVE  OutcomesOf(h) # {}
    <3>1. CASE k < g
      BY <1>1, <3>1 DEF HookInv, Reported, HooksIn, Those, OutcomesOf
    <3>2. CASE k = g /\ phase = "done"
      <4>1. HooksIn(collected) = {}
        BY <1>1, <2>2, <3>2 DEF HookInv, Reported, HooksIn, Those
      <4>2. h \in HooksIn(outcomes)
        BY Zenon, <1>1, <3>2, <4>1 DEF HookInv, Reported
      <4> QED
        BY <4>2 DEF HooksIn, Those, OutcomesOf
    <3> QED
      BY ZenonT(30), <2>2, <3>1, <3>2 DEF Over
  <2> QED
    BY Zenon, <2>1, <2>2 DEF EveryHookReported, Groups
<1> QED
  BY <1>1, HookInvHolds, PTL

\* A rejection among the outcomes.
LEMMA RefusedIs == StageRejected <=> Refused(outcomes)
BY Zenon DEF StageRejected, Refused, Those

\* The payload of executeStage is made of the changes reported as made, and of
\* those before the group that rejected when one did and the stage uses what is
\* returned; a hook is called with the changes of the earlier groups, scrubbed if
\* the payload is a request and the hook has no permission.
THEOREM PayloadExplainedHolds == Spec => []PayloadExplained
<1>1. ASSUME HookInv PROVE PayloadExplained
  <2>0. Payloads /\ Goroutines /\ IsPlan(plan)
    BY Zenon, <1>1 DEF HookInv, Goroutines
  <2>1. outcomes \in Seq(Outcomes)
    BY Zenon, <1>1 DEF HookInv, TypeOK, Outcomes
  <2>2. ASSUME Refused(outcomes)
        PROVE  Updates(outcomes, Hooks \ plan[g]) = Updates(outcomes, Before(plan, g))
    <3> SUFFICES ASSUME NEW i \in DOMAIN outcomes
                 PROVE  outcomes[i].hook \in Hooks \ plan[g] <=> outcomes[i].hook \in Before(plan, g)
      BY Zenon, <2>1, UpdatesSame
    <3>1. PICK h : h = outcomes[i].hook
      OBVIOUS
    <3>2. h \in HooksIn(outcomes)
      BY Zenon, <3>1 DEF HooksIn, Those
    <3>3. h \in Hooks
      BY Zenon, <1>1, <3>2, OutcomePlaces
    <3>4. PICK k \in DOMAIN plan : h \in plan[k] /\ (k < g \/ k = g)
      BY ZenonT(30), <1>1, <3>2, OutcomePlaces
    <3>5. Len(plan) \in Nat /\ DOMAIN plan = 1 .. Len(plan) /\ g \in DOMAIN plan \cup {1}
      BY <1>1, <2>0 DEF HookInv, TypeOK, IsPlan, Groups
    <3>6. g \in Nat /\ g <= Len(plan) + 1 /\ g \in DOMAIN plan
      BY <3>4, <3>5
    <3>7. h \in Before(plan, g) <=> k < g
      BY Zenon, <2>0, <3>4, <3>6, BeforeIs
    <3>8. h \in plan[g] <=> k = g
      BY Zenon, <2>0, <3>4, <3>6 DEF IsPlan
    <3> QED
      BY <3>1, <3>3, <3>4, <3>5, <3>6, <3>7, <3>8
  <2>3. payload = UpdatesOf(IF StageRejected /\ UsesReturned THEN Hooks \ plan[g] ELSE Hooks)
    BY Zenon, <2>0, <2>2, RefusedIs, UpdatesOfIs DEF Payloads, UsesReturned, Returned
  <2>4. ASSUME NEW h \in Hooks, exec[h] # "idle"
        PROVE  given[h] = ForHook(stage, h, UpdatesOf(UNION {plan[k] : k \in 1 .. GroupOf(h) - 1}))
    <3>1. GroupOf(h) = Place(plan, h)
      BY DEF GroupOf, Place, Groups
    <3>2. given[h] = ForHook(stage, h, Updates(outcomes, Before(plan, Place(plan, h))))
      BY Zenon, <2>0, <2>4 DEF Payloads
    <3> QED
      BY Zenon, <3>1, <3>2, UpdatesOfIs DEF Before
  <2> QED
    BY Zenon, <2>3, <2>4 DEF PayloadExplained, ForHook, UpdatesRequest, Scrubs
<1> QED
  BY <1>1, HookInvHolds, PTL

\* A rejection that handleHookResponses reports is the last outcome of its
\* stage, only stages that support it have one, and executeStage has called no
\* hook of a later group.
THEOREM RejectionEndsStageHolds == Spec => []RejectionEndsStage
<1>1. ASSUME HookInv PROVE RejectionEndsStage
  <2> SUFFICES ASSUME StageRejected PROVE RejectionEndsStage
    BY Zenon DEF RejectionEndsStage
  <2>1. phase = "done" /\ IsRejectable /\ outcomes[Len(outcomes)].status = "rejected"
    BY ZenonT(30), <1>1, RefusedIs DEF HookInv, Rejection
  <2>2. IsPlan(plan) /\ Len(plan) \in Nat /\ DOMAIN plan = 1 .. Len(plan) /\ g \in Nat /\ g >= 1
    BY <1>1 DEF HookInv, Goroutines, IsPlan, TypeOK, Groups
  <2>3. ASSUME NEW k \in g + 1 .. Len(plan), NEW h \in plan[k]
        PROVE  exec[h] = "idle"
    <3>1. k \in DOMAIN plan /\ g < k
      BY <2>2
    <3>2. h \in Hooks
      BY Zenon, <2>2, <3>1, PlaceIs
    <3>3. \A j \in DOMAIN plan : h \in plan[j] => j = k
      BY Zenon, <2>2, <3>1 DEF IsPlan
    <3>4. ~(k < g) /\ k # g
      BY <2>2, <3>1
    <3>5. ~Started(plan, g, phase, h)
      BY Zenon, <3>3, <3>4 DEF Started
    <3> QED
      BY Zenon, <1>1, <3>2, <3>5 DEF HookInv, Goroutines
  <2> QED
    BY Zenon, <2>1, <2>3 DEF RejectionEndsStage
<1> QED
  BY <1>1, HookInvHolds, PTL

\* saveModuleContexts loses nothing an earlier stage kept, and keeps what a
\* hook passes on unless another hook of its module ran in the same group.
THEOREM ContextKeptHolds == Spec => []ContextKept
<1>1. ASSUME HookInv PROVE ContextKept
  <2>1. \A m \in Modules : Earlier \in saved[m]
    BY Zenon, <1>1 DEF HookInv, Contexts
  <2>2. ASSUME phase = "done", NEW i \in DOMAIN outcomes, NEW h, h = outcomes[i].hook,
               outcomes[i].status # "timeout", AloneInGroup(h)
        PROVE  h \in saved[ModuleOf[h]]
    <3>1. Kept(plan, h, saved)
      BY Zenon, <1>1, <2>2 DEF HookInv, Contexts, Those
    <3>2. Alone(plan, h)
      BY Zenon, <2>2 DEF AloneInGroup, Alone, GroupOf, Place, Groups
    <3> QED
      BY Zenon, <3>1, <3>2 DEF Kept
  <2> QED
    BY Zenon, <2>1, <2>2 DEF ContextKept
<1> QED
  BY <1>1, HookInvHolds, PTL

\* A list without duplicates is no longer than the set of its hooks.
LEMMA DistinctSmall ==
  ASSUME NEW R, NEW s \in Seq(R), Distinct(s), NEW T, HooksIn(s) \subseteq T, IsFiniteSet(T)
  PROVE  Len(s) <= Cardinality(T)
<1> DEFINE D == 1 .. Len(s)
           f == [i \in D |-> s[i].hook]
<1>1. DOMAIN s = D /\ Len(s) \in Nat
  OBVIOUS
<1>2. \A i \in D : s[i].hook \in T
  BY Zenon, <1>1 DEF HooksIn, Those
<1>3. f \in Injection(D, T)
  BY Zenon, <1>1, <1>2 DEF Injection, IsInjective, Distinct
<1>4. Cardinality(D) <= Cardinality(T)
  BY Zenon, <1>3, FS_Injection
<1>5. Cardinality(D) = Len(s)
  <2>1. 1 \in Int /\ Len(s) \in Int
    BY <1>1
  <2>2. Cardinality(1 .. Len(s)) = IF 1 > Len(s) THEN 0 ELSE Len(s) - 1 + 1
    BY Zenon, <2>1, FS_Interval
  <2> QED
    BY <1>1, <2>2
<1> QED
  BY <1>4, <1>5

\* An executeHook that is about to send finds room in the channel of its
\* group: the channel has a place for each hook of the group and no hook has
\* sent twice, so that a goroutine is not left behind on its send when nobody
\* receives any more after a rejection.
SendNeverBlocks ==
  \A h \in Hooks : exec[h] = "sending" => Len(resp[GroupOf(h)]) < RespCapacity(GroupOf(h))

\* The capacity executeGroup gives the channel of responses is enough for
\* every plan and every order of answers, time-outs and rejections.
THEOREM SendNeverBlocksHolds == Spec => []SendNeverBlocks
<1>1. ASSUME HookInv PROVE SendNeverBlocks
  <2> SUFFICES ASSUME NEW h \in Hooks, exec[h] = "sending"
               PROVE  Len(resp[GroupOf(h)]) < RespCapacity(GroupOf(h))
    BY DEF SendNeverBlocks
  <2>0. TypeOK /\ Goroutines /\ Tokens /\ IsPlan(plan)
    BY Zenon, <1>1 DEF HookInv, Goroutines
  <2>1. PICK k \in DOMAIN plan : h \in plan[k]
    BY Zenon, <2>0 DEF Goroutines, Started
  <2>2. GroupOf(h) = k
    BY Zenon, <2>0, <2>1, PlaceIs DEF GroupOf, Place, Groups
  <2>3. k \in GroupIds /\ plan[k] \in SUBSET Hooks
    BY <2>0 DEF IsPlan
  <2>4. resp[k] \in Seq(Responses)
    BY Zenon, <2>0, <2>3 DEF TypeOK, Responses
  <2>5. IsFiniteSet(plan[k])
    BY Zenon, <2>3, FiniteAssumption, FS_Subset
  <2>6. /\ IsFiniteSet(plan[k] \ {h}) /\ Cardinality(plan[k] \ {h}) = Cardinality(plan[k]) - 1
        /\ Cardinality(plan[k]) \in Nat
    BY Zenon, <2>1, <2>5, FS_RemoveElement, FS_CardinalityType
  <2>7. Distinct(resp[k]) /\ HooksIn(resp[k]) \subseteq plan[k] /\ h \notin HooksIn(resp[k])
    BY Zenon, <2>0 DEF Tokens
  <2>8. Len(resp[k]) <= Cardinality(plan[k] \ {h})
    BY Zenon, <2>4, <2>6, <2>7, DistinctSmall
  <2>9. Len(resp[k]) \in Nat
    BY <2>4
  <2> QED
    BY <2>2, <2>6, <2>8, <2>9 DEF RespCapacity
<1> QED
  BY <1>1, HookInvHolds, PTL
=============================================================================
