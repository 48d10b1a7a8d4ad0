-------------------------- MODULE NmeaReaderProofs --------------------------
(***************************************************************************)
(* Theorems about NmeaReader, for every number of satellites, entries,     *)
(* groups and satellites in a sentence, with and without faults.  The      *)
(* properties judge a report when it is made and are not inductive: they   *)
(* say nothing of what a later sentence will report.  FixFromGsa does for  *)
(* the fix mode, ReaderInv for the satellites: which entries of the list   *)
(* are written, and that they are what the groups received so far, and the *)
(* sentences so far of the group under way, have been accepted for.        *)
(***************************************************************************)
EXTENDS NmeaReader, Integers, SequenceTheorems, WellFoundedInduction, TLAPS

----------------------------------------------------------------------------
(* The fix mode.                                                           *)

\* The fix mode the reader keeps comes from a GSA sentence since the last
\* restart.
FixFromGsa == /\ fixReport
              /\ LOC_FIXED(fix_mode) => gsaFix

\* location_cb is called only with a fix, so it is right if the mode is.
LEMMA ReportRight ==
    ASSUME NEW mode, NEW has, NEW fixed, NEW end,
           LOC_FIXED(mode) => fixed, fixed \in BOOLEAN,
           ReportFix(mode, has, fixed, end)
    PROVE  fixReport'
BY Zenon DEF ReportFix

\* Every step keeps the fix mode and the GSA sentences in agreement.
LEMMA FixStep ==
    ASSUME gsaFix \in BOOLEAN, FixFromGsa, [Next]_vars
    PROVE  gsaFix' \in BOOLEAN /\ FixFromGsa'
<1>1. ASSUME UNCHANGED <<fix_mode, gsaFix>>, fixReport'
      PROVE  gsaFix' \in BOOLEAN /\ FixFromGsa'
  BY <1>1 DEF FixFromGsa, LOC_FIXED
<1>2. ASSUME NEW has, FixSentence(has) PROVE gsaFix' \in BOOLEAN /\ FixFromGsa'
  <2>1. PICK end : ReportFix(fix_mode, flags \/ has, gsaFix, end)
    BY <1>2, Zenon DEF FixSentence
  <2>2. fixReport'
    BY <2>1, ReportRight DEF FixFromGsa
  <2>3. UNCHANGED <<fix_mode, gsaFix>>
    BY <1>2 DEF FixSentence
  <2> QED
    BY <1>1, <2>2, <2>3
<1>3. CASE gga_sentence \/ rmc_sentence \/ accuracy_sentence \/ unknown_sentence
  BY <1>2, <1>3, Zenon DEF gga_sentence, rmc_sentence, accuracy_sentence,
       unknown_sentence
<1>4. CASE gsa_sentence
  <2>1. PICK mode \in {1, 3}, end \in MayEnd(InGroup) :
           /\ fix_mode' = mode /\ gsaFix' = LOC_FIXED(mode)
           /\ ReportFix(mode, flags, LOC_FIXED(mode), end)
    BY <1>4, Zenon DEF gsa_sentence
  <2>2. LOC_FIXED(mode) \in BOOLEAN
    BY DEF LOC_FIXED
  <2>3. fixReport'
    BY <2>1, <2>2, ReportRight
  <2>4. LOC_FIXED(fix_mode)' = LOC_FIXED(mode)
    BY <2>1 DEF LOC_FIXED
  <2> QED
    BY <2>1, <2>2, <2>3, <2>4, Zenon DEF FixFromGsa
<1>5. CASE gsv_sentence
  <2>1. PICK end : ReportFix(fix_mode, flags, gsaFix, end)
    BY <1>5, Zenon DEF gsv_sentence
  <2>2. fixReport'
    BY <2>1, ReportRight DEF FixFromGsa
  <2>3. UNCHANGED <<fix_mode, gsaFix>>
    BY <1>5, Zenon DEF gsv_sentence
  <2> QED
    BY <1>1, <2>2, <2>3
<1>6. CASE begin_group \/ gsv_lost \/ cmd_start
  <2>1. fixReport'
    BY <1>6, Zenon DEF begin_group, gsv_lost, cmd_start, NothingReported
  <2>2. UNCHANGED <<fix_mode, gsaFix>>
    BY <1>6 DEF begin_group, gsv_lost, cmd_start, fixVars
  <2> QED
    BY <1>1, <2>1, <2>2
<1>7. CASE cmd_restart
  <2>1. fixReport' /\ fix_mode' = 0 /\ gsaFix' = FALSE
    BY <1>7, Zenon DEF cmd_restart, NothingReported
  <2>2. ~ LOC_FIXED(0)
    BY DEF LOC_FIXED
  <2>3. LOC_FIXED(fix_mode)' = LOC_FIXED(0)
    BY <2>1 DEF LOC_FIXED
  <2> QED
    BY <2>1, <2>2, <2>3, Zenon DEF FixFromGsa
<1>8. CASE UNCHANGED vars
  BY <1>1, <1>8 DEF vars, fixVars, FixFromGsa
<1> QED
  BY <1>3, <1>4, <1>5, <1>6, <1>7, <1>8 DEF Next

\* After delete_aiding_data no location is reported from the fix mode the
\* reader had before: whatever sentences come, are lost or are split between
\* reads, a report needs a GSA with a fix since the restart.
THEOREM RestartForgetsFix == Spec => []NoFixAfterRestart
<1>1. Init => gsaFix \in BOOLEAN /\ FixFromGsa
  <2>1. ~ LOC_FIXED(0)
    BY DEF LOC_FIXED
  <2> QED
    BY <2>1, Zenon DEF Init, FixFromGsa
<1>2. gsaFix \in BOOLEAN /\ FixFromGsa /\ [Next]_vars
        => (gsaFix \in BOOLEAN /\ FixFromGsa)'
  BY FixStep
<1>3. FixFromGsa => NoFixAfterRestart
  BY DEF FixFromGsa, NoFixAfterRestart
<1> QED
  BY <1>1, <1>2, <1>3, PTL DEF Spec

----------------------------------------------------------------------------
(* The satellites a sentence adds.                                         *)

\* Every inhabited set of naturals has a smallest element.
LEMMA SmallestNat ==
    ASSUME NEW T, T \subseteq Nat, T # {}
    PROVE  \E x \in T : \A y \in T : x <= y
<1> DEFINE R == {ss \in Nat \X Nat : ss[1] < ss[2]}
<1>1. IsWellFoundedOn(R, Nat)
  BY NatLessThanWellFounded, Zenon DEF OpToRel
<1> HIDE DEF R
<1>2. PICK x \in T : \A y \in T : ~(<<y, x>> \in R)
  BY <1>1, WFMin
<1>3. ASSUME NEW y \in T, y < x
      PROVE  <<y, x>> \in R
  <2>1. <<y, x>> \in Nat \X Nat /\ <<y, x>>[1] < <<y, x>>[2]
    BY <1>3
  <2> QED
    BY <2>1, Zenon DEF R
<1>4. \A y \in T : ~(y < x)
  BY <1>2, <1>3
<1>5. \A y \in T : x <= y
  BY <1>4
<1> QED
  BY <1>5

\* What holds at zero and is handed from each number to the next holds up to
\* any bound.
LEMMA UpTo ==
    ASSUME NEW T, NEW m \in Nat, 0 \in T,
           \A n \in 0..m : n + 1 <= m /\ n \in T => n + 1 \in T
    PROVE  0..m \subseteq T
<1> DEFINE Bad == {n \in 0..m : n \notin T}
<1> SUFFICES ASSUME Bad # {} PROVE FALSE
  OBVIOUS
<1>0. Bad \subseteq Nat
  OBVIOUS
<1>1. PICK x \in Bad : \A y \in Bad : x <= y
  <2> HIDE DEF Bad
  <2> QED
    BY <1>0, SmallestNat
<1>2. x \in 0..m /\ x \notin T /\ x # 0
  BY <1>1
<1>3. x - 1 \in 0..m /\ x - 1 \notin Bad
  BY <1>1, <1>2
<1>4. x - 1 \in T
  BY <1>3
<1> QED
  BY <1>2, <1>3, <1>4

\* One step of Kept, given its value before.
Kept1(svs, n, before) ==
    IF n = 0 THEN <<>>
    ELSE IF IsSv(svs[n]) THEN Append(before[n - 1], svs[n])
    ELSE before[n - 1]

\* There is a function that satisfies the equations of Kept.
LEMMA KeptExists ==
    ASSUME NEW svs, NEW m \in Nat
    PROVE  \E f : f = [n \in 0..m |-> Kept1(svs, n, f)]
<1> DEFINE Good(k) == \E f : f = [n \in 0..k |-> Kept1(svs, n, f)]
           T == {k \in 0..m : Good(k)}
<1>1. Good(0)
  <2> DEFINE empty == [n \in 0..0 |-> <<>>]
  <2>1. empty = [n \in 0..0 |-> Kept1(svs, n, empty)]
    BY DEF Kept1
  <2> QED
    BY <2>1
<1>2. ASSUME NEW k \in 0..m, k + 1 <= m, Good(k)
      PROVE  Good(k + 1)
  <2>1. PICK f : f = [n \in 0..k |-> Kept1(svs, n, f)]
    BY <1>2
  <2> DEFINE g == [n \in 0..k + 1 |-> IF n = k + 1 THEN Kept1(svs, k + 1, f)
                                      ELSE f[n]]
  <2>2. ASSUME NEW n \in 0..k + 1
        PROVE  g[n] = Kept1(svs, n, g)
    <3>1. n # 0 => n - 1 \in 0..k /\ g[n - 1] = f[n - 1]
      OBVIOUS
    <3>2. Kept1(svs, n, g) = Kept1(svs, n, f)
      BY <3>1 DEF Kept1
    <3>3. n # k + 1 => n \in 0..k
      BY <1>2
    <3>4. n \in 0..k => f[n] = Kept1(svs, n, f)
      BY <2>1
    <3> QED
      BY <3>2, <3>3, <3>4
  <2>3. g = [n \in 0..k + 1 |-> Kept1(svs, n, g)]
    BY <2>2
  <2> HIDE DEF g
  <2> QED
    BY <2>3
<1> HIDE DEF Good
<1>3. 0 \in T /\ \A k \in 0..m : k + 1 <= m /\ k \in T => k + 1 \in T
  BY <1>1, <1>2
<1>4. m \in T
  <2> HIDE DEF T
  <2>1. 0..m \subseteq T
    BY <1>3, UpTo
  <2> QED
    BY <2>1
<1> USE DEF Good
<1> QED
  BY <1>4

\* The equations of Kept.
LEMMA KeptStep ==
    ASSUME NEW svs, Len(svs) \in Nat
    PROVE  /\ Kept(svs)[0] = <<>>
           /\ \A n \in 1..Len(svs) :
                 Kept(svs)[n] = IF IsSv(svs[n])
                                THEN Append(Kept(svs)[n - 1], svs[n])
                                ELSE Kept(svs)[n - 1]
<1>1. PICK f : f = [n \in 0..Len(svs) |-> Kept1(svs, n, f)]
  BY KeptExists
<1>2. Kept(svs) = CHOOSE k : k = [n \in 0..Len(svs) |-> Kept1(svs, n, k)]
  BY Zenon DEF Kept, Kept1
<1>3. Kept(svs) = [n \in 0..Len(svs) |-> Kept1(svs, n, Kept(svs))]
  BY <1>1, <1>2, Zenon
<1>4. \A n \in 0..Len(svs) : Kept(svs)[n] = Kept1(svs, n, Kept(svs))
  BY <1>3, Zenon
<1>5. 0 \in 0..Len(svs) /\ \A n \in 1..Len(svs) : n \in 0..Len(svs) /\ n # 0
  OBVIOUS
<1> QED
  BY <1>4, <1>5, Zenon DEF Kept1

\* Kept gives satellites with accepted numbers, and at most one for each.
LEMMA KeptSeq ==
    ASSUME NEW S, NEW svs \in Seq(S)
    PROVE  \A n \in 0..Len(svs) :
              Kept(svs)[n] \in Seq(Svs) /\ Len(Kept(svs)[n]) <= n
<1> DEFINE m == Len(svs)
           T == {n \in 0..m : Kept(svs)[n] \in Seq(Svs) /\ Len(Kept(svs)[n]) <= n}
<1>1. m \in Nat
  OBVIOUS
<1>0. Kept(svs)[0] = <<>>
  BY <1>1, KeptStep
<1>2. 0 \in T
  <2>1. <<>> \in Seq(Svs) /\ Len(<<>>) <= 0 /\ 0 \in 0..m
    BY <1>1
  <2> QED
    BY <1>0, <2>1, Zenon
<1>3. ASSUME NEW n \in 0..m, n + 1 <= m, n \in T
      PROVE  n + 1 \in T
  <2>1. Kept(svs)[n] \in Seq(Svs) /\ Len(Kept(svs)[n]) <= n /\ n + 1 \in 1..m
    BY <1>3
  <2>0. (n + 1) - 1 = n
    OBVIOUS
  <2>2. Kept(svs)[n + 1] = IF IsSv(svs[n + 1])
                           THEN Append(Kept(svs)[n], svs[n + 1])
                           ELSE Kept(svs)[n]
    BY <1>1, <2>0, <2>1, KeptStep
  <2>3. Kept(svs)[n + 1] \in Seq(Svs) /\ Len(Kept(svs)[n + 1]) <= n + 1
    <3> DEFINE s == Kept(svs)[n]  t == Kept(svs)[n + 1]  e == svs[n + 1]
    <3>1. s \in Seq(Svs) /\ Len(s) <= n /\ n \in Nat
      BY <1>1, <2>1
    <3>2. t = s \/ (e \in Svs /\ t = Append(s, e))
      BY <2>2 DEF IsSv
    <3> HIDE DEF s, t, e
    <3>3. t \in Seq(Svs) /\ Len(t) <= n + 1
      BY <3>1, <3>2, AppendProperties
    <3> QED
      BY <3>3 DEF t
  <2> QED
    BY <1>1, <2>1, <2>3
<1>4. 0..m \subseteq T
  BY <1>1, <1>2, <1>3, UpTo
<1> QED
  BY <1>4

\* Appending to a concatenation appends to its second part.
AppendsAfter(s, p, e) == Append(s \o p, e) = s \o Append(p, e)

\* Lists append so.
LEMMA AppendConcat ==
    ASSUME NEW S, NEW s \in Seq(S), NEW p \in Seq(S), NEW e \in S
    PROVE  AppendsAfter(s, p, e)
<1> DEFINE v == Append(s \o p, e)  w == s \o Append(p, e)
<1>1. s \o p \in Seq(S) /\ Append(p, e) \in Seq(S)
  BY ConcatProperties, AppendProperties
<1>2. v \in Seq(S) /\ w \in Seq(S)
  BY <1>1, ConcatProperties, AppendProperties
<1>3. /\ Len(s \o p) = Len(s) + Len(p) /\ Len(Append(p, e)) = Len(p) + 1
      /\ Len(v) = Len(s) + Len(p) + 1 /\ Len(w) = Len(s) + Len(p) + 1
      /\ Len(s) \in Nat /\ Len(p) \in Nat
  BY <1>1
<1>4. ASSUME NEW i \in 1..Len(v) PROVE v[i] = w[i]
  <2>1. v[i] = IF i <= Len(s) + Len(p) THEN (s \o p)[i] ELSE e
    BY <1>1, <1>3, AppendProperties
  <2>2. i <= Len(s) + Len(p)
          => (s \o p)[i] = IF i <= Len(s) THEN s[i] ELSE p[i - Len(s)]
    BY <1>3, ConcatProperties
  <2>3. w[i] = IF i <= Len(s) THEN s[i] ELSE Append(p, e)[i - Len(s)]
    <3> DEFINE x == Append(p, e)
    <3>1. x \in Seq(S) /\ Len(x) = Len(p) + 1 /\ i \in 1..Len(s) + Len(x)
      BY <1>1, <1>3
    <3>2. (s \o x)[i] = IF i <= Len(s) THEN s[i] ELSE x[i - Len(s)]
      <4> HIDE DEF x
      <4> QED
        BY <3>1, ConcatProperties
    <3> QED
      BY <3>2, Zenon
  <2>4. i > Len(s) => Append(p, e)[i - Len(s)] =
                        IF i - Len(s) <= Len(p) THEN p[i - Len(s)] ELSE e
    BY <1>3, AppendProperties
  <2> HIDE DEF v, w
  <2> QED
    BY <1>3, <2>1, <2>2, <2>3, <2>4
<1> HIDE DEF v, w
<1>5. v = w
  BY <1>2, <1>3, <1>4, SeqEqual
<1> QED
  BY <1>5, Zenon DEF v, w, AppendsAfter

\* Kept of a part of a list: what the list has up to the end of the part is
\* what it has before the part, and then what the part has.
LEMMA KeptPart ==
    ASSUME NEW S, NEW svs \in Seq(S), NEW part \in Seq(S), NEW a \in Nat,
           a + Len(part) <= Len(svs),
           \A i \in 1..Len(part) : part[i] = svs[a + i]
    PROVE  Kept(svs)[a + Len(part)] = Kept(svs)[a] \o Kept(part)[Len(part)]
<1> DEFINE m == Len(part)
           T == {j \in 0..m : Kept(svs)[a + j] = Kept(svs)[a] \o Kept(part)[j]}
<1>1. m \in Nat /\ Len(svs) \in Nat
  OBVIOUS
<1>2. Kept(svs)[a] \in Seq(Svs)
  <2>1. a \in 0..Len(svs)
    BY <1>1
  <2> QED
    BY <2>1, KeptSeq
<1>3. 0 \in T
  <2>1. Kept(part)[0] = <<>> /\ a + 0 = a
    BY <1>1, KeptStep
  <2>2. Kept(svs)[a] \o <<>> = Kept(svs)[a]
    BY <1>2, ConcatEmptySeq
  <2>3. 0 \in 0..m
    BY <1>1
  <2> QED
    BY <2>1, <2>2, <2>3, Zenon
<1>4. ASSUME NEW j \in 0..m, j + 1 <= m, j \in T
      PROVE  j + 1 \in T
  <2> DEFINE s == Kept(svs)[a]  p == Kept(part)[j]  q == Kept(part)[j + 1]
             t == Kept(svs)[a + j]  u == Kept(svs)[a + (j + 1)]
             e == part[j + 1]
  <2>1. /\ (j + 1) - 1 = j /\ j + 1 \in 1..m /\ j \in 0..m
        /\ a + (j + 1) \in 1..Len(svs) /\ (a + (j + 1)) - 1 = a + j
    BY <1>1, <1>4
  <2>2. e = svs[a + (j + 1)]
    BY <2>1
  <2>3. q = IF IsSv(e) THEN Append(p, e) ELSE p
    BY <1>1, <2>1, KeptStep
  <2>4. u = IF IsSv(e) THEN Append(t, e) ELSE t
    <3>1. u = IF IsSv(svs[a + (j + 1)])
              THEN Append(Kept(svs)[(a + (j + 1)) - 1], svs[a + (j + 1)])
              ELSE Kept(svs)[(a + (j + 1)) - 1]
      BY <1>1, <2>1, KeptStep
    <3> QED
      BY <2>1, <2>2, <3>1, Zenon
  <2>5. p \in Seq(Svs) /\ s \in Seq(Svs)
    BY <1>1, <1>2, <2>1, KeptSeq
  <2>6. t = s \o p
    BY <1>4
  <2>7. ASSUME IsSv(e) PROVE Append(t, e) = s \o q
    <3>1. e \in Svs /\ q = Append(p, e)
      BY <2>3, <2>7 DEF IsSv
    <3>2. AppendsAfter(s, p, e)
      BY <2>5, <3>1, AppendConcat, Zenon
    <3> QED
      BY <2>6, <3>1, <3>2, Zenon DEF AppendsAfter
  <2>8. u = s \o q
    BY <2>3, <2>4, <2>6, <2>7, Zenon
  <2>9. j + 1 \in 0..m
    BY <2>1
  <2> QED
    BY <2>8, <2>9, Zenon
<1>5. 0..m \subseteq T
  <2> HIDE DEF T
  <2> QED
    BY <1>1, <1>3, <1>4, UpTo
<1>6. m \in 0..m
  BY <1>1
<1>7. m \in T
  BY <1>5, <1>6
<1> QED
  BY <1>7

----------------------------------------------------------------------------
(* The sentences of a group.                                               *)

\* A product of naturals is a natural.
LEMMA Product ==
    ASSUME NEW a \in Nat, NEW b \in Nat
    PROVE  a * b \in Nat
OBVIOUS

\* Of len satellites, k in a sentence, some are left after s + 1 sentences
\* unless that was the last.
LEMMA LastSentence ==
    ASSUME NEW len \in Nat, NEW k \in Nat \ {0}, NEW s \in Nat, s * k < len
    PROVE  /\ s + 1 = (len + k - 1) \div k => (s + 1) * k >= len
           /\ s + 1 # (len + k - 1) \div k => (s + 1) * k < len
<1> DEFINE c == (len + k - 1) \div k  r == (len + k - 1) % k
<1>1. c \in Int /\ r \in 0..k - 1 /\ len + k - 1 = k * c + r
  <2>1. len + k - 1 \in Nat
    OBVIOUS
  <2> QED
    BY <2>1
<1> HIDE DEF c, r
<1>2. k * c >= len /\ k * c <= len + k - 1
  BY <1>1
<1>3. (s + 1) * k = k * s + k /\ k * s < len /\ k * s \in Nat
  BY Product
<1>4. ASSUME s + 1 = c PROVE (s + 1) * k >= len
  BY <1>2, <1>4
<1>5. ASSUME s + 1 # c PROVE (s + 1) * k < len
  <2>1. CASE s + 1 > c
    <3> DEFINE d == s - c
    <3>1. d \in Nat /\ s = c + d
      BY <1>1, <2>1
    <3>2. k * s = k * c + k * d /\ k * d \in Nat
      BY <1>1, <3>1, Product
    <3> QED
      BY <1>1, <1>2, <1>3, <3>2
  <2>2. CASE s + 1 < c
    <3> DEFINE d == c - s - 2
    <3>1. d \in Nat /\ c = s + 2 + d
      BY <1>1, <2>2
    <3>2. k * c = k * s + k + k + k * d /\ k * d \in Nat
      BY <1>1, <3>1, Product
    <3> QED
      BY <1>1, <1>2, <1>3, <3>2
  <2> QED
    BY <1>1, <1>5, <2>1, <2>2
<1> QED
  BY <1>4, <1>5 DEF c

----------------------------------------------------------------------------
(* What holds between two sentences.                                       *)

Entries == [sv : Svs, used : BOOLEAN] \cup {None}

\* A status: the count of the set being received, the number of entries, the
\* list and the satellites used.
StatusOK(count, n, l, u) ==
    /\ count \in 0..MaxSvs /\ n \in Nat
    /\ l \in [1..MaxSvs -> Entries]
    /\ u \in SUBSET Svs

HistoryOK(h) ==
    h \in [complete : Seq(Svs), received : SUBSET Svs, gsaUsed : SUBSET Svs,
           lost : BOOLEAN, cut : BOOLEAN]

\* After sentence number q some satellites of the group are still to come.
GroupOK(g, q) ==
    /\ g \in Seq(Svs \cup OtherSvs) /\ q \in Nat
    /\ g # <<>> => q * SvInfo < Len(g)
    /\ g = <<>> => q = 0

\* The entries written: those of whole groups, and in the middle of a group
\* those of its sentences so far.
Claimed(count, n, q) == IF q > 0 THEN n + count ELSE n

\* Unless a sentence was lost the list is not overrun.
Bounded(count, n, h, q) == ~h.lost => Claimed(count, n, q) <= MaxSvs

\* Only satellites that GSA has named are marked.
Named(l, u, h) ==
    /\ u \subseteq h.gsaUsed
    /\ \A i \in 1..MaxSvs : l[i].used => l[i].sv \in h.gsaUsed

\* Unless a sentence was lost every entry written is of a satellite received
\* since the last report.
Current(count, n, l, h, q) ==
    ~h.lost => \A i \in 1..Claimed(count, n, q) : l[i].sv \in h.received

\* Unless a sentence was lost or a read has cut a group, the entries are the
\* satellites of the whole groups, and then those accepted so far of the group
\* being received, as long as there is room.
ExactSo(count, n, l, kept) ==
    /\ count = Least(Len(kept), MaxSvs - n)
    /\ \A i \in 1..count : l[n + i].sv = kept[i]
Exact(count, n, l, h, g, q) ==
    ~h.lost /\ ~h.cut =>
        /\ Len(h.complete) = n
        /\ \A i \in 1..n : l[i].sv = h.complete[i]
        /\ q > 0 => ExactSo(count, n, l, Kept(g)[q * SvInfo])

Sound(count, n, l, u, h, g, q) ==
    /\ StatusOK(count, n, l, u) /\ HistoryOK(h)
    /\ Bounded(count, n, h, q)
    /\ Named(l, u, h) /\ Current(count, n, l, h, q)
    /\ Exact(count, n, l, h, g, q)

ReaderInv == /\ GroupOK(group, seq)
             /\ Sound(sv_count, num_svs, list, used, since, group, seq)

\* Nothing is reported wrongly if nothing is reported.
LEMMA NoReportRight == NoReport.exact /\ NoReport.current /\ NoReport.used
<1>1. Fresh.complete = <<>> /\ Fresh.gsaUsed = {}
  BY DEF Fresh
<1>2. DOMAIN <<>> = {}
  OBVIOUS
<1> QED
  BY <1>1, <1>2, Zenon DEF NoReport, Judge

\* What a report with the end tag says is right, if what was collected is.
LEMMA JudgedRight ==
    ASSUME gps_mode \in {0, 1}, NEW count, NEW n, NEW l, NEW u, NEW h, NEW g,
           NEW q, GroupOK(g, q), Sound(count, n, l, u, h, g, q),
           NEW inside \in BOOLEAN, inside <=> g # <<>>
    PROVE  LET svs == [i \in 1..Least(n, MaxSvs) |-> l[i].sv]
               j   == Judge(svs, UsedSvs(n, l, u), CutBy(h, inside))
           IN  j.exact /\ j.current /\ j.used
<1> DEFINE m == Least(n, MaxSvs)
           svs == [i \in 1..m |-> l[i].sv]
           hist == CutBy(h, inside)
<1>1. /\ m \in Nat /\ m <= n /\ m <= MaxSvs /\ (n <= MaxSvs => m = n)
      /\ n \in Nat /\ count \in Nat /\ q \in Nat /\ MaxSvs \in Nat
  BY NmeaAssumption DEF Sound, StatusOK, GroupOK, Least
<1>2. /\ hist.complete = h.complete /\ hist.received = h.received
      /\ hist.gsaUsed = h.gsaUsed /\ hist.lost = h.lost
      /\ (hist.cut <=> h.cut \/ inside)
  BY DEF Sound, HistoryOK, CutBy
<1> HIDE DEF m, hist
<1>3. hist.lost \/ hist.cut \/ svs = hist.complete
  <2> SUFFICES ASSUME ~h.lost, ~h.cut, ~inside
               PROVE  svs = h.complete
    BY <1>2
  <2>1. q = 0
    BY DEF GroupOK
  <2>2. n <= MaxSvs
    BY <2>1, <1>1 DEF Sound, Bounded, Claimed
  <2>3. /\ Len(h.complete) = n /\ \A i \in 1..n : l[i].sv = h.complete[i]
        /\ h.complete \in Seq(Svs)
    BY DEF Sound, Exact, HistoryOK
  <2>4. svs = [i \in 1..n |-> h.complete[i]]
    BY <1>1, <2>2, <2>3
  <2> DEFINE s == h.complete
  <2>5. s \in Seq(Svs) /\ Len(s) = n
    BY <2>3
  <2> HIDE DEF s
  <2>6. s = [i \in 1..n |-> s[i]]
    BY <2>5
  <2> QED
    BY <2>4, <2>6, Zenon DEF s
<1>4. hist.lost \/ \A i \in DOMAIN svs : svs[i] \in hist.received
  <2> SUFFICES ASSUME ~h.lost, NEW i \in 1..m PROVE l[i].sv \in h.received
    BY <1>2
  <2>1. i \in 1..Claimed(count, n, q)
    BY <1>1 DEF Claimed
  <2> QED
    BY <2>1 DEF Sound, Current
<1>5. UsedSvs(n, l, u) \subseteq hist.gsaUsed
  <2>1. \A i \in 1..m : l[i].used => l[i].sv \in h.gsaUsed
    BY <1>1 DEF Sound, Named
  <2>2. u \subseteq h.gsaUsed
    BY DEF Sound, Named
  <2> QED
    BY <1>2, <2>1, <2>2, Zenon DEF UsedSvs, m
<1> QED
  BY <1>3, <1>4, <1>5 DEF Judge, m, hist

\* The end of nmea_reader_parse: whether or not it reports, what was right
\* before it is right after it, and so is the report.
LEMMA ReportSound ==
    ASSUME gps_mode \in {0, 1}, list \in [1..MaxSvs -> Entries],
           NEW count, NEW n, NEW l, NEW u, NEW h, NEW g, NEW q,
           GroupOK(g, q), Sound(count, n, l, u, h, g, q),
           NEW inside \in BOOLEAN, inside <=> g # <<>>, NEW end \in BOOLEAN,
           ReportSvs(count, n, l, u, h, inside, end)
    PROVE  /\ Sound(sv_count', num_svs', list', used', since', g, q)
           /\ svReport'.exact /\ svReport'.current /\ svReport'.used
<1>1. CASE n # 0 /\ end
  <2>1. /\ sv_count' = 0 /\ num_svs' = 0 /\ used' = {}
        /\ since' = CutBy(Fresh, inside)
        /\ list' = [i \in DOMAIN list |-> None]
    BY <1>1 DEF ReportSvs, CountLeft, UsedLeft
  <2>2. svReport' = Judge([i \in 1..Least(n, MaxSvs) |-> l[i].sv],
                          UsedSvs(n, l, u), CutBy(h, inside))
    BY <1>1 DEF ReportSvs
  <2>3. /\ since'.complete = <<>> /\ since'.received = {}
        /\ since'.gsaUsed = {} /\ ~since'.lost /\ (since'.cut <=> inside)
        /\ HistoryOK(since')
    <3>1. since' = [complete |-> <<>>, received |-> {}, gsaUsed |-> {},
                    lost |-> FALSE, cut |-> inside]
      BY <2>1 DEF CutBy, Fresh
    <3> QED
      BY <3>1 DEF HistoryOK
  <2>4. /\ list' \in [1..MaxSvs -> Entries]
        /\ \A i \in 1..MaxSvs : list'[i].used = FALSE
    BY <2>1 DEF Entries, None
  <2>5. Claimed(sv_count', num_svs', q) = 0
    BY <2>1 DEF Claimed
  <2>6. StatusOK(sv_count', num_svs', list', used')
    BY <2>1, <2>4, NmeaAssumption DEF StatusOK
  <2>7. /\ Bounded(sv_count', num_svs', since', q)
        /\ Named(list', used', since')
        /\ Current(sv_count', num_svs', list', since', q)
    BY <2>1, <2>3, <2>4, <2>5, NmeaAssumption DEF Bounded, Named, Current
  <2>8. Exact(sv_count', num_svs', list', since', g, q)
    <3> SUFFICES ASSUME ~since'.cut
                 PROVE  /\ Len(since'.complete) = num_svs'
                        /\ \A i \in 1..num_svs' : list'[i].sv = since'.complete[i]
                        /\ ~(q > 0)
      BY DEF Exact
    <3>1. q = 0
      BY <2>3 DEF GroupOK
    <3> QED
      BY <2>1, <2>3, <3>1
  <2> QED
    BY <2>2, <2>3, <2>6, <2>7, <2>8, JudgedRight DEF Sound
<1>2. CASE ~(n # 0 /\ end)
  <2>1. /\ sv_count' = count /\ num_svs' = n /\ used' = u /\ list' = l
        /\ since' = IF end THEN CutBy(h, inside) ELSE h
        /\ svReport' = NoReport
    BY <1>2 DEF ReportSvs
  <2>2. /\ HistoryOK(since')
        /\ since'.complete = h.complete /\ since'.received = h.received
        /\ since'.gsaUsed = h.gsaUsed /\ since'.lost = h.lost
        /\ (h.cut => since'.cut)
    BY <2>1 DEF Sound, HistoryOK, CutBy
  <2>3. /\ Bounded(count, n, since', q) /\ Named(l, u, since')
        /\ Current(count, n, l, since', q)
    BY <2>2 DEF Sound, Bounded, Named, Current
  <2>4. Exact(count, n, l, since', g, q)
    BY <2>2 DEF Sound, Exact, ExactSo
  <2>5. StatusOK(count, n, l, u)
    BY DEF Sound
  <2> QED
    BY <2>1, <2>2, <2>3, <2>4, <2>5, NoReportRight DEF Sound
<1> QED
  BY <1>1, <1>2

----------------------------------------------------------------------------
(* A GSV sentence.                                                         *)

\* Sentence number s + 1 of a group has the satellites after the first
\* s * SvInfo, it is not empty, and only the last one reaches the end.
LEMMA SentenceShape ==
    ASSUME GroupOK(group, seq), InGroup
    PROVE  /\ Sentence(seq + 1) \in Seq(Svs \cup OtherSvs)
           /\ seq * SvInfo \in Nat /\ (seq + 1) * SvInfo \in Nat
           /\ seq * SvInfo + Len(Sentence(seq + 1)) =
                Least((seq + 1) * SvInfo, Len(group))
           /\ seq * SvInfo + Len(Sentence(seq + 1)) <= Len(group)
           /\ \A i \in 1..Len(Sentence(seq + 1)) :
                 Sentence(seq + 1)[i] = group[seq * SvInfo + i]
           /\ seq + 1 = Sentences => (seq + 1) * SvInfo >= Len(group)
           /\ seq + 1 # Sentences => (seq + 1) * SvInfo < Len(group)
<1> DEFINE a == seq * SvInfo  b == Least((seq + 1) * SvInfo, Len(group))
           S == Svs \cup OtherSvs
<1>1. /\ seq \in Nat /\ SvInfo \in Nat \ {0} /\ group \in Seq(S)
      /\ Len(group) \in Nat /\ a < Len(group)
  BY NmeaAssumption DEF GroupOK, InGroup
<1>2. a \in Nat /\ (seq + 1) * SvInfo \in Nat /\ (seq + 1) * SvInfo = a + SvInfo
  BY <1>1, Product
<1>3. b \in Nat /\ a < b /\ b <= Len(group)
  BY <1>1, <1>2 DEF Least
<1>4. Sentence(seq + 1) = SubSeq(group, a + 1, b)
  <2>1. (seq + 1) - 1 = seq
    BY <1>1
  <2> QED
    BY <2>1, Zenon DEF Sentence
<1>5. /\ seq + 1 = Sentences => (seq + 1) * SvInfo >= Len(group)
      /\ seq + 1 # Sentences => (seq + 1) * SvInfo < Len(group)
  BY <1>1, LastSentence, Zenon DEF Sentences
<1>6. \A i \in a + 1..b : group[i] \in S
  BY <1>1, <1>2, <1>3
<1> HIDE DEF a, b, S
<1>7. /\ SubSeq(group, a + 1, b) \in Seq(S)
      /\ Len(SubSeq(group, a + 1, b)) = b - a
      /\ \A i \in 1..b - a : SubSeq(group, a + 1, b)[i] = group[a + i]
  <2>1. a + 1 \in Int /\ b \in Int /\ a + 1 <= b /\ b - (a + 1) + 1 = b - a
    BY <1>2, <1>3
  <2>2. /\ SubSeq(group, a + 1, b) \in Seq(S)
        /\ Len(SubSeq(group, a + 1, b)) = b - (a + 1) + 1
        /\ \A i \in 1..b - (a + 1) + 1 :
              SubSeq(group, a + 1, b)[i] = group[(a + 1) + i - 1]
    BY <1>6, <2>1, SubSeqProperties
  <2>3. \A i \in 1..b - a : (a + 1) + i - 1 = a + i
    BY <1>2, <1>3
  <2> QED
    BY <2>1, <2>2, <2>3
<1>8. a + (b - a) = b
  BY <1>2, <1>3
<1> QED
  BY <1>2, <1>3, <1>4, <1>5, <1>7, <1>8 DEF a, b, S

\* What a sentence stores: the accepted satellites, as long as there is room.
LEMMA StoredSeq ==
    ASSUME NEW S, NEW svs \in Seq(S), NEW base \in 0..MaxSvs, num_svs \in Nat
    PROVE  /\ Accepted(svs) \in Seq(Svs) /\ Len(Accepted(svs)) <= Len(svs)
           /\ Stored(svs, base) \in Seq(Svs)
           /\ Len(Stored(svs, base)) = Least(Len(Accepted(svs)), Room(base))
           /\ \A i \in 1..Len(Stored(svs, base)) :
                 Stored(svs, base)[i] = Accepted(svs)[i]
<1> DEFINE A == Accepted(svs)  m == Least(Len(A), Room(base))
<1>1. A \in Seq(Svs) /\ Len(A) <= Len(svs)
  <2>1. Len(svs) \in 0..Len(svs)
    OBVIOUS
  <2> QED
    BY <2>1, KeptSeq DEF Accepted
<1>2. Room(base) \in Nat
  BY NmeaAssumption DEF Room
<1> HIDE DEF A
<1>3. m \in Nat /\ m <= Len(A) /\ Len(A) \in Nat
  BY <1>1, <1>2 DEF Least
<1> HIDE DEF m
<1>4. /\ SubSeq(A, 1, m) \in Seq(Svs) /\ Len(SubSeq(A, 1, m)) = m
      /\ \A i \in 1..m : SubSeq(A, 1, m)[i] = A[i]
  BY <1>1, <1>3
<1>5. Stored(svs, base) = SubSeq(A, 1, m)
  BY Zenon DEF Stored, A, m
<1> QED
  BY <1>1, <1>4, <1>5 DEF A, m

\* A sentence lengthens what is kept of its group by what it is accepted for.
LEMMA GroupKept ==
    ASSUME GroupOK(group, seq), InGroup
    PROVE  LET a == seq * SvInfo
               b == Least((seq + 1) * SvInfo, Len(group))
           IN  /\ Kept(group)[a] \in Seq(Svs)
               /\ Kept(group)[b] = Kept(group)[a] \o Accepted(Sentence(seq + 1))
<1> DEFINE a == seq * SvInfo  b == Least((seq + 1) * SvInfo, Len(group))
           s == Sentence(seq + 1)  S == Svs \cup OtherSvs
<1>1. /\ group \in Seq(S) /\ s \in Seq(S) /\ a \in Nat /\ a + Len(s) = b
      /\ a + Len(s) <= Len(group) /\ \A i \in 1..Len(s) : s[i] = group[a + i]
  BY SentenceShape DEF GroupOK
<1> HIDE DEF a, b, s, S
<1>2. Kept(group)[a + Len(s)] = Kept(group)[a] \o Kept(s)[Len(s)]
  BY <1>1, KeptPart
<1>3. a \in 0..Len(group)
  BY <1>1
<1>4. Kept(group)[a] \in Seq(Svs)
  BY <1>1, <1>3, KeptSeq
<1> QED
  BY <1>1, <1>2, <1>4, Zenon DEF Accepted, a, b, s

\* The list after a sentence whose satellites new follow the first at entries.
Written(at, new) ==
    [i \in DOMAIN list |->
        IF i \in at + 1..at + Len(new) THEN Entry(new[i - at]) ELSE list[i]]

\* The entries of the list after a sentence.
LEMMA WrittenEntries ==
    ASSUME list \in [1..MaxSvs -> Entries], NEW at \in Nat,
           NEW new \in Seq(Svs)
    PROVE  /\ Written(at, new) \in [1..MaxSvs -> Entries]
           /\ \A i \in 1..MaxSvs :
                 /\ i \in at + 1..at + Len(new)
                      => /\ i - at \in 1..Len(new)
                         /\ Written(at, new)[i].sv = new[i - at]
                         /\ Written(at, new)[i].used => new[i - at] \in used
                 /\ i \notin at + 1..at + Len(new)
                      => Written(at, new)[i] = list[i]
<1> DEFINE w == Written(at, new)
<1>1. ASSUME NEW i \in 1..MaxSvs, i \in at + 1..at + Len(new)
      PROVE  /\ i - at \in 1..Len(new) /\ new[i - at] \in Svs
             /\ w[i] = Entry(new[i - at])
  BY <1>1, NmeaAssumption DEF Written
<1>2. ASSUME NEW i \in 1..MaxSvs, i \notin at + 1..at + Len(new)
      PROVE  w[i] = list[i]
  BY <1>2 DEF Written
<1>3. ASSUME NEW sv \in Svs
      PROVE  /\ Entry(sv) \in Entries /\ Entry(sv).sv = sv
             /\ Entry(sv).used => sv \in used
  <2>1. (gps_mode = 0 /\ sv \in used) \in BOOLEAN
    OBVIOUS
  <2> QED
    BY <2>1, Zenon DEF Entry, Entries
<1>4. w = [i \in 1..MaxSvs |-> w[i]]
  BY DEF Written
<1> HIDE DEF w
<1>5. \A i \in 1..MaxSvs : w[i] \in Entries
  BY <1>1, <1>2, <1>3
<1>6. w \in [1..MaxSvs -> Entries]
  BY <1>4, <1>5
<1> QED
  BY <1>1, <1>2, <1>3, <1>6 DEF w

\* How many entries a sentence takes, and what it leaves of the bounds.
LEMMA CountBounds ==
    ASSUME NEW base \in 0..MaxSvs, num_svs \in Nat, NEW len \in Nat,
           NEW m, m = Least(len, Room(base))
    PROVE  /\ m \in Nat /\ m <= len /\ base + m \in 0..MaxSvs
           /\ base + num_svs <= MaxSvs
                => /\ base + num_svs + m <= MaxSvs
                   /\ m = Least(len, MaxSvs - (base + num_svs))
BY NmeaAssumption DEF Least, Room

\* The first satellites of a concatenation.
LEMMA FirstOfConcat ==
    ASSUME NEW s \in Seq(Svs), NEW t \in Seq(Svs)
    PROVE  /\ First(s \o t) \in Seq(Svs)
           /\ Len(First(s \o t)) = Least(Len(s) + Len(t), MaxSvs)
           /\ \A i \in 1..Len(First(s \o t)) :
                 First(s \o t)[i] = IF i <= Len(s) THEN s[i] ELSE t[i - Len(s)]
<1> DEFINE v == s \o t  m == IF Len(v) < MaxSvs THEN Len(v) ELSE MaxSvs
<1>1. /\ v \in Seq(Svs) /\ Len(v) = Len(s) + Len(t) /\ Len(s) \in Nat
      /\ Len(t) \in Nat
      /\ \A i \in 1..Len(v) : v[i] = IF i <= Len(s) THEN s[i] ELSE t[i - Len(s)]
  BY ConcatProperties
<1> HIDE DEF v
<1>2. /\ m \in Nat /\ m <= Len(v) /\ m = Least(Len(s) + Len(t), MaxSvs)
      /\ Len(v) \in Nat
  BY <1>1, NmeaAssumption DEF Least
<1>3. First(v) = SubSeq(v, 1, m)
  BY Zenon DEF First
<1> HIDE DEF m
<1>4. /\ SubSeq(v, 1, m) \in Seq(Svs) /\ Len(SubSeq(v, 1, m)) = m
      /\ \A i \in 1..m : SubSeq(v, 1, m)[i] = v[i]
  BY <1>1, <1>2
<1>5. \A i \in 1..m : i \in 1..Len(v)
  BY <1>2
<1> QED
  BY <1>1, <1>2, <1>3, <1>4, <1>5 DEF v

\* What a GSV sentence computes first: where its group's entries begin, the
\* satellites it adds, their count and the list with them.
Base == IF seq = 0 THEN 0 ELSE sv_count
New == Stored(Sentence(seq + 1), Base)
Count == Base + Len(New)
NewList == Written(Base + num_svs, New)

\* The entries after a sentence, with the group still under way: first those
\* of the whole groups, then those of this one, up to count.
LEMMA SentenceWritten ==
    ASSUME ReaderInv, InGroup,
           NEW h, HistoryOK(h), h.lost = since.lost, h.cut = since.cut,
           h.gsaUsed = since.gsaUsed,
           h.received = since.received \cup {New[i] : i \in DOMAIN New}
    PROVE  /\ StatusOK(Count, num_svs, NewList, used)
           /\ New \in Seq(Svs) /\ Base \in 0..MaxSvs
           /\ ~h.lost => num_svs + Count <= MaxSvs
           /\ Named(NewList, used, h)
           /\ ~h.lost => \A i \in 1..num_svs + Count : NewList[i].sv \in h.received
           /\ ~h.lost /\ ~h.cut =>
                 /\ Len(since.complete) = num_svs
                 /\ \A i \in 1..num_svs : NewList[i].sv = since.complete[i]
                 /\ ExactSo(Count, num_svs, NewList,
                        Kept(group)[Least((seq + 1) * SvInfo, Len(group))])
<1> DEFINE A == Accepted(Sentence(seq + 1))
           at == Base + num_svs
           Ka == Kept(group)[seq * SvInfo]
           Kb == Kept(group)[Least((seq + 1) * SvInfo, Len(group))]
<1>1. /\ GroupOK(group, seq) /\ StatusOK(sv_count, num_svs, list, used)
      /\ HistoryOK(since)
  BY DEF ReaderInv, Sound
<1>2. /\ Base \in 0..MaxSvs /\ num_svs \in Nat /\ at \in Nat /\ Base \in Nat
      /\ MaxSvs \in Nat /\ seq \in Nat
      /\ list \in [1..MaxSvs -> Entries] /\ used \in SUBSET Svs
  BY <1>1, NmeaAssumption DEF StatusOK, GroupOK, Base
<1>3. /\ A \in Seq(Svs) /\ New \in Seq(Svs)
      /\ Len(New) = Least(Len(A), Room(Base))
      /\ \A i \in 1..Len(New) : New[i] = A[i]
  <2>1. Sentence(seq + 1) \in Seq(Svs \cup OtherSvs)
    BY <1>1, SentenceShape
  <2> QED
    BY <1>2, <2>1, StoredSeq DEF A, New
<1>4. Ka \in Seq(Svs) /\ Kb = Ka \o A
  BY <1>1, GroupKept
<1> HIDE DEF A, Ka, Kb
<1>5. /\ Len(New) \in Nat /\ Len(A) \in Nat /\ Len(New) <= Len(A)
      /\ Count \in 0..MaxSvs /\ Count \in Nat
      /\ at <= MaxSvs => /\ at + Len(New) <= MaxSvs
                         /\ Len(New) = Least(Len(A), MaxSvs - at)
  <2>1. Len(A) \in Nat
    BY <1>3
  <2> QED
    BY <1>2, <1>3, <2>1, CountBounds DEF Count
<1>6. /\ NewList \in [1..MaxSvs -> Entries]
      /\ \A i \in 1..MaxSvs :
            /\ i \in at + 1..at + Len(New)
                 => /\ i - at \in 1..Len(New) /\ NewList[i].sv = New[i - at]
                    /\ NewList[i].used => New[i - at] \in used
            /\ i \notin at + 1..at + Len(New) => NewList[i] = list[i]
  <2> HIDE DEF at
  <2>1. NewList = Written(at, New)
    BY DEF at, NewList
  <2> QED
    BY <1>2, <1>3, <2>1, WrittenEntries
<1>7. ~h.lost => at <= MaxSvs
  <2>1. ~h.lost => Claimed(sv_count, num_svs, seq) <= MaxSvs
    BY DEF ReaderInv, Sound, Bounded
  <2>2. Claimed(sv_count, num_svs, seq) = at
    BY <1>1, <1>2 DEF Claimed, StatusOK, Base
  <2> QED
    BY <2>1, <2>2
<1>8. num_svs + Count = at + Len(New)
  BY <1>2, <1>5 DEF Count
<1>9. StatusOK(Count, num_svs, NewList, used)
  BY <1>2, <1>5, <1>6 DEF StatusOK
<1>10. Named(NewList, used, h)
  <2>1. /\ used \subseteq h.gsaUsed
        /\ \A i \in 1..MaxSvs : list[i].used => list[i].sv \in h.gsaUsed
    BY DEF ReaderInv, Sound, Named
  <2> QED
    BY <1>6, <2>1 DEF Named
<1>11. ASSUME ~h.lost, NEW i \in 1..num_svs + Count
       PROVE  NewList[i].sv \in h.received
  <2>1. i \in 1..MaxSvs
    BY <1>2, <1>5, <1>7, <1>8, <1>11
  <2>2. CASE i \in at + 1..at + Len(New)
    <3>1. i - at \in DOMAIN New /\ NewList[i].sv = New[i - at]
      BY <1>3, <1>6, <2>1, <2>2
    <3> QED
      BY <3>1
  <2>3. CASE i \notin at + 1..at + Len(New)
    <3>1. i \in 1..at
      BY <1>2, <1>5, <1>8, <2>3
    <3>2. Claimed(sv_count, num_svs, seq) = at
      BY <1>1, <1>2 DEF Claimed, StatusOK, Base
    <3>3. list[i].sv \in since.received
      BY <1>11, <3>1, <3>2 DEF ReaderInv, Sound, Current
    <3> QED
      BY <1>6, <2>1, <2>3, <3>3
  <2> QED
    BY <2>2, <2>3
<1>12. ASSUME ~h.lost, ~h.cut
       PROVE  /\ Len(since.complete) = num_svs
              /\ \A i \in 1..num_svs : NewList[i].sv = since.complete[i]
              /\ ExactSo(Count, num_svs, NewList, Kb)
  <2>1. /\ Len(since.complete) = num_svs
        /\ \A i \in 1..num_svs : list[i].sv = since.complete[i]
        /\ seq > 0 => ExactSo(sv_count, num_svs, list, Ka)
    BY <1>12 DEF ReaderInv, Sound, Exact, Ka
  <2>2. \A i \in 1..at : i \in 1..MaxSvs /\ NewList[i] = list[i]
    BY <1>2, <1>5, <1>6, <1>7, <1>12
  <2>3. \A i \in 1..num_svs : NewList[i].sv = since.complete[i]
    BY <1>2, <2>1, <2>2
  <2>4. /\ Base = Least(Len(Ka), MaxSvs - num_svs)
        /\ \A i \in 1..Base : list[num_svs + i].sv = Ka[i]
    <3>1. CASE seq = 0
      <4>1. seq * SvInfo = 0
        BY <3>1, NmeaAssumption
      <4>2. Ka = <<>>
        BY <1>1, <4>1, KeptStep DEF Ka, GroupOK
      <4> QED
        BY <1>2, <1>7, <1>12, <3>1, <4>2 DEF Least, Base
    <3>2. CASE seq # 0
      BY <1>2, <2>1, <3>2 DEF ExactSo, Base
    <3> QED
      BY <3>1, <3>2
  <2>5. /\ num_svs \in 0..MaxSvs /\ Len(Ka) \in Nat
        /\ Len(New) = Least(Len(A), MaxSvs - (Base + num_svs))
    BY <1>2, <1>4, <1>5, <1>7, <1>12
  <2>6. /\ Base + Len(New) = Least(Len(Ka) + Len(A), MaxSvs - num_svs)
        /\ Len(New) > 0 => Base = Len(Ka)
    <3> DEFINE a == Len(Ka)  b == Len(A)  m == Len(New)
    <3>1. /\ a \in Nat /\ b \in Nat /\ Base \in Nat /\ num_svs \in 0..MaxSvs
          /\ Base = Least(a, MaxSvs - num_svs)
          /\ m = Least(b, MaxSvs - (Base + num_svs))
      BY <1>2, <1>5, <2>4, <2>5
    <3> HIDE DEF a, b, m
    <3>2. /\ Base + m = Least(a + b, MaxSvs - num_svs)
          /\ m > 0 => Base = a
      BY <3>1, NmeaAssumption DEF Least
    <3> QED
      BY <3>2 DEF a, b, m
  <2>7. /\ Len(Kb) = Len(Ka) + Len(A)
        /\ \A i \in 1..Len(Ka) + Len(A) :
              Kb[i] = IF i <= Len(Ka) THEN Ka[i] ELSE A[i - Len(Ka)]
    BY <1>3, <1>4, ConcatProperties
  <2>8. Count = Least(Len(Kb), MaxSvs - num_svs)
    BY <2>6, <2>7 DEF Count
  <2>9. ASSUME NEW i \in 1..Count PROVE NewList[num_svs + i].sv = Kb[i]
    <3>0. /\ Base <= Len(Ka) /\ Count <= Len(Ka) + Len(A)
          /\ i \in 1..Len(Ka) + Len(A)
      BY <1>2, <1>5, <2>4, <2>5, <2>7, <2>8 DEF Least
    <3>1. CASE i <= Base
      <4>1. num_svs + i \in 1..at /\ i \in 1..Base /\ i <= Len(Ka)
        BY <1>2, <1>5, <3>0, <3>1
      <4> QED
        BY <2>2, <2>4, <2>7, <3>0, <4>1
    <3>2. CASE i > Base
      <4>1. /\ i - Base \in 1..Len(New) /\ Base = Len(Ka)
            /\ (num_svs + i) - at = i - Base
            /\ num_svs + i \in at + 1..at + Len(New)
            /\ num_svs + i \in 1..MaxSvs
        BY <1>2, <1>5, <1>7, <1>12, <2>6, <3>2 DEF Count
      <4>2. NewList[num_svs + i].sv = New[i - Base]
        BY <1>6, <4>1
      <4>3. New[i - Base] = A[i - Len(Ka)]
        BY <1>3, <4>1
      <4>4. ~(i <= Len(Ka))
        BY <1>2, <1>5, <3>2, <4>1
      <4> QED
        BY <2>7, <3>0, <4>2, <4>3, <4>4
    <3> QED
      BY <1>2, <1>5, <3>1, <3>2
  <2> QED
    BY <2>1, <2>3, <2>8, <2>9 DEF ExactSo
<1>13. ~h.lost => num_svs + Count <= MaxSvs
  BY <1>5, <1>7, <1>8
<1> QED
  BY <1>2, <1>3, <1>9, <1>10, <1>11, <1>12, <1>13 DEF Kb

\* What is handed to the end of nmea_reader_parse after a GSV sentence is
\* right, whether it is the last of its group or not.
LEMMA SentenceSound ==
    ASSUME ReaderInv, InGroup, NEW last \in BOOLEAN,
           last <=> seq + 1 = Sentences, NEW h,
           h = [since EXCEPT
                   !.complete = IF last THEN First(@ \o Accepted(group)) ELSE @,
                   !.received = @ \cup {New[i] : i \in DOMAIN New}]
    PROVE  LET fits == Count <= Len(group)
               g == IF last THEN <<>> ELSE group
               q == IF last THEN 0 ELSE seq + 1
           IN  /\ GroupOK(g, q)
               /\ Sound(IF last /\ ~fits THEN 0 ELSE Count,
                        CASE ~last -> num_svs
                          [] last /\ fits -> num_svs + Count
                          [] OTHER -> 0,
                        NewList, used, h, g, q)
<1> DEFINE b == Least((seq + 1) * SvInfo, Len(group))
           A == Accepted(group)
<1>1. /\ GroupOK(group, seq) /\ HistoryOK(since) /\ seq \in Nat
      /\ group \in Seq(Svs \cup OtherSvs) /\ num_svs \in Nat
      /\ MaxSvs \in Nat
  BY NmeaAssumption DEF ReaderInv, Sound, GroupOK, StatusOK
<1>2. A \in Seq(Svs) /\ Len(A) <= Len(group) /\ A = Kept(group)[Len(group)]
  <2>1. Len(group) \in 0..Len(group)
    BY <1>1
  <2> QED
    BY <1>1, <2>1, KeptSeq DEF Accepted
<1>3. /\ (seq + 1) * SvInfo \in Nat
      /\ last => b = Len(group)
      /\ ~last => b = (seq + 1) * SvInfo /\ (seq + 1) * SvInfo < Len(group)
  BY <1>1, SentenceShape DEF Least
<1>4. New \in Seq(Svs)
  <2>1. Sentence(seq + 1) \in Seq(Svs \cup OtherSvs)
    BY <1>1, SentenceShape
  <2>2. Base \in 0..MaxSvs
    BY <1>1, NmeaAssumption DEF Base, ReaderInv, Sound, StatusOK
  <2> QED
    BY <1>1, <2>1, <2>2, StoredSeq DEF New
<1> HIDE DEF A, b
<1>5. /\ since.complete \in Seq(Svs) /\ since.received \in SUBSET Svs
      /\ since.lost \in BOOLEAN /\ since.cut \in BOOLEAN
  BY <1>1 DEF HistoryOK
<1>6. First(since.complete \o A) \in Seq(Svs)
  BY <1>2, <1>5, FirstOfConcat
<1>7. /\ HistoryOK(h) /\ h.lost = since.lost /\ h.cut = since.cut
      /\ h.gsaUsed = since.gsaUsed
      /\ h.received = since.received \cup {New[i] : i \in DOMAIN New}
      /\ h.complete = IF last THEN First(since.complete \o A)
                              ELSE since.complete
  <2> DEFINE r == since.received \cup {New[i] : i \in DOMAIN New}
             c == IF last THEN First(since.complete \o A) ELSE since.complete
  <2>1. r \in SUBSET Svs
    BY <1>4, <1>5
  <2>2. c \in Seq(Svs)
    BY <1>5, <1>6
  <2>3. h = [since EXCEPT !.complete = c, !.received = r]
    BY <1>1 DEF A, HistoryOK
  <2> HIDE DEF r, c
  <2>4. /\ HistoryOK(h) /\ h.lost = since.lost /\ h.cut = since.cut
        /\ h.gsaUsed = since.gsaUsed /\ h.received = r /\ h.complete = c
    BY <1>1, <2>1, <2>2, <2>3 DEF HistoryOK
  <2> QED
    BY <2>4 DEF r, c
<1>8. /\ StatusOK(Count, num_svs, NewList, used)
      /\ ~h.lost => num_svs + Count <= MaxSvs
      /\ Named(NewList, used, h)
      /\ ~h.lost => \A i \in 1..num_svs + Count : NewList[i].sv \in h.received
      /\ ~h.lost /\ ~h.cut =>
            /\ Len(since.complete) = num_svs
            /\ \A i \in 1..num_svs : NewList[i].sv = since.complete[i]
            /\ ExactSo(Count, num_svs, NewList, Kept(group)[b])
  BY <1>7, SentenceWritten DEF b
<1>9. Count \in 0..MaxSvs /\ Count \in Nat
  BY <1>1, <1>8 DEF StatusOK
<1>10. CASE ~last
  <2>1. GroupOK(group, seq + 1)
    BY <1>1, <1>3, <1>10 DEF GroupOK, InGroup
  <2>2. Claimed(Count, num_svs, seq + 1) = num_svs + Count
    BY <1>1 DEF Claimed
  <2>3. /\ Bounded(Count, num_svs, h, seq + 1)
        /\ Current(Count, num_svs, NewList, h, seq + 1)
    BY <1>8, <2>2 DEF Bounded, Current
  <2>4. Exact(Count, num_svs, NewList, h, group, seq + 1)
    BY <1>3, <1>7, <1>8, <1>10 DEF Exact
  <2>5. Sound(Count, num_svs, NewList, used, h, group, seq + 1)
    BY <1>7, <1>8, <2>3, <2>4 DEF Sound
  <2> QED
    BY <1>10, <2>1, <2>5
<1>11. CASE last /\ ~(Count <= Len(group))
  <2>1. GroupOK(<<>>, 0)
    BY DEF GroupOK
  <2>2. Claimed(0, 0, 0) = 0
    BY DEF Claimed
  <2>3. /\ Bounded(0, 0, h, 0) /\ Current(0, 0, NewList, h, 0)
        /\ StatusOK(0, 0, NewList, used)
    BY <1>1, <1>8, <2>2 DEF Bounded, Current, StatusOK
  <2>4. Exact(0, 0, NewList, h, <<>>, 0)
    <3> SUFFICES ASSUME ~h.lost, ~h.cut PROVE FALSE
      BY DEF Exact
    <3>1. Count = Least(Len(A), MaxSvs - num_svs)
      BY <1>2, <1>3, <1>8, <1>11 DEF ExactSo
    <3> QED
      BY <1>1, <1>2, <1>8, <1>9, <1>11, <3>1 DEF Least
  <2>5. Sound(0, 0, NewList, used, h, <<>>, 0)
    BY <1>7, <1>8, <2>3, <2>4 DEF Sound
  <2> QED
    BY <1>11, <2>1, <2>5
<1>12. CASE last /\ Count <= Len(group)
  <2> DEFINE n == num_svs + Count
  <2>1. GroupOK(<<>>, 0) /\ n \in Nat
    BY <1>1, <1>9 DEF GroupOK
  <2>2. Claimed(Count, n, 0) = n
    BY DEF Claimed
  <2>3. StatusOK(Count, n, NewList, used)
    BY <1>8, <2>1 DEF StatusOK
  <2>4. Bounded(Count, n, h, 0) /\ Current(Count, n, NewList, h, 0)
    BY <1>8, <2>2 DEF Bounded, Current
  <2>5. Exact(Count, n, NewList, h, <<>>, 0)
    <3> SUFFICES ASSUME ~h.lost, ~h.cut
                 PROVE  /\ Len(h.complete) = n
                        /\ \A i \in 1..n : NewList[i].sv = h.complete[i]
      BY DEF Exact
    <3> DEFINE s == since.complete
    <3>1. /\ Count = Least(Len(A), MaxSvs - num_svs) /\ Len(s) = num_svs
          /\ \A i \in 1..Count : NewList[num_svs + i].sv = A[i]
          /\ \A i \in 1..num_svs : NewList[i].sv = s[i]
          /\ num_svs + Count <= MaxSvs
      BY <1>2, <1>3, <1>8, <1>12 DEF ExactSo
    <3>2. s \in Seq(Svs) /\ h.complete = First(s \o A)
      BY <1>5, <1>7, <1>12
    <3> HIDE DEF s
    <3>3. /\ Len(First(s \o A)) = Least(Len(s) + Len(A), MaxSvs)
          /\ \A i \in 1..Len(First(s \o A)) :
                First(s \o A)[i] = IF i <= Len(s) THEN s[i] ELSE A[i - Len(s)]
      BY <1>2, <3>2, FirstOfConcat
    <3>4. Len(A) \in Nat
      BY <1>2
    <3>5. n = Least(Len(s) + Len(A), MaxSvs)
      BY <1>1, <1>9, <3>1, <3>4 DEF Least
    <3>6. ASSUME NEW i \in 1..n PROVE NewList[i].sv = First(s \o A)[i]
      <4>1. First(s \o A)[i] = IF i <= Len(s) THEN s[i] ELSE A[i - Len(s)]
        BY <3>3, <3>5
      <4>2. CASE i <= num_svs
        <5>1. i \in 1..num_svs
          BY <1>1, <4>2
        <5> QED
          BY <3>1, <4>1, <4>2, <5>1
      <4>3. CASE ~(i <= num_svs)
        <5>1. i - num_svs \in 1..Count /\ num_svs + (i - num_svs) = i
          BY <1>1, <1>9, <4>3
        <5>2. NewList[i].sv = A[i - num_svs]
          BY <3>1, <5>1
        <5> QED
          BY <3>1, <4>1, <4>3, <5>2
      <4> QED
        BY <4>2, <4>3
    <3> QED
      BY <3>2, <3>3, <3>5, <3>6
  <2>6. Sound(Count, n, NewList, used, h, <<>>, 0)
    BY <1>7, <1>8, <2>3, <2>4, <2>5 DEF Sound
  <2> QED
    BY <1>12, <2>1, <2>6
<1> QED
  BY <1>10, <1>11, <1>12

\* The reports of the last step are right.
Right == SvReportExact /\ SvReportCurrent /\ UsedCurrent

\* A step that reports nothing reports nothing wrong.
LEMMA NothingRight ==
    ASSUME NothingReported PROVE Right'
<1>1. svReport' = NoReport
  BY DEF NothingReported
<1> QED
  BY <1>1, NoReportRight DEF Right, SvReportExact, SvReportCurrent, UsedCurrent

\* The end of a sentence that changes at most the satellites used.
LEMMA SentenceEnds ==
    ASSUME gps_mode \in {0, 1}, ReaderInv, NEW u, NEW h, NEW end \in BOOLEAN,
           Sound(sv_count, num_svs, list, u, h, group, seq),
           ReportSvs(sv_count, num_svs, list, u, h, InGroup, end),
           UNCHANGED <<group, seq>>
    PROVE  ReaderInv' /\ Right'
<1>1. /\ GroupOK(group, seq) /\ list \in [1..MaxSvs -> Entries]
      /\ InGroup \in BOOLEAN /\ (InGroup <=> group # <<>>)
  BY DEF ReaderInv, Sound, StatusOK, InGroup
<1>2. /\ Sound(sv_count', num_svs', list', used', since', group, seq)
      /\ svReport'.exact /\ svReport'.current /\ svReport'.used
  BY <1>1, ReportSound
<1>3. group' = group /\ seq' = seq
  OBVIOUS
<1> QED
  BY <1>1, <1>2, <1>3
     DEF ReaderInv, Right, SvReportExact, SvReportCurrent, UsedCurrent

\* What has been collected stays right, and what is reported is right.
LEMMA ReaderStep ==
    ASSUME gps_mode \in {0, 1}, ReaderInv, Right, [Next]_vars
    PROVE  ReaderInv' /\ Right'
<1>0. /\ GroupOK(group, seq)
      /\ Sound(sv_count, num_svs, list, used, since, group, seq)
  BY DEF ReaderInv
<1>1. \A open \in BOOLEAN : MayEnd(open) \subseteq BOOLEAN
  BY DEF MayEnd
<1>2. ASSUME NEW has, FixSentence(has) PROVE ReaderInv' /\ Right'
  <2>1. PICK end \in MayEnd(InGroup) :
           /\ ReportSvs(sv_count, num_svs, list, used, since, InGroup, end)
           /\ UNCHANGED <<group, seq>>
    BY <1>2 DEF FixSentence
  <2>2. end \in BOOLEAN
    BY <1>1, <2>1 DEF InGroup
  <2> QED
    BY <1>0, <2>1, <2>2, SentenceEnds
<1>3. CASE gga_sentence \/ rmc_sentence \/ accuracy_sentence \/ unknown_sentence
  BY <1>2, <1>3, Zenon DEF gga_sentence, rmc_sentence, accuracy_sentence,
       unknown_sentence
<1>4. CASE gsa_sentence
  <2>1. PICK mode \in {1, 3}, end \in MayEnd(InGroup) :
         \E named \in IF LOC_FIXED(mode) THEN SUBSET Svs ELSE {{}} :
           /\ ReportSvs(sv_count, num_svs, list,
                        IF gps_mode = 0 THEN used \cup named ELSE named,
                        [since EXCEPT !.gsaUsed = @ \cup named], InGroup, end)
           /\ UNCHANGED <<group, seq>>
    BY <1>4, Zenon DEF gsa_sentence
  <2>2. PICK named \in IF LOC_FIXED(mode) THEN SUBSET Svs ELSE {{}} :
           /\ ReportSvs(sv_count, num_svs, list,
                        IF gps_mode = 0 THEN used \cup named ELSE named,
                        [since EXCEPT !.gsaUsed = @ \cup named], InGroup, end)
           /\ UNCHANGED <<group, seq>>
    BY <2>1
  <2> DEFINE u == IF gps_mode = 0 THEN used \cup named ELSE named
             h == [since EXCEPT !.gsaUsed = @ \cup named]
  <2>3. end \in BOOLEAN /\ named \in SUBSET Svs
    BY <1>1, <2>1, <2>2 DEF InGroup
  <2>4. /\ HistoryOK(h) /\ h.gsaUsed = since.gsaUsed \cup named
        /\ h.complete = since.complete /\ h.received = since.received
        /\ h.lost = since.lost /\ h.cut = since.cut
    BY <1>0, <2>3 DEF Sound, HistoryOK
  <2>5. u \in SUBSET Svs /\ u \subseteq used \cup named
    BY <1>0, <2>3 DEF Sound, StatusOK
  <2>6. ReportSvs(sv_count, num_svs, list, u, h, InGroup, end)
    BY <2>2
  <2> HIDE DEF u, h
  <2>7. StatusOK(sv_count, num_svs, list, u) /\ Named(list, u, h)
    BY <1>0, <2>4, <2>5 DEF Sound, StatusOK, Named
  <2>8. /\ Bounded(sv_count, num_svs, h, seq)
        /\ Current(sv_count, num_svs, list, h, seq)
    BY <1>0, <2>4 DEF Sound, Bounded, Current
  <2>9. Exact(sv_count, num_svs, list, h, group, seq)
    BY <1>0, <2>4 DEF Sound, Exact
  <2>10. Sound(sv_count, num_svs, list, u, h, group, seq)
    BY <2>4, <2>7, <2>8, <2>9 DEF Sound
  <2> QED
    BY <2>2, <2>3, <2>6, <2>10, SentenceEnds
<1>5. CASE begin_group
  <2>1. /\ ~InGroup /\ seq' = 0
        /\ UNCHANGED <<sv_count, num_svs, list, used, since>>
    BY <1>5 DEF begin_group, svVars
  <2>2. PICK n \in 1..MaxGroup : group' \in [1..n -> Svs \cup OtherSvs]
    BY <1>5 DEF begin_group
  <2>3. group' \in Seq(Svs \cup OtherSvs) /\ Len(group') = n
    BY <2>2, NmeaAssumption
  <2>4. seq = 0
    BY <1>0, <2>1 DEF GroupOK, InGroup
  <2>5. GroupOK(group', seq')
    <3>1. 0 * SvInfo = 0 /\ n > 0
      BY NmeaAssumption
    <3> QED
      BY <2>1, <2>3, <3>1 DEF GroupOK
  <2>6. Exact(sv_count, num_svs, list, since, group', 0)
    BY <1>0, <2>4 DEF Sound, Exact
  <2>7. Sound(sv_count, num_svs, list, used, since, group', 0)
    BY <1>0, <2>4, <2>6 DEF Sound
  <2>8. Right'
    BY <1>5, NothingRight DEF begin_group
  <2> QED
    BY <2>1, <2>5, <2>7, <2>8 DEF ReaderInv
<1>6. CASE gsv_sentence
  <2> DEFINE last == seq + 1 = Sentences
             fits == Count <= Len(group)
             h == [since EXCEPT
                     !.complete = IF last THEN First(@ \o Accepted(group)) ELSE @,
                     !.received = @ \cup {New[i] : i \in DOMAIN New}]
             c == IF last /\ ~fits THEN 0 ELSE Count
             n == CASE ~last -> num_svs
                    [] last /\ fits -> num_svs + Count
                    [] OTHER -> 0
             g == IF last THEN <<>> ELSE group
             q == IF last THEN 0 ELSE seq + 1
  <2>1. /\ seq \in Nat /\ num_svs \in Nat /\ sv_count \in Nat
        /\ list \in [1..MaxSvs -> Entries]
    BY <1>0, NmeaAssumption DEF Sound, StatusOK, GroupOK
  <2>2. InGroup /\ (seq + 1 = 1 <=> seq = 0)
    BY <1>6, <2>1 DEF gsv_sentence
  <2>3. GroupOK(g, q) /\ Sound(c, n, NewList, used, h, g, q)
    BY <2>2, SentenceSound
  <2>4. \E end \in MayEnd(~last) :
           /\ ReportSvs(c, n, NewList, used, h, ~last, end)
           /\ group' = g /\ seq' = q
    <3> DEFINE base == IF seq + 1 = 1 THEN 0 ELSE sv_count
               new == Stored(Sentence(seq + 1), base)
               count == base + Len(new)
               svs == [i \in DOMAIN list |->
                         IF i \in base + num_svs + 1 .. count + num_svs
                         THEN Entry(new[i - base - num_svs]) ELSE list[i]]
               Same(ba, ne, co, sv) ==
                 \E end \in MayEnd(~last) :
                   /\ ReportSvs(IF last /\ ~(co <= Len(group)) THEN 0 ELSE co,
                        CASE ~last -> num_svs
                          [] last /\ co <= Len(group) -> num_svs + co
                          [] OTHER -> 0,
                        sv, used,
                        [since EXCEPT
                           !.complete = IF last THEN First(@ \o Accepted(group))
                                        ELSE @,
                           !.received = @ \cup {ne[i] : i \in DOMAIN ne}],
                        ~last, end)
                   /\ group' = g /\ seq' = q
    <3>1. Same(base, new, count, svs)
      BY <1>6, Zenon DEF gsv_sentence
    <3>2. base = Base
      BY <2>2 DEF Base
    <3>3. new = New
      BY <3>2, Zenon DEF New
    <3>4. count = Count
      BY <3>2, <3>3, Zenon DEF Count
    <3>5. svs = NewList
      BY <2>1, <3>2, <3>3, <3>4 DEF NewList, Written, Count
    <3> HIDE DEF base, new, count, svs
    <3>6. Same(Base, New, Count, NewList)
      BY <3>1, <3>2, <3>3, <3>4, <3>5, Zenon
    <3> QED
      BY <3>6, Zenon
  <2>5. PICK end \in MayEnd(~last) :
           /\ ReportSvs(c, n, NewList, used, h, ~last, end)
           /\ group' = g /\ seq' = q
    BY <2>4
  <2>6. end \in BOOLEAN /\ (~last) \in BOOLEAN /\ (~last <=> g # <<>>)
    <3>1. (~last) \in BOOLEAN
      OBVIOUS
    <3>2. ~last <=> g # <<>>
      BY <2>2 DEF InGroup
    <3>3. end \in BOOLEAN
      BY <1>1, <2>5, <3>1
    <3> QED
      BY <3>1, <3>2, <3>3, Zenon
  <2> HIDE DEF last, fits, h, c, n, g, q
  <2>7. /\ Sound(sv_count', num_svs', list', used', since', g, q)
        /\ svReport'.exact /\ svReport'.current /\ svReport'.used
    BY <2>1, <2>3, <2>5, <2>6, ReportSound
  <2> QED
    BY <2>3, <2>5, <2>7
       DEF ReaderInv, Right, SvReportExact, SvReportCurrent, UsedCurrent
<1>7. CASE gsv_lost
  <2>1. /\ InGroup /\ since' = [since EXCEPT !.lost = TRUE]
        /\ IF seq + 1 = Sentences THEN group' = <<>> /\ seq' = 0
                                  ELSE group' = group /\ seq' = seq + 1
        /\ UNCHANGED <<sv_count, num_svs, list, used>>
    BY <1>7 DEF gsv_lost, svVars
  <2>2. /\ HistoryOK(since') /\ since'.lost
        /\ since'.gsaUsed = since.gsaUsed
    BY <1>0, <2>1 DEF Sound, HistoryOK
  <2>3. GroupOK(group', seq')
    <3>1. /\ (seq + 1) * SvInfo \in Nat /\ seq + 1 \in Nat
          /\ seq + 1 # Sentences => (seq + 1) * SvInfo < Len(group)
      BY <1>0, <2>1, SentenceShape DEF GroupOK
    <3>2. CASE seq + 1 = Sentences
      <4>1. group' = <<>> /\ seq' = 0
        BY <2>1, <3>2
      <4> QED
        BY <4>1 DEF GroupOK
    <3>3. CASE seq + 1 # Sentences
      <4>1. group' = group /\ seq' = seq + 1
        BY <2>1, <3>3
      <4>2. GroupOK(group, seq + 1)
        BY <1>0, <2>1, <3>1, <3>3 DEF GroupOK, InGroup
      <4> QED
        BY <4>1, <4>2
    <3> QED
      BY <3>2, <3>3
  <2>4. Sound(sv_count', num_svs', list', used', since', group', seq')
    BY <1>0, <2>1, <2>2 DEF Sound, StatusOK, Bounded, Named, Current, Exact
  <2>5. Right'
    BY <1>7, NothingRight DEF gsv_lost
  <2> QED
    BY <2>3, <2>4, <2>5 DEF ReaderInv
<1>8. CASE cmd_start
  <2>1. /\ sv_count' = 0 /\ num_svs' = 0
        /\ since' = [Fresh EXCEPT !.gsaUsed = since.gsaUsed, !.cut = InGroup]
        /\ UNCHANGED <<list, used, group, seq>>
    BY <1>8 DEF cmd_start, sendVars
  <2>2. /\ HistoryOK(since') /\ since'.gsaUsed = since.gsaUsed
        /\ since'.complete = <<>> /\ (since'.cut <=> InGroup)
    <3>1. since' = [complete |-> <<>>, received |-> {},
                    gsaUsed |-> since.gsaUsed, lost |-> FALSE, cut |-> InGroup]
      BY <2>1 DEF Fresh
    <3>2. since.gsaUsed \in SUBSET Svs /\ InGroup \in BOOLEAN
      BY <1>0 DEF Sound, HistoryOK, InGroup
    <3> HIDE DEF InGroup
    <3> QED
      BY <3>1, <3>2 DEF HistoryOK
  <2>3. Claimed(sv_count', num_svs', seq') = 0
    BY <2>1 DEF Claimed
  <2>4. /\ StatusOK(sv_count', num_svs', list', used')
        /\ Named(list', used', since')
    BY <1>0, <2>1, <2>2, NmeaAssumption DEF Sound, StatusOK, Named
  <2>5. /\ Bounded(sv_count', num_svs', since', seq')
        /\ Current(sv_count', num_svs', list', since', seq')
    BY <2>3, NmeaAssumption DEF Bounded, Current
  <2>6. Exact(sv_count', num_svs', list', since', group', seq')
    BY <1>0, <2>1, <2>2 DEF Exact, GroupOK, InGroup
  <2>7. Right'
    BY <1>8, NothingRight DEF cmd_start
  <2> QED
    BY <1>0, <2>1, <2>2, <2>4, <2>5, <2>6, <2>7 DEF ReaderInv, Sound
<1>9. CASE cmd_restart
  <2>1. UNCHANGED <<sv_count, num_svs, list, used, since, group, seq>>
    BY <1>9 DEF cmd_restart, svVars, sendVars
  <2>2. Right'
    BY <1>9, NothingRight DEF cmd_restart
  <2> QED
    BY <1>0, <2>1, <2>2 DEF ReaderInv
<1>10. CASE UNCHANGED vars
  <2>1. UNCHANGED <<sv_count, num_svs, list, used, since, group, seq, svReport>>
    BY <1>10 DEF vars, svVars, sendVars
  <2> QED
    BY <1>0, <2>1 DEF ReaderInv, Right, SvReportExact, SvReportCurrent,
         UsedCurrent
<1> QED
  BY <1>3, <1>4, <1>5, <1>6, <1>7, <1>8, <1>9, <1>10 DEF Next

----------------------------------------------------------------------------
(* The theorems.                                                           *)

\* The callbacks in use never change.
ModeOK == gps_mode \in {0, 1}

\* What has been collected is right in every reachable state.
LEMMA ReaderHolds == Spec => [](ModeOK /\ ReaderInv /\ Right)
<1>1. Init => ModeOK /\ ReaderInv /\ Right
  <2> SUFFICES ASSUME Init PROVE ModeOK /\ ReaderInv /\ Right
    OBVIOUS
  <2>1. /\ sv_count = 0 /\ num_svs = 0 /\ list = [i \in 1..MaxSvs |-> None]
        /\ used = {} /\ group = <<>> /\ seq = 0 /\ since = Fresh
        /\ svReport = NoReport /\ ModeOK
    BY DEF Init, ModeOK
  <2>2. /\ HistoryOK(since) /\ since.complete = <<>>
    BY <2>1 DEF Fresh, HistoryOK
  <2>3. GroupOK(group, seq) /\ StatusOK(sv_count, num_svs, list, used)
    BY <2>1, NmeaAssumption DEF GroupOK, StatusOK, Entries
  <2>4. Claimed(sv_count, num_svs, seq) = 0
    BY <2>1 DEF Claimed
  <2>5. /\ Bounded(sv_count, num_svs, since, seq)
        /\ Current(sv_count, num_svs, list, since, seq)
    BY <2>4, NmeaAssumption DEF Bounded, Current
  <2>6. Named(list, used, since)
    BY <2>1 DEF Named, None
  <2>7. Exact(sv_count, num_svs, list, since, group, seq)
    BY <2>1, <2>2 DEF Exact
  <2>8. Right
    BY <2>1, NoReportRight DEF Right, SvReportExact, SvReportCurrent,
         UsedCurrent
  <2> QED
    BY <2>1, <2>2, <2>3, <2>5, <2>6, <2>7, <2>8 DEF ReaderInv, Sound
<1>2. ModeOK /\ [Next]_vars => ModeOK'
  BY DEF ModeOK, Next, vars, gga_sentence, rmc_sentence, accuracy_sentence,
       unknown_sentence, FixSentence, gsa_sentence, begin_group, gsv_sentence,
       gsv_lost, cmd_start, cmd_restart
<1>3. ModeOK /\ ReaderInv /\ Right /\ [Next]_vars => ReaderInv' /\ Right'
  BY ReaderStep DEF ModeOK
<1> QED
  BY <1>1, <1>2, <1>3, PTL DEF Spec

\* The fields that no satellite report depends on.
RestOK == /\ fix_mode \in 0..3 /\ flags \in BOOLEAN /\ reading \in BOOLEAN
          /\ groups \in 0..MaxGroups

\* They keep their types.
LEMMA RestStep ==
    ASSUME RestOK, [Next]_vars
    PROVE  RestOK'
<1>1. \A open \in BOOLEAN : MayEnd(open) \subseteq BOOLEAN
  BY DEF MayEnd
<1>2. ASSUME NEW mode, NEW has \in BOOLEAN, NEW fixed, NEW end \in BOOLEAN,
             ReportFix(mode, has, fixed, end)
      PROVE  flags' \in BOOLEAN
  BY <1>2, Zenon DEF ReportFix
<1>3. ASSUME NEW end \in BOOLEAN, EndsRead(end)
      PROVE  reading' \in BOOLEAN /\ groups' \in 0..MaxGroups
  <2>1. reading' \in BOOLEAN
    BY <1>3, Zenon DEF EndsRead
  <2>2. groups' = 0 \/ groups' = groups
    BY <1>3 DEF EndsRead
  <2>3. groups' \in 0..MaxGroups
    BY <2>2, NmeaAssumption DEF RestOK
  <2> QED
    BY <2>1, <2>3
<1>4. ASSUME NEW has \in BOOLEAN, FixSentence(has) PROVE RestOK'
  <2>1. PICK end \in MayEnd(InGroup) :
           /\ ReportFix(fix_mode, flags \/ has, gsaFix, end)
           /\ EndsRead(end) /\ fix_mode' = fix_mode
    BY <1>4, Zenon DEF FixSentence
  <2>2. end \in BOOLEAN /\ (flags \/ has) \in BOOLEAN
    BY <1>1, <2>1 DEF InGroup
  <2> QED
    BY <1>2, <1>3, <2>1, <2>2, Zenon DEF RestOK
<1>5. CASE gga_sentence \/ rmc_sentence \/ accuracy_sentence \/ unknown_sentence
  <2>1. \A status \in {"A", "V"}, has \in BOOLEAN :
           /\ (status = "A" /\ has) \in BOOLEAN
           /\ (has /\ LOC_FIXED(fix_mode)) \in BOOLEAN /\ FALSE \in BOOLEAN
    OBVIOUS
  <2> QED
    BY <1>4, <1>5, <2>1, Zenon DEF gga_sentence, rmc_sentence,
         accuracy_sentence, unknown_sentence
<1>6. CASE gsa_sentence
  <2>1. PICK mode \in {1, 3}, end \in MayEnd(InGroup) :
           /\ fix_mode' = mode /\ EndsRead(end)
           /\ ReportFix(mode, flags, LOC_FIXED(mode), end)
    BY <1>6, Zenon DEF gsa_sentence
  <2>2. end \in BOOLEAN
    BY <1>1, <2>1 DEF InGroup
  <2>3. mode \in 0..3
    OBVIOUS
  <2> QED
    BY <1>2, <1>3, <2>1, <2>2, <2>3, Zenon DEF RestOK
<1>7. CASE gsv_sentence
  <2>1. fix_mode' = fix_mode
    BY <1>7 DEF gsv_sentence
  <2>2. PICK end \in MayEnd(~(seq + 1 = Sentences)) :
           ReportFix(fix_mode, flags, gsaFix, end) /\ EndsRead(end)
    BY <1>7, Zenon DEF gsv_sentence
  <2>3. end \in BOOLEAN
    BY <1>1, <2>2
  <2> QED
    BY <1>2, <1>3, <2>1, <2>2, <2>3, Zenon DEF RestOK
<1>8. CASE begin_group
  <2>1. /\ groups < MaxGroups /\ groups' = groups + 1 /\ reading' = TRUE
        /\ fix_mode' = fix_mode /\ flags' = flags
    BY <1>8 DEF begin_group, fixVars
  <2>2. groups' \in 0..MaxGroups
    BY <2>1, NmeaAssumption DEF RestOK
  <2> QED
    BY <2>1, <2>2, Zenon DEF RestOK
<1>9. CASE gsv_lost
  BY <1>9, Zenon DEF gsv_lost, fixVars, RestOK
<1>10. CASE cmd_start
  BY <1>10, Zenon DEF cmd_start, sendVars, RestOK
<1>11. CASE cmd_restart
  <2>1. 0 \in 0..3
    OBVIOUS
  <2> QED
    BY <1>11, <2>1, Zenon DEF cmd_restart, sendVars, RestOK
<1>12. CASE UNCHANGED vars
  BY <1>12, Zenon DEF vars, fixVars, sendVars, RestOK
<1> QED
  BY <1>5, <1>6, <1>7, <1>8, <1>9, <1>10, <1>11, <1>12 DEF Next

\* NmeaReader is type correct for every size of the list and of the groups: no
\* sentence writes outside the list, and as long as none is lost num_svs never
\* claims more entries than it has.
THEOREM TypeCorrect == Spec => []TypeOK
<1>1. Init => RestOK
  <2>1. 0 \in 0..3 /\ 0 \in 0..MaxGroups
    BY NmeaAssumption
  <2> QED
    BY <2>1, Zenon DEF Init, RestOK
<1>2. RestOK /\ [Next]_vars => RestOK'
  BY RestStep
<1>3. ModeOK /\ ReaderInv /\ RestOK => TypeOK
  <2> SUFFICES ASSUME ModeOK, ReaderInv, RestOK PROVE TypeOK
    OBVIOUS
  <2>1. /\ StatusOK(sv_count, num_svs, list, used) /\ GroupOK(group, seq)
        /\ Bounded(sv_count, num_svs, since, seq)
    BY DEF ReaderInv, Sound
  <2>2. ~since.lost => num_svs <= MaxSvs
    BY <2>1, NmeaAssumption DEF Bounded, Claimed, StatusOK, GroupOK
  <2> QED
    BY <2>1, <2>2, Zenon DEF TypeOK, ModeOK, RestOK, StatusOK, GroupOK, Entries
<1> QED
  BY <1>1, <1>2, <1>3, ReaderHolds, PTL DEF Spec

\* A satellite report lists exactly the satellites received, in order, as far
\* as the list goes, however the groups are divided into sentences and mixed
\* with other sentences, unless one was lost or a read cut a group.
THEOREM ReportsExact == Spec => []SvReportExact
<1>1. Right => SvReportExact
  BY DEF Right
<1> QED
  BY <1>1, ReaderHolds, PTL

\* No satellite report has an entry of an earlier one, wherever the reads end,
\* unless a sentence was lost.
THEOREM ReportsCurrent == Spec => []SvReportCurrent
<1>1. Right => SvReportCurrent
  BY DEF Right
<1> QED
  BY <1>1, ReaderHolds, PTL

\* A satellite is reported as used only if a GSA sentence has named it since
\* the last report; with GNSS callbacks, unless a sentence was lost.
THEOREM UsedHolds == Spec => []UsedCurrent
<1>1. Right => UsedCurrent
  BY DEF Right
<1> QED
  BY <1>1, ReaderHolds, PTL
=============================================================================
