----------------------------- MODULE UsersProofs -----------------------------
(***************************************************************************)
(* Safety of Users for any hash, digests, salts and passwords of any       *)
(* length, bytes of any width, any ids, names and arguments.               *)
(***************************************************************************)
EXTENDS Users, FiniteSetTheorems, SequenceTheorems, WellFoundedInduction, TLAPS

LEMMA LeastNatural ==
    ASSUME NEW T \in SUBSET Nat, T # {}
    PROVE  \E i \in T : \A j \in T : i <= j
<1>1. PICK i \in T : \A j \in T : ~ (<<j, i>> \in OpToRel(<, Nat))
  BY NatLessThanWellFounded, WFMin
<1>2. \A j \in T : ~ (j < i)
  BY <1>1 DEF OpToRel
<1> QED
  BY <1>2

-----------------------------------------------------------------------------
(* The comparison.  after k bytes the loop has found nothing exactly if the *)
(* first k bytes agree.                                                     *)
LEMMA CompareIsEquality ==
    ASSUME NEW a \in Seq(Byte), NEW b \in Seq(Byte)
    PROVE  ConstantTimeCompare(a, b) <=> a = b
<1> DEFINE n == Len(a)
           result == CHOOSE f : f = [k \in 0 .. Len(a) |->
               IF k = 0 THEN {} ELSE Difference(f[k - 1], a[k], b[k])]
           all == [k \in 0 .. n |->
               {x \in 0 .. 2 * Width - 1 : \E i \in 1 .. k : x \in SymDiff(a[i], b[i])}]
<1>1. ConstantTimeCompare(a, b) <=> Len(a) = Len(b) /\ result[n] = {}
  BY DEF ConstantTimeCompare
<1>2. ASSUME Len(a) = Len(b)
      PROVE  result[n] = {} <=> \A i \in 1 .. n : a[i] = b[i]
  <2>1. n \in Nat /\ \A i \in 1 .. n : a[i] \in Byte /\ b[i] \in Byte
    BY <1>2
  <2>2. \A i \in 1 .. n : SymDiff(a[i], b[i]) \subseteq 0 .. 2 * Width - 1
    BY <2>1 DEF SymDiff, Byte
  <2>3. all = [k \in 0 .. n |->
                  IF k = 0 THEN {} ELSE Difference(all[k - 1], a[k], b[k])]
    <3> SUFFICES ASSUME NEW k \in 0 .. n
                 PROVE  all[k] = IF k = 0 THEN {} ELSE Difference(all[k - 1], a[k], b[k])
      OBVIOUS
    <3>1. CASE k = 0
      BY <3>1
    <3>2. CASE k # 0
      <4>1. /\ k - 1 \in 0 .. n /\ k \in 1 .. n
            /\ \A i \in Nat : i \in 1 .. k <=> i \in 1 .. (k - 1) \/ i = k
        BY <2>1, <3>2
      <4>2. all[k] = all[k - 1] \cup SymDiff(a[k], b[k])
        BY <2>1, <2>2, <4>1
      <4> QED
        BY <3>2, <4>2 DEF Difference
    <3> QED
      BY <3>1, <3>2
  <2>4. result = [k \in 0 .. n |->
                     IF k = 0 THEN {} ELSE Difference(result[k - 1], a[k], b[k])]
    <3> HIDE DEF all
    <3> QED
      BY <2>3
  <2> HIDE DEF result, all, n
  <2> DEFINE Agree(k) == \A i \in 1 .. k : a[i] = b[i]
             T == {k \in 0 .. n : ~ (result[k] = {} <=> Agree(k))}
  <2>5. T = {}
    <3> SUFFICES ASSUME T # {} PROVE FALSE
      OBVIOUS
    <3>0. T \in SUBSET Nat
      BY <2>1
    <3>1. PICK k \in T : \A j \in T : k <= j
      <4> HIDE DEF T
      <4> QED
        BY <3>0, LeastNatural
    <3>2. k \in 0 .. n /\ k # 0
      BY <2>1, <2>4, <3>1
    <3>3. k - 1 \in 0 .. n /\ k - 1 \notin T /\ k \in 1 .. n
      BY <2>1, <3>1, <3>2
    <3>4. result[k] = Difference(result[k - 1], a[k], b[k])
      BY <2>4, <3>2
    <3>5. result[k] = {} <=> result[k - 1] = {} /\ a[k] = b[k]
      BY <3>4 DEF Difference, SymDiff
    <3>6. Agree(k) <=> Agree(k - 1) /\ a[k] = b[k]
      <4>1. \A i \in Nat : i \in 1 .. k <=> i \in 1 .. (k - 1) \/ i = k
        BY <2>1, <3>2, <3>3
      <4> QED
        BY <4>1
    <3> HIDE DEF Agree
    <3> QED
      BY <3>1, <3>3, <3>5, <3>6
  <2> QED
    BY <2>1, <2>5
<1>3. a = b <=> Len(a) = Len(b) /\ \A i \in 1 .. n : a[i] = b[i]
  BY SeqEqual
<1> QED
  BY <1>1, <1>2, <1>3
-----------------------------------------------------------------------------
(* Hexadecimal text.  The digits of a byte are its upper and lower bits.    *)
LEMMA DigitsOfByte ==
    ASSUME NEW b \in Byte
    PROVE  /\ High(b) \in Digit /\ Low(b) \in Digit
           /\ {i + Width : i \in High(b)} \cup Low(b) = b
<1>1. Width \in Nat
  BY PasswordAssumption
<1>2. \A x \in b : x \in Int /\ 0 <= x /\ x <= 2 * Width - 1
  BY <1>1 DEF Byte
<1>3. ASSUME NEW x \in b, x >= Width
      PROVE  x \in {i + Width : i \in High(b)}
  <2>1. x - Width \in 0 .. Width - 1 /\ (x - Width) + Width = x
    BY <1>1, <1>2, <1>3
  <2>2. x - Width \in High(b)
    BY <2>1 DEF High
  <2> QED
    BY <2>1, <2>2
<1>4. ASSUME NEW x \in b, ~ (x >= Width)
      PROVE  x \in Low(b)
  BY <1>1, <1>2, <1>4 DEF Low
<1>5. {i + Width : i \in High(b)} \subseteq b /\ Low(b) \subseteq b
  BY DEF High, Low
<1>6. High(b) \in Digit /\ Low(b) \in Digit
  BY DEF High, Low, Digit
<1> QED
  BY <1>3, <1>4, <1>5, <1>6

(* The digits of the first k bytes of d. *)
DigitsUpTo(h, d, k) ==
    /\ h \in Seq(Digit) /\ Len(h) = 2 * k
    /\ \A i \in 1 .. k : h[2 * i - 1] = High(d[i]) /\ h[2 * i] = Low(d[i])

LEMMA DigitsAppended ==
    ASSUME NEW d \in Seq(Byte), NEW k \in 1 .. Len(d), NEW h, DigitsUpTo(h, d, k - 1)
    PROVE  DigitsUpTo(h \o Digits(d[k]), d, k)
<1> DEFINE t == Digits(d[k])
<1>1. k \in Nat /\ k - 1 \in Nat /\ d[k] \in Byte
  OBVIOUS
<1>2. High(d[k]) \in Digit /\ Low(d[k]) \in Digit
  BY <1>1, DigitsOfByte
<1>3. t \in Seq(Digit) /\ Len(t) = 2 /\ t[1] = High(d[k]) /\ t[2] = Low(d[k])
  BY <1>2 DEF Digits
<1> HIDE DEF t
<1>4. h \in Seq(Digit) /\ Len(h) = 2 * (k - 1)
  BY DEF DigitsUpTo
<1>5. /\ h \o t \in Seq(Digit) /\ Len(h \o t) = 2 * k
      /\ \A i \in 1 .. Len(h) : (h \o t)[i] = h[i]
      /\ \A i \in 1 .. Len(t) : (h \o t)[Len(h) + i] = t[i]
  <2>1. /\ h \o t \in Seq(Digit) /\ Len(h \o t) = Len(h) + Len(t)
        /\ \A i \in 1 .. Len(h) + Len(t) :
               (h \o t)[i] = IF i <= Len(h) THEN h[i] ELSE t[i - Len(h)]
    BY <1>3, <1>4, ConcatProperties
  <2>2. Len(h) \in Nat /\ Len(h) + Len(t) = 2 * k
    BY <1>1, <1>3, <1>4
  <2>3. \A i \in 1 .. Len(t) :
            /\ ~ (Len(h) + i <= Len(h)) /\ (Len(h) + i) - Len(h) = i
            /\ Len(h) + i \in 1 .. Len(h) + Len(t)
    BY <1>3, <2>2
  <2> QED
    BY <1>3, <2>1, <2>2, <2>3
<1>6. ASSUME NEW i \in 1 .. k
      PROVE  (h \o t)[2 * i - 1] = High(d[i]) /\ (h \o t)[2 * i] = Low(d[i])
  <2>1. CASE i = k
    <3>1. 2 * i - 1 = Len(h) + 1 /\ 2 * i = Len(h) + 2 /\ Len(h) \in Nat
      BY <1>1, <1>4, <2>1
    <3>2. (h \o t)[Len(h) + 1] = t[1] /\ (h \o t)[Len(h) + 2] = t[2]
      BY <1>3, <1>5, <3>1
    <3> QED
      BY <1>3, <2>1, <3>1, <3>2
  <2>2. CASE i # k
    <3>1. i \in 1 .. k - 1
      BY <1>1, <2>2
    <3>2. 2 * i - 1 \in 1 .. Len(h) /\ 2 * i \in 1 .. Len(h)
      BY <1>1, <1>4, <3>1
    <3>3. (h \o t)[2 * i - 1] = h[2 * i - 1] /\ (h \o t)[2 * i] = h[2 * i]
      BY <1>5, <3>2
    <3> QED
      BY <3>1, <3>3 DEF DigitsUpTo
  <2> QED
    BY <2>1, <2>2
<1> QED
  BY <1>5, <1>6 DEF DigitsUpTo, t

LEMMA FirstDigits ==
    ASSUME NEW d \in Seq(Byte), 1 \in 1 .. Len(d)
    PROVE  DigitsUpTo(Digits(d[1]), d, 1)
<1>1. High(d[1]) \in Digit /\ Low(d[1]) \in Digit
  BY DigitsOfByte
<1>2. Digits(d[1]) \in Seq(Digit) /\ Len(Digits(d[1])) = 2
      /\ Digits(d[1])[1] = High(d[1]) /\ Digits(d[1])[2] = Low(d[1])
  BY <1>1 DEF Digits
<1>3. \A i \in 1 .. 1 : i = 1
  OBVIOUS
<1> QED
  BY <1>2, <1>3 DEF DigitsUpTo

LEMMA SameDigits ==
    ASSUME NEW d, NEW k \in Nat, NEW g, NEW h, DigitsUpTo(g, d, k), DigitsUpTo(h, d, k)
    PROVE  g = h
<1>1. g \in Seq(Digit) /\ h \in Seq(Digit) /\ Len(g) = Len(h) /\ Len(g) = 2 * k
  BY DEF DigitsUpTo
<1>2. ASSUME NEW j \in 1 .. Len(g)
      PROVE  g[j] = h[j]
  <2>1. j \in Nat /\ j \in 1 .. 2 * k
    BY <1>1
  <2>2. CASE j % 2 = 1
    <3>1. (j + 1) \div 2 \in 1 .. k /\ 2 * ((j + 1) \div 2) - 1 = j
      BY <2>1, <2>2
    <3> QED
      BY <3>1 DEF DigitsUpTo
  <2>3. CASE j % 2 = 0
    <3>1. j \div 2 \in 1 .. k /\ 2 * (j \div 2) = j
      BY <2>1, <2>3
    <3> QED
      BY <3>1 DEF DigitsUpTo
  <2> QED
    BY <2>1, <2>2, <2>3
<1> QED
  BY <1>1, <1>2, SeqEqual

LEMMA DigitsOfData ==
    ASSUME NEW d \in Seq(Byte)
    PROVE  DigitsUpTo(ToHex(d), d, Len(d))
<1> DEFINE n == Len(d)
           seqs == [k \in DOMAIN d |-> Digits(d[k])]
           flatten == CHOOSE f : f = [i \in 1 .. Len(seqs) |->
               IF i = 1 THEN seqs[i] ELSE f[i - 1] \o seqs[i]]
           all == [i \in 1 .. n |-> [j \in 1 .. 2 * i |->
               IF \E k \in 1 .. n : j = 2 * k - 1
                   THEN High(d[CHOOSE k \in 1 .. n : j = 2 * k - 1])
                   ELSE Low(d[CHOOSE k \in 1 .. n : j = 2 * k])]]
<1>1. /\ n \in Nat /\ DOMAIN d = 1 .. n
      /\ \A k \in 1 .. n : d[k] \in Byte
  OBVIOUS
<1>2. \A k \in 1 .. n : Digits(d[k]) \in Seq(Digit)
  <2> SUFFICES ASSUME NEW k \in 1 .. n
               PROVE  Digits(d[k]) \in Seq(Digit)
    OBVIOUS
  <2>1. High(d[k]) \in Digit /\ Low(d[k]) \in Digit
    BY <1>1, DigitsOfByte
  <2> QED
    BY <2>1 DEF Digits
<1>3. Len(seqs) = n /\ seqs \in Seq(Seq(Digit)) /\ \A k \in 1 .. n : seqs[k] = Digits(d[k])
  <2>1. seqs \in [1 .. n -> Seq(Digit)]
    BY <1>1, <1>2
  <2> QED
    BY <1>1, <2>1
<1>4. ToHex(d) = IF n = 0 THEN seqs ELSE flatten[n]
  BY <1>3 DEF ToHex, FlattenSeq
<1>5. CASE n = 0
  BY <1>1, <1>3, <1>4, <1>5 DEF DigitsUpTo
<1>6. CASE n # 0
  <2>1. ASSUME NEW i \in 1 .. n
        PROVE  DigitsUpTo(all[i], d, i)
    <3>1. ASSUME NEW k \in 1 .. i
          PROVE  /\ 2 * k - 1 \in 1 .. 2 * i /\ all[i][2 * k - 1] = High(d[k])
                 /\ 2 * k \in 1 .. 2 * i /\ all[i][2 * k] = Low(d[k])
      <4>1. k \in 1 .. n /\ 2 * k - 1 \in 1 .. 2 * i /\ 2 * k \in 1 .. 2 * i
        BY <1>1
      <4>2. \A m \in 1 .. n : (2 * k - 1 = 2 * m - 1 <=> m = k) /\ 2 * k # 2 * m - 1
                              /\ (2 * k = 2 * m <=> m = k)
        BY <1>1, <4>1
      <4>3. (CHOOSE m \in 1 .. n : 2 * k - 1 = 2 * m - 1) = k
        BY <4>1, <4>2
      <4>4. (CHOOSE m \in 1 .. n : 2 * k = 2 * m) = k
        BY <4>1, <4>2
      <4> QED
        BY <4>1, <4>2, <4>3, <4>4
    <3>2. ASSUME NEW j \in 1 .. 2 * i
          PROVE  \E k \in 1 .. i : j = 2 * k - 1 \/ j = 2 * k
      <4>1. i \in Nat /\ j \in Nat
        BY <1>1
      <4>2. CASE j % 2 = 1
        <5> WITNESS (j + 1) \div 2 \in 1 .. i
        <5> QED
          BY <4>1, <4>2
      <4>3. CASE j % 2 = 0
        <5> WITNESS j \div 2 \in 1 .. i
        <5> QED
          BY <4>1, <4>3
      <4> QED
        BY <4>1, <4>2, <4>3
    <3>3. \A k \in 1 .. i : High(d[k]) \in Digit /\ Low(d[k]) \in Digit
      <4> SUFFICES ASSUME NEW k \in 1 .. i PROVE High(d[k]) \in Digit /\ Low(d[k]) \in Digit
        OBVIOUS
      <4>1. d[k] \in Byte
        BY <1>1
      <4> QED
        BY <4>1, DigitsOfByte
    <3>4. \A j \in 1 .. 2 * i : all[i][j] \in Digit
      <4> HIDE DEF all
      <4> QED
        BY <3>1, <3>2, <3>3
    <3>5. all[i] \in [1 .. 2 * i -> Digit]
      <4>1. all[i] = [j \in 1 .. 2 * i |-> all[i][j]]
        OBVIOUS
      <4> HIDE DEF all
      <4> QED
        BY <3>4, <4>1
    <3>6. 2 * i \in Nat
      BY <1>1
    <3> HIDE DEF all
    <3>7. all[i] \in Seq(Digit) /\ Len(all[i]) = 2 * i
      BY <3>5, <3>6
    <3> QED
      BY <3>1, <3>7 DEF DigitsUpTo
  <2>2. all = [i \in 1 .. Len(seqs) |-> IF i = 1 THEN seqs[i] ELSE all[i - 1] \o seqs[i]]
    <3> SUFFICES ASSUME NEW i \in 1 .. n
                 PROVE  all[i] = IF i = 1 THEN seqs[i] ELSE all[i - 1] \o seqs[i]
      <4>1. Len(seqs) = n
        BY <1>3
      <4> HIDE DEF n, seqs
      <4> QED
        BY <4>1
    <3> HIDE DEF all, seqs
    <3>1. CASE i = 1
      <4>1. DigitsUpTo(Digits(d[1]), d, 1) /\ DigitsUpTo(all[1], d, 1)
        BY <2>1, <3>1, FirstDigits
      <4>2. Digits(d[1]) = all[1]
        BY <4>1, SameDigits
      <4> QED
        BY <1>3, <3>1, <4>2
    <3>2. CASE i # 1
      <4>1. i - 1 \in 1 .. n
        BY <1>1, <3>2
      <4>2. DigitsUpTo(all[i - 1] \o Digits(d[i]), d, i)
        BY <2>1, <4>1, DigitsAppended
      <4>3. DigitsUpTo(all[i], d, i) /\ i \in Nat
        BY <1>1, <2>1
      <4>4. all[i] = all[i - 1] \o Digits(d[i])
        BY <4>2, <4>3, SameDigits
      <4> QED
        BY <1>3, <3>2, <4>4
    <3> QED
      BY <3>1, <3>2
  <2>3. flatten = [i \in 1 .. n |-> IF i = 1 THEN seqs[i] ELSE flatten[i - 1] \o seqs[i]]
    <3> HIDE DEF all, seqs
    <3> QED
      BY <1>3, <2>2
  <2> HIDE DEF flatten, seqs, all, n
  <2> DEFINE T == {i \in 1 .. n : ~ DigitsUpTo(flatten[i], d, i)}
  <2>4. T = {}
    <3> SUFFICES ASSUME T # {} PROVE FALSE
      OBVIOUS
    <3>1. T \in SUBSET Nat
      BY <1>1
    <3>2. PICK i \in T : \A j \in T : i <= j
      <4> HIDE DEF T
      <4> QED
        BY <3>1, LeastNatural
    <3>3. i \in 1 .. n /\ ~ DigitsUpTo(flatten[i], d, i)
      BY <3>2
    <3>4. CASE i = 1
      <4>1. flatten[1] = Digits(d[1]) /\ 1 \in 1 .. n
        BY <1>3, <2>3, <3>3, <3>4
      <4>2. DigitsUpTo(Digits(d[1]), d, 1)
        BY <4>1, FirstDigits DEF n
      <4> QED
        BY <3>3, <3>4, <4>1, <4>2
    <3>5. CASE i # 1
      <4>1. i - 1 \in 1 .. n /\ i - 1 \notin T
        BY <1>1, <3>2, <3>3, <3>5
      <4>2. DigitsUpTo(flatten[i - 1], d, i - 1)
        BY <4>1
      <4>3. DigitsUpTo(flatten[i - 1] \o Digits(d[i]), d, i)
        BY <3>3, <4>2, DigitsAppended DEF n
      <4>4. flatten[i] = flatten[i - 1] \o Digits(d[i])
        BY <1>3, <2>3, <3>3, <3>5
      <4> QED
        BY <3>3, <4>3, <4>4
    <3> QED
      BY <3>4, <3>5
  <2>5. n \in 1 .. n
    BY <1>1, <1>6
  <2> QED
    BY <1>4, <1>6, <2>4, <2>5 DEF n
<1> QED
  BY <1>5, <1>6

(* What a column holds is decoded to what was encoded.                      *)
LEMMA FromHexOfToHex ==
    ASSUME NEW d \in Seq(Byte)
    PROVE  IsHex(ToHex(d)) /\ FromHex(ToHex(d)) = d
<1>1. /\ DigitsUpTo(ToHex(d), d, Len(d))
      /\ Len(d) \in Nat
  BY DigitsOfData
<1>2. Len(ToHex(d)) = 2 * Len(d)
  BY <1>1 DEF DigitsUpTo
<1>3. Len(ToHex(d)) % 2 = 0 /\ Len(ToHex(d)) \div 2 = Len(d)
  BY <1>1, <1>2
<1>4. ASSUME NEW k \in 1 .. Len(d)
      PROVE  FromHex(ToHex(d))[k] = d[k]
  <2>1. d[k] \in Byte
    OBVIOUS
  <2>2. {i + Width : i \in High(d[k])} \cup Low(d[k]) = d[k]
    BY <2>1, DigitsOfByte
  <2>3. ToHex(d)[2 * k - 1] = High(d[k]) /\ ToHex(d)[2 * k] = Low(d[k])
    BY <1>1 DEF DigitsUpTo
  <2> QED
    BY <1>3, <2>2, <2>3 DEF FromHex
<1>5. FromHex(ToHex(d)) \in Seq(Byte) /\ Len(FromHex(ToHex(d))) = Len(d)
  <2>1. FromHex(ToHex(d)) = [k \in 1 .. Len(d) |-> d[k]]
    BY <1>3, <1>4 DEF FromHex
  <2> QED
    BY <1>1, <2>1
<1> QED
  BY <1>3, <1>4, <1>5, SeqEqual DEF IsHex
-----------------------------------------------------------------------------
(* LIKE.  One step of its table, in any table f.                            *)
Row(f, s, p, j) ==
    IF j > Len(p) THEN {Len(s) + 1} ELSE {i \in 1 .. Len(s) + 1 :
        \/ p[j] = Percent /\ \E k \in 1 .. Len(s) + 1 : i <= k /\ k \in f[j + 1]
        \/ /\ p[j] = Backslash /\ i <= Len(s)
           /\ s[i] = p[j + 1] /\ i + 1 \in f[j + 2]
        \/ /\ p[j] \notin {Percent, Backslash} /\ i <= Len(s)
           /\ p[j] \in {Underscore, s[i]} /\ i + 1 \in f[j + 1]}

(* f is the table of what the pattern p has from j on.                      *)
TableFrom(f, s, p, j) == f = [m \in j .. Len(p) + 1 |-> Row(f, s, p, m)]

(* A table exists from every place of a pattern that does not end with \.  *)
LEMMA TableExtended ==
    ASSUME NEW s, NEW p, NEW n \in Nat, n = Len(p), n > 0 => p[n] # Backslash,
           NEW j \in 1 .. n, \E f : TableFrom(f, s, p, j + 1)
    PROVE  \E f : TableFrom(f, s, p, j)
<1>1. PICK f : f = [m \in j + 1 .. n + 1 |-> Row(f, s, p, m)]
  BY DEF TableFrom
<1> DEFINE g == [m \in j .. n + 1 |-> IF m = j THEN Row(f, s, p, j) ELSE f[m]]
<1>2. ASSUME NEW m \in j .. n + 1
      PROVE  g[m] = Row(g, s, p, m)
  <2>1. CASE m > n
    BY <1>1, <2>1 DEF Row
  <2>2. CASE m <= n
    <3>1. g[m + 1] = f[m + 1] /\ m + 1 \in j + 1 .. n + 1
      BY <2>2
    <3>2. p[m] = Backslash => g[m + 2] = f[m + 2]
      BY <2>2
    <3>3. Row(g, s, p, m) = Row(f, s, p, m)
      BY <3>1, <3>2 DEF Row
    <3>4. g[m] = Row(f, s, p, m)
      BY <1>1, <2>2
    <3> QED
      BY <3>3, <3>4
  <2> QED
    BY <2>1, <2>2
<1>3. g = [m \in j .. n + 1 |-> Row(g, s, p, m)]
  <2>1. g = [m \in j .. n + 1 |-> g[m]]
    OBVIOUS
  <2> HIDE DEF g
  <2> QED
    BY <1>2, <2>1
<1> HIDE DEF g
<1> QED
  BY <1>3 DEF TableFrom

LEMMA TableExists ==
    ASSUME NEW s, NEW p, NEW n \in Nat, n = Len(p), n > 0 => p[n] # Backslash
    PROVE  \E f : TableFrom(f, s, p, 1)
<1> DEFINE T == {k \in 0 .. n : ~ \E f : TableFrom(f, s, p, n + 1 - k)}
<1>1. T = {}
  <2> SUFFICES ASSUME T # {} PROVE FALSE
    OBVIOUS
  <2>1. T \in SUBSET Nat
    OBVIOUS
  <2>2. PICK k \in T : \A i \in T : k <= i
    <3> HIDE DEF T
    <3> QED
      BY <2>1, LeastNatural
  <2>3. k \in 0 .. n /\ ~ \E f : TableFrom(f, s, p, n + 1 - k)
    BY <2>2
  <2>4. CASE k = 0
    <3>1. \A m \in n + 1 .. n + 1 : m > n
      OBVIOUS
    <3>2. TableFrom([m \in n + 1 .. n + 1 |-> {Len(s) + 1}], s, p, n + 1)
      BY <3>1 DEF TableFrom, Row
    <3>3. n + 1 - k = n + 1
      BY <2>4
    <3> QED
      BY <2>3, <3>2, <3>3
  <2>5. CASE k # 0
    <3>1. k - 1 \in 0 .. n /\ k - 1 \notin T
      BY <2>2, <2>3, <2>5
    <3>2. n + 1 - k \in 1 .. n /\ n + 1 - (k - 1) = (n + 1 - k) + 1
      BY <2>3, <2>5
    <3>3. \E f : TableFrom(f, s, p, (n + 1 - k) + 1)
      BY <3>1, <3>2
    <3> HIDE DEF T
    <3>4. \E f : TableFrom(f, s, p, n + 1 - k)
      BY <3>2, <3>3, TableExtended
    <3> QED
      BY <2>3, <3>4
  <2> QED
    BY <2>4, <2>5
<1>2. n \in 0 .. n /\ n + 1 - n = 1
  OBVIOUS
<1> QED
  BY <1>1, <1>2

LEMMA LikeHasTable ==
    ASSUME NEW s, NEW p, Len(p) \in Nat, Len(p) > 0 => p[Len(p)] # Backslash
    PROVE  \E f : TableFrom(f, s, p, 1) /\ (Like(s, p) <=> 1 \in f[1])
<1> DEFINE from == CHOOSE f : f = [j \in 1 .. Len(p) + 1 |->
               IF j > Len(p) THEN {Len(s) + 1} ELSE {i \in 1 .. Len(s) + 1 :
                   \/ p[j] = Percent /\ \E k \in 1 .. Len(s) + 1 : i <= k /\ k \in f[j + 1]
                   \/ /\ p[j] = Backslash /\ i <= Len(s)
                      /\ s[i] = p[j + 1] /\ i + 1 \in f[j + 2]
                   \/ /\ p[j] \notin {Percent, Backslash} /\ i <= Len(s)
                      /\ p[j] \in {Underscore, s[i]} /\ i + 1 \in f[j + 1]}]
<1>1. Like(s, p) <=> 1 \in from[1]
  BY DEF Like
<1>2. \E f : TableFrom(f, s, p, 1)
  BY TableExists
<1>3. TableFrom(from, s, p, 1)
  BY <1>2 DEF TableFrom, Row
<1> HIDE DEF from
<1> QED
  BY <1>1, <1>3

(* The pattern of a search is its argument and a %.                         *)
LEMMA PatternOf ==
    ASSUME NEW arg \in Seq(Char)
    PROVE  /\ Len(Pattern(arg)) = Len(arg) + 1 /\ Len(arg) \in Nat
           /\ \A j \in 1 .. Len(arg) : Pattern(arg)[j] = arg[j]
           /\ Pattern(arg)[Len(arg) + 1] = Percent
  BY DEF Pattern

(* A text that begins with the argument matches, unless a \ hides one.      *)
LEMMA PrefixIsLike ==
    ASSUME NEW s \in Seq(Char), NEW arg \in Seq(Char),
           ~ Has(arg, {Backslash}), IsPrefix(arg, s)
    PROVE  Like(s, Pattern(arg))
<1> DEFINE n == Len(arg)
           p == Pattern(arg)
<1>1. /\ Len(p) = n + 1 /\ n \in Nat /\ p[n + 1] = Percent
      /\ \A j \in 1 .. n : p[j] = arg[j]
  BY PatternOf
<1>2. /\ n <= Len(s) /\ Len(s) \in Nat
      /\ \A j \in 1 .. n : s[j] = arg[j] /\ arg[j] # Backslash
  BY DEF IsPrefix, Has
<1> HIDE DEF n, p
<1>3. PICK f : TableFrom(f, s, p, 1) /\ (Like(s, p) <=> 1 \in f[1])
  <2>1. Len(p) \in Nat /\ p[Len(p)] # Backslash
    BY <1>1, UserAssumption
  <2> QED
    BY <2>1, LikeHasTable
<1>4. \A j \in 1 .. n + 2 : f[j] = Row(f, s, p, j)
  <2>1. f = [m \in 1 .. Len(p) + 1 |-> Row(f, s, p, m)]
    BY <1>3 DEF TableFrom
  <2>2. \A j \in 1 .. n + 2 : j \in 1 .. Len(p) + 1
    BY <1>1
  <2> QED
    BY <2>1, <2>2
<1> DEFINE T == {k \in 0 .. n : n + 1 - k \notin f[n + 1 - k]}
<1>5. T = {}
  <2> SUFFICES ASSUME T # {} PROVE FALSE
    OBVIOUS
  <2>1. T \in SUBSET Nat
    BY <1>1
  <2>2. PICK k \in T : \A i \in T : k <= i
    <3> HIDE DEF T
    <3> QED
      BY <2>1, LeastNatural
  <2>3. PICK j \in 1 .. n + 1 : j = n + 1 - k
    BY <1>1, <2>2
  <2>4. j \notin f[j] /\ f[j] = Row(f, s, p, j)
    BY <1>1, <1>4, <2>2, <2>3
  <2>5. CASE k = 0
    <3>1. j = n + 1
      BY <1>1, <2>3, <2>5
    <3>2. f[n + 2] = {Len(s) + 1}
      <4>1. n + 2 \in 1 .. n + 2 /\ n + 2 > Len(p)
        BY <1>1
      <4> QED
        BY <1>4, <4>1 DEF Row
    <3>3. p[j] = Percent /\ ~ (j > Len(p)) /\ j + 1 = n + 2
      BY <1>1, <3>1
    <3>4. Len(s) + 1 \in f[j + 1] /\ Len(s) + 1 \in 1 .. Len(s) + 1
      BY <1>2, <3>2, <3>3
    <3>5. j \in 1 .. Len(s) + 1 /\ j <= Len(s) + 1
      BY <1>1, <1>2, <3>1
    <3>6. j \in Row(f, s, p, j)
      BY <3>3, <3>4, <3>5 DEF Row
    <3> QED
      BY <2>4, <3>6
  <2>6. CASE k # 0
    <3>1. k - 1 \in 0 .. n /\ k - 1 \notin T /\ n + 1 - (k - 1) = j + 1
      <4>1. k \in 1 .. n
        BY <1>1, <2>2, <2>6
      <4>2. k - 1 \in 0 .. n /\ ~ (k <= k - 1) /\ n + 1 - (k - 1) = j + 1
        BY <1>1, <2>3, <4>1
      <4> HIDE DEF T
      <4> QED
        BY <2>2, <4>2
    <3>2. j + 1 \in f[j + 1]
      BY <3>1
    <3>3. j \in 1 .. n
      BY <1>1, <2>2, <2>3, <2>6
    <3>4. p[j] = s[j] /\ p[j] # Backslash /\ j <= Len(s)
      BY <1>1, <1>2, <3>3
    <3>5. j \in Row(f, s, p, j)
      <4>1. /\ j <= j + 1 /\ j \in 1 .. Len(s) + 1
            /\ j + 1 \in 1 .. Len(s) + 1 /\ ~ (j > Len(p))
        BY <1>1, <1>2, <3>3, <3>4
      <4> QED
        BY <3>2, <3>4, <4>1 DEF Row
    <3> QED
      BY <2>4, <3>5
  <2> QED
    BY <2>5, <2>6
<1>6. n \in 0 .. n /\ n + 1 - n = 1
  BY <1>1
<1>7. 1 \in f[1]
  BY <1>5, <1>6
<1> QED
  BY <1>3, <1>7 DEF p

(* What matches begins with the argument, if that has no special characters.*)
LEMMA LikeIsPrefix ==
    ASSUME NEW s \in Seq(Char), NEW arg \in Seq(Char),
           ~ Has(arg, {Percent, Underscore, Backslash}), Like(s, Pattern(arg))
    PROVE  IsPrefix(arg, s)
<1> DEFINE n == Len(arg)
           p == Pattern(arg)
<1>1. /\ Len(p) = n + 1 /\ n \in Nat /\ p[n + 1] = Percent
      /\ \A j \in 1 .. n : p[j] = arg[j] /\ arg[j] \notin {Percent, Underscore, Backslash}
  BY PatternOf DEF Has
<1>2. Like(s, p)
  OBVIOUS
<1> HIDE DEF n, p
<1>3. PICK f : TableFrom(f, s, p, 1) /\ (Like(s, p) <=> 1 \in f[1])
  <2>1. Len(p) \in Nat /\ p[Len(p)] # Backslash
    BY <1>1, UserAssumption
  <2> QED
    BY <2>1, LikeHasTable
<1>4. \A j \in 1 .. n : f[j] = Row(f, s, p, j)
  <2>1. f = [m \in 1 .. Len(p) + 1 |-> Row(f, s, p, m)]
    BY <1>3 DEF TableFrom
  <2>2. \A j \in 1 .. n : j \in 1 .. Len(p) + 1
    BY <1>1
  <2> QED
    BY <2>1, <2>2
<1>5. ASSUME NEW j \in 1 .. n, j \in f[j]
      PROVE  j <= Len(s) /\ s[j] = arg[j] /\ j + 1 \in f[j + 1]
  <2>1. j \in Row(f, s, p, j) /\ ~ (j > Len(p))
    BY <1>1, <1>4, <1>5
  <2>2. p[j] \notin {Percent, Underscore, Backslash} /\ p[j] = arg[j]
    BY <1>1
  <2> QED
    BY <2>1, <2>2 DEF Row
<1> DEFINE T == {j \in 1 .. n + 1 : j \notin f[j]}
<1>6. T = {}
  <2> SUFFICES ASSUME T # {} PROVE FALSE
    OBVIOUS
  <2>1. T \in SUBSET Nat
    BY <1>1
  <2>2. PICK j \in T : \A i \in T : j <= i
    <3> HIDE DEF T
    <3> QED
      BY <2>1, LeastNatural
  <2>3. j \in 1 .. n + 1 /\ j \notin f[j] /\ j # 1
    BY <1>2, <1>3, <2>2
  <2>4. j - 1 \in 1 .. n /\ j - 1 \notin T /\ (j - 1) + 1 = j /\ j - 1 \in 1 .. n + 1
    BY <1>1, <2>2, <2>3
  <2>5. j - 1 \in f[j - 1]
    BY <2>4
  <2> HIDE DEF T
  <2>6. j \in f[j]
    BY <1>5, <2>4, <2>5
  <2> QED
    BY <2>3, <2>6
<1>7. \A j \in 1 .. n : j <= Len(s) /\ s[j] = arg[j]
  <2>1. \A j \in 1 .. n : j \in 1 .. n + 1
    BY <1>1
  <2> QED
    BY <1>5, <1>6, <2>1
<1>8. n <= Len(s)
  BY <1>1, <1>7
<1>9. SubSeq(arg, 1, n) = SubSeq(s, 1, n)
  BY <1>1, <1>7, <1>8 DEF n
<1> QED
  BY <1>8, <1>9 DEF IsPrefix, n
-----------------------------------------------------------------------------
(* The rows of a result.  An id's rank is the number of ids up to it.       *)
UpTo(R, i) == {j \in R : j <= i}

LEMMA RankFacts ==
    ASSUME NEW R, R \subseteq Int, IsFiniteSet(R)
    PROVE  /\ Cardinality(R) \in Nat
           /\ \A i \in R : Cardinality(UpTo(R, i)) \in 1 .. Cardinality(R)
           /\ \A i, j \in R : i < j => Cardinality(UpTo(R, i)) < Cardinality(UpTo(R, j))
<1>1. Cardinality(R) \in Nat
  BY FS_CardinalityType
<1>2. ASSUME NEW i \in R
      PROVE  /\ IsFiniteSet(UpTo(R, i)) /\ Cardinality(UpTo(R, i)) \in Nat
             /\ 1 <= Cardinality(UpTo(R, i)) /\ Cardinality(UpTo(R, i)) <= Cardinality(R)
  <2>1. UpTo(R, i) \in SUBSET R /\ i \in UpTo(R, i)
    BY DEF UpTo
  <2>2. IsFiniteSet(UpTo(R, i)) /\ Cardinality(UpTo(R, i)) <= Cardinality(R)
    BY <2>1, FS_Subset
  <2>3. Cardinality(UpTo(R, i)) \in Nat /\ Cardinality(UpTo(R, i)) # 0
    BY <2>1, <2>2, FS_CardinalityType, FS_EmptySet
  <2> QED
    BY <2>2, <2>3
<1>3. ASSUME NEW i \in R, NEW j \in R, i < j
      PROVE  Cardinality(UpTo(R, i)) < Cardinality(UpTo(R, j))
  <2>1. UpTo(R, i) \in SUBSET UpTo(R, j) /\ j \in UpTo(R, j) /\ j \notin UpTo(R, i)
    <3>1. \A x \in R : x <= i => x <= j
      BY <1>3
    <3>2. j <= j /\ ~ (j <= i)
      BY <1>3
    <3> QED
      BY <3>1, <3>2 DEF UpTo
  <2>2. /\ Cardinality(UpTo(R, i)) <= Cardinality(UpTo(R, j))
        /\ Cardinality(UpTo(R, i)) # Cardinality(UpTo(R, j))
    BY <1>2, <2>1, FS_Subset
  <2> QED
    BY <1>2, <2>2
<1> QED
  BY <1>1, <1>2, <1>3

LEMMA NthExists ==
    ASSUME NEW R, R \subseteq Int, IsFiniteSet(R), NEW k \in 1 .. Cardinality(R)
    PROVE  Nth(R, k) \in R /\ Cardinality(UpTo(R, Nth(R, k))) = k
<1> DEFINE rank == [i \in R |-> Cardinality(UpTo(R, i))]
           N == 1 .. Cardinality(R)
<1>1. /\ Cardinality(R) \in Nat
      /\ \A i \in R : rank[i] \in N
      /\ \A i, j \in R : i < j => rank[i] < rank[j]
  BY RankFacts
<1>2. IsFiniteSet(N) /\ Cardinality(N) = Cardinality(R)
  BY <1>1, FS_Interval
<1>3. rank \in Injection(R, N)
  <2>1. rank \in [R -> N]
    BY <1>1
  <2>2. ASSUME NEW i \in R, NEW j \in R, rank[i] = rank[j]
        PROVE  i = j
    <3>1. i \in Int /\ j \in Int /\ rank[i] \in Int /\ rank[j] \in Int
      BY <1>1
    <3>2. ~ (i < j) /\ ~ (j < i)
      <4> HIDE DEF rank
      <4> QED
        BY <1>1, <2>2, <3>1
    <3> QED
      BY <3>1, <3>2
  <2> HIDE DEF rank, N
  <2> QED
    BY <2>1, <2>2 DEF Injection, IsInjective
<1>4. rank \in Surjection(R, N)
  <2> HIDE DEF rank, N
  <2> QED
    BY <1>2, <1>3, FS_Injection
<1>5. \E i \in R : rank[i] = k
  <2> HIDE DEF rank
  <2> QED
    BY <1>4 DEF Surjection
<1>6. \E i \in R : Cardinality({j \in R : j <= i}) = k
  BY <1>5 DEF UpTo
<1> QED
  BY <1>6 DEF Nth, UpTo

(* The k-th ids for all k are the set in its order.                         *)
LEMMA NthIsInOrder ==
    ASSUME NEW R, R \subseteq Int, IsFiniteSet(R)
    PROVE  /\ {Nth(R, k) : k \in 1 .. Cardinality(R)} = R
           /\ \A j, k \in 1 .. Cardinality(R) : j < k => Nth(R, j) < Nth(R, k)
<1>1. /\ Cardinality(R) \in Nat
      /\ \A i \in R : Cardinality(UpTo(R, i)) \in 1 .. Cardinality(R)
      /\ \A i, j \in R : i < j => Cardinality(UpTo(R, i)) < Cardinality(UpTo(R, j))
  BY RankFacts
<1>2. \A k \in 1 .. Cardinality(R) : Nth(R, k) \in R /\ Cardinality(UpTo(R, Nth(R, k))) = k
  BY NthExists
<1>3. ASSUME NEW i \in R
      PROVE  \E k \in 1 .. Cardinality(R) : i = Nth(R, k)
  <2> DEFINE k == Cardinality(UpTo(R, i))
             m == Nth(R, k)
  <2>1. k \in 1 .. Cardinality(R)
    BY <1>1
  <2>2. m \in R /\ Cardinality(UpTo(R, m)) = k
    <3> HIDE DEF k
    <3> QED
      BY <1>2, <2>1
  <2>3. i \in Int /\ m \in Int
    <3> HIDE DEF m
    <3> QED
      BY <2>2
  <2>4. ~ (i < m) /\ ~ (m < i)
    <3> HIDE DEF m
    <3> QED
      BY <1>1, <2>2, <2>3
  <2>5. i = m
    <3> HIDE DEF m
    <3> QED
      BY <2>3, <2>4
  <2> QED
    BY <2>1, <2>5
<1>4. ASSUME NEW j \in 1 .. Cardinality(R), NEW k \in 1 .. Cardinality(R), j < k
      PROVE  Nth(R, j) < Nth(R, k)
  <2>1. PICK x \in R : x = Nth(R, j) /\ Cardinality(UpTo(R, x)) = j
    BY <1>2
  <2>2. PICK y \in R : y = Nth(R, k) /\ Cardinality(UpTo(R, y)) = k
    BY <1>2
  <2>3. x # y /\ ~ (y < x)
    BY <1>1, <1>4, <2>1, <2>2
  <2>4. x < y
    BY <2>3
  <2> QED
    BY <2>1, <2>2, <2>4
<1> QED
  BY <1>2, <1>3, <1>4
-----------------------------------------------------------------------------
(* The table.  A row's secret is what HashPassword makes of its             *)
(* registration's password and salt; only finitely many ids have one.       *)
RowOf(first, second, pw, salt) ==
    [first |-> first, second |-> second, secret |-> HashPassword(pw, salt)]

Registered == {id \in Id : users[id] # {}}

TableInv ==
    /\ DOMAIN users = Id /\ users = [id \in Id |-> users[id]]
    /\ DOMAIN chosen = Id /\ chosen = [id \in Id |-> chosen[id]]
    /\ \A id \in Registered :
           /\ chosen[id].password \in Password /\ chosen[id].salt \in Salt
           /\ \E first, second \in Name :
                  users[id] = {RowOf(first, second, chosen[id].password, chosen[id].salt)}
    /\ IsFiniteSet(Registered)

LEMMA TableInit == Init => TableInv
<1> SUFFICES ASSUME Init PROVE TableInv
  OBVIOUS
<1>1. Registered = {}
  BY DEF Init, Registered
<1>2. IsFiniteSet(Registered)
  BY <1>1, FS_EmptySet
<1> QED
  BY <1>1, <1>2 DEF Init, TableInv

LEMMA TableStep == TableInv /\ [Next]_vars => TableInv'
<1> SUFFICES ASSUME TableInv, [Next]_vars PROVE TableInv'
  OBVIOUS
<1>1. ASSUME NEW id \in Id, NEW first \in Name, NEW second \in Name,
             NEW pw \in Password, NEW salt \in Salt, Register(id, first, second, pw, salt)
      PROVE  TableInv'
  <2>1. /\ users' = [users EXCEPT ![id] = {RowOf(first, second, pw, salt)}]
        /\ chosen' = [chosen EXCEPT ![id] = [password |-> pw, salt |-> salt]]
    BY <1>1 DEF Register, RowOf
  <2>2. /\ DOMAIN users' = Id /\ users' = [i \in Id |-> users'[i]]
        /\ DOMAIN chosen' = Id /\ chosen' = [i \in Id |-> chosen'[i]]
    BY <2>1 DEF TableInv
  <2>3. /\ users'[id] = {RowOf(first, second, pw, salt)}
        /\ chosen'[id] = [password |-> pw, salt |-> salt]
    BY <2>1 DEF TableInv
  <2>4. \A i \in Id : i # id => users'[i] = users[i] /\ chosen'[i] = chosen[i]
    BY <2>1 DEF TableInv
  <2>5. Registered' = Registered \cup {id}
    BY <2>3, <2>4 DEF Registered
  <2>6. IsFiniteSet(Registered')
    BY <2>5, FS_AddElement DEF TableInv
  <2>7. ASSUME NEW i \in Registered'
        PROVE  /\ chosen'[i].password \in Password /\ chosen'[i].salt \in Salt
               /\ \E f, s \in Name :
                      users'[i] = {RowOf(f, s, chosen'[i].password, chosen'[i].salt)}
    <3>1. CASE i = id
      <4>1. chosen'[i].password = pw /\ chosen'[i].salt = salt
        BY <2>3, <3>1
      <4> QED
        BY <2>3, <3>1, <4>1
    <3>2. CASE i # id
      <4>1. i \in Registered /\ i \in Id
        BY <2>5, <2>7, <3>2 DEF Registered
      <4> QED
        BY <2>4, <3>2, <4>1 DEF TableInv
    <3> QED
      BY <3>1, <3>2
  <2> QED
    BY <2>2, <2>6, <2>7 DEF TableInv, RowOf, HashPassword
<1>2. CASE UNCHANGED vars
  BY <1>2 DEF vars, TableInv, Registered, RowOf, HashPassword
<1> QED
  BY <1>1, <1>2 DEF Next

LEMMA TableInvariant == Spec => []TableInv
  BY TableInit, TableStep, PTL DEF Spec

-----------------------------------------------------------------------------
(* The check of a login decodes what the registration encoded, and compares *)
(* all of it.                                                               *)
LEMMA SecretIsChecked ==
    ASSUME NEW pw \in Password, NEW mine \in Password, NEW salt \in Salt
    PROVE  Checked(HashPassword(mine, salt), pw) =
               IF SlowHash(pw \o salt) = SlowHash(mine \o salt) THEN "accepted" ELSE "refused"
<1> DEFINE secret == HashPassword(mine, salt)
           digest == SlowHash(mine \o salt)
           given == SlowHash(pw \o salt)
<1>1. salt \in Seq(Byte) /\ digest \in Seq(Byte) /\ given \in Seq(Byte)
  BY PasswordAssumption DEF Salt
<1>2. secret.salt = ToHex(salt) /\ secret.hash = ToHex(digest)
  BY DEF HashPassword
<1>3. /\ IsHex(secret.salt) /\ FromHex(secret.salt) = salt
      /\ IsHex(secret.hash) /\ FromHex(secret.hash) = digest
  <2> HIDE DEF secret, digest
  <2> QED
    BY <1>1, <1>2, FromHexOfToHex
<1>4. VerifyPassword(pw, salt, digest) <=> given = digest
  <2>1. VerifyPassword(pw, salt, digest) <=> ConstantTimeCompare(given, digest)
    BY DEF VerifyPassword
  <2> HIDE DEF given, digest
  <2> QED
    BY <1>1, <2>1, CompareIsEquality
<1>5. Checked(secret, pw) = IF given = digest THEN "accepted" ELSE "refused"
  <2> HIDE DEF given, digest, secret
  <2> QED
    BY <1>3, <1>4 DEF Checked
<1> QED
  BY <1>5

LEMMA TableGivesLogins == TableInv => AcceptedIffHashesAgree
<1> SUFFICES ASSUME TableInv, NEW id \in Id, NEW pw \in Password
             PROVE  LET mine  == chosen[id]
                        agree == SlowHash(pw \o mine.salt) = SlowHash(mine.password \o mine.salt)
                    IN  TryLogin(id, pw) = IF users[id] # {} /\ agree THEN "accepted" ELSE "refused"
  BY DEF AcceptedIffHashesAgree
<1>1. CASE users[id] = {}
  BY <1>1 DEF TryLogin
<1>2. CASE users[id] # {}
  <2>1. id \in Registered
    BY <1>2 DEF Registered
  <2>2. PICK first \in Name, second \in Name :
            users[id] = {RowOf(first, second, chosen[id].password, chosen[id].salt)}
    BY <2>1 DEF TableInv
  <2>3. chosen[id].password \in Password /\ chosen[id].salt \in Salt
    BY <2>1 DEF TableInv
  <2>4. (CHOOSE r \in users[id] : TRUE)
            = RowOf(first, second, chosen[id].password, chosen[id].salt)
    BY <2>2
  <2>5. RowOf(first, second, chosen[id].password, chosen[id].salt).secret
            = HashPassword(chosen[id].password, chosen[id].salt)
    BY DEF RowOf
  <2>6. TryLogin(id, pw) = Checked(HashPassword(chosen[id].password, chosen[id].salt), pw)
    BY <1>2, <2>4, <2>5 DEF TryLogin
  <2> QED
    BY <1>2, <2>3, <2>6, SecretIsChecked
<1> QED
  BY <1>1, <1>2

(* Login::HandleRequestJsonThrow accepts exactly the passwords whose salted *)
(* hash is that of the one chosen, for any hash and bytes of any width.     *)
THEOREM LoginChecksTheHash == Spec => []AcceptedIffHashesAgree
  BY TableInvariant, TableGivesLogins, PTL

-----------------------------------------------------------------------------
(* What a search shows: the profile of each id found, in the order of ids.  *)
LEMMA SearchShows ==
    ASSUME TableInv, NEW first, NEW second
    PROVE  LET R == Found(first, second)
               found == UserSearch(first, second)
           IN  /\ R \subseteq Int /\ IsFiniteSet(R)
               /\ DOMAIN found = 1 .. Cardinality(R)
               /\ \A k \in DOMAIN found :
                      found[k].id = Nth(R, k) /\ found[k] \in UserGet(found[k].id)
<1> DEFINE R == Found(first, second)
           found == UserSearch(first, second)
<1>1. R \in SUBSET Registered /\ R \subseteq Id
  BY DEF Found, Registered
<1>2. IsFiniteSet(R) /\ R \subseteq Int
  <2> HIDE DEF R
  <2> QED
    BY <1>1, FS_Subset, UserAssumption DEF TableInv
<1>3. found = [k \in 1 .. Cardinality(R) |-> CHOOSE profile \in UserGet(Nth(R, k)) : TRUE]
  BY DEF UserSearch
<1> HIDE DEF found, R
<1>4. ASSUME NEW k \in DOMAIN found
      PROVE  found[k].id = Nth(R, k) /\ found[k] \in UserGet(found[k].id)
  <2>1. Nth(R, k) \in R /\ k \in 1 .. Cardinality(R)
    BY <1>2, <1>3, <1>4, NthExists
  <2>2. PICK id \in Registered : id = Nth(R, k)
    BY <1>1, <2>1
  <2>3. PICK row : users[id] = {row}
    BY <2>2 DEF TableInv
  <2>4. UserGet(id) = {Profile(id, row)}
    BY <2>3 DEF UserGet
  <2>5. found[k] = Profile(id, row)
    BY <1>3, <2>1, <2>2, <2>4
  <2>6. Profile(id, row).id = id
    BY DEF Profile
  <2> QED
    BY <2>2, <2>4, <2>5, <2>6
<1> QED
  BY <1>2, <1>3, <1>4 DEF found, R

LEMMA TableGivesSearches == TableInv => SearchIsByPrefix
<1> SUFFICES ASSUME TableInv, NEW first \in Argument, NEW second \in Argument
             PROVE  LET found  == UserSearch(first, second)
                        ids    == {found[k].id : k \in DOMAIN found}
                        wanted == {id \in Id : \E row \in users[id] :
                                       IsPrefix(first, row.first) /\ IsPrefix(second, row.second)}
                        arg    == first \o second
                    IN  /\ ~ Has(arg, {Backslash}) => wanted \subseteq ids
                        /\ ~ Has(arg, {Percent, Underscore, Backslash}) => ids = wanted
                        /\ \A k \in DOMAIN found : found[k] \in UserGet(found[k].id)
                        /\ \A j, k \in DOMAIN found : j < k => found[j].id < found[k].id
  BY DEF SearchIsByPrefix
<1> DEFINE R == Found(first, second)
           found  == UserSearch(first, second)
           ids    == {found[k].id : k \in DOMAIN found}
           wanted == {id \in Id : \E row \in users[id] :
                          IsPrefix(first, row.first) /\ IsPrefix(second, row.second)}
           arg    == first \o second
<1>1. /\ R \subseteq Int /\ IsFiniteSet(R)
      /\ DOMAIN found = 1 .. Cardinality(R)
      /\ \A k \in DOMAIN found :
             found[k].id = Nth(R, k) /\ found[k] \in UserGet(found[k].id)
  BY SearchShows
<1>2. /\ ids = R
      /\ \A j, k \in DOMAIN found : j < k => found[j].id < found[k].id
  <2>1. /\ {Nth(R, k) : k \in 1 .. Cardinality(R)} = R
        /\ \A j, k \in 1 .. Cardinality(R) : j < k => Nth(R, j) < Nth(R, k)
    <3> HIDE DEF R
    <3> QED
      BY <1>1, NthIsInOrder
  <2> HIDE DEF R, found
  <2>2. ids = {Nth(R, k) : k \in 1 .. Cardinality(R)}
    BY <1>1
  <2> QED
    BY <1>1, <2>1, <2>2
<1>3. first \in Seq(Char) /\ second \in Seq(Char)
  BY UserAssumption
<1>4. \A chars : ~ Has(arg, chars) => ~ Has(first, chars) /\ ~ Has(second, chars)
  <2> SUFFICES ASSUME NEW chars, Has(first, chars) \/ Has(second, chars)
               PROVE  Has(arg, chars)
    OBVIOUS
  <2>1. /\ arg \in Seq(Char) /\ Len(arg) = Len(first) + Len(second)
        /\ \A i \in 1 .. Len(first) + Len(second) :
               arg[i] = IF i <= Len(first) THEN first[i] ELSE second[i - Len(first)]
    BY <1>3, ConcatProperties
  <2>2. Len(first) \in Nat /\ Len(second) \in Nat
    BY <1>3
  <2> HIDE DEF arg
  <2>3. CASE Has(first, chars)
    <3>1. PICK k \in 1 .. Len(first) : first[k] \in chars
      BY <1>3, <2>3 DEF Has
    <3>2. k \in 1 .. Len(first) + Len(second) /\ k <= Len(first)
      BY <2>2
    <3> QED
      BY <2>1, <3>1, <3>2 DEF Has
  <2>4. CASE Has(second, chars)
    <3>1. PICK k \in 1 .. Len(second) : second[k] \in chars
      BY <1>3, <2>4 DEF Has
    <3>2. /\ Len(first) + k \in 1 .. Len(first) + Len(second)
          /\ ~ (Len(first) + k <= Len(first)) /\ (Len(first) + k) - Len(first) = k
      BY <2>2
    <3> QED
      BY <2>1, <3>1, <3>2 DEF Has
  <2> QED
    BY <2>3, <2>4
<1>5. ASSUME NEW id \in Id, NEW row \in users[id]
      PROVE  row.first \in Seq(Char) /\ row.second \in Seq(Char)
  <2>1. id \in Registered
    BY <1>5 DEF Registered
  <2>2. PICK f \in Name, s \in Name :
            users[id] = {RowOf(f, s, chosen[id].password, chosen[id].salt)}
    BY <2>1 DEF TableInv
  <2>3. row.first = f /\ row.second = s
    BY <2>2 DEF RowOf
  <2> QED
    BY <2>3, UserAssumption
<1>6. ~ Has(arg, {Backslash}) => wanted \subseteq R
  <2> SUFFICES ASSUME ~ Has(arg, {Backslash}), NEW id \in Id, NEW row \in users[id],
                      IsPrefix(first, row.first), IsPrefix(second, row.second)
               PROVE  Like(row.first, Pattern(first)) /\ Like(row.second, Pattern(second))
    BY DEF Found
  <2> QED
    BY <1>3, <1>4, <1>5, PrefixIsLike
<1>7. ~ Has(arg, {Percent, Underscore, Backslash}) => R \subseteq wanted
  <2> SUFFICES ASSUME ~ Has(arg, {Percent, Underscore, Backslash}),
                      NEW id \in Id, NEW row \in users[id],
                      Like(row.first, Pattern(first)), Like(row.second, Pattern(second))
               PROVE  IsPrefix(first, row.first) /\ IsPrefix(second, row.second)
    BY DEF Found
  <2> QED
    BY <1>3, <1>4, <1>5, LikeIsPrefix
<1>8. ~ Has(arg, {Percent, Underscore, Backslash}) => ~ Has(arg, {Backslash})
  BY DEF Has
<1> HIDE DEF R, found, wanted, ids, arg
<1>9. /\ ~ Has(arg, {Backslash}) => wanted \subseteq ids
      /\ ~ Has(arg, {Percent, Underscore, Backslash}) => ids = wanted
      /\ \A k \in DOMAIN found : found[k] \in UserGet(found[k].id)
      /\ \A j, k \in DOMAIN found : j < k => found[j].id < found[k].id
  BY <1>1, <1>2, <1>6, <1>7, <1>8
<1> QED
  BY <1>9 DEF found, wanted, ids, arg

(* UserSearchHandler finds by prefix, for any names, arguments and ids.     *)
THEOREM SearchFindsBeginnings == Spec => []SearchIsByPrefix
  BY TableInvariant, TableGivesSearches, PTL
=============================================================================
