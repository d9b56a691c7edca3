----------------------------- MODULE KeysProofs -----------------------------
(***************************************************************************)
(* What a key tells, for texts and events of every length.                 *)
(*                                                                         *)
(* The states of Keys are single inputs, so its invariants follow from the *)
(* type of the input alone; the work is in the lemmas, one for each step   *)
(* of the normalisers.                                                     *)
(***************************************************************************)
EXTENDS Keys, SequenceTheorems, FiniteSetTheorems, TLAPS

\* The texts over a set of characters do not depend on the set: a text that
\* is typed is a sequence of strings, and so is the event that arrived.
Typed ==
  /\ text \in Seq(STRING)
  /\ form \in {"email", "phone", "event", "none"}
  /\ form = "event" => event \in Facts

LEMMA StaysTyped == Spec => []Typed
<1>1. Init => Typed
  BY DEF Init, Typed
<1>2. Typed /\ [Next]_vars => Typed'
  <2> SUFFICES ASSUME Typed, [Next]_vars PROVE Typed'
    OBVIOUS
  <2> USE DEF Typed
  <2>1. ASSUME NEW f \in {"email", "phone"}, Open(f) PROVE Typed'
    BY <2>1 DEF Open
  <2>2. ASSUME NEW c \in EmailAlphabet \cup PhoneAlphabet, Type(c) PROVE Typed'
    BY <2>2, TextAssumption, AppendProperties DEF Type
  <2>3. ASSUME NEW e \in Facts, Arrive(e) PROVE Typed'
    BY <2>3 DEF Arrive
  <2>4. CASE Submit
    BY <2>4, EmptySeq DEF Submit
  <2>5. CASE UNCHANGED vars
    BY <2>5 DEF vars
  <2> QED
    BY <2>1, <2>2, <2>3, <2>4, <2>5 DEF Next
<1> QED
  BY <1>1, <1>2, PTL DEF Spec

-----------------------------------------------------------------------------
(* Finite sets of naturals.                                                *)

\* A non-empty set of naturals has a least member.
LEMMA Least ==
  ASSUME NEW S \in SUBSET Nat, S # {}
  PROVE  \E x \in S : \A y \in S : x <= y
<1> DEFINE less == OpToRel(<, Nat)
<1>1. \A x, y \in Nat : y < x => <<y, x>> \in less
  BY DEF OpToRel
<1>2. IsWellFoundedOn(less, Nat)
  BY NatLessThanWellFounded
<1> HIDE DEF less
<1>3. PICK x \in S : \A y \in S : ~ (<<y, x>> \in less)
  BY <1>2, WFMin
<1>4. ASSUME NEW y \in S PROVE x <= y
  <2>1. x \in Nat /\ y \in Nat
    OBVIOUS
  <2>2. <<y, x>> \notin less
    BY <1>3
  <2>3. ~ (y < x)
    BY <1>1, <2>1, <2>2, Zenon
  <2> QED
    BY <2>1, <2>3
<1> QED
  BY <1>4

\* A non-empty set of positions has a first and a last one.
LEMMA Extremes ==
  ASSUME NEW n \in Nat, NEW S \in SUBSET (1..n), S # {}
  PROVE  /\ Min(S) \in S /\ \A i \in S : Min(S) <= i
         /\ Max(S) \in S /\ \A i \in S : i <= Max(S)
<1>1. PICK least \in S : \A i \in S : least <= i
  BY Least
<1> DEFINE bounds == {m \in Nat : \A i \in S : i <= m}
<1>2. n \in bounds
  OBVIOUS
<1>3. PICK top \in bounds : \A m \in bounds : top <= m
  <2> HIDE DEF bounds
  <2>1. bounds \in SUBSET Nat
    BY DEF bounds
  <2> QED
    BY <1>2, <2>1, Least
<1>4. top \in S
  <2> SUFFICES ASSUME top \notin S PROVE FALSE
    OBVIOUS
  <2>1. \A i \in S : i <= top - 1
    BY <1>3
  <2>2. top - 1 \in bounds
    BY <2>1, <1>3
  <2> QED
    BY <2>2, <1>3
<1>5. \A i \in S : i <= top
  BY <1>3
<1>6. Min(S) \in S /\ \A i \in S : Min(S) <= i
  BY <1>1 DEF Min
<1>7. Max(S) \in S /\ \A i \in S : Max(S) >= i
  BY <1>4, <1>5 DEF Max
<1> QED
  BY <1>6, <1>7

LEMMA PositionsAreFinite ==
  ASSUME NEW n \in Nat, NEW S \in SUBSET (1..n)
  PROVE  IsFiniteSet(S) /\ Cardinality(S) \in Nat
<1>1. IsFiniteSet(1..n)
  BY FS_Interval
<1>2. IsFiniteSet(S)
  BY <1>1, FS_Subset
<1> QED
  BY <1>2, FS_CardinalityType

LEMMA CountTo ==
  ASSUME NEW n \in Nat
  PROVE  Cardinality(1..n) = n
<1>1. Cardinality(1..n) = IF 1 > n THEN 0 ELSE n - 1 + 1
  BY FS_Interval
<1> QED
  BY <1>1

\* There is a k-th member from below for each k up to the size of the set:
\* no two members have the same rank, so by their number every rank is taken.
LEMMA NthExists ==
  ASSUME NEW n \in Nat, NEW S \in SUBSET (1..n), NEW k \in 1..Cardinality(S)
  PROVE  Nth(S, k) \in S /\ Cardinality(S \cap 1..Nth(S, k)) = k
<1> DEFINE rank == [i \in S |-> Cardinality(S \cap 1..i)]
           ranks == 1..Cardinality(S)
<1>1. IsFiniteSet(S) /\ Cardinality(S) \in Nat
  BY PositionsAreFinite
<1>2. ASSUME NEW i \in S
      PROVE  /\ IsFiniteSet(S \cap 1..i)
             /\ Cardinality(S \cap 1..i) \in ranks
  <2>1. /\ IsFiniteSet(S \cap 1..i)
        /\ Cardinality(S \cap 1..i) <= Cardinality(S)
    BY <1>1, FS_Intersection
  <2>2. Cardinality(S \cap 1..i) # 0
    <3>1. i \in S \cap 1..i
      OBVIOUS
    <3> QED
      BY <2>1, <3>1, FS_EmptySet
  <2>3. Cardinality(S \cap 1..i) \in Nat
    BY <2>1, FS_CardinalityType
  <2> QED
    BY <1>1, <2>1, <2>2, <2>3
<1>3. ASSUME NEW i \in S, NEW j \in S, i < j
      PROVE  Cardinality(S \cap 1..i) # Cardinality(S \cap 1..j)
  <2>1. S \cap 1..i \subseteq S \cap 1..j
    BY <1>3
  <2>2. j \in S \cap 1..j /\ j \notin S \cap 1..i
    BY <1>3
  <2>3. IsFiniteSet(S \cap 1..j)
    BY <1>2
  <2> QED
    BY <2>1, <2>2, <2>3, FS_Subset
<1>4. rank \in [S -> ranks]
  BY <1>2
<1>5. \A i, j \in S : i # j => rank[i] # rank[j]
  <2> SUFFICES ASSUME NEW i \in S, NEW j \in S, i # j PROVE rank[i] # rank[j]
    OBVIOUS
  <2>1. i < j \/ j < i
    OBVIOUS
  <2> QED
    BY <1>3, <2>1
<1>6. \E i \in S : rank[i] = k
  <2> SUFFICES ASSUME \A i \in S : rank[i] # k PROVE FALSE
    OBVIOUS
  <2> DEFINE others == ranks \ {k}
  <2>1. IsFiniteSet(ranks) /\ Cardinality(ranks) = Cardinality(S)
    BY <1>1, FS_Interval
  <2>2. IsFiniteSet(others) /\ Cardinality(others) = Cardinality(S) - 1
    BY <2>1, FS_RemoveElement, ZenonT(60)
  <2>3. rank \in [S -> others]
    BY <1>4
  <2> HIDE DEF rank, others
  <2>4. Cardinality(others) < Cardinality(S)
    BY <1>1, <2>2
  <2>5. \E i, j \in S : i # j /\ rank[i] = rank[j]
    BY <1>1, <2>2, <2>3, <2>4, FS_PigeonHole
  <2> QED
    BY <1>5, <2>5
<1>7. \E i \in S : Cardinality(S \cap 1..i) = k
  BY <1>6
<1> QED
  BY <1>7 DEF Nth

\* What is dialled has digits only, and all of a number is.
LEMMA NumeralTyped ==
  ASSUME NEW s \in Seq(STRING)
  PROVE  Numeral(s) \in Seq(Digits)
<1> DEFINE at == {i \in DOMAIN s : s[i] \in Digits}
<1>1. at \in SUBSET (1..Len(s)) /\ Len(s) \in Nat
  BY LenProperties
<1>2. IsFiniteSet(at) /\ Cardinality(at) \in Nat
  BY <1>1, PositionsAreFinite
<1>3. \A k \in 1..Cardinality(at) : Nth(at, k) \in at
  BY <1>1, NthExists
<1>4. \A k \in 1..Cardinality(at) : s[Nth(at, k)] \in Digits
  BY <1>3
<1> QED
  BY <1>2, <1>4, IsASeq DEF Numeral

LEMMA NumeralOfDigits ==
  ASSUME NEW n \in Seq(Digits)
  PROVE  Numeral(n) = n
<1> DEFINE at == {i \in DOMAIN n : n[i] \in Digits}
<1>1. Len(n) \in Nat /\ DOMAIN n = 1..Len(n) /\ \A i \in 1..Len(n) : n[i] \in Digits
  BY LenProperties, ElementOfSeq
<1>2. at = 1..Len(n) /\ Cardinality(at) = Len(n)
  <2>1. at = 1..Len(n)
    BY <1>1
  <2> QED
    BY <1>1, <2>1, CountTo
<1>3. ASSUME NEW k \in 1..Len(n)
      PROVE  Nth(at, k) = k
  <2>1. Nth(at, k) \in at /\ Cardinality(at \cap 1..Nth(at, k)) = k
    BY <1>1, <1>2, NthExists
  <2>2. Nth(at, k) \in 1..Len(n)
    BY <1>2, <2>1
  <2>3. at \cap 1..Nth(at, k) = 1..Nth(at, k)
    <3> HIDE DEF at
    <3>1. PICK last \in 1..Len(n) : last = Nth(at, k)
      BY <2>2
    <3>2. 1..Len(n) \cap 1..last = 1..last
      BY <1>1
    <3> QED
      BY <1>2, <3>1, <3>2
  <2>4. Cardinality(1..Nth(at, k)) = Nth(at, k)
    BY <2>2, <1>1, CountTo
  <2> QED
    BY <2>1, <2>3, <2>4
<1>4. Numeral(n) = [k \in 1..Len(n) |-> n[k]]
  BY <1>2, <1>3 DEF Numeral
<1> QED
  BY <1>1, <1>4, LenProperties

-----------------------------------------------------------------------------
(* Trimming.                                                               *)

\* What is left by trimming is a text, and empty only if nothing was seen.
LEMMA TrimmedTyped ==
  ASSUME NEW s \in Seq(STRING)
  PROVE  Trimmed(s) \in Seq(STRING)
<1> DEFINE kept == {i \in DOMAIN s : s[i] \notin AsciiWhitespace}
<1>1. Len(s) \in Nat /\ DOMAIN s = 1..Len(s) /\ \A i \in 1..Len(s) : s[i] \in STRING
  BY LenProperties, ElementOfSeq
<1>2. CASE kept = {}
  BY <1>2, EmptySeq DEF Trimmed
<1>3. CASE kept # {}
  <2>1. kept \in SUBSET (1..Len(s))
    BY <1>1
  <2>2. Min(kept) \in 1..Len(s) /\ Max(kept) \in 1..Len(s)
    <3> HIDE DEF kept
    <3>1. Min(kept) \in kept /\ Max(kept) \in kept
      BY <1>1, <1>3, <2>1, Extremes
    <3> QED
      BY <2>1, <3>1
  <2>3. Trimmed(s) = SubSeq(s, Min(kept), Max(kept))
    BY <1>3 DEF Trimmed
  <2> HIDE DEF kept
  <2>4. PICK first \in 1..Len(s), last \in 1..Len(s) : first = Min(kept) /\ last = Max(kept)
    BY <2>2
  <2>5. \A i \in first..last : s[i] \in STRING
    BY <1>1
  <2>6. SubSeq(s, first, last) \in Seq(STRING)
    BY <1>1, <2>5, SubSeqProperties
  <2> QED
    BY <2>3, <2>4, <2>6
<1> QED
  BY <1>2, <1>3

\* A text without blanks is its own trimming.
LEMMA NothingToTrim ==
  ASSUME NEW s \in Seq(STRING), \A i \in DOMAIN s : s[i] \notin AsciiWhitespace
  PROVE  Trimmed(s) = s
<1> DEFINE kept == {i \in DOMAIN s : s[i] \notin AsciiWhitespace}
<1>1. kept = DOMAIN s /\ DOMAIN s = 1..Len(s) /\ Len(s) \in Nat
  BY LenProperties
<1>2. CASE kept = {}
  <2>1. s = <<>>
    BY <1>1, <1>2, EmptySeq
  <2> QED
    BY <1>2, <2>1 DEF Trimmed
<1>3. CASE kept # {}
  <2>1. Trimmed(s) = SubSeq(s, Min(kept), Max(kept))
    BY <1>3 DEF Trimmed
  <2> HIDE DEF kept
  <2>2. kept = 1..Len(s)
    BY <1>1
  <2>3. /\ Min(kept) \in kept /\ \A i \in kept : Min(kept) <= i
        /\ Max(kept) \in kept /\ \A i \in kept : i <= Max(kept)
    BY <1>1, <1>3, <2>2, Extremes
  <2>4. Min(kept) = 1 /\ Max(kept) = Len(s)
    BY <1>1, <2>2, <2>3
  <2>5. SubSeq(s, 1, Len(s)) = s
    BY SubSeqFull
  <2> QED
    BY <2>1, <2>4, <2>5
<1> QED
  BY <1>2, <1>3

-----------------------------------------------------------------------------
(* Addresses.                                                              *)

\* Folding changes capitals only, and no sign that an address is read by.
LEMMA FoldKeepsSigns ==
  ASSUME NEW c \in STRING
  PROVE  /\ Fold(c) \in STRING \ UpperCase
         /\ Fold(c) # c => c \in UpperCase
         /\ Fold(Fold(c)) = Fold(c)
         /\ \A sign \in Invisible \cup AsciiWhitespace \cup {"@", "."} :
              Fold(c) = sign <=> c = sign
<1>1. /\ Fold("A") = "a" /\ Fold("K") = "k" /\ Fold("a") = "a" /\ Fold("k") = "k"
      /\ \A x : x \notin {"A", "K"} => Fold(x) = x
  BY DEF Fold
<1>2. CASE c = "A"
  <2>1. Fold(c) = "a" /\ Fold(Fold(c)) = "a"
    BY <1>1, <1>2
  <2>2. Fold(c) \in STRING \ UpperCase
    BY <2>1, TextAssumption DEF UpperCase
  <2>3. c \in UpperCase
    BY <1>2 DEF UpperCase
  <2>4. ASSUME NEW sign \in Invisible \cup AsciiWhitespace \cup {"@", "."}
        PROVE  Fold(c) # sign /\ c # sign
    BY <1>2, <2>1 DEF Invisible, AsciiWhitespace
  <2> QED
    BY <2>1, <2>2, <2>3, <2>4
<1>3. CASE c = "K"
  <2>1. Fold(c) = "k" /\ Fold(Fold(c)) = "k"
    BY <1>1, <1>3
  <2>2. Fold(c) \in STRING \ UpperCase
    BY <2>1, TextAssumption DEF UpperCase
  <2>3. c \in UpperCase
    BY <1>3 DEF UpperCase
  <2>4. ASSUME NEW sign \in Invisible \cup AsciiWhitespace \cup {"@", "."}
        PROVE  Fold(c) # sign /\ c # sign
    BY <1>3, <2>1 DEF Invisible, AsciiWhitespace
  <2> QED
    BY <2>1, <2>2, <2>3, <2>4
<1>4. CASE c \notin {"A", "K"}
  BY <1>1, <1>4 DEF UpperCase
<1> QED
  BY <1>2, <1>3, <1>4

\* The part behind the @ is a mail domain in the sense of IsAddress.
LEMMA DomainOfAddress ==
  ASSUME NEW t \in Seq(STRING), NEW at \in DOMAIN t
  PROVE  IsMailDomain(SubSeq(t, at + 1, Len(t)))
           <=> /\ \E dot \in at + 2 .. Len(t) - 1 : t[dot] = "."
               /\ t[at + 1] # "." /\ t[Len(t)] # "."
<1>1. Len(t) \in Nat /\ at \in 1..Len(t) /\ \A i \in 1..Len(t) : t[i] \in STRING
  BY LenProperties, ElementOfSeq
<1> DEFINE d == SubSeq(t, at + 1, Len(t))
<1>2. /\ d \in Seq(STRING)
      /\ Len(d) = Len(t) - at
      /\ \A i \in 1 .. Len(t) - at : d[i] = t[at + i]
  <2>1. \A i \in at + 1 .. Len(t) : t[i] \in STRING
    BY <1>1
  <2>2. /\ d \in Seq(STRING)
        /\ Len(d) = IF at + 1 <= Len(t) THEN Len(t) - (at + 1) + 1 ELSE 0
        /\ \A i \in 1 .. Len(t) - (at + 1) + 1 : d[i] = t[(at + 1) + i - 1]
    BY <1>1, <2>1, SubSeqProperties
  <2>3. Len(d) = Len(t) - at
    BY <1>1, <2>2
  <2>4. ASSUME NEW i \in 1 .. Len(t) - at PROVE d[i] = t[at + i]
    <3>1. i \in 1 .. Len(t) - (at + 1) + 1 /\ (at + 1) + i - 1 = at + i
      BY <1>1
    <3> QED
      BY <2>2, <3>1
  <2> QED
    BY <2>2, <2>3, <2>4
<1>3. DOMAIN d = 1 .. Len(t) - at
  BY <1>2, LenProperties
<1> HIDE DEF d
<1>4. CASE at = Len(t)
  <2>1. ~ Has(d, ".")
    BY <1>1, <1>3, <1>4 DEF Has
  <2>2. \A dot \in at + 2 .. Len(t) - 1 : FALSE
    BY <1>1, <1>4
  <2> QED
    BY <2>1, <2>2 DEF IsMailDomain, d
<1>5. CASE at < Len(t)
  <2>1. d[1] = t[at + 1] /\ d[Len(d)] = t[Len(t)]
    <3>1. 1 \in 1 .. Len(t) - at /\ Len(t) - at \in 1 .. Len(t) - at
      BY <1>1, <1>5
    <3>2. at + (Len(t) - at) = Len(t)
      BY <1>1
    <3> QED
      BY <1>2, <3>1, <3>2
  <2>2. ASSUME Has(d, "."), t[at + 1] # ".", t[Len(t)] # "."
        PROVE  \E dot \in at + 2 .. Len(t) - 1 : t[dot] = "."
    <3>1. PICK i \in 1 .. Len(t) - at : d[i] = "."
      BY <1>3, <2>2 DEF Has
    <3>2. i # 1 /\ i # Len(t) - at
      BY <1>1, <1>2, <2>1, <2>2, <3>1
    <3>3. at + i \in at + 2 .. Len(t) - 1
      BY <1>1, <3>1, <3>2
    <3> QED
      BY <1>2, <3>1, <3>3
  <2>3. ASSUME NEW dot \in at + 2 .. Len(t) - 1, t[dot] = "."
        PROVE  Has(d, ".")
    <3>1. dot - at \in 1 .. Len(t) - at /\ at + (dot - at) = dot
      BY <1>1
    <3>2. d[dot - at] = "."
      BY <1>2, <2>3, <3>1
    <3> QED
      BY <1>3, <3>1, <3>2 DEF Has
  <2> QED
    BY <2>1, <2>2, <2>3 DEF IsMailDomain, d
<1> QED
  BY <1>1, <1>4, <1>5

\* A text gets a key exactly if it is an address: the folded address.
LEMMA KeyOfEmail ==
  ASSUME NEW s \in Seq(STRING)
  PROVE  normalise_email(s) =
           IF IsAddress(Trimmed(s)) THEN AsciiFolded(Trimmed(s)) ELSE Review
<1> DEFINE t   == Trimmed(s)
           ats == {i \in DOMAIN t : t[i] = "@"}
           at  == CHOOSE i \in ats : TRUE
           plausible == /\ Cardinality(ats) = 1
                        /\ at > 1
                        /\ IsMailDomain(SubSeq(t, at + 1, Len(t)))
                        /\ \A i \in DOMAIN t : t[i] \notin Invisible
<1>1. normalise_email(s) = IF plausible THEN AsciiFolded(t) ELSE Review
  BY DEF normalise_email
<1>2. t \in Seq(STRING) /\ Len(t) \in Nat /\ DOMAIN t = 1..Len(t)
  BY TrimmedTyped, LenProperties
<1>3. IsFiniteSet(ats)
  BY <1>2, PositionsAreFinite
<1> HIDE DEF t
<1>4. ASSUME plausible PROVE IsAddress(t)
  <2>1. PICK i : ats = {i}
    <3>1. Cardinality(ats) = 1
      BY <1>4
    <3> QED
      BY <1>3, <3>1, FS_Singleton
  <2>2. at = i
    BY <2>1
  <2>3. i \in DOMAIN t /\ i > 1 /\ \A j \in DOMAIN t : t[j] = "@" <=> j = i
    BY <1>4, <2>1, <2>2
  <2>4. IsMailDomain(SubSeq(t, i + 1, Len(t)))
    BY <1>4, <2>2
  <2>5. \A j \in DOMAIN t : t[j] \notin Invisible
    BY <1>4
  <2> QED
    BY <1>2, <2>3, <2>4, <2>5, DomainOfAddress DEF IsAddress
<1>5. ASSUME IsAddress(t) PROVE plausible
  <2>1. PICK i \in DOMAIN t :
          /\ i > 1 /\ \A j \in DOMAIN t : t[j] = "@" <=> j = i
          /\ \E dot \in i + 2 .. Len(t) - 1 : t[dot] = "."
          /\ t[i + 1] # "." /\ t[Len(t)] # "."
          /\ \A j \in DOMAIN t : t[j] \notin Invisible
    BY <1>5 DEF IsAddress
  <2>2. ats = {i}
    BY <2>1
  <2>3. Cardinality(ats) = 1
    BY <2>2, FS_Singleton
  <2>4. at = i
    BY <2>2
  <2>5. IsMailDomain(SubSeq(t, i + 1, Len(t)))
    BY <1>2, <2>1, DomainOfAddress
  <2> QED
    BY <2>1, <2>3, <2>4, <2>5
<1> QED
  BY <1>1, <1>4, <1>5 DEF t

\* Folding an address gives an address, with nothing left to fold.
LEMMA FoldedAddress ==
  ASSUME NEW t \in Seq(STRING), IsAddress(t)
  PROVE  /\ AsciiFolded(t) \in Seq(STRING)
         /\ DOMAIN AsciiFolded(t) = DOMAIN t /\ Len(AsciiFolded(t)) = Len(t)
         /\ IsAddress(AsciiFolded(t))
         /\ Trimmed(AsciiFolded(t)) = AsciiFolded(t)
         /\ AsciiFolded(AsciiFolded(t)) = AsciiFolded(t)
<1> DEFINE u == AsciiFolded(t)
<1>1. Len(t) \in Nat /\ DOMAIN t = 1..Len(t) /\ \A i \in 1..Len(t) : t[i] \in STRING
  BY LenProperties, ElementOfSeq
<1>2. DOMAIN u = 1..Len(t) /\ \A i \in 1..Len(t) : u[i] = Fold(t[i])
  BY <1>1 DEF AsciiFolded
<1> HIDE DEF u
<1>3. u \in Seq(STRING) /\ Len(u) = Len(t)
  <2>1. ASSUME NEW i \in 1..Len(t) PROVE u[i] \in STRING
    <3>1. t[i] \in STRING /\ u[i] = Fold(t[i])
      BY <1>1, <1>2
    <3> QED
      BY <3>1, FoldKeepsSigns
  <2>2. u \in [1..Len(t) -> STRING]
    BY <1>1, <2>1, <1>2 DEF AsciiFolded, u
  <2>3. u \in Seq(STRING)
    BY <1>1, <2>2, SeqDef
  <2> QED
    BY <1>1, <1>2, <2>3, LenProperties
<1>4. \A i \in 1..Len(t) : \A sign \in Invisible \cup AsciiWhitespace \cup {"@", "."} :
        u[i] = sign <=> t[i] = sign
  <2> TAKE i \in 1..Len(t)
  <2>1. t[i] \in STRING /\ u[i] = Fold(t[i])
    BY <1>1, <1>2
  <2> QED
    BY <2>1, FoldKeepsSigns
<1>5. PICK at \in 1..Len(t) :
        /\ at > 1 /\ \A i \in 1..Len(t) : t[i] = "@" <=> i = at
        /\ \E dot \in at + 2 .. Len(t) - 1 : t[dot] = "."
        /\ t[at + 1] # "." /\ t[Len(t)] # "."
        /\ \A i \in 1..Len(t) : t[i] \notin Invisible
  BY <1>1 DEF IsAddress
<1>6. PICK dot \in at + 2 .. Len(t) - 1 : t[dot] = "."
  BY <1>5
<1>7. at + 1 \in 1..Len(t) /\ Len(t) \in 1..Len(t) /\ dot \in 1..Len(t)
  BY <1>1, <1>5, <1>6
<1>8. /\ \A i \in 1..Len(t) : u[i] = "@" <=> i = at
      /\ u[dot] = "." /\ u[at + 1] # "." /\ u[Len(t)] # "."
  BY <1>4, <1>5, <1>6, <1>7
<1>9. \A i \in 1..Len(t) : u[i] \notin Invisible
  BY <1>4, <1>5
<1>10. IsAddress(u)
  BY <1>2, <1>3, <1>5, <1>6, <1>8, <1>9, SMTT(60) DEF IsAddress
<1>11. Trimmed(u) = u
  <2>1. \A i \in DOMAIN u : u[i] \notin AsciiWhitespace
    BY <1>2, <1>9 DEF AsciiWhitespace, Invisible
  <2> QED
    BY <1>3, <2>1, NothingToTrim
<1>12. AsciiFolded(u) = u
  <2>1. \A i \in 1..Len(t) : Fold(u[i]) = u[i]
    BY <1>1, <1>2, FoldKeepsSigns
  <2>2. AsciiFolded(u) = [i \in 1..Len(t) |-> u[i]]
    BY <1>2, <2>1 DEF AsciiFolded
  <2> QED
    BY <1>1, <1>2, <1>3, <2>2, LenProperties
<1> QED
  BY <1>1, <1>2, <1>3, <1>10, <1>11, <1>12 DEF u

\* The key of an address is the key of that key.
LEMMA EmailKeySurvives ==
  ASSUME NEW s \in Seq(STRING), normalise_email(s) # Review
  PROVE  normalise_email(normalise_email(s)) = normalise_email(s)
<1>1. Trimmed(s) \in Seq(STRING)
  BY TrimmedTyped
<1>2. IsAddress(Trimmed(s)) /\ normalise_email(s) = AsciiFolded(Trimmed(s))
  BY KeyOfEmail
<1>3. PICK u : u = AsciiFolded(Trimmed(s))
  OBVIOUS
<1>4. u \in Seq(STRING) /\ IsAddress(u) /\ Trimmed(u) = u /\ AsciiFolded(u) = u
  BY <1>1, <1>2, <1>3, FoldedAddress
<1>5. normalise_email(u) = u
  BY <1>4, KeyOfEmail
<1> QED
  BY <1>2, <1>3, <1>5

\* Addresses get keys, nothing else does, and a key differs in capitals only.
LEMMA EmailKeyIsTheReading ==
  ASSUME NEW s \in Seq(STRING)
  PROVE  LET t == Trimmed(s)
             key == normalise_email(s)
         IN  /\ key = Review <=> ~IsAddress(t)
             /\ key # Review => /\ Len(key) = Len(t)
                                /\ \A i \in DOMAIN t :
                                     /\ t[i] # key[i] => t[i] \in UpperCase
                                     /\ key[i] \notin UpperCase
<1> DEFINE t == Trimmed(s)
           key == normalise_email(s)
<1>1. t \in Seq(STRING) /\ \A i \in DOMAIN t : t[i] \in STRING
  BY TrimmedTyped, LenProperties, ElementOfSeq
<1>2. key = IF IsAddress(t) THEN AsciiFolded(t) ELSE Review
  BY KeyOfEmail
<1> HIDE DEF t, key
<1>3. ASSUME IsAddress(t)
      PROVE  /\ key # Review /\ Len(key) = Len(t)
             /\ \A i \in DOMAIN t : key[i] = Fold(t[i])
  <2>1. AsciiFolded(t) \in Seq(STRING) /\ Len(AsciiFolded(t)) = Len(t)
    BY <1>1, <1>3, FoldedAddress
  <2>2. \A i \in DOMAIN t : AsciiFolded(t)[i] = Fold(t[i])
    BY DEF AsciiFolded
  <2>3. key = AsciiFolded(t)
    BY <1>2, <1>3
  <2> QED
    BY <2>1, <2>2, <2>3, TextAssumption
<1>4. ~IsAddress(t) => key = Review
  BY <1>2
<1>5. \A i \in DOMAIN t : Fold(t[i]) \notin UpperCase /\ (t[i] # Fold(t[i]) => t[i] \in UpperCase)
  BY <1>1, FoldKeepsSigns
<1>6. key = Review <=> ~IsAddress(t)
  BY <1>3, <1>4
<1>7. ASSUME key # Review
      PROVE  /\ Len(key) = Len(t)
             /\ \A i \in DOMAIN t : /\ t[i] # key[i] => t[i] \in UpperCase
                                    /\ key[i] \notin UpperCase
  BY <1>3, <1>4, <1>5, <1>7
<1> QED
  BY <1>6, <1>7 DEF t, key

-----------------------------------------------------------------------------
(* Joining texts.                                                          *)

LEMMA Single ==
  ASSUME NEW S, NEW x \in S
  PROVE  <<x>> \in Seq(S) /\ Len(<<x>>) = 1 /\ <<x>>[1] = x
  OBVIOUS

LEMMA Joined ==
  ASSUME NEW S, NEW p \in Seq(S), NEW q \in Seq(S), NEW j, j = p \o q
  PROVE  /\ j \in Seq(S)
         /\ Len(j) = Len(p) + Len(q)
         /\ \A i \in 1..Len(p) : j[i] = p[i]
         /\ \A i \in 1..Len(q) : j[Len(p) + i] = q[i]
<1>1. Len(p) \in Nat /\ Len(q) \in Nat
  BY LenProperties
<1>2. /\ j \in Seq(S) /\ Len(j) = Len(p) + Len(q)
      /\ \A i \in 1 .. Len(p) + Len(q) : j[i] = IF i <= Len(p) THEN p[i] ELSE q[i - Len(p)]
  BY ConcatProperties
<1>3. ASSUME NEW i \in 1..Len(p) PROVE j[i] = p[i]
  BY <1>1, <1>2
<1>4. ASSUME NEW i \in 1..Len(q) PROVE j[Len(p) + i] = q[i]
  <2>1. /\ Len(p) + i \in 1 .. Len(p) + Len(q)
        /\ ~(Len(p) + i <= Len(p)) /\ (Len(p) + i) - Len(p) = i
    BY <1>1
  <2> QED
    BY <1>2, <2>1
<1> QED
  BY <1>2, <1>3, <1>4

-----------------------------------------------------------------------------
(* Keys of events.                                                         *)

\* The text j is p, a bar, and q.
Splits(j, p, q) ==
  /\ Len(j) = Len(p) + 1 + Len(q)
  /\ \A i \in 1..Len(p) : j[i] = p[i]
  /\ j[Len(p) + 1] = Bar
  /\ \A i \in 1..Len(q) : j[Len(p) + 1 + i] = q[i]

LEMMA AroundBar ==
  ASSUME NEW p \in Seq(STRING), NEW q \in Seq(STRING)
  PROVE  /\ p \o <<Bar>> \in Seq(STRING)
         /\ p \o <<Bar>> \o q \in Seq(STRING)
         /\ Splits(p \o <<Bar>> \o q, p, q)
<1>1. PICK bar \in Seq(STRING) : bar = <<Bar>> /\ Len(bar) = 1 /\ bar[1] = Bar
  <2>1. Bar \in STRING
    BY TextAssumption
  <2>2. <<Bar>> \in Seq(STRING) /\ Len(<<Bar>>) = 1 /\ <<Bar>>[1] = Bar
    BY <2>1, Single
  <2> QED
    BY <2>2
<1>2. Len(p) \in Nat /\ Len(q) \in Nat
  BY LenProperties
<1>3. PICK r : r = p \o bar
  OBVIOUS
<1>4. /\ r \in Seq(STRING)
      /\ Len(r) = Len(p) + Len(bar)
      /\ \A i \in 1..Len(p) : r[i] = p[i]
      /\ \A i \in 1..Len(bar) : r[Len(p) + i] = bar[i]
  BY <1>3, Joined
<1>5. r[Len(p) + 1] = Bar /\ Len(r) = Len(p) + 1
  BY <1>1, <1>4
<1>6. PICK j : j = r \o q
  OBVIOUS
<1>7. r \in Seq(STRING)
  BY <1>4
<1>8. /\ j \in Seq(STRING)
      /\ Len(j) = Len(r) + Len(q)
      /\ \A i \in 1..Len(r) : j[i] = r[i]
      /\ \A i \in 1..Len(q) : j[Len(r) + i] = q[i]
  BY <1>6, <1>7, Joined
<1>9. Len(p) + 1 \in 1..Len(r) /\ \A i \in 1..Len(p) : i \in 1..Len(r)
  BY <1>2, <1>5
<1>10. Splits(j, p, q)
  BY <1>4, <1>5, <1>8, <1>9 DEF Splits
<1> QED
  BY <1>1, <1>3, <1>6, <1>7, <1>8, <1>10

\* The part before the first bar and the one after it can be told apart, and
\* so can the parts around the last bar.
LEMMA FirstBar ==
  ASSUME NEW a \in Seq(STRING), NEW b \in Seq(STRING),
         NEW x \in Seq(STRING), NEW y \in Seq(STRING),
         ~Has(a, Bar), ~Has(b, Bar), a \o <<Bar>> \o x = b \o <<Bar>> \o y
  PROVE  a = b /\ x = y
<1>1. PICK j : Splits(j, a, x) /\ Splits(j, b, y)
  BY AroundBar
<1>2. ASSUME NEW p \in Seq(STRING), NEW q \in Seq(STRING), NEW v, NEW w,
             ~Has(q, Bar), Splits(j, p, v), Splits(j, q, w)
      PROVE  ~(Len(p) < Len(q))
  <2> SUFFICES ASSUME Len(p) < Len(q) PROVE FALSE
    OBVIOUS
  <2>1. Len(p) \in Nat /\ Len(q) \in Nat /\ DOMAIN q = 1..Len(q)
    BY LenProperties
  <2>2. Len(p) + 1 \in 1..Len(q)
    BY <2>1
  <2>3. q[Len(p) + 1] = Bar
    BY <1>2, <2>2 DEF Splits
  <2> QED
    BY <1>2, <2>1, <2>2, <2>3 DEF Has
<1>3. Len(a) \in Nat /\ Len(b) \in Nat
  BY LenProperties
<1>4. ~(Len(a) < Len(b)) /\ ~(Len(b) < Len(a))
  BY <1>1, <1>2
<1>5. Len(a) = Len(b)
  BY <1>3, <1>4
<1>6. a = b
  <2>1. \A i \in 1..Len(a) : a[i] = b[i]
    BY <1>1, <1>5 DEF Splits
  <2> QED
    BY <1>5, <2>1, SeqEqual
<1>7. x = y
  <2>1. PICK r \in Seq(STRING) : r = a \o <<Bar>>
    BY AroundBar
  <2>2. r \o x = r \o y
    BY <1>6, <2>1
  <2> QED
    BY <2>2, ConcatSimplifications
<1> QED
  BY <1>6, <1>7

LEMMA LastBar ==
  ASSUME NEW a \in Seq(STRING), NEW b \in Seq(STRING),
         NEW x \in Seq(STRING), NEW y \in Seq(STRING),
         ~Has(a, Bar), ~Has(b, Bar), x \o <<Bar>> \o a = y \o <<Bar>> \o b
  PROVE  a = b /\ x = y
<1>1. PICK j : Splits(j, x, a) /\ Splits(j, y, b)
  BY AroundBar
<1>2. ASSUME NEW p \in Seq(STRING), NEW q \in Seq(STRING),
             NEW v \in Seq(STRING), NEW w \in Seq(STRING),
             ~Has(v, Bar), Splits(j, p, v), Splits(j, q, w)
      PROVE  ~(Len(p) < Len(q))
  <2> SUFFICES ASSUME Len(p) < Len(q) PROVE FALSE
    OBVIOUS
  <2>1. /\ Len(p) \in Nat /\ Len(q) \in Nat /\ Len(v) \in Nat /\ Len(w) \in Nat
        /\ DOMAIN v = 1..Len(v)
    BY LenProperties
  <2>2. Len(p) + 1 + Len(v) = Len(q) + 1 + Len(w)
    BY <1>2 DEF Splits
  <2>3. PICK k \in 1..Len(v) : Len(p) + 1 + k = Len(q) + 1
    <3>1. Len(q) - Len(p) \in 1..Len(v) /\ Len(p) + 1 + (Len(q) - Len(p)) = Len(q) + 1
      BY <2>1, <2>2
    <3> QED
      BY <3>1
  <2>4. j[Len(p) + 1 + k] = v[k] /\ j[Len(q) + 1] = Bar
    BY <1>2 DEF Splits
  <2>5. v[k] = Bar
    BY <2>3, <2>4
  <2> QED
    BY <1>2, <2>1, <2>5 DEF Has
<1>3. Len(x) \in Nat /\ Len(y) \in Nat
  BY LenProperties
<1>4. ~(Len(x) < Len(y)) /\ ~(Len(y) < Len(x))
  BY <1>1, <1>2
<1>5. Len(x) = Len(y)
  BY <1>3, <1>4
<1>6. x = y
  <2>1. \A i \in 1..Len(x) : x[i] = y[i]
    BY <1>1, <1>5 DEF Splits
  <2> QED
    BY <1>5, <2>1, SeqEqual
<1>7. a = b
  <2>1. PICK r \in Seq(STRING) : r = x \o <<Bar>>
    BY AroundBar
  <2>2. r \o a = r \o b
    BY <1>6, <2>1
  <2> QED
    BY <2>2, ConcatSimplifications
<1> QED
  BY <1>6, <1>7

\* Facts whose type, location and time have no bar differ in their material.
LEMMA MaterialTells ==
  ASSUME NEW d \in Facts, NEW e \in Facts,
         ~Has(d.type, Bar), ~Has(d.location, Bar), ~Has(d.time, Bar),
         ~Has(e.type, Bar), ~Has(e.location, Bar), ~Has(e.time, Bar),
         Material(d) = Material(e)
  PROVE  /\ d.type = e.type /\ d.location = e.location
         /\ OrEmpty(d.resource) = OrEmpty(e.resource) /\ d.time = e.time
<1>1. ASSUME NEW f \in Facts
      PROVE  /\ f.type \in Seq(STRING) /\ f.location \in Seq(STRING)
             /\ f.time \in Seq(STRING) /\ OrEmpty(f.resource) \in Seq(STRING)
  <2>1. /\ f.type \in Seq(STRING) /\ f.location \in Seq(STRING)
        /\ f.time \in Seq(STRING) /\ f.resource \in Seq(STRING) \cup {None}
    BY TextAssumption
  <2>2. <<>> \in Seq(STRING)
    BY EmptySeq
  <2> QED
    BY <2>1, <2>2 DEF OrEmpty
<1> DEFINE Later(f) == f.location \o <<Bar>> \o OrEmpty(f.resource)
           Earlier(f) == f.type \o <<Bar>> \o f.location \o <<Bar>> \o OrEmpty(f.resource)
<1>2. ASSUME NEW f \in Facts
      PROVE  /\ Later(f) \in Seq(STRING) /\ Earlier(f) \in Seq(STRING)
             /\ Earlier(f) = f.type \o <<Bar>> \o Later(f)
             /\ Material(f) = Earlier(f) \o <<Bar>> \o f.time
  <2>1. PICK t \in Seq(STRING), l \in Seq(STRING), r \in Seq(STRING) :
          t = f.type /\ l = f.location /\ r = OrEmpty(f.resource)
    BY <1>1
  <2>2. PICK bar \in Seq(STRING) : bar = <<Bar>>
    <3>1. Bar \in STRING
      BY TextAssumption
    <3>2. <<Bar>> \in Seq(STRING)
      BY <3>1, Single
    <3> QED
      BY <3>2
  <2>3. t \o bar \in Seq(STRING) /\ l \o bar \in Seq(STRING) /\ t \o bar \o l \in Seq(STRING)
    BY ConcatProperties
  <2>4. (t \o bar \o l) \o bar = (t \o bar) \o (l \o bar)
    BY <2>3, ConcatAssociative, SMTT(60)
  <2>5. ((t \o bar) \o (l \o bar)) \o r = (t \o bar) \o ((l \o bar) \o r)
    <3>1. PICK u \in Seq(STRING), w \in Seq(STRING) : u = t \o bar /\ w = l \o bar
      BY <2>3
    <3>2. (u \o w) \o r = u \o (w \o r)
      BY ConcatAssociative, SMTT(60)
    <3> QED
      BY <3>1, <3>2
  <2>6. (l \o bar) \o r \in Seq(STRING)
    BY <2>3, ConcatProperties
  <2>7. (t \o bar) \o ((l \o bar) \o r) \in Seq(STRING)
    BY <2>3, <2>6, ConcatProperties
  <2> QED
    BY <2>1, <2>2, <2>4, <2>5, <2>6, <2>7 DEF Material
<1> HIDE DEF Later, Earlier
<1>3. Earlier(d) \o <<Bar>> \o d.time = Earlier(e) \o <<Bar>> \o e.time
  BY <1>2
<1>4. Earlier(d) = Earlier(e) /\ d.time = e.time
  <2>1. PICK x \in Seq(STRING), y \in Seq(STRING), a \in Seq(STRING), b \in Seq(STRING) :
          x = Earlier(d) /\ y = Earlier(e) /\ a = d.time /\ b = e.time
    BY <1>1, <1>2
  <2>2. ~Has(a, Bar) /\ ~Has(b, Bar) /\ x \o <<Bar>> \o a = y \o <<Bar>> \o b
    BY <1>3, <2>1
  <2>3. a = b /\ x = y
    BY <2>2, LastBar
  <2> QED
    BY <2>1, <2>3
<1>5. d.type = e.type /\ Later(d) = Later(e)
  <2>1. PICK x \in Seq(STRING), y \in Seq(STRING), a \in Seq(STRING), b \in Seq(STRING) :
          x = Later(d) /\ y = Later(e) /\ a = d.type /\ b = e.type
    BY <1>1, <1>2
  <2>2. ~Has(a, Bar) /\ ~Has(b, Bar) /\ a \o <<Bar>> \o x = b \o <<Bar>> \o y
    BY <1>2, <1>4, <2>1
  <2>3. a = b /\ x = y
    BY <2>2, FirstBar
  <2> QED
    BY <2>1, <2>3
<1>6. d.location = e.location /\ OrEmpty(d.resource) = OrEmpty(e.resource)
  <2>1. PICK x \in Seq(STRING), y \in Seq(STRING), a \in Seq(STRING), b \in Seq(STRING) :
          /\ x = OrEmpty(d.resource) /\ y = OrEmpty(e.resource)
          /\ a = d.location /\ b = e.location
    BY <1>1
  <2>2. ~Has(a, Bar) /\ ~Has(b, Bar) /\ a \o <<Bar>> \o x = b \o <<Bar>> \o y
    BY <1>5, <2>1 DEF Later
  <2>3. a = b /\ x = y
    BY <2>2, FirstBar
  <2> QED
    BY <2>1, <2>3
<1> QED
  BY <1>4, <1>5, <1>6

\* webhook.py:77-84, for any set of events: a shared key means one fact, as
\* long as no bar is in a type, a location or a time.
THEOREM EventKeysTellFactsApart == Spec => []EventKeyTellsFactsApart
<1>1. Typed => EventKeyTellsFactsApart
  <2> SUFFICES ASSUME event \in Facts, NEW other \in Facts,
                      ~Has(event.type, Bar), ~Has(event.location, Bar),
                      ~Has(event.time, Bar),
                      ~Has(other.type, Bar), ~Has(other.location, Bar),
                      ~Has(other.time, Bar),
                      event_key(event) = event_key(other)
               PROVE  /\ OrEmpty(event.id) = OrEmpty(other.id)
                      /\ OrEmpty(event.id) = <<>> =>
                           /\ event.type = other.type
                           /\ event.location = other.location
                           /\ OrEmpty(event.resource) = OrEmpty(other.resource)
                           /\ event.time = other.time
    BY DEF Typed, EventKeyTellsFactsApart
  <2>1. CASE OrEmpty(event.id) # <<>>
    BY <2>1 DEF event_key, OrEmpty
  <2>2. CASE OrEmpty(event.id) = <<>>
    <3>1. event_key(event) = <<"derived", Material(event)>>
      BY <2>2 DEF event_key
    <3>2. OrEmpty(other.id) = <<>> /\ Material(event) = Material(other)
      BY <3>1 DEF event_key
    <3> QED
      BY <2>2, <3>2, MaterialTells
  <2> QED
    BY <2>1, <2>2
<1> QED
  BY <1>1, StaysTyped, PTL


-----------------------------------------------------------------------------
(* Numbers.                                                                *)

\* The digits of a full number, and its key.
FullNumber(k) ==
  k \in Seq(Digits) /\ k # <<>> /\ k[1] # "0" /\ Len(k) \in E164Min..E164Max

Key(k) == <<"+">> \o k

LEMMA DigitsAreSigns ==
  ASSUME NEW k \in Seq(Digits)
  PROVE  k \in Seq(STRING)
<1>1. Digits \subseteq STRING
  BY TextAssumption
<1> QED
  BY <1>1, SeqMonotonic

\* A key starts with its plus and tells its number.
LEMMA KeyOfNumber ==
  ASSUME NEW k \in Seq(Digits)
  PROVE  /\ Key(k) \in Seq(STRING) /\ Key(k) # <<>> /\ Key(k) # Review
         /\ Key(k)[1] = "+" /\ Tail(Key(k)) = k
         /\ \A i \in DOMAIN Key(k) : Key(k)[i] \in Digits \cup {"+"}
<1>1. PICK plus \in Seq({"+"} \cup Digits) : plus = <<"+">> /\ Len(plus) = 1 /\ plus[1] = "+"
  BY Single
<1>2. PICK j : j = plus \o k
  OBVIOUS
<1>3. k \in Seq({"+"} \cup Digits) /\ Len(k) \in Nat
  BY SeqMonotonic, LenProperties
<1>4. /\ j \in Seq({"+"} \cup Digits)
      /\ Len(j) = Len(plus) + Len(k)
      /\ \A i \in 1..Len(plus) : j[i] = plus[i]
      /\ \A i \in 1..Len(k) : j[Len(plus) + i] = k[i]
  BY <1>2, <1>3, Joined
<1>5. Len(j) = 1 + Len(k) /\ j[1] = "+" /\ \A i \in 1..Len(k) : j[1 + i] = k[i]
  BY <1>1, <1>4
<1>6. j # <<>>
  BY <1>3, <1>5, EmptySeq
<1>7. Tail(j) = k
  <2>1. /\ Tail(j) \in Seq({"+"} \cup Digits) /\ Len(Tail(j)) = Len(j) - 1
        /\ \A i \in 1..Len(Tail(j)) : Tail(j)[i] = j[i + 1]
    BY <1>4, <1>6, HeadTailProperties
  <2>2. Len(Tail(j)) = Len(k)
    BY <1>3, <1>5, <2>1
  <2>3. ASSUME NEW i \in 1..Len(k) PROVE Tail(j)[i] = k[i]
    <3>1. i + 1 = 1 + i
      BY <1>3
    <3> QED
      BY <1>5, <2>1, <2>2, <3>1
  <2> QED
    BY <1>3, <2>1, <2>2, <2>3, SeqEqual
<1>8. j \in Seq(STRING)
  <2>1. {"+"} \cup Digits \subseteq STRING
    BY TextAssumption
  <2> QED
    BY <1>4, <2>1, SeqMonotonic
<1>9. j # Review
  BY <1>8, TextAssumption
<1>10. \A i \in DOMAIN j : j[i] \in Digits \cup {"+"}
  BY <1>4, LenProperties, ElementOfSeq
<1>11. j = Key(k)
  BY <1>1, <1>2 DEF Key
<1> QED
  BY <1>5, <1>6, <1>7, <1>8, <1>9, <1>10, <1>11

\* The key of a full number is read as itself, wherever it is dialled.
LEMMA KeyIsReadAsItself ==
  ASSUME NEW k, FullNumber(k), NEW region
  PROVE  normalise_phone(Key(k), region) = Key(k)
<1>1. k \in Seq(Digits)
  BY DEF FullNumber
<1>2. PICK u : u = Key(k)
  OBVIOUS
<1>3. /\ u \in Seq(STRING) /\ u # <<>> /\ u[1] = "+" /\ Tail(u) = k
      /\ \A i \in DOMAIN u : u[i] \in Digits \cup {"+"}
  BY <1>1, <1>2, KeyOfNumber
<1>4. Trimmed(u) = u
  <2>1. (Digits \cup {"+"}) \cap AsciiWhitespace = {}
    BY DEF Digits, AsciiWhitespace
  <2>2. \A i \in DOMAIN u : u[i] \notin AsciiWhitespace
    BY <1>3, <2>1
  <2> QED
    BY <1>3, <2>2, NothingToTrim
<1>5. Plussed(u) /\ Body(u) = k
  BY <1>3 DEF Plussed, Body
<1>6. IsDiallable(u)
  <2>1. \A i \in DOMAIN k : k[i] \in Digits
    BY <1>1, LenProperties, ElementOfSeq
  <2> QED
    BY <1>3, <1>5, <2>1 DEF IsDiallable
<1>7. Numeral(Body(u)) = k
  BY <1>1, <1>5, NumeralOfDigits
<1>8. International(k) = u
  BY <1>2 DEF International, FullNumber, Key
<1> QED
  BY <1>2, <1>4, <1>5, <1>6, <1>7, <1>8 DEF normalise_phone

\* The digits that are dialled.
LEMMA DialledDigits ==
  ASSUME NEW s \in Seq(STRING)
  PROVE  Numeral(Body(Trimmed(s))) \in Seq(Digits)
<1>1. PICK t \in Seq(STRING) : t = Trimmed(s)
  BY TrimmedTyped
<1>2. Body(t) \in Seq(STRING)
  <2>1. CASE Plussed(t)
    <3>1. t # <<>>
      BY <2>1 DEF Plussed
    <3>2. Tail(t) \in Seq(STRING)
      BY <3>1, HeadTailProperties
    <3> QED
      BY <2>1, <3>2 DEF Body
  <2>2. CASE ~Plussed(t)
    BY <2>2 DEF Body
  <2> QED
    BY <2>1, <2>2
<1> QED
  BY <1>1, <1>2, NumeralTyped

-----------------------------------------------------------------------------
(* National numbers.                                                       *)

\* A text with the prefix p is p and what follows it.
LEMMA AfterPrefix ==
  ASSUME NEW p \in Seq(Digits), NEW k \in Seq(Digits), IsPrefix(p, k)
  PROVE  \E m \in Seq(Digits) :
           m = SubSeq(k, Len(p) + 1, Len(k)) /\ k = p \o m /\ Len(k) = Len(p) + Len(m)
<1>1. Len(p) \in Nat /\ Len(k) \in Nat /\ Len(p) <= Len(k)
  BY LenProperties DEF IsPrefix
<1>2. SubSeq(k, 1, Len(p)) = p
  <2>1. SubSeq(p, 1, Len(p)) = p
    BY SubSeqFull
  <2> QED
    BY <2>1 DEF IsPrefix
<1>3. PICK m : m = SubSeq(k, Len(p) + 1, Len(k))
  OBVIOUS
<1>4. SubSeq(k, 1, Len(p)) \o SubSeq(k, Len(p) + 1, Len(k)) = SubSeq(k, 1, Len(k))
  <2>1. 1 \in 1 .. Len(k) + 1 /\ Len(p) \in 1 - 1 .. Len(k) /\ Len(k) \in Len(p) .. Len(k)
    BY <1>1
  <2> QED
    BY <2>1, ConcatAdjacentSubSeq
<1>5. SubSeq(k, 1, Len(k)) = k
  BY SubSeqFull
<1>6. p \o m = k
  BY <1>2, <1>3, <1>4, <1>5
<1>7. m \in Seq(Digits)
  <2>1. \A i \in Len(p) + 1 .. Len(k) : k[i] \in Digits
    BY <1>1, ElementOfSeq
  <2> QED
    BY <1>1, <1>3, <2>1, SubSeqProperties
<1>8. Len(k) = Len(p) + Len(m)
  BY <1>6, <1>7, Joined
<1> QED
  BY <1>3, <1>6, <1>7, <1>8

LEMMA PrefixOfJoin ==
  ASSUME NEW p \in Seq(Digits), NEW m \in Seq(Digits), NEW k, k = p \o m
  PROVE  /\ k \in Seq(Digits) /\ Len(k) = Len(p) + Len(m)
         /\ IsPrefix(p, k) /\ SubSeq(k, Len(p) + 1, Len(k)) = m
<1>1. /\ k \in Seq(Digits) /\ Len(k) = Len(p) + Len(m)
      /\ \A i \in 1..Len(p) : k[i] = p[i]
      /\ \A i \in 1..Len(m) : k[Len(p) + i] = m[i]
  BY Joined
<1>2. Len(p) \in Nat /\ Len(m) \in Nat
  BY LenProperties
<1>3. SubSeq(k, 1, Len(p)) = SubSeq(p, 1, Len(p))
  <2>1. \A i \in 1..Len(p) : k[i] \in Digits
    BY <1>1, ElementOfSeq
  <2>2. PICK f : f = SubSeq(k, 1, Len(p))
    OBVIOUS
  <2>3. /\ f \in Seq(Digits)
        /\ Len(f) = IF 1 <= Len(p) THEN Len(p) - 1 + 1 ELSE 0
        /\ \A i \in 1 .. Len(p) - 1 + 1 : f[i] = k[1 + i - 1]
    BY <1>2, <2>1, <2>2, SubSeqProperties
  <2>4. Len(f) = Len(p)
    BY <1>2, <2>3
  <2>5. ASSUME NEW i \in 1..Len(p) PROVE f[i] = p[i]
    <3>1. i \in 1 .. Len(p) - 1 + 1 /\ 1 + i - 1 = i
      BY <1>2
    <3>2. f[i] = k[i]
      BY <2>3, <3>1
    <3> QED
      BY <1>1, <3>2
  <2>6. f = p
    BY <2>3, <2>4, <2>5, SeqEqual
  <2> QED
    BY <2>2, <2>6, SubSeqFull
<1>4. IsPrefix(p, k)
  BY <1>1, <1>2, <1>3 DEF IsPrefix
<1>5. PICK r \in Seq(Digits) : r = SubSeq(k, Len(p) + 1, Len(k)) /\ k = p \o r
  BY <1>1, <1>4, AfterPrefix
<1>6. r = m
  BY <1>5, ConcatSimplifications
<1> QED
  BY <1>1, <1>4, <1>5, <1>6

\* What the plan of a region says of the numbers in it.
LEMMA PlanOfRegion ==
  ASSUME NEW r \in Regions, NEW p, p = Plans[r]
  PROVE  /\ p.cc \in Seq(Digits) /\ Len(p.cc) \in Nat \ {0} /\ p.cc[1] # "0"
         /\ p.len \in Nat \ {0} /\ p.trunk \in BOOLEAN /\ p.mobile \in BOOLEAN
         /\ p.mobile => Len(p.cc) # 1 /\ ~p.trunk /\ p.len >= 2
         /\ NationalLengths(p) = {p.len} \cup (IF p.mobile THEN {p.len + 1} ELSE {})
         /\ \A n \in NationalLengths(p) : Len(p.cc) + n \in E164Min..E164Max
<1>1. /\ p.cc \in Seq(Digits) /\ p.cc # <<>> /\ p.cc[1] # "0"
      /\ p.len \in Nat \ {0} /\ {p.trunk, p.mobile} \subseteq BOOLEAN
      /\ p.mobile => p.len >= 2
      /\ \A n \in NationalLengths(p) : Len(p.cc) + n \in E164Min..E164Max
      /\ p.mobile => Len(p.cc) > 1 /\ ~p.trunk
  BY PlanAssumption
<1>2. Len(p.cc) \in Nat \ {0}
  BY <1>1, EmptySeq
<1>3. Len(p.cc) > 1 => Len(p.cc) # 1
  <2>1. PICK c \in Nat : c = Len(p.cc)
    BY <1>2
  <2>2. c > 1 => c # 1
    OBVIOUS
  <2> QED
    BY <2>1, <2>2, Zenon
<1>4. p.mobile => Len(p.cc) # 1
  BY <1>1, <1>3, Zenon
<1> QED
  BY <1>1, <1>2, <1>4 DEF NationalLengths

\* A country code and a national number of the right length are a full number.
LEMMA CodeAndNational ==
  ASSUME NEW r \in Regions, NEW p, p = Plans[r],
         NEW m \in Seq(Digits), Len(m) \in NationalLengths(p), NEW k, k = p.cc \o m
  PROVE  FullNumber(k) /\ Len(k) = Len(p.cc) + Len(m)
<1>1. /\ p.cc \in Seq(Digits) /\ Len(p.cc) \in Nat \ {0} /\ p.cc[1] # "0"
      /\ Len(p.cc) + Len(m) \in E164Min..E164Max
  BY PlanOfRegion
<1>2. PICK cc \in Seq(Digits) : cc = p.cc
  BY <1>1
<1>3. /\ k \in Seq(Digits) /\ Len(k) = Len(cc) + Len(m)
      /\ \A i \in 1..Len(cc) : k[i] = cc[i]
  BY <1>2, Joined
<1>4. 1 \in 1..Len(cc) /\ Len(m) \in Nat
  BY <1>1, <1>2, LenProperties
<1>5. k[1] # "0"
  BY <1>1, <1>2, <1>3, <1>4
<1>6. k # <<>>
  BY <1>1, <1>2, <1>3, <1>4, EmptySeq
<1> QED
  BY <1>1, <1>2, <1>3, <1>5, <1>6 DEF FullNumber

\* The digits n are a way to write the full number k at home.
WritesAtHome(n, k, p) ==
  \E length \in NationalLengths(p) :
    /\ IsPrefix(p.cc, k) /\ Len(k) = Len(p.cc) + length
    /\ LET m == SubSeq(k, Len(p.cc) + 1, Len(k))
       IN  \/ n = m /\ (length # p.len => m[3] = "9")
           \/ n = k /\ length = p.len
           \/ n = <<"0">> \o m /\ length = p.len /\ p.trunk

\* The same of the national number m: as it is, with its code, with its zero.
AsNational(n, m, p)    == n = m /\ (Len(m) # p.len => m[3] = "9")
WithCode(n, m, p)      == n = p.cc \o m /\ Len(m) = p.len
WithTrunkZero(n, m, p) == n = <<"0">> \o m /\ Len(m) = p.len /\ p.trunk

LEMMA HomeWriting ==
  ASSUME NEW r \in Regions, NEW p, p = Plans[r],
         NEW n \in Seq(Digits), NEW k \in Seq(Digits)
  PROVE  WritesAtHome(n, k, p) <=>
           \E m \in Seq(Digits) :
             /\ k = p.cc \o m /\ Len(m) \in NationalLengths(p)
             /\ AsNational(n, m, p) \/ WithCode(n, m, p) \/ WithTrunkZero(n, m, p)
<1>1. /\ p.cc \in Seq(Digits) /\ Len(p.cc) \in Nat /\ p.len \in Nat
      /\ NationalLengths(p) \subseteq Nat
  <2>1. /\ p.cc \in Seq(Digits) /\ Len(p.cc) \in Nat /\ p.len \in Nat
        /\ NationalLengths(p) = {p.len} \cup (IF p.mobile THEN {p.len + 1} ELSE {})
    BY PlanOfRegion
  <2>2. {p.len} \cup (IF p.mobile THEN {p.len + 1} ELSE {}) \subseteq {p.len, p.len + 1}
    BY Zenon
  <2>3. {p.len, p.len + 1} \subseteq Nat
    BY <2>1
  <2>4. NationalLengths(p) \subseteq Nat
    BY <2>1, <2>2, <2>3, Zenon
  <2> QED
    BY <2>1, <2>4
<1>2. PICK cc \in Seq(Digits) : cc = p.cc
  BY <1>1
<1>3. ASSUME WritesAtHome(n, k, p)
      PROVE  \E m \in Seq(Digits) :
               /\ k = p.cc \o m /\ Len(m) \in NationalLengths(p)
               /\ AsNational(n, m, p) \/ WithCode(n, m, p) \/ WithTrunkZero(n, m, p)
  <2>1. PICK length \in NationalLengths(p) :
          /\ IsPrefix(cc, k) /\ Len(k) = Len(cc) + length
          /\ LET m == SubSeq(k, Len(cc) + 1, Len(k))
             IN  \/ n = m /\ (length # p.len => m[3] = "9")
                 \/ n = k /\ length = p.len
                 \/ n = <<"0">> \o m /\ length = p.len /\ p.trunk
    BY <1>2, <1>3 DEF WritesAtHome
  <2>2. PICK m \in Seq(Digits) :
          m = SubSeq(k, Len(cc) + 1, Len(k)) /\ k = cc \o m /\ Len(k) = Len(cc) + Len(m)
    BY <2>1, AfterPrefix
  <2>3. Len(m) = length
    <3>1. Len(k) = Len(cc) + length /\ Len(k) = Len(cc) + Len(m)
      BY <2>1, <2>2
    <3>2. Len(cc) \in Nat /\ Len(m) \in Nat /\ length \in Nat
      BY <1>1, LenProperties
    <3> QED
      BY <3>1, <3>2
  <2>4. \/ n = m /\ (length # p.len => m[3] = "9")
        \/ n = k /\ length = p.len
        \/ n = <<"0">> \o m /\ length = p.len /\ p.trunk
    BY <2>1, <2>2
  <2>5. AsNational(n, m, p) \/ WithCode(n, m, p) \/ WithTrunkZero(n, m, p)
    BY <1>2, <2>2, <2>3, <2>4 DEF AsNational, WithCode, WithTrunkZero
  <2> QED
    BY <1>2, <2>2, <2>3, <2>5
<1>4. ASSUME NEW m \in Seq(Digits), k = p.cc \o m, Len(m) \in NationalLengths(p),
             AsNational(n, m, p) \/ WithCode(n, m, p) \/ WithTrunkZero(n, m, p)
      PROVE  WritesAtHome(n, k, p)
  <2>1. /\ Len(k) = Len(cc) + Len(m)
        /\ IsPrefix(cc, k) /\ SubSeq(k, Len(cc) + 1, Len(k)) = m
    <3>1. k = cc \o m
      BY <1>2, <1>4
    <3>2. Len(k) = Len(cc) + Len(m)
      BY <3>1, PrefixOfJoin
    <3>3. IsPrefix(cc, k)
      BY <3>1, PrefixOfJoin, Zenon
    <3>4. SubSeq(k, Len(cc) + 1, Len(k)) = m
      BY <3>1, PrefixOfJoin
    <3> QED
      BY <3>2, <3>3, <3>4
  <2>2. \/ n = m /\ (Len(m) # p.len => m[3] = "9")
        \/ n = k /\ Len(m) = p.len
        \/ n = <<"0">> \o m /\ Len(m) = p.len /\ p.trunk
    BY <1>4 DEF AsNational, WithCode, WithTrunkZero
  <2> QED
    BY <1>2, <1>4, <2>1, <2>2 DEF WritesAtHome
<1> QED
  BY <1>3, <1>4

\* The trunk zero before a national number is the zero that is dropped.
LEMMA TrunkZero ==
  ASSUME NEW m \in Seq(Digits), NEW n, n = <<"0">> \o m
  PROVE  /\ n \in Seq(Digits) /\ n # <<>> /\ n[1] = "0"
         /\ Len(n) = Len(m) + 1 /\ Tail(n) = m
<1>1. "0" \in Digits
  BY DEF Digits
<1>2. PICK z \in Seq(Digits) : z = <<"0">> /\ Len(z) = 1 /\ z[1] = "0"
  BY <1>1, Single
<1>3. /\ n \in Seq(Digits) /\ Len(n) = Len(z) + Len(m)
      /\ \A i \in 1..Len(z) : n[i] = z[i]
      /\ \A i \in 1..Len(m) : n[Len(z) + i] = m[i]
  BY <1>2, Joined
<1>4. Len(m) \in Nat
  BY LenProperties
<1>5. Len(n) = Len(m) + 1 /\ n[1] = "0" /\ n # <<>>
  BY <1>2, <1>3, <1>4, EmptySeq
<1>6. /\ Tail(n) \in Seq(Digits) /\ Len(Tail(n)) = Len(n) - 1
      /\ \A i \in 1..Len(Tail(n)) : Tail(n)[i] = n[i + 1]
  BY <1>3, <1>5, HeadTailProperties
<1>7. Len(Tail(n)) = Len(m)
  BY <1>4, <1>5, <1>6
<1>8. ASSUME NEW i \in 1..Len(m) PROVE Tail(n)[i] = m[i]
  <2>1. i + 1 = 1 + i
    BY <1>4
  <2> QED
    BY <1>2, <1>3, <1>6, <1>7, <2>1
<1>9. Tail(n) = m
  BY <1>6, <1>7, <1>8, SeqEqual
<1> QED
  BY <1>3, <1>5, <1>9

LEMMA DroppedZero ==
  ASSUME NEW n \in Seq(Digits), n # <<>>, n[1] = "0"
  PROVE  n = <<"0">> \o Tail(n) /\ Tail(n) \in Seq(Digits) /\ Len(n) = Len(Tail(n)) + 1
<1>1. PICK m \in Seq(Digits) : m = Tail(n)
  BY HeadTailProperties
<1>2. PICK l : l = <<"0">> \o m
  OBVIOUS
<1>3. /\ Len(m) = Len(n) - 1
      /\ \A i \in 1..Len(m) : m[i] = n[i + 1]
  BY <1>1, HeadTailProperties
<1>4. l \in Seq(Digits) /\ Len(l) = Len(m) + 1 /\ l[1] = "0" /\ Tail(l) = m /\ l # <<>>
  BY <1>2, TrunkZero
<1>5. \A i \in 1..Len(m) : m[i] = l[i + 1]
  BY <1>4, HeadTailProperties
<1>6. Len(n) \in Nat /\ Len(m) \in Nat
  BY LenProperties
<1>7. Len(l) = Len(n)
  BY <1>3, <1>4, <1>6
<1>8. ASSUME NEW i \in 1..Len(n) PROVE n[i] = l[i]
  <2>1. CASE i = 1
    BY <1>4, <2>1
  <2>2. CASE i # 1
    <3>1. i - 1 \in 1..Len(m) /\ (i - 1) + 1 = i
      BY <1>3, <1>6, <2>2
    <3> QED
      BY <1>3, <1>5, <3>1
  <2> QED
    BY <2>1, <2>2
<1>9. n = l
  BY <1>4, <1>7, <1>8, SeqEqual
<1> QED
  BY <1>1, <1>2, <1>3, <1>6, <1>9

\* The numbers a plan knows: their lengths, and what tells a code from a 9.
LEMMA LengthsInPlan ==
  ASSUME NEW r \in Regions, NEW p, p = Plans[r]
  PROVE  \E len \in Nat, code \in Nat :
           /\ len = p.len /\ code = Len(p.cc) /\ len > 0 /\ code > 0
           /\ len \in NationalLengths(p)
           /\ p.mobile => code # 1 /\ ~p.trunk /\ len + 1 \in NationalLengths(p)
           /\ \A l \in NationalLengths(p) : l = len \/ (l = len + 1 /\ p.mobile)
<1>1. /\ Len(p.cc) \in Nat \ {0} /\ p.len \in Nat \ {0}
      /\ p.mobile => Len(p.cc) # 1 /\ ~p.trunk
      /\ NationalLengths(p) = {p.len} \cup (IF p.mobile THEN {p.len + 1} ELSE {})
  BY PlanOfRegion
<1>2. PICK len \in Nat, code \in Nat : len = p.len /\ code = Len(p.cc) /\ len > 0 /\ code > 0
  BY <1>1
<1>3. NationalLengths(p) = {len} \cup (IF p.mobile THEN {len + 1} ELSE {})
  BY <1>1, <1>2
<1>4. len \in NationalLengths(p)
  BY <1>3
<1>5. p.mobile => len + 1 \in NationalLengths(p)
  BY <1>3, Zenon
<1>6. \A l \in NationalLengths(p) : l = len \/ (l = len + 1 /\ p.mobile)
  BY <1>3, Zenon
<1>7. p.mobile => code # 1 /\ ~p.trunk
  BY <1>1, <1>2, Zenon
<1> QED
  BY <1>2, <1>4, <1>5, <1>6, <1>7, Zenon

LEMMA PlusAndCode ==
  ASSUME NEW c \in Seq(Digits), NEW m \in Seq(Digits)
  PROVE  <<"+">> \o c \o m = Key(c \o m)
<1>1. {"+"} \cup Digits \subseteq STRING
  BY TextAssumption
<1>2. PICK plus \in Seq(STRING) : plus = <<"+">>
  BY <1>1, Single
<1>3. c \in Seq(STRING) /\ m \in Seq(STRING)
  BY DigitsAreSigns
<1>4. (plus \o c) \o m = plus \o (c \o m)
  BY <1>3, ConcatAssociative, SMTT(60)
<1> QED
  BY <1>2, <1>4 DEF Key

\* However a number is written at home, its key is the full number's.
LEMMA WrittenIsRead ==
  ASSUME NEW r \in Regions, NEW p, p = Plans[r],
         NEW n \in Seq(Digits), NEW m \in Seq(Digits), Len(m) \in NationalLengths(p),
         AsNational(n, m, p) \/ WithCode(n, m, p) \/ WithTrunkZero(n, m, p)
  PROVE  National(n, p) = Key(p.cc \o m)
<1>1. PICK len \in Nat, code \in Nat :
        /\ len = p.len /\ code = Len(p.cc) /\ len > 0 /\ code > 0
        /\ len \in NationalLengths(p)
        /\ p.mobile => code # 1 /\ ~p.trunk /\ len + 1 \in NationalLengths(p)
        /\ \A l \in NationalLengths(p) : l = len \/ (l = len + 1 /\ p.mobile)
  BY LengthsInPlan, ZenonT(60)
<1>2. PICK cc \in Seq(Digits) : cc = p.cc /\ Len(cc) = code
  BY <1>1, PlanOfRegion
<1>3. <<"+">> \o p.cc \o m = Key(p.cc \o m)
  BY <1>2, PlusAndCode
<1>4. Len(m) = len \/ (Len(m) = len + 1 /\ p.mobile)
  BY <1>1, Zenon
<1>5. Len(m) \in Nat /\ Len(n) \in Nat
  BY LenProperties
<1>6. CASE AsNational(n, m, p) /\ Len(m) = len
  <2>1. n = m /\ Len(n) # p.len + 1 /\ Len(n) = p.len
    BY <1>1, <1>5, <1>6 DEF AsNational
  <2>2. DropTrunkZero(n, p) = n
    BY <2>1, Zenon DEF DropTrunkZero
  <2> QED
    BY <1>3, <2>1, <2>2, Zenon DEF National
<1>7. CASE AsNational(n, m, p) /\ Len(m) = len + 1 /\ p.mobile
  <2>1. Len(m) # p.len /\ Len(m) = p.len + 1
    BY <1>1, <1>5, <1>7
  <2>2. n = m /\ m[3] = "9"
    BY <1>7, <2>1, Zenon DEF AsNational
  <2>3. ~p.trunk
    BY <1>1, <1>7, Zenon
  <2>4. DropTrunkZero(n, p) = n
    BY <2>3, Zenon DEF DropTrunkZero
  <2> QED
    BY <1>3, <1>7, <2>1, <2>2, <2>4, Zenon DEF National
<1>8. CASE WithCode(n, m, p)
  <2>1. n = cc \o m /\ Len(m) = len
    BY <1>1, <1>2, <1>8 DEF WithCode
  <2>2. FullNumber(n) /\ Len(n) = Len(p.cc) + Len(m)
    BY <1>2, <2>1, CodeAndNational
  <2>3. Len(n) = len + code
    BY <1>1, <1>2, <2>1, <2>2
  <2>4. IsPrefix(p.cc, n)
    BY <1>2, <2>1, PrefixOfJoin, Zenon
  <2>5. n[1] # "0"
    BY <2>2 DEF FullNumber
  <2>6. DropTrunkZero(n, p) = n
    BY <2>5, Zenon DEF DropTrunkZero
  <2>7. Len(n) # len /\ (Len(n) = len + 1 => code = 1)
    <3>1. len > 0 /\ code > 0
      BY <1>1, Zenon
    <3> QED
      BY <2>3, <3>1
  <2>8. ~(p.mobile /\ Len(n) = p.len + 1)
    BY <1>1, <2>7, Zenon
  <2>9. Len(n) # p.len /\ Len(n) = p.len + Len(p.cc)
    BY <1>1, <2>3, <2>7
  <2>10. National(n, p) = <<"+">> \o n
    BY <2>4, <2>6, <2>8, <2>9, Zenon DEF National
  <2> QED
    BY <1>2, <2>1, <2>10 DEF Key
<1>9. CASE WithTrunkZero(n, m, p)
  <2>1. n = <<"0">> \o m /\ Len(m) = p.len /\ p.trunk
    BY <1>9 DEF WithTrunkZero
  <2>2. n # <<>> /\ n[1] = "0" /\ Len(n) = Len(m) + 1 /\ Tail(n) = m
    BY <2>1, TrunkZero
  <2>3. Len(n) = p.len + 1
    BY <2>1, <2>2
  <2>4. DropTrunkZero(n, p) = m
    BY <2>1, <2>2, <2>3, Zenon DEF DropTrunkZero
  <2>5. ~p.mobile
    BY <1>1, <2>1, Zenon
  <2> QED
    BY <1>3, <2>1, <2>4, <2>5, Zenon DEF National
<1> QED
  BY <1>4, <1>6, <1>7, <1>8, <1>9, Zenon

\* What is read at home was written so.
LEMMA ReadIsWritten ==
  ASSUME NEW r \in Regions, NEW p, p = Plans[r],
         NEW n \in Seq(Digits), National(n, p) # Review
  PROVE  \E m \in Seq(Digits) :
           /\ National(n, p) = Key(p.cc \o m) /\ Len(m) \in NationalLengths(p)
           /\ AsNational(n, m, p) \/ WithCode(n, m, p) \/ WithTrunkZero(n, m, p)
<1>1. PICK len \in Nat, code \in Nat :
        /\ len = p.len /\ code = Len(p.cc) /\ len > 0 /\ code > 0
        /\ len \in NationalLengths(p)
        /\ p.mobile => code # 1 /\ ~p.trunk /\ len + 1 \in NationalLengths(p)
        /\ \A l \in NationalLengths(p) : l = len \/ (l = len + 1 /\ p.mobile)
  BY LengthsInPlan, Zenon
<1>2. PICK cc \in Seq(Digits) : cc = p.cc /\ Len(cc) = code
  BY <1>1, PlanOfRegion
<1>3. PICK d : d = DropTrunkZero(n, p)
  OBVIOUS
<1>4. \/ d = n
      \/ p.trunk /\ n # <<>> /\ n[1] = "0" /\ Len(n) = p.len + 1 /\ d = Tail(n)
  BY <1>3, Zenon DEF DropTrunkZero
<1>5. Len(n) \in Nat
  BY LenProperties
<1>6. CASE p.mobile /\ Len(d) = p.len + 1 /\ d[3] = "9"
  <2>1. d = n
    BY <1>1, <1>4, <1>6, Zenon
  <2>2. National(n, p) = <<"+">> \o p.cc \o n
    BY <1>3, <1>6, <2>1, Zenon DEF National
  <2>3. National(n, p) = Key(p.cc \o n)
    BY <1>2, <2>2, PlusAndCode
  <2>4. Len(n) \in NationalLengths(p)
    BY <1>1, <1>6, <2>1, Zenon
  <2>5. AsNational(n, n, p)
    BY <1>6, <2>1, Zenon DEF AsNational
  <2> QED
    BY <2>3, <2>4, <2>5
<1>7. CASE ~(p.mobile /\ Len(d) = p.len + 1 /\ d[3] = "9") /\ Len(d) = p.len
  <2>1. National(n, p) = <<"+">> \o p.cc \o d
    BY <1>3, <1>7, Zenon DEF National
  <2>2. Len(d) \in NationalLengths(p)
    BY <1>1, <1>7, Zenon
  <2>3. CASE d = n
    <3>1. AsNational(n, d, p)
      BY <1>7, <2>3, Zenon DEF AsNational
    <3>2. National(n, p) = Key(p.cc \o d)
      BY <1>2, <2>1, <2>3, PlusAndCode
    <3> QED
      BY <2>2, <2>3, <3>1, <3>2
  <2>4. CASE p.trunk /\ n # <<>> /\ n[1] = "0" /\ d = Tail(n)
    <3>1. n = <<"0">> \o d /\ d \in Seq(Digits)
      BY <2>4, DroppedZero
    <3>2. WithTrunkZero(n, d, p)
      BY <1>7, <2>4, <3>1, Zenon DEF WithTrunkZero
    <3>3. National(n, p) = Key(p.cc \o d)
      BY <1>2, <2>1, <3>1, PlusAndCode
    <3> QED
      BY <2>2, <3>1, <3>2, <3>3, Zenon
  <2> QED
    BY <1>4, <2>3, <2>4, Zenon
<1>8. CASE ~(p.mobile /\ Len(d) = p.len + 1 /\ d[3] = "9") /\ Len(d) # p.len
  <2>1. /\ Len(d) = p.len + Len(p.cc) /\ IsPrefix(p.cc, d)
        /\ National(n, p) = <<"+">> \o d
    BY <1>3, <1>8, Zenon DEF National
  <2>2. d = n
    <3>1. ASSUME n # <<>>, n[1] = "0", Len(n) = p.len + 1, d = Tail(n) PROVE FALSE
      <4>1. Len(n) = Len(d) + 1 /\ d \in Seq(Digits)
        BY <3>1, DroppedZero
      <4>2. Len(d) \in Nat
        BY <4>1, LenProperties
      <4>3. Len(d) = len + code /\ Len(n) = len + 1
        BY <1>1, <2>1, <3>1
      <4> QED
        BY <1>1, <4>1, <4>2, <4>3
    <3> QED
      BY <1>4, <3>1, Zenon
  <2>3. PICK m \in Seq(Digits) :
          /\ m = SubSeq(n, Len(cc) + 1, Len(n))
          /\ n = cc \o m /\ Len(n) = Len(cc) + Len(m)
    <3>1. IsPrefix(cc, n)
      BY <1>2, <2>1, <2>2
    <3> QED
      BY <3>1, AfterPrefix
  <2>4. Len(m) = len
    <3>1. Len(n) = len + code /\ Len(n) = code + Len(m) /\ Len(m) \in Nat
      BY <1>1, <1>2, <2>1, <2>2, <2>3, LenProperties
    <3> QED
      BY <3>1
  <2>5. WithCode(n, m, p)
    BY <1>1, <1>2, <2>3, <2>4 DEF WithCode
  <2>6. National(n, p) = Key(p.cc \o m)
    BY <1>2, <2>1, <2>2, <2>3 DEF Key
  <2>7. Len(m) \in NationalLengths(p)
    BY <1>1, <2>4, Zenon
  <2> QED
    BY <2>5, <2>6, <2>7, Zenon
<1> QED
  BY <1>6, <1>7, <1>8, Zenon

-----------------------------------------------------------------------------
(* Numbers as they are dialled.                                            *)

\* The international prefix is what two zeros in front are.
LEMMA TwoZeros ==
  ASSUME NEW n \in Seq(Digits), NEW k \in Seq(Digits)
  PROVE  n = <<"0", "0">> \o k <=> StartsTwoZeros(n) /\ k = SubSeq(n, 3, Len(n))
<1>1. PICK z \in Seq(Digits) : z = <<"0", "0">> /\ Len(z) = 2 /\ z[1] = "0" /\ z[2] = "0"
  <2>1. "0" \in Digits
    BY DEF Digits
  <2> DEFINE y == <<"0", "0">>
  <2>2. Len(y) = 2 /\ y[1] = "0" /\ y[2] = "0" /\ y \in [1..2 -> Digits]
    BY <2>1
  <2> HIDE DEF y
  <2>3. y \in Seq(Digits)
    BY <2>2, SeqDef
  <2> QED
    BY <2>2, <2>3 DEF y
<1>2. Len(n) \in Nat /\ Len(k) \in Nat
  BY LenProperties
<1>3. ASSUME n = z \o k
      PROVE  StartsTwoZeros(n) /\ k = SubSeq(n, 3, Len(n))
  <2>1. /\ Len(n) = 2 + Len(k)
        /\ \A i \in 1..2 : n[i] = z[i]
    BY <1>1, <1>3, Joined
  <2>2. StartsTwoZeros(n)
    BY <1>1, <1>2, <2>1 DEF StartsTwoZeros
  <2>3. SubSeq(n, Len(z) + 1, Len(n)) = k
    BY <1>3, PrefixOfJoin
  <2> QED
    BY <1>1, <2>2, <2>3
<1>4. ASSUME StartsTwoZeros(n), k = SubSeq(n, 3, Len(n))
      PROVE  n = z \o k
  <2>1. Len(n) >= 2 /\ n[1] = "0" /\ n[2] = "0"
    BY <1>4 DEF StartsTwoZeros
  <2>2. \A i \in 3 .. Len(n) : n[i] \in Digits
    BY <1>2, ElementOfSeq
  <2>3. /\ Len(k) = IF 3 <= Len(n) THEN Len(n) - 3 + 1 ELSE 0
        /\ \A i \in 1 .. Len(n) - 3 + 1 : k[i] = n[3 + i - 1]
    BY <1>2, <1>4, <2>2, SubSeqProperties
  <2>4. Len(n) = 2 + Len(k)
    <3>1. PICK length \in Nat : length = Len(n) /\ length >= 2
      BY <1>2, <2>1
    <3>2. Len(k) = IF 3 <= length THEN length - 3 + 1 ELSE 0
      BY <2>3, <3>1
    <3>3. Len(k) = length - 2
      BY <3>1, <3>2
    <3> QED
      BY <1>2, <3>1, <3>3
  <2>5. PICK j : j = z \o k
    OBVIOUS
  <2>6. /\ j \in Seq(Digits) /\ Len(j) = Len(z) + Len(k)
        /\ \A i \in 1..Len(z) : j[i] = z[i]
        /\ \A i \in 1..Len(k) : j[Len(z) + i] = k[i]
    BY <2>5, Joined
  <2>7. ASSUME NEW i \in 1..Len(n) PROVE n[i] = j[i]
    <3>1. CASE i \in {1, 2}
      BY <1>1, <2>1, <2>6, <3>1
    <3>2. CASE i > 2
      <4>1. PICK h \in 1..Len(k) : i = 2 + h
        <5>1. i - 2 \in 1..Len(k) /\ i = 2 + (i - 2)
          BY <1>2, <2>4, <3>2
        <5> QED
          BY <5>1
      <4>2. h \in 1 .. Len(n) - 3 + 1 /\ 3 + h - 1 = i
        BY <1>2, <2>4, <4>1
      <4>3. k[h] = n[i]
        BY <2>3, <4>2
      <4>4. j[2 + h] = k[h]
        BY <1>1, <2>6, <4>1
      <4> QED
        BY <4>1, <4>3, <4>4
    <3> QED
      BY <1>2, <3>1, <3>2
  <2>8. n = j
    BY <1>1, <2>4, <2>6, <2>7, SeqEqual
  <2> QED
    BY <2>5, <2>8
<1> QED
  BY <1>1, <1>3, <1>4

\* A number that a text writes is the one its key names.
LEMMA WhatIsWrittenIsRead ==
  ASSUME NEW s \in Seq(STRING), NEW region, NEW k, FullNumber(k),
         IsDiallable(Trimmed(s)), Writes(s, k, region)
  PROVE  normalise_phone(s, region) = Key(k)
<1>1. PICK t \in Seq(STRING), n \in Seq(Digits) : t = Trimmed(s) /\ n = Numeral(Body(t))
  BY TrimmedTyped, DialledDigits
<1>2. k \in Seq(Digits)
  BY DEF FullNumber
<1>3. International(k) = Key(k)
  BY DEF International, FullNumber, Key
<1>4. normalise_phone(s, region) =
        IF Plussed(t) THEN International(n)
        ELSE IF StartsTwoZeros(n) THEN International(SubSeq(n, 3, Len(n)))
        ELSE IF region \in Regions THEN National(n, Plans[region]) ELSE Review
  BY <1>1 DEF normalise_phone
<1>5. \/ Plussed(t) /\ n = k
      \/ ~Plussed(t) /\ n = <<"0", "0">> \o k
      \/ /\ ~Plussed(t) /\ ~StartsTwoZeros(n) /\ region \in Regions
         /\ WritesAtHome(n, k, Plans[region])
  BY <1>1 DEF Writes, WritesAtHome
<1>6. CASE Plussed(t) /\ n = k
  BY <1>3, <1>4, <1>6
<1>7. CASE ~Plussed(t) /\ n = <<"0", "0">> \o k
  <2>1. StartsTwoZeros(n) /\ SubSeq(n, 3, Len(n)) = k
    BY <1>2, <1>7, TwoZeros
  <2> QED
    BY <1>3, <1>4, <1>7, <2>1
<1>8. CASE /\ ~Plussed(t) /\ ~StartsTwoZeros(n) /\ region \in Regions
           /\ WritesAtHome(n, k, Plans[region])
  <2>1. PICK p : p = Plans[region]
    OBVIOUS
  <2>2. PICK m \in Seq(Digits) :
          /\ k = p.cc \o m /\ Len(m) \in NationalLengths(p)
          /\ AsNational(n, m, p) \/ WithCode(n, m, p) \/ WithTrunkZero(n, m, p)
    BY <1>2, <1>8, <2>1, HomeWriting
  <2>3. National(n, p) = Key(p.cc \o m)
    BY <1>8, <2>1, <2>2, WrittenIsRead
  <2> QED
    BY <1>4, <1>8, <2>1, <2>2, <2>3
<1> QED
  BY <1>5, <1>6, <1>7, <1>8

\* The numbers that Readings looks at.
Tails(n) == {SubSeq(n, i, Len(n)) : i \in 1..3}
Candidates(n, region) ==
  Tails(n) \cup
    (IF region \in Regions THEN {Plans[region].cc \o m : m \in Tails(n)} ELSE {})

LEMMA TailsOfDigits ==
  ASSUME NEW n \in Seq(Digits)
  PROVE  /\ n \in Tails(n) /\ SubSeq(n, 2, Len(n)) \in Tails(n) /\ SubSeq(n, 3, Len(n)) \in Tails(n)
         /\ Tails(n) \subseteq Seq(Digits)
<1>1. \A i \in 1..3 : SubSeq(n, i, Len(n)) \in Tails(n)
  BY DEF Tails
<1>2. SubSeq(n, 1, Len(n)) \in Tails(n) /\ SubSeq(n, 2, Len(n)) \in Tails(n)
        /\ SubSeq(n, 3, Len(n)) \in Tails(n)
  BY <1>1
<1>3. n \in Tails(n)
  BY <1>2, SubSeqFull
<1>4. ASSUME NEW i \in 1..3
      PROVE  SubSeq(n, i, Len(n)) \in Seq(Digits)
  <2>1. Len(n) \in Int /\ i \in Int /\ \A j \in i .. Len(n) : n[j] \in Digits
    BY LenProperties, ElementOfSeq
  <2> QED
    BY <2>1, SubSeqProperties
<1> QED
  BY <1>2, <1>3, <1>4 DEF Tails

LEMMA CandidatesOfDigits ==
  ASSUME NEW n \in Seq(Digits), NEW region
  PROVE  /\ Tails(n) \subseteq Candidates(n, region)
         /\ \A m \in Tails(n) : region \in Regions =>
              Plans[region].cc \o m \in Candidates(n, region)
         /\ Candidates(n, region) \subseteq Seq(Digits)
<1>1. Tails(n) \subseteq Candidates(n, region)
  BY DEF Candidates
<1>2. ASSUME NEW m \in Tails(n), region \in Regions
      PROVE  Plans[region].cc \o m \in Candidates(n, region)
  BY <1>2 DEF Candidates
<1>3. ASSUME NEW c \in Candidates(n, region)
      PROVE  c \in Seq(Digits)
  <2>1. CASE c \in Tails(n)
    BY <2>1, TailsOfDigits
  <2>2. ASSUME NEW m \in Tails(n), region \in Regions, c = Plans[region].cc \o m
        PROVE  c \in Seq(Digits)
    <3>1. PICK cc \in Seq(Digits) : cc = Plans[region].cc
      BY <2>2, PlanOfRegion
    <3>2. m \in Seq(Digits)
      BY TailsOfDigits
    <3> QED
      BY <2>2, <3>1, <3>2, Joined
  <2> QED
    BY <2>1, <2>2 DEF Candidates
<1> QED
  BY <1>1, <1>2, <1>3

\* A key names a number that the text writes, and that Readings looks at.
LEMMA WhatIsReadIsWritten ==
  ASSUME NEW s \in Seq(STRING), NEW region, normalise_phone(s, region) # Review
  PROVE  \E k : /\ FullNumber(k) /\ normalise_phone(s, region) = Key(k)
                /\ IsDiallable(Trimmed(s)) /\ Writes(s, k, region)
                /\ k \in Candidates(Numeral(Body(Trimmed(s))), region)
<1>1. PICK t \in Seq(STRING), n \in Seq(Digits) : t = Trimmed(s) /\ n = Numeral(Body(t))
  BY TrimmedTyped, DialledDigits
<1>2. IsDiallable(t)
  BY <1>1 DEF normalise_phone
<1>3. normalise_phone(s, region) =
        IF Plussed(t) THEN International(n)
        ELSE IF StartsTwoZeros(n) THEN International(SubSeq(n, 3, Len(n)))
        ELSE IF region \in Regions THEN National(n, Plans[region]) ELSE Review
  BY <1>1, <1>2 DEF normalise_phone
<1>4. \A k \in Seq(Digits) : International(k) # Review => FullNumber(k) /\ International(k) = Key(k)
  BY DEF International, FullNumber, Key
<1>5. \A k : Writes(s, k, region) <=>
        \/ Plussed(t) /\ n = k
        \/ ~Plussed(t) /\ n = <<"0", "0">> \o k
        \/ /\ ~Plussed(t) /\ ~StartsTwoZeros(n) /\ region \in Regions
           /\ WritesAtHome(n, k, Plans[region])
  BY <1>1, ZenonT(60) DEF Writes, WritesAtHome
<1>6. /\ n \in Candidates(n, region) /\ SubSeq(n, 3, Len(n)) \in Candidates(n, region)
      /\ \A m \in {n, SubSeq(n, 2, Len(n))} : region \in Regions =>
           Plans[region].cc \o m \in Candidates(n, region)
  BY <1>1, TailsOfDigits, CandidatesOfDigits
<1>7. CASE Plussed(t)
  <2>1. FullNumber(n) /\ normalise_phone(s, region) = Key(n)
    BY <1>3, <1>4, <1>7
  <2>2. Writes(s, n, region)
    BY <1>5, <1>7
  <2> QED
    BY <1>1, <1>2, <1>6, <2>1, <2>2
<1>8. CASE ~Plussed(t) /\ StartsTwoZeros(n)
  <2>1. PICK k \in Seq(Digits) : k = SubSeq(n, 3, Len(n))
    <3>1. SubSeq(n, 3, Len(n)) \in Seq(Digits)
      BY <1>1, TailsOfDigits
    <3> QED
      BY <3>1
  <2>2. n = <<"0", "0">> \o k
    BY <1>8, <2>1, TwoZeros
  <2>3. FullNumber(k) /\ normalise_phone(s, region) = Key(k)
    BY <1>3, <1>4, <1>8, <2>1
  <2>4. Writes(s, k, region)
    BY <1>5, <1>8, <2>2
  <2> QED
    BY <1>1, <1>2, <1>6, <2>1, <2>3, <2>4
<1>9. CASE ~Plussed(t) /\ ~StartsTwoZeros(n)
  <2>1. region \in Regions
    BY <1>3, <1>9
  <2>2. PICK p : p = Plans[region]
    OBVIOUS
  <2>3. normalise_phone(s, region) = National(n, p)
    BY <1>3, <1>9, <2>1, <2>2
  <2>4. PICK m \in Seq(Digits) :
          /\ National(n, p) = Key(p.cc \o m) /\ Len(m) \in NationalLengths(p)
          /\ AsNational(n, m, p) \/ WithCode(n, m, p) \/ WithTrunkZero(n, m, p)
    BY <2>1, <2>2, <2>3, ReadIsWritten
  <2>5. PICK k : k = p.cc \o m
    OBVIOUS
  <2>6. FullNumber(k)
    BY <2>1, <2>2, <2>4, <2>5, CodeAndNational
  <2>7. WritesAtHome(n, k, p)
    <3>1. k \in Seq(Digits)
      BY <2>6 DEF FullNumber
    <3> QED
      BY <2>1, <2>2, <2>4, <2>5, <3>1, HomeWriting
  <2>8. Writes(s, k, region)
    BY <1>5, <1>9, <2>1, <2>2, <2>7
  <2>9. k \in Candidates(n, region)
    <3>1. CASE AsNational(n, m, p)
      BY <1>6, <2>1, <2>2, <2>5, <3>1 DEF AsNational
    <3>2. CASE WithCode(n, m, p)
      BY <1>6, <2>5, <3>2 DEF WithCode
    <3>3. CASE WithTrunkZero(n, m, p)
      <4>1. n = <<"0">> \o m
        BY <3>3 DEF WithTrunkZero
      <4>2. n # <<>> /\ Tail(n) = m
        BY <4>1, TrunkZero
      <4>3. m = SubSeq(n, 2, Len(n))
        BY <4>2, TailIsSubSeq
      <4> QED
        BY <1>6, <2>1, <2>2, <2>5, <4>3
    <3> QED
      BY <2>4, <3>1, <3>2, <3>3
  <2> QED
    BY <1>1, <1>2, <2>3, <2>4, <2>5, <2>6, <2>8, <2>9
<1> QED
  BY <1>7, <1>8, <1>9

\* identity.py:100-134, 149-196, dedupe.py:100-128, fakes/highlevel.py:239-251:
\* whoever reads a key again, with whatever region, reads that key, so the
\* deduper's search and the platform's filing meet.  A key comes from a text
\* that was read, and is then an address already folded, or the plus and the
\* digits of a full number.
THEOREM KeysSurvive == Spec => []KeysSurviveASecondReading
<1>1. Typed => KeysSurviveASecondReading
  <2> SUFFICES ASSUME Typed PROVE KeysSurviveASecondReading
    OBVIOUS
  <2>1. text \in Seq(STRING)
    BY DEF Typed
  <2>2. ASSUME normalise_email(text) # Review
        PROVE  normalise_email(normalise_email(text)) = normalise_email(text)
    BY <2>1, <2>2, EmailKeySurvives
  <2>3. ASSUME NEW home, NEW away, normalise_phone(text, home) # Review
        PROVE  normalise_phone(normalise_phone(text, home), away) = normalise_phone(text, home)
    <3>1. PICK k : FullNumber(k) /\ normalise_phone(text, home) = Key(k)
      BY <2>1, <2>3, WhatIsReadIsWritten
    <3>2. normalise_phone(Key(k), away) = Key(k)
      BY <3>1, KeyIsReadAsItself
    <3> QED
      BY <3>1, <3>2
  <2> QED
    BY <2>2, <2>3 DEF KeysSurviveASecondReading
<1> QED
  BY <1>1, StaysTyped, PTL

\* The numbers a text can be read as are the one its key names.
LEMMA PhoneKeyIsTheReading ==
  ASSUME NEW s \in Seq(STRING), NEW region
  PROVE  LET key == normalise_phone(s, region)
         IN  Readings(s, region) = IF key = Review THEN {} ELSE {Tail(key)}
<1> DEFINE key == normalise_phone(s, region)
<1>1. \A k : k \in Readings(s, region) <=>
        /\ k \in Candidates(Numeral(Body(Trimmed(s))), region)
        /\ k # <<>> /\ k[1] # "0" /\ Len(k) \in E164Min..E164Max
        /\ IsDiallable(Trimmed(s)) /\ Writes(s, k, region)
  BY DEF Readings, Candidates, Tails
<1>2. Candidates(Numeral(Body(Trimmed(s))), region) \subseteq Seq(Digits)
  BY DialledDigits, CandidatesOfDigits
<1>3. ASSUME NEW k \in Readings(s, region)
      PROVE  key = Key(k) /\ key # Review /\ Tail(key) = k
  <2>1. FullNumber(k) /\ k \in Seq(Digits)
    BY <1>1, <1>2 DEF FullNumber
  <2>2. key = Key(k)
    BY <1>1, <2>1, WhatIsWrittenIsRead
  <2> HIDE DEF key
  <2> QED
    BY <2>1, <2>2, KeyOfNumber
<1>4. ASSUME key # Review
      PROVE  Tail(key) \in Readings(s, region)
  <2>1. PICK k : /\ FullNumber(k) /\ key = Key(k)
                 /\ IsDiallable(Trimmed(s)) /\ Writes(s, k, region)
                 /\ k \in Candidates(Numeral(Body(Trimmed(s))), region)
    BY <1>4, WhatIsReadIsWritten
  <2>2. k \in Readings(s, region)
    BY <1>1, <2>1 DEF FullNumber
  <2>3. Tail(key) = k
    BY <1>3, <2>2
  <2> QED
    BY <2>2, <2>3
<1> HIDE DEF key
<1>5. Readings(s, region) = IF key = Review THEN {} ELSE {Tail(key)}
  BY <1>3, <1>4
<1> QED
  BY <1>5 DEF key

\* identity.py:3-8, 34-46, 100-134, 149-196: no two identifiers that differ are
\* folded onto one key, and a text that does not determine a key gets none.
THEOREM KeysAreReadings == Spec => []KeysAreTheOnlyReading
<1>1. Typed => KeysAreTheOnlyReading
  <2> SUFFICES ASSUME Typed PROVE KeysAreTheOnlyReading
    OBVIOUS
  <2>1. text \in Seq(STRING)
    BY DEF Typed
  <2>2. \A region : LET key == normalise_phone(text, region)
                    IN  Readings(text, region) = IF key = Review THEN {} ELSE {Tail(key)}
    BY <2>1, PhoneKeyIsTheReading
  <2> QED
    BY <2>1, <2>2, EmailKeyIsTheReading DEF KeysAreTheOnlyReading
<1> QED
  BY <1>1, StaysTyped, PTL
=============================================================================
