------------------------ MODULE SecretBuffer_proofs ------------------------
(***************************************************************************)
(* Proofs about SecretBuffer: where the passphrase is, where no byte of it *)
(* is left, that the prompt counts its codepoints, and that the page is    *)
(* what SecretText promises.                                               *)
(***************************************************************************)
EXTENDS SecretBuffer, NatInduction, FiniteSetTheorems, TLAPS

-----------------------------------------------------------------------------
(* The bytes of a text.                                                    *)

BytesOf(c) == [k \in 1..Width[c] |-> [of |-> c, place |-> k - 1]]

(* The places of the lead bytes in a sequence of bytes.                    *)
Leads(bytes) == {k \in 1..Len(bytes) : bytes[k].place = 0}

LEMMA BytesOfCodepoint ==
  ASSUME NEW c \in Chars
  PROVE  BytesOf(c) \in Seq(Byte) /\ Len(BytesOf(c)) = Width[c] /\ Leads(BytesOf(c)) = {1}
<1> USE WidthAssumption
<1>1. Width[c] \in 1..4 /\ BytesOf(c) \in Seq(Byte) /\ Len(BytesOf(c)) = Width[c]
  <2>1. Width[c] \in 1..4
    OBVIOUS
  <2>2. \A k \in 1..Width[c] : [of |-> c, place |-> k - 1] \in Byte
    BY <2>1 DEF Byte
  <2>3. BytesOf(c) \in [1..Width[c] -> Byte]
    BY <2>2 DEF BytesOf
  <2> QED  BY <2>1, <2>3
<1>2. \A k \in 1..Width[c] : BytesOf(c)[k].place = k - 1
  BY DEF BytesOf
<1>3. \A k \in 1..Width[c] : BytesOf(c)[k].place = 0 <=> k = 1
  BY <1>1, <1>2
<1> QED  BY <1>1, <1>3 DEF Leads

(* The bytes of the first i codepoints, one codepoint after the other.     *)
Encodes(text, n, b) ==
  b = [i \in 0..n |-> IF i = 0 THEN <<>> ELSE b[i-1] \o BytesOf(text[i])]

LEMMA EncodingExists ==
  ASSUME NEW text
  PROVE  \A n \in Nat : \E b : Encodes(text, n, b)
<1> DEFINE S == {n \in Nat : \E b : Encodes(text, n, b)}
<1>1. 0 \in S
  <2> DEFINE b == [i \in 0..0 |-> <<>>]
  <2>1. Encodes(text, 0, b)
    BY DEF Encodes
  <2> QED  BY <2>1
<1>2. ASSUME NEW n \in Nat, n \in S  PROVE  n + 1 \in S
  <2>1. PICK b : Encodes(text, n, b)
    BY <1>2
  <2> DEFINE d == [i \in 0..n+1 |-> IF i <= n THEN b[i] ELSE b[n] \o BytesOf(text[n+1])]
  <2>2. \A i \in 0..n : b[i] = IF i = 0 THEN <<>> ELSE b[i-1] \o BytesOf(text[i])
    BY <2>1 DEF Encodes
  <2>3. \A i \in 0..n+1 : d[i] = IF i = 0 THEN <<>> ELSE d[i-1] \o BytesOf(text[i])
    <3> SUFFICES ASSUME NEW i \in 0..n+1
                 PROVE  d[i] = IF i = 0 THEN <<>> ELSE d[i-1] \o BytesOf(text[i])
      OBVIOUS
    <3>1. CASE i <= n
      BY <2>2, <3>1
    <3>2. CASE i = n + 1
      BY <3>2
    <3> QED  BY <3>1, <3>2
  <2>4. Encodes(text, n + 1, d)
    BY <2>3 DEF Encodes
  <2> QED  BY <2>4
<1> HIDE DEF S
<1>3. \A n \in Nat : n \in S
  BY <1>1, <1>2, SetInduction
<1> QED  BY <1>3 DEF S

(* One more codepoint is one more lead byte.                               *)
LEMMA LeadsOfOneMore ==
  ASSUME NEW s \in Seq(Byte), NEW c \in Chars,
         IsFiniteSet(Leads(s))
  PROVE  LET t == s \o BytesOf(c) IN
         /\ t \in Seq(Byte)
         /\ IsFiniteSet(Leads(t))
         /\ Cardinality(Leads(t)) = Cardinality(Leads(s)) + 1
         /\ 1 \in Leads(s) \/ s = <<>> => 1 \in Leads(t)
<1> DEFINE d == BytesOf(c)
           t == s \o d
<1>1. d \in Seq(Byte) /\ Leads(d) = {1}
  BY BytesOfCodepoint
<1> HIDE DEF d
<1>2. /\ t \in Seq(Byte) /\ Len(t) = Len(s) + Len(d)
      /\ Len(s) \in Nat /\ Len(d) \in Nat
      /\ \A k \in 1..Len(s) : t[k] = s[k]
      /\ \A k \in 1..Len(d) : t[Len(s) + k] = d[k]
  BY <1>1
<1>3. 1 \in 1..Len(d) /\ \A k \in 1..Len(d) : d[k].place = 0 <=> k = 1
  BY <1>1 DEF Leads
<1> HIDE DEF t
<1>4. Leads(t) = Leads(s) \cup {Len(s) + 1}
  <2>1. ASSUME NEW k \in Leads(t)  PROVE  k \in Leads(s) \cup {Len(s) + 1}
    <3>0. k \in 1..Len(t) /\ t[k].place = 0
      BY DEF Leads
    <3>1. CASE k <= Len(s)
      <4>1. k \in 1..Len(s)
        BY <1>2, <3>0, <3>1
      <4> QED  BY <1>2, <3>0, <4>1 DEF Leads
    <3>2. CASE k > Len(s)
      <4>1. PICK m \in 1..Len(d) : k = Len(s) + m
        <5>1. k - Len(s) \in 1..Len(d) /\ k = Len(s) + (k - Len(s))
          BY <1>2, <3>0, <3>2
        <5> QED  BY <5>1
      <4>2. d[m].place = 0
        BY <1>2, <3>0, <4>1
      <4> QED  BY <1>3, <4>1, <4>2
    <3> QED  BY <1>2, <3>0, <3>1, <3>2
  <2>2. ASSUME NEW k \in Leads(s)  PROVE  k \in Leads(t)
    <3>1. k \in 1..Len(t) /\ t[k] = s[k]
      BY <1>2 DEF Leads
    <3> QED  BY <3>1 DEF Leads
  <2>3. Len(s) + 1 \in Leads(t)
    <3>1. Len(s) + 1 \in 1..Len(t) /\ t[Len(s) + 1] = d[1]
      BY <1>2, <1>3
    <3> QED  BY <1>3, <3>1 DEF Leads
  <2> QED  BY <2>1, <2>2, <2>3
<1>5. Len(s) + 1 \notin Leads(s)
  BY <1>2 DEF Leads
<1>6. /\ IsFiniteSet(Leads(t))
      /\ Cardinality(Leads(t)) = Cardinality(Leads(s)) + 1
  BY <1>4, <1>5, FS_AddElement
<1>7. 1 \in Leads(s) \/ s = <<>> => 1 \in Leads(t)
  BY <1>4
<1> QED  BY <1>2, <1>6, <1>7 DEF t, d

(* A set of texts that holds the empty one and, with a text, every longer  *)
(* one, holds every text.                                                  *)
LEMMA TextInduction ==
  ASSUME NEW S, <<>> \in S,
         \A text \in Seq(Chars), c \in Chars : text \in S => Append(text, c) \in S
  PROVE  \A text \in Seq(Chars) : text \in S
<1> DEFINE T == {n \in Nat : \A text \in Seq(Chars) : Len(text) = n => text \in S}
<1>1. 0 \in T
  OBVIOUS
<1>2. ASSUME NEW n \in Nat, n \in T  PROVE  n + 1 \in T
  <2> SUFFICES ASSUME NEW text \in Seq(Chars), Len(text) = n + 1  PROVE  text \in S
    OBVIOUS
  <2> DEFINE front == SubSeq(text, 1, n)
  <2>1. front \in Seq(Chars) /\ Len(front) = n /\ text[n+1] \in Chars
    BY <1>2
  <2>2. text = Append(front, text[n+1])
    OBVIOUS
  <2>3. front \in S
    BY <1>2, <2>1
  <2> QED  BY <2>1, <2>2, <2>3
<1> HIDE DEF T
<1>3. \A n \in Nat : n \in T
  BY <1>1, <1>2, SetInduction
<1> QED  BY <1>3 DEF T

(* Encode is a run over its text.                                          *)
EncodeRun(text, b) ==
  /\ b[0] = <<>>
  /\ \A n \in 1..Len(text) : b[n] = b[n-1] \o BytesOf(text[n])
  /\ Encode(text) = b[Len(text)]

LEMMA EncodeRuns ==
  ASSUME NEW text \in Seq(Chars)
  PROVE  \E b : EncodeRun(text, b)
<1> DEFINE bytes[i \in 0..Len(text)] ==
             IF i = 0 THEN <<>> ELSE bytes[i-1] \o BytesOf(text[i])
<1>1. Encode(text) = bytes[Len(text)]
  BY DEF Encode, BytesOf
<1>2. Encodes(text, Len(text), bytes)
  <2>1. \E b : Encodes(text, Len(text), b)
    BY EncodingExists
  <2> QED  BY <2>1 DEF Encodes
<1> HIDE DEF bytes
<1>3. \A n \in 0..Len(text) :
        bytes[n] = IF n = 0 THEN <<>> ELSE bytes[n-1] \o BytesOf(text[n])
  BY <1>2, Zenon DEF Encodes
<1>4. Len(text) \in Nat
  OBVIOUS
<1>5. 0 \in 0..Len(text) /\ \A n \in 1..Len(text) : n \in 0..Len(text) /\ n # 0
  BY <1>4
<1>6. bytes[0] = <<>> /\ \A n \in 1..Len(text) : bytes[n] = bytes[n-1] \o BytesOf(text[n])
  BY <1>3, <1>5, Zenon
<1> QED  BY <1>1, <1>6, Zenon DEF EncodeRun

(* It encodes codepoint by codepoint.                                      *)
LEMMA EncodeAppend ==
  /\ Encode(<<>>) = <<>>
  /\ \A text \in Seq(Chars), c \in Chars : Encode(Append(text, c)) = Encode(text) \o BytesOf(c)
<1>1. Encode(<<>>) = <<>>
  <2>1. <<>> \in Seq(Chars) /\ Len(<<>>) = 0
    OBVIOUS
  <2>2. PICK b : EncodeRun(<<>>, b)
    BY <2>1, EncodeRuns
  <2> QED  BY <2>1, <2>2 DEF EncodeRun
<1>2. ASSUME NEW text \in Seq(Chars), NEW c \in Chars
      PROVE  Encode(Append(text, c)) = Encode(text) \o BytesOf(c)
  <2> DEFINE n == Len(text)
             longer == Append(text, c)
  <2>1. /\ longer \in Seq(Chars) /\ n \in Nat /\ Len(longer) = n + 1 /\ longer[n+1] = c
        /\ \A i \in 1..n : longer[i] = text[i]
    OBVIOUS
  <2>2. PICK b : EncodeRun(text, b)
    BY EncodeRuns
  <2>3. PICK d : EncodeRun(longer, d)
    BY <2>1, EncodeRuns
  <2> HIDE DEF n, longer
  <2>4. \A i \in 0..n : i \in {k \in 0..n : b[k] = d[k]}
    <3> DEFINE S == {k \in 0..n : b[k] = d[k]}
    <3>1. 0 \in S
      BY <2>1, <2>2, <2>3 DEF EncodeRun
    <3>2. ASSUME NEW i \in 1..n, i - 1 \in S  PROVE  i \in S
      <4>1. i \in 1..n+1 /\ i \in 0..n /\ longer[i] = text[i]
        BY <2>1
      <4>2. b[i] = b[i-1] \o BytesOf(text[i]) /\ d[i] = d[i-1] \o BytesOf(longer[i])
        BY <2>1, <2>2, <2>3, <4>1 DEF EncodeRun, n
      <4> QED  BY <3>2, <4>1, <4>2
    <3> HIDE DEF S
    <3>3. \A i \in 0..n : i \in S
      BY <2>1, <3>1, <3>2, IndexInduction
    <3> QED  BY <3>3 DEF S
  <2>5. n \in 0..n /\ n + 1 \in 1..n+1 /\ (n + 1) - 1 = n
    BY <2>1
  <2>6. d[n+1] = d[n] \o BytesOf(c) /\ b[n] = d[n]
    BY <2>1, <2>3, <2>4, <2>5 DEF EncodeRun
  <2>7. Encode(text) = b[n] /\ Encode(longer) = d[n+1]
    BY <2>1, <2>2, <2>3 DEF EncodeRun, n
  <2> QED  BY <2>6, <2>7 DEF longer
<1> QED  BY <1>1, <1>2

(* What Encode computes: as many lead bytes as the text has codepoints,    *)
(* the first of them at the front.                                         *)
LEMMA EncodeFacts ==
  ASSUME NEW text \in Seq(Chars)
  PROVE  /\ Encode(text) \in Seq(Byte)
         /\ IsFiniteSet(Leads(Encode(text)))
         /\ Cardinality(Leads(Encode(text))) = Len(text)
         /\ Encode(text) # <<>> => 1 \in Leads(Encode(text))
<1> DEFINE Good(t) == /\ Encode(t) \in Seq(Byte)
                      /\ IsFiniteSet(Leads(Encode(t)))
                      /\ Cardinality(Leads(Encode(t))) = Len(t)
                      /\ Encode(t) # <<>> => 1 \in Leads(Encode(t))
           S == {t \in Seq(Chars) : Good(t)}
<1>1. <<>> \in S
  <2>1. Leads(<<>>) = {} /\ <<>> \in Seq(Byte) /\ <<>> \in Seq(Chars) /\ Len(<<>>) = 0
    BY DEF Leads
  <2> QED  BY <2>1, EncodeAppend, FS_EmptySet
<1>2. ASSUME NEW t \in Seq(Chars), NEW c \in Chars, t \in S  PROVE  Append(t, c) \in S
  <2>1. Append(t, c) \in Seq(Chars) /\ Len(Append(t, c)) = Len(t) + 1
    OBVIOUS
  <2>2. Encode(Append(t, c)) = Encode(t) \o BytesOf(c)
    BY EncodeAppend
  <2> HIDE DEF Good
  <2>3. Good(t)
    BY <1>2
  <2>4. Good(Append(t, c))
    BY <2>1, <2>2, <2>3, LeadsOfOneMore DEF Good
  <2> QED  BY <2>1, <2>4
<1> HIDE DEF S
<1>3. text \in S
  BY <1>1, <1>2, TextInduction
<1> QED  BY <1>3 DEF S

-----------------------------------------------------------------------------
(* The invariant.                                                          *)

(* Where the codepoints in the page start.                                 *)
Starts == {o \in 0..byteLen-1 : ~Continuation(o)}

(* The text in the page starts with a lead byte, so that going back over   *)
(* continuation bytes ends inside it, and has a lead byte for each of the  *)
(* codepoints counted; a caller that stops when reset fails has a page     *)
(* that is mapped and protected, and counts every one of them.             *)
WellCounted ==
  /\ byteLen > 0 => ~Continuation(0)
  /\ len <= Cardinality(Starts)
StoppedInTime ==
  ~Ignores /\ phase = "live" =>
    ptr \in mapped \cap locked \cap undumped /\ len = Cardinality(Starts)
NotYetMapped == phase = "none" => mapped = {} /\ byteLen = 0

PageInv == TypeOK /\ NoResidue /\ WellCounted /\ StoppedInTime /\ NotYetMapped

LEMMA ByteTypes ==
  /\ Zero \in Byte /\ Zero.place = 0 /\ Blank \in [Offset -> Byte]
  /\ 0 \in Offset /\ \A o \in Offset : o \in Nat
BY WidthAssumption, PageAssumption DEF Zero, Byte, Blank, Offset

(* An emptied or blank page: every byte is a lead byte.                    *)
HoldsNothing == TypeOK /\ mem[ptr] = Blank
EveryByteCounts == Cardinality(Starts) = byteLen /\ WellCounted

LEMMA BlankCounts == HoldsNothing => EveryByteCounts
<1> SUFFICES ASSUME TypeOK, mem[ptr] = Blank
             PROVE  Cardinality(Starts) = byteLen /\ WellCounted
  BY DEF HoldsNothing, EveryByteCounts
<1>1. byteLen \in Nat /\ len \in Nat /\ len <= byteLen /\ 0..byteLen-1 \subseteq Offset
  BY PageAssumption DEF TypeOK, Offset
<1>2. Starts = 0..byteLen-1 /\ (byteLen > 0 => ~Continuation(0))
  BY <1>1, ByteTypes DEF Starts, Continuation, Blank
<1>3. Cardinality(0..byteLen-1) = byteLen
  <2>1. byteLen - 1 \in Int /\ (0 > byteLen - 1 => byteLen = 0) /\ (byteLen - 1) - 0 + 1 = byteLen
    BY <1>1
  <2> QED  BY <2>1, FS_Interval
<1> QED  BY <1>1, <1>2, <1>3 DEF WellCounted

LEMMA BlankCountsNext == HoldsNothing' => EveryByteCounts'
BY BlankCounts, PTL

(* What reset and drop overwrite is all there was: no page holds anything. *)
LEMMA ZeroizedIsBlank ==
  ASSUME TypeOK, NoResidue
  PROVE  Zeroized = [p \in Pages |-> Blank]
<1>1. \A p \in Pages : Zeroized[p] = Blank
  <2> SUFFICES ASSUME NEW p \in Pages  PROVE  Zeroized[p] = Blank
    OBVIOUS
  <2>1. CASE p = ptr
    BY <2>1, ByteTypes DEF Zeroized, TypeOK, NoResidue, Blank
  <2>2. CASE p # ptr
    BY <2>2 DEF Zeroized, TypeOK, NoResidue
  <2> QED  BY <2>1, <2>2
<1> QED  BY <1>1 DEF Zeroized, TypeOK

(* A fresh page while no other is mapped and none holds anything.          *)
LEMMA FreshPage ==
  ASSUME NEW p, NEW done \in Protection, MapFresh(p, done, {}, [q \in Pages |-> Blank]),
         phase' \in {"live", "failed"}, ~Ignores /\ phase' = "live" => done = {"locked", "undumped"}
  PROVE  PageInv'
<1>1. /\ p \in Pages /\ ptr' = p /\ mapped' = {p} /\ byteLen' = 0 /\ len' = 0
      /\ mem' = [q \in Pages |-> Blank]
      /\ locked' = {q \in {p} : "locked" \in done}
      /\ undumped' = {q \in {p} : "undumped" \in done}
  BY DEF MapFresh
<1>2. TypeOK'
  BY <1>1, PageAssumption, ByteTypes DEF TypeOK
<1>3. NoResidue'
  BY <1>1 DEF NoResidue, Blank
<1>4. mem'[ptr'] = Blank
  BY <1>1
<1>5. Cardinality(Starts') = 0 /\ WellCounted'
  <2>1. TypeOK' /\ mem'[ptr'] = Blank => Cardinality(Starts') = byteLen' /\ WellCounted'
    BY BlankCountsNext DEF HoldsNothing, EveryByteCounts
  <2> QED  BY <1>1, <1>2, <1>4, <2>1
<1>6. StoppedInTime' /\ NotYetMapped'
  BY <1>1, <1>5 DEF StoppedInTime, NotYetMapped
<1> QED  BY <1>2, <1>3, <1>5, <1>6 DEF PageInv

(* The page was overwritten and the buffer is not used any more, or, by a  *)
(* caller that does not look, with what the failed reset left.             *)
LEMMA ZeroizedPage ==
  ASSUME PageInv, mem' = Zeroized, phase' # "none", ~Ignores => phase' # "live",
         phase' \in {"live", "failed", "gone", "crashed"},
         Munmap \/ UNCHANGED <<mapped, locked, undumped>>,
         UNCHANGED <<ptr, byteLen, len>>
  PROVE  PageInv'
<1>1. mem' = [p \in Pages |-> Blank]
  BY ZeroizedIsBlank DEF PageInv
<1>2. /\ mapped' \subseteq mapped /\ locked' \subseteq mapped' /\ undumped' \subseteq mapped'
  BY DEF Munmap, GivenBack, PageInv, TypeOK
<1>3. TypeOK'
  BY <1>1, <1>2, ByteTypes DEF PageInv, TypeOK
<1>4. NoResidue'
  BY <1>1, <1>2 DEF PageInv, NoResidue, TypeOK, Blank
<1>5. WellCounted'
  <2>1. TypeOK' /\ mem'[ptr'] = Blank => Cardinality(Starts') = byteLen' /\ WellCounted'
    BY BlankCountsNext DEF HoldsNothing, EveryByteCounts
  <2> QED  BY <1>1, <1>3, <2>1 DEF TypeOK
<1>6. StoppedInTime' /\ NotYetMapped'
  BY DEF StoppedInTime, NotYetMapped
<1> QED  BY <1>3, <1>4, <1>5, <1>6 DEF PageInv

HasLength == byteLen \in Nat
StartsWithin == IsFiniteSet(Starts) /\ Cardinality(Starts) \in 0..byteLen

(* There are no more codepoints than bytes.                                *)
LEMMA StartsAreFinite == HasLength => StartsWithin
<1> SUFFICES ASSUME byteLen \in Nat
             PROVE  IsFiniteSet(Starts) /\ Cardinality(Starts) \in 0..byteLen
  BY DEF HasLength, StartsWithin
<1>1. IsFiniteSet(0..byteLen-1) /\ Cardinality(0..byteLen-1) = byteLen
  <2>1. byteLen - 1 \in Int /\ (0 > byteLen - 1 => byteLen = 0) /\ (byteLen - 1) - 0 + 1 = byteLen
    OBVIOUS
  <2> QED  BY <2>1, FS_Interval
<1>2. Starts \in SUBSET (0..byteLen-1)
  BY DEF Starts
<1>3. IsFiniteSet(Starts) /\ Cardinality(Starts) <= byteLen
  BY <1>1, <1>2, FS_Subset
<1>4. Cardinality(Starts) \in Nat
  BY <1>3, FS_CardinalityType
<1> QED  BY <1>3, <1>4

LEMMA StartsAreFiniteNext == HasLength' => StartsWithin'
BY StartsAreFinite, PTL

(* The lead bytes of a text moved to offset b are as many.                 *)
LEMMA ShiftedLeads ==
  ASSUME NEW b \in Nat, NEW S \in SUBSET Nat, IsFiniteSet(S)
  PROVE  LET T == {b + k - 1 : k \in S}
         IN  IsFiniteSet(T) /\ Cardinality(T) = Cardinality(S)
<1> DEFINE T == {b + k - 1 : k \in S}
           f == [k \in S |-> b + k - 1]
<1>1. f \in [S -> T] /\ (\A j, k \in S : f[j] = f[k] => j = k) /\ (\A t \in T : \E k \in S : f[k] = t)
  OBVIOUS
<1> HIDE DEF T, f
<1>2. ExistsBijection(S, T)
  BY <1>1 DEF ExistsBijection, Bijection, Injection, IsInjective, Surjection
<1> QED  BY <1>2, FS_Bijection DEF T

LEMMA AppendKeepsInv ==
  ASSUME PageInv, NEW slice \in Slices, AppendSlice(slice)
  PROVE  PageInv'
<1> DEFINE bytes == Encode(slice)
           n == Len(bytes)
           Added == {byteLen + k - 1 : k \in Leads(bytes)}
<1>1. /\ slice \in Seq(Chars) /\ bytes \in Seq(Byte) /\ IsFiniteSet(Leads(bytes))
      /\ Cardinality(Leads(bytes)) = Len(slice)
      /\ bytes # <<>> => 1 \in Leads(bytes)
  BY EncodeFacts, SlicesAssumption
<1>2. n \in Nat /\ Len(slice) \in Nat /\ byteLen \in Nat /\ len \in Nat /\ Capacity \in Nat
  BY <1>1, PageAssumption DEF PageInv, TypeOK
<1>3. /\ phase = "live" /\ ptr \in mapped /\ ptr \in Pages
      /\ byteLen + n <= Capacity /\ byteLen' = byteLen + n /\ len' = len + Len(slice)
      /\ UNCHANGED <<phase, ptr, mapped, locked, undumped>>
      /\ mem \in [Pages -> [Offset -> Byte]]
  BY DEF AppendSlice, Dangling, PageInv, TypeOK
<1>4. /\ mem' \in [Pages -> [Offset -> Byte]]
      /\ \A p \in Pages \ {ptr} : mem'[p] = mem[p]
      /\ \A o \in Offset : mem'[ptr][o] = IF o \in byteLen..byteLen+n-1
                                         THEN bytes[o - byteLen + 1] ELSE mem[ptr][o]
  <2> DEFINE page == [o \in Offset |-> IF o \in byteLen..byteLen+n-1
                                      THEN bytes[o - byteLen + 1] ELSE mem[ptr][o]]
  <2>1. mem' = [mem EXCEPT ![ptr] = page]
    BY <1>3 DEF AppendSlice
  <2>2. \A o \in byteLen..byteLen+n-1 : o - byteLen + 1 \in 1..n
    BY <1>2
  <2>3. page \in [Offset -> Byte]
    BY <1>1, <1>3, <2>2
  <2> QED  BY <1>3, <2>1, <2>3
<1> HIDE DEF bytes
<1>5. Starts' = Starts \cup Added
  <2>1. /\ \A o \in 0..byteLen-1 : o \in 0..byteLen'-1 /\ o \in Offset /\ o \notin byteLen..byteLen+n-1
        /\ \A o \in 0..byteLen'-1 : o \in Offset /\ (o \notin 0..byteLen-1 => o \in byteLen..byteLen+n-1)
    BY <1>2, <1>3 DEF Offset
  <2>2. \A k \in 1..n : LET o == byteLen + k - 1 IN
          o \in 0..byteLen'-1 /\ o \in byteLen..byteLen+n-1 /\ o - byteLen + 1 = k
    BY <1>2, <1>3
  <2>3. \A o \in byteLen..byteLen+n-1 : o - byteLen + 1 \in 1..n /\ o = byteLen + (o - byteLen + 1) - 1
    BY <1>2
  <2>4. ASSUME NEW o \in Starts'  PROVE  o \in Starts \cup Added
    <3>1. mem'[ptr][o].place = 0 /\ o \in 0..byteLen'-1
      BY <1>3 DEF Starts, Continuation
    <3>2. CASE o \in 0..byteLen-1
      BY <1>4, <2>1, <3>1, <3>2 DEF Starts, Continuation
    <3>3. CASE o \notin 0..byteLen-1
      <4>1. o \in byteLen..byteLen+n-1 /\ o \in Offset
        BY <2>1, <3>1, <3>3
      <4>2. o - byteLen + 1 \in Leads(bytes)
        BY <1>4, <2>3, <3>1, <4>1 DEF Leads
      <4> QED  BY <2>3, <4>1, <4>2
    <3> QED  BY <3>2, <3>3
  <2>5. ASSUME NEW o \in Starts  PROVE  o \in Starts'
    BY <1>3, <1>4, <2>1 DEF Starts, Continuation
  <2>6. ASSUME NEW k \in Leads(bytes)  PROVE  byteLen + k - 1 \in Starts'
    <3>1. k \in 1..n /\ bytes[k].place = 0
      BY DEF Leads
    <3> QED  BY <1>3, <1>4, <2>1, <2>2, <3>1 DEF Starts, Continuation
  <2> QED  BY <2>4, <2>5, <2>6
<1>6. Cardinality(Starts') = Cardinality(Starts) + Len(slice)
  <2>1. IsFiniteSet(Starts) /\ Cardinality(Starts) \in Nat
    BY <1>2, StartsAreFinite DEF HasLength, StartsWithin
  <2>2. IsFiniteSet(Added) /\ Cardinality(Added) = Len(slice)
    <3>1. Leads(bytes) \in SUBSET Nat
      BY DEF Leads
    <3> QED  BY <1>1, <1>2, <3>1, ShiftedLeads
  <2>3. Starts \cap Added = {}
    BY <1>2 DEF Starts, Leads
  <2>4. Cardinality(Starts \cap Added) = 0
    BY <2>3, FS_EmptySet
  <2> HIDE DEF Added
  <2> QED  BY <1>5, <2>1, <2>2, <2>4, <1>2, FS_Union
<1>7. byteLen' \in 0..Capacity /\ len' \in Nat /\ len' <= Cardinality(Starts')
  BY <1>2, <1>3, <1>6, StartsAreFinite DEF HasLength, StartsWithin, PageInv, WellCounted
<1>8. TypeOK'
  BY <1>3, <1>4, <1>7, StartsAreFiniteNext DEF HasLength, StartsWithin, PageInv, TypeOK
<1>9. NoResidue'
  BY <1>2, <1>3, <1>4 DEF PageInv, NoResidue, Offset
<1>10. WellCounted'
  <2>1. ASSUME byteLen' > 0  PROVE  0 \in Starts'
    <3>1. CASE byteLen > 0
      BY <1>2, <1>5, <3>1 DEF PageInv, WellCounted, Starts
    <3>2. CASE byteLen = 0
      <4>1. 1 \in Leads(bytes)
        BY <1>1, <1>3, <2>1, <3>2
      <4> QED  BY <1>5, <3>2, <4>1
    <3> QED  BY <1>2, <3>1, <3>2
  <2> QED  BY <1>7, <2>1 DEF WellCounted, Starts
<1>11. StoppedInTime' /\ NotYetMapped'
  BY <1>3, <1>6 DEF PageInv, StoppedInTime, NotYetMapped
<1> QED  BY <1>8, <1>9, <1>10, <1>11 DEF PageInv

(* Going back over continuation bytes stops at the start of the last       *)
(* codepoint, inside the text.                                             *)
LEMMA LastStartIsLast ==
  ASSUME TypeOK, WellCounted, byteLen > 0
  PROVE  /\ LastStart \in Starts
         /\ \A o \in Starts : o <= LastStart
<1>1. byteLen \in Nat
  BY PageAssumption DEF TypeOK
<1>2. Starts \in SUBSET Nat /\ 0 \in Starts /\ \A o \in Starts : o <= byteLen
  BY <1>1 DEF WellCounted, Starts
<1>3. PICK i \in Starts : \A o \in Starts : o <= i
  <2> HIDE DEF Starts
  <2> QED  BY <1>1, <1>2, GreatestMember
<1>4. i \in 0..byteLen-1 /\ ~Continuation(i)
  BY DEF Starts
<1>5. \A o \in i+1..byteLen-1 : Continuation(o)
  <2> SUFFICES ASSUME NEW o \in i+1..byteLen-1, ~Continuation(o)  PROVE  FALSE
    OBVIOUS
  <2>1. o \in Starts
    BY <1>4 DEF Starts
  <2>2. o > i /\ o <= i
    BY <1>3, <1>4, <2>1
  <2> QED  BY <1>4, <2>2
<1>6. /\ LastStart \in 0..byteLen-1
      /\ LastStart = 0 \/ ~Continuation(LastStart)
      /\ \A o \in LastStart+1..byteLen-1 : Continuation(o)
  BY <1>4, <1>5 DEF LastStart
<1> HIDE DEF LastStart
<1>7. LastStart \in Starts
  BY <1>2, <1>6 DEF Starts
<1>8. ASSUME NEW o \in Starts  PROVE  o <= LastStart
  <2>1. o \in 0..byteLen-1 /\ ~Continuation(o)
    BY DEF Starts
  <2> QED  BY <1>6, <2>1
<1> QED  BY <1>7, <1>8

LEMMA DeleteKeepsInv ==
  ASSUME PageInv, DeleteBackwards
  PROVE  PageInv'
<1>1. /\ byteLen \in Nat /\ byteLen > 0 /\ byteLen <= Capacity /\ len \in Nat
      /\ Capacity \in Nat
      /\ LastStart \in Starts /\ \A o \in Starts : o <= LastStart
  BY LastStartIsLast, PageAssumption DEF PageInv, TypeOK, DeleteBackwards
<1>2. LastStart \in 0..byteLen-1
  BY <1>1 DEF Starts
<1>3. /\ phase = "live" /\ ptr \in mapped /\ ptr \in Pages
      /\ byteLen' = LastStart /\ len' = IF len = 0 THEN 0 ELSE len - 1
      /\ UNCHANGED <<phase, ptr, mapped, locked, undumped>>
      /\ mem \in [Pages -> [Offset -> Byte]]
      /\ mem' = [mem EXCEPT ![ptr] =
                  [o \in Offset |-> IF o \in LastStart..byteLen-1 THEN Zero ELSE @[o]]]
  BY DEF DeleteBackwards, Dangling, PageInv, TypeOK
<1> HIDE DEF LastStart
<1>4. /\ mem' \in [Pages -> [Offset -> Byte]]
      /\ \A p \in Pages \ {ptr} : mem'[p] = mem[p]
      /\ \A o \in Offset : mem'[ptr][o] = IF o \in LastStart..byteLen-1
                                         THEN Zero ELSE mem[ptr][o]
  <2> DEFINE page == [o \in Offset |-> IF o \in LastStart..byteLen-1
                                      THEN Zero ELSE mem[ptr][o]]
  <2>1. mem' = [mem EXCEPT ![ptr] = page]
    BY <1>3
  <2>2. page \in [Offset -> Byte]
    BY <1>3, ByteTypes
  <2> QED  BY <1>3, <2>1, <2>2
<1>5. Starts' = Starts \ {LastStart}
  <2>1. \A o \in 0..LastStart-1 : o \in Offset /\ o \in 0..byteLen-1 /\ o \notin LastStart..byteLen-1
    BY <1>1, <1>2 DEF Offset
  <2>2. Starts' = {o \in 0..LastStart-1 : mem'[ptr][o].place = 0}
    BY <1>3 DEF Starts, Continuation
  <2>3. Starts' = {o \in 0..LastStart-1 : mem[ptr][o].place = 0}
    BY <1>4, <2>1, <2>2
  <2>4. \A o \in Starts \ {LastStart} : o \in 0..LastStart-1 /\ mem[ptr][o].place = 0
    BY <1>1, <1>2 DEF Starts, Continuation
  <2>5. \A o \in 0..LastStart-1 : mem[ptr][o].place = 0 => o \in Starts \ {LastStart}
    BY <1>2, <2>1 DEF Starts, Continuation
  <2> QED  BY <2>3, <2>4, <2>5
<1>6. /\ Cardinality(Starts) \in Nat /\ Cardinality(Starts) > 0
      /\ Cardinality(Starts') = Cardinality(Starts) - 1
  <2>1. IsFiniteSet(Starts) /\ Cardinality(Starts) \in Nat
    BY <1>1, StartsAreFinite DEF HasLength, StartsWithin
  <2>2. Cardinality(Starts') = Cardinality(Starts) - 1
    BY <1>1, <1>5, <2>1, FS_RemoveElement
  <2>3. Cardinality(Starts) # 0
    BY <1>1, <2>1, FS_EmptySet
  <2> QED  BY <2>1, <2>2, <2>3
<1>7. byteLen' \in 0..Capacity /\ len' \in Nat /\ len' <= Cardinality(Starts')
  BY <1>1, <1>2, <1>3, <1>6 DEF PageInv, WellCounted
<1>8. TypeOK'
  BY <1>3, <1>4, <1>7, StartsAreFiniteNext DEF HasLength, StartsWithin, PageInv, TypeOK
<1>9. NoResidue'
  <2>1. ASSUME NEW o \in Offset, o >= LastStart  PROVE  mem'[ptr][o] = Zero
    <3>1. o \in LastStart..byteLen-1 \/ o >= byteLen
      BY <1>1, <1>2, <2>1 DEF Offset
    <3> QED  BY <1>4, <3>1 DEF PageInv, NoResidue
  <2> QED  BY <1>3, <1>4, <2>1 DEF PageInv, NoResidue
<1>10. WellCounted'
  <2>1. byteLen' > 0 => 0 \in Starts'
    BY <1>1, <1>2, <1>3, <1>5 DEF PageInv, WellCounted, Starts
  <2> QED  BY <1>7, <2>1 DEF WellCounted, Starts
<1>11. StoppedInTime' /\ NotYetMapped'
  BY <1>1, <1>3, <1>6 DEF PageInv, StoppedInTime, NotYetMapped
<1> QED  BY <1>8, <1>9, <1>10, <1>11 DEF PageInv

-----------------------------------------------------------------------------
LEMMA InitPage == Init => PageInv
<1> SUFFICES ASSUME Init  PROVE  PageInv
  OBVIOUS
<1>1. TypeOK /\ mem[ptr] = Blank
  BY ByteTypes, PageAssumption DEF Init, TypeOK
<1>2. WellCounted
  BY <1>1, BlankCounts DEF HoldsNothing, EveryByteCounts
<1>3. NoResidue /\ StoppedInTime /\ NotYetMapped
  BY <1>1 DEF Init, NoResidue, StoppedInTime, NotYetMapped, Blank
<1> QED  BY <1>1, <1>2, <1>3 DEF PageInv

LEMMA NextPage == PageInv /\ [Next]_vars => PageInv'
<1> SUFFICES ASSUME PageInv, [Next]_vars  PROVE  PageInv'
  OBVIOUS
<1> USE IgnoresAssumption
<1>1. GivenBack = {} /\ mapped \ {ptr} = {}
  BY DEF PageInv, NoResidue, GivenBack
<1>2. UNCHANGED <<ptr, byteLen, len, mem>> => Starts' = Starts
  BY DEF Starts, Continuation
<1>3. CASE NewFails
  BY <1>2, <1>3 DEF NewFails, PageInv, TypeOK, NoResidue, WellCounted, Continuation,
                    StoppedInTime, NotYetMapped
<1>4. ASSUME NEW p \in Pages, New(p)  PROVE  PageInv'
  <2>1. mapped = {} /\ mem = [q \in Pages |-> Blank]
    BY <1>4 DEF New, PageInv, NotYetMapped, NoResidue, TypeOK
  <2>2. MapFresh(p, {"locked", "undumped"}, {}, [q \in Pages |-> Blank])
    BY <1>4, <2>1 DEF New
  <2> QED  BY <1>4, <2>2, FreshPage DEF New, Protection
<1>5. ASSUME NEW p \in Pages, NEW done \in Protection, ResetTo(p, done)  PROVE  PageInv'
  <2>1. MapFresh(p, done, {}, [q \in Pages |-> Blank])
    BY <1>1, <1>5, ZeroizedIsBlank DEF ResetTo, PageInv
  <2> QED  BY <1>5, <2>1, FreshPage DEF ResetTo, AfterReset, Failed
<1>6. ASSUME NEW slice \in Slices, AppendSlice(slice)  PROVE  PageInv'
  BY <1>6, AppendKeepsInv
<1>7. CASE DeleteBackwards
  BY <1>7, DeleteKeepsInv
<1>8. CASE MunmapFails
  BY <1>8, ZeroizedPage DEF MunmapFails, Failed
<1>9. CASE MmapFails
  BY <1>9, ZeroizedPage DEF MmapFails, Failed
<1>10. CASE Drop
  BY <1>10, ZeroizedPage DEF Drop
<1>11. CASE TouchUnmapped
  BY <1>2, <1>11 DEF TouchUnmapped, PageInv, TypeOK, NoResidue, WellCounted, Continuation,
                     StoppedInTime, NotYetMapped
<1>12. CASE UNCHANGED vars
  BY <1>2, <1>12 DEF vars, PageInv, TypeOK, NoResidue, WellCounted, Continuation,
                     StoppedInTime, NotYetMapped
<1> QED  BY <1>3, <1>4, <1>5, <1>6, <1>7, <1>8, <1>9, <1>10, <1>11, <1>12 DEF Next

LEMMA PageInvariant == Spec => []PageInv
BY InitPage, NextPage, PTL DEF Spec

(* Whatever system call fails, no page that was given back holds a byte of *)
(* a passphrase, none is left beyond the end of the text, and no page but  *)
(* the one in use stays mapped; also when the caller goes on after a reset *)
(* that failed.                                                            *)
THEOREM NothingIsLeft == Spec => []NoResidue
<1>1. PageInv => NoResidue
  BY DEF PageInv
<1> QED  BY <1>1, PageInvariant, PTL

(* A caller that stops when reset fails never has a passphrase in a page   *)
(* that can be swapped out or dumped.                                      *)
THEOREM SecretStaysProtected ==
  ASSUME ~Ignores
  PROVE  Spec => []SecretIsProtected
<1>1. PageInv => SecretIsProtected
  BY DEF PageInv, StoppedInTime, SecretIsProtected
<1> QED  BY <1>1, PageInvariant, PTL

(* For such a caller the characters a prompt shows are the codepoints in   *)
(* the page, for codepoints of every UTF-8 width and texts of every length. *)
THEOREM CodepointsAreCounted ==
  ASSUME ~Ignores
  PROVE  Spec => []LenCountsCodepoints
<1>1. PageInv => LenCountsCodepoints
  BY DEF PageInv, StoppedInTime, LenCountsCodepoints, Starts
<1> QED  BY <1>1, PageInvariant, PTL

-----------------------------------------------------------------------------
(* The page as a text.  A page that is in use holds the encoding of a      *)
(* text, byte by byte; that text is its content, and its size is byteLen.  *)

LEMMA ConcatOfThree ==
  ASSUME NEW a \in Seq(Byte), NEW b \in Seq(Byte), NEW d \in Seq(Byte)
  PROVE  (a \o b) \o d = a \o (b \o d)
<1> DEFINE n == Len(a) + Len(b) + Len(d)
           left == (a \o b) \o d
           right == a \o (b \o d)
<1>1. left \in Seq(Byte) /\ Len(left) = n /\ right \in Seq(Byte) /\ Len(right) = n
  OBVIOUS
<1>2. ASSUME NEW i \in 1..n  PROVE  left[i] = right[i]
  <2>1. CASE i <= Len(a)
    BY <2>1
  <2>2. CASE i > Len(a) /\ i <= Len(a) + Len(b)
    BY <2>2
  <2>3. CASE i > Len(a) + Len(b)
    BY <2>3
  <2> QED  BY <2>1, <2>2, <2>3
<1> HIDE DEF left, right, n
<1>3. left \in [1..n -> Byte] /\ right \in [1..n -> Byte]
  <2>1. \A s \in Seq(Byte) : s \in [1..Len(s) -> Byte]
    OBVIOUS
  <2>2. left \in [1..Len(left) -> Byte] /\ right \in [1..Len(right) -> Byte]
    BY <1>1, <2>1
  <2> QED  BY <1>1, <2>2
<1>4. left = right
  <2>1. \A f, g : f = [i \in 1..n |-> f[i]] /\ g = [i \in 1..n |-> g[i]] /\ (\A i \in 1..n : f[i] = g[i]) => f = g
    BY Zenon
  <2>2. left = [i \in 1..n |-> left[i]] /\ right = [i \in 1..n |-> right[i]]
    BY <1>3
  <2> QED  BY <1>2, <2>1, <2>2, Zenon
<1> QED  BY <1>4 DEF left, right

LEMMA EncodeConcat ==
  ASSUME NEW text \in Seq(Chars), NEW slice \in Seq(Chars)
  PROVE  text \o slice \in Seq(Chars) /\ Encode(text \o slice) = Encode(text) \o Encode(slice)
<1> DEFINE S == {s \in Seq(Chars) : Encode(text \o s) = Encode(text) \o Encode(s)}
<1>1. <<>> \in S
  <2>1. text \o <<>> = text /\ Encode(text) \in Seq(Byte)
    BY EncodeFacts
  <2>2. Encode(text) \o <<>> = Encode(text)
    BY <2>1
  <2> QED  BY <2>1, <2>2, EncodeAppend
<1>2. ASSUME NEW s \in Seq(Chars), NEW c \in Chars, s \in S  PROVE  Append(s, c) \in S
  <2>1. text \o s \in Seq(Chars) /\ Append(s, c) \in Seq(Chars)
    OBVIOUS
  <2>2. text \o Append(s, c) = Append(text \o s, c)
    OBVIOUS
  <2>3. /\ Encode(Append(text \o s, c)) = Encode(text \o s) \o BytesOf(c)
        /\ Encode(Append(s, c)) = Encode(s) \o BytesOf(c)
    BY <2>1, EncodeAppend
  <2>4. Encode(text) \in Seq(Byte) /\ Encode(s) \in Seq(Byte) /\ BytesOf(c) \in Seq(Byte)
    BY EncodeFacts, BytesOfCodepoint
  <2>5. Encode(text \o s) = Encode(text) \o Encode(s)
    BY <1>2
  <2>6. (Encode(text) \o Encode(s)) \o BytesOf(c) = Encode(text) \o (Encode(s) \o BytesOf(c))
    <3>1. \A a, b, d \in Seq(Byte) : (a \o b) \o d = a \o (b \o d)
      BY ConcatOfThree
    <3> QED  BY <2>4, <3>1, Zenon
  <2>7. Encode(text \o Append(s, c)) = Encode(text) \o Encode(Append(s, c))
    BY <2>2, <2>3, <2>5, <2>6, Zenon
  <2> QED  BY <2>1, <2>7
<1> HIDE DEF S
<1>3. slice \in S
  BY <1>1, <1>2, TextInduction
<1> QED  BY <1>3 DEF S

(* Size counts the bytes.                                                  *)
Sizes(text, n, size) ==
  size = [i \in 0..n |-> IF i = 0 THEN 0 ELSE size[i-1] + Width[text[i]]]

LEMMA SizesExist ==
  ASSUME NEW text
  PROVE  \A n \in Nat : \E size : Sizes(text, n, size)
<1> DEFINE S == {n \in Nat : \E size : Sizes(text, n, size)}
<1>1. 0 \in S
  <2> DEFINE size == [i \in 0..0 |-> 0]
  <2>1. Sizes(text, 0, size)
    BY DEF Sizes
  <2> QED  BY <2>1
<1>2. ASSUME NEW n \in Nat, n \in S  PROVE  n + 1 \in S
  <2>1. PICK size : Sizes(text, n, size)
    BY <1>2
  <2> DEFINE next == [i \in 0..n+1 |-> IF i <= n THEN size[i] ELSE size[n] + Width[text[n+1]]]
  <2>2. \A i \in 0..n : size[i] = IF i = 0 THEN 0 ELSE size[i-1] + Width[text[i]]
    BY <2>1 DEF Sizes
  <2>3. \A i \in 0..n+1 : next[i] = IF i = 0 THEN 0 ELSE next[i-1] + Width[text[i]]
    <3> SUFFICES ASSUME NEW i \in 0..n+1
                 PROVE  next[i] = IF i = 0 THEN 0 ELSE next[i-1] + Width[text[i]]
      OBVIOUS
    <3>1. CASE i <= n
      BY <2>2, <3>1
    <3>2. CASE i = n + 1
      BY <3>2
    <3> QED  BY <3>1, <3>2
  <2>4. Sizes(text, n + 1, next)
    BY <2>3 DEF Sizes
  <2> QED  BY <2>4
<1> HIDE DEF S
<1>3. \A n \in Nat : n \in S
  BY <1>1, <1>2, SetInduction
<1> QED  BY <1>3 DEF S

LEMMA SizeIsLength ==
  ASSUME NEW text \in Seq(Chars)
  PROVE  Text!Size(text) = Len(Encode(text))
<1> DEFINE n == Len(text)
           size[i \in 0..n] == IF i = 0 THEN 0 ELSE size[i-1] + Width[text[i]]
<1>1. Text!Size(text) = size[n]
  BY DEF Text!Size
<1>2. Sizes(text, n, size)
  <2>1. \E f : Sizes(text, n, f)
    BY SizesExist
  <2> QED  BY <2>1 DEF Sizes
<1> HIDE DEF size
<1>3. \A i \in 0..n : size[i] = IF i = 0 THEN 0 ELSE size[i-1] + Width[text[i]]
  BY <1>2 DEF Sizes
<1>4. PICK b : EncodeRun(text, b)
  BY EncodeRuns
<1>5. n \in Nat /\ \A i \in 1..n : text[i] \in Chars
  OBVIOUS
<1>6. b[0] = <<>> /\ (\A i \in 1..n : b[i] = b[i-1] \o BytesOf(text[i])) /\ Encode(text) = b[n]
  BY <1>4 DEF EncodeRun
<1> HIDE DEF n
<1> DEFINE S == {i \in 0..n : b[i] \in Seq(Byte) /\ Len(b[i]) = size[i]}
<1>7. 0 \in S
  <2>1. 0 \in 0..n
    BY <1>5
  <2>2. size[0] = 0
    BY <1>3, <2>1
  <2>3. <<>> \in Seq(Byte) /\ Len(<<>>) = 0
    OBVIOUS
  <2> QED  BY <1>6, <2>1, <2>2, <2>3
<1>8. ASSUME NEW i \in 1..n, i - 1 \in S  PROVE  i \in S
  <2>1. i \in 0..n /\ i # 0 /\ text[i] \in Chars
    BY <1>5
  <2>2. b[i] = b[i-1] \o BytesOf(text[i]) /\ size[i] = size[i-1] + Width[text[i]]
    BY <1>3, <1>6, <2>1
  <2>3. BytesOf(text[i]) \in Seq(Byte) /\ Len(BytesOf(text[i])) = Width[text[i]]
    BY <2>1, BytesOfCodepoint
  <2>4. b[i-1] \in Seq(Byte) /\ Len(b[i-1]) = size[i-1]
    BY <1>8
  <2>5. \A s, t \in Seq(Byte) : s \o t \in Seq(Byte) /\ Len(s \o t) = Len(s) + Len(t)
    OBVIOUS
  <2>6. b[i] \in Seq(Byte) /\ Len(b[i]) = size[i]
    BY <2>2, <2>3, <2>4, <2>5
  <2> QED  BY <2>1, <2>6
<1> HIDE DEF S
<1>9. \A i \in 0..n : i \in S
  BY <1>5, <1>7, <1>8, IndexInduction
<1>10. n \in S
  BY <1>5, <1>9
<1> QED  BY <1>1, <1>6, <1>10 DEF S

(* Reading the bytes of a text back, codepoint by codepoint.               *)
ReadsBytes(page, n, chars) ==
  \A o \in 0..n : chars[o] = IF o = 0 THEN <<>>
                             ELSE IF page[o-1].place # 0 THEN chars[o-1]
                             ELSE Append(chars[o-1], page[o-1].of)

HoldsBytes(page, n, bytes) ==
  Len(bytes) <= n /\ \A k \in 1..Len(bytes) : page[k-1] = bytes[k]

LEMMA OneCodepointIsRead ==
  ASSUME NEW n \in Nat, NEW page, NEW chars, ReadsBytes(page, n, chars),
         NEW bytes \in Seq(Byte), NEW c \in Chars, HoldsBytes(page, n, bytes \o BytesOf(c))
  PROVE  /\ HoldsBytes(page, n, bytes)
         /\ chars[Len(bytes \o BytesOf(c))] = Append(chars[Len(bytes)], c)
<1> DEFINE m == Len(bytes)
           w == Width[c]
           longer == bytes \o BytesOf(c)
<1>1. /\ w \in 1..4 /\ BytesOf(c) \in Seq(Byte) /\ Len(BytesOf(c)) = w
      /\ \A k \in 1..w : BytesOf(c)[k].of = c /\ (BytesOf(c)[k].place = 0 <=> k = 1)
  BY BytesOfCodepoint, WidthAssumption DEF BytesOf
<1>2. /\ m \in Nat /\ Len(longer) = m + w
      /\ \A k \in 1..m : longer[k] = bytes[k]
      /\ \A k \in 1..w : longer[m+k] = BytesOf(c)[k]
  BY <1>1
<1> HIDE DEF m, w, longer
<1>3. m + w <= n /\ \A k \in 1..m+w : page[k-1] = longer[k]
  BY <1>2 DEF HoldsBytes, longer
<1>4. HoldsBytes(page, n, bytes)
  <2>1. m <= n /\ \A k \in 1..m : k \in 1..m+w
    BY <1>1, <1>2, <1>3
  <2>2. \A k \in 1..m : page[k-1] = bytes[k]
    BY <1>2, <1>3, <2>1
  <2> QED  BY <2>1, <2>2 DEF HoldsBytes, m
<1>5. ASSUME NEW k \in 1..w
      PROVE  chars[m+k] = IF k = 1 THEN Append(chars[m], c) ELSE chars[m + (k-1)]
  <2>1. /\ m + k \in 1..m+w /\ m + k \in 0..n /\ m + k # 0 /\ (m + k) - 1 = m + (k - 1)
        /\ k = 1 => m + (k - 1) = m
    BY <1>1, <1>2, <1>3
  <2>2. page[m + (k-1)] = BytesOf(c)[k]
    BY <1>2, <1>3, <2>1
  <2>3. chars[m+k] = IF page[m + (k-1)].place # 0 THEN chars[m + (k-1)]
                     ELSE Append(chars[m + (k-1)], page[m + (k-1)].of)
    BY <2>1 DEF ReadsBytes
  <2> QED  BY <1>1, <2>1, <2>2, <2>3
<1>6. chars[m+w] = Append(chars[m], c)
  <2> DEFINE S == {k \in 0..w : k = 0 \/ chars[m+k] = Append(chars[m], c)}
  <2>1. 0 \in S /\ w \in Nat
    BY <1>1
  <2>2. ASSUME NEW k \in 1..w, k - 1 \in S  PROVE  k \in S
    <3>0. k \in 0..w /\ (k # 1 => k - 1 # 0)
      BY <2>1
    <3>1. chars[m+k] = Append(chars[m], c)
      <4>1. CASE k = 1
        BY <1>5, <4>1
      <4>2. CASE k # 1
        <5>1. chars[m + (k-1)] = Append(chars[m], c)
          BY <2>2, <3>0, <4>2
        <5> QED  BY <1>5, <4>2, <5>1
      <4> QED  BY <4>1, <4>2
    <3> QED  BY <3>0, <3>1
  <2> HIDE DEF S
  <2>3. \A k \in 0..w : k \in S
    BY <2>1, <2>2, IndexInduction
  <2>4. w \in S /\ w # 0
    BY <1>1, <2>3
  <2> QED  BY <2>4 DEF S
<1> QED  BY <1>2, <1>4, <1>6 DEF m, longer

LEMMA TextIsRead ==
  ASSUME NEW n \in Nat, NEW page, NEW chars, ReadsBytes(page, n, chars),
         NEW text \in Seq(Chars), HoldsBytes(page, n, Encode(text))
  PROVE  chars[Len(Encode(text))] = text
<1> DEFINE S == {t \in Seq(Chars) : HoldsBytes(page, n, Encode(t)) => chars[Len(Encode(t))] = t}
<1>1. <<>> \in S
  <2>1. Encode(<<>>) = <<>> /\ chars[0] = <<>> /\ <<>> \in Seq(Chars) /\ Len(<<>>) = 0
    BY EncodeAppend DEF ReadsBytes
  <2> QED  BY <2>1
<1>2. ASSUME NEW t \in Seq(Chars), NEW c \in Chars, t \in S  PROVE  Append(t, c) \in S
  <2>1. Encode(t) \in Seq(Byte) /\ Encode(Append(t, c)) = Encode(t) \o BytesOf(c) /\ Append(t, c) \in Seq(Chars)
    BY EncodeAppend, EncodeFacts
  <2>2. ASSUME HoldsBytes(page, n, Encode(Append(t, c)))
        PROVE  chars[Len(Encode(Append(t, c)))] = Append(t, c)
    <3>1. /\ HoldsBytes(page, n, Encode(t))
          /\ chars[Len(Encode(t) \o BytesOf(c))] = Append(chars[Len(Encode(t))], c)
      BY <2>1, <2>2, OneCodepointIsRead
    <3> QED  BY <1>2, <2>1, <3>1
  <2> QED  BY <2>1, <2>2
<1> HIDE DEF S
<1>3. text \in S
  BY <1>1, <1>2, TextInduction
<1> QED  BY <1>3 DEF S

(* Content is a run over the page.                                         *)
Reading(page, n, d) ==
  d = [o \in 0..n |-> IF o = 0 THEN <<>>
                      ELSE IF page[o-1].place # 0 THEN d[o-1] ELSE Append(d[o-1], page[o-1].of)]

LEMMA ReadingExists ==
  ASSUME NEW page
  PROVE  \A n \in Nat : \E d : Reading(page, n, d)
<1> DEFINE Step(before, o) == IF page[o-1].place # 0 THEN before ELSE Append(before, page[o-1].of)
           S == {n \in Nat : \E d : Reading(page, n, d)}
<1>1. 0 \in S
  <2> DEFINE d == [o \in 0..0 |-> <<>>]
  <2>1. Reading(page, 0, d)
    BY DEF Reading
  <2> QED  BY <2>1
<1>2. ASSUME NEW n \in Nat, n \in S  PROVE  n + 1 \in S
  <2>1. PICK d : Reading(page, n, d)
    BY <1>2
  <2> DEFINE e == [o \in 0..n+1 |-> IF o <= n THEN d[o] ELSE Step(d[n], n+1)]
  <2>2. \A o \in 0..n : d[o] = IF o = 0 THEN <<>> ELSE Step(d[o-1], o)
    BY <2>1 DEF Reading
  <2>3. \A o \in 0..n+1 : e[o] = IF o = 0 THEN <<>> ELSE Step(e[o-1], o)
    <3> SUFFICES ASSUME NEW o \in 0..n+1
                 PROVE  e[o] = IF o = 0 THEN <<>> ELSE Step(e[o-1], o)
      OBVIOUS
    <3> HIDE DEF Step
    <3>1. CASE o <= n
      BY <2>2, <3>1
    <3>2. CASE o = n + 1
      BY <3>2
    <3> QED  BY <3>1, <3>2
  <2>4. Reading(page, n + 1, e)
    BY <2>3 DEF Reading
  <2> QED  BY <2>4
<1> HIDE DEF S
<1>3. \A n \in Nat : n \in S
  BY <1>1, <1>2, SetInduction
<1> QED  BY <1>3 DEF S

(* The page holds the encoding of a text, while it is in use.              *)
Holds(text) ==
  /\ text \in Seq(Chars)
  /\ Len(Encode(text)) = byteLen
  /\ \A k \in 1..byteLen : mem[ptr][k-1] = Encode(text)[k]

TextInv ==
  /\ PageInv
  /\ phase = "live" => \E text : Holds(text)

ContentIsRead == byteLen \in Nat => \A text : Holds(text) => Content = text

LEMMA ReadContent == ContentIsRead
<1> SUFFICES ASSUME byteLen \in Nat, NEW text, Holds(text)  PROVE  Content = text
  BY DEF ContentIsRead
<1> DEFINE chars[o \in 0..byteLen] ==
             IF o = 0 THEN <<>>
             ELSE IF Continuation(o-1) THEN chars[o-1] ELSE Append(chars[o-1], mem[ptr][o-1].of)
<1>1. Content = chars[byteLen]
  BY DEF Content
<1>2. ReadsBytes(mem[ptr], byteLen, chars)
  <2>1. \E d : d = [o \in 0..byteLen |->
                     IF o = 0 THEN <<>>
                     ELSE IF Continuation(o-1) THEN d[o-1] ELSE Append(d[o-1], mem[ptr][o-1].of)]
    BY ReadingExists DEF Reading, Continuation
  <2>2. chars = [o \in 0..byteLen |->
                   IF o = 0 THEN <<>>
                   ELSE IF Continuation(o-1) THEN chars[o-1] ELSE Append(chars[o-1], mem[ptr][o-1].of)]
    BY <2>1
  <2> HIDE DEF chars
  <2> QED  BY <2>2 DEF ReadsBytes, Continuation
<1> HIDE DEF chars
<1>3. HoldsBytes(mem[ptr], byteLen, Encode(text))
  BY DEF Holds, HoldsBytes
<1>4. text \in Seq(Chars) /\ Len(Encode(text)) = byteLen
  BY DEF Holds
<1> QED  BY <1>1, <1>2, <1>3, <1>4, TextIsRead

LEMMA ReadContentNext == ContentIsRead'
BY ReadContent, PTL

LEMMA EmptyIsHeld == byteLen = 0 => Holds(<<>>) /\ Content = <<>>
<1> SUFFICES ASSUME byteLen = 0  PROVE  Holds(<<>>) /\ Content = <<>>
  OBVIOUS
<1>1. <<>> \in Seq(Chars) /\ Len(<<>>) = 0 /\ 1..0 = {}
  OBVIOUS
<1>2. Holds(<<>>)
  BY <1>1, EncodeAppend DEF Holds
<1> QED  BY <1>2, ReadContent DEF ContentIsRead

LEMMA EmptyIsHeldNext == byteLen' = 0 => Holds(<<>>)' /\ Content' = <<>>
<1>1. (byteLen = 0)' => (Holds(<<>>) /\ Content = <<>>)'
  BY EmptyIsHeld, PTL
<1> QED  BY <1>1

(* What append_slice and delete_backwards make of the text.                *)
LEMMA SliceIsAppended ==
  ASSUME PageInv, NEW text, Holds(text), NEW slice \in Slices, AppendSlice(slice)
  PROVE  Holds(text \o slice)' /\ Len(Encode(slice)) = byteLen' - byteLen
<1> DEFINE old == Encode(text)
           new == Encode(slice)
<1>1. /\ text \in Seq(Chars) /\ slice \in Seq(Chars) /\ old \in Seq(Byte) /\ new \in Seq(Byte)
      /\ text \o slice \in Seq(Chars) /\ Encode(text \o slice) = old \o new
  BY EncodeConcat, EncodeFacts, SlicesAssumption DEF Holds
<1>2. /\ byteLen \in Nat /\ Len(old) = byteLen /\ \A k \in 1..byteLen : mem[ptr][k-1] = old[k]
      /\ Capacity \in Nat
  BY PageAssumption DEF Holds, PageInv, TypeOK
<1>3. /\ byteLen + Len(new) <= Capacity /\ byteLen' = byteLen + Len(new) /\ ptr' = ptr
      /\ ptr \in Pages /\ mem \in [Pages -> [Offset -> Byte]]
      /\ mem' = [mem EXCEPT ![ptr] = [o \in Offset |->
                  IF o \in byteLen .. byteLen + Len(new) - 1 THEN new[o - byteLen + 1] ELSE @[o]]]
  BY DEF AppendSlice, PageInv, TypeOK
<1> HIDE DEF old, new
<1>4. \A o \in Offset : mem'[ptr'][o] = IF o \in byteLen .. byteLen + Len(new) - 1
                                        THEN new[o - byteLen + 1] ELSE mem[ptr][o]
  BY <1>3
<1>5. /\ Len(old \o new) = byteLen + Len(new) /\ Len(new) \in Nat
      /\ \A k \in 1..byteLen + Len(new) :
           (old \o new)[k] = IF k <= byteLen THEN old[k] ELSE new[k - byteLen]
  <2>1. \A s, t \in Seq(Byte) :
          /\ Len(s) \in Nat /\ Len(t) \in Nat /\ Len(s \o t) = Len(s) + Len(t)
          /\ \A k \in 1..Len(s) + Len(t) : (s \o t)[k] = IF k <= Len(s) THEN s[k] ELSE t[k - Len(s)]
    OBVIOUS
  <2> QED  BY <1>1, <1>2, <2>1
<1>6. ASSUME NEW k \in 1..byteLen'  PROVE  mem'[ptr'][k-1] = (old \o new)[k]
  <2>1. k \in 1..byteLen + Len(new) /\ k - 1 \in Offset
    BY <1>2, <1>3, <1>5 DEF Offset
  <2>2. CASE k <= byteLen
    <3>1. k \in 1..byteLen /\ k - 1 \notin byteLen .. byteLen + Len(new) - 1
      BY <1>2, <2>1, <2>2
    <3> QED  BY <1>2, <1>4, <1>5, <2>1, <2>2, <3>1
  <2>3. CASE k > byteLen
    <3>1. k - 1 \in byteLen .. byteLen + Len(new) - 1 /\ (k - 1) - byteLen + 1 = k - byteLen
      BY <1>2, <1>5, <2>1, <2>3
    <3>2. ~(k <= byteLen)
      BY <1>2, <2>1, <2>3
    <3> QED  BY <1>4, <1>5, <2>1, <3>1, <3>2
  <2> QED  BY <1>2, <2>1, <2>2, <2>3
<1>7. Len(Encode(slice)) = byteLen' - byteLen
  BY <1>2, <1>3, <1>5 DEF new
<1> QED  BY <1>1, <1>3, <1>5, <1>6, <1>7 DEF Holds

LEMMA LastIsDeleted ==
  ASSUME PageInv, NEW text, Holds(text), DeleteBackwards
  PROVE  text # <<>> /\ Holds(SubSeq(text, 1, Len(text) - 1))'
<1>1. /\ byteLen \in Nat /\ byteLen > 0 /\ byteLen <= Capacity /\ Capacity \in Nat
      /\ LastStart \in Starts /\ \A o \in Starts : o <= LastStart
  BY LastStartIsLast, PageAssumption DEF PageInv, TypeOK, DeleteBackwards
<1>2. text \in Seq(Chars) /\ Len(Encode(text)) = byteLen /\ \A k \in 1..byteLen : mem[ptr][k-1] = Encode(text)[k]
  BY DEF Holds
<1>3. text # <<>>
  BY <1>1, <1>2, EncodeAppend
<1> DEFINE n == Len(text)
           front == SubSeq(text, 1, n - 1)
           last == text[n]
           m == Len(Encode(front))
           w == Width[last]
<1>4. /\ front \in Seq(Chars) /\ last \in Chars /\ text = Append(front, last)
  <2>1. n \in Nat /\ n > 0
    BY <1>2, <1>3
  <2> QED  BY <1>2, <2>1
<1> HIDE DEF front, last
<1>5. /\ Encode(text) = Encode(front) \o BytesOf(last)
      /\ Encode(front) \in Seq(Byte) /\ BytesOf(last) \in Seq(Byte) /\ Len(BytesOf(last)) = w /\ w \in 1..4
      /\ \A k \in 1..w : BytesOf(last)[k].place = 0 <=> k = 1
  <2>1. Encode(text) = Encode(front) \o BytesOf(last)
    BY <1>4, EncodeAppend
  <2>2. Encode(front) \in Seq(Byte)
    BY <1>4, EncodeFacts
  <2>3. BytesOf(last) \in Seq(Byte) /\ Len(BytesOf(last)) = w /\ w \in 1..4
    BY <1>4, BytesOfCodepoint, WidthAssumption
  <2>4. \A k \in 1..w : BytesOf(last)[k].place = k - 1
    BY DEF BytesOf
  <2>5. \A k \in 1..w : BytesOf(last)[k].place = 0 <=> k = 1
    BY <2>3, <2>4
  <2> QED  BY <2>1, <2>2, <2>3, <2>5
<1> HIDE DEF w
<1>6. /\ m \in Nat /\ byteLen = m + w
      /\ \A k \in 1..m : Encode(text)[k] = Encode(front)[k]
      /\ \A k \in 1..w : Encode(text)[m+k] = BytesOf(last)[k]
  BY <1>2, <1>5
<1> HIDE DEF m
<1>7. \A k \in 1..w : mem[ptr][m+k-1].place = 0 <=> k = 1
  <2> SUFFICES ASSUME NEW k \in 1..w  PROVE  mem[ptr][m+k-1].place = 0 <=> k = 1
    OBVIOUS
  <2>1. m + k \in 1..byteLen /\ m + k - 1 = (m + k) - 1
    BY <1>5, <1>6
  <2>2. mem[ptr][m+k-1] = Encode(text)[m+k]
    BY <1>2, <2>1
  <2>3. Encode(text)[m+k] = BytesOf(last)[k] /\ (BytesOf(last)[k].place = 0 <=> k = 1)
    BY <1>5, <1>6
  <2> QED  BY <2>2, <2>3
<1>8. LastStart = m
  <2>1. m \in 0..byteLen-1 /\ 1 \in 1..w /\ m + 1 - 1 = m
    BY <1>5, <1>6
  <2>2. m \in Starts
    BY <1>7, <2>1 DEF Starts, Continuation
  <2>3. \A o \in Starts : o \in 0..byteLen-1 /\ mem[ptr][o].place = 0
    BY DEF Starts, Continuation
  <2> HIDE DEF Starts, LastStart
  <2>4. ASSUME LastStart > m  PROVE  FALSE
    <3>1. LastStart - m + 1 \in 1..w /\ m + (LastStart - m + 1) - 1 = LastStart /\ LastStart - m + 1 # 1
      BY <1>1, <1>5, <1>6, <2>3, <2>4
    <3> QED  BY <1>1, <1>7, <2>3, <3>1
  <2>5. LastStart \in Nat /\ m <= LastStart
    BY <1>1, <2>2, <2>3
  <2> QED  BY <1>6, <2>4, <2>5
<1>9. /\ byteLen' = m /\ ptr' = ptr /\ ptr \in Pages /\ mem \in [Pages -> [Offset -> Byte]]
      /\ mem' = [mem EXCEPT ![ptr] = [o \in Offset |-> IF o \in LastStart..byteLen-1 THEN Zero ELSE @[o]]]
  BY <1>8 DEF DeleteBackwards, PageInv, TypeOK
<1>10. ASSUME NEW k \in 1..byteLen'  PROVE  mem'[ptr'][k-1] = Encode(front)[k]
  <2>1. k \in 1..m /\ k \in 1..byteLen /\ k - 1 \in Offset /\ k - 1 \notin m..byteLen-1
    BY <1>1, <1>5, <1>6, <1>9 DEF Offset
  <2>2. mem'[ptr'][k-1] = mem[ptr][k-1]
    BY <1>8, <1>9, <2>1
  <2> QED  BY <1>2, <1>6, <2>1, <2>2
<1>11. Holds(front)'
  BY <1>4, <1>9, <1>10 DEF Holds, m
<1> QED  BY <1>3, <1>11 DEF front

-----------------------------------------------------------------------------
(* Step by step what SecretText promises.                                  *)

LEMMA InitText == Init => TextInv /\ Text!Init
BY InitPage DEF Init, TextInv, Text!Init

LEMMA OpensEmpty ==
  ASSUME phase' \in {"live", "failed", "gone"}, phase' = "live" => byteLen' = 0
  PROVE  /\ phase' = "live" => \E text : Holds(text)'
         /\ (IF phase = "live" THEN Content ELSE <<>>)' = <<>>
BY EmptyIsHeldNext

(* Every step of a caller that stops at an error is one of the text, or    *)
(* changes nothing of it.                                                  *)
LEMMA StepOfText ==
  ASSUME ~Ignores, TextInv, [Next]_vars
  PROVE  /\ TextInv'
         /\ [Text!Next]_<<IF phase = "live" THEN Content ELSE <<>>,
                           CASE phase = "none" -> "closed" [] phase = "live" -> "open" [] OTHER -> "over">>
<1> DEFINE text == IF phase = "live" THEN Content ELSE <<>>
           status == CASE phase = "none" -> "closed" [] phase = "live" -> "open" [] OTHER -> "over"
           Goal == /\ phase' = "live" => \E t : Holds(t)'
                   /\ [Text!Next]_<<text, status>>
<1> SUFFICES Goal
  BY NextPage DEF TextInv
<1>1. CASE NewFails
  BY <1>1 DEF NewFails, Text!Next, Text!Open
<1>2. ASSUME NEW p \in Pages, New(p)  PROVE  Goal
  BY <1>2, OpensEmpty DEF New, MapFresh, Text!Next, Text!Open
<1>3. ASSUME NEW p \in Pages, NEW done \in Protection, ResetTo(p, done)  PROVE  Goal
  BY <1>3, OpensEmpty DEF ResetTo, AfterReset, Failed, MapFresh, Text!Next, Text!Clear
<1>4. ASSUME NEW slice \in Slices, AppendSlice(slice)  PROVE  Goal
  <2>1. PICK t : Holds(t)
    BY <1>4 DEF TextInv, AppendSlice
  <2>2. Holds(t \o slice)' /\ Len(Encode(slice)) = byteLen' - byteLen
    BY <1>4, <2>1, SliceIsAppended DEF TextInv
  <2>3. byteLen \in Nat /\ byteLen' \in Nat /\ byteLen' <= Capacity
    BY <1>4, NextPage, PageAssumption DEF TextInv, PageInv, TypeOK
  <2>4. Content = t /\ Content' = t \o slice
    BY <2>1, <2>2, <2>3, ReadContent, ReadContentNext DEF ContentIsRead
  <2>5. Text!Size(t) = byteLen /\ Text!Size(slice) = byteLen' - byteLen
    BY <2>1, <2>2, SizeIsLength, SlicesAssumption DEF Holds
  <2>6. Text!AppendAll(slice)
    BY <1>4, <2>3, <2>4, <2>5 DEF AppendSlice, Text!AppendAll
  <2> QED  BY <2>2, <2>6 DEF Text!Next
<1>5. CASE DeleteBackwards
  <2>1. PICK t : Holds(t)
    BY <1>5 DEF TextInv, DeleteBackwards
  <2>2. t # <<>> /\ Holds(SubSeq(t, 1, Len(t) - 1))'
    BY <1>5, <2>1, LastIsDeleted DEF TextInv
  <2>3. byteLen \in Nat /\ byteLen' \in Nat
    BY <1>5, NextPage, PageAssumption DEF TextInv, PageInv, TypeOK
  <2>4. Content = t /\ Content' = SubSeq(t, 1, Len(t) - 1)
    BY <2>1, <2>2, <2>3, ReadContent, ReadContentNext DEF ContentIsRead
  <2>5. Text!DeleteLast
    BY <1>5, <2>2, <2>4 DEF DeleteBackwards, Text!DeleteLast
  <2> QED  BY <2>2, <2>5 DEF Text!Next
<1>6. CASE MunmapFails
  BY <1>6, OpensEmpty DEF MunmapFails, Failed, Text!Next, Text!Clear
<1>7. CASE MmapFails
  BY <1>7, OpensEmpty DEF MmapFails, Failed, Text!Next, Text!Clear
<1>8. CASE Drop
  BY <1>8, OpensEmpty DEF Drop, Text!Next, Text!Clear
<1>9. CASE TouchUnmapped
  BY <1>9 DEF TouchUnmapped, Dangling, TextInv, PageInv, StoppedInTime
<1>10. CASE UNCHANGED vars
  <2>1. Content' = Content /\ \A t : Holds(t)' <=> Holds(t)
    BY <1>10 DEF vars, Content, Continuation, Holds
  <2> QED  BY <1>10, <2>1 DEF vars, TextInv
<1> QED
  BY <1>1, <1>2, <1>3, <1>4, <1>5, <1>6, <1>7, <1>8, <1>9, <1>10 DEF Next

(* The page implements SecretText for a caller that stops when reset       *)
(* fails: at every step its bytes are the UTF-8 of a text, which an edit   *)
(* changes by whole codepoints or not at all, whatever widths they have    *)
(* (append_slice, delete_backwards, reset).                                *)
THEOREM EditsAreWhole ==
  ASSUME ~Ignores
  PROVE  Spec => TextSpec
<1>1. TextInv /\ [Next]_vars
        => TextInv' /\ [Text!Next]_<<IF phase = "live" THEN Content ELSE <<>>,
                             CASE phase = "none" -> "closed" [] phase = "live" -> "open" [] OTHER -> "over">>
  BY StepOfText
<1> QED  BY <1>1, InitText, PTL DEF Spec, TextSpec, Text!Spec
=============================================================================
