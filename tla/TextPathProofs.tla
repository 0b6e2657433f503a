---------------------------- MODULE TextPathProofs ----------------------------
(***************************************************************************)
(* Any prompt through any chain of anonymizers: what the provider reads is *)
(* placeholders and the client's own bytes, none of them of a detection    *)
(* that none replaced before it overlaps; a value has one placeholder; and *)
(* the client reads back what the provider meant.  And any response        *)
(* through the replay, by ChatStream's own specification: whatever is cut  *)
(* where, the client has the choices' texts at the end.                    *)
(***************************************************************************)
EXTENDS TextPath, SequenceTheorems, WellFoundedInduction, TLAPS

LEMMA LeastOf ==
  ASSUME NEW N \in SUBSET Nat, N # {}
  PROVE  \E x \in N : \A y \in N : x <= y
<1> DEFINE R == OpToRel(<, Nat)
<1>1. IsWellFoundedOn(R, Nat) BY NatLessThanWellFounded
<1>2. PICK x \in N : \A y \in N : ~(<<y, x>> \in R)
  <2> HIDE DEF R
  <2> QED BY <1>1, WFMin
<1>3. \A y \in N : ~(y < x) BY <1>2 DEF OpToRel
<1> QED BY <1>3

LEMMA LargestExists ==
  ASSUME NEW n \in Nat, NEW S, S \subseteq 1..n, S # {}
  PROVE  \E k \in S : \A j \in S : j <= k
<1> DEFINE T == {n - k : k \in S}
           R == OpToRel(<, Nat)
<1>1. T \subseteq Nat /\ T # {}
  <2>1. ASSUME NEW k \in S PROVE n - k \in Nat OBVIOUS
  <2>2. T \subseteq Nat BY <2>1
  <2>3. PICK k \in S : TRUE OBVIOUS
  <2>4. n - k \in T BY <2>3
  <2> QED BY <2>2, <2>4
<1>2. IsWellFoundedOn(R, Nat) BY NatLessThanWellFounded
<1>3. PICK x \in T : \A y \in T : ~(<<y, x>> \in R)
  <2> HIDE DEF T, R
  <2> QED BY <1>1, <1>2, WFMin
<1>4. \A y \in T : ~(y < x) BY <1>1, <1>3 DEF OpToRel
<1>5. PICK k \in S : x = n - k OBVIOUS
<1>6. ASSUME NEW j \in S PROVE j <= k
  <2>1. ~(n - j < n - k) BY <1>4, <1>5
  <2>2. j \in 1..n /\ k \in 1..n OBVIOUS
  <2> QED BY <2>1, <2>2
<1> QED BY <1>6

\* Texts one after the other: the joined prefixes exist, from the first on, and each is
\* a text.
Joining(f, s, n, B) ==
  /\ f \in [1..n -> Seq(B)] /\ FlattenSeq(s) = f[n]
  /\ \A i \in 1..n : f[i] = IF i = 1 THEN s[i] ELSE f[i-1] \o s[i]

LEMMA FlatJoined ==
  ASSUME NEW B, NEW n \in Nat, n # 0, NEW s \in [1..n -> Seq(B)]
  PROVE  \E f : Joining(f, s, n, B)
<1>1. s \in Seq(Seq(B)) /\ Len(s) = n OBVIOUS
<1> DEFINE Joined(f, i) == IF i = 1 THEN s[i] ELSE f[i-1] \o s[i]
           flatten == CHOOSE f : f = [i \in 1..n |-> Joined(f, i)]
           JoinedTo(m) == \E f \in [1..m -> Seq(B)] : \A i \in 1..m : f[i] = Joined(f, i)
           N == {m \in 0..n : ~JoinedTo(m)}
           O == {i \in 1..n : flatten[i] \notin Seq(B)}
<1>2. FlattenSeq(s) = flatten[n] BY <1>1 DEF FlattenSeq
<1>3. ASSUME NEW m \in N, \A k \in N : m <= k PROVE FALSE
  <2>1. m \in 0..n /\ ~JoinedTo(m) OBVIOUS
  <2>2. CASE m = 0
    <3> DEFINE f == [i \in 1..m |-> <<>>]
    <3>1. 1..m = {} BY <2>2
    <3>2. f \in [1..m -> Seq(B)] /\ \A i \in 1..m : f[i] = Joined(f, i) BY <3>1
    <3> QED BY <2>1, <3>2
  <2>3. CASE m # 0
    <3>1. m - 1 \in 0..n /\ m - 1 \notin N
      <4>1. m - 1 \in 0..n /\ ~(m <= m - 1) BY <2>1, <2>3
      <4> HIDE DEF N
      <4> QED BY <1>3, <4>1
    <3>2. PICK f \in [1..(m-1) -> Seq(B)] : \A i \in 1..(m-1) : f[i] = Joined(f, i) BY <3>1
    <3> DEFINE g == [i \in 1..m |-> IF i < m THEN f[i] ELSE Joined(f, m)]
    <3>3. \A i \in 1..m : i < m => i \in 1..(m-1) BY <2>1
    <3>4. Joined(f, m) \in Seq(B)
      <4>1. m \in 1..n /\ s[m] \in Seq(B) BY <2>1, <2>3
      <4>2. m # 1 => m - 1 \in 1..(m-1) BY <4>1
      <4>3. m # 1 => f[m-1] \in Seq(B) BY <4>2
      <4> QED BY <4>1, <4>3, ConcatProperties
    <3>5. g \in [1..m -> Seq(B)] BY <3>3, <3>4
    <3>6. ASSUME NEW i \in 1..m PROVE g[i] = Joined(g, i)
      <4>1. i # 1 => i - 1 \in 1..m /\ i - 1 < m BY <2>1
      <4>2. i # 1 => g[i-1] = f[i-1] BY <4>1
      <4>3. CASE i < m
        <5>1. g[i] = f[i] /\ f[i] = Joined(f, i) BY <3>2, <3>3, <4>3
        <5> HIDE DEF g
        <5> QED BY <4>2, <5>1
      <4>4. CASE ~(i < m)
        <5>1. i = m BY <4>4, <2>1
        <5>2. g[i] = Joined(f, m) BY <4>4
        <5> HIDE DEF g
        <5> QED BY <4>2, <5>1, <5>2
      <4> QED BY <4>3, <4>4
    <3> HIDE DEF g, Joined
    <3>7. JoinedTo(m) BY <3>5, <3>6
    <3> QED BY <2>1, <3>7
  <2> QED BY <2>2, <2>3
<1>4. N = {}
  <2>1. N \in SUBSET Nat OBVIOUS
  <2> HIDE DEF N
  <2> QED BY <1>3, <2>1, LeastOf
<1>5. PICK f \in [1..n -> Seq(B)] : \A i \in 1..n : f[i] = Joined(f, i)
  <2>1. n \in 0..n /\ n \notin N
    <3> HIDE DEF N
    <3> QED BY <1>4
  <2> QED BY <2>1
<1>6. f = [i \in 1..n |-> Joined(f, i)] BY <1>5
<1>7. flatten = [i \in 1..n |-> Joined(flatten, i)]
  <2> HIDE DEF Joined
  <2> QED BY <1>6
<1>8. ASSUME NEW i \in O, \A k \in O : i <= k PROVE FALSE
  <2>1. i \in 1..n /\ flatten[i] \notin Seq(B) /\ flatten[i] = Joined(flatten, i)
    <3> HIDE DEF flatten
    <3> QED BY <1>7
  <2>2. CASE i = 1 BY <2>1, <2>2
  <2>3. CASE i # 1
    <3> HIDE DEF flatten, O
    <3>1. i - 1 \in 1..n /\ ~(i <= i - 1) BY <2>1, <2>3
    <3>2. flatten[i-1] \in Seq(B)
      <4>1. i - 1 \notin O BY <3>1, <1>8
      <4> QED BY <3>1, <4>1 DEF O
    <3>3. s[i] \in Seq(B) BY <2>1
    <3> QED BY <2>1, <2>3, <3>2, <3>3, ConcatProperties
  <2> QED BY <2>2, <2>3
<1>9. O = {}
  <2>1. O \in SUBSET Nat OBVIOUS
  <2> HIDE DEF O
  <2> QED BY <1>8, <2>1, LeastOf
<1>10. flatten \in [1..n -> Seq(B)]
  <2> HIDE DEF flatten, Joined
  <2> QED BY <1>7, <1>9
<1>11. \A i \in 1..n : flatten[i] = Joined(flatten, i)
  <2> HIDE DEF flatten, Joined
  <2> QED BY <1>7
<1>12. Joining(flatten, s, n, B)
  <2> HIDE DEF flatten
  <2> QED BY <1>2, <1>10, <1>11 DEF Joining
<1> QED BY <1>12

LEMMA FlatTyped ==
  ASSUME NEW B, NEW n \in Nat, NEW s \in [1..n -> Seq(B)]
  PROVE  FlattenSeq(s) \in Seq(B)
<1>1. s \in Seq(Seq(B)) /\ Len(s) = n OBVIOUS
<1>2. CASE n = 0
  <2>1. s = <<>> /\ FlattenSeq(s) = s BY <1>1, <1>2 DEF FlattenSeq
  <2> QED BY <2>1, EmptySeq
<1>3. CASE n # 0
  <2>1. n \in 1..n BY <1>3
  <2>2. PICK f : Joining(f, s, n, B) BY <1>3, FlatJoined
  <2> QED BY <2>1, <2>2 DEF Joining
<1> QED BY <1>2, <1>3

\* Bytes of words and placeholders.
TextByte == [of : (Word \cup Entity) \X Nat, i : Nat]
Text == Seq(TextByte)
Part == Seq(Word)
\* What the client writes: words alone.
WordByte == [of : Word \X Nat, i : Nat]
Plain(text) == \A k \in 1..Len(text) : ~IsPlaceholder(text[k])

LEMMA WordTyped == ASSUME NEW w \in Word PROVE WordText(w) \in Seq(WordByte)
<1>1. Length[w] \in Nat BY WordAssumption
<1>2. \A i \in 1..Length[w] : [of |-> <<w, 0>>, i |-> i] \in WordByte BY <1>1 DEF WordByte
<1> QED BY <1>1, <1>2 DEF WordText

LEMMA WordsPlain == ASSUME NEW text \in Seq(WordByte) PROVE text \in Text /\ Plain(text)
<1>1. ASSUME NEW b \in WordByte PROVE b \in TextByte /\ ~IsPlaceholder(b)
  <2>1. PICK o : o = b.of OBVIOUS
  <2>2. o \in Word \X Nat BY <2>1 DEF WordByte
  <2>3. o[1] \in Word BY ONLY <2>2
  <2>4. o[1] \notin Entity BY <2>3, WordAssumption
  <2> QED BY <2>1, <2>4 DEF IsPlaceholder, WordByte, TextByte
<1>2. \A k \in 1..Len(text) : text[k] \in WordByte OBVIOUS
<1>3. text \in [1..Len(text) -> TextByte] /\ Len(text) \in Nat
  <2> HIDE DEF WordByte, TextByte
  <2> QED BY <1>1, <1>2
<1> QED BY <1>1, <1>2, <1>3 DEF Text, Plain

LEMMA FlatText == ASSUME NEW words \in Part PROVE Flat(words) \in Seq(WordByte)
<1>1. Len(words) \in Nat /\ \A i \in 1..Len(words) : words[i] \in Word BY DEF Part
<1>2. PICK s : s = [i \in 1..Len(words) |-> WordText(words[i])] OBVIOUS
<1>3. s \in [1..Len(words) -> Seq(WordByte)] BY <1>1, <1>2, WordTyped
<1>4. FlattenSeq(s) \in Seq(WordByte) BY <1>1, <1>3, FlatTyped
<1> QED BY <1>2, <1>4 DEF Flat

LEMMA ExtractedText == ASSUME NEW parts \in Seq(Part) PROVE Extracted(parts) \in Seq(WordByte)
<1> DEFINE Joins(i) == parts[i] # <<>> /\ \E j \in 1..i - 1 : parts[j] # <<>>
           joined == [i \in 1..Len(parts) |->
                        (IF Joins(i) THEN WordText(Newline) ELSE <<>>) \o Flat(parts[i])]
<1>1. Len(parts) \in Nat /\ \A i \in 1..Len(parts) : parts[i] \in Part OBVIOUS
<1>2. <<>> \in Seq(WordByte) /\ WordText(Newline) \in Seq(WordByte)
  BY WordTyped, WordAssumption, EmptySeq
<1>3. ASSUME NEW i \in 1..Len(parts)
      PROVE  (IF Joins(i) THEN WordText(Newline) ELSE <<>>) \o Flat(parts[i]) \in Seq(WordByte)
  <2> HIDE DEF Joins
  <2>1. (IF Joins(i) THEN WordText(Newline) ELSE <<>>) \in Seq(WordByte) BY <1>2
  <2>2. Flat(parts[i]) \in Seq(WordByte) BY <1>1, FlatText
  <2> QED BY <2>1, <2>2, ConcatProperties
<1>4. joined \in [1..Len(parts) -> Seq(WordByte)]
  <2> HIDE DEF Joins
  <2> QED BY <1>3
<1>5. FlattenSeq(joined) \in Seq(WordByte)
  <2> HIDE DEF joined
  <2> QED BY <1>1, <1>4, FlatTyped
<1> QED BY <1>5 DEF Extracted

-----------------------------------------------------------------------------
(* A stretch of a text is replaced, and where the rest comes from. *)

Moved(new, text, first, last, l) ==
  /\ Len(new) = first + l + (Len(text) - last)
  /\ \A k \in 1..first : new[k] = text[k]
  /\ \A k \in 1..Len(text) - last : new[first + l + k] = text[last + k]

LEMMA SplicedSeq ==
  ASSUME NEW S, NEW text \in Seq(S), NEW first \in Nat, NEW last \in Nat,
         first < last, last <= Len(text), NEW b \in Seq(S)
  PROVE  /\ Spliced(text, first, last, b) \in Seq(S)
         /\ Moved(Spliced(text, first, last, b), text, first, last, Len(b))
         /\ \A k \in 1..Len(b) : Spliced(text, first, last, b)[first + k] = b[k]
<1> SUFFICES ASSUME NEW new, new = Spliced(text, first, last, b),
                    NEW n \in Nat, n = Len(text), last <= n, NEW l \in Nat, l = Len(b)
             PROVE  new \in Seq(S) /\ Moved(new, text, first, last, l)
                    /\ \A k \in 1..l : new[first + k] = b[k]
  OBVIOUS
<1>0. n = Len(text) OBVIOUS
<1>1. \A k \in 1..n : text[k] \in S OBVIOUS
<1>2. PICK a : a = SubSeq(text, 1, first) OBVIOUS
<1>3. PICK c : c = SubSeq(text, last + 1, n) OBVIOUS
<1>4. a \in Seq(S) /\ Len(a) = first /\ \A k \in 1..first : a[k] = text[k]
  <2>1. \A i \in 1..first : text[i] \in S
    <3>1. \A i \in 1..first : i \in 1..n OBVIOUS
    <3> QED BY <1>1, <3>1
  <2>2. /\ a \in Seq(S) /\ Len(a) = IF 1 <= first THEN first - 1 + 1 ELSE 0
        /\ \A i \in 1..first - 1 + 1 : a[i] = text[1 + i - 1]
    BY <1>2, <2>1, SubSeqProperties
  <2>3. first - 1 + 1 = first /\ \A i \in 1..first : 1 + i - 1 = i OBVIOUS
  <2>4. Len(a) = first BY ONLY <2>2, first \in Nat
  <2>5. \A k \in 1..first : a[k] = text[k] BY ONLY <2>2, <2>3
  <2> QED BY ONLY <2>2, <2>4, <2>5
<1>5. c \in Seq(S) /\ Len(c) = n - last /\ \A k \in 1..n - last : c[k] = text[last + k]
  <2>1. \A i \in last + 1..n : text[i] \in S
    <3>1. \A i \in last + 1..n : i \in 1..n OBVIOUS
    <3> QED BY <1>1, <3>1
  <2>2. last + 1 \in Int /\ n \in Int OBVIOUS
  <2>3. /\ c \in Seq(S) /\ Len(c) = IF last + 1 <= n THEN n - (last + 1) + 1 ELSE 0
        /\ \A i \in 1..n - (last + 1) + 1 : c[i] = text[last + 1 + i - 1]
    BY <1>3, <2>1, <2>2, SubSeqProperties
  <2>4. n - (last + 1) + 1 = n - last /\ \A i \in 1..n - last : last + 1 + i - 1 = last + i
    OBVIOUS
  <2>5. Len(c) = n - last BY ONLY <2>3, n \in Nat, last \in Nat, last <= n
  <2>6. \A k \in 1..n - last : c[k] = text[last + k] BY ONLY <2>3, <2>4
  <2> QED BY ONLY <2>3, <2>5, <2>6
<1>6. PICK ab : ab = a \o b OBVIOUS
<1>7. ab \in Seq(S) /\ Len(ab) = first + l
      /\ \A k \in 1..first + l : ab[k] = IF k <= first THEN a[k] ELSE b[k - first]
  <2>1. /\ ab \in Seq(S) /\ Len(ab) = Len(a) + Len(b)
        /\ \A i \in 1..Len(a) + Len(b) : ab[i] = IF i <= Len(a) THEN a[i] ELSE b[i - Len(a)]
    BY <1>4, <1>6, ConcatProperties
  <2> QED BY ONLY <2>1, <1>4, l = Len(b)
<1>8. new = ab \o c BY <1>2, <1>3, <1>6 DEF Spliced
<1>9. new \in Seq(S) /\ Len(new) = first + l + (n - last)
      /\ \A k \in 1..first + l + (n - last) :
           new[k] = IF k <= first + l THEN ab[k] ELSE c[k - (first + l)]
  <2>1. /\ new \in Seq(S) /\ Len(new) = Len(ab) + Len(c)
        /\ \A i \in 1..Len(ab) + Len(c) : new[i] = IF i <= Len(ab) THEN ab[i] ELSE c[i - Len(ab)]
    <3>1. ab \in Seq(S) /\ c \in Seq(S) BY <1>5, <1>7
    <3> QED BY ONLY <1>8, <3>1, ConcatProperties
  <2> QED BY ONLY <2>1, <1>5, <1>7
<1> USE ONLY <1>4, <1>5, <1>7, <1>9, n \in Nat, first \in Nat, last \in Nat, l \in Nat, last <= n
<1>10. ASSUME NEW k \in 1..first PROVE new[k] = text[k]
  <2>1. k \in 1..first + l /\ k \in 1..first + l + (n - last) /\ k <= first /\ k <= first + l
    OBVIOUS
  <2>2. new[k] = ab[k] BY <2>1
  <2>3. ab[k] = a[k] BY <2>1
  <2> QED BY <2>2, <2>3
<1>11. ASSUME NEW k \in 1..l PROVE new[first + k] = b[k]
  <2>1. PICK j : j = first + k OBVIOUS
  <2>2. j \in 1..first + l /\ j \in 1..first + l + (n - last) /\ ~(j <= first) /\ j <= first + l
        /\ j - first = k
    BY <2>1
  <2>3. new[j] = ab[j] BY <2>2
  <2>4. ab[j] = b[k] BY <2>2
  <2> QED BY <2>1, <2>3, <2>4
<1>12. ASSUME NEW k \in 1..n - last PROVE new[first + l + k] = text[last + k]
  <2>1. PICK j : j = first + l + k OBVIOUS
  <2>2. j \in 1..first + l + (n - last) /\ ~(j <= first + l) /\ j - (first + l) = k
    BY <2>1
  <2>3. new[j] = c[k] BY <2>2
  <2> QED BY <2>1, <2>3
<1> QED BY ONLY <1>0, <1>9, <1>10, <1>11, <1>12 DEF Moved

LEMMA SplicedText ==
  ASSUME NEW text \in Text, NEW first \in Nat, NEW last \in Nat,
         first < last, last <= Len(text), NEW b \in Text
  PROVE  /\ Spliced(text, first, last, b) \in Text
         /\ Moved(Spliced(text, first, last, b), text, first, last, Len(b))
         /\ \A k \in 1..Len(b) : Spliced(text, first, last, b)[first + k] = b[k]
<1>1. text \in Seq(TextByte) /\ b \in Seq(TextByte) BY DEF Text
<1> QED BY ONLY <1>1, first \in Nat, last \in Nat, first < last, last <= Len(text), SplicedSeq
           DEF Text

LEMMA PlaceholderText ==
  ASSUME NEW p \in Entity \X Nat
  PROVE  Placeholder(p) \in Text /\ Len(Placeholder(p)) = PlaceholderLen
         /\ \A k \in 1..PlaceholderLen : IsPlaceholder(Placeholder(p)[k])
<1>1. PICK l \in Nat : l = PlaceholderLen BY WordAssumption
<1>2. PICK b : b = Placeholder(p) OBVIOUS
<1>3. b = [i \in 1..l |-> [of |-> p, i |-> i]] BY <1>1, <1>2 DEF Placeholder
<1>4. p[1] \in Entity /\ p \in (Word \cup Entity) \X Nat OBVIOUS
<1>5. \A i \in 1..l : [of |-> p, i |-> i] \in TextByte BY <1>4 DEF TextByte
<1>6. b \in [1..l -> TextByte] BY <1>3, <1>5
<1>7. \A k \in 1..l : b[k].of = p BY <1>3
<1> QED BY <1>1, <1>2, <1>4, <1>6, <1>7 DEF Text, IsPlaceholder

-----------------------------------------------------------------------------
(* Where the bytes of a text come from. *)

Trace == [from : Seq(Nat), found : SUBSET Nat, apart : SUBSET Nat]
Span == [type : Entity, start : Nat, end : Nat]
Inside(k, s) == s.start < k /\ k <= s.end

\* Every byte is a placeholder's or one of the client's own, none of them twice.
Follows(from, text, asked) ==
  /\ Len(from) = Len(text)
  /\ \A k \in 1..Len(text) : \/ from[k] = 0 /\ IsPlaceholder(text[k])
                             \/ from[k] # 0 /\ from[k] \in DOMAIN asked /\ text[k] = asked[from[k]]
  /\ \A j, k \in 1..Len(text) : from[j] = from[k] /\ from[k] # 0 => j = k
\* What is still there of what was detected apart is in a detection to come, which none
\* of those replaced before it overlaps and which ends inside the text.
Awaits(from, apart, spans, n) ==
  \A k \in 1..n : from[k] # 0 /\ from[k] \in apart =>
    \E s \in Apart(spans) : Inside(k, s) /\ s.end <= n
Tracks(trace, text, asked, spans) ==
  Follows(trace.from, text, asked) /\ Awaits(trace.from, trace.apart, spans, Len(text))

\* The client's own text is its own trace.
LEMMA TracedTracks ==
  ASSUME NEW text \in Text, NEW spans
  PROVE  Traced(text) \in Trace /\ Tracks(Traced(text), text, text, spans)
<1>1. PICK n \in Nat : n = Len(text) BY DEF Text
<1>2. PICK from : from = [k \in 1..n |-> k] OBVIOUS
<1>3. from \in Seq(Nat) /\ Len(from) = n /\ \A k \in 1..n : from[k] = k /\ from[k] # 0
  BY <1>1, <1>2
<1>4. Traced(text) = [from |-> from, found |-> {}, apart |-> {}] BY <1>1, <1>2 DEF Traced
<1>5. DOMAIN text = 1..n BY <1>1 DEF Text
<1>6. Follows(from, text, text) BY <1>1, <1>3, <1>5 DEF Follows
<1>7. Awaits(from, {}, spans, n) BY DEF Awaits
<1> QED BY <1>1, <1>3, <1>4, <1>6, <1>7 DEF Trace, Tracks

\* What is detected is in the detections.
LEMMA DetectedTracks ==
  ASSUME NEW text \in Text, NEW trace \in Trace, NEW asked, Tracks(trace, text, asked, {}),
         NEW spans \in SUBSET Span, \A s \in spans : s.end <= Len(text)
  PROVE  Detected(trace, spans) \in Trace /\ Tracks(Detected(trace, spans), text, asked, spans)
<1>1. PICK n \in Nat : n = Len(text) BY DEF Text
<1>2. PICK from : from = trace.from OBVIOUS
<1>3. from \in Seq(Nat) /\ Follows(from, text, asked) /\ Awaits(from, trace.apart, {}, n)
  BY <1>1, <1>2 DEF Trace, Tracks
<1>4. \A k \in 1..n : from[k] \in Nat BY <1>1, <1>3 DEF Follows
<1>5. ASSUME NEW some \in SUBSET spans PROVE Places(from, some) \in SUBSET Nat
  <2>1. ASSUME NEW s \in some, NEW k \in s.start + 1..s.end PROVE from[k] \in Nat
    <3>1. s.start \in Nat /\ s.end \in Nat /\ s.end <= n BY <1>1 DEF Span
    <3> QED BY <1>4, <3>1
  <2> QED BY <2>1 DEF Places
<1>6. PICK apart : apart = trace.apart \cup Places(from, Apart(spans)) OBVIOUS
<1>7. Apart(spans) \in SUBSET spans BY DEF Apart
<1>8. /\ Detected(trace, spans) \in Trace
      /\ Detected(trace, spans).from = from /\ Detected(trace, spans).apart = apart
  BY <1>2, <1>5, <1>6, <1>7 DEF Detected, Trace
<1>9. ASSUME NEW k \in 1..n, from[k] # 0, from[k] \in apart
      PROVE  \E s \in Apart(spans) : Inside(k, s) /\ s.end <= n
  <2>1. from[k] \notin trace.apart
    <3>1. Apart({}) = {} BY DEF Apart
    <3> QED BY <1>3, <1>9, <3>1 DEF Awaits
  <2>2. from[k] \in Places(from, Apart(spans)) BY <1>6, <1>9, <2>1
  <2>3. PICK s \in Apart(spans) : \E j \in s.start + 1..s.end : from[j] = from[k]
    BY <2>2 DEF Places
  <2>4. PICK j \in s.start + 1..s.end : from[j] = from[k] BY <2>3
  <2>5. s.start \in Nat /\ s.end \in Nat /\ s.end <= n BY <1>1, <1>7 DEF Span
  <2>6. j \in 1..n BY <2>5
  <2>7. j = k BY <1>1, <1>3, <1>9, <2>4, <2>6 DEF Follows
  <2>8. Inside(k, s) BY <2>5, <2>7 DEF Inside
  <2> QED BY <2>5, <2>8
<1>10. Awaits(from, apart, spans, n) BY <1>9 DEF Awaits
<1> QED BY <1>1, <1>3, <1>8, <1>10 DEF Tracks

\* The detection replaced next, of those left.
Foremost(s, spans) == s \in spans /\ \A r \in spans : r.start <= s.start

\* One that none replaced before it overlaps ends before the next one, or is the next one.
LEMMA ApartEnds ==
  ASSUME NEW spans \in SUBSET Span, NEW s, Foremost(s, spans), s.start < s.end,
         NEW r \in Apart(spans), r # s
  PROVE  r \in Apart(spans \ {s}) /\ r.end <= s.start
<1>1. r \in spans /\ s \in spans /\ ~Overlap(r, s) /\ r.start <= s.start BY DEF Apart, Foremost
<1>2. r.start \in Nat /\ r.end \in Nat /\ s.start \in Nat /\ s.end \in Nat BY <1>1 DEF Span
<1>3. ~(r.start < s.end /\ s.start < r.end) BY <1>1 DEF Overlap
<1>4. r.end <= s.start BY <1>1, <1>2, <1>3
<1>5. r \in Apart(spans \ {s}) BY <1>1 DEF Apart
<1> QED BY <1>4, <1>5

\* A detection passed over is not one of those.
LEMMA PassedTracks ==
  ASSUME NEW text \in Text, NEW trace, NEW asked, NEW spans \in SUBSET Span,
         Tracks(trace, text, asked, spans), NEW s, Foremost(s, spans), s.start < s.end,
         ~(s.end <= Len(text))
  PROVE  Tracks(trace, text, asked, spans \ {s})
<1>1. PICK n \in Nat : n = Len(text) BY DEF Text
<1>2. ASSUME NEW k \in 1..n, trace.from[k] # 0, trace.from[k] \in trace.apart
      PROVE  \E r \in Apart(spans \ {s}) : Inside(k, r) /\ r.end <= n
  <2>1. PICK r \in Apart(spans) : Inside(k, r) /\ r.end <= n BY <1>1, <1>2 DEF Tracks, Awaits
  <2>2. r # s BY <1>1, <2>1
  <2>3. r \in Apart(spans \ {s}) BY <2>2, ApartEnds
  <2> QED BY <2>1, <2>3
<1>3. Awaits(trace.from, trace.apart, spans \ {s}, n) BY <1>2 DEF Awaits
<1> QED BY <1>1, <1>3 DEF Tracks

\* Where a byte of the new text was, and what it is.
Moves(new, from, text, old, first, last, l) ==
  \A k \in 1..Len(new) :
    \/ from[k] = 0 /\ IsPlaceholder(new[k])
    \/ /\ k <= first /\ from[k] = old[k] /\ new[k] = text[k]
    \/ \E j \in 1..Len(text) : /\ last < j /\ k = first + l + (j - last)
                               /\ from[k] = old[j] /\ new[k] = text[j]

LEMMA SplicedMoves ==
  ASSUME NEW text \in Text, NEW old \in Seq(Nat), Len(old) = Len(text),
         NEW first \in Nat, NEW last \in Nat, first < last, last <= Len(text),
         NEW p \in Entity \X Nat,
         NEW new, new = Spliced(text, first, last, Placeholder(p)),
         NEW from, from = Spliced(old, first, last, Nowhere)
  PROVE  /\ new \in Text /\ from \in Seq(Nat) /\ Len(from) = Len(new) /\ first <= Len(new)
         /\ Moves(new, from, text, old, first, last, PlaceholderLen)
<1>1. PICK n \in Nat : n = Len(text) BY DEF Text
<1>2. PICK l \in Nat : l = PlaceholderLen BY WordAssumption
<1>3. PICK b : b = Placeholder(p) OBVIOUS
<1>4. b \in Text /\ Len(b) = l /\ \A k \in 1..l : IsPlaceholder(b[k])
  BY <1>2, <1>3, PlaceholderText
<1>5. Nowhere \in Seq(Nat) /\ Len(Nowhere) = l /\ \A k \in 1..l : Nowhere[k] = 0
  BY <1>2 DEF Nowhere
<1>6. /\ new \in Text /\ Moved(new, text, first, last, l)
      /\ \A k \in 1..l : new[first + k] = b[k]
  <2>1. /\ Spliced(text, first, last, b) \in Text
        /\ Moved(Spliced(text, first, last, b), text, first, last, Len(b))
        /\ \A k \in 1..Len(b) : Spliced(text, first, last, b)[first + k] = b[k]
    <3>1. b \in Text BY <1>4
    <3> QED BY ONLY text \in Text, first \in Nat, last \in Nat, first < last, last <= Len(text),
                    <3>1, SplicedText
  <2>2. new = Spliced(text, first, last, b) BY <1>3
  <2> QED BY ONLY <1>4, <2>1, <2>2
<1>7. /\ from \in Seq(Nat) /\ Moved(from, old, first, last, l)
      /\ \A k \in 1..l : from[first + k] = Nowhere[k]
  <2>1. PICK c : c = Nowhere OBVIOUS
  <2>2. c \in Seq(Nat) /\ from = Spliced(old, first, last, c) /\ Len(c) = l BY <1>5, <2>1
  <2>3. last <= Len(old) OBVIOUS
  <2>4. PICK S : S = Nat OBVIOUS
  <2>5. old \in Seq(S) /\ c \in Seq(S) BY ONLY old \in Seq(Nat), <2>2, <2>4
  <2>6. /\ Spliced(old, first, last, c) \in Seq(S)
        /\ Moved(Spliced(old, first, last, c), old, first, last, Len(c))
        /\ \A k \in 1..Len(c) : Spliced(old, first, last, c)[first + k] = c[k]
    BY ONLY first \in Nat, last \in Nat, first < last, <2>3, <2>5, SplicedSeq
  <2> QED BY ONLY <2>1, <2>2, <2>4, <2>6
<1>8. Len(new) = first + l + (n - last) /\ Len(from) = first + l + (n - last)
  BY <1>1, <1>6, <1>7 DEF Moved
<1>9. ASSUME NEW k \in 1..Len(new)
      PROVE  \/ from[k] = 0 /\ IsPlaceholder(new[k])
             \/ /\ k <= first /\ from[k] = old[k] /\ new[k] = text[k]
             \/ \E j \in 1..Len(text) : /\ last < j /\ k = first + l + (j - last)
                                        /\ from[k] = old[j] /\ new[k] = text[j]
  <2>1. CASE k <= first
    <3>1. k \in 1..first BY <1>8, <2>1
    <3> QED BY <1>6, <1>7, <2>1, <3>1 DEF Moved
  <2>2. CASE first < k /\ k <= first + l
    <3>1. PICK i \in 1..l : k = first + i
      <4>1. k - first \in 1..l /\ k = first + (k - first) BY <1>8, <2>2
      <4> QED BY <4>1
    <3> QED BY <1>4, <1>5, <1>6, <1>7, <3>1
  <2>3. CASE first + l < k
    <3>1. PICK i \in 1..n - last : k = first + l + i
      <4>1. k - (first + l) \in 1..n - last /\ k = first + l + (k - (first + l))
        BY <1>1, <1>8, <2>3
      <4> QED BY <4>1
    <3>2. PICK j \in 1..n : j = last + i BY <1>1
    <3>3. last < j /\ k = first + l + (j - last) BY <3>1, <3>2
    <3>4. from[k] = old[j] /\ new[k] = text[j] BY <1>1, <1>6, <1>7, <3>1, <3>2 DEF Moved
    <3> QED BY <1>1, <3>3, <3>4
  <2> QED BY <1>8, <2>1, <2>2, <2>3
<1>10. Moves(new, from, text, old, first, last, PlaceholderLen) BY <1>2, <1>9 DEF Moves
<1>11. first <= Len(new) BY <1>1, <1>8
<1> QED BY <1>6, <1>7, <1>8, <1>10, <1>11

\* Replacing a detection leaves the trace of the text.
LEMMA ReplacedTracks ==
  ASSUME NEW text \in Text, NEW trace \in Trace, NEW asked, NEW spans \in SUBSET Span,
         Tracks(trace, text, asked, spans), NEW s, Foremost(s, spans), s.start < s.end,
         s.end <= Len(text), NEW p \in Entity \X Nat,
         NEW new, new = Spliced(text, s.start, s.end, Placeholder(p)),
         NEW after, after = [trace EXCEPT !.from = Spliced(@, s.start, s.end, Nowhere)]
  PROVE  new \in Text /\ after \in Trace /\ Tracks(after, new, asked, spans \ {s})
<1>1. PICK n \in Nat : n = Len(text) BY DEF Text
<1>2. PICK first \in Nat, last \in Nat : first = s.start /\ last = s.end /\ first < last /\ last <= n
  BY <1>1 DEF Foremost, Span
<1>3. PICK l \in Nat : l = PlaceholderLen BY WordAssumption
<1>4. PICK old \in Seq(Nat) : old = trace.from BY DEF Trace
<1>5. Follows(old, text, asked) /\ Awaits(old, trace.apart, spans, n) BY <1>1, <1>4 DEF Tracks
<1>6. PICK from : from = Spliced(old, first, last, Nowhere) OBVIOUS
<1>7. /\ new \in Text /\ from \in Seq(Nat) /\ Len(from) = Len(new) /\ first <= Len(new)
      /\ Moves(new, from, text, old, first, last, l)
  <2>1. new = Spliced(text, first, last, Placeholder(p)) BY <1>2
  <2>2. Len(old) = Len(text) BY <1>5 DEF Follows
  <2> QED BY ONLY text \in Text, p \in Entity \X Nat, <1>1, <1>2, <1>3, <1>6, <2>1, <2>2, SplicedMoves
<1>8. /\ after \in Trace /\ after.from = from /\ after.apart = trace.apart
  BY <1>2, <1>4, <1>6, <1>7 DEF Trace
<1>9. PICK m \in Nat : m = Len(new) BY <1>7 DEF Text
<1>10. \A k \in 1..m : \/ from[k] = 0 /\ IsPlaceholder(new[k])
                       \/ /\ k <= first /\ from[k] = old[k] /\ new[k] = text[k]
                       \/ \E j \in 1..n : /\ last < j /\ k = first + l + (j - last)
                                          /\ from[k] = old[j] /\ new[k] = text[j]
  BY <1>1, <1>7, <1>9 DEF Moves
<1>11. \A k \in 1..n : \/ old[k] = 0 /\ IsPlaceholder(text[k])
                       \/ /\ old[k] # 0 /\ old[k] \in DOMAIN asked /\ text[k] = asked[old[k]]
  BY <1>1, <1>5 DEF Follows
<1>12. \A j, k \in 1..n : old[j] = old[k] /\ old[k] # 0 => j = k BY <1>1, <1>5 DEF Follows
<1>13. \A k \in 1..m : k <= first => k \in 1..n BY <1>2
<1>14. Follows(from, new, asked)
  <2>1. ASSUME NEW k \in 1..m
        PROVE  \/ from[k] = 0 /\ IsPlaceholder(new[k])
               \/ from[k] # 0 /\ from[k] \in DOMAIN asked /\ new[k] = asked[from[k]]
    <3>1. CASE from[k] = 0 /\ IsPlaceholder(new[k]) BY <3>1
    <3>2. CASE k <= first /\ from[k] = old[k] /\ new[k] = text[k]
      <4>1. k \in 1..n BY <1>13, <3>2
      <4> QED BY ONLY <1>11, <3>2, <4>1
    <3>3. CASE \E j \in 1..n : from[k] = old[j] /\ new[k] = text[j]
      <4>1. PICK j \in 1..n : from[k] = old[j] /\ new[k] = text[j] BY <3>3
      <4> QED BY ONLY <1>11, <4>1
    <3> QED BY ONLY <1>10, <3>1, <3>2, <3>3, k \in 1..m
  <2>2. ASSUME NEW j \in 1..m, NEW k \in 1..m, from[j] = from[k], from[k] # 0 PROVE j = k
    <3>1. PICK x \in 1..n : /\ from[j] = old[x]
                            /\ (x <= first /\ j = x) \/ (last < x /\ j = first + l + (x - last))
      BY <1>10, <1>13, <2>2
    <3>2. PICK y \in 1..n : /\ from[k] = old[y]
                            /\ (y <= first /\ k = y) \/ (last < y /\ k = first + l + (y - last))
      BY <1>10, <1>13, <2>2
    <3>3. x = y BY <1>12, <2>2, <3>1, <3>2
    <3> QED BY <1>2, <3>1, <3>2, <3>3
  <2> QED BY <1>7, <1>9, <2>1, <2>2 DEF Follows
<1>15. Awaits(from, trace.apart, spans \ {s}, m)
  <2>1. ASSUME NEW k \in 1..m, from[k] # 0, from[k] \in trace.apart
        PROVE  \E r \in Apart(spans \ {s}) : Inside(k, r) /\ r.end <= m
    <3>1. CASE k <= first /\ from[k] = old[k]
      <4>1. k \in 1..n BY <1>13, <3>1
      <4>2. PICK r \in Apart(spans) : Inside(k, r) /\ r.end <= n
        BY <1>5, <2>1, <3>1, <4>1 DEF Awaits
      <4>3. r # s BY <1>2, <3>1, <4>2 DEF Inside
      <4>4. r \in Apart(spans \ {s}) /\ r.end <= first BY <1>2, <4>2, <4>3, ApartEnds
      <4>5. r.end \in Nat BY DEF Apart, Span
      <4>6. r.end <= m BY <1>7, <1>9, <4>4, <4>5
      <4> QED BY <4>2, <4>4, <4>6
    <3>2. CASE \E j \in 1..n : last < j /\ from[k] = old[j]
      <4>1. PICK j \in 1..n : last < j /\ from[k] = old[j] BY <3>2
      <4>2. PICK r \in Apart(spans) : Inside(j, r) /\ r.end <= n
        BY <1>5, <2>1, <4>1 DEF Awaits
      <4>3. r # s BY <1>2, <4>1, <4>2 DEF Inside
      <4>4. r.end <= first BY <1>2, <4>2, <4>3, ApartEnds
      <4>5. r.end \in Nat BY DEF Apart, Span
      <4> QED BY <1>2, <4>1, <4>2, <4>4, <4>5 DEF Inside
    <3> QED BY <1>10, <2>1, <3>1, <3>2
  <2> QED BY <2>1 DEF Awaits
<1> QED BY <1>7, <1>8, <1>9, <1>14, <1>15 DEF Tracks

-----------------------------------------------------------------------------
(* What restoring a text does. *)

\* A placeholder of the provider's answer, and what the replacer reads from there on.
Stands(text, k, p) ==
  /\ k + PlaceholderLen <= Len(text) + 1
  /\ \A j \in 1..PlaceholderLen : text[k - 1 + j] = [of |-> p, i |-> j]
FoundAt(text, k, M) == {p \in DOMAIN M : IsPrefix(Placeholder(p), SubSeq(text, k, Len(text)))}
ReadAt(f, text, k, M) ==
  IF k > Len(text) THEN <<>>
  ELSE IF FoundAt(text, k, M) = {} THEN <<text[k]>> \o f[k + 1]
  ELSE M[CHOOSE p \in FoundAt(text, k, M) : TRUE] \o f[k + PlaceholderLen]
Reads(f, text, M) == f = [k \in 1..Len(text) + 1 |-> ReadAt(f, text, k, M)]
RestoredBy(M, text) == (CHOOSE f : Reads(f, text, M))[1]
Mapped(M) == DOMAIN M \subseteq Entity \X Nat /\ \A p \in DOMAIN M : M[p] \in Text

LEMMA RestoredIs == \A text : Restored(text) = RestoredBy(mappings, text)
<1> TAKE text
<1> DEFINE from == CHOOSE f : f = [k \in 1..Len(text) + 1 |->
             LET found == {p \in DOMAIN mappings :
                             IsPrefix(Placeholder(p), SubSeq(text, k, Len(text)))}
             IN  IF k > Len(text) THEN <<>>
                 ELSE IF found = {} THEN <<text[k]>> \o f[k + 1]
                 ELSE mappings[CHOOSE p \in found : TRUE] \o f[k + PlaceholderLen]]
<1>1. Restored(text) = from[1] BY DEF Restored
<1>2. from = CHOOSE f : Reads(f, text, mappings) BY DEF Reads, ReadAt, FoundAt
<1> QED BY <1>1, <1>2 DEF RestoredBy

LEMMA FoundStands ==
  ASSUME NEW text \in Text, NEW k \in 1..Len(text) + 1, NEW p \in Entity \X Nat
  PROVE  IsPrefix(Placeholder(p), SubSeq(text, k, Len(text))) <=> Stands(text, k, p)
<1>1. PICK n \in Nat : n = Len(text) BY DEF Text
<1>2. PICK l \in Nat : l = PlaceholderLen BY WordAssumption
<1>3. PICK b : b = Placeholder(p) OBVIOUS
<1>4. b \in Text /\ Len(b) = l /\ \A j \in 1..l : b[j] = [of |-> p, i |-> j]
  BY <1>2, <1>3, PlaceholderText DEF Placeholder
<1>5. PICK u : u = SubSeq(text, k, n) OBVIOUS
<1>6. k \in Int /\ k <= n + 1 /\ 1 <= k BY <1>1
<1>7. u \in Seq(TextByte) /\ Len(u) = n - k + 1 /\ \A i \in 1..n - k + 1 : u[i] = text[k + i - 1]
  <2>1. \A i \in k..n : text[i] \in TextByte
    <3>1. \A i \in 1..n : text[i] \in TextByte BY <1>1 DEF Text
    <3> QED BY <1>6, <3>1
  <2>2. /\ u \in Seq(TextByte) /\ Len(u) = IF k <= n THEN n - k + 1 ELSE 0
        /\ \A i \in 1..n - k + 1 : u[i] = text[k + i - 1]
    BY <1>5, <1>6, <2>1, SubSeqProperties
  <2> QED BY <1>6, <2>2
<1>8. SubSeq(b, 1, Len(b)) = b BY <1>4, SubSeqFull DEF Text
<1>9. CASE l <= n - k + 1
  <2>1. PICK v : v = SubSeq(u, 1, l) OBVIOUS
  <2>2. v \in Seq(TextByte) /\ Len(v) = l /\ \A i \in 1..l : v[i] = u[i]
    <3>1. \A i \in 1..l : u[i] \in TextByte
      <4>1. \A i \in 1..l : i \in 1..Len(u) BY <1>7, <1>9, <1>6
      <4> QED BY <1>7, <4>1
    <3>2. /\ v \in Seq(TextByte) /\ Len(v) = IF 1 <= l THEN l - 1 + 1 ELSE 0
          /\ \A i \in 1..l - 1 + 1 : v[i] = u[1 + i - 1]
      BY <2>1, <3>1, SubSeqProperties
    <3>3. l - 1 + 1 = l /\ \A i \in 1..l : 1 + i - 1 = i OBVIOUS
    <3>4. Len(v) = l BY ONLY <3>2, l \in Nat
    <3> QED BY ONLY <3>2, <3>3, <3>4
  <2>3. b = v <=> \A i \in 1..l : b[i] = v[i]
    <3>1. b \in Seq(TextByte) BY <1>4 DEF Text
    <3> QED BY ONLY <1>4, <2>2, <3>1, SeqEqual
  <2>4. \A i \in 1..l : v[i] = text[k + i - 1] /\ k + i - 1 = k - 1 + i
    <3>1. \A i \in 1..l : i \in 1..n - k + 1 BY <1>9, <1>6
    <3> QED BY <3>1, <2>2, <1>7, <1>6
  <2>5. b = v <=> \A j \in 1..l : text[k - 1 + j] = [of |-> p, i |-> j]
    BY ONLY <1>4, <2>3, <2>4
  <2>6. k + l <= n + 1 BY <1>6, <1>9
  <2>7. IsPrefix(b, u) <=> b = v BY <1>4, <1>7, <1>8, <1>9, <2>1 DEF IsPrefix
  <2> QED BY <1>1, <1>2, <1>3, <1>5, <2>5, <2>6, <2>7 DEF Stands
<1>10. CASE ~(l <= n - k + 1)
  <2>1. ~IsPrefix(b, u) BY <1>4, <1>7, <1>10 DEF IsPrefix
  <2>2. ~(k + l <= n + 1) BY <1>6, <1>10
  <2> QED BY <1>1, <1>2, <1>3, <1>5, <2>1, <2>2 DEF Stands
<1> QED BY <1>9, <1>10

\* At most one placeholder stands somewhere.
LEMMA StandsOne ==
  ASSUME NEW text, NEW k \in Nat, NEW p, NEW q, Stands(text, k, p)
  PROVE  /\ text[k] = [of |-> p, i |-> 1] /\ k < k + PlaceholderLen /\ k <= Len(text)
         /\ Stands(text, k, q) => q = p
<1>1. PICK l \in Nat \ {0} : l = PlaceholderLen BY WordAssumption
<1>2. 1 \in 1..l /\ k - 1 + 1 = k OBVIOUS
<1>3. text[k] = [of |-> p, i |-> 1] BY <1>1, <1>2 DEF Stands
<1>4. Stands(text, k, q) => text[k] = [of |-> q, i |-> 1] BY <1>1, <1>2 DEF Stands
<1>5. Stands(text, k, q) => q = p
  <2>1. [of |-> q, i |-> 1] = [of |-> p, i |-> 1] => q = p
    <3>1. [of |-> q, i |-> 1].of = q /\ [of |-> p, i |-> 1].of = p OBVIOUS
    <3> QED BY ONLY <3>1
  <2> QED BY <1>3, <1>4, <2>1
<1>6. k + l <= Len(text) + 1 BY <1>1 DEF Stands
<1> QED BY <1>1, <1>3, <1>5, <1>6

\* From the end of a text to its beginning.
LEMMA Backwards ==
  ASSUME NEW n \in Nat, NEW G, n + 1 \in G,
         \A k \in 1..n : (\A j \in k + 1..n + 1 : j \in G) => k \in G
  PROVE  \A k \in 1..n + 1 : k \in G
<1> DEFINE S == {k \in 1..n : k \notin G}
<1>1. S = {}
  <2> SUFFICES ASSUME S # {} PROVE FALSE OBVIOUS
  <2>1. PICK k \in S : \A j \in S : j <= k
    <3>1. S \subseteq 1..n OBVIOUS
    <3> HIDE DEF S
    <3> QED BY <3>1, LargestExists
  <2>2. ASSUME NEW j \in k + 1..n + 1 PROVE j \in G
    <3>1. CASE j = n + 1 BY <3>1
    <3>2. CASE j # n + 1
      <4>1. k \in 1..n OBVIOUS
      <4>2. j \in 1..n /\ ~(j <= k) BY <4>1, <3>2
      <4> QED BY <2>1, <4>2
    <3> QED BY <3>1, <3>2
  <2> QED BY <2>2
<1>2. \A k \in 1..n + 1 : k \in 1..n \/ k = n + 1 OBVIOUS
<1> QED BY <1>1, <1>2

\* Where the replacer goes on depends on what is behind only.
LEMMA ReadSame ==
  ASSUME NEW text \in Text, NEW M, Mapped(M), NEW f, NEW g, NEW k \in 1..Len(text) + 1,
         \A j \in k + 1..Len(text) + 1 : f[j] = g[j]
  PROVE  ReadAt(f, text, k, M) = ReadAt(g, text, k, M)
<1>1. PICK n \in Nat : n = Len(text) BY DEF Text
<1>2. CASE k > n BY <1>1, <1>2 DEF ReadAt
<1>3. CASE ~(k > n) /\ FoundAt(text, k, M) = {}
  <2>1. k + 1 \in k + 1..n + 1 BY <1>3
  <2>2. f[k + 1] = g[k + 1] BY <1>1, <2>1
  <2> QED BY <1>1, <1>3, <2>2 DEF ReadAt
<1>4. CASE ~(k > n) /\ FoundAt(text, k, M) # {}
  <2>1. PICK p \in FoundAt(text, k, M) : TRUE BY <1>4
  <2>2. p \in Entity \X Nat /\ Stands(text, k, p)
    BY <2>1, FoundStands DEF FoundAt, Mapped
  <2>3. PICK l \in Nat \ {0} : l = PlaceholderLen BY WordAssumption
  <2>4. k + l <= n + 1 BY <1>1, <2>2, <2>3 DEF Stands
  <2>5. k + l \in k + 1..n + 1 BY <2>4
  <2>6. f[k + l] = g[k + l] BY <1>1, <2>5
  <2> QED BY <1>1, <1>4, <2>3, <2>6 DEF ReadAt
<1> QED BY <1>2, <1>3, <1>4

LEMMA ReadTyped ==
  ASSUME NEW text \in Text, NEW M, Mapped(M), NEW f, NEW k \in 1..Len(text) + 1,
         \A j \in k + 1..Len(text) + 1 : f[j] \in Text
  PROVE  ReadAt(f, text, k, M) \in Text
<1>1. PICK n \in Nat : n = Len(text) BY DEF Text
<1>2. CASE k > n
  <2>1. ReadAt(f, text, k, M) = <<>> BY <1>1, <1>2 DEF ReadAt
  <2> QED BY <2>1, EmptySeq DEF Text
<1>3. CASE ~(k > n) /\ FoundAt(text, k, M) = {}
  <2>1. k + 1 \in k + 1..n + 1 /\ k \in 1..n BY <1>1, <1>3
  <2>2. f[k + 1] \in Seq(TextByte) /\ text[k] \in TextByte BY <1>1, <2>1 DEF Text
  <2>3. <<text[k]>> \in Seq(TextByte) BY <2>2
  <2>4. <<text[k]>> \o f[k + 1] \in Seq(TextByte) BY <2>2, <2>3, ConcatProperties
  <2> QED BY <1>1, <1>3, <2>4 DEF ReadAt, Text
<1>4. CASE ~(k > n) /\ FoundAt(text, k, M) # {}
  <2>1. PICK p \in FoundAt(text, k, M) : p = CHOOSE q \in FoundAt(text, k, M) : TRUE BY <1>4
  <2>2. p \in Entity \X Nat /\ Stands(text, k, p) /\ p \in DOMAIN M
    BY <2>1, FoundStands DEF FoundAt, Mapped
  <2>3. PICK l \in Nat \ {0} : l = PlaceholderLen BY WordAssumption
  <2>4. k + l <= n + 1 BY <1>1, <2>2, <2>3 DEF Stands
  <2>5. k + l \in k + 1..n + 1 BY <2>4
  <2>6. f[k + l] \in Seq(TextByte) /\ M[p] \in Seq(TextByte) BY <1>1, <2>2, <2>5 DEF Mapped, Text
  <2>7. M[p] \o f[k + l] \in Seq(TextByte) BY <2>6, ConcatProperties
  <2> QED BY <1>1, <1>4, <2>1, <2>3, <2>7 DEF ReadAt, Text
<1> QED BY <1>2, <1>3, <1>4

\* The recursive function of a text exists.
LEMMA RestoredText ==
  ASSUME NEW text \in Text, NEW M, Mapped(M)
  PROVE  \E f \in [1..Len(text) + 1 -> Text] : Reads(f, text, M) /\ RestoredBy(M, text) = f[1]
<1>1. PICK n \in Nat : n = Len(text) BY DEF Text
<1> DEFINE ReadFrom(f, k) == \A j \in k..n + 1 : f[j] = ReadAt(f, text, j, M)
           G == {k \in 1..n + 1 : \E f \in [k..n + 1 -> Text] : ReadFrom(f, k)}
<1>2. ASSUME NEW k \in 1..n + 1, NEW f, \A j \in k + 1..n + 1 : f[j] \in Text,
             ReadFrom(f, k + 1)
      PROVE  k \in G
  <2>1. PICK b : b = ReadAt(f, text, k, M) OBVIOUS
  <2>2. b \in Text BY <1>1, <1>2, <2>1, ReadTyped
  <2>3. PICK g : g = [j \in k..n + 1 |-> IF j = k THEN b ELSE f[j]] OBVIOUS
  <2>4. \A j \in k + 1..n + 1 : j \in k..n + 1 /\ j # k OBVIOUS
  <2>5. k \in k..n + 1 /\ g[k] = b /\ \A j \in k + 1..n + 1 : g[j] = f[j] BY <2>3, <2>4
  <2>6. \A j \in k..n + 1 : j = k \/ j \in k + 1..n + 1 OBVIOUS
  <2>7. g \in [k..n + 1 -> Text] BY <1>2, <2>2, <2>3, <2>6
  <2>8. ASSUME NEW j \in k..n + 1 PROVE g[j] = ReadAt(g, text, j, M)
    <3>1. j \in 1..n + 1 /\ \A i \in j + 1..n + 1 : i \in k + 1..n + 1 OBVIOUS
    <3>2. \A i \in j + 1..n + 1 : g[i] = f[i] BY <2>5, <3>1
    <3>3. ReadAt(g, text, j, M) = ReadAt(f, text, j, M) BY <1>1, <3>1, <3>2, ReadSame
    <3>4. CASE j = k BY <2>1, <2>5, <3>3, <3>4
    <3>5. CASE j # k
      <4>1. j \in k + 1..n + 1 BY <2>6, <3>5
      <4>2. f[j] = ReadAt(f, text, j, M) BY <1>2, <4>1
      <4> QED BY <2>5, <3>3, <4>1, <4>2
    <3> QED BY <3>4, <3>5
  <2> QED BY <2>7, <2>8
<1>3. n + 1 \in G
  <2>1. n + 1 + 1..n + 1 = {} OBVIOUS
  <2>2. PICK f : f = <<>> OBVIOUS
  <2>3. n + 1 \in 1..n + 1 OBVIOUS
  <2>4. \A j \in n + 1 + 1..n + 1 : f[j] \in Text BY <2>1
  <2>5. ReadFrom(f, n + 1 + 1) BY <2>1
  <2> HIDE DEF G, ReadFrom
  <2> QED BY <1>2, <2>3, <2>4, <2>5
<1>4. ASSUME NEW k \in 1..n, \A j \in k + 1..n + 1 : j \in G PROVE k \in G
  <2>1. k + 1 \in G BY <1>4
  <2>2. PICK f \in [k + 1..n + 1 -> Text] : ReadFrom(f, k + 1) BY <2>1
  <2>3. k \in 1..n + 1 /\ \A j \in k + 1..n + 1 : f[j] \in Text OBVIOUS
  <2> HIDE DEF G, ReadFrom
  <2> QED BY <1>2, <2>2, <2>3
<1>5. 1 \in G
  <2> HIDE DEF G
  <2>1. 1 \in 1..n + 1 OBVIOUS
  <2> QED BY <1>3, <1>4, <2>1, Backwards
<1>6. PICK f \in [1..n + 1 -> Text] : ReadFrom(f, 1) BY <1>5
<1>7. Reads(f, text, M) BY <1>1, <1>6 DEF Reads
<1>8. PICK g : g = (CHOOSE h : Reads(h, text, M)) OBVIOUS
<1>9. Reads(g, text, M) BY <1>7, <1>8
<1>10. \A k \in 1..n + 1 : g[k] \in Text
  <2> DEFINE H == {k \in 1..n + 1 : g[k] \in Text}
  <2>1. ASSUME NEW k \in 1..n + 1, \A j \in k + 1..n + 1 : g[j] \in Text PROVE g[k] \in Text
    <3>1. g[k] = ReadAt(g, text, k, M) BY <1>1, <1>9 DEF Reads
    <3> QED BY <1>1, <2>1, <3>1, ReadTyped
  <2>2. n + 1 \in H
    <3>1. n + 1 + 1..n + 1 = {} /\ n + 1 \in 1..n + 1 OBVIOUS
    <3>2. g[n + 1] \in Text BY <2>1, <3>1
    <3> QED BY <3>1, <3>2
  <2>3. \A k \in 1..n : (\A j \in k + 1..n + 1 : j \in H) => k \in H
    <3> TAKE k \in 1..n
    <3>1. k \in 1..n + 1 OBVIOUS
    <3> QED BY <2>1, <3>1
  <2>4. \A k \in 1..n + 1 : k \in H
    <3> HIDE DEF H
    <3> QED BY <2>2, <2>3, Backwards
  <2> QED BY <2>4
<1>11. g \in [1..n + 1 -> Text] BY <1>1, <1>9, <1>10 DEF Reads
<1> QED BY <1>1, <1>8, <1>9, <1>11 DEF RestoredBy

\* What restoring a text does, from each of its bytes on.
Steps(f, text, M, n) ==
  /\ f[n + 1] = <<>>
  /\ \A k \in 1..n : (\A p \in DOMAIN M : ~Stands(text, k, p)) =>
       f[k] = <<text[k]>> \o f[k + 1]
  /\ \A k \in 1..n : \A p \in DOMAIN M : Stands(text, k, p) =>
       f[k] = M[p] \o f[k + PlaceholderLen]

LEMMA RestoredSteps ==
  ASSUME NEW text \in Text, NEW M, Mapped(M), NEW n \in Nat, n = Len(text)
  PROVE  \E f \in [1..n + 1 -> Text] : Steps(f, text, M, n) /\ RestoredBy(M, text) = f[1]
<1>1. PICK f \in [1..n + 1 -> Text] : Reads(f, text, M) /\ RestoredBy(M, text) = f[1]
  BY RestoredText
<1>2. ASSUME NEW k \in 1..n + 1
      PROVE  /\ k = n + 1 => f[k] = <<>>
             /\ k <= n /\ (\A p \in DOMAIN M : ~Stands(text, k, p)) =>
                  f[k] = <<text[k]>> \o f[k + 1]
             /\ \A p \in DOMAIN M : Stands(text, k, p) => f[k] = M[p] \o f[k + PlaceholderLen]
  <2>1. f[k] = ReadAt(f, text, k, M) BY <1>1 DEF Reads
  <2>2. \A p \in DOMAIN M : p \in FoundAt(text, k, M) <=> Stands(text, k, p)
    BY FoundStands DEF FoundAt, Mapped
  <2>3. FoundAt(text, k, M) \subseteq DOMAIN M BY DEF FoundAt
  <2>4. k = n + 1 => f[k] = <<>> BY <2>1 DEF ReadAt
  <2>5. ASSUME k <= n, \A p \in DOMAIN M : ~Stands(text, k, p)
        PROVE  f[k] = <<text[k]>> \o f[k + 1]
    <3>1. FoundAt(text, k, M) = {} BY <2>2, <2>3, <2>5
    <3>2. ~(k > n) BY <2>5
    <3> QED BY <2>1, <3>1, <3>2 DEF ReadAt
  <2>6. ASSUME NEW p \in DOMAIN M, Stands(text, k, p)
        PROVE  f[k] = M[p] \o f[k + PlaceholderLen]
    <3>1. k \in Nat /\ k <= n /\ ~(k > n)
      <4>1. k \in Nat OBVIOUS
      <4>2. k <= Len(text) BY <2>6, <4>1, StandsOne
      <4> QED BY <4>1, <4>2
    <3>2. \A q \in FoundAt(text, k, M) : q = p BY <2>2, <2>3, <2>6, <3>1, StandsOne
    <3>3. p \in FoundAt(text, k, M) BY <2>2, <2>6
    <3>4. (CHOOSE q \in FoundAt(text, k, M) : TRUE) = p BY <3>2, <3>3
    <3>5. FoundAt(text, k, M) # {} BY <3>3
    <3> QED BY <2>1, <3>1, <3>4, <3>5 DEF ReadAt
  <2> QED BY <2>4, <2>5, <2>6
<1>3. n + 1 \in 1..n + 1 /\ \A k \in 1..n : k \in 1..n + 1 /\ k <= n OBVIOUS
<1>4. Steps(f, text, M, n) BY ONLY <1>2, <1>3 DEF Steps
<1> QED BY <1>1, <1>4

\* Every byte of a placeholder is in its place in a whole one.
Unbroken(text, P) ==
  \A k \in 1..Len(text) : IsPlaceholder(text[k]) =>
    /\ text[k].of \in P /\ text[k].i \in 1..PlaceholderLen /\ text[k].i <= k
    /\ Stands(text, k + 1 - text[k].i, text[k].of)

Appended(c, a, b, m, n) ==
  /\ c \in Text /\ Len(c) = m + n
  /\ \A k \in 1..m : c[k] = a[k]
  /\ \A k \in 1..n : c[m + k] = b[k]

LEMMA ConcatText ==
  ASSUME NEW a \in Text, NEW b \in Text, NEW m \in Nat, m = Len(a), NEW n \in Nat, n = Len(b)
  PROVE  Appended(a \o b, a, b, m, n)
<1>1. PICK c : c = a \o b OBVIOUS
<1>2. /\ c \in Seq(TextByte) /\ Len(c) = m + n
      /\ \A k \in 1..m + n : c[k] = IF k <= m THEN a[k] ELSE b[k - m]
  BY <1>1, ConcatProperties DEF Text
<1>3. \A k \in 1..m : k \in 1..m + n /\ k <= m OBVIOUS
<1>4. \A k \in 1..n : m + k \in 1..m + n /\ ~(m + k <= m) /\ m + k - m = k OBVIOUS
<1>5. \A k \in 1..m : c[k] = a[k] BY ONLY <1>2, <1>3
<1>6. \A k \in 1..n : c[m + k] = b[k] BY ONLY <1>2, <1>4
<1> QED BY ONLY <1>1, <1>2, <1>5, <1>6 DEF Appended, Text

Associates(a, b, c) == a \o (b \o c) = (a \o b) \o c

LEMMA TextAssoc ==
  ASSUME NEW a \in Text, NEW b \in Text, NEW c \in Text
  PROVE  Associates(a, b, c)
BY ConcatAssociative DEF Text, Associates

\* A placeholder of two texts one after the other is one of either.
LEMMA StandsConcat ==
  ASSUME NEW a \in Text, NEW b \in Text, NEW c, c = a \o b, NEW p \in Entity \X Nat
  PROVE  /\ \A k \in 1..Len(a) : Stands(a, k, p) => Stands(c, k, p)
         /\ \A k \in 1..Len(b) + 1 : Stands(c, Len(a) + k, p) <=> Stands(b, k, p)
         /\ \A P : \A k \in 1..Len(a) : Unbroken(a, P) /\ Stands(c, k, p) => Stands(a, k, p)
<1>1. PICK m \in Nat : m = Len(a) BY DEF Text
<1>2. PICK n \in Nat : n = Len(b) BY DEF Text
<1>3. PICK l \in Nat \ {0} : l = PlaceholderLen BY WordAssumption
<1>4. /\ Len(c) = m + n
      /\ \A k \in 1..m : c[k] = a[k]
      /\ \A j \in 1..n : c[m + j] = b[j]
  BY <1>1, <1>2, ConcatText DEF Appended
<1>5. ASSUME NEW k \in 1..m, Stands(a, k, p) PROVE Stands(c, k, p)
  <2>1. k + l <= m + 1 /\ \A j \in 1..l : a[k - 1 + j] = [of |-> p, i |-> j]
    BY <1>1, <1>3, <1>5 DEF Stands
  <2>2. \A j \in 1..l : k - 1 + j \in 1..m BY <2>1
  <2>3. k + l <= m + n + 1 BY <2>1
  <2> QED BY <1>3, <1>4, <2>1, <2>2, <2>3 DEF Stands
<1>6. ASSUME NEW k \in 1..n + 1 PROVE Stands(c, m + k, p) <=> Stands(b, k, p)
  <2>1. PICK q : q = m + k OBVIOUS
  <2>2. q + l <= Len(c) + 1 <=> k + l <= n + 1 BY <1>4, <2>1
  <2>3. ASSUME k + l <= n + 1, NEW j \in 1..l PROVE c[q - 1 + j] = b[k - 1 + j]
    <3>1. PICK i : i = k - 1 + j OBVIOUS
    <3>2. i \in 1..n /\ q - 1 + j = m + i BY <2>1, <2>3, <3>1
    <3>3. c[m + i] = b[i] BY <1>4, <3>2
    <3> QED BY ONLY <3>1, <3>2, <3>3
  <2> QED BY ONLY <1>2, <1>3, <2>1, <2>2, <2>3 DEF Stands
<1>7. ASSUME NEW P, NEW k \in 1..m, Unbroken(a, P), Stands(c, k, p) PROVE Stands(a, k, p)
  <2>1. c[k] = [of |-> p, i |-> 1]
    <3>1. k \in Nat BY <1>7
    <3> QED BY ONLY <1>7, <3>1, StandsOne
  <2>2. a[k].of = p /\ a[k].i = 1 BY <1>4, <2>1
  <2>3. IsPlaceholder(a[k]) BY <2>2 DEF IsPlaceholder
  <2>4. Stands(a, k + 1 - 1, p) BY <1>1, <1>7, <2>2, <2>3 DEF Unbroken
  <2>5. k + 1 - 1 = k OBVIOUS
  <2> QED BY <2>4, <2>5
<1> QED BY <1>1, <1>2, <1>5, <1>6, <1>7

\* A text whose placeholders are whole is restored by itself.
LEMMA RestoredConcat ==
  ASSUME NEW a \in Text, NEW b \in Text, NEW M, Mapped(M), NEW P, Unbroken(a, P)
  PROVE  RestoredBy(M, a \o b) = RestoredBy(M, a) \o RestoredBy(M, b)
<1>1. PICK c : c = a \o b OBVIOUS
<1>2. PICK m \in Nat : m = Len(a) BY DEF Text
<1>3. PICK n \in Nat : n = Len(b) BY DEF Text
<1>4. PICK l \in Nat \ {0} : l = PlaceholderLen BY WordAssumption
<1>5. Appended(c, a, b, m, n) BY <1>1, <1>2, <1>3, ConcatText
<1>6. PICK f \in [1..m + n + 1 -> Text] : Steps(f, c, M, m + n) /\ RestoredBy(M, c) = f[1]
  <2>1. c \in Text /\ m + n \in Nat /\ m + n = Len(c) BY <1>5 DEF Appended
  <2> QED BY ONLY Mapped(M), <2>1, RestoredSteps
<1>7. PICK g \in [1..m + 1 -> Text] : Steps(g, a, M, m) /\ RestoredBy(M, a) = g[1]
  BY <1>2, RestoredSteps
<1>8. PICK h \in [1..n + 1 -> Text] : Steps(h, b, M, n) /\ RestoredBy(M, b) = h[1]
  BY <1>3, RestoredSteps
<1>9. ASSUME NEW p \in DOMAIN M
      PROVE  /\ \A k \in 1..m : Stands(c, k, p) <=> Stands(a, k, p)
             /\ \A k \in 1..n + 1 : Stands(c, m + k, p) <=> Stands(b, k, p)
  <2>1. p \in Entity \X Nat BY DEF Mapped
  <2>2. /\ \A k \in 1..Len(a) : Stands(a, k, p) => Stands(c, k, p)
        /\ \A k \in 1..Len(b) + 1 : Stands(c, Len(a) + k, p) <=> Stands(b, k, p)
        /\ \A k \in 1..Len(a) : Stands(c, k, p) => Stands(a, k, p)
    BY <1>1, <2>1, StandsConcat
  <2> QED BY ONLY <1>2, <1>3, <2>2
<1>10. \A k \in 1..n + 1 : f[m + k] = h[k]
  <2> DEFINE H == {k \in 1..n + 1 : f[m + k] = h[k]}
  <2>1. n + 1 \in H
    <3>1. f[m + n + 1] = <<>> BY ONLY <1>6 DEF Steps
    <3>2. h[n + 1] = <<>> BY ONLY <1>8 DEF Steps
    <3>3. m + (n + 1) = m + n + 1 /\ n + 1 \in 1..n + 1 OBVIOUS
    <3> QED BY <3>1, <3>2, <3>3
  <2>2. ASSUME NEW k \in 1..n, \A j \in k + 1..n + 1 : j \in H PROVE k \in H
    <3>1. k \in 1..n + 1 /\ k + 1 \in k + 1..n + 1 /\ m + k \in 1..m + n
      OBVIOUS
    <3>2. CASE \A p \in DOMAIN M : ~Stands(b, k, p)
      <4>1. h[k] = <<b[k]>> \o h[k + 1] BY ONLY <1>8, <3>2, k \in 1..n DEF Steps
      <4>2. \A p \in DOMAIN M : ~Stands(c, m + k, p) BY <1>9, <3>1, <3>2
      <4>3. f[m + k] = <<c[m + k]>> \o f[m + k + 1] BY ONLY <1>6, <3>1, <4>2 DEF Steps
      <4>4. f[m + k + 1] = h[k + 1]
        <5>1. m + (k + 1) = m + k + 1 OBVIOUS
        <5> QED BY <2>2, <3>1, <5>1
      <4>5. c[m + k] = b[k] BY ONLY <1>5, k \in 1..n DEF Appended
      <4> QED BY <3>1, <4>1, <4>3, <4>4, <4>5
    <3>3. ASSUME NEW p \in DOMAIN M, Stands(b, k, p) PROVE k \in H
      <4>1. h[k] = M[p] \o h[k + l] BY ONLY <1>4, <1>8, <3>3, k \in 1..n DEF Steps
      <4>2. Stands(c, m + k, p) BY <1>9, <3>1, <3>3
      <4>3. f[m + k] = M[p] \o f[m + k + l]
        BY ONLY <1>4, <1>6, <3>1, <4>2, <3>3 DEF Steps
      <4>4. k + l <= n + 1 BY <1>3, <1>4, <3>3 DEF Stands
      <4>5. k + l \in k + 1..n + 1 /\ m + (k + l) = m + k + l BY <4>4
      <4>6. f[m + k + l] = h[k + l] BY <2>2, <4>5
      <4> QED BY <3>1, <4>1, <4>3, <4>6
    <3> QED BY <3>2, <3>3
  <2>3. \A k \in 1..n + 1 : k \in H
    <3> HIDE DEF H
    <3> QED BY <2>1, <2>2, Backwards
  <2> QED BY <2>3
<1>11. PICK e : e = f[m + 1] /\ e = h[1] /\ e \in Text
  <2>1. 1 \in 1..n + 1 OBVIOUS
  <2> QED BY <1>8, <1>10, <2>1
<1>0. e \in Text BY <1>11
<1>12. \A k \in 1..m + 1 : f[k] = g[k] \o e
  <2> DEFINE H == {k \in 1..m + 1 : f[k] = g[k] \o e}
  <2>1. m + 1 \in H
    <3>1. m + 1 \in 1..m + 1 OBVIOUS
    <3>2. g[m + 1] = <<>> BY ONLY <1>7 DEF Steps
    <3>3. <<>> \o e = e BY <1>11, ConcatEmptySeq DEF Text
    <3> QED BY <1>11, <3>1, <3>2, <3>3
  <2>2. ASSUME NEW k \in 1..m, \A j \in k + 1..m + 1 : j \in H PROVE k \in H
    <3>1. /\ k \in 1..m + 1 /\ k + 1 \in k + 1..m + 1 /\ k + 1 \in 1..m + 1
          /\ k \in 1..m + n
      OBVIOUS
    <3>2. CASE \A p \in DOMAIN M : ~Stands(a, k, p)
      <4>1. g[k] = <<a[k]>> \o g[k + 1] BY ONLY <1>7, <3>2, k \in 1..m DEF Steps
      <4>2. \A p \in DOMAIN M : ~Stands(c, k, p) BY <1>9, <3>1, <3>2
      <4>3. f[k] = <<c[k]>> \o f[k + 1] BY ONLY <1>6, <3>1, <4>2 DEF Steps
      <4>4. f[k + 1] = g[k + 1] \o e BY <2>2, <3>1
      <4>5. c[k] = a[k] BY ONLY <1>5, k \in 1..m DEF Appended
      <4>6. PICK x : x = <<a[k]>> OBVIOUS
      <4>7. PICK y : y = g[k + 1] OBVIOUS
      <4>8. x \in Text /\ y \in Text
        <5>1. a[k] \in TextByte BY <1>2, <3>1 DEF Text
        <5>2. x \in Text BY <4>6, <5>1 DEF Text
        <5> QED BY <1>7, <3>1, <4>7, <5>2
      <4>9. Associates(x, y, e) BY ONLY <1>0, <4>8, TextAssoc
      <4>10. f[k] = x \o (y \o e) BY <4>3, <4>4, <4>5, <4>6, <4>7
      <4>11. g[k] = x \o y BY <4>1, <4>6, <4>7
      <4> QED BY <3>1, <4>9, <4>10, <4>11 DEF Associates
    <3>3. ASSUME NEW p \in DOMAIN M, Stands(a, k, p) PROVE k \in H
      <4>1. g[k] = M[p] \o g[k + l] BY ONLY <1>4, <1>7, <3>3, k \in 1..m DEF Steps
      <4>2. Stands(c, k, p) BY <1>9, <3>1, <3>3
      <4>3. f[k] = M[p] \o f[k + l] BY ONLY <1>4, <1>6, <3>1, <3>3, <4>2 DEF Steps
      <4>4. k + l <= m + 1 BY <1>2, <1>4, <3>3 DEF Stands
      <4>5. k + l \in k + 1..m + 1 /\ k + l \in 1..m + 1 BY <4>4
      <4>6. f[k + l] = g[k + l] \o e BY <2>2, <4>5
      <4>7. PICK x : x = M[p] OBVIOUS
      <4>8. PICK y : y = g[k + l] OBVIOUS
      <4>9. x \in Text /\ y \in Text BY <1>7, <4>5, <4>7, <4>8 DEF Mapped
      <4>10. Associates(x, y, e) BY ONLY <1>0, <4>9, TextAssoc
      <4>11. f[k] = x \o (y \o e) BY <4>3, <4>6, <4>7, <4>8
      <4>12. g[k] = x \o y BY <4>1, <4>7, <4>8
      <4> QED BY <3>1, <4>10, <4>11, <4>12 DEF Associates
    <3> QED BY <3>2, <3>3
  <2>3. \A k \in 1..m + 1 : k \in H
    <3> HIDE DEF H
    <3> QED BY <2>1, <2>2, Backwards
  <2> QED BY <2>3
<1>13. 1 \in 1..m + 1 OBVIOUS
<1> QED BY <1>1, <1>6, <1>7, <1>8, <1>11, <1>12, <1>13

\* A byte of a placeholder names it.
LEMMA PlaceholderByte ==
  ASSUME NEW text \in Text, NEW k \in 1..Len(text), IsPlaceholder(text[k])
  PROVE  text[k].of \in Entity \X Nat /\ text[k].i \in Nat
<1>1. text[k] \in TextByte BY DEF Text
<1>2. PICK o : o = text[k].of OBVIOUS
<1>3. o \in (Word \cup Entity) \X Nat /\ o[1] \in Entity /\ text[k].i \in Nat
  BY <1>1, <1>2 DEF TextByte, IsPlaceholder
<1>4. o \in Entity \X Nat BY ONLY <1>3
<1> QED BY <1>2, <1>3, <1>4

\* A text without placeholders is left as it is.
LEMMA RestoredPlain ==
  ASSUME NEW text \in Text, Plain(text), NEW M, Mapped(M)
  PROVE  RestoredBy(M, text) = text /\ \A P : Unbroken(text, P)
<1>1. PICK n \in Nat : n = Len(text) BY DEF Text
<1>2. PICK f \in [1..n + 1 -> Text] : Steps(f, text, M, n) /\ RestoredBy(M, text) = f[1]
  BY <1>1, RestoredSteps
<1>3. text \in Seq(TextByte) BY DEF Text
<1>4. \A k \in 1..n + 1 : f[k] = SubSeq(text, k, n)
  <2> DEFINE H == {k \in 1..n + 1 : f[k] = SubSeq(text, k, n)}
  <2>1. n + 1 \in H
    <3>1. SubSeq(text, n + 1, n) = <<>>
      <4>1. n + 1 \in Int /\ n \in Int /\ n < n + 1 OBVIOUS
      <4> QED BY <4>1, SubSeqEmpty
    <3>2. f[n + 1] = <<>> BY ONLY <1>2 DEF Steps
    <3>3. n + 1 \in 1..n + 1 OBVIOUS
    <3> QED BY <3>1, <3>2, <3>3
  <2>2. ASSUME NEW k \in 1..n, \A j \in k + 1..n + 1 : j \in H PROVE k \in H
    <3>1. ASSUME NEW p \in DOMAIN M, Stands(text, k, p) PROVE FALSE
      <4>1. p \in Entity \X Nat BY DEF Mapped
      <4>2. k \in Nat OBVIOUS
      <4>3. text[k] = [of |-> p, i |-> 1] BY <3>1, <4>2, StandsOne
      <4>4. text[k].of = p BY <4>3
      <4>5. IsPlaceholder(text[k]) BY <4>1, <4>4 DEF IsPlaceholder
      <4> QED BY <1>1, <4>5 DEF Plain
    <3>2. f[k] = <<text[k]>> \o f[k + 1] BY <1>2, <3>1 DEF Steps
    <3>3. f[k + 1] = SubSeq(text, k + 1, n) BY <2>2
    <3>4. SubSeq(text, k, n) = <<text[k]>> \o SubSeq(text, k + 1, n)
      <4>1. k \in 1..Len(text) /\ n \in k..Len(text) BY <1>1
      <4> QED BY <1>3, <4>1, SubSeqRecursiveFirst
    <3>5. k \in 1..n + 1 OBVIOUS
    <3> QED BY <3>2, <3>3, <3>4, <3>5
  <2>3. \A k \in 1..n + 1 : k \in H
    <3> HIDE DEF H
    <3> QED BY <2>1, <2>2, Backwards
  <2> QED BY <2>3
<1>5. 1 \in 1..n + 1 OBVIOUS
<1>6. RestoredBy(M, text) = text BY <1>1, <1>2, <1>3, <1>4, <1>5, SubSeqFull
<1> QED BY <1>6 DEF Plain, Unbroken

\* A placeholder is replaced by its original.
LEMMA RestoredPlaceholder ==
  ASSUME NEW M, Mapped(M), NEW p \in DOMAIN M
  PROVE  RestoredBy(M, Placeholder(p)) = M[p] /\ Unbroken(Placeholder(p), DOMAIN M)
<1>1. PICK text : text = Placeholder(p) OBVIOUS
<1>2. PICK l \in Nat \ {0} : l = PlaceholderLen BY WordAssumption
<1>3. p \in Entity \X Nat /\ M[p] \in Text BY DEF Mapped
<1>4. text \in Text /\ Len(text) = l BY <1>1, <1>2, <1>3, PlaceholderText
<1>5. \A k \in 1..l : text[k] = [of |-> p, i |-> k] BY <1>1, <1>2 DEF Placeholder
<1>6. Stands(text, 1, p)
  <2>1. 1 + l <= Len(text) + 1 BY <1>4
  <2>2. \A j \in 1..l : text[1 - 1 + j] = [of |-> p, i |-> j]
    <3>1. \A j \in 1..l : 1 - 1 + j = j OBVIOUS
    <3> QED BY <1>5, <3>1
  <2> QED BY <1>2, <2>1, <2>2 DEF Stands
<1>7. PICK f \in [1..l + 1 -> Text] : Steps(f, text, M, l) /\ RestoredBy(M, text) = f[1]
  <2>1. l \in Nat /\ l = Len(text) BY <1>4
  <2> QED BY <1>4, <2>1, RestoredSteps
<1>8. f[1] = M[p] \o f[1 + l] /\ f[l + 1] = <<>>
  <2>1. 1 \in 1..l OBVIOUS
  <2> QED BY ONLY p \in DOMAIN M, <1>2, <1>6, <1>7, <2>1 DEF Steps
<1>9. f[1] = M[p]
  <2>1. f[1 + l] = <<>> BY <1>8
  <2>2. M[p] \o <<>> = M[p] BY <1>3, ConcatEmptySeq DEF Text
  <2> QED BY <1>8, <2>1, <2>2
<1>10. ASSUME NEW k \in 1..l
       PROVE  /\ text[k].of \in DOMAIN M /\ text[k].i \in 1..l /\ text[k].i <= k
              /\ Stands(text, k + 1 - text[k].i, text[k].of)
  <2>1. text[k].of = p /\ text[k].i = k
    <3>1. text[k] = [of |-> p, i |-> k] BY ONLY <1>5, k \in 1..l
    <3> QED BY ONLY <3>1
  <2>2. k + 1 - k = 1 OBVIOUS
  <2>3. k + 1 - text[k].i = 1 BY <2>1, <2>2
  <2> QED BY <1>6, <2>1, <2>3
<1>11. Unbroken(text, DOMAIN M) BY ONLY <1>2, <1>4, <1>10 DEF Unbroken
<1> QED BY <1>1, <1>7, <1>9, <1>11

\* More mappings do not change what a text says.
LEMMA RestoredExtended ==
  ASSUME NEW text \in Text, NEW M, Mapped(M), NEW N, Mapped(N), Unbroken(text, DOMAIN M),
         \A p \in DOMAIN M : p \in DOMAIN N /\ N[p] = M[p]
  PROVE  RestoredBy(N, text) = RestoredBy(M, text) /\ Unbroken(text, DOMAIN N)
<1>1. PICK n \in Nat : n = Len(text) BY DEF Text
<1>2. PICK l \in Nat \ {0} : l = PlaceholderLen BY WordAssumption
<1>3. PICK f \in [1..n + 1 -> Text] : Steps(f, text, M, n) /\ RestoredBy(M, text) = f[1]
  BY <1>1, RestoredSteps
<1>4. PICK g \in [1..n + 1 -> Text] : Steps(g, text, N, n) /\ RestoredBy(N, text) = g[1]
  BY <1>1, RestoredSteps
<1>5. ASSUME NEW k \in 1..n, NEW p \in DOMAIN N, Stands(text, k, p) PROVE p \in DOMAIN M
  <2>1. k \in Nat /\ p \in Entity \X Nat BY DEF Mapped
  <2>2. text[k] = [of |-> p, i |-> 1] BY <1>5, <2>1, StandsOne
  <2>3. text[k].of = p BY <2>2
  <2>4. IsPlaceholder(text[k]) BY <2>1, <2>3 DEF IsPlaceholder
  <2> QED BY <1>1, <2>3, <2>4 DEF Unbroken
<1>6. \A k \in 1..n + 1 : f[k] = g[k]
  <2> DEFINE H == {k \in 1..n + 1 : f[k] = g[k]}
  <2>1. n + 1 \in H
    <3>1. f[n + 1] = <<>> /\ g[n + 1] = <<>> BY <1>3, <1>4 DEF Steps
    <3> QED BY <3>1
  <2>2. ASSUME NEW k \in 1..n, \A j \in k + 1..n + 1 : j \in H PROVE k \in H
    <3>1. k \in 1..n + 1 /\ k + 1 \in k + 1..n + 1 OBVIOUS
    <3>2. CASE \A p \in DOMAIN M : ~Stands(text, k, p)
      <4>1. f[k] = <<text[k]>> \o f[k + 1] BY ONLY <1>3, <3>2, k \in 1..n DEF Steps
      <4>2. \A p \in DOMAIN N : ~Stands(text, k, p) BY <1>5, <3>2
      <4>3. g[k] = <<text[k]>> \o g[k + 1] BY ONLY <1>4, <4>2, k \in 1..n DEF Steps
      <4>4. f[k + 1] = g[k + 1] BY <2>2, <3>1
      <4> QED BY <3>1, <4>1, <4>3, <4>4
    <3>3. ASSUME NEW p \in DOMAIN M, Stands(text, k, p) PROVE k \in H
      <4>1. f[k] = M[p] \o f[k + l] BY ONLY <1>2, <1>3, <3>3, k \in 1..n DEF Steps
      <4>2. p \in DOMAIN N /\ N[p] = M[p] OBVIOUS
      <4>3. g[k] = N[p] \o g[k + l] BY ONLY <1>2, <1>4, <3>3, <4>2, k \in 1..n DEF Steps
      <4>4. k + l <= n + 1 BY <1>1, <1>2, <3>3 DEF Stands
      <4>5. k + l \in k + 1..n + 1 BY <4>4
      <4>6. f[k + l] = g[k + l] BY <2>2, <4>5
      <4> QED BY <3>1, <4>1, <4>2, <4>3, <4>6
    <3> QED BY <3>2, <3>3
  <2>3. \A k \in 1..n + 1 : k \in H
    <3> HIDE DEF H
    <3> QED BY <2>1, <2>2, Backwards
  <2> QED BY <2>3
<1>7. 1 \in 1..n + 1 OBVIOUS
<1>8. Unbroken(text, DOMAIN N) BY DEF Unbroken
<1> QED BY <1>3, <1>4, <1>6, <1>7, <1>8

LEMMA UnbrokenConcat ==
  ASSUME NEW a \in Text, NEW b \in Text, NEW P, Unbroken(a, P), Unbroken(b, P)
  PROVE  Unbroken(a \o b, P)
<1>1. PICK c : c = a \o b OBVIOUS
<1>2. PICK m \in Nat : m = Len(a) BY DEF Text
<1>3. PICK n \in Nat : n = Len(b) BY DEF Text
<1>4. Appended(c, a, b, m, n) BY <1>1, <1>2, <1>3, ConcatText
<1>5. SUFFICES ASSUME NEW k \in 1..m + n, IsPlaceholder(c[k])
               PROVE  /\ c[k].of \in P /\ c[k].i \in 1..PlaceholderLen /\ c[k].i <= k
                      /\ Stands(c, k + 1 - c[k].i, c[k].of)
  <2>1. Len(c) = m + n BY <1>4 DEF Appended
  <2> QED BY <1>1, <2>1 DEF Unbroken
<1>6. PICK l \in Nat \ {0} : l = PlaceholderLen BY WordAssumption
<1>7. CASE k \in 1..m
  <2>1. c[k] = a[k] BY <1>4, <1>7 DEF Appended
  <2>2. PICK p, i : p = a[k].of /\ i = a[k].i OBVIOUS
  <2>3. p \in P /\ i \in 1..l /\ i <= k /\ Stands(a, k + 1 - i, p)
    BY <1>2, <1>5, <1>6, <1>7, <2>1, <2>2 DEF Unbroken
  <2>4. p \in Entity \X Nat BY <1>2, <1>5, <1>7, <2>1, <2>2, PlaceholderByte
  <2>5. PICK j : j = k + 1 - i OBVIOUS
  <2>6. j \in 1..m BY <1>7, <2>3, <2>5
  <2>7. Stands(a, j, p) BY <2>3, <2>5
  <2>8. Stands(c, j, p) BY <1>1, <1>2, <2>4, <2>6, <2>7, StandsConcat
  <2> QED BY <1>6, <2>1, <2>2, <2>3, <2>5, <2>8
<1>8. CASE k \notin 1..m
  <2>1. PICK h : h = k - m OBVIOUS
  <2>2. h \in 1..n /\ m + h = k BY <1>5, <1>8, <2>1
  <2>3. c[k] = b[h] BY <1>4, <2>2 DEF Appended
  <2>4. PICK p, i : p = b[h].of /\ i = b[h].i OBVIOUS
  <2>5. p \in P /\ i \in 1..l /\ i <= h /\ Stands(b, h + 1 - i, p)
    BY <1>3, <1>5, <1>6, <2>2, <2>3, <2>4 DEF Unbroken
  <2>6. p \in Entity \X Nat BY <1>3, <1>5, <2>2, <2>3, <2>4, PlaceholderByte
  <2>7. PICK j : j = h + 1 - i OBVIOUS
  <2>8. j \in 1..n + 1 /\ m + j = k + 1 - i /\ i <= k BY <2>2, <2>5, <2>7
  <2>9. Stands(b, j, p) BY <2>5, <2>7
  <2>10. Stands(c, m + j, p) BY <1>1, <1>2, <1>3, <2>6, <2>8, <2>9, StandsConcat
  <2> QED BY <1>6, <2>3, <2>4, <2>5, <2>8, <2>10
<1> QED BY <1>7, <1>8

\* A text with a stretch of its own bytes, and the same with a placeholder for it.
Stretch(text, first, last) ==
  /\ first \in Nat /\ last \in Nat /\ first < last /\ last <= Len(text)
  /\ \A k \in first + 1..last : ~IsPlaceholder(text[k])
Parted(text, a, o, c, P) ==
  /\ a \in Text /\ o \in Text /\ c \in Text /\ text = a \o (o \o c)
  /\ Unbroken(a, P) /\ Plain(o) /\ Unbroken(c, P)

LEMMA Stretched ==
  ASSUME NEW text \in Text, NEW P, Unbroken(text, P), NEW first, NEW last,
         Stretch(text, first, last)
  PROVE  Parted(text, SubSeq(text, 1, first), SubSeq(text, first + 1, last),
                SubSeq(text, last + 1, Len(text)), P)
<1> SUFFICES ASSUME first \in Nat, last \in Nat, first < last, last <= Len(text),
                    \A k \in first + 1..last : ~IsPlaceholder(text[k]),
                    NEW a, a = SubSeq(text, 1, first), NEW o, o = SubSeq(text, first + 1, last),
                    NEW c, c = SubSeq(text, last + 1, Len(text))
             PROVE  Parted(text, a, o, c, P)
  BY DEF Stretch
<1>1. PICK n \in Nat : n = Len(text) BY DEF Text
<1>2. PICK l \in Nat \ {0} : l = PlaceholderLen BY WordAssumption
<1>3. text \in Seq(TextByte) /\ \A k \in 1..n : text[k] \in TextByte BY <1>1 DEF Text
<1>4. a \in Text /\ Len(a) = first /\ \A k \in 1..first : a[k] = text[k]
  <2>1. \A i \in 1..first : text[i] \in TextByte
    <3>1. \A i \in 1..first : i \in 1..n BY <1>1
    <3> QED BY <1>3, <3>1
  <2>2. /\ a \in Seq(TextByte) /\ Len(a) = IF 1 <= first THEN first - 1 + 1 ELSE 0
        /\ \A i \in 1..first - 1 + 1 : a[i] = text[1 + i - 1]
    BY <2>1, SubSeqProperties
  <2>3. first - 1 + 1 = first /\ \A i \in 1..first : 1 + i - 1 = i OBVIOUS
  <2>4. Len(a) = first BY ONLY <2>2, first \in Nat
  <2>5. \A k \in 1..first : a[k] = text[k] BY ONLY <2>2, <2>3
  <2> QED BY ONLY <2>2, <2>4, <2>5 DEF Text
<1>5. PICK d \in Nat : d = last - first
  <2>1. last - first \in Nat OBVIOUS
  <2> QED BY <2>1
<1>6. o \in Text /\ Len(o) = d /\ \A k \in 1..d : o[k] = text[first + k]
  <2>1. \A i \in first + 1..last : text[i] \in TextByte
    <3>1. \A i \in first + 1..last : i \in 1..n BY <1>1
    <3> QED BY <1>3, <3>1
  <2>2. first + 1 \in Int /\ last \in Int OBVIOUS
  <2>3. /\ o \in Seq(TextByte) /\ Len(o) = IF first + 1 <= last THEN last - (first + 1) + 1 ELSE 0
        /\ \A i \in 1..last - (first + 1) + 1 : o[i] = text[first + 1 + i - 1]
    BY <2>1, <2>2, SubSeqProperties
  <2>4. last - (first + 1) + 1 = d /\ \A i \in 1..d : first + 1 + i - 1 = first + i BY <1>5
  <2>5. Len(o) = d BY ONLY <2>3, <2>4, first \in Nat, last \in Nat, first < last
  <2>6. \A k \in 1..d : o[k] = text[first + k] BY ONLY <2>3, <2>4
  <2> QED BY ONLY <2>3, <2>5, <2>6 DEF Text
<1>7. PICK r \in Nat : r = n - last
  <2>1. n - last \in Nat BY <1>1
  <2> QED BY <2>1
<1>8. c \in Text /\ Len(c) = r /\ \A k \in 1..r : c[k] = text[last + k]
  <2>1. \A i \in last + 1..n : text[i] \in TextByte
    <3>1. \A i \in last + 1..n : i \in 1..n OBVIOUS
    <3> QED BY <1>3, <3>1
  <2>2. last + 1 \in Int /\ n \in Int OBVIOUS
  <2>3. /\ c \in Seq(TextByte) /\ Len(c) = IF last + 1 <= n THEN n - (last + 1) + 1 ELSE 0
        /\ \A i \in 1..n - (last + 1) + 1 : c[i] = text[last + 1 + i - 1]
    BY <1>1, <2>1, <2>2, SubSeqProperties
  <2>4. n - (last + 1) + 1 = r /\ \A i \in 1..r : last + 1 + i - 1 = last + i BY <1>7
  <2>5. Len(c) = r BY ONLY <1>7, <2>3, <2>4, n \in Nat, last \in Nat
  <2>6. \A k \in 1..r : c[k] = text[last + k] BY ONLY <2>3, <2>4
  <2> QED BY ONLY <2>3, <2>5, <2>6 DEF Text
<1>9. text = a \o (o \o c)
  <2>1. first \in 1 - 1..Len(text) /\ last \in first..Len(text) /\ 1 \in 1..Len(text) + 1 BY <1>1
  <2>2. a \o o = SubSeq(text, 1, last) BY <1>3, <2>1, ConcatAdjacentSubSeq
  <2>3. last \in 1 - 1..Len(text) /\ Len(text) \in last..Len(text) BY <1>1
  <2>4. SubSeq(text, 1, last) \o c = SubSeq(text, 1, Len(text))
    BY <1>3, <2>1, <2>3, ConcatAdjacentSubSeq
  <2>5. SubSeq(text, 1, Len(text)) = text BY <1>3, SubSeqFull
  <2>6. a \o (o \o c) = (a \o o) \o c
    <3>1. a \in Text /\ o \in Text /\ c \in Text BY <1>4, <1>6, <1>8
    <3>2. Associates(a, o, c) BY ONLY <3>1, TextAssoc
    <3> QED BY ONLY <3>2 DEF Associates
  <2> QED BY <2>2, <2>4, <2>5, <2>6
<1>10. Plain(o)
  <2> SUFFICES ASSUME NEW k \in 1..d PROVE ~IsPlaceholder(o[k]) BY <1>6 DEF Plain
  <2>1. PICK j : j = first + k OBVIOUS
  <2>2. j \in first + 1..last BY <1>5, <2>1
  <2>3. o[k] = text[j] BY <1>6, <2>1
  <2> QED BY <2>2, <2>3
<1> DEFINE Where(k, p, i) ==
      /\ p \in P /\ i \in 1..l /\ i <= k
      /\ \A j \in 1..l : k - i + j \in 1..n /\ text[k - i + j] = [of |-> p, i |-> j]
      /\ k - i + l <= first \/ k - i >= last
<1>11. ASSUME NEW k \in 1..n, IsPlaceholder(text[k]), NEW p, NEW i, p = text[k].of, i = text[k].i
       PROVE  Where(k, p, i)
  <2>1. p \in P /\ i \in 1..l /\ i <= k /\ Stands(text, k + 1 - i, p)
    BY <1>1, <1>2, <1>11 DEF Unbroken
  <2>2. PICK q : q = k - i OBVIOUS
  <2>3. q \in Nat /\ k + 1 - i = q + 1 BY <2>1, <2>2
  <2>4. q + 1 + l <= n + 1 /\ \A j \in 1..l : text[q + 1 - 1 + j] = [of |-> p, i |-> j]
    <3>1. Stands(text, q + 1, p) BY ONLY <2>1, <2>3
    <3> QED BY ONLY <1>1, <1>2, <2>3, <3>1 DEF Stands
  <2>5. \A j \in 1..l : q + j \in 1..n /\ q + 1 - 1 + j = q + j BY <2>3, <2>4
  <2>6. \A j \in 1..l : text[q + j] = [of |-> p, i |-> j] BY <2>4, <2>5
  <2>7. p \in Entity \X Nat BY <1>1, <1>11, PlaceholderByte
  <2>8. \A j \in 1..l : IsPlaceholder(text[q + j])
    <3> TAKE j \in 1..l
    <3>1. text[q + j] = [of |-> p, i |-> j] BY ONLY <2>6, j \in 1..l
    <3>2. text[q + j].of = p BY ONLY <3>1
    <3> QED BY <2>7, <3>2 DEF IsPlaceholder
  <2>9. q + l <= first \/ q >= last
    <3> SUFFICES ASSUME q + l > first, q < last PROVE FALSE BY <2>3
    <3>1. CASE q >= first
      <4>1. q + 1 \in first + 1..last /\ 1 \in 1..l BY <2>3, <3>1
      <4> QED BY <2>8, <4>1
    <3>2. CASE q < first
      <4>1. PICK j : j = first + 1 - q OBVIOUS
      <4>2. j \in 1..l /\ q + j = first + 1 /\ first + 1 \in first + 1..last
        BY <2>3, <3>2, <4>1
      <4> QED BY <2>8, <4>2
    <3> QED BY <2>3, <3>1, <3>2
  <2> QED BY <2>1, <2>2, <2>5, <2>6, <2>9
<1>12. Unbroken(a, P)
  <2> SUFFICES ASSUME NEW k \in 1..first, IsPlaceholder(a[k])
               PROVE  /\ a[k].of \in P /\ a[k].i \in 1..l /\ a[k].i <= k
                      /\ Stands(a, k + 1 - a[k].i, a[k].of)
    BY <1>2, <1>4 DEF Unbroken
  <2>1. a[k] = text[k] /\ k \in 1..n BY <1>1, <1>4
  <2>2. PICK p, i : p = text[k].of /\ i = text[k].i OBVIOUS
  <2>3. Where(k, p, i)
    <3>1. IsPlaceholder(text[k]) BY <2>1
    <3> HIDE DEF Where
    <3> QED BY ONLY <1>11, <2>1, <2>2, <3>1
  <2>4. PICK q \in Nat : q = k - i
    <3>1. k - i \in Nat BY <2>3
    <3> QED BY <3>1
  <2>5. q + l <= first BY <2>3, <2>4
  <2>6. ASSUME NEW j \in 1..l PROVE a[q + 1 - 1 + j] = [of |-> p, i |-> j]
    <3>1. PICK h : h = q + j OBVIOUS
    <3>2. h \in 1..first /\ q + 1 - 1 + j = h BY <2>5, <3>1
    <3>3. a[h] = text[h] /\ text[h] = [of |-> p, i |-> j] BY <1>4, <2>3, <2>4, <3>1, <3>2
    <3> QED BY <3>2, <3>3
  <2>7. q + 1 + l <= first + 1 BY <2>5
  <2>8. Stands(a, q + 1, p)
    <3>1. Len(a) = first BY <1>4
    <3> QED BY ONLY <1>2, <2>6, <2>7, <3>1 DEF Stands
  <2>9. k + 1 - i = q + 1 BY <2>3, <2>4
  <2> QED BY <2>1, <2>2, <2>3, <2>8, <2>9
<1>13. Unbroken(c, P)
  <2> SUFFICES ASSUME NEW m \in 1..r, IsPlaceholder(c[m])
               PROVE  /\ c[m].of \in P /\ c[m].i \in 1..l /\ c[m].i <= m
                      /\ Stands(c, m + 1 - c[m].i, c[m].of)
    BY <1>2, <1>8 DEF Unbroken
  <2>0. PICK k : k = last + m OBVIOUS
  <2>1. c[m] = text[k] /\ k \in 1..n BY <1>7, <1>8, <2>0
  <2>2. PICK p, i : p = text[k].of /\ i = text[k].i OBVIOUS
  <2>3. Where(k, p, i)
    <3>1. IsPlaceholder(text[k]) BY <2>1
    <3> HIDE DEF Where
    <3> QED BY ONLY <1>11, <2>1, <2>2, <3>1
  <2>4. k - i >= last BY <2>0, <2>3
  <2>5. PICK q \in Nat : q = m - i /\ last + q = k - i
    <3>1. m - i \in Nat /\ last + (m - i) = k - i BY <2>0, <2>3, <2>4
    <3> QED BY <3>1
  <2>6. ASSUME NEW j \in 1..l PROVE c[q + 1 - 1 + j] = [of |-> p, i |-> j] /\ q + j <= r
    <3>1. PICK h : h = q + j OBVIOUS
    <3>2. h \in Nat /\ h >= 1 /\ q + 1 - 1 + j = h /\ last + h = k - i + j BY <2>3, <2>5, <3>1
    <3>3. k - i + j \in 1..n /\ text[k - i + j] = [of |-> p, i |-> j] BY ONLY <2>3, j \in 1..l
    <3>4. h \in 1..r BY ONLY <1>7, <3>2, <3>3, last \in Nat, n \in Nat
    <3>5. c[h] = text[last + h] BY ONLY <1>8, <3>4
    <3>6. text[last + h] = [of |-> p, i |-> j] BY ONLY <3>2, <3>3
    <3>7. q + j <= r BY ONLY <3>1, <3>4
    <3> QED BY ONLY <3>2, <3>5, <3>6, <3>7
  <2>7. q + 1 + l <= r + 1
    <3>1. l \in 1..l OBVIOUS
    <3>2. q + l <= r BY ONLY <2>6, <3>1
    <3> QED BY <3>2
  <2>8. Stands(c, q + 1, p)
    <3>1. Len(c) = r BY <1>8
    <3> QED BY ONLY <1>2, <2>6, <2>7, <3>1 DEF Stands
  <2>9. m + 1 - i = q + 1 /\ i <= m BY <2>3, <2>5
  <2> QED BY <2>1, <2>2, <2>3, <2>8, <2>9
<1> QED BY <1>4, <1>6, <1>8, <1>9, <1>10, <1>12, <1>13 DEF Parted

Extends(N, M) == Mapped(M) /\ Mapped(N) /\ \A p \in DOMAIN M : p \in DOMAIN N /\ N[p] = M[p]

Swapped(new, text, first, last, p, N) ==
  /\ p \in DOMAIN N /\ N[p] = SubSeq(text, first + 1, last)
  /\ new = Spliced(text, first, last, Placeholder(p))

\* A text with a placeholder for a stretch of it says the same, once that is mapped.
LEMMA RestoredReplaced ==
  ASSUME NEW text \in Text, NEW M, NEW N, Extends(N, M), Unbroken(text, DOMAIN M),
         NEW first, NEW last, Stretch(text, first, last),
         NEW new, NEW p, Swapped(new, text, first, last, p, N)
  PROVE  Unbroken(new, DOMAIN N) /\ RestoredBy(N, new) = RestoredBy(M, text)
<1> USE DEF Extends, Swapped
<1>1. PICK a : a = SubSeq(text, 1, first) OBVIOUS
<1>2. PICK o : o = SubSeq(text, first + 1, last) OBVIOUS
<1>3. PICK c : c = SubSeq(text, last + 1, Len(text)) OBVIOUS
<1>4. /\ a \in Text /\ o \in Text /\ c \in Text /\ text = a \o (o \o c)
      /\ Unbroken(a, DOMAIN M) /\ Plain(o) /\ Unbroken(c, DOMAIN M)
  BY <1>1, <1>2, <1>3, Stretched DEF Parted
<1>5. PICK b : b = Placeholder(p) OBVIOUS
<1>6. b \in Text /\ Unbroken(b, DOMAIN N) /\ RestoredBy(N, b) = o
  <2>1. p \in Entity \X Nat BY DEF Mapped
  <2>2. b \in Text BY <1>5, <2>1, PlaceholderText
  <2> QED BY <1>2, <1>5, <2>2, RestoredPlaceholder
<1>7. new = a \o (b \o c)
  <2>1. new = (a \o b) \o c BY <1>1, <1>3, <1>5 DEF Spliced
  <2>2. Associates(a, b, c)
    <3>1. a \in Text /\ b \in Text /\ c \in Text BY <1>4, <1>6
    <3> QED BY ONLY <3>1, TextAssoc
  <2> QED BY ONLY <2>1, <2>2 DEF Associates
<1>8. RestoredBy(N, a) = RestoredBy(M, a) /\ Unbroken(a, DOMAIN N)
  BY <1>4, RestoredExtended
<1>9. RestoredBy(N, c) = RestoredBy(M, c) /\ Unbroken(c, DOMAIN N)
  BY <1>4, RestoredExtended
<1>10. PICK bc : bc = b \o c /\ bc \in Text
  <2>1. b \o c \in Text BY <1>4, <1>6, ConcatProperties DEF Text
  <2> QED BY <2>1
<1>11. PICK oc : oc = o \o c /\ oc \in Text
  <2>1. o \o c \in Text BY <1>4, ConcatProperties DEF Text
  <2> QED BY <2>1
<1>12. RestoredBy(N, bc) = o \o RestoredBy(M, c)
  <2>0. b \in Text /\ c \in Text /\ Unbroken(b, DOMAIN N) BY <1>4, <1>6
  <2>1. RestoredBy(N, b \o c) = RestoredBy(N, b) \o RestoredBy(N, c)
    BY ONLY Mapped(N), <2>0, RestoredConcat
  <2> QED BY <1>6, <1>9, <1>10, <2>1
<1>13. RestoredBy(M, oc) = o \o RestoredBy(M, c)
  <2>0. o \in Text /\ c \in Text BY <1>4
  <2>1. RestoredBy(M, o) = o BY <1>4, RestoredPlain
  <2>2. Unbroken(o, DOMAIN M) BY <1>4, RestoredPlain
  <2>3. RestoredBy(M, o \o c) = RestoredBy(M, o) \o RestoredBy(M, c)
    BY ONLY Mapped(M), <2>0, <2>2, RestoredConcat
  <2> QED BY <1>11, <2>1, <2>3
<1>14. RestoredBy(N, new) = RestoredBy(M, text)
  <2>0. a \in Text /\ bc \in Text /\ Unbroken(a, DOMAIN N) BY <1>4, <1>8, <1>10
  <2>1. RestoredBy(N, a \o bc) = RestoredBy(N, a) \o RestoredBy(N, bc)
    BY ONLY Mapped(N), <2>0, RestoredConcat
  <2>4. a \in Text /\ oc \in Text /\ Unbroken(a, DOMAIN M) BY <1>4, <1>11
  <2>2. RestoredBy(M, a \o oc) = RestoredBy(M, a) \o RestoredBy(M, oc)
    BY ONLY Mapped(M), <2>4, RestoredConcat
  <2>3. new = a \o bc /\ text = a \o oc BY <1>4, <1>7, <1>10, <1>11
  <2> QED BY <1>8, <1>12, <1>13, <2>1, <2>2, <2>3
<1>15. Unbroken(new, DOMAIN N)
  <2>1. Unbroken(bc, DOMAIN N) BY <1>4, <1>6, <1>9, <1>10, UnbrokenConcat
  <2>2. new = a \o bc BY <1>7, <1>10
  <2> QED BY ONLY <1>4, <1>8, <1>10, <2>1, <2>2, UnbrokenConcat
<1> QED BY <1>14, <1>15

\* Texts one after the other are restored one by one.
AllRestored(M, s, r, P, n) ==
  /\ s \in [1..n -> Text] /\ r \in [1..n -> Text]
  /\ \A i \in 1..n : Unbroken(s[i], P) /\ RestoredBy(M, s[i]) = r[i]

LEMMA FlatRestored ==
  ASSUME NEW M, Mapped(M), NEW P, NEW n \in Nat, NEW s, NEW r, AllRestored(M, s, r, P, n)
  PROVE  RestoredBy(M, FlattenSeq(s)) = FlattenSeq(r)
<1>1. /\ s \in [1..n -> Text] /\ r \in [1..n -> Text]
      /\ \A i \in 1..n : Unbroken(s[i], P) /\ RestoredBy(M, s[i]) = r[i]
  BY DEF AllRestored
<1>2. CASE n = 0
  <2>1. s = <<>> /\ r = <<>> /\ Len(s) = 0 /\ s \in Seq(Text) BY <1>1, <1>2
  <2>2. FlattenSeq(s) = <<>> /\ FlattenSeq(r) = <<>> BY <2>1 DEF FlattenSeq
  <2>3. <<>> \in Text /\ Plain(<<>>) BY EmptySeq DEF Text, Plain
  <2> QED BY <2>2, <2>3, RestoredPlain
<1>3. CASE n # 0
  <2>0. s \in [1..n -> Seq(TextByte)] /\ r \in [1..n -> Seq(TextByte)] BY <1>1 DEF Text
  <2>1. PICK f : Joining(f, s, n, TextByte) BY <1>3, <2>0, FlatJoined
  <2>2. PICK g : Joining(g, r, n, TextByte) BY <1>3, <2>0, FlatJoined
  <2> DEFINE O == {i \in 1..n : ~(Unbroken(f[i], P) /\ RestoredBy(M, f[i]) = g[i])}
  <2>3. ASSUME NEW i \in O, \A j \in O : i <= j PROVE FALSE
    <3>1. /\ i \in 1..n
          /\ f[i] = IF i = 1 THEN s[i] ELSE f[i-1] \o s[i]
          /\ g[i] = IF i = 1 THEN r[i] ELSE g[i-1] \o r[i]
      BY <2>1, <2>2 DEF Joining
    <3>2. CASE i = 1
      <4>1. f[i] = s[i] /\ g[i] = r[i] BY <3>1, <3>2
      <4> QED BY <1>1, <3>1, <4>1
    <3>3. CASE i # 1
      <4>1. f[i] = f[i-1] \o s[i] /\ g[i] = g[i-1] \o r[i] BY <3>1, <3>3
      <4>2. i - 1 \in 1..n /\ ~(i <= i - 1) BY <3>1, <3>3
      <4>3. Unbroken(f[i-1], P) /\ RestoredBy(M, f[i-1]) = g[i-1] BY <2>3, <4>2
      <4>4. PICK a, b : a = f[i-1] /\ b = s[i] OBVIOUS
      <4>5. a \in Text /\ b \in Text /\ Unbroken(a, P) /\ Unbroken(b, P) /\ RestoredBy(M, b) = r[i]
        BY <1>1, <2>1, <3>1, <4>2, <4>3, <4>4 DEF Joining, Text
      <4>6. RestoredBy(M, a \o b) = RestoredBy(M, a) \o RestoredBy(M, b)
        BY ONLY Mapped(M), <4>5, RestoredConcat
      <4>7. Unbroken(a \o b, P) BY ONLY <4>5, UnbrokenConcat
      <4>8. f[i] = a \o b /\ g[i] = RestoredBy(M, a) \o RestoredBy(M, b)
        BY <4>1, <4>3, <4>4, <4>5
      <4> QED BY <4>6, <4>7, <4>8
    <3> QED BY <3>2, <3>3
  <2>4. O = {}
    <3>1. O \in SUBSET Nat OBVIOUS
    <3> HIDE DEF O
    <3> QED BY <2>3, <3>1, LeastOf
  <2>5. n \in 1..n BY <1>3
  <2> QED BY <2>1, <2>2, <2>4, <2>5 DEF Joining
<1> QED BY <1>2, <1>3

-----------------------------------------------------------------------------
(* The first invariant: the traces of the texts. *)

MessageRecord == [content : Text, raw : Seq(Part), read : Text]
WorkFor(D) ==
  [pos : Nat, out : [D -> Text], m : D, spans : SUBSET Span,
   traced : [D -> Trace], before : [D -> Trace]]

\* A type's placeholders are numbered as its counter counts.
MappingsOK ==
  /\ DOMAIN mappings \subseteq Entity \X Nat /\ counters \in [Entity -> Nat]
  /\ \A p \in DOMAIN mappings : p[2] <= counters[p[1]]
  /\ OnePlaceholder

\* The raw form is what the text was read from.
MessagesOK ==
  /\ msgs \in Seq(MessageRecord)
  /\ \A i \in DOMAIN msgs : msgs[i].raw # <<>> => msgs[i].read = Extracted(msgs[i].raw)

\* While a message is at work, the detections to come cover what is not yet replaced.
ToCome(i) == IF at = "replace" /\ i = t.m THEN t.spans ELSE {}
WorkOK ==
  /\ t \in WorkFor(DOMAIN msgs)
  /\ at = "analyze" /\ t.pos > Len(Chain) => \A i \in DOMAIN msgs : t.out[i] = msgs[i].content
  /\ at = "replace" => t.pos <= Len(Chain) /\ \A s \in t.spans : s.start < s.end
  /\ \A i \in DOMAIN msgs : /\ Tracks(t.traced[i], t.out[i], history.asked[i], ToCome(i))
                            /\ Tracks(t.before[i], msgs[i].content, history.asked[i], {})
  /\ history.clean /\ at = "replace" =>
       \A s, r \in t.spans : s.end <= Len(t.out[t.m]) /\ ~Overlap(s, r)

TextInv ==
  /\ at \in {"analyze", "replace", "llm", "restore", "reply", "failed"}
  /\ DOMAIN history = {"asked", "traced", "clean", "sent", "meant"}
  /\ MappingsOK /\ MessagesOK
  /\ at \in {"analyze", "replace"} => WorkOK
  /\ NothingFoundIsSent

LEMMA AllocatedKeeps ==
  ASSUME MappingsOK, NEW e \in Entity, NEW original, NEW p, p = Allocated(e, original),
         mappings' = [q \in DOMAIN mappings \cup {p} |-> IF q = p THEN original ELSE mappings[q]],
         counters' = IF p \notin DOMAIN mappings THEN [counters EXCEPT ![e] = @ + 1] ELSE counters
  PROVE  p \in Entity \X Nat /\ MappingsOK'
<1>1. /\ DOMAIN mappings' = DOMAIN mappings \cup {p}
      /\ \A q \in DOMAIN mappings' : mappings'[q] = IF q = p THEN original ELSE mappings[q]
  OBVIOUS
<1>2. CASE \E q \in DOMAIN mappings : mappings[q] = original
  <2>1. p \in DOMAIN mappings /\ mappings[p] = original BY <1>2 DEF Allocated
  <2>2. DOMAIN mappings' = DOMAIN mappings /\ \A q \in DOMAIN mappings : mappings'[q] = mappings[q]
    BY <1>1, <2>1
  <2>3. counters' = counters BY <2>1
  <2> QED BY <2>1, <2>2, <2>3 DEF MappingsOK, OnePlaceholder
<1>3. CASE ~\E q \in DOMAIN mappings : mappings[q] = original
  <2>1. p = <<e, counters[e] + 1>> /\ counters[e] \in Nat BY <1>3 DEF Allocated, MappingsOK
  <2>2. p \in Entity \X Nat /\ p[1] = e /\ p[2] = counters[e] + 1 BY <2>1
  <2>3. p \notin DOMAIN mappings BY <2>1, <2>2 DEF MappingsOK
  <2>4. counters' = [counters EXCEPT ![e] = @ + 1] BY <2>3
  <2>5. counters' \in [Entity -> Nat] /\ \A f \in Entity : counters'[f] >= counters[f]
    BY <2>4 DEF MappingsOK
  <2>6. counters'[e] = counters[e] + 1 BY <2>4 DEF MappingsOK
  <2>7. ASSUME NEW q \in DOMAIN mappings' PROVE q[2] <= counters'[q[1]]
    <3>1. CASE q = p BY <2>2, <2>5, <2>6, <3>1
    <3>2. CASE q \in DOMAIN mappings
      <4>1. q[1] \in Entity /\ q[2] \in Nat /\ q[2] <= counters[q[1]] BY <3>2 DEF MappingsOK
      <4>2. counters'[q[1]] >= counters[q[1]] /\ counters'[q[1]] \in Nat /\ counters[q[1]] \in Nat
        BY <2>5, <4>1 DEF MappingsOK
      <4> QED BY <4>1, <4>2
    <3> QED BY <1>1, <3>1, <3>2
  <2>8. OnePlaceholder' BY <1>1, <1>3 DEF MappingsOK, OnePlaceholder
  <2>9. DOMAIN mappings' \subseteq Entity \X Nat BY <1>1, <2>2 DEF MappingsOK
  <2> QED BY <2>2, <2>5, <2>7, <2>8, <2>9 DEF MappingsOK
<1> QED BY <1>2, <1>3

\* A detection is a stretch of the text.
LEMMA SpansTyped ==
  ASSUME NEW text \in Text
  PROVE  \A s \in SpanSet(text) : s \in Span /\ s.start < s.end /\ s.end <= Len(text)
<1>1. PICK n \in Nat : n = Len(text) BY DEF Text
<1>2. \A k \in Starts(text) : k \in Nat /\ k - 1 \in Nat /\ k <= n BY <1>1 DEF Starts
<1>3. \A k \in Ends(text) : k \in Int /\ k <= n BY <1>1, <1>2 DEF Ends
<1>4. SUFFICES ASSUME NEW s \in SpanSet(text)
               PROVE  s \in Span /\ s.start < s.end /\ s.end <= Len(text)
  OBVIOUS
<1>5. /\ s \in [type : Entity, start : {k - 1 : k \in Starts(text)}, end : Ends(text)]
      /\ s.start < s.end
  BY DEF SpanSet
<1>6. s.start \in Nat /\ s.end \in Int /\ s.end <= n BY <1>2, <1>3, <1>5
<1>7. s.end \in Nat BY ONLY <1>5, <1>6
<1> QED BY <1>1, <1>5, <1>6, <1>7 DEF Span

\* The next message, or the next anonymizer with the copy of this one.
LEMMA ProceedKeeps ==
  ASSUME MessagesOK, NEW w \in WorkFor(DOMAIN msgs), w.pos <= Len(Chain), Proceed(w),
         NEW asked, history'.asked = asked,
         \A i \in DOMAIN msgs : /\ Tracks(w.traced[i], w.out[i], asked[i], {})
                                /\ Tracks(w.before[i], msgs[i].content, asked[i], {})
  PROVE  at' = "analyze" /\ MessagesOK' /\ WorkOK'
<1> USE DEF WorkFor
<1>1. DOMAIN msgs = 1..Len(msgs) /\ Len(msgs) \in Nat /\ msgs \in Seq(MessageRecord)
  BY DEF MessagesOK
<1>2. at' = "analyze" /\ \A i : ToCome(i)' = {} BY DEF Proceed, Committed, ToCome
<1>3. CASE w.m < Len(msgs)
  <2>1. t' = [w EXCEPT !.m = @ + 1] /\ msgs' = msgs BY <1>3 DEF Proceed
  <2>2. w.m + 1 \in DOMAIN msgs BY <1>1, <1>3
  <2>3. t' \in WorkFor(DOMAIN msgs') BY <2>1, <2>2
  <2>4. t'.pos = w.pos /\ t'.traced = w.traced /\ t'.before = w.before /\ t'.out = w.out BY <2>1
  <2>5. w.pos \in Nat /\ Len(Chain) \in Nat BY ChainAssumption
  <2>6. ~(t'.pos > Len(Chain)) BY <2>4, <2>5
  <2>7. MessagesOK' BY <2>1 DEF MessagesOK
  <2> QED BY <1>2, <2>1, <2>3, <2>4, <2>6, <2>7 DEF WorkOK
<1>4. CASE ~(w.m < Len(msgs))
  <2>1. /\ msgs' = [i \in DOMAIN msgs |-> [msgs[i] EXCEPT !.content = w.out[i]]]
        /\ t' = [NoWork EXCEPT !.pos = w.pos + 1, !.out = w.out,
                             !.traced = w.traced, !.before = w.traced]
    BY <1>4 DEF Proceed, Committed
  <2>2. \A i \in DOMAIN msgs : msgs[i] \in MessageRecord /\ w.out[i] \in Text BY <1>1
  <2>3. ASSUME NEW i \in DOMAIN msgs
        PROVE  /\ msgs'[i] \in MessageRecord /\ msgs'[i].content = w.out[i]
               /\ msgs'[i].raw = msgs[i].raw /\ msgs'[i].read = msgs[i].read
    BY <2>1, <2>2 DEF MessageRecord
  <2>4. DOMAIN msgs' = DOMAIN msgs BY <2>1
  <2>5. msgs' \in Seq(MessageRecord) BY <1>1, <2>1, <2>3
  <2>6. MessagesOK' BY <2>3, <2>4, <2>5 DEF MessagesOK
  <2>7. 1 \in DOMAIN msgs BY <1>1
  <2>8. /\ t'.pos = w.pos + 1 /\ t'.out = w.out /\ t'.traced = w.traced /\ t'.before = w.traced
        /\ t' \in WorkFor(DOMAIN msgs')
    <3>1. t' = [pos |-> w.pos + 1, out |-> w.out, m |-> 1, spans |-> {},
                traced |-> w.traced, before |-> w.traced]
      BY <2>1 DEF NoWork
    <3>2. /\ w.pos + 1 \in Nat /\ w.out \in [DOMAIN msgs -> Text]
          /\ w.traced \in [DOMAIN msgs -> Trace]
      OBVIOUS
    <3> QED BY <2>4, <2>7, <3>1, <3>2
  <2> QED BY <1>2, <2>3, <2>4, <2>6, <2>8 DEF WorkOK
<1> QED BY <1>3, <1>4

LEMMA DecodedTyped ==
  ASSUME NEW c \in [form : {"string"}, words : Part] \cup [form : {"parts"}, parts : Seq(Part)]
  PROVE  /\ Decoded(c) \in MessageRecord /\ Decoded(c).content \in Seq(WordByte)
         /\ Decoded(c).raw # <<>> => Decoded(c).read = Extracted(Decoded(c).raw)
<1>1. <<>> \in Text /\ <<>> \in Seq(Part) BY EmptySeq DEF Text
<1>2. CASE c.form = "string"
  <2>1. c.words \in Part BY <1>2
  <2>2. Flat(c.words) \in Seq(WordByte) /\ Flat(c.words) \in Text
    BY <2>1, FlatText, WordsPlain
  <2>3. Decoded(c) = [content |-> Flat(c.words), raw |-> <<>>, read |-> <<>>]
    BY <1>2 DEF Decoded
  <2> QED BY <1>1, <2>2, <2>3 DEF MessageRecord
<1>3. CASE c.form # "string"
  <2>1. c.parts \in Seq(Part) BY <1>3
  <2>2. Extracted(c.parts) \in Seq(WordByte) /\ Extracted(c.parts) \in Text
    BY <2>1, ExtractedText, WordsPlain
  <2>3. Decoded(c) = [content |-> Extracted(c.parts), raw |-> c.parts, read |-> Extracted(c.parts)]
    BY <1>3 DEF Decoded
  <2> QED BY <2>1, <2>2, <2>3 DEF MessageRecord
<1> QED BY <1>2, <1>3

\* A transformer begins with the messages and their traces.
LEMMA StartedOK ==
  ASSUME MessagesOK, msgs # <<>>, NEW pos \in Nat, NEW traced \in [DOMAIN msgs -> Trace]
  PROVE  /\ Started(pos, traced) \in WorkFor(DOMAIN msgs) /\ Started(pos, traced).pos = pos
         /\ Started(pos, traced).traced = traced /\ Started(pos, traced).before = traced
         /\ \A i \in DOMAIN msgs : Started(pos, traced).out[i] = msgs[i].content
<1>1. Started(pos, traced) = [pos |-> pos, out |-> Contents(msgs), m |-> 1, spans |-> {},
                              traced |-> traced, before |-> traced]
  <2>1. PICK c : c = Contents(msgs) OBVIOUS
  <2>2. Started(pos, traced) =
          [NoWork EXCEPT !.pos = pos, !.out = c, !.traced = traced, !.before = traced]
    BY ONLY <2>1 DEF Started
  <2> QED BY ONLY <2>1, <2>2 DEF NoWork
<1>2. \A i \in DOMAIN msgs : msgs[i].content \in Text
  <2>1. \A i \in DOMAIN msgs : msgs[i] \in MessageRecord BY DEF MessagesOK
  <2> QED BY <2>1 DEF MessageRecord
<1>3. Contents(msgs) \in [DOMAIN msgs -> Text] BY <1>2 DEF Contents
<1>4. 1 \in DOMAIN msgs BY DEF MessagesOK
<1>5. Started(pos, traced) \in WorkFor(DOMAIN msgs) BY <1>1, <1>3, <1>4 DEF WorkFor
<1> QED BY <1>1, <1>5 DEF Contents

LEMMA InitInv == Init => TextInv
<1> SUFFICES ASSUME Init PROVE TextInv OBVIOUS
<1>1. PICK p \in Prompt : msgs = [i \in 1..Len(p) |-> Decoded(p[i])] BY DEF Init
<1>2. /\ p \in Seq([form : {"string"}, words : Part] \cup [form : {"parts"}, parts : Seq(Part)])
      /\ p # <<>>
  BY PromptAssumption DEF Part
<1>3. Len(p) \in Nat /\ Len(p) # 0 BY <1>2
<1>4. \A i \in 1..Len(p) : /\ msgs[i] \in MessageRecord
                           /\ msgs[i].raw # <<>> => msgs[i].read = Extracted(msgs[i].raw)
  BY <1>1, <1>2, DecodedTyped
<1>5. msgs \in Seq(MessageRecord) /\ msgs # <<>> /\ DOMAIN msgs = 1..Len(p)
  BY <1>1, <1>3, <1>4
<1>6. MessagesOK BY <1>4, <1>5 DEF MessagesOK
<1>7. MappingsOK
  <2>1. mappings = <<>> /\ counters = [e \in Entity |-> 0] BY DEF Init
  <2>2. DOMAIN mappings = {} BY <2>1
  <2> QED BY <2>1, <2>2 DEF MappingsOK, OnePlaceholder
<1>8. PICK traced : traced = [i \in DOMAIN msgs |-> Traced(msgs[i].content)] OBVIOUS
<1>11. at = "analyze" /\ t = Started(1, traced) BY <1>8 DEF Init
<1>9. WorkOK
  <2>1. \A i : ToCome(i) = {} BY <1>11 DEF ToCome
  <2>2. ASSUME NEW i \in DOMAIN msgs
        PROVE  /\ traced[i] \in Trace /\ history.asked[i] = msgs[i].content
               /\ Tracks(traced[i], msgs[i].content, history.asked[i], {})
    <3>1. PICK text \in Text : text = msgs[i].content
      <4>1. msgs[i] \in MessageRecord BY <1>5
      <4> QED BY <4>1 DEF MessageRecord
    <3>2. history.asked[i] = text
      <4>1. history.asked = Contents(msgs) BY DEF Init
      <4> QED BY <3>1, <4>1 DEF Contents
    <3>3. traced[i] = Traced(text) BY <1>8, <3>1
    <3> QED BY <3>1, <3>2, <3>3, TracedTracks
  <2>3. traced \in [DOMAIN msgs -> Trace] BY <1>8, <2>2
  <2>4. /\ t \in WorkFor(DOMAIN msgs) /\ t.traced = traced /\ t.before = traced
        /\ t.pos = 1 /\ \A i \in DOMAIN msgs : t.out[i] = msgs[i].content
    <3>1. /\ Started(1, traced) \in WorkFor(DOMAIN msgs) /\ Started(1, traced).pos = 1
          /\ Started(1, traced).traced = traced /\ Started(1, traced).before = traced
          /\ \A i \in DOMAIN msgs : Started(1, traced).out[i] = msgs[i].content
      BY ONLY <1>5, <1>6, <2>3, 1 \in Nat, StartedOK
    <3> QED BY ONLY <1>11, <3>1
  <2>5. \A i \in DOMAIN msgs : /\ Tracks(t.traced[i], t.out[i], history.asked[i], ToCome(i))
                               /\ Tracks(t.before[i], msgs[i].content, history.asked[i], {})
    BY <2>1, <2>2, <2>4
  <2> QED BY <1>11, <2>4, <2>5 DEF WorkOK
<1>10. DOMAIN history = {"asked", "traced", "clean", "sent", "meant"} BY DEF Init
<1> QED BY <1>6, <1>7, <1>9, <1>10, <1>11 DEF TextInv, NothingFoundIsSent

\* A message is analyzed: its detections are those to come.
LEMMA AnalyzeKeeps == TextInv /\ Analyze => TextInv'
<1> SUFFICES ASSUME TextInv, Analyze PROVE TextInv' OBVIOUS
<1>1. at = "analyze" /\ t.pos <= Len(Chain) /\ MessagesOK /\ WorkOK /\ MappingsOK
  BY DEF Analyze, TextInv
<1>2. PICK spans \in SUBSET SpanSet(t.out[t.m]) :
        LET w == [t EXCEPT !.spans = spans, !.traced[t.m] = Detected(@, spans)] IN
        /\ IF spans = {} THEN Proceed(w)
           ELSE t' = w /\ at' = "replace" /\ UNCHANGED msgs
        /\ history' = [history EXCEPT !.clean = @ /\ \A s, r \in spans : ~Overlap(s, r)]
  BY DEF Analyze
<1>3. PICK text : text = t.out[t.m] OBVIOUS
<1>4. PICK w : w = [t EXCEPT !.spans = spans, !.traced[t.m] = Detected(@, spans)] OBVIOUS
<1>5. /\ IF spans = {} THEN Proceed(w) ELSE t' = w /\ at' = "replace" /\ UNCHANGED msgs
      /\ history' = [history EXCEPT !.clean = @ /\ \A s, r \in spans : ~Overlap(s, r)]
  BY <1>2, <1>3, <1>4
<1>6. t \in WorkFor(DOMAIN msgs) /\ text \in Text BY <1>1, <1>3 DEF WorkOK, WorkFor
<1>7. \A s \in spans : s \in Span /\ s.start < s.end /\ s.end <= Len(text)
  BY <1>2, <1>3, <1>6, SpansTyped
<1>8. PICK trace : trace = Detected(t.traced[t.m], spans) OBVIOUS
<1>9. PICK asked : asked = history.asked OBVIOUS
<1>14. \A i \in DOMAIN msgs : /\ Tracks(t.traced[i], t.out[i], asked[i], {})
                              /\ Tracks(t.before[i], msgs[i].content, asked[i], {})
  BY <1>1, <1>9 DEF WorkOK, ToCome
<1>15. trace \in Trace /\ Tracks(trace, text, asked[t.m], spans)
  <2>1. spans \in SUBSET Span /\ \A s \in spans : s.end <= Len(text) BY <1>7
  <2>2. PICK was : was = t.traced[t.m] OBVIOUS
  <2>3. was \in Trace /\ Tracks(was, text, asked[t.m], {}) BY <1>3, <1>6, <1>14, <2>2 DEF WorkFor
  <2>4. trace = Detected(was, spans) BY <1>8, <2>2
  <2> QED BY ONLY <1>6, <2>1, <2>3, <2>4, DetectedTracks
<1>16. w = [t EXCEPT !.spans = spans, !.traced[t.m] = trace]
  BY ONLY <1>4, <1>6, <1>8 DEF WorkFor
<1>17. w \in WorkFor(DOMAIN msgs)
  <2>1. spans \in SUBSET Span BY <1>7
  <2> QED BY ONLY <1>6, <1>15, <1>16, <2>1 DEF WorkFor
<1>18. /\ w.pos = t.pos /\ w.out = t.out /\ w.m = t.m /\ w.spans = spans /\ w.before = t.before
       /\ \A i \in DOMAIN msgs : w.traced[i] = IF i = t.m THEN trace ELSE t.traced[i]
  BY ONLY <1>6, <1>16 DEF WorkFor
<1>19. \A i \in DOMAIN msgs :
         /\ Tracks(w.traced[i], w.out[i], asked[i], IF i = t.m THEN spans ELSE {})
         /\ Tracks(w.before[i], msgs[i].content, asked[i], {})
  BY <1>3, <1>14, <1>15, <1>18
<1>10. /\ DOMAIN history' = DOMAIN history /\ history'.asked = asked
       /\ history'.clean => history.clean /\ \A s, r \in spans : ~Overlap(s, r)
  BY <1>1, <1>5, <1>9 DEF TextInv
<1>12. MappingsOK' BY <1>1 DEF Analyze, MappingsOK, OnePlaceholder
<1>13. at' \in {"analyze", "replace"} /\ MessagesOK' /\ WorkOK'
  <2>1. CASE spans = {}
    <3>1. \A i \in DOMAIN msgs : /\ Tracks(w.traced[i], w.out[i], asked[i], {})
                                 /\ Tracks(w.before[i], msgs[i].content, asked[i], {})
      BY <1>19, <2>1
    <3>2. Proceed(w) /\ w.pos <= Len(Chain) BY <1>1, <1>5, <1>18, <2>1
    <3>3. history'.asked = asked BY <1>10
    <3> QED BY ONLY <1>1, <1>17, <3>1, <3>2, <3>3, ProceedKeeps
  <2>2. CASE spans # {}
    <3>1. t' = w /\ at' = "replace" /\ msgs' = msgs BY <1>5, <2>2
    <3>2. MessagesOK' BY <1>1, <3>1 DEF MessagesOK
    <3>3. \A i : ToCome(i)' = IF i = t.m THEN spans ELSE {} BY <1>18, <3>1 DEF ToCome
    <3>4. \A i \in DOMAIN msgs' :
            /\ Tracks(t'.traced[i], t'.out[i], history'.asked[i], ToCome(i)')
            /\ Tracks(t'.before[i], msgs'[i].content, history'.asked[i], {})
      BY <1>10, <1>19, <3>1, <3>3
    <3>5. t' \in WorkFor(DOMAIN msgs') BY <1>17, <3>1
    <3>6. /\ t'.pos <= Len(Chain) /\ t'.spans = spans /\ t'.out[t'.m] = text
      BY <1>1, <1>3, <1>18, <3>1
    <3> QED BY <1>7, <1>10, <3>1, <3>2, <3>4, <3>5, <3>6 DEF WorkOK
  <2> QED BY <2>1, <2>2
<1> QED BY <1>10, <1>12, <1>13 DEF TextInv, NothingFoundIsSent

LEMMA AnalyzeFailsKeeps == TextInv /\ AnalyzeFails => TextInv'
<1> SUFFICES ASSUME TextInv, AnalyzeFails PROVE TextInv' OBVIOUS
<1>1. at = "analyze" /\ t.pos <= Len(Chain) /\ MessagesOK /\ WorkOK /\ MappingsOK
  BY DEF AnalyzeFails, TextInv
<1>2. msgs' = msgs /\ history' = history /\ mappings' = mappings /\ counters' = counters
  BY DEF AnalyzeFails
<1>3. MessagesOK' /\ MappingsOK' BY <1>1, <1>2 DEF MessagesOK, MappingsOK, OnePlaceholder
<1>4. CASE at' = "failed" BY <1>2, <1>3, <1>4 DEF TextInv, NothingFoundIsSent
<1>5. CASE at' # "failed"
  <2>1. t' = Started(t.pos + 1, t.before) /\ at' = "analyze" BY <1>5 DEF AnalyzeFails
  <2>2. t.pos + 1 \in Nat /\ msgs # <<>> /\ t.before \in [DOMAIN msgs -> Trace]
    <3>1. t.pos \in Nat /\ t.m \in DOMAIN msgs BY <1>1 DEF WorkOK, WorkFor
    <3>2. t.before \in [DOMAIN msgs -> Trace] BY <1>1 DEF WorkOK, WorkFor
    <3> QED BY <3>1, <3>2
  <2>3. /\ t' \in WorkFor(DOMAIN msgs) /\ t'.traced = t.before /\ t'.before = t.before
        /\ \A i \in DOMAIN msgs : t'.out[i] = msgs[i].content
    BY <1>1, <2>1, <2>2, StartedOK
  <2>4. \A i : ToCome(i)' = {} BY <2>1 DEF ToCome
  <2>5. \A i \in DOMAIN msgs' : /\ Tracks(t'.traced[i], t'.out[i], history'.asked[i], ToCome(i)')
                                /\ Tracks(t'.before[i], msgs'[i].content, history'.asked[i], {})
    BY <1>1, <1>2, <2>3, <2>4 DEF WorkOK
  <2>6. WorkOK' BY <1>2, <2>1, <2>3, <2>5 DEF WorkOK
  <2> QED BY <1>2, <1>3, <2>1, <2>6 DEF TextInv, NothingFoundIsSent
<1> QED BY <1>4, <1>5

\* One iteration of the replacement leaves the traces; where nothing overlaps, the other
\* detections end before it.
LEMMA ReplaceKeeps == TextInv /\ Replace => TextInv'
<1> SUFFICES ASSUME TextInv, Replace PROVE TextInv' OBVIOUS
<1>1. at = "replace" /\ MessagesOK /\ WorkOK /\ MappingsOK BY DEF Replace, TextInv
<1>2. PICK s \in LastSpans :
       LET text == t.out[t.m]
           original == SubSeq(text, s.start + 1, s.end)
           p == Allocated(s.type, original)
           valid == s.end <= Len(text)
           w == [t EXCEPT !.spans = @ \ {s},
                  !.out[t.m] = IF valid THEN Spliced(@, s.start, s.end, Placeholder(p)) ELSE @,
                  !.traced[t.m].from = IF valid THEN Spliced(@, s.start, s.end, Nowhere) ELSE @]
       IN  /\ IF w.spans = {} THEN Proceed(w) ELSE t' = w /\ UNCHANGED <<at, msgs>>
           /\ mappings' = IF valid THEN [q \in DOMAIN mappings \cup {p} |->
                                        IF q = p THEN original ELSE mappings[q]] ELSE mappings
           /\ counters' = IF valid /\ p \notin DOMAIN mappings
                          THEN [counters EXCEPT ![s.type] = @ + 1] ELSE counters
  BY DEF Replace
<1>3. PICK text : text = t.out[t.m] OBVIOUS
<1>4. PICK original : original = SubSeq(text, s.start + 1, s.end) OBVIOUS
<1>5. PICK p : p = Allocated(s.type, original) OBVIOUS
<1>6. PICK new : new = Spliced(text, s.start, s.end, Placeholder(p)) OBVIOUS
<1>7. PICK w : w = [t EXCEPT !.spans = @ \ {s},
                  !.out[t.m] = IF s.end <= Len(text)
                               THEN Spliced(@, s.start, s.end, Placeholder(p)) ELSE @,
                  !.traced[t.m].from = IF s.end <= Len(text)
                                       THEN Spliced(@, s.start, s.end, Nowhere) ELSE @]
  OBVIOUS
<1>8. /\ IF w.spans = {} THEN Proceed(w) ELSE t' = w /\ UNCHANGED <<at, msgs>>
      /\ mappings' = IF s.end <= Len(text)
                     THEN [q \in DOMAIN mappings \cup {p} |->
                             IF q = p THEN original ELSE mappings[q]] ELSE mappings
      /\ counters' = IF s.end <= Len(text) /\ p \notin DOMAIN mappings
                     THEN [counters EXCEPT ![s.type] = @ + 1] ELSE counters
  BY ONLY <1>2, <1>3, <1>4, <1>5, <1>7
<1>9. history' = history BY DEF Replace
<1>10. t \in WorkFor(DOMAIN msgs) /\ text \in Text /\ t.m \in DOMAIN msgs
  BY <1>1, <1>3 DEF WorkOK, WorkFor
<1>11. /\ s \in t.spans /\ s \in Span /\ s.start < s.end /\ t.pos <= Len(Chain)
       /\ \A r \in t.spans : r \in Span /\ r.start < r.end /\ r.start <= s.start
  BY <1>1, <1>10 DEF LastSpans, WorkOK, WorkFor
<1>12. MappingsOK' /\ (s.end <= Len(text) => p \in Entity \X Nat)
  <2>1. CASE s.end <= Len(text)
    <3>1. mappings' = [q \in DOMAIN mappings \cup {p} |-> IF q = p THEN original ELSE mappings[q]]
      BY <1>8, <2>1
    <3>2. counters' = IF p \notin DOMAIN mappings
                      THEN [counters EXCEPT ![s.type] = @ + 1] ELSE counters
      BY <1>8, <2>1
    <3>3. s.type \in Entity BY <1>11 DEF Span
    <3> QED BY ONLY <1>1, <1>5, <3>1, <3>2, <3>3, AllocatedKeeps
  <2>2. CASE ~(s.end <= Len(text))
    <3>1. mappings' = mappings /\ counters' = counters BY <1>8, <2>2
    <3> QED BY <1>1, <2>2, <3>1 DEF MappingsOK, OnePlaceholder
  <2> QED BY <2>1, <2>2
<1>13. s.end <= Len(text) => new \in Text
  <2> SUFFICES ASSUME s.end <= Len(text) PROVE new \in Text OBVIOUS
  <2>1. Placeholder(p) \in Text BY <1>12, PlaceholderText
  <2>2. s.start \in Nat /\ s.end \in Nat BY <1>11 DEF Span
  <2> QED BY <1>6, <1>10, <1>11, <2>1, <2>2, SplicedText
<1>14. PICK was : was = t.traced[t.m] OBVIOUS
<1>15. PICK after : after = [was EXCEPT !.from = Spliced(@, s.start, s.end, Nowhere)] OBVIOUS
<1>18. PICK spans : spans = t.spans OBVIOUS
<1>19. PICK asked : asked = history.asked OBVIOUS
<1>20. /\ spans \in SUBSET Span /\ Foremost(s, spans) /\ was \in Trace
       /\ Tracks(was, text, asked[t.m], spans)
  <2>1. spans \in SUBSET Span /\ was \in Trace BY <1>10, <1>14, <1>18 DEF WorkFor
  <2>2. Foremost(s, spans) BY <1>11, <1>18 DEF Foremost
  <2>3. Tracks(was, text, asked[t.m], spans)
    BY <1>1, <1>3, <1>10, <1>14, <1>18, <1>19 DEF WorkOK, ToCome
  <2> QED BY <2>1, <2>2, <2>3
<1>21. s.end <= Len(text) => after \in Trace /\ Tracks(after, new, asked[t.m], spans \ {s})
  <2> SUFFICES ASSUME s.end <= Len(text)
               PROVE  after \in Trace /\ Tracks(after, new, asked[t.m], spans \ {s})
    OBVIOUS
  <2>1. p \in Entity \X Nat /\ s.start < s.end /\ s.end <= Len(text) BY <1>11, <1>12
  <2> QED BY ONLY <1>6, <1>10, <1>15, <1>20, <2>1, ReplacedTracks
<1>22. ~(s.end <= Len(text)) => Tracks(was, text, asked[t.m], spans \ {s})
  BY ONLY <1>10, <1>11, <1>20, PassedTracks
<1>23. /\ w.pos = t.pos /\ w.m = t.m /\ w.spans = spans \ {s} /\ w.before = t.before
       /\ \A i \in DOMAIN msgs :
            /\ w.out[i] = IF i = t.m /\ s.end <= Len(text) THEN new ELSE t.out[i]
            /\ w.traced[i] = IF i = t.m /\ s.end <= Len(text) THEN after ELSE t.traced[i]
       /\ w \in WorkFor(DOMAIN msgs)
  <2>1. CASE s.end <= Len(text)
    <3>1. w = [t EXCEPT !.spans = spans \ {s}, !.out[t.m] = new, !.traced[t.m] = after]
      BY ONLY <1>3, <1>6, <1>7, <1>10, <1>14, <1>15, <1>18, <2>1 DEF WorkFor
    <3>2. new \in Text /\ after \in Trace /\ spans \ {s} \in SUBSET Span
      BY <1>13, <1>20, <1>21, <2>1
    <3> QED BY ONLY <1>10, <2>1, <3>1, <3>2 DEF WorkFor
  <2>2. CASE ~(s.end <= Len(text))
    <3>1. w = [t EXCEPT !.spans = spans \ {s}, !.out[t.m] = text, !.traced[t.m] = was]
      <4>1. PICK same : same = [was EXCEPT !.from = @] OBVIOUS
      <4>2. w = [t EXCEPT !.spans = spans \ {s}, !.out[t.m] = text, !.traced[t.m] = same]
        BY ONLY <1>3, <1>7, <1>10, <1>14, <1>18, <2>2, <4>1 DEF WorkFor
      <4>3. same = was BY ONLY <1>20, <4>1 DEF Trace
      <4> QED BY ONLY <4>2, <4>3
    <3>2. spans \ {s} \in SUBSET Span BY <1>20
    <3> QED BY ONLY <1>3, <1>10, <1>14, <1>20, <2>2, <3>1, <3>2 DEF WorkFor
  <2> QED BY <2>1, <2>2
<1>24. \A i \in DOMAIN msgs :
         /\ Tracks(w.traced[i], w.out[i], asked[i], IF i = t.m THEN w.spans ELSE {})
         /\ Tracks(w.before[i], msgs[i].content, asked[i], {})
  <2>1. \A i \in DOMAIN msgs : /\ i # t.m => Tracks(t.traced[i], t.out[i], asked[i], {})
                               /\ Tracks(t.before[i], msgs[i].content, asked[i], {})
    BY <1>1, <1>19 DEF WorkOK, ToCome
  <2> QED BY ONLY <1>3, <1>14, <1>21, <1>22, <1>23, <2>1
<1>16. history.clean => \A r, q \in w.spans : r.end <= Len(w.out[t.m]) /\ ~Overlap(r, q)
  <2> SUFFICES ASSUME history.clean
               PROVE  \A r, q \in w.spans : r.end <= Len(w.out[t.m]) /\ ~Overlap(r, q)
    OBVIOUS
  <2>1. \A r, q \in t.spans : r.end <= Len(text) /\ ~Overlap(r, q)
    BY <1>1, <1>3 DEF WorkOK
  <2>2. s.end <= Len(text) /\ p \in Entity \X Nat BY <1>11, <1>12, <2>1
  <2>3. s.start \in Nat /\ s.end \in Nat BY <1>11 DEF Span
  <2>4. ASSUME NEW r \in t.spans \ {s} PROVE r.end \in Nat /\ r.end <= s.start
    <3>1. r.end \in Nat /\ r.start \in Nat /\ r.start <= s.start BY <1>11 DEF Span
    <3>2. ~(s.start < r.end /\ r.start < s.end) BY <1>11, <2>1 DEF Overlap
    <3> QED BY <3>1, <3>2, <2>3, <1>11
  <2>5. Len(new) \in Nat /\ s.start <= Len(new)
    <3>1. PICK b : b = Placeholder(p) OBVIOUS
    <3>2. b \in Text BY <2>2, <3>1, PlaceholderText
    <3>3. new \in Text /\ Moved(new, text, s.start, s.end, Len(b))
      BY <1>6, <1>10, <1>11, <2>2, <2>3, <3>1, <3>2, SplicedText
    <3>4. Len(new) \in Nat /\ Len(b) \in Nat /\ Len(text) \in Nat BY <1>10, <3>2, <3>3 DEF Text
    <3>5. Len(new) = s.start + Len(b) + (Len(text) - s.end) BY <3>3 DEF Moved
    <3> QED BY ONLY <2>2, <2>3, <3>4, <3>5
  <2>6. w.out[t.m] = new BY <1>10, <1>23, <2>2
  <2>7. ASSUME NEW r \in w.spans PROVE r.end <= Len(new)
    <3>1. r.end \in Nat /\ r.end <= s.start BY <1>18, <1>23, <2>4
    <3> QED BY ONLY <2>3, <2>5, <3>1
  <2>8. \A r, q \in w.spans : ~Overlap(r, q) BY <1>18, <1>23, <2>1
  <2> QED BY <2>6, <2>7, <2>8
<1>17. at' \in {"analyze", "replace"} /\ MessagesOK' /\ WorkOK'
  <2>1. CASE w.spans = {}
    <3>1. \A i \in DOMAIN msgs : /\ Tracks(w.traced[i], w.out[i], asked[i], {})
                                 /\ Tracks(w.before[i], msgs[i].content, asked[i], {})
      BY <1>24, <2>1
    <3>2. Proceed(w) /\ w.pos <= Len(Chain) BY <1>8, <1>11, <1>23, <2>1
    <3>3. history'.asked = asked BY <1>9, <1>19
    <3>4. w \in WorkFor(DOMAIN msgs) BY <1>23
    <3> QED BY ONLY <1>1, <3>1, <3>2, <3>3, <3>4, ProceedKeeps
  <2>2. CASE w.spans # {}
    <3>1. t' = w /\ at' = "replace" /\ msgs' = msgs BY <1>1, <1>8, <2>2
    <3>2. MessagesOK' BY <1>1, <3>1 DEF MessagesOK
    <3>3. \A i : ToCome(i)' = IF i = t.m THEN w.spans ELSE {} BY <1>23, <3>1 DEF ToCome
    <3>4. \A i \in DOMAIN msgs' :
            /\ Tracks(t'.traced[i], t'.out[i], history'.asked[i], ToCome(i)')
            /\ Tracks(t'.before[i], msgs'[i].content, history'.asked[i], {})
      BY <1>9, <1>19, <1>24, <3>1, <3>3
    <3>5. t' \in WorkFor(DOMAIN msgs') BY <1>23, <3>1
    <3>6. t'.pos <= Len(Chain) /\ t'.spans \subseteq t.spans /\ t'.out[t'.m] = w.out[t.m]
      BY <1>11, <1>18, <1>23, <3>1
    <3>7. \A r \in t'.spans : r.start < r.end BY <1>11, <3>6
    <3>8. history'.clean => \A r, q \in t'.spans : r.end <= Len(t'.out[t'.m]) /\ ~Overlap(r, q)
      BY <1>9, <1>16, <3>1, <3>6
    <3> QED BY <3>1, <3>2, <3>4, <3>5, <3>6, <3>7, <3>8 DEF WorkOK
  <2> QED BY <2>1, <2>2
<1> QED BY <1>9, <1>12, <1>17 DEF TextInv, NothingFoundIsSent

\* The provider reads the copy: the raw form of a message whose text was not rewritten
\* says the same.
LEMMA SendKeeps == TextInv /\ Send => TextInv'
<1> SUFFICES ASSUME TextInv, Send PROVE TextInv' OBVIOUS
<1>1. at = "analyze" /\ t.pos = Len(Chain) + 1 /\ MessagesOK /\ WorkOK /\ MappingsOK
  BY DEF Send, TextInv
<1>2. msgs' = msgs /\ mappings' = mappings /\ counters' = counters /\ at' = "llm" BY DEF Send
<1>3. history' = [history EXCEPT !.traced = t.traced,
                                 !.sent = [i \in DOMAIN msgs |-> Marshalled(msgs[i])]]
  BY DEF Send
<1>4. MessagesOK' /\ MappingsOK' BY <1>1, <1>2 DEF MessagesOK, MappingsOK, OnePlaceholder
<1>5. t.pos > Len(Chain) BY <1>1, ChainAssumption
<1>6. ASSUME NEW i \in DOMAIN msgs PROVE Marshalled(msgs[i]) = t.out[i]
  BY <1>1, <1>5 DEF WorkOK, MessagesOK, Marshalled
<1>7. \A i \in DOMAIN msgs : Tracks(t.traced[i], t.out[i], history.asked[i], {})
  BY <1>1 DEF WorkOK, ToCome
<1>8. /\ DOMAIN history' = DOMAIN history /\ history'.traced = t.traced
      /\ history'.asked = history.asked
      /\ \A i \in DOMAIN msgs : history'.sent[i] = Marshalled(msgs[i])
  BY <1>3 DEF TextInv
<1>9. NothingFoundIsSent'
  <2>1. ASSUME NEW i \in DOMAIN msgs PROVE Hides(i, history.traced[i].apart)'
    <3>1. PICK trace, text, asked : trace = t.traced[i] /\ text = t.out[i] /\ asked = history.asked[i]
      OBVIOUS
    <3>2. Follows(trace.from, text, asked) /\ Awaits(trace.from, trace.apart, {}, Len(text))
      BY <1>7, <3>1 DEF Tracks
    <3>3. Apart({}) = {} BY DEF Apart
    <3>4. \A k \in 1..Len(text) : trace.from[k] # 0 => trace.from[k] \notin trace.apart
      BY <3>2, <3>3 DEF Awaits
    <3>5. /\ history'.sent[i] = text /\ history'.traced[i] = trace /\ history'.asked[i] = asked
      BY <1>6, <1>8, <3>1
    <3> QED BY ONLY <3>2, <3>4, <3>5 DEF Hides, Follows
  <2> QED BY <1>2, <2>1 DEF NothingFoundIsSent
<1> QED BY <1>2, <1>4, <1>8, <1>9 DEF TextInv

\* The answer, its restoration and the reply leave what was sent.
LEMMA AfterwardsKeeps == TextInv /\ (Answer \/ Deanonymize \/ Reply) => TextInv'
<1> SUFFICES ASSUME TextInv, Answer \/ Deanonymize \/ Reply PROVE TextInv' OBVIOUS
<1>1. /\ msgs' = msgs /\ mappings' = mappings /\ counters' = counters
      /\ at \in {"llm", "restore", "reply"} /\ at' \in {"restore", "reply"}
  BY DEF Answer, Deanonymize, Reply
<1>2. /\ DOMAIN history' = DOMAIN history /\ history'.clean = history.clean
      /\ history'.traced = history.traced /\ history'.sent = history.sent
      /\ history'.asked = history.asked
  <2>1. CASE Answer
    <3>1. PICK meant : history' = [history EXCEPT !.meant = meant] BY <2>1 DEF Answer
    <3> QED BY <3>1 DEF TextInv
  <2>2. CASE Deanonymize \/ Reply BY <2>2 DEF Deanonymize, Reply
  <2> QED BY <2>1, <2>2
<1>3. MessagesOK' /\ MappingsOK'
  BY <1>1 DEF TextInv, MessagesOK, MappingsOK, OnePlaceholder
<1>4. NothingFoundIsSent' BY <1>1, <1>2 DEF TextInv, NothingFoundIsSent, Hides
<1> QED BY <1>1, <1>2, <1>3, <1>4 DEF TextInv

LEMMA StepText == TextInv /\ [Next]_vars => TextInv'
<1> SUFFICES ASSUME TextInv, [Next]_vars PROVE TextInv' OBVIOUS
<1>1. CASE UNCHANGED vars
  BY <1>1 DEF vars, TextInv, MappingsOK, OnePlaceholder, MessagesOK, WorkOK, ToCome,
              NothingFoundIsSent, Hides
<1> QED BY <1>1, AnalyzeKeeps, AnalyzeFailsKeeps, ReplaceKeeps, SendKeeps, AfterwardsKeeps DEF Next

\* No byte of a detection gets to the provider unless a detection replaced before it
\* overlaps it: through any number of anonymizers, messages and detections, whichever of
\* the anonymizers fail open (presidio.go:170, openai.go:60, README.md:41).
THEOREM NothingSent == Spec => []NothingFoundIsSent
<1>1. TextInv => NothingFoundIsSent BY DEF TextInv
<1> QED BY <1>1, InitInv, StepText, PTL DEF Spec

\* A value has one placeholder throughout the request (state.go:38).
THEOREM PlaceholderOnce == Spec => []OnePlaceholder
<1>1. TextInv => OnePlaceholder BY DEF TextInv, MappingsOK
<1> QED BY <1>1, InitInv, StepText, PTL DEF Spec

-----------------------------------------------------------------------------
(* The second invariant: what the client asked can be read back. *)

Says(M, text, asked) == Unbroken(text, DOMAIN M) /\ RestoredBy(M, text) = asked
Ordinary(text, spans) == \A s \in spans : \A k \in s.start + 1..s.end : ~IsPlaceholder(text[k])

RestoreInv ==
  /\ \A p \in DOMAIN mappings : mappings[p] \in Text
  /\ at \in {"analyze", "replace"} /\ history.clean =>
       /\ \A i \in DOMAIN msgs : /\ Says(mappings, msgs[i].content, history.asked[i])
                                 /\ Says(mappings, t.out[i], history.asked[i])
       /\ at = "replace" => Ordinary(t.out[t.m], t.spans)
  /\ at = "llm" /\ history.clean =>
       \A i \in DOMAIN msgs : RestoredBy(mappings, history.sent[i]) = history.asked[i]
  /\ at = "restore" =>
       \A c \in DOMAIN choices : /\ "content" \in DOMAIN choices[c]
                                 /\ RestoredBy(mappings, choices[c].content) = history.meant[c]
  /\ at = "reply" => \A c \in DOMAIN choices : choices[c].content = history.meant[c]

\* The client's own texts have no placeholders.
LEMMA InitRestore == Init => RestoreInv
<1> SUFFICES ASSUME Init PROVE RestoreInv OBVIOUS
<1>1. PICK q \in Prompt : msgs = [i \in 1..Len(q) |-> Decoded(q[i])] BY DEF Init
<1>2. q \in Seq([form : {"string"}, words : Part] \cup [form : {"parts"}, parts : Seq(Part)])
  BY PromptAssumption DEF Part
<1>3. \A i \in 1..Len(q) : msgs[i].content \in Seq(WordByte)
  BY <1>1, <1>2, DecodedTyped
<1>4. at = "analyze" /\ t.out = Contents(msgs) /\ mappings = <<>>
  BY DEF Init, Started, NoWork
<1>5. DOMAIN mappings = {} BY <1>4
<1>6. Mapped(mappings) BY <1>5 DEF Mapped
<1>7. ASSUME NEW i \in DOMAIN msgs
      PROVE  Says(mappings, msgs[i].content, msgs[i].content)
             /\ history.asked[i] = msgs[i].content /\ t.out[i] = msgs[i].content
  <2>1. i \in 1..Len(q) BY <1>1
  <2>2. PICK text : text = msgs[i].content OBVIOUS
  <2>3. text \in Text /\ Plain(text) BY <1>3, <2>1, <2>2, WordsPlain
  <2>4. Says(mappings, text, text) BY <1>6, <2>3, RestoredPlain DEF Says
  <2>5. history.asked = Contents(msgs) BY DEF Init
  <2>6. t.out = Contents(msgs) BY <1>4
  <2> QED BY <2>2, <2>4, <2>5, <2>6 DEF Contents
<1> QED BY <1>4, <1>5, <1>7 DEF RestoreInv

\* The copy of the texts says the same when it becomes the request's messages.
LEMMA ProceedSays ==
  ASSUME MessagesOK, NEW w \in WorkFor(DOMAIN msgs), Proceed(w), NEW M, NEW asked,
         \A i \in DOMAIN msgs : Says(M, msgs[i].content, asked[i]) /\ Says(M, w.out[i], asked[i])
  PROVE  \A i \in DOMAIN msgs' : Says(M, msgs'[i].content, asked[i]) /\ Says(M, t'.out[i], asked[i])
<1>1. msgs \in Seq(MessageRecord) BY DEF MessagesOK
<1>2. CASE w.m < Len(msgs)
  <2>1. t' = [w EXCEPT !.m = @ + 1] /\ msgs' = msgs BY <1>2 DEF Proceed
  <2>2. t'.out = w.out BY <2>1 DEF WorkFor
  <2> QED BY <2>1, <2>2
<1>3. CASE ~(w.m < Len(msgs))
  <2>1. /\ msgs' = [i \in DOMAIN msgs |-> [msgs[i] EXCEPT !.content = w.out[i]]]
        /\ t' = [NoWork EXCEPT !.pos = w.pos + 1, !.out = w.out,
                             !.traced = w.traced, !.before = w.traced]
    BY <1>3 DEF Proceed, Committed
  <2>2. t'.out = w.out BY <2>1 DEF NoWork
  <2>3. ASSUME NEW i \in DOMAIN msgs PROVE msgs'[i].content = w.out[i]
    <3>1. msgs[i] \in MessageRecord BY <1>1
    <3> QED BY <2>1, <3>1 DEF MessageRecord
  <2>4. DOMAIN msgs' = DOMAIN msgs BY <2>1
  <2> QED BY <2>2, <2>3, <2>4
<1> QED BY <1>2, <1>3

LEMMA AnalyzeRestores == TextInv /\ RestoreInv /\ Analyze => RestoreInv'
<1> SUFFICES ASSUME TextInv, RestoreInv, Analyze PROVE RestoreInv' OBVIOUS
<1>1. at = "analyze" /\ MessagesOK /\ WorkOK BY DEF Analyze, TextInv
<1>2. PICK spans \in SUBSET SpanSet(t.out[t.m]) :
        LET w == [t EXCEPT !.spans = spans, !.traced[t.m] = Detected(@, spans)] IN
        /\ IF spans = {} THEN Proceed(w)
           ELSE t' = w /\ at' = "replace" /\ UNCHANGED msgs
        /\ history' = [history EXCEPT !.clean = @ /\ \A s, r \in spans : ~Overlap(s, r)]
  BY DEF Analyze
<1>3. PICK text : text = t.out[t.m] OBVIOUS
<1>4. PICK w : w = [t EXCEPT !.spans = spans, !.traced[t.m] = Detected(@, spans)] OBVIOUS
<1>5. /\ IF spans = {} THEN Proceed(w) ELSE t' = w /\ at' = "replace" /\ UNCHANGED msgs
      /\ history' = [history EXCEPT !.clean = @ /\ \A s, r \in spans : ~Overlap(s, r)]
  BY <1>2, <1>3, <1>4
<1>6. t \in WorkFor(DOMAIN msgs) /\ text \in Text BY <1>1, <1>3 DEF WorkOK, WorkFor
<1>7. w \in WorkFor(DOMAIN msgs)
  <2>1. \A s \in spans : s \in Span /\ s.end <= Len(text) BY <1>2, <1>3, <1>6, SpansTyped
  <2>2. PICK was : was = t.traced[t.m] OBVIOUS
  <2>3. was \in Trace BY <1>6, <2>2 DEF WorkFor
  <2>4. Tracks(was, text, history.asked[t.m], {})
    BY <1>1, <1>3, <1>6, <2>2 DEF WorkOK, WorkFor, ToCome
  <2>5. Detected(was, spans) \in Trace BY <1>6, <2>1, <2>3, <2>4, DetectedTracks
  <2>6. spans \in SUBSET Span BY <2>1
  <2> QED BY <1>4, <1>6, <2>2, <2>5, <2>6 DEF WorkFor
<1>8. w.out = t.out /\ w.m = t.m /\ w.spans = spans BY <1>4, <1>6 DEF WorkFor
<1>9. /\ history'.asked = history.asked /\ mappings' = mappings
      /\ history'.clean => history.clean
  BY <1>5 DEF Analyze, TextInv
<1>10. \A p \in DOMAIN mappings' : mappings'[p] \in Text BY <1>9 DEF RestoreInv
<1>11. Ordinary(text, spans) BY <1>2, <1>3 DEF SpanSet, Ordinary
<1>12. history'.clean =>
         \A i \in DOMAIN msgs : /\ Says(mappings, msgs[i].content, history.asked[i])
                                /\ Says(mappings, w.out[i], history.asked[i])
  BY <1>1, <1>8, <1>9 DEF RestoreInv
<1>13. CASE spans = {}
  <2>1. Proceed(w) BY <1>5, <1>13
  <2>2. at' = "analyze" BY <2>1 DEF Proceed, Committed
  <2>3. PICK M, asked : M = mappings /\ asked = history.asked OBVIOUS
  <2>4. ASSUME history'.clean
        PROVE  \A i \in DOMAIN msgs' : Says(M, msgs'[i].content, asked[i]) /\ Says(M, t'.out[i], asked[i])
    <3>1. \A i \in DOMAIN msgs : Says(M, msgs[i].content, asked[i]) /\ Says(M, w.out[i], asked[i])
      BY <1>12, <2>3, <2>4
    <3> QED BY ONLY <1>1, <1>7, <2>1, <3>1, ProceedSays
  <2> QED BY <1>9, <1>10, <2>2, <2>3, <2>4 DEF RestoreInv
<1>14. CASE spans # {}
  <2>1. t' = w /\ at' = "replace" /\ msgs' = msgs BY <1>5, <1>14
  <2>2. t'.out[t'.m] = text /\ t'.spans = spans /\ t'.out = w.out BY <1>3, <1>8, <2>1
  <2> QED BY <1>9, <1>10, <1>11, <1>12, <2>1, <2>2 DEF RestoreInv
<1> QED BY <1>13, <1>14

LEMMA AnalyzeFailsRestores == TextInv /\ RestoreInv /\ AnalyzeFails => RestoreInv'
<1> SUFFICES ASSUME TextInv, RestoreInv, AnalyzeFails PROVE RestoreInv' OBVIOUS
<1>1. /\ at = "analyze" /\ msgs' = msgs /\ history' = history /\ mappings' = mappings
  BY DEF AnalyzeFails
<1>2. \A p \in DOMAIN mappings' : mappings'[p] \in Text BY <1>1 DEF RestoreInv
<1>3. CASE at' = "failed" BY <1>2, <1>3 DEF RestoreInv
<1>4. CASE at' # "failed"
  <2>1. t' = Started(t.pos + 1, t.before) /\ at' = "analyze" BY <1>4 DEF AnalyzeFails
  <2>2. \A i \in DOMAIN msgs : t'.out[i] = msgs[i].content BY <2>1 DEF Started, NoWork, Contents
  <2> QED BY <1>1, <1>2, <2>1, <2>2 DEF RestoreInv
<1> QED BY <1>3, <1>4

\* What the provider reads is the copy.
LEMMA SendRestores == TextInv /\ RestoreInv /\ Send => RestoreInv'
<1> SUFFICES ASSUME TextInv, RestoreInv, Send PROVE RestoreInv' OBVIOUS
<1>1. at = "analyze" /\ t.pos = Len(Chain) + 1 /\ MessagesOK /\ WorkOK BY DEF Send, TextInv
<1>2. msgs' = msgs /\ mappings' = mappings /\ at' = "llm" BY DEF Send
<1>3. history' = [history EXCEPT !.traced = t.traced,
                                 !.sent = [i \in DOMAIN msgs |-> Marshalled(msgs[i])]]
  BY DEF Send
<1>4. t.pos > Len(Chain) BY <1>1, ChainAssumption
<1>5. ASSUME NEW i \in DOMAIN msgs PROVE Marshalled(msgs[i]) = t.out[i]
  BY <1>1, <1>4 DEF WorkOK, MessagesOK, Marshalled
<1>6. /\ history'.asked = history.asked /\ history'.clean = history.clean
      /\ \A i \in DOMAIN msgs : history'.sent[i] = Marshalled(msgs[i])
  BY <1>3 DEF TextInv
<1>7. history.clean => \A i \in DOMAIN msgs : RestoredBy(mappings, t.out[i]) = history.asked[i]
  BY <1>1 DEF RestoreInv, Says
<1> QED BY <1>2, <1>5, <1>6, <1>7 DEF RestoreInv

\* A placeholder goes to one original.
LEMMA AllocatedExtends ==
  ASSUME MappingsOK, NEW e \in Entity, NEW original \in Text, NEW p, p = Allocated(e, original),
         NEW M, M = mappings, Mapped(M),
         NEW N, N = [q \in DOMAIN M \cup {p} |-> IF q = p THEN original ELSE M[q]]
  PROVE  Extends(N, M) /\ p \in DOMAIN N /\ N[p] = original
<1>1. p \in Entity \X Nat /\ (p \in DOMAIN M => M[p] = original)
  <2>1. CASE \E q \in DOMAIN mappings : mappings[q] = original
    <3>1. p \in DOMAIN mappings /\ mappings[p] = original BY <2>1 DEF Allocated
    <3> QED BY <3>1 DEF MappingsOK
  <2>2. CASE ~\E q \in DOMAIN mappings : mappings[q] = original
    <3>1. p = <<e, counters[e] + 1>> /\ counters[e] \in Nat BY <2>2 DEF Allocated, MappingsOK
    <3>2. p \in Entity \X Nat /\ p[1] = e /\ p[2] = counters[e] + 1 BY <3>1
    <3>3. p \notin DOMAIN mappings BY <3>1, <3>2 DEF MappingsOK
    <3> QED BY <3>2, <3>3
  <2> QED BY <2>1, <2>2
<1>2. DOMAIN N = DOMAIN M \cup {p} /\ \A q \in DOMAIN N : N[q] = IF q = p THEN original ELSE M[q]
  OBVIOUS
<1>3. \A q \in DOMAIN M : q \in DOMAIN N /\ N[q] = M[q] BY <1>1, <1>2
<1>4. Mapped(N) BY <1>1, <1>2 DEF Mapped
<1> QED BY <1>2, <1>3, <1>4 DEF Extends

\* Every iteration of the replacement leaves what a text says, and the other detections
\* still in the client's own bytes.
LEMMA ReplaceRestores == TextInv /\ RestoreInv /\ Replace => RestoreInv'
<1> SUFFICES ASSUME TextInv, RestoreInv, Replace PROVE RestoreInv' OBVIOUS
<1>1. at = "replace" /\ MessagesOK /\ WorkOK /\ MappingsOK BY DEF Replace, TextInv
<1>2. PICK s \in LastSpans :
       LET text == t.out[t.m]
           original == SubSeq(text, s.start + 1, s.end)
           p == Allocated(s.type, original)
           valid == s.end <= Len(text)
           w == [t EXCEPT !.spans = @ \ {s},
                  !.out[t.m] = IF valid THEN Spliced(@, s.start, s.end, Placeholder(p)) ELSE @,
                  !.traced[t.m].from = IF valid THEN Spliced(@, s.start, s.end, Nowhere) ELSE @]
       IN  /\ IF w.spans = {} THEN Proceed(w) ELSE t' = w /\ UNCHANGED <<at, msgs>>
           /\ mappings' = IF valid THEN [q \in DOMAIN mappings \cup {p} |->
                                        IF q = p THEN original ELSE mappings[q]] ELSE mappings
           /\ counters' = IF valid /\ p \notin DOMAIN mappings
                          THEN [counters EXCEPT ![s.type] = @ + 1] ELSE counters
  BY DEF Replace
<1>3. PICK text : text = t.out[t.m] OBVIOUS
<1>4. PICK original : original = SubSeq(text, s.start + 1, s.end) OBVIOUS
<1>5. PICK p : p = Allocated(s.type, original) OBVIOUS
<1>6. PICK new : new = Spliced(text, s.start, s.end, Placeholder(p)) OBVIOUS
<1>7. PICK w : w = [t EXCEPT !.spans = @ \ {s},
                  !.out[t.m] = IF s.end <= Len(text)
                               THEN Spliced(@, s.start, s.end, Placeholder(p)) ELSE @,
                  !.traced[t.m].from = IF s.end <= Len(text)
                                       THEN Spliced(@, s.start, s.end, Nowhere) ELSE @]
  OBVIOUS
<1>8. /\ IF w.spans = {} THEN Proceed(w) ELSE t' = w /\ UNCHANGED <<at, msgs>>
      /\ mappings' = IF s.end <= Len(text)
                     THEN [q \in DOMAIN mappings \cup {p} |->
                             IF q = p THEN original ELSE mappings[q]] ELSE mappings
  BY ONLY <1>2, <1>3, <1>4, <1>5, <1>7
<1>9. history' = history BY DEF Replace
<1>10. t \in WorkFor(DOMAIN msgs) /\ text \in Text /\ t.m \in DOMAIN msgs
  BY <1>1, <1>3 DEF WorkOK, WorkFor
<1>11. /\ s \in t.spans /\ s \in Span /\ s.start < s.end
       /\ \A r \in t.spans : r \in Span /\ r.start < r.end /\ r.start <= s.start
  BY <1>1, <1>10 DEF LastSpans, WorkOK, WorkFor
<1>12. s.type \in Entity /\ s.start \in Nat /\ s.end \in Nat BY <1>11 DEF Span
<1>13. PICK M, N : M = mappings /\ N = mappings' OBVIOUS
<1>14. Mapped(M) BY <1>1, <1>13 DEF Mapped, MappingsOK, RestoreInv
<1>15. s.end <= Len(text) =>
         original \in Text /\ Extends(N, M) /\ p \in DOMAIN N /\ N[p] = original
  <2> SUFFICES ASSUME s.end <= Len(text)
               PROVE  original \in Text /\ Extends(N, M) /\ p \in DOMAIN N /\ N[p] = original
    OBVIOUS
  <2>1. original \in Text
    <3>1. \A i \in s.start + 1..s.end : text[i] \in TextByte
      <4>1. \A i \in s.start + 1..s.end : i \in 1..Len(text) BY <1>10, <1>12 DEF Text
      <4> QED BY <1>10, <4>1 DEF Text
    <3>2. s.start + 1 \in Int /\ s.end \in Int BY <1>12
    <3>3. original \in Seq(TextByte) BY <1>4, <3>1, <3>2, SubSeqProperties
    <3> QED BY <3>3 DEF Text
  <2>2. N = [q \in DOMAIN M \cup {p} |-> IF q = p THEN original ELSE M[q]] BY <1>8, <1>13
  <2> QED BY ONLY <1>1, <1>5, <1>12, <1>13, <1>14, <2>1, <2>2, AllocatedExtends
<1>16. ~(s.end <= Len(text)) => N = M BY <1>8, <1>13
<1>17. Extends(N, M) BY <1>14, <1>15, <1>16 DEF Extends
<1>18. \A q \in DOMAIN mappings' : mappings'[q] \in Text BY <1>13, <1>17 DEF Extends, Mapped
<1>19. s.end <= Len(text) => new \in Text
  <2> SUFFICES ASSUME s.end <= Len(text) PROVE new \in Text OBVIOUS
  <2>1. Placeholder(p) \in Text BY <1>15, <1>17, PlaceholderText DEF Extends, Mapped
  <2> QED BY <1>6, <1>10, <1>11, <1>12, <2>1, SplicedText
<1>20. /\ w.m = t.m /\ w.spans = t.spans \ {s}
       /\ \A i \in DOMAIN msgs : w.out[i] = IF i = t.m /\ s.end <= Len(text) THEN new ELSE t.out[i]
       /\ w \in WorkFor(DOMAIN msgs)
  <2>1. PICK was : was = t.traced[t.m] OBVIOUS
  <2>2. PICK after : after = [was EXCEPT !.from = Spliced(@, s.start, s.end, Nowhere)] OBVIOUS
  <2>3. PICK spans : spans = t.spans OBVIOUS
  <2>4. spans \in SUBSET Span /\ was \in Trace BY <1>10, <2>1, <2>3 DEF WorkFor
  <2>5. CASE s.end <= Len(text)
    <3>1. w = [t EXCEPT !.spans = spans \ {s}, !.out[t.m] = new, !.traced[t.m] = after]
      BY ONLY <1>3, <1>6, <1>7, <1>10, <2>1, <2>2, <2>3, <2>5 DEF WorkFor
    <3>2. Foremost(s, spans) BY <1>11, <2>3 DEF Foremost
    <3>3. PICK asks : asks = history.asked[t.m] OBVIOUS
    <3>4. Tracks(was, text, asks, spans)
      BY <1>1, <1>3, <1>10, <2>1, <2>3, <3>3 DEF WorkOK, ToCome
    <3>5. p \in Entity \X Nat BY <1>15, <1>17, <2>5 DEF Extends, Mapped
    <3>6. after \in Trace
      BY ONLY <1>6, <1>10, <1>11, <2>2, <2>4, <2>5, <3>2, <3>4, <3>5, ReplacedTracks
    <3>7. new \in Text /\ spans \ {s} \in SUBSET Span BY <1>19, <2>4, <2>5
    <3> QED BY ONLY <1>10, <2>3, <2>5, <3>1, <3>6, <3>7 DEF WorkFor
  <2>6. CASE ~(s.end <= Len(text))
    <3>1. w = [t EXCEPT !.spans = spans \ {s}, !.out[t.m] = text, !.traced[t.m] = was]
      <4>1. PICK same : same = [was EXCEPT !.from = @] OBVIOUS
      <4>2. w = [t EXCEPT !.spans = spans \ {s}, !.out[t.m] = text, !.traced[t.m] = same]
        BY ONLY <1>3, <1>7, <1>10, <2>1, <2>3, <2>6, <4>1 DEF WorkFor
      <4>3. same = was BY ONLY <2>4, <4>1 DEF Trace
      <4> QED BY ONLY <4>2, <4>3
    <3>2. spans \ {s} \in SUBSET Span BY <2>4
    <3> QED BY ONLY <1>3, <1>10, <2>1, <2>3, <2>4, <2>6, <3>1, <3>2 DEF WorkFor
  <2> QED BY <2>5, <2>6
<1>22. PICK asked : asked = history.asked OBVIOUS
<1>23. ASSUME history.clean
       PROVE  /\ \A i \in DOMAIN msgs : Says(N, msgs[i].content, asked[i]) /\ Says(N, w.out[i], asked[i])
              /\ Ordinary(w.out[t.m], w.spans)
  <2>1. /\ \A i \in DOMAIN msgs : Says(M, msgs[i].content, asked[i]) /\ Says(M, t.out[i], asked[i])
        /\ Ordinary(text, t.spans)
    BY <1>1, <1>3, <1>13, <1>22, <1>23 DEF RestoreInv
  <2>2. \A r, q \in t.spans : r.end <= Len(text) /\ ~Overlap(r, q)
    BY <1>1, <1>3, <1>23 DEF WorkOK
  <2>3. s.end <= Len(text) BY <1>11, <2>2
  <2>4. ASSUME NEW x \in Text, NEW a, Says(M, x, a) PROVE Says(N, x, a)
    <3>1. RestoredBy(N, x) = RestoredBy(M, x) /\ Unbroken(x, DOMAIN N)
      BY <1>17, <2>4, RestoredExtended DEF Extends, Says
    <3> QED BY <2>4, <3>1 DEF Says
  <2>5. \A i \in DOMAIN msgs : msgs[i].content \in Text /\ t.out[i] \in Text
    <3>1. \A i \in DOMAIN msgs : msgs[i] \in MessageRecord BY <1>1 DEF MessagesOK
    <3> QED BY <1>10, <3>1 DEF MessageRecord, WorkFor
  <2>6. Says(N, new, asked[t.m])
    <3>1. Unbroken(text, DOMAIN M) /\ RestoredBy(M, text) = asked[t.m]
      BY <1>3, <1>10, <2>1 DEF Says
    <3>2. PICK first, last : first = s.start /\ last = s.end OBVIOUS
    <3>3. Stretch(text, first, last)
      BY <1>11, <1>12, <2>1, <2>3, <3>2 DEF Stretch, Ordinary
    <3>4. p \in DOMAIN N /\ N[p] = SubSeq(text, first + 1, last) BY <1>4, <1>15, <2>3, <3>2
    <3>5. new = Spliced(text, first, last, Placeholder(p)) BY <1>6, <3>2
    <3>6. text \in Text BY <1>10
    <3>7. Unbroken(text, DOMAIN M) BY <3>1
    <3>8. Swapped(new, text, first, last, p, N) BY ONLY <3>4, <3>5 DEF Swapped
    <3>9. Unbroken(new, DOMAIN N) /\ RestoredBy(N, new) = RestoredBy(M, text)
      BY ONLY <1>17, <3>3, <3>6, <3>7, <3>8, RestoredReplaced
    <3> QED BY <3>1, <3>9 DEF Says
  <2>7. w.out[t.m] = new BY <1>10, <1>20, <2>3
  <2>8. Ordinary(new, w.spans)
    <3>1. PICK b : b = Placeholder(p) OBVIOUS
    <3>2. b \in Text BY <1>15, <1>17, <2>3, <3>1, PlaceholderText DEF Extends, Mapped
    <3>3. Moved(new, text, s.start, s.end, Len(b))
      BY <1>6, <1>10, <1>11, <1>12, <2>3, <3>1, <3>2, SplicedText
    <3>4. \A k \in 1..s.start : new[k] = text[k] BY <3>3 DEF Moved
    <3>5. ASSUME NEW r \in w.spans, NEW k \in r.start + 1..r.end PROVE ~IsPlaceholder(new[k])
      <4>1. r \in t.spans /\ r # s BY <1>20
      <4>2. r.end \in Nat /\ r.start \in Nat /\ r.start <= s.start BY <1>11, <4>1 DEF Span
      <4>3. ~(s.start < r.end /\ r.start < s.end) BY <1>11, <2>2, <4>1 DEF Overlap
      <4>4. k \in 1..s.start
        <5>1. r.end <= s.start BY <1>11, <1>12, <4>2, <4>3
        <5> QED BY <1>12, <4>2, <5>1
      <4>5. ~IsPlaceholder(text[k]) BY <2>1, <4>1 DEF Ordinary
      <4> QED BY <3>4, <4>4, <4>5
    <3> QED BY <3>5 DEF Ordinary
  <2>9. \A i \in DOMAIN msgs : Says(N, msgs[i].content, asked[i]) BY <2>1, <2>4, <2>5
  <2>10. ASSUME NEW i \in DOMAIN msgs PROVE Says(N, w.out[i], asked[i])
    <3>1. CASE i = t.m BY <2>6, <2>7, <3>1
    <3>2. CASE i # t.m
      <4>1. w.out[i] = t.out[i] BY <1>20, <3>2
      <4> QED BY <2>1, <2>4, <2>5, <4>1
    <3> QED BY <3>1, <3>2
  <2> QED BY <2>7, <2>8, <2>9, <2>10
<1>24. CASE w.spans = {}
  <2>1. Proceed(w) BY <1>8, <1>24
  <2>2. at' = "analyze" BY <2>1 DEF Proceed, Committed
  <2>3. ASSUME history.clean
        PROVE  \A i \in DOMAIN msgs' : Says(N, msgs'[i].content, asked[i]) /\ Says(N, t'.out[i], asked[i])
    <3>1. \A i \in DOMAIN msgs : Says(N, msgs[i].content, asked[i]) /\ Says(N, w.out[i], asked[i])
      BY <1>23, <2>3
    <3>2. w \in WorkFor(DOMAIN msgs) BY <1>20
    <3> QED BY ONLY <1>1, <2>1, <3>1, <3>2, ProceedSays
  <2> QED BY <1>9, <1>13, <1>18, <1>22, <2>2, <2>3 DEF RestoreInv
<1>25. CASE w.spans # {}
  <2>1. t' = w /\ at' = "replace" /\ msgs' = msgs BY <1>1, <1>8, <1>25
  <2>2. t'.out[t'.m] = w.out[t.m] /\ t'.spans = w.spans /\ t'.out = w.out BY <1>20, <2>1
  <2> QED BY <1>9, <1>13, <1>18, <1>22, <1>23, <2>1, <2>2 DEF RestoreInv
<1> QED BY <1>24, <1>25

\* What the provider says in words and placeholders it was sent means what is restored.
LEMMA TokensMean ==
  ASSUME MappingsOK, RestoreInv, NEW n \in Nat, NEW x \in [1..n -> Token]
  PROVE  RestoredBy(mappings, FlattenSeq([i \in DOMAIN x |-> Spoken(x[i])])) =
           FlattenSeq([i \in DOMAIN x |-> Meaning(x[i])])
<1>1. PICK M : M = mappings OBVIOUS
<1>2. Mapped(M) BY <1>1 DEF Mapped, MappingsOK, RestoreInv
<1>3. ASSUME NEW y \in Token
      PROVE  /\ Spoken(y) \in Text /\ Meaning(y) \in Text /\ Unbroken(Spoken(y), DOMAIN M)
             /\ RestoredBy(M, Spoken(y)) = Meaning(y)
  <2>1. CASE y \in Word
    <3>1. PICK b : b = WordText(y) OBVIOUS
    <3>2. Spoken(y) = b /\ Meaning(y) = b BY <2>1, <3>1 DEF Spoken, Meaning
    <3>3. b \in Text /\ Plain(b) BY <2>1, <3>1, WordTyped, WordsPlain
    <3>4. RestoredBy(M, b) = b /\ Unbroken(b, DOMAIN M) BY <1>2, <3>3, RestoredPlain
    <3> QED BY <3>2, <3>3, <3>4
  <2>2. CASE y \notin Word
    <3>1. y \in DOMAIN M BY <1>1, <2>2 DEF Token
    <3>2. Spoken(y) = Placeholder(y) /\ Meaning(y) = M[y] BY <1>1, <2>2 DEF Spoken, Meaning
    <3>3. Placeholder(y) \in Text /\ M[y] \in Text BY <1>2, <3>1, PlaceholderText DEF Mapped
    <3>4. RestoredBy(M, Placeholder(y)) = M[y] /\ Unbroken(Placeholder(y), DOMAIN M)
      BY <1>2, <3>1, RestoredPlaceholder
    <3> QED BY <3>2, <3>3, <3>4
  <2> QED BY <2>1, <2>2
<1>4. PICK s : s = [i \in DOMAIN x |-> Spoken(x[i])] OBVIOUS
<1>5. PICK r : r = [i \in DOMAIN x |-> Meaning(x[i])] OBVIOUS
<1>6. AllRestored(M, s, r, DOMAIN M, n)
  <2>1. \A i \in 1..n : s[i] = Spoken(x[i]) /\ r[i] = Meaning(x[i]) /\ x[i] \in Token
    BY <1>4, <1>5
  <2>2. \A i \in 1..n : /\ s[i] \in Text /\ r[i] \in Text
                        /\ Unbroken(s[i], DOMAIN M) /\ RestoredBy(M, s[i]) = r[i]
    BY <1>3, <2>1
  <2>3. s \in [1..n -> Text] /\ r \in [1..n -> Text] BY <1>4, <1>5, <2>2
  <2> QED BY <2>2, <2>3 DEF AllRestored
<1>7. RestoredBy(M, FlattenSeq(s)) = FlattenSeq(r) BY <1>2, <1>6, FlatRestored
<1> QED BY <1>1, <1>4, <1>5, <1>7

LEMMA ChoiceMeans ==
  ASSUME MappingsOK, RestoreInv, at = "llm", NEW c \in Choice
  PROVE  RestoredBy(mappings, c.content) = c.means
<1>1. CASE \E i \in DOMAIN msgs : history.clean
             /\ c = [content |-> history.sent[i], tools |-> FALSE, means |-> history.asked[i]]
  <2>1. PICK i \in DOMAIN msgs : /\ history.clean /\ c.content = history.sent[i]
                                 /\ c.means = history.asked[i]
    BY <1>1
  <2> QED BY <2>1 DEF RestoreInv
<1>2. CASE \E x \in UNION {[1..n -> Token] : n \in 1..MaxTokens} :
             c = [content |-> FlattenSeq([i \in DOMAIN x |-> Spoken(x[i])]), tools |-> FALSE,
                  means |-> FlattenSeq([i \in DOMAIN x |-> Meaning(x[i])])]
  <2>1. PICK x \in UNION {[1..n -> Token] : n \in 1..MaxTokens} :
          c = [content |-> FlattenSeq([i \in DOMAIN x |-> Spoken(x[i])]), tools |-> FALSE,
               means |-> FlattenSeq([i \in DOMAIN x |-> Meaning(x[i])])]
    BY <1>2
  <2>2. PICK n \in 1..MaxTokens : x \in [1..n -> Token] OBVIOUS
  <2>3. n \in Nat BY BoundAssumption
  <2>4. RestoredBy(mappings, FlattenSeq([i \in DOMAIN x |-> Spoken(x[i])])) =
          FlattenSeq([i \in DOMAIN x |-> Meaning(x[i])])
    BY <2>2, <2>3, TokensMean
  <2>5. PICK s, r : /\ s = FlattenSeq([i \in DOMAIN x |-> Spoken(x[i])])
                    /\ r = FlattenSeq([i \in DOMAIN x |-> Meaning(x[i])])
    OBVIOUS
  <2>6. c = [content |-> s, tools |-> FALSE, means |-> r] BY ONLY <2>1, <2>5
  <2>7. c.content = s /\ c.means = r BY ONLY <2>6
  <2> QED BY <2>4, <2>5, <2>7
<1>3. CASE c = [content |-> <<>>, tools |-> TRUE, means |-> <<>>]
  <2>1. c.content = <<>> /\ c.means = <<>> BY <1>3
  <2>2. <<>> \in Text /\ Plain(<<>>) BY EmptySeq DEF Text, Plain
  <2>3. Mapped(mappings) BY DEF Mapped, MappingsOK, RestoreInv
  <2> QED BY <2>1, <2>2, <2>3, RestoredPlain
<1> QED BY <1>1, <1>2, <1>3 DEF Choice

LEMMA AnswerRestores == TextInv /\ RestoreInv /\ Answer => RestoreInv'
<1> SUFFICES ASSUME TextInv, RestoreInv, Answer PROVE RestoreInv' OBVIOUS
<1>1. /\ at = "llm" /\ at' = "restore" /\ msgs' = msgs /\ mappings' = mappings /\ MappingsOK
  BY DEF Answer, TextInv
<1>2. PICK n \in 0..MaxChoices : \E cs \in [1..n -> Choice] :
        /\ choices' = [c \in 1..n |-> [content |-> cs[c].content, tools |-> cs[c].tools]]
        /\ history' = [history EXCEPT !.meant = [c \in 1..n |-> cs[c].means]]
  BY DEF Answer
<1>3. PICK cs \in [1..n -> Choice] :
        /\ choices' = [c \in 1..n |-> [content |-> cs[c].content, tools |-> cs[c].tools]]
        /\ history' = [history EXCEPT !.meant = [c \in 1..n |-> cs[c].means]]
  BY <1>2
<1>4. ASSUME NEW c \in 1..n
      PROVE  "content" \in DOMAIN choices'[c]
             /\ RestoredBy(mappings, choices'[c].content) = history'.meant[c]
  <2>1. cs[c] \in Choice OBVIOUS
  <2>2. RestoredBy(mappings, cs[c].content) = cs[c].means BY <1>1, <2>1, ChoiceMeans
  <2>3. "content" \in DOMAIN choices'[c] /\ choices'[c].content = cs[c].content BY <1>3
  <2>4. history'.meant[c] = cs[c].means BY <1>3 DEF TextInv
  <2> QED BY <2>2, <2>3, <2>4
<1>5. DOMAIN choices' = 1..n BY <1>3
<1>6. \A p \in DOMAIN mappings' : mappings'[p] \in Text BY <1>1 DEF RestoreInv
<1> QED BY <1>1, <1>4, <1>5, <1>6 DEF RestoreInv

LEMMA AfterwardsRestores == RestoreInv /\ (Deanonymize \/ Reply) => RestoreInv'
<1> SUFFICES ASSUME RestoreInv, Deanonymize \/ Reply PROVE RestoreInv' OBVIOUS
<1>1. mappings' = mappings /\ history' = history /\ at' = "reply"
  BY DEF Deanonymize, Reply
<1>2. \A p \in DOMAIN mappings' : mappings'[p] \in Text BY <1>1 DEF RestoreInv
<1>3. \A c \in DOMAIN choices' : choices'[c].content = history'.meant[c]
  <2>1. CASE Deanonymize
    <3>1. /\ at = "restore"
          /\ choices' = [c \in DOMAIN choices |-> [choices[c] EXCEPT !.content = Restored(@)]]
      BY <2>1 DEF Deanonymize
    <3>2. \A c \in DOMAIN choices : choices'[c].content = Restored(choices[c].content)
      BY <3>1 DEF RestoreInv
    <3> QED BY <1>1, <3>1, <3>2, RestoredIs DEF RestoreInv
  <2>2. CASE Reply
    <3>1. at = "reply" /\ choices' = choices
      BY <2>2 DEF Reply, WriteJSON, WriteSSE, BeginSSE, EmitRole, EmitPiece, EmitFinish, EmitDone
    <3> QED BY <1>1, <3>1 DEF RestoreInv
  <2> QED BY <2>1, <2>2
<1> QED BY <1>1, <1>2, <1>3 DEF RestoreInv

LEMMA StepRestore == TextInv /\ RestoreInv /\ [Next]_vars => RestoreInv'
<1> SUFFICES ASSUME TextInv, RestoreInv, [Next]_vars PROVE RestoreInv' OBVIOUS
<1>1. CASE UNCHANGED vars BY <1>1 DEF vars, streamVars, RestoreInv
<1> QED BY <1>1, AnalyzeRestores, AnalyzeFailsRestores, ReplaceRestores, SendRestores,
           AnswerRestores, AfterwardsRestores DEF Next

\* What the client gets is what the provider meant, and its own message when that is
\* echoed, of any length and with any number of placeholders (presidio.go:153).
THEOREM RoundTrips == Spec => []RoundTrip
<1>1. TextInv /\ RestoreInv => RoundTrip BY DEF TextInv, MappingsOK, RestoreInv, RoundTrip
<1>2. Init => TextInv /\ RestoreInv BY InitInv, InitRestore
<1>3. TextInv /\ RestoreInv /\ [Next]_vars => (TextInv /\ RestoreInv)' BY StepText, StepRestore
<1> QED BY <1>1, <1>2, <1>3, PTL DEF Spec

-----------------------------------------------------------------------------
(* The replay of a response. *)

Message == [content : Seq(Byte), tools : BOOLEAN]

StreamInv ==
  /\ choices \in Seq(Message) /\ got \in Seq(Message) /\ rest \in Seq(Byte)
  /\ sending \in {"no", "role", "content", "sent"}
  /\ Len(got) <= Len(choices)
  /\ \A c \in 1..Len(choices) : Valid(choices[c].content)
  /\ sending = "no" => got = <<>>
  /\ sending = "content" => /\ Len(got) > 0
                            /\ choices[Len(got)].content = got[Len(got)].content \o rest
                            /\ Valid(rest)
  /\ \A c \in 1..Len(got) :
       c < Len(got) \/ sending \in {"role", "sent"} => got[c].content = choices[c].content
  /\ sending = "sent" => Len(got) = Len(choices)

-----------------------------------------------------------------------------
(* Where a text is cut. *)

\* The backed-up end is inside the window and what follows it starts a rune.
LEMMA BackedUpWhole ==
  ASSUME NEW text \in Seq(Byte), Valid(text), Len(text) > ChunkSize
  PROVE  BackedUp(text) \in 1..ChunkSize /\ ~Continuation(text[BackedUp(text) + 1])
<1> DEFINE starts == {k \in 1..ChunkSize : ~Continuation(text[k + 1])}
<1>1. ChunkSize \in Nat \ {0} /\ Len(text) \in Nat BY ChunkAssumption
<1>2. PICK j \in 2..ChunkSize + 1 : ~Continuation(text[j])
  <2>1. 1 \in 1..Len(text) - ChunkSize BY <1>1
  <2>2. \E j \in 1 + 1..1 + ChunkSize : ~Continuation(text[j]) BY <2>1 DEF Valid
  <2> QED BY <2>2, <1>1
<1>3. j - 1 \in starts
  <2>1. j - 1 \in 1..ChunkSize /\ (j - 1) + 1 = j BY <1>1
  <2> QED BY <2>1, <1>2
<1>4. \E k \in starts : \A i \in starts : i <= k
  <2>1. starts \subseteq 1..ChunkSize /\ starts # {} BY <1>3
  <2> HIDE DEF starts
  <2> QED BY <2>1, <1>1, LargestExists
<1>5. BackedUp(text) \in starts BY <1>3, <1>4 DEF BackedUp
<1> QED BY <1>5

\* A piece is not empty, and what follows it starts a rune.
LEMMA PieceWhole ==
  ASSUME NEW text \in Seq(Byte), Valid(text), text # <<>>
  PROVE  /\ Piece(text) \in 1..Len(text)
         /\ Piece(text) < Len(text) => ~Continuation(text[Piece(text) + 1])
<1>1. ChunkSize \in Nat \ {0} /\ Len(text) \in Nat \ {0} BY ChunkAssumption
<1>2. CASE Len(text) <= ChunkSize BY <1>1, <1>2 DEF Piece
<1>3. CASE Len(text) > ChunkSize
  <2> DEFINE end == BackedUp(text)
             spaces == {k \in 2..end : IsSpace(text[k])}
  <2>1. end \in 1..ChunkSize /\ ~Continuation(text[end + 1]) BY <1>3, BackedUpWhole
  <2>2. CASE spaces = {}
    <3>1. Piece(text) = end BY <1>3, <1>1, <2>1, <2>2 DEF Piece, Cut
    <3> QED BY <3>1, <2>1, <1>1, <1>3
  <2>3. CASE spaces # {}
    <3> HIDE DEF end
    <3>1. spaces \subseteq 1..ChunkSize BY <2>1, <1>1
    <3>2. \E k \in spaces : \A j \in spaces : j <= k
      <4> HIDE DEF spaces
      <4> QED BY <3>1, <2>3, <1>1, LargestExists
    <3> DEFINE cut == CHOOSE k \in spaces : \A j \in spaces : j <= k
    <3>3. cut \in spaces BY <3>2
    <3>4. Piece(text) = cut BY <1>3, <1>1, <2>3 DEF Piece, Cut, end
    <3> HIDE DEF cut
    <3>5. cut \in 2..end /\ IsSpace(text[cut]) BY <3>3
    <3>6. cut + 1 \in 2..Len(text) /\ (cut + 1) - 1 = cut BY <3>5, <2>1, <1>1, <1>3
    <3>7. ~Continuation(text[cut + 1]) BY <3>5, <3>6 DEF Valid
    <3> QED BY <3>4, <3>6, <3>7
  <2> QED BY <2>2, <2>3
<1> QED BY <1>1, <1>2, <1>3

\* What is left of a valid text at such a place is valid.
LEMMA RestValid ==
  ASSUME NEW text \in Seq(Byte), Valid(text), NEW n \in 1..Len(text),
         n < Len(text) => ~Continuation(text[n + 1])
  PROVE  /\ SubSeq(text, n + 1, Len(text)) \in Seq(Byte)
         /\ Valid(SubSeq(text, n + 1, Len(text)))
<1> DEFINE r == SubSeq(text, n + 1, Len(text))
<1>1. ChunkSize \in Nat \ {0} /\ Len(text) \in Nat /\ n \in Nat BY ChunkAssumption
<1>2. r \in Seq(Byte) /\ Len(r) = Len(text) - n /\ \A i \in 1..Len(r) : r[i] = text[n + i]
  OBVIOUS
<1> HIDE DEF r
<1>3. Whole(r)
  <2>1. CASE n = Len(text) BY <1>2, <2>1 DEF Whole
  <2>2. CASE n < Len(text)
    <3>1. 1 \in 1..Len(r) BY <1>1, <1>2, <2>2
    <3> QED BY <3>1, <1>2, <2>2 DEF Whole
  <2> QED BY <2>1, <2>2, <1>1
<1>4. ASSUME NEW k \in 2..Len(r), Continuation(r[k]) PROVE ~IsSpace(r[k - 1])
  <2>1. n + k \in 2..Len(text) /\ k \in 1..Len(r) /\ k - 1 \in 1..Len(r) BY <1>1, <1>2
  <2>2. r[k] = text[n + k] /\ r[k - 1] = text[n + (k - 1)] BY <2>1, <1>2
  <2>3. n + (k - 1) = (n + k) - 1 BY <1>1
  <2> QED BY <1>4, <2>1, <2>2, <2>3 DEF Valid
<1>5. ASSUME NEW k \in 1..Len(r) - ChunkSize
      PROVE  \E j \in k + 1..k + ChunkSize : ~Continuation(r[j])
  <2>1. n + k \in 1..Len(text) - ChunkSize BY <1>1, <1>2
  <2>2. PICK j \in (n + k) + 1..(n + k) + ChunkSize : ~Continuation(text[j])
    BY <2>1 DEF Valid
  <2>3. j - n \in k + 1..k + ChunkSize /\ j - n \in 1..Len(r) /\ n + (j - n) = j
    BY <1>1, <1>2
  <2>4. r[j - n] = text[j] BY <2>3, <1>2
  <2> QED BY <2>2, <2>3, <2>4
<1> QED BY <1>2, <1>3, <1>4, <1>5 DEF Valid, r

-----------------------------------------------------------------------------
LEMMA ReplayInitInv == ReplayInit => StreamInv
<1>1. SUFFICES ASSUME ReplayInit PROVE StreamInv OBVIOUS
<1>2. /\ choices \in Seq(Message) /\ rest = <<>> /\ got = <<>> /\ sending = "no"
      /\ \A c \in 1..Len(choices) : Valid(choices[c].content)
  BY <1>1 DEF ReplayInit, Message
<1>3. rest \in Seq(Byte) /\ got \in Seq(Message) /\ Len(got) = 0 /\ Len(choices) \in Nat
  <2> HIDE DEF Message
  <2> QED BY <1>2
<1> HIDE DEF Message, Valid
<1> QED BY <1>2, <1>3 DEF StreamInv

LEMMA EmitPieceKeeps == ASSUME StreamInv, EmitPiece PROVE StreamInv'
<1> DEFINE n == Piece(rest)
           g == Len(got)
           piece == SubSeq(rest, 1, n)
           after == SubSeq(rest, n + 1, Len(rest))
           x == got[g].content
           new == [content |-> x \o piece, tools |-> got[g].tools]
<1>1. /\ sending = "content" /\ rest # <<>> /\ rest \in Seq(Byte) /\ Valid(rest)
      /\ got \in Seq(Message) /\ g \in 1..Len(got)
      /\ choices[g].content = x \o rest
  BY DEF EmitPiece, StreamInv
<1>2. got' = [got EXCEPT ![g] = new] /\ rest' = after /\ choices' = choices /\ sending' = sending
  BY DEF EmitPiece
<1>3. n \in 1..Len(rest) /\ (n < Len(rest) => ~Continuation(rest[n + 1]))
  BY <1>1, PieceWhole
<1> HIDE DEF n
<1>4. after \in Seq(Byte) /\ Valid(after) BY <1>1, <1>3, RestValid
<1>5. piece \in Seq(Byte) BY <1>1, <1>3, SubSeqProperties
<1>6. piece \o after = rest
  <2>1. SubSeq(rest, 1, Len(rest)) = rest BY <1>1, SubSeqFull
  <2>2. Len(rest) \in Nat /\ n \in 1..Len(rest) BY <1>1, <1>3
  <2>3. 1 \in 1..Len(rest) + 1 /\ n \in 1 - 1..Len(rest) /\ Len(rest) \in n..Len(rest)
    BY <2>2
  <2>4. SubSeq(rest, 1, n) \o SubSeq(rest, n + 1, Len(rest)) = SubSeq(rest, 1, Len(rest))
    BY <2>3, <1>1, ConcatAdjacentSubSeq
  <2> QED BY <2>1, <2>4
<1>7. x \in Seq(Byte) /\ got[g].tools \in BOOLEAN
  <2>1. got[g] \in Message BY <1>1
  <2> HIDE DEF g
  <2> QED BY <2>1 DEF Message
<1> HIDE DEF piece, after, x
<1>8. x \o piece \in Seq(Byte) BY <1>5, <1>7, ConcatProperties
<1>9. new \in Message BY <1>7, <1>8 DEF Message
<1>10. choices[g].content = new.content \o after
  <2>1. (x \o piece) \o after = x \o (piece \o after) BY <1>4, <1>5, <1>7, ConcatAssociative
  <2> QED BY <2>1, <1>1, <1>6
<1> HIDE DEF new
<1>11. /\ got' \in Seq(Message) /\ Len(got') = g /\ got'[g] = new
       /\ \A c \in 1..g : c # g => got'[c] = got[c]
  BY <1>1, <1>2, <1>9
<1>12. \A c \in 1..g : c < g => got'[c].content = choices[c].content
  BY <1>1, <1>11 DEF StreamInv
<1>13. choices'[Len(got')].content = got'[Len(got')].content \o rest'
  BY <1>2, <1>10, <1>11
<1>14. choices \in Seq(Message) /\ g <= Len(choices) /\ g > 0
       /\ \A c \in 1..Len(choices) : Valid(choices[c].content)
  BY <1>1 DEF StreamInv
<1> HIDE DEF g
<1>15. choices' \in Seq(Message) /\ got' \in Seq(Message) /\ rest' \in Seq(Byte)
       /\ sending' = "content" /\ Len(got') <= Len(choices') /\ Len(got') > 0
  BY <1>1, <1>2, <1>4, <1>11, <1>14
<1>16. Valid(rest') /\ \A c \in 1..Len(choices') : Valid(choices'[c].content)
  BY <1>2, <1>4, <1>14
<1>17. \A c \in 1..Len(got') :
         c < Len(got') \/ sending' \in {"role", "sent"} => got'[c].content = choices'[c].content
  BY <1>2, <1>11, <1>12, <1>15
<1> QED BY <1>13, <1>15, <1>16, <1>17 DEF StreamInv

LEMMA EmitRoleKeeps == ASSUME StreamInv, EmitRole PROVE StreamInv'
<1> DEFINE new == [content |-> <<>>, tools |-> FALSE]
           n == Len(got) + 1
<1>1. /\ got \in Seq(Message) /\ choices \in Seq(Message) /\ n \in 1..Len(choices)
      /\ got' = Append(got, new) /\ rest' = choices[n].content
      /\ sending' = "content" /\ choices' = choices /\ sending = "role"
  BY DEF StreamInv, EmitRole
<1>2. new \in Message BY DEF Message
<1>3. /\ got' \in Seq(Message) /\ Len(got') = n /\ got'[n] = new
      /\ \A c \in 1..Len(got) : got'[c] = got[c]
  BY <1>1, <1>2
<1>4. rest' \in Seq(Byte)
  <2>1. choices[n] \in Message BY <1>1
  <2> HIDE DEF n
  <2> QED BY <1>1, <2>1 DEF Message
<1>5. Valid(rest') /\ \A c \in 1..Len(choices') : Valid(choices'[c].content)
  BY <1>1 DEF StreamInv
<1>6. choices'[n].content = got'[n].content \o rest'
  <2>1. got'[n].content = <<>> BY <1>3
  <2>2. <<>> \o rest' = rest' BY <1>4, ConcatEmptySeq
  <2> QED BY <1>1, <2>1, <2>2
<1>7. \A c \in 1..Len(got') :
        c < Len(got') \/ sending' \in {"role", "sent"} => got'[c].content = choices'[c].content
  BY <1>1, <1>3 DEF StreamInv
<1>8. choices' \in Seq(Message) /\ Len(got') = n /\ n > 0 /\ n <= Len(choices')
      /\ sending' = "content"
  BY <1>1, <1>3
<1> HIDE DEF n, new
<1> QED BY <1>3, <1>4, <1>5, <1>6, <1>7, <1>8 DEF StreamInv

LEMMA EmitFinishKeeps == ASSUME StreamInv, EmitFinish PROVE StreamInv'
<1> DEFINE g == Len(got)
<1>1. /\ sending = "content" /\ rest = <<>> /\ sending' = "role"
      /\ choices' = choices /\ rest' = rest /\ got' = got
      /\ got \in Seq(Message) /\ g \in 1..Len(got)
  BY DEF EmitFinish, StreamInv
<1>2. got[g].content = choices[g].content
  <2> DEFINE x == got[g].content
  <2>1. got[g] \in Message BY <1>1
  <2>2. x \in Seq(Byte)
    <3> HIDE DEF g
    <3> QED BY <2>1 DEF Message
  <2>3. choices[g].content = x \o <<>> BY <1>1 DEF StreamInv
  <2> HIDE DEF x, g
  <2>4. x \o <<>> = x BY <2>2, ConcatEmptySeq
  <2> QED BY <2>3, <2>4 DEF x
<1>3. \A c \in 1..Len(got) : got[c].content = choices[c].content
  BY <1>1, <1>2 DEF StreamInv
<1> HIDE DEF g
<1>4. /\ choices' \in Seq(Message) /\ got' \in Seq(Message) /\ rest' \in Seq(Byte)
      /\ Len(got') <= Len(choices')
      /\ \A c \in 1..Len(choices') : Valid(choices'[c].content)
      /\ \A c \in 1..Len(got') : got'[c].content = choices'[c].content
  BY <1>1, <1>3 DEF StreamInv
<1> QED BY <1>1, <1>4 DEF StreamInv

LEMMA ReplayStep == StreamInv /\ [WriteJSON \/ WriteSSE]_streamVars => StreamInv'
<1>1. SUFFICES ASSUME StreamInv, [WriteJSON \/ WriteSSE]_streamVars PROVE StreamInv' OBVIOUS
<1>2. CASE WriteJSON
  <2>1. /\ got' = choices /\ sending' = "sent" /\ choices' = choices /\ rest' = rest
    BY <1>2 DEF WriteJSON
  <2> QED BY <1>1, <2>1 DEF StreamInv
<1>3. CASE BeginSSE BY <1>1, <1>3 DEF BeginSSE, StreamInv
<1>4. CASE EmitRole BY <1>1, <1>4, EmitRoleKeeps
<1>5. CASE EmitPiece BY <1>1, <1>5, EmitPieceKeeps
<1>6. CASE EmitFinish BY <1>1, <1>6, EmitFinishKeeps
<1>7. CASE EmitDone BY <1>1, <1>7 DEF EmitDone, StreamInv
<1>8. CASE UNCHANGED streamVars BY <1>1, <1>8 DEF streamVars, StreamInv
<1> QED BY <1>1, <1>2, <1>3, <1>4, <1>5, <1>6, <1>7, <1>8 DEF WriteSSE

\* Concatenating the pieces reproduces the text, no piece is empty and none ends
\* inside a rune, for any response in UTF-8 and any chunk size no smaller than a
\* rune (stream.go:88).
THEOREM ReplayAddsUp == ReplaySpec => []StreamAddsUp
<1>1. StreamInv => StreamAddsUp
  <2>1. SUFFICES ASSUME StreamInv PROVE StreamAddsUp OBVIOUS
  <2>2. ASSUME sending = "content"
        PROVE  /\ choices[Len(got)].content = got[Len(got)].content \o rest
               /\ Whole(rest)
               /\ rest # <<>> => Piece(rest) \in 1..Len(rest)
    BY <2>1, <2>2, PieceWhole DEF StreamInv, Valid
  <2> QED BY <2>1, <2>2 DEF StreamInv, StreamAddsUp
<1> QED BY <1>1, ReplayInitInv, ReplayStep, PTL DEF ReplaySpec
=============================================================================
