-------------------------- MODULE CodexProfileProofs --------------------------
(***************************************************************************)
(* Proofs about CodexProfile for any number of commands, edits and losses  *)
(* of power, and texts of any length.                                      *)
(***************************************************************************)
EXTENDS CodexProfile, FoldLemmas, SequenceTheorems, FiniteSetTheorems, TLAPS

-----------------------------------------------------------------------------
(* First and last places in a text.                                        *)
LEMMA PositionIsFirst ==
    ASSUME NEW text \in Text, NEW token
    PROVE  /\ Position(text, token) \in 0 .. Len(text)
           /\ Position(text, token) = 0 <=> \A i \in 1 .. Len(text) : text[i] # token
           /\ Position(text, token) # 0 =>
                 /\ text[Position(text, token)] = token
                 /\ \A i \in 1 .. Position(text, token) - 1 : text[i] # token
<1> DEFINE places == {i \in DOMAIN text : text[i] = token}
<1>1. DOMAIN text = 1 .. Len(text) /\ Len(text) \in Nat
  BY DEF Text
<1>2. CASE places = {}
  BY <1>1, <1>2 DEF Position
<1>3. CASE places # {}
  <2>1. places \in SUBSET Nat
    BY <1>1
  <2> HIDE DEF places
  <2>2. Min(places) \in places /\ \A i \in places : Min(places) <= i
    BY <1>3, <2>1, MinIsLeast
  <2>3. Position(text, token) = Min(places)
    BY <1>3 DEF Position, places
  <2>4. \A i \in 1 .. Len(text) : i \in places <=> text[i] = token
    BY <1>1 DEF places
  <2>5. Min(places) \in 1 .. Len(text)
    BY <1>1, <2>2 DEF places
  <2>6. \A i \in 1 .. Min(places) - 1 : i \in 1 .. Len(text) /\ ~ (Min(places) <= i)
    BY <1>1, <2>5
  <2>7. \A i \in 1 .. Min(places) - 1 : text[i] # token
    BY <2>2, <2>4, <2>6
  <2> QED
    BY <1>1, <2>2, <2>3, <2>4, <2>5, <2>7
<1> QED
  BY <1>2, <1>3

LEMMA LastInkIsLast ==
    ASSUME NEW text \in Text
    PROVE  /\ LastInk(text) \in 0 .. Len(text)
           /\ LastInk(text) # 0 => text[LastInk(text)] \notin White
           /\ \A i \in LastInk(text) + 1 .. Len(text) : text[i] \in White
<1> DEFINE ink == {0} \cup {i \in DOMAIN text : text[i] \notin White}
<1>1. DOMAIN text = 1 .. Len(text) /\ Len(text) \in Nat
  BY DEF Text
<1>2. ink \in SUBSET (0 .. Len(text)) /\ ink # {}
  BY <1>1
<1>3. LastInk(text) = Max(ink)
  BY DEF LastInk
<1> HIDE DEF ink
<1>4. Max(ink) \in ink /\ \A i \in ink : i <= Max(ink)
  BY <1>1, <1>2, MaxIsGreatest
<1>5. \A i \in 1 .. Len(text) : i \in ink <=> text[i] \notin White
  BY <1>1 DEF ink
<1>6. Max(ink) \in 0 .. Len(text)
  BY <1>2, <1>4
<1>7. \A i \in Max(ink) + 1 .. Len(text) : i \in 1 .. Len(text) /\ ~ (i <= Max(ink))
  BY <1>1, <1>6
<1> QED
  BY <1>1, <1>3, <1>4, <1>5, <1>6, <1>7

-----------------------------------------------------------------------------
(* Every operation on texts returns a text.                                *)
LEMMA UpToType ==
    ASSUME NEW text \in Text, NEW n \in Int, n <= Len(text)
    PROVE  /\ UpTo(text, n) \in Text
           /\ Len(UpTo(text, n)) = IF n < 0 THEN 0 ELSE n
           /\ \A i \in 1 .. n : UpTo(text, n)[i] = text[i]
BY SubSeqProperties DEF UpTo, Text

LEMMA AfterType ==
    ASSUME NEW text \in Text, NEW n \in Nat, n <= Len(text)
    PROVE  /\ After(text, n) \in Text
           /\ Len(After(text, n)) = Len(text) - n
           /\ \A i \in 1 .. Len(text) - n : After(text, n)[i] = text[n + i]
BY SubSeqProperties DEF After, Text

LEMMA ConcatType ==
    ASSUME NEW s \in Text, NEW t \in Text
    PROVE  s \o t \in Text
BY DEF Text

LEMMA TrimRightType ==
    ASSUME NEW text \in Text
    PROVE  TrimRight(text) \in Text
BY UpToType, LastInkIsLast DEF TrimRight

LEMMA CleanedType ==
    ASSUME NEW text \in Text
    PROVE  Cleaned(text) \in Text
<1>1. Position(text, "begin") \in 0 .. Len(text) /\ Position(text, "end") \in 0 .. Len(text)
  BY PositionIsFirst
<1>2. Len(text) \in Nat
  BY DEF Text
<1>3. UpTo(text, Position(text, "begin") - 1) \in Text
  BY <1>1, <1>2, UpToType
<1>4. After(text, Position(text, "end")) \in Text
  BY <1>1, <1>2, AfterType
<1>5. \A t \in Text : TrimPrefix(t) \in Text
  <2> SUFFICES ASSUME NEW t \in Text, t # <<>>
               PROVE  After(t, 1) \in Text
    BY DEF TrimPrefix
  <2> 1 <= Len(t)
    BY DEF Text
  <2> QED
    BY AfterType
<1> QED
  BY <1>3, <1>4, <1>5, ConcatType DEF Cleaned

LEMMA BlockType ==
    ASSUME NEW body \in Body
    PROVE  Block(body) \in Text /\ <<"\n", "\n">> \in Text /\ <<"\n">> \in Text /\ <<>> \in Text
BY DEF Block, Text, White, Marker

LEMMA MergeType ==
    ASSUME NEW text \in Text, NEW body \in Body
    PROVE  Merge(text, body) \in Text
BY CleanedType, TrimRightType, BlockType, ConcatType DEF Merge, Merged

LEMMA RemainingType ==
    ASSUME NEW text \in Text
    PROVE  Remaining(text) \in Text
<1> <<"\n">> \in Text /\ <<>> \in Text
  BY DEF Text, White
<1> QED
  BY CleanedType, TrimRightType, ConcatType DEF Remaining, LineEnded

LEMMA CutShortType ==
    ASSUME NEW text \in Text, NEW n \in Nat
    PROVE  CutShort(text, n) \in Text
<1> <<>> \in Text /\ Len(text) \in Nat
  BY DEF Text
<1> QED
  BY UpToType DEF CutShort

-----------------------------------------------------------------------------
(* Installing is reversible on every text.                                 *)
LEMMA SameSequence ==
    ASSUME NEW s \in Text, NEW t \in Text, Len(s) = Len(t), \A i \in 1 .. Len(s) : s[i] = t[i]
    PROVE  s = t
BY SeqEqual DEF Text

LEMMA ConcatElements ==
    ASSUME NEW s \in Text, NEW t \in Text
    PROVE  /\ s \o t \in Text
           /\ Len(s \o t) = Len(s) + Len(t)
           /\ \A i \in 1 .. Len(s) : (s \o t)[i] = s[i]
           /\ \A i \in 1 .. Len(t) : (s \o t)[Len(s) + i] = t[i]
BY ConcatProperties DEF Text

Plain(text) == text \in Text /\ \A i \in 1 .. Len(text) : text[i] \notin Marker

Single(text) ==
    \A i, j \in 1 .. Len(text) : text[i] \in Marker /\ text[i] = text[j] => i = j

(* Between the markers there is nothing of the user's.                     *)
Tight(text) ==
    \A i, j, k \in 1 .. Len(text) :
        text[i] = "begin" /\ text[j] = "end" /\ i <= k /\ k <= j => text[k] \notin OwnLine

Trimmed(text) == text = <<>> \/ text[Len(text)] \notin White

LEMMA ConcatPlain ==
    ASSUME NEW s, NEW t, Plain(s), Plain(t)
    PROVE  Plain(s \o t)
<1> s \in Text /\ t \in Text /\ Len(s) \in Nat /\ Len(t) \in Nat
  BY DEF Plain, Text
<1> SUFFICES ASSUME NEW i \in 1 .. Len(s) + Len(t)
             PROVE  (s \o t)[i] \notin Marker
  BY ConcatElements DEF Plain
<1>1. CASE i <= Len(s)
  BY <1>1, ConcatElements DEF Plain
<1>2. CASE i > Len(s)
  <2> i - Len(s) \in 1 .. Len(t) /\ Len(s) + (i - Len(s)) = i
    BY <1>2
  <2> QED
    BY ConcatElements DEF Plain
<1> QED
  BY <1>1, <1>2

LEMMA AfterPlain ==
    ASSUME NEW t, Plain(t), NEW n \in Nat, n <= Len(t)
    PROVE  Plain(After(t, n))
<1> t \in Text /\ Len(t) \in Nat
  BY DEF Plain, Text
<1> /\ After(t, n) \in Text
    /\ Len(After(t, n)) = Len(t) - n
    /\ \A i \in 1 .. Len(t) - n : After(t, n)[i] = t[n + i] /\ n + i \in 1 .. Len(t)
  BY AfterType
<1> QED
  BY DEF Plain

(* What removeManaged leaves has no marker.                                *)
LEMMA CleanedIsPlain ==
    ASSUME NEW text \in Text, ~ Malformed(text)
    PROVE  Plain(Cleaned(text))
<1>0. DOMAIN text = 1 .. Len(text) /\ Len(text) \in Nat
  BY DEF Text
<1>1. CASE ~ HasMarker(text)
  BY <1>0, <1>1 DEF Cleaned, HasMarker, Plain
<1>2. CASE HasMarker(text)
  <2> DEFINE start == Position(text, "begin")
             end == Position(text, "end")
  <2>1. start \in 1 .. Len(text) /\ end \in start .. Len(text) /\ ~ HasMarker(After(text, end))
    BY <1>0, <1>2, PositionIsFirst DEF Malformed
  <2>2. \A i \in 1 .. start - 1 : text[i] # "begin" /\ text[i] # "end"
    BY <1>0, <2>1, PositionIsFirst
  <2>3. Plain(UpTo(text, start - 1))
    <3>1. /\ start - 1 \in Nat /\ start - 1 <= Len(text)
          /\ UpTo(text, start - 1) \in Text /\ Len(UpTo(text, start - 1)) = start - 1
          /\ \A i \in 1 .. start - 1 : UpTo(text, start - 1)[i] = text[i]
      BY <1>0, <2>1, UpToType
    <3> HIDE DEF start, end
    <3> QED
      BY <2>2, <3>1 DEF Plain, Marker
  <2>4. After(text, end) \in Text
    BY <1>0, <2>1, AfterType
  <2>5. Plain(After(text, end))
    BY <2>1, <2>4 DEF Plain, HasMarker, Text
  <2>6. Plain(TrimPrefix(After(text, end)))
    <3>1. After(text, end) # <<>> => 1 <= Len(After(text, end))
      BY <2>4 DEF Text
    <3> QED
      BY <2>5, <3>1, AfterPlain DEF TrimPrefix
  <2> QED
    BY <1>2, <2>3, <2>6, ConcatPlain DEF Cleaned
<1> QED
  BY <1>1, <1>2

LEMMA TrimRightTrims ==
    ASSUME NEW text, Plain(text)
    PROVE  Plain(TrimRight(text)) /\ Trimmed(TrimRight(text))
<1> text \in Text /\ Len(text) \in Nat
  BY DEF Plain, Text
<1> DEFINE n == LastInk(text)
<1>1. n \in 0 .. Len(text) /\ (n # 0 => text[n] \notin White)
  BY LastInkIsLast
<1>2. /\ TrimRight(text) \in Text
      /\ Len(TrimRight(text)) = n
      /\ \A i \in 1 .. n : TrimRight(text)[i] = text[i]
  BY <1>1, UpToType DEF TrimRight
<1>3. n = 0 => TrimRight(text) = <<>>
  BY <1>2 DEF Text
<1> QED
  BY <1>1, <1>2, <1>3 DEF Plain, Trimmed

(* White space after a trimmed text is what TrimRight takes away.          *)
LEMMA TrimRightUndoes ==
    ASSUME NEW s \in Text, Trimmed(s), NEW w \in Text, \A i \in 1 .. Len(w) : w[i] \in White
    PROVE  TrimRight(s \o w) = s
<1> Len(s) \in Nat /\ Len(w) \in Nat
  BY DEF Text
<1> DEFINE n == LastInk(s \o w)
<1>1. /\ n \in 0 .. Len(s) + Len(w)
      /\ n # 0 => (s \o w)[n] \notin White
      /\ \A i \in n + 1 .. Len(s) + Len(w) : (s \o w)[i] \in White
  BY ConcatElements, LastInkIsLast
<1> HIDE DEF n
<1>2. n <= Len(s)
  <2> SUFFICES ASSUME n > Len(s) PROVE FALSE
    BY <1>1
  <2> n - Len(s) \in 1 .. Len(w) /\ Len(s) + (n - Len(s)) = n
    BY <1>1
  <2> QED
    BY <1>1, ConcatElements
<1>3. n >= Len(s)
  <2> SUFFICES ASSUME n < Len(s) PROVE FALSE
    BY <1>1
  <2> Len(s) \in 1 .. Len(s) /\ Len(s) \in n + 1 .. Len(s) + Len(w) /\ s # <<>>
    BY <1>1
  <2> QED
    BY <1>1, ConcatElements DEF Trimmed
<1> DEFINE u == UpTo(s \o w, Len(s))
<1>4. TrimRight(s \o w) = u
  BY <1>1, <1>2, <1>3 DEF TrimRight, n
<1>5. s \o w \in Text /\ Len(s) <= Len(s \o w)
  BY ConcatElements
<1>6. u \in Text /\ Len(u) = Len(s) /\ \A i \in 1 .. Len(s) : u[i] = (s \o w)[i]
  <2>1. \A t \in Text : Len(s) <= Len(t) =>
           /\ UpTo(t, Len(s)) \in Text /\ Len(UpTo(t, Len(s))) = Len(s)
           /\ \A i \in 1 .. Len(s) : UpTo(t, Len(s))[i] = t[i]
    BY UpToType
  <2> QED
    BY <1>5, <2>1
<1>7. \A i \in 1 .. Len(s) : u[i] = s[i]
  BY <1>6, ConcatElements
<1> HIDE DEF u
<1> QED
  BY <1>4, <1>6, <1>7, SameSequence

(* A text with one block at its end, as Merge leaves it.                   *)
LEMMA MergedText ==
    ASSUME NEW c, Plain(c), Trimmed(c), NEW body \in Body
    PROVE  /\ Merged(c, body) \in Text
           /\ HasMarker(Merged(c, body))
           /\ Single(Merged(c, body))
           /\ Tight(Merged(c, body))
           /\ \E white \in Text :
                 /\ \A i \in 1 .. Len(white) : white[i] \in White
                 /\ Cleaned(Merged(c, body)) = c \o white
<1> DEFINE pad == IF c = <<>> THEN <<>> ELSE <<"\n", "\n">>
           m == Merged(c, body)
           k == Len(c) + Len(pad)
<1>1. /\ c \in Text /\ Len(c) \in Nat
      /\ pad \in Text /\ Len(pad) \in Nat /\ \A i \in 1 .. Len(pad) : pad[i] \in White
      /\ Block(body) \in Text /\ Len(Block(body)) = 4
      /\ Block(body)[1] = "begin" /\ Block(body)[2] = body
      /\ Block(body)[3] = "end" /\ Block(body)[4] = "\n"
  <2>1. c \in Text /\ Len(c) \in Nat
    BY DEF Plain, Text
  <2>2. pad \in Text /\ Len(pad) \in Nat
    BY BlockType DEF Text
  <2>3. \A i \in 1 .. Len(pad) : pad[i] \in White
    <3>1. CASE c = <<>>
      BY <3>1
    <3>2. CASE c # <<>>
      <4>1. pad = <<"\n", "\n">>
        BY <3>2
      <4> HIDE DEF pad
      <4> QED
        BY <4>1 DEF White
    <3> QED
      BY <3>1, <3>2
  <2>4. /\ Len(Block(body)) = 4
        /\ Block(body)[1] = "begin" /\ Block(body)[2] = body
        /\ Block(body)[3] = "end" /\ Block(body)[4] = "\n"
    BY DEF Block
  <2> QED
    BY <2>1, <2>2, <2>3, <2>4, BlockType
<1>2. m = (c \o pad) \o Block(body) /\ c \o pad \in Text /\ Len(c \o pad) = k
  <2>1. CASE c = <<>>
    BY <1>1, <2>1, ConcatEmptySeq DEF Merged, Text
  <2>2. CASE c # <<>>
    BY <1>1, <2>2, ConcatAssociative, ConcatElements DEF Merged, Text
  <2> QED
    BY <2>1, <2>2
<1>3. /\ m \in Text /\ Len(m) = k + 4 /\ k \in Nat
      /\ \A i \in 1 .. k : m[i] = (c \o pad)[i]
      /\ m[k + 1] = "begin" /\ m[k + 2] = body /\ m[k + 3] = "end" /\ m[k + 4] = "\n"
  <2>1. k \in Nat
    BY <1>1
  <2>2. /\ m \in Text /\ Len(m) = k + 4
        /\ \A i \in 1 .. k : m[i] = (c \o pad)[i]
        /\ \A i \in 1 .. 4 : m[k + i] = Block(body)[i]
    <3> DEFINE cp == c \o pad
               bl == Block(body)
    <3>1. cp \in Text /\ bl \in Text /\ Len(cp) = k /\ Len(bl) = 4 /\ m = cp \o bl
      BY <1>1, <1>2
    <3> HIDE DEF cp, bl, m, k
    <3>2. /\ m \in Text /\ Len(m) = k + 4
          /\ \A i \in 1 .. k : m[i] = cp[i]
          /\ \A i \in 1 .. 4 : m[k + i] = bl[i]
      <4>1. /\ cp \o bl \in Text /\ Len(cp \o bl) = Len(cp) + Len(bl)
            /\ \A i \in 1 .. Len(cp) : (cp \o bl)[i] = cp[i]
            /\ \A i \in 1 .. Len(bl) : (cp \o bl)[Len(cp) + i] = bl[i]
        BY <3>1, ConcatElements
      <4> QED
        BY <3>1, <4>1
    <3> QED
      BY <3>2 DEF cp, bl
  <2> HIDE DEF m, k, pad
  <2>3. m[k + 1] = Block(body)[1] /\ m[k + 2] = Block(body)[2]
    BY <2>2
  <2>4. m[k + 3] = Block(body)[3] /\ m[k + 4] = Block(body)[4]
    BY <2>2
  <2> QED
    BY <1>1, <2>1, <2>2, <2>3, <2>4
<1>4. Plain(c \o pad)
  <2> Plain(pad)
    BY <1>1 DEF Plain, White, Marker
  <2> QED
    BY ConcatPlain
<1> HIDE DEF m, pad, k
<1>5. HasMarker(m)
  BY <1>3 DEF HasMarker, Marker, Text
<1>s. Single(m)
  <2>1. \A i \in 1 .. k : m[i] \notin Marker
    BY <1>2, <1>3, <1>4 DEF Plain
  <2>2. m[k + 2] \notin Marker /\ m[k + 4] \notin Marker
    BY <1>3, TextConstants DEF Marker
  <2>3. \A i \in 1 .. Len(m) : i \in 1 .. k \/ i = k + 1 \/ i = k + 2 \/ i = k + 3 \/ i = k + 4
    BY <1>3
  <2>4. \A i \in 1 .. Len(m) : m[i] \in Marker => i = k + 1 \/ i = k + 3
    BY <2>1, <2>2, <2>3
  <2> QED
    BY <1>3, <2>4 DEF Single
<1>t. Tight(m)
  <2>1. \A i \in 1 .. k : m[i] \notin Marker
    BY <1>2, <1>3, <1>4 DEF Plain
  <2>2. m[k + 2] \notin Marker /\ m[k + 4] \notin Marker
    BY <1>3, TextConstants DEF Marker
  <2>3. \A i \in 1 .. Len(m) : i \in 1 .. k \/ i = k + 1 \/ i = k + 2 \/ i = k + 3 \/ i = k + 4
    BY <1>3
  <2>4. \A i \in 1 .. Len(m) : m[i] \in Marker => i = k + 1 \/ i = k + 3
    BY <2>1, <2>2, <2>3
  <2>5. m[k + 1] \notin OwnLine /\ m[k + 2] \notin OwnLine /\ m[k + 3] \notin OwnLine
    BY <1>3, TextConstants DEF Marker
  <2> SUFFICES ASSUME NEW i \in 1 .. Len(m), NEW j \in 1 .. Len(m), NEW l \in 1 .. Len(m),
                      m[i] = "begin", m[j] = "end", i <= l, l <= j
               PROVE  m[l] \notin OwnLine
    BY DEF Tight
  <2>6. (i = k + 1 \/ i = k + 3) /\ (j = k + 1 \/ j = k + 3)
    BY <2>4 DEF Marker
  <2>7. l = k + 1 \/ l = k + 2 \/ l = k + 3
    BY <1>3, <2>6
  <2> QED
    BY <2>5, <2>7
<1>6. Position(m, "begin") = k + 1
  <2>1. \A i \in 1 .. k : m[i] # "begin"
    BY <1>2, <1>3, <1>4 DEF Plain, Marker
  <2> QED
    BY <1>3, <2>1, PositionIsFirst
<1>7. Position(m, "end") = k + 3
  <2>1. \A i \in 1 .. k : m[i] # "end"
    BY <1>2, <1>3, <1>4 DEF Plain, Marker
  <2>2. body # "end"
    BY TextConstants DEF Marker
  <2>3. \A i \in 1 .. k + 2 : i \in 1 .. k \/ i = k + 1 \/ i = k + 2
    BY <1>3
  <2>4. \A i \in 1 .. k + 2 : m[i] # "end"
    BY <1>3, <2>1, <2>2, <2>3
  <2> QED
    BY <1>3, <2>4, PositionIsFirst
<1>8. After(m, k + 3) = <<"\n">>
  <2>1. After(m, k + 3) \in Text /\ Len(After(m, k + 3)) = 1 /\ After(m, k + 3)[1] = "\n"
    <3>1. k + 3 \in Nat /\ k + 3 <= Len(m) /\ Len(m) - (k + 3) = 1 /\ k + 3 + 1 = k + 4 /\ 1 \in 1 .. 1
      BY <1>3
    <3>2. \A i \in 1 .. Len(m) - (k + 3) : After(m, k + 3)[i] = m[k + 3 + i]
      BY <1>3, <3>1, AfterType
    <3> QED
      BY <1>3, <3>1, <3>2, AfterType
  <2>2. <<"\n">> \in Text
    BY DEF Text, White
  <2> QED
    BY <2>1, <2>2, SameSequence
<1>9. UpTo(m, k) = c \o pad
  <2>1. UpTo(m, k) \in Text /\ Len(UpTo(m, k)) = k /\ \A i \in 1 .. k : UpTo(m, k)[i] = m[i]
    BY <1>3, UpToType
  <2>2. \A i \in 1 .. k : UpTo(m, k)[i] = (c \o pad)[i]
    BY <1>3, <2>1
  <2> DEFINE u == UpTo(m, k)
             cp == c \o pad
  <2>3. u \in Text /\ cp \in Text /\ Len(u) = Len(cp) /\ \A i \in 1 .. Len(u) : u[i] = cp[i]
    BY <1>2, <2>1, <2>2
  <2> HIDE DEF u, cp
  <2>4. u = cp
    BY <2>3, SameSequence
  <2> QED
    BY <2>4 DEF u, cp
<1>10. Cleaned(m) = (c \o pad) \o <<"\n">>
  <2>1. (k + 1) - 1 = k
    BY <1>3
  <2>2. TrimPrefix(<<"\n">>) = <<"\n">>
    BY DEF TrimPrefix
  <2> QED
    BY <1>5, <1>6, <1>7, <1>8, <1>9, <2>1, <2>2 DEF Cleaned
<1>11. <<"\n">> \in Text
  BY DEF Text, White
<1>12. Cleaned(m) = c \o (pad \o <<"\n">>)
  <2> DEFINE end == <<"\n">>
             S == OwnLine \cup Body \cup Marker \cup White
  <2>1. c \in Seq(S) /\ pad \in Seq(S) /\ end \in Seq(S)
    BY <1>1, <1>11 DEF Text
  <2> HIDE DEF end, S
  <2>2. (c \o pad) \o end = c \o (pad \o end)
    BY <2>1, ConcatAssociative
  <2> QED
    BY <1>10, <2>2 DEF end
<1>13. pad \o <<"\n">> \in Text /\ \A i \in 1 .. Len(pad \o <<"\n">>) : (pad \o <<"\n">>)[i] \in White
  BY <1>1, <1>11, ConcatProperties DEF Text, White
<1> QED
  BY <1>3, <1>5, <1>s, <1>t, <1>12, <1>13 DEF m

(* Installing twice is installing once, with the later options.            *)
LEMMA Reversible ==
    ASSUME NEW text \in Text, ~ Malformed(text), NEW body \in Body
    PROVE  /\ \A other \in Body : Merge(Merge(text, body), other) = Merge(text, other)
           /\ Remaining(Merge(text, body)) = LineEnded(TrimRight(Cleaned(text)))
<1> DEFINE c == TrimRight(Cleaned(text))
<1>1. Plain(c) /\ Trimmed(c)
  BY CleanedIsPlain, TrimRightTrims
<1>2. PICK white \in Text : /\ \A i \in 1 .. Len(white) : white[i] \in White
                            /\ Cleaned(Merged(c, body)) = c \o white
  BY <1>1, MergedText
<1>3. TrimRight(Cleaned(Merged(c, body))) = c
  BY <1>1, <1>2, TrimRightUndoes DEF Plain
<1> QED
  BY <1>3 DEF Merge, Remaining

-----------------------------------------------------------------------------
(* Types, backups, and what a loss of power may leave, through every step. *)
BackupInv ==
    \A c \in Commands :
        (/\ command[c].phase \in {"backedUp", "written"}
         /\ command[c].kind # "rollback"
         /\ command[c].read # <<>>) => backup[c] = command[c].read

ProfileInv == ProfileTypeOK /\ BackupInv /\ PowerLossLeavesWhole

LEMMA EditsType ==
    ASSUME NEW text \in Text
    PROVE  Edits(text) \subseteq Text
<1>0. DOMAIN text = 1 .. Len(text) /\ Len(text) \in Nat
  BY DEF Text
<1>1. \A line \in OwnLine : <<line, "\n">> \in Text
  BY DEF Text, White
<1>2. \A line \in OwnLine : text \o <<line, "\n">> \in Text /\ <<line, "\n">> \o text \in Text
  BY <1>1, ConcatType
<1>3. [i \in DOMAIN text |-> IF text[i] = "\n" THEN "\r\n" ELSE text[i]] \in Text
  BY DEF Text, White
<1>4. \A i \in DOMAIN text : UpTo(text, i - 1) \o After(text, i) \in Text
  <2> SUFFICES ASSUME NEW i \in 1 .. Len(text)
               PROVE  UpTo(text, i - 1) \o After(text, i) \in Text
    BY <1>0
  <2>1. UpTo(text, i - 1) \in Text /\ After(text, i) \in Text
    BY <1>0, UpToType, AfterType
  <2> QED
    BY <2>1, ConcatType
<1> QED
  BY <1>2, <1>3, <1>4 DEF Edits

LEMMA ExistingType ==
    ASSUME ProfileTypeOK
    PROVE  Existing \in Text
<1> <<>> \in Text
  BY DEF Text
<1> QED
  BY DEF ProfileTypeOK, Content, Existing

LEMMA MovesType ==
    ASSUME ProfileTypeOK, NEW c \in Commands,
           NEW phase \in {"new", "merged", "backedUp", "written", "done"}, Moves(c, phase)
    PROVE  /\ command' \in [Commands -> Command]
           /\ command'[c] = [command[c] EXCEPT !.phase = phase]
           /\ command'[c].phase = phase
           /\ \A d \in Commands \ {c} : command'[d] = command[d]
           /\ \A d \in Commands : /\ command'[d].kind = command[d].kind
                                  /\ command'[d].read = command[d].read
                                  /\ command'[d].result = command[d].result
BY DEF Moves, ProfileTypeOK, Command

LEMMA DecidesType ==
    ASSUME ProfileTypeOK, NEW c \in Commands, NEW phase \in {"merged", "backedUp"},
           NEW kind \in {"install", "uninstall", "rollback"}, NEW result \in Text,
           Decides(c, phase, kind, result)
    PROVE  /\ command' \in [Commands -> Command]
           /\ command'[c].phase = phase /\ command'[c].kind = kind
           /\ command'[c].read = Existing /\ command'[c].result = result
           /\ \A d \in Commands \ {c} : command'[d] = command[d]
BY ExistingType DEF Decides, ProfileTypeOK, Command

LEMMA ProfileInitially == ProfileInit => ProfileInv
<1> SUFFICES ASSUME ProfileInit PROVE ProfileInv
  OBVIOUS
<1>1. <<>> \in Text /\ \A line \in OwnLine : <<line, "\n">> \in Text
  BY DEF Text, White
<1>2. NewCommand \in Command
  BY <1>1 DEF NewCommand, Command
<1>3. ProfileTypeOK
  BY <1>1, <1>2 DEF ProfileInit, ProfileTypeOK, Content
<1>4. BackupInv
  BY DEF ProfileInit, BackupInv, NewCommand
<1> QED
  BY <1>3, <1>4 DEF ProfileInv, ProfileInit, PowerLossLeavesWhole

LEMMA ProfileStep == ProfileInv /\ [ProfileNext]_profileVars => ProfileInv'
<1> SUFFICES ASSUME ProfileInv, [ProfileNext]_profileVars
             PROVE  ProfileInv'
  OBVIOUS
<1>0. ProfileTypeOK /\ BackupInv /\ mayBe \subseteq shown /\ Existing \in Text
  BY ExistingType DEF ProfileInv, PowerLossLeavesWhole
<1>1. ASSUME NEW c \in Commands, NEW body \in Body, Install(c, body)
      PROVE  ProfileInv'
  <2>1. CASE Moves(c, "done")
    BY <1>0, <1>1, <2>1, MovesType
       DEF Install, ProfileInv, ProfileTypeOK, BackupInv, PowerLossLeavesWhole
  <2>2. CASE Decides(c, "merged", "install", Merge(Existing, body))
    <3> Merge(Existing, body) \in Text
      BY <1>0, MergeType
    <3> QED
      BY <1>0, <1>1, <2>2, DecidesType
         DEF Install, ProfileInv, ProfileTypeOK, BackupInv, PowerLossLeavesWhole
  <2> QED
    BY <1>1, <2>1, <2>2 DEF Install
<1>2. ASSUME NEW c \in Commands, Uninstall(c)
      PROVE  ProfileInv'
  <2>1. CASE Moves(c, "done")
    BY <1>0, <1>2, <2>1, MovesType
       DEF Uninstall, ProfileInv, ProfileTypeOK, BackupInv, PowerLossLeavesWhole
  <2>2. CASE Decides(c, "merged", "uninstall", Remaining(Existing))
    <3> Remaining(Existing) \in Text
      BY <1>0, RemainingType
    <3> QED
      BY <1>0, <1>2, <2>2, DecidesType
         DEF Uninstall, ProfileInv, ProfileTypeOK, BackupInv, PowerLossLeavesWhole
  <2> QED
    BY <1>2, <2>1, <2>2 DEF Uninstall
<1>3. ASSUME NEW c \in Commands, NEW b \in Commands, Rollback(c, b)
      PROVE  ProfileInv'
  <2> backup[b] \in Text
    BY <1>0, <1>3 DEF Rollback, ProfileTypeOK, Content
  <2> QED
    BY <1>0, <1>3, DecidesType
       DEF Rollback, ProfileInv, ProfileTypeOK, BackupInv, PowerLossLeavesWhole
<1>4. ASSUME NEW c \in Commands, WriteBackup(c)
      PROVE  ProfileInv'
  <2>1. command[c].read \in Text /\ command[c].read # NoFile
    BY <1>0, ProfileConstants DEF ProfileTypeOK, Command
  <2>2. Moves(c, "backedUp")
    BY <1>4 DEF WriteBackup
  <2>3. /\ \A d \in Commands \ {c} : backup'[d] = backup[d]
        /\ backup' \in [Commands -> Content]
        /\ command[c].read # <<>> => backup'[c] = command[c].read
        /\ unsynced' \subseteq {d \in Commands : backup'[d] # NoFile}
    BY <1>0, <1>4, <2>1 DEF WriteBackup, ProfileTypeOK, Content
  <2>4. ProfileTypeOK'
    BY <1>0, <1>4, <2>2, <2>3, MovesType DEF WriteBackup, ProfileTypeOK
  <2>5. BackupInv'
    <3>1. \A d \in Commands \ {c} : command'[d] = command[d] /\ backup'[d] = backup[d]
      BY <1>0, <2>2, <2>3, MovesType
    <3>2. command'[c].read = command[c].read
      BY <1>0, <2>2, MovesType
    <3> QED
      BY <1>0, <2>3, <3>1, <3>2 DEF BackupInv
  <2> QED
    BY <1>0, <1>4, <2>4, <2>5 DEF WriteBackup, ProfileInv, PowerLossLeavesWhole
<1>5. ASSUME NEW c \in Commands, BackupFails(c)
      PROVE  ProfileInv'
  <2>1. PICK n \in 0 .. 1 : backup' = [backup EXCEPT ![c] = CutShort(command[c].read, n)]
    BY <1>5 DEF BackupFails
  <2>2. CutShort(command[c].read, n) \in Text /\ CutShort(command[c].read, n) # NoFile
    BY <1>0, CutShortType, ProfileConstants DEF ProfileTypeOK, Command
  <2>3. Moves(c, "done")
    BY <1>5 DEF BackupFails
  <2>4. ProfileTypeOK'
    <3>1. /\ backup' \in [Commands -> Content]
          /\ \A d \in Commands \ {c} : backup'[d] = backup[d]
          /\ backup'[c] # NoFile
      BY <1>0, <2>1, <2>2 DEF ProfileTypeOK, Content
    <3>2. unsynced' \subseteq {d \in Commands : backup'[d] # NoFile}
      BY <1>0, <1>5, <3>1 DEF BackupFails, ProfileTypeOK
    <3> QED
      BY <1>0, <1>5, <2>3, <3>1, <3>2, MovesType DEF BackupFails, ProfileTypeOK
  <2>5. BackupInv'
    BY <1>0, <2>1, <2>3, MovesType DEF BackupInv, ProfileTypeOK
  <2> QED
    BY <1>0, <1>5, <2>4, <2>5 DEF BackupFails, ProfileInv, PowerLossLeavesWhole
<1>6. ASSUME NEW c \in Commands, WriteTemp(c)
      PROVE  ProfileInv'
  <2> Moves(c, "written") /\ command[c].phase = "backedUp"
    BY <1>6 DEF WriteTemp
  <2> QED
    BY <1>0, <1>6, MovesType
       DEF WriteTemp, ProfileInv, ProfileTypeOK, BackupInv, PowerLossLeavesWhole
<1>7. ASSUME NEW c \in Commands, Rename(c)
      PROVE  ProfileInv'
  <2>1. Moves(c, "done") /\ config' \in Text /\ EditionAfter(c) \in Nat
    BY <1>0, <1>7 DEF Rename, ProfileTypeOK, Command, EditionAfter
  <2>2. ProfileTypeOK'
    BY <1>0, <1>7, <2>1, MovesType DEF Rename, ProfileTypeOK, Content
  <2>3. BackupInv'
    BY <1>0, <1>7, <2>1, MovesType DEF Rename, BackupInv
  <2> QED
    BY <1>0, <1>7, <2>2, <2>3 DEF Rename, ProfileInv, PowerLossLeavesWhole
<1>8. ASSUME NEW c \in Commands, Fails(c)
      PROVE  ProfileInv'
  <2> Moves(c, "done")
    BY <1>8 DEF Fails
  <2> QED
    BY <1>0, <1>8, MovesType
       DEF Fails, ProfileInv, ProfileTypeOK, BackupInv, PowerLossLeavesWhole
<1>9. CASE Save
  <2> config' \in Text
    BY <1>0, <1>9, EditsType DEF Save
  <2> QED
    BY <1>0, <1>9 DEF Save, ProfileInv, ProfileTypeOK, BackupInv, PowerLossLeavesWhole, Content
<1>10. CASE Sync
  BY <1>0, <1>10 DEF Sync, ProfileInv, ProfileTypeOK, BackupInv, PowerLossLeavesWhole
<1>11. CASE PowerLoss
  <2>1. PICK lost \in SUBSET unsynced, n \in 0 .. 1 :
           backup' = [c \in Commands |-> IF c \in lost THEN CutShort(backup[c], n) ELSE backup[c]]
    BY <1>11 DEF PowerLoss
  <2>2. \A c \in lost : backup[c] \in Text
    BY <1>0 DEF ProfileTypeOK, Content
  <2>3. \A c \in lost : CutShort(backup[c], n) \in Text
    BY <2>2, CutShortType
  <2>4. backup' \in [Commands -> Content]
    BY <1>0, <2>1, <2>3 DEF ProfileTypeOK, Content
  <2>5. /\ command' \in [Commands -> Command]
        /\ \A c \in Commands : command'[c].phase \in {"new", "done"}
    BY <1>0, <1>11 DEF PowerLoss, ProfileTypeOK, Command
  <2>6. ProfileTypeOK'
    BY <1>0, <1>11, <2>4, <2>5 DEF PowerLoss, ProfileTypeOK, Content
  <2>7. BackupInv'
    BY <2>5 DEF BackupInv
  <2> QED
    BY <1>0, <1>11, <2>6, <2>7 DEF PowerLoss, ProfileInv, PowerLossLeavesWhole
<1>12. CASE UNCHANGED profileVars
  BY <1>0, <1>12 DEF profileVars, ProfileInv, ProfileTypeOK, BackupInv, PowerLossLeavesWhole
<1> QED
  BY <1>1, <1>2, <1>3, <1>4, <1>5, <1>6, <1>7, <1>8, <1>9, <1>10, <1>11, <1>12 DEF ProfileNext

(* The type of the editor's state, what a loss of power may leave, and     *)
(* that a command past its backup has one of what it read: one             *)
(* invariant, because each part needs the others.                          *)
THEOREM ProfileInvariant == ProfileSpec => []ProfileInv
<1>1. ProfileInit => ProfileInv
  BY ProfileInitially
<1>2. ProfileInv /\ [ProfileNext]_profileVars => ProfileInv'
  BY ProfileStep
<1> QED
  BY <1>1, <1>2, PTL DEF ProfileSpec

(* Every variable of the editor keeps its type.                            *)
THEOREM ProfileTypeCorrect == ProfileSpec => []ProfileTypeOK
<1>1. ProfileInv => ProfileTypeOK
  BY DEF ProfileInv
<1> QED
  BY <1>1, ProfileInvariant, PTL

(* A loss of power leaves a content that config.toml once had, because     *)
(* the temporary file is synced before it takes the name.                  *)
THEOREM PowerLossLeavesWholeCorrect == ProfileSpec => []PowerLossLeavesWhole
<1>1. ProfileInv => PowerLossLeavesWhole
  BY DEF ProfileInv
<1> QED
  BY <1>1, ProfileInvariant, PTL

(* On every text that install accepts, of any length, installing twice     *)
(* is installing once, and uninstalling leaves what was there.             *)
THEOREM InstallIsReversibleCorrect == ProfileSpec => []InstallIsReversible
<1>1. ProfileInv => InstallIsReversible
  <2> SUFFICES ASSUME ProfileInv, NEW body \in Body, ~ Malformed(Existing)
               PROVE  /\ \A other \in Body : Merge(Merge(Existing, body), other) = Merge(Existing, other)
                      /\ Remaining(Merge(Existing, body)) =
                            IF HasMarker(Existing) THEN Remaining(Existing)
                            ELSE LineEnded(TrimRight(Existing))
    BY DEF InstallIsReversible
  <2> Existing \in Text
    BY ExistingType DEF ProfileInv
  <2>1. HasMarker(Existing) => Remaining(Existing) = LineEnded(TrimRight(Cleaned(Existing)))
    BY DEF Remaining
  <2>2. ~ HasMarker(Existing) => Cleaned(Existing) = Existing
    BY DEF Cleaned
  <2> QED
    BY <2>1, <2>2, Reversible
<1> QED
  BY <1>1, ProfileInvariant, PTL

(* An install or uninstall that replaces the text it read has a backup     *)
(* of it, whatever fails and whoever else runs.                            *)
THEOREM ReplacedTextIsBackedUpCorrect == ProfileSpec => ReplacedTextIsBackedUp
<1> DEFINE BackedUp == \A c \in Commands :
              (Replaces(c) /\ command[c].kind # "rollback" /\ ReadOf(config) = command[c].read) =>
                  ReadOf(config) = <<>> \/ backup[c] = config
<1>1. ProfileInv /\ [ProfileNext]_profileVars => [BackedUp]_profileVars
  <2> SUFFICES ASSUME ProfileInv, NEW c \in Commands, Replaces(c), command[c].kind # "rollback",
                      ReadOf(config) = command[c].read, ReadOf(config) # <<>>
               PROVE  backup[c] = config
    OBVIOUS
  <2> backup[c] = command[c].read
    BY DEF ProfileInv, BackupInv, Replaces
  <2> QED
    BY DEF ReadOf
<1> QED
  BY <1>1, ProfileInvariant, PTL DEF ProfileSpec, ReplacedTextIsBackedUp

-----------------------------------------------------------------------------
(* No operation makes a second marker of a kind.                           *)
LEMMA PlainIsSingle ==
    ASSUME NEW text, Plain(text)
    PROVE  Single(text)
BY DEF Plain, Single

LEMMA UpToIsSingle ==
    ASSUME NEW text \in Text, Single(text), NEW n \in Nat, n <= Len(text)
    PROVE  Single(UpTo(text, n))
<1>1. /\ Len(UpTo(text, n)) = n /\ Len(text) \in Nat
      /\ \A i \in 1 .. n : UpTo(text, n)[i] = text[i] /\ i \in 1 .. Len(text)
  BY UpToType DEF Text
<1> QED
  BY <1>1 DEF Single

LEMMA ConcatPlaces ==
    ASSUME NEW s \in Text, NEW t \in Text
    PROVE  \A i \in 1 .. Len(s \o t) :
              \/ i \in 1 .. Len(s) /\ (s \o t)[i] = s[i]
              \/ i - Len(s) \in 1 .. Len(t) /\ (s \o t)[i] = t[i - Len(s)]
<1>0. /\ Len(s) \in Nat /\ Len(t) \in Nat /\ Len(s \o t) = Len(s) + Len(t)
      /\ \A i \in 1 .. Len(s) : (s \o t)[i] = s[i]
      /\ \A i \in 1 .. Len(t) : (s \o t)[Len(s) + i] = t[i]
  BY ConcatElements DEF Text
<1> SUFFICES ASSUME NEW i \in 1 .. Len(s \o t), i > Len(s)
             PROVE  i - Len(s) \in 1 .. Len(t) /\ (s \o t)[i] = t[i - Len(s)]
  BY <1>0
<1> i - Len(s) \in 1 .. Len(t) /\ Len(s) + (i - Len(s)) = i
  BY <1>0
<1> QED
  BY <1>0

LEMMA ConcatIsSingle ==
    ASSUME NEW s \in Text, NEW t \in Text,
           (Plain(s) /\ Single(t)) \/ (Single(s) /\ Plain(t))
    PROVE  Single(s \o t)
<1> DEFINE st == s \o t
<1>0. Len(s) \in Nat /\ Len(t) \in Nat /\ Len(st) = Len(s) + Len(t)
  BY ConcatElements DEF Text
<1>1. \A i \in 1 .. Len(st) : \/ i \in 1 .. Len(s) /\ st[i] = s[i]
                              \/ i - Len(s) \in 1 .. Len(t) /\ st[i] = t[i - Len(s)]
  BY ConcatPlaces
<1> HIDE DEF st
<1>2. CASE Plain(s) /\ Single(t)
  <2>1. \A i \in 1 .. Len(st) : st[i] \in Marker =>
           i - Len(s) \in 1 .. Len(t) /\ st[i] = t[i - Len(s)]
    BY <1>1, <1>2 DEF Plain
  <2> SUFFICES ASSUME NEW i \in 1 .. Len(st), NEW j \in 1 .. Len(st), st[i] \in Marker, st[i] = st[j]
               PROVE  i = j
    BY DEF Single, st
  <2>2. i - Len(s) = j - Len(s)
    BY <1>2, <2>1 DEF Single
  <2> QED
    BY <1>0, <2>2 DEF st
<1>3. CASE Single(s) /\ Plain(t)
  <2>1. \A i \in 1 .. Len(st) : st[i] \in Marker => i \in 1 .. Len(s) /\ st[i] = s[i]
    BY <1>1, <1>3 DEF Plain
  <2> QED
    BY <1>3, <2>1 DEF Single, st
<1> QED
  BY <1>2, <1>3

(* Taking out one token keeps the others apart.                            *)
LEMMA WithoutPlaces ==
    ASSUME NEW text \in Text, NEW i \in 1 .. Len(text)
    PROVE  LET st == UpTo(text, i - 1) \o After(text, i)
           IN  /\ Len(st) = Len(text) - 1
               /\ \A j \in 1 .. Len(st) :
                     \/ j < i /\ j \in 1 .. Len(text) /\ st[j] = text[j]
                     \/ j >= i /\ j + 1 \in 1 .. Len(text) /\ st[j] = text[j + 1]
<1> DEFINE s == UpTo(text, i - 1)
           t == After(text, i)
           st == s \o t
<1>0. Len(text) \in Nat
  BY DEF Text
<1>1. /\ s \in Text /\ Len(s) = i - 1 /\ \A j \in 1 .. i - 1 : s[j] = text[j]
      /\ t \in Text /\ Len(t) = Len(text) - i /\ \A j \in 1 .. Len(text) - i : t[j] = text[i + j]
  <2>1. i - 1 \in Nat /\ i - 1 <= Len(text) /\ i \in Nat /\ i <= Len(text)
    BY <1>0
  <2>2. s \in Text /\ Len(s) = i - 1 /\ \A j \in 1 .. i - 1 : s[j] = text[j]
    BY <2>1, UpToType
  <2>3. t \in Text /\ Len(t) = Len(text) - i /\ \A j \in 1 .. Len(text) - i : t[j] = text[i + j]
    BY <2>1, AfterType
  <2> QED
    BY <2>2, <2>3
<1> HIDE DEF s, t
<1>2. /\ Len(st) = Len(text) - 1
      /\ \A j \in 1 .. i - 1 : st[j] = s[j]
      /\ \A j \in 1 .. Len(text) - i : st[(i - 1) + j] = t[j]
  <2>1. /\ Len(st) = Len(s) + Len(t)
        /\ \A j \in 1 .. Len(s) : st[j] = s[j]
        /\ \A j \in 1 .. Len(t) : st[Len(s) + j] = t[j]
    BY <1>1, ConcatElements
  <2> HIDE DEF st
  <2>2. Len(st) = Len(text) - 1
    BY <1>0, <1>1, <2>1
  <2>3. \A j \in 1 .. i - 1 : st[j] = s[j]
    BY <1>1, <2>1
  <2>4. \A j \in 1 .. Len(text) - i : st[(i - 1) + j] = t[j]
    BY <1>1, <2>1
  <2> QED
    BY <2>2, <2>3, <2>4
<1>3. \A j \in 1 .. Len(st) : \/ j < i /\ j \in 1 .. Len(text) /\ st[j] = text[j]
                              \/ j >= i /\ j + 1 \in 1 .. Len(text) /\ st[j] = text[j + 1]
  <2> SUFFICES ASSUME NEW j \in 1 .. Len(st)
               PROVE  \/ j < i /\ j \in 1 .. Len(text) /\ st[j] = text[j]
                      \/ j >= i /\ j + 1 \in 1 .. Len(text) /\ st[j] = text[j + 1]
    OBVIOUS
  <2>1. CASE j < i
    BY <1>0, <1>1, <1>2, <2>1
  <2>2. CASE j >= i
    <3> DEFINE n == j - (i - 1)
    <3>1. n \in 1 .. Len(text) - i /\ (i - 1) + n = j /\ i + n = j + 1
      BY <1>0, <1>2, <2>2
    <3> HIDE DEF n
    <3>2. st[j] = t[n] /\ t[n] = text[j + 1]
      BY <1>1, <1>2, <3>1
    <3> QED
      BY <1>0, <1>2, <2>2, <3>2
  <2> QED
    BY <1>0, <1>2, <2>1, <2>2
<1> HIDE DEF st
<1> QED
  BY <1>2, <1>3 DEF st, s, t

LEMMA WithoutIsSingle ==
    ASSUME NEW text \in Text, Single(text), NEW i \in 1 .. Len(text)
    PROVE  Single(UpTo(text, i - 1) \o After(text, i))
<1> DEFINE st == UpTo(text, i - 1) \o After(text, i)
<1>0. Len(text) \in Nat
  BY DEF Text
<1>2. Len(st) = Len(text) - 1
  BY WithoutPlaces
<1>3. \A j \in 1 .. Len(st) : \/ j < i /\ j \in 1 .. Len(text) /\ st[j] = text[j]
                              \/ j >= i /\ j + 1 \in 1 .. Len(text) /\ st[j] = text[j + 1]
  BY WithoutPlaces
<1> HIDE DEF st
<1>4. Single(st)
  <2> SUFFICES ASSUME NEW j \in 1 .. Len(st), NEW k \in 1 .. Len(st), st[j] \in Marker, st[j] = st[k]
               PROVE  j = k
    BY DEF Single
  <2>1. CASE j < i /\ k < i
    BY <1>3, <2>1 DEF Single
  <2>2. CASE j >= i /\ k >= i
    <3> j + 1 = k + 1
      BY <1>3, <2>2 DEF Single
    <3> QED
      BY <1>0, <1>2
  <2>3. CASE j < i /\ k >= i
    <3> j = k + 1
      BY <1>3, <2>3 DEF Single
    <3> QED
      BY <1>0, <1>2, <2>3
  <2>4. CASE j >= i /\ k < i
    <3> j + 1 = k
      BY <1>3, <2>4 DEF Single
    <3> QED
      BY <1>0, <1>2, <2>4
  <2> QED
    BY <1>0, <1>2, <2>1, <2>2, <2>3, <2>4
<1> QED
  BY <1>4 DEF st

LEMMA EditsAreSingle ==
    ASSUME NEW text \in Text, Single(text), NEW edited \in Edits(text)
    PROVE  Single(edited)
<1>0. DOMAIN text = 1 .. Len(text) /\ Len(text) \in Nat
  BY DEF Text
<1>1. \A line \in OwnLine : Plain(<<line, "\n">>) /\ <<line, "\n">> \in Text
  BY TextConstants DEF Plain, Text, White, Marker
<1>2. CASE \E line \in OwnLine : edited = text \o <<line, "\n">> \/ edited = <<line, "\n">> \o text
  <2>1. PICK line \in OwnLine : edited = text \o <<line, "\n">> \/ edited = <<line, "\n">> \o text
    BY <1>2
  <2> DEFINE added == <<line, "\n">>
  <2>2. added \in Text /\ Plain(added)
    BY <1>1
  <2>3. edited = text \o added \/ edited = added \o text
    BY <2>1
  <2> HIDE DEF added
  <2>4. Single(text \o added)
    BY <2>2, ConcatIsSingle
  <2>5. Single(added \o text)
    BY <2>2, ConcatIsSingle
  <2> QED
    BY <2>3, <2>4, <2>5
<1>3. CASE edited = [i \in DOMAIN text |-> IF text[i] = "\n" THEN "\r\n" ELSE text[i]]
  <2>1. edited \in Text
    BY EditsType
  <2>2. DOMAIN edited = 1 .. Len(edited) /\ Len(edited) \in Nat
    BY <2>1 DEF Text
  <2>3. Len(edited) = Len(text)
    BY <1>0, <1>3, <2>2
  <2>4. \A i \in 1 .. Len(text) : edited[i] \in Marker => edited[i] = text[i]
    BY <1>0, <1>3 DEF Marker
  <2>5. \A i, j \in 1 .. Len(text) : edited[i] \in Marker /\ edited[i] = edited[j] => text[i] = text[j]
    BY <2>4
  <2> QED
    BY <2>3, <2>4, <2>5 DEF Single
<1>4. CASE \E i \in DOMAIN text : edited = UpTo(text, i - 1) \o After(text, i)
  BY <1>0, <1>4, WithoutIsSingle
<1> QED
  BY <1>2, <1>3, <1>4 DEF Edits

(* Nor does one put a line of the user between the markers.                *)
LEMMA PlainIsTight ==
    ASSUME NEW text, Plain(text)
    PROVE  Tight(text)
BY DEF Plain, Tight, Marker

LEMMA UpToIsTight ==
    ASSUME NEW text \in Text, Tight(text), NEW n \in Nat, n <= Len(text)
    PROVE  Tight(UpTo(text, n))
<1>1. /\ Len(UpTo(text, n)) = n /\ Len(text) \in Nat
      /\ \A i \in 1 .. n : UpTo(text, n)[i] = text[i] /\ i \in 1 .. Len(text)
  BY UpToType DEF Text
<1> QED
  BY <1>1 DEF Tight

LEMMA ConcatIsTight ==
    ASSUME NEW s \in Text, NEW t \in Text,
           (Plain(s) /\ Tight(t)) \/ (Tight(s) /\ Plain(t))
    PROVE  Tight(s \o t)
<1> DEFINE st == s \o t
<1>0. Len(s) \in Nat /\ Len(t) \in Nat /\ Len(st) = Len(s) + Len(t)
  BY ConcatElements DEF Text
<1>1. \A i \in 1 .. Len(st) : \/ i \in 1 .. Len(s) /\ st[i] = s[i]
                              \/ i - Len(s) \in 1 .. Len(t) /\ st[i] = t[i - Len(s)]
  BY ConcatPlaces
<1> HIDE DEF st
<1> SUFFICES ASSUME NEW i \in 1 .. Len(st), NEW j \in 1 .. Len(st), NEW k \in 1 .. Len(st),
                    st[i] = "begin", st[j] = "end", i <= k, k <= j
             PROVE  st[k] \notin OwnLine
  BY DEF Tight, st
<1>2. st[i] \in Marker /\ st[j] \in Marker
  BY DEF Marker
<1>3. CASE Plain(s) /\ Tight(t)
  <2>1. /\ i - Len(s) \in 1 .. Len(t) /\ t[i - Len(s)] = "begin"
        /\ j - Len(s) \in 1 .. Len(t) /\ t[j - Len(s)] = "end"
    BY <1>1, <1>2, <1>3 DEF Plain
  <2>2. k \notin 1 .. Len(s)
    BY <1>0, <2>1
  <2>3. k - Len(s) \in 1 .. Len(t) /\ st[k] = t[k - Len(s)]
    BY <1>1, <2>2
  <2>4. i - Len(s) <= k - Len(s) /\ k - Len(s) <= j - Len(s)
    BY <1>0
  <2> QED
    BY <1>3, <2>1, <2>3, <2>4 DEF Tight
<1>4. CASE Tight(s) /\ Plain(t)
  <2>1. /\ i \in 1 .. Len(s) /\ s[i] = "begin"
        /\ j \in 1 .. Len(s) /\ s[j] = "end"
    BY <1>1, <1>2, <1>4 DEF Plain
  <2>2. k \in 1 .. Len(s) /\ st[k] = s[k]
    BY <1>0, <1>1, <2>1
  <2> QED
    BY <1>4, <2>1, <2>2 DEF Tight
<1> QED
  BY <1>3, <1>4

LEMMA WithoutIsTight ==
    ASSUME NEW text \in Text, Tight(text), NEW i \in 1 .. Len(text)
    PROVE  Tight(UpTo(text, i - 1) \o After(text, i))
<1> DEFINE st == UpTo(text, i - 1) \o After(text, i)
<1>0. Len(text) \in Nat /\ Len(st) = Len(text) - 1
  BY WithoutPlaces DEF Text
<1>1. \A j \in 1 .. Len(st) : \/ j < i /\ j \in 1 .. Len(text) /\ st[j] = text[j]
                              \/ j >= i /\ j + 1 \in 1 .. Len(text) /\ st[j] = text[j + 1]
  BY WithoutPlaces
<1> HIDE DEF st
<1> SUFFICES ASSUME NEW j \in 1 .. Len(st), NEW l \in 1 .. Len(st), NEW k \in 1 .. Len(st),
                    st[j] = "begin", st[l] = "end", j <= k, k <= l
             PROVE  st[k] \notin OwnLine
  BY DEF Tight, st
<1> DEFINE Was(n) == IF n < i THEN n ELSE n + 1
<1>2. /\ Was(j) \in 1 .. Len(text) /\ st[j] = text[Was(j)]
      /\ Was(l) \in 1 .. Len(text) /\ st[l] = text[Was(l)]
      /\ Was(k) \in 1 .. Len(text) /\ st[k] = text[Was(k)]
  BY <1>0, <1>1
<1>3. Was(j) <= Was(k) /\ Was(k) <= Was(l)
  BY <1>0
<1> HIDE DEF Was
<1> QED
  BY <1>2, <1>3 DEF Tight

LEMMA EditsAreTight ==
    ASSUME NEW text \in Text, Tight(text), NEW edited \in Edits(text)
    PROVE  Tight(edited)
<1>0. DOMAIN text = 1 .. Len(text) /\ Len(text) \in Nat
  BY DEF Text
<1>1. \A line \in OwnLine : Plain(<<line, "\n">>) /\ <<line, "\n">> \in Text
  BY TextConstants DEF Plain, Text, White, Marker
<1>2. CASE \E line \in OwnLine : edited = text \o <<line, "\n">> \/ edited = <<line, "\n">> \o text
  <2>1. PICK line \in OwnLine : edited = text \o <<line, "\n">> \/ edited = <<line, "\n">> \o text
    BY <1>2
  <2> DEFINE added == <<line, "\n">>
  <2>2. added \in Text /\ Plain(added)
    BY <1>1
  <2>3. edited = text \o added \/ edited = added \o text
    BY <2>1
  <2> HIDE DEF added
  <2>4. Tight(text \o added)
    BY <2>2, ConcatIsTight
  <2>5. Tight(added \o text)
    BY <2>2, ConcatIsTight
  <2> QED
    BY <2>3, <2>4, <2>5
<1>3. CASE edited = [i \in DOMAIN text |-> IF text[i] = "\n" THEN "\r\n" ELSE text[i]]
  <2>1. edited \in Text
    BY EditsType
  <2>2. DOMAIN edited = 1 .. Len(edited) /\ Len(edited) \in Nat
    BY <2>1 DEF Text
  <2>3. Len(edited) = Len(text)
    BY <1>0, <1>3, <2>2
  <2>4. \A i \in 1 .. Len(text) : edited[i] \in Marker => edited[i] = text[i]
    BY <1>0, <1>3 DEF Marker
  <2>5. \A i \in 1 .. Len(text) : edited[i] \in OwnLine => edited[i] = text[i]
    BY <1>0, <1>3, TextConstants DEF White
  <2> QED
    BY <2>3, <2>4, <2>5 DEF Tight, Marker
<1>4. CASE \E i \in DOMAIN text : edited = UpTo(text, i - 1) \o After(text, i)
  BY <1>0, <1>4, WithoutIsTight
<1> QED
  BY <1>2, <1>3, <1>4 DEF Edits

(* Both together, as every step keeps them of every text there is.         *)
Neat(text) == Single(text) /\ Tight(text)

LEMMA MergeIsNeat ==
    ASSUME NEW text \in Text, ~ Malformed(text), NEW body \in Body
    PROVE  Neat(Merge(text, body))
BY CleanedIsPlain, TrimRightTrims, MergedText DEF Merge, Neat

LEMMA RemainingIsPlain ==
    ASSUME NEW text \in Text, ~ Malformed(text)
    PROVE  Plain(Remaining(text))
<1>1. Plain(TrimRight(Cleaned(text)))
  BY CleanedIsPlain, TrimRightTrims
<1>2. Plain(<<"\n">>) /\ Plain(<<>>)
  BY DEF Plain, Text, White, Marker
<1> QED
  BY <1>1, <1>2, ConcatPlain DEF Remaining, LineEnded

LEMMA RemainingIsNeat ==
    ASSUME NEW text \in Text, ~ Malformed(text)
    PROVE  Neat(Remaining(text))
BY RemainingIsPlain, PlainIsSingle, PlainIsTight DEF Neat

LEMMA CutShortIsNeat ==
    ASSUME NEW text \in Text, Neat(text), NEW n \in Nat
    PROVE  Neat(CutShort(text, n))
<1> Len(text) \in Nat /\ Neat(<<>>)
  BY DEF Text, Neat, Single, Tight
<1> QED
  BY UpToIsSingle, UpToIsTight DEF CutShort, Neat

LEMMA EditsAreNeat ==
    ASSUME NEW text \in Text, Neat(text), NEW edited \in Edits(text)
    PROVE  Neat(edited)
BY EditsAreSingle, EditsAreTight DEF Neat

NeatInv ==
    /\ \A content \in mayBe : content # NoFile => Neat(content)
    /\ \A c \in Commands :
          /\ backup[c] # NoFile => Neat(backup[c])
          /\ Neat(command[c].read)
          /\ Neat(command[c].result)

LEMMA NeatStep ==
    ProfileTypeOK /\ NeatInv /\ [ProfileNext]_profileVars => NeatInv'
<1> SUFFICES ASSUME ProfileTypeOK, NeatInv, [ProfileNext]_profileVars
             PROVE  NeatInv'
  OBVIOUS
<1>0. Existing \in Text /\ Neat(Existing) /\ Neat(<<>>)
  BY ExistingType DEF ProfileTypeOK, NeatInv, Existing, Neat, Single, Tight
<1>1. ASSUME NEW c \in Commands, NEW phase \in {"new", "merged", "backedUp", "written", "done"},
             Moves(c, phase), UNCHANGED <<mayBe, backup>>
      PROVE  NeatInv'
  BY <1>1, MovesType DEF NeatInv
<1>2. ASSUME NEW c \in Commands, NEW phase \in {"merged", "backedUp"},
             NEW kind \in {"install", "uninstall", "rollback"}, NEW result \in Text,
             Neat(result), Decides(c, phase, kind, result), UNCHANGED <<mayBe, backup>>
      PROVE  NeatInv'
  BY <1>0, <1>2, DecidesType DEF NeatInv
<1>3. ASSUME NEW c \in Commands, NEW body \in Body, Install(c, body)
      PROVE  NeatInv'
  BY <1>0, <1>1, <1>2, <1>3, MergeType, MergeIsNeat DEF Install
<1>4. ASSUME NEW c \in Commands, Uninstall(c)
      PROVE  NeatInv'
  BY <1>0, <1>1, <1>2, <1>4, RemainingType, RemainingIsNeat DEF Uninstall
<1>5. ASSUME NEW c \in Commands, NEW b \in Commands, Rollback(c, b)
      PROVE  NeatInv'
  <2> backup[b] \in Text /\ Neat(backup[b])
    BY <1>5 DEF Rollback, ProfileTypeOK, Content, NeatInv
  <2> QED
    BY <1>2, <1>5 DEF Rollback
<1>6. ASSUME NEW c \in Commands, WriteBackup(c)
      PROVE  NeatInv'
  <2>1. \A d \in Commands : backup'[d] = backup[d] \/ backup'[d] = command[c].read
    <3>1. CASE command[c].read = <<>>
      BY <1>6, <3>1 DEF WriteBackup
    <3>2. CASE command[c].read # <<>>
      BY <1>6, <3>2 DEF WriteBackup, ProfileTypeOK
    <3> QED
      BY <3>1, <3>2
  <2>2. Moves(c, "backedUp") /\ mayBe' = mayBe
    BY <1>6 DEF WriteBackup
  <2> QED
    BY <2>1, <2>2, MovesType DEF NeatInv
<1>7. ASSUME NEW c \in Commands, BackupFails(c)
      PROVE  NeatInv'
  <2>1. PICK n \in 0 .. 1 : backup' = [backup EXCEPT ![c] = CutShort(command[c].read, n)]
    BY <1>7 DEF BackupFails
  <2>2. Neat(CutShort(command[c].read, n))
    BY CutShortIsNeat DEF ProfileTypeOK, Command, NeatInv
  <2>3. Moves(c, "done") /\ mayBe' = mayBe
    BY <1>7 DEF BackupFails
  <2>4. \A d \in Commands : backup'[d] = backup[d] \/ Neat(backup'[d])
    BY <2>1, <2>2 DEF ProfileTypeOK
  <2> QED
    BY <2>3, <2>4, MovesType DEF NeatInv
<1>8. ASSUME NEW c \in Commands, Rename(c)
      PROVE  NeatInv'
  <2> Moves(c, "done") /\ backup' = backup /\ mayBe' = mayBe \cup {command[c].result}
    BY <1>8 DEF Rename
  <2> QED
    BY MovesType DEF NeatInv
<1>9. CASE Save
  BY <1>0, <1>9, EditsAreNeat DEF Save, NeatInv
<1>10. CASE Sync
  BY <1>10 DEF Sync, NeatInv, ProfileTypeOK
<1>11. CASE PowerLoss
  <2>1. PICK lost \in SUBSET unsynced, n \in 0 .. 1 :
           backup' = [c \in Commands |-> IF c \in lost THEN CutShort(backup[c], n) ELSE backup[c]]
    BY <1>11 DEF PowerLoss
  <2>2. \A c \in lost : c \in Commands /\ backup[c] \in Text /\ Neat(backup[c])
    BY DEF ProfileTypeOK, Content, NeatInv
  <2>3. \A c \in lost : Neat(CutShort(backup[c], n))
    BY <2>2, CutShortIsNeat
  <2>4. \A c \in Commands : backup'[c] # NoFile => Neat(backup'[c])
    BY <2>1, <2>3 DEF NeatInv
  <2>5. \A c \in Commands : command'[c].read = command[c].read /\ command'[c].result = command[c].result
    BY <1>11 DEF PowerLoss, ProfileTypeOK, Command
  <2>6. mayBe' \subseteq mayBe
    BY <1>11 DEF PowerLoss
  <2> QED
    BY <2>4, <2>5, <2>6 DEF NeatInv
<1>12. CASE UNCHANGED profileVars
  BY <1>12 DEF profileVars, NeatInv
<1>13. ASSUME NEW c \in Commands, WriteTemp(c) \/ Fails(c)
      PROVE  NeatInv'
  BY <1>1, <1>13 DEF WriteTemp, Fails
<1> QED
  BY <1>3, <1>4, <1>5, <1>6, <1>7, <1>8, <1>9, <1>10, <1>11, <1>12, <1>13 DEF ProfileNext

LEMMA NeatInitially == ProfileInit => NeatInv
<1> SUFFICES ASSUME ProfileInit PROVE NeatInv
  OBVIOUS
<1>1. Neat(<<>>) /\ \A line \in OwnLine : Neat(<<line, "\n">>)
  BY TextConstants DEF Neat, Single, Tight, Marker
<1> QED
  BY <1>1 DEF ProfileInit, NeatInv, NewCommand

(* Whatever runs at once, fails or is killed, and whatever a loss of power *)
(* leaves, there are never two managed blocks.                             *)
THEOREM OneBlockCorrect == ProfileSpec => []OneBlock
<1>1. ProfileInit => NeatInv
  BY NeatInitially
<1>2. ProfileTypeOK /\ NeatInv => OneBlock
  <2> SUFFICES ASSUME NEW content \in Text, Single(content), NEW marker \in Marker
               PROVE  Cardinality({i \in DOMAIN content : content[i] = marker}) <= 1
    BY DEF OneBlock, NeatInv, Neat, ProfileTypeOK, Content
  <2> DEFINE places == {i \in DOMAIN content : content[i] = marker}
  <2>1. \A i, j \in places : i = j
    BY DEF Single, Text
  <2> HIDE DEF places
  <2>2. CASE places = {}
    BY <2>2, FS_EmptySet DEF places
  <2>3. CASE places # {}
    <3> PICK i \in places : TRUE
      BY <2>3
    <3> places = {i}
      BY <2>1
    <3> QED
      BY FS_Singleton DEF places
  <2> QED
    BY <2>2, <2>3
<1>3. ProfileInv => ProfileTypeOK
  BY DEF ProfileInv
<1> QED
  BY <1>1, <1>2, <1>3, NeatStep, ProfileInvariant, PTL DEF ProfileSpec

-----------------------------------------------------------------------------
(* The user's lines of a text, one after the other.                        *)
Lines == Seq(OwnLine)

LEMMA OwnLinesLoop ==
    ASSUME NEW text \in Text
    PROVE  \E g \in [0 .. Len(text) -> Lines] :
              /\ g[0] = <<>>
              /\ \A n \in 1 .. Len(text) : g[n] = AddOwn(g[n - 1], text[n])
              /\ OwnLines(text) = g[Len(text)]
<1> DEFINE N == Len(text)
           step == [p \in (1 .. N) \X Lines |-> AddOwn(p[2], text[p[1]])]
           Folds(f) == f = [s \in SUBSET (1 .. N) |->
                              IF s = {} THEN <<>>
                              ELSE AddOwn(f[s \ {Max(s)}], text[Max(s)])]
           c == CHOOSE f : Folds(f)
<1>1. N \in Nat /\ DOMAIN text = 1 .. N /\ <<>> \in Lines
  BY DEF Text, Lines
<1>2. \A lines \in Lines : \A token : AddOwn(lines, token) \in Lines
  BY DEF AddOwn, Lines
<1>3. step \in Turns(N, Lines)
  <2>1. \A p \in (1 .. N) \X Lines : AddOwn(p[2], text[p[1]]) \in Lines
    BY <1>2
  <2> QED
    BY <2>1 DEF Turns
<1>4. \A n \in 1 .. N, lines \in Lines : step[<<n, lines>>] = AddOwn(lines, text[n])
  OBVIOUS
<1>5. OwnLines(text) = c[1 .. N]
  BY <1>1 DEF OwnLines, FoldLeft, MapThenFoldSet
<1> HIDE DEF N, step
<1>6. PICK f \in [SUBSET (1 .. N) -> Lines] : Loops(f, N, Lines, <<>>, step)
  BY <1>1, <1>3, LoopExists
<1>7. Folds(f)
  <2>1. \A s \in SUBSET (1 .. N) : s # {} =>
           f[s] = AddOwn(f[s \ {Max(s)}], text[Max(s)])
    BY <1>1, <1>4, <1>6, LastOfSet DEF Loops
  <2> QED
    BY <1>6, <2>1 DEF Loops
<1>8. Folds(c)
  <2> HIDE DEF Folds
  <2> QED
    BY <1>7
<1> HIDE DEF c
<1>9. Loops(c, N, Lines, <<>>, step)
  BY <1>1, <1>4, <1>8, LastOfSet DEF Loops
<1>10. PICK g \in [0 .. N -> Lines] : Passes(g, N, <<>>, step) /\ g[N] = c[1 .. N]
  BY <1>1, <1>3, <1>9, LoopValues
<1>11. \A n \in 1 .. N : g[n] = AddOwn(g[n - 1], text[n])
  BY <1>4, <1>10 DEF Passes
<1> QED
  BY <1>5, <1>10, <1>11 DEF Passes, N

LEMMA NothingOwn ==
    ASSUME NEW text \in Text, \A i \in 1 .. Len(text) : text[i] \notin OwnLine
    PROVE  OwnLines(text) = <<>>
<1> DEFINE N == Len(text)
<1>1. PICK g \in [0 .. N -> Lines] :
         /\ g[0] = <<>>
         /\ \A n \in 1 .. N : g[n] = AddOwn(g[n - 1], text[n])
         /\ OwnLines(text) = g[N]
  BY OwnLinesLoop
<1> DEFINE done == {n \in 0 .. N : g[n] = <<>>}
<1>2. N \in Nat /\ N \in 0 .. N /\ 0 \in done
  BY <1>1 DEF Text
<1>3. ASSUME NEW n \in 0 .. N - 1, n \in done PROVE n + 1 \in done
  <2>1. n + 1 \in 1 .. N /\ (n + 1) - 1 = n
    BY <1>2
  <2>2. g[n + 1] = AddOwn(g[n], text[n + 1])
    BY <1>1, <2>1
  <2> QED
    BY <1>3, <2>1, <2>2 DEF AddOwn
<1> HIDE DEF done
<1>4. 0 .. N \subseteq done
  BY <1>2, <1>3, Induction
<1> QED
  BY <1>1, <1>2, <1>4 DEF done

(* The lines of two texts, one after the other.                            *)
LEMMA OwnLinesConcat ==
    ASSUME NEW s \in Text, NEW t \in Text
    PROVE  OwnLines(s \o t) = OwnLines(s) \o OwnLines(t)
<1> DEFINE st == s \o t
           M == Len(s)
           N == Len(t)
<1>1. /\ st \in Text /\ M \in Nat /\ N \in Nat /\ Len(st) = M + N
      /\ \A i \in 1 .. M : st[i] = s[i]
      /\ \A i \in 1 .. N : st[M + i] = t[i]
  BY ConcatElements DEF Text
<1> HIDE DEF st
<1>2. PICK f \in [0 .. M -> Lines] :
         /\ f[0] = <<>>
         /\ \A n \in 1 .. M : f[n] = AddOwn(f[n - 1], s[n])
         /\ OwnLines(s) = f[M]
  BY OwnLinesLoop
<1>3. PICK g \in [0 .. N -> Lines] :
         /\ g[0] = <<>>
         /\ \A n \in 1 .. N : g[n] = AddOwn(g[n - 1], t[n])
         /\ OwnLines(t) = g[N]
  BY OwnLinesLoop
<1>4. PICK h \in [0 .. M + N -> Lines] :
         /\ h[0] = <<>>
         /\ \A n \in 1 .. M + N : h[n] = AddOwn(h[n - 1], st[n])
         /\ OwnLines(st) = h[M + N]
  BY <1>1, OwnLinesLoop
<1> HIDE DEF M, N
<1>5. h[M] = f[M]
  <2> DEFINE done == {n \in 0 .. M : h[n] = f[n]}
  <2>1. 0 \in done
    BY <1>1, <1>2, <1>4
  <2>2. ASSUME NEW n \in 0 .. M - 1, n \in done PROVE n + 1 \in done
    <3>1. n + 1 \in 1 .. M /\ n + 1 \in 1 .. M + N /\ (n + 1) - 1 = n
      BY <1>1
    <3>2. h[n + 1] = AddOwn(h[n], st[n + 1])
      BY <1>4, <3>1
    <3>3. f[n + 1] = AddOwn(f[n], s[n + 1])
      BY <1>2, <3>1
    <3> QED
      BY <1>1, <2>2, <3>1, <3>2, <3>3
  <2> HIDE DEF done
  <2>3. M \in Nat /\ M \in 0 .. M
    BY <1>1
  <2>4. 0 .. M \subseteq done
    BY <2>1, <2>2, <2>3, Induction
  <2> QED
    BY <2>3, <2>4 DEF done
<1>6. h[M + N] = f[M] \o g[N]
  <2> DEFINE done == {n \in 0 .. N : h[M + n] = f[M] \o g[n]}
  <2>0. f[M] \in Lines
    BY <1>1, <1>2
  <2>1. 0 \in done
    <3>1. f[M] \o <<>> = f[M]
      BY <2>0 DEF Lines
    <3>2. 0 \in 0 .. N /\ M + 0 = M
      BY <1>1
    <3>3. h[M + 0] = f[M] \o g[0]
      BY <1>3, <1>5, <3>1, <3>2
    <3> QED
      BY <3>2, <3>3
  <2>2. ASSUME NEW n \in 0 .. N - 1, n \in done PROVE n + 1 \in done
    <3>1. n + 1 \in 1 .. N /\ M + (n + 1) \in 1 .. M + N /\ (n + 1) - 1 = n
          /\ (M + (n + 1)) - 1 = M + n /\ n \in 0 .. N
      BY <1>1
    <3>2. h[M + (n + 1)] = AddOwn(h[M + n], t[n + 1])
      BY <1>1, <1>4, <3>1
    <3>3. g[n + 1] = AddOwn(g[n], t[n + 1])
      BY <1>3, <3>1
    <3>4. h[M + n] = f[M] \o g[n] /\ g[n] \in Lines
      BY <1>3, <2>2, <3>1
    <3>5. \A line \in OwnLine : Append(f[M] \o g[n], line) = f[M] \o Append(g[n], line)
      <4> DEFINE F == f[M]
                 G == g[n]
      <4>1. F \in Seq(OwnLine) /\ G \in Seq(OwnLine)
        BY <2>0, <3>4 DEF Lines
      <4> HIDE DEF F, G
      <4>2. ASSUME NEW line \in OwnLine
            PROVE  Append(F \o G, line) = F \o Append(G, line)
        <5>1. F \o G \in Seq(OwnLine) /\ <<line>> \in Seq(OwnLine)
          BY <4>1
        <5>2. Append(F \o G, line) = (F \o G) \o <<line>>
          BY <5>1, AppendIsConcat
        <5>3. (F \o G) \o <<line>> = F \o (G \o <<line>>)
          BY <4>1, <5>1, ConcatAssociative
        <5>4. Append(G, line) = G \o <<line>>
          BY <4>1, AppendIsConcat
        <5> QED
          BY <5>2, <5>3, <5>4
      <4> QED
        BY <4>2 DEF F, G
    <3>6. h[M + (n + 1)] = f[M] \o g[n + 1]
      BY <3>2, <3>3, <3>4, <3>5 DEF AddOwn
    <3>7. n + 1 \in 0 .. N
      BY <1>1
    <3> QED
      BY <3>6, <3>7
  <2> HIDE DEF done
  <2>3. N \in Nat /\ N \in 0 .. N
    BY <1>1
  <2>4. 0 .. N \subseteq done
    BY <2>1, <2>2, <2>3, Induction
  <2> QED
    BY <2>3, <2>4 DEF done
<1> QED
  BY <1>2, <1>3, <1>4, <1>6 DEF st

LEMMA OwnLinesType ==
    ASSUME NEW text \in Text
    PROVE  OwnLines(text) \in Lines
<1>1. Len(text) \in 0 .. Len(text)
  BY DEF Text
<1> QED
  BY <1>1, OwnLinesLoop

LEMMA NoLinesAdded ==
    ASSUME NEW s \in Text, NEW t \in Text, OwnLines(t) = <<>>
    PROVE  OwnLines(s \o t) = OwnLines(s) /\ OwnLines(t \o s) = OwnLines(s)
<1> DEFINE own == OwnLines(s)
<1>1. own \in Seq(OwnLine)
  BY OwnLinesType DEF Lines
<1> HIDE DEF own
<1>2. own \o <<>> = own /\ <<>> \o own = own
  BY <1>1
<1> QED
  BY <1>2, OwnLinesConcat DEF own

LEMMA SplitText ==
    ASSUME NEW text \in Text, NEW n \in 0 .. Len(text)
    PROVE  text = UpTo(text, n) \o After(text, n)
<1> DEFINE s == UpTo(text, n)
           t == After(text, n)
           st == s \o t
<1>0. Len(text) \in Nat /\ n \in Nat /\ n <= Len(text)
  BY DEF Text
<1>1. /\ s \in Text /\ Len(s) = n /\ \A i \in 1 .. n : s[i] = text[i]
      /\ t \in Text /\ Len(t) = Len(text) - n /\ \A i \in 1 .. Len(text) - n : t[i] = text[n + i]
  BY <1>0, UpToType, AfterType
<1> HIDE DEF s, t
<1>2. st \in Text /\ Len(st) = Len(text)
  <2>1. st \in Text /\ Len(st) = Len(s) + Len(t)
    BY <1>1, ConcatElements
  <2> HIDE DEF st
  <2> QED
    BY <1>0, <1>1, <2>1
<1>3. \A i \in 1 .. Len(st) : \/ i \in 1 .. Len(s) /\ st[i] = s[i]
                              \/ i - Len(s) \in 1 .. Len(t) /\ st[i] = t[i - Len(s)]
  BY <1>1, ConcatPlaces
<1> HIDE DEF st
<1>4. \A i \in 1 .. Len(st) : st[i] = text[i]
  BY <1>0, <1>1, <1>2, <1>3
<1>5. st = text
  BY <1>2, <1>4, SameSequence
<1> QED
  BY <1>5 DEF st, s, t

LEMMA WhiteIsNotOwn == \A token \in White : token \notin OwnLine
BY TextConstants

LEMMA TrimRightKeepsLines ==
    ASSUME NEW text \in Text
    PROVE  OwnLines(TrimRight(text)) = OwnLines(text)
<1> DEFINE n == LastInk(text)
<1>1. n \in 0 .. Len(text) /\ \A i \in n + 1 .. Len(text) : text[i] \in White
  BY LastInkIsLast
<1>2. Len(text) \in Nat /\ n \in Nat /\ n <= Len(text)
  BY <1>1 DEF Text
<1> HIDE DEF n
<1>3. UpTo(text, n) \in Text /\ After(text, n) \in Text /\ text = UpTo(text, n) \o After(text, n)
  BY <1>1, <1>2, UpToType, AfterType, SplitText
<1>4. \A i \in 1 .. Len(After(text, n)) : After(text, n)[i] \in White
  <2>1. /\ Len(After(text, n)) = Len(text) - n
        /\ \A i \in 1 .. Len(text) - n : After(text, n)[i] = text[n + i]
    BY <1>2, AfterType
  <2>2. \A i \in 1 .. Len(text) - n : n + i \in n + 1 .. Len(text)
    BY <1>2
  <2> QED
    BY <1>1, <2>1, <2>2
<1>5. OwnLines(After(text, n)) = <<>>
  BY <1>3, <1>4, WhiteIsNotOwn, NothingOwn
<1>6. OwnLines(UpTo(text, n) \o After(text, n)) = OwnLines(UpTo(text, n))
  BY <1>3, <1>5, NoLinesAdded
<1>7. OwnLines(text) = OwnLines(UpTo(text, n))
  BY <1>3, <1>6
<1> QED
  BY <1>7 DEF TrimRight, n

LEMMA TrimPrefixKeepsLines ==
    ASSUME NEW text \in Text
    PROVE  TrimPrefix(text) \in Text /\ OwnLines(TrimPrefix(text)) = OwnLines(text)
<1>1. CASE text # <<>> /\ text[1] = "\r\n"
  <2>1. Len(text) \in Nat /\ 1 <= Len(text) /\ 1 \in 0 .. Len(text)
    BY <1>1 DEF Text
  <2>2. /\ UpTo(text, 1) \in Text /\ Len(UpTo(text, 1)) = 1
        /\ \A i \in 1 .. 1 : UpTo(text, 1)[i] = text[i]
        /\ After(text, 1) \in Text /\ text = UpTo(text, 1) \o After(text, 1)
    <3>1. 1 \in Int /\ 1 \in Nat
      OBVIOUS
    <3>2. /\ UpTo(text, 1) \in Text /\ Len(UpTo(text, 1)) = 1
          /\ \A i \in 1 .. 1 : UpTo(text, 1)[i] = text[i]
      <4>1. ASSUME NEW n \in Nat, n <= Len(text)
            PROVE  /\ UpTo(text, n) \in Text /\ Len(UpTo(text, n)) = n
                   /\ \A i \in 1 .. n : UpTo(text, n)[i] = text[i]
        BY <4>1, UpToType
      <4> QED
        BY <2>1, <4>1
    <3>3. After(text, 1) \in Text
      BY <2>1, <3>1, AfterType
    <3> QED
      BY <2>1, <3>2, <3>3, SplitText
  <2>3. \A i \in 1 .. Len(UpTo(text, 1)) : UpTo(text, 1)[i] \notin OwnLine
    BY <1>1, <2>2, WhiteIsNotOwn DEF White
  <2>4. OwnLines(UpTo(text, 1)) = <<>>
    BY <2>2, <2>3, NothingOwn
  <2>5. OwnLines(UpTo(text, 1) \o After(text, 1)) = OwnLines(After(text, 1))
    BY <2>2, <2>4, NoLinesAdded
  <2>6. OwnLines(text) = OwnLines(After(text, 1))
    BY <2>2, <2>5
  <2> QED
    BY <1>1, <2>2, <2>6 DEF TrimPrefix
<1>2. CASE ~ (text # <<>> /\ text[1] = "\r\n")
  BY <1>2 DEF TrimPrefix
<1> QED
  BY <1>1, <1>2

(* What removeManaged takes away of a neat text is nothing of the user's.  *)
LEMMA CleanedKeepsLines ==
    ASSUME NEW text \in Text, ~ Malformed(text), Tight(text)
    PROVE  OwnLines(Cleaned(text)) = OwnLines(text)
<1>0. DOMAIN text = 1 .. Len(text) /\ Len(text) \in Nat
  BY DEF Text
<1>1. CASE ~ HasMarker(text)
  BY <1>1 DEF Cleaned
<1>2. CASE HasMarker(text)
  <2> DEFINE start == Position(text, "begin")
             end == Position(text, "end")
             before == UpTo(text, start - 1)
             block == After(UpTo(text, end), start - 1)
             rest == After(text, end)
  <2>1. /\ start \in 1 .. Len(text) /\ end \in start .. Len(text)
        /\ text[start] = "begin" /\ text[end] = "end"
    BY <1>0, <1>2, PositionIsFirst DEF Malformed
  <2> HIDE DEF start, end
  <2>2. /\ start - 1 \in Nat /\ start - 1 <= end /\ end \in Nat /\ end <= Len(text)
        /\ start - 1 <= Len(text) /\ end \in 0 .. Len(text)
    BY <1>0, <2>1
  <2>3. /\ UpTo(text, end) \in Text /\ Len(UpTo(text, end)) = end
        /\ \A i \in 1 .. end : UpTo(text, end)[i] = text[i]
    BY <2>2, UpToType
  <2>4. rest \in Text /\ text = UpTo(text, end) \o rest
    BY <2>2, AfterType, SplitText
  <2>5. /\ block \in Text /\ Len(block) = end - (start - 1)
        /\ \A i \in 1 .. end - (start - 1) : block[i] = UpTo(text, end)[(start - 1) + i]
        /\ UpTo(text, end) = UpTo(UpTo(text, end), start - 1) \o block
    <3> DEFINE u == UpTo(text, end)
    <3>1. u \in Text /\ Len(u) = end
      BY <2>3
    <3> HIDE DEF u
    <3>2. /\ After(u, start - 1) \in Text /\ Len(After(u, start - 1)) = end - (start - 1)
          /\ \A i \in 1 .. end - (start - 1) : After(u, start - 1)[i] = u[(start - 1) + i]
      BY <2>2, <3>1, AfterType
    <3>3. u = UpTo(u, start - 1) \o After(u, start - 1)
      <4>1. start - 1 \in 0 .. Len(u)
        BY <2>2, <3>1
      <4> QED
        BY <3>1, <4>1, SplitText
    <3> QED
      BY <3>2, <3>3 DEF u
  <2>6. UpTo(UpTo(text, end), start - 1) = before /\ before \in Text
    <3> DEFINE u == UpTo(text, end)
               v == UpTo(u, start - 1)
    <3>1. u \in Text /\ Len(u) = end /\ \A i \in 1 .. end : u[i] = text[i]
      BY <2>3
    <3> HIDE DEF u
    <3>2. v \in Text /\ Len(v) = start - 1 /\ \A i \in 1 .. start - 1 : v[i] = u[i]
      BY <2>2, <3>1, UpToType
    <3>3. before \in Text /\ Len(before) = start - 1 /\ \A i \in 1 .. start - 1 : before[i] = text[i]
      BY <1>0, <2>2, UpToType
    <3> HIDE DEF v, before
    <3>4. \A i \in 1 .. start - 1 : v[i] = before[i]
      BY <2>2, <3>1, <3>2, <3>3
    <3>5. v = before
      BY <3>2, <3>3, <3>4, SameSequence
    <3> QED
      BY <3>3, <3>5 DEF u, v
  <2>7. \A i \in 1 .. Len(block) : block[i] \notin OwnLine
    <3> SUFFICES ASSUME NEW i \in 1 .. end - (start - 1)
                 PROVE  block[i] \notin OwnLine
      BY <2>5
    <3>1. /\ (start - 1) + i \in 1 .. end /\ (start - 1) + i \in 1 .. Len(text)
          /\ start <= (start - 1) + i /\ (start - 1) + i <= end
          /\ end \in 1 .. Len(text)
      BY <1>0, <2>1, <2>2
    <3>2. block[i] = text[(start - 1) + i]
      BY <2>3, <2>5, <3>1
    <3> QED
      BY <2>1, <3>1, <3>2 DEF Tight
  <2> HIDE DEF before, block, rest
  <2>8. OwnLines(block) = <<>>
    BY <2>5, <2>7, NothingOwn
  <2>9. OwnLines(before \o block) = OwnLines(before) /\ before \o block \in Text
    BY <2>5, <2>6, <2>8, NoLinesAdded, ConcatType
  <2>10. text = (before \o block) \o rest
    BY <2>4, <2>5, <2>6
  <2>11. OwnLines(text) = OwnLines(before) \o OwnLines(rest)
    BY <2>4, <2>9, <2>10, OwnLinesConcat
  <2>12. Cleaned(text) = before \o TrimPrefix(rest)
    BY <1>2 DEF Cleaned, before, rest, start, end
  <2>13. OwnLines(before \o TrimPrefix(rest)) = OwnLines(before) \o OwnLines(rest)
    <3> DEFINE t == TrimPrefix(rest)
    <3>1. t \in Text /\ OwnLines(t) = OwnLines(rest)
      BY <2>4, TrimPrefixKeepsLines
    <3> HIDE DEF t
    <3>2. OwnLines(before \o t) = OwnLines(before) \o OwnLines(t)
      BY <2>6, <3>1, OwnLinesConcat
    <3> QED
      BY <3>1, <3>2 DEF t
  <2> QED
    BY <2>11, <2>12, <2>13
<1> QED
  BY <1>1, <1>2

(* Install and Uninstall keep every line of the user, in order.            *)
LEMMA MergeKeepsLines ==
    ASSUME NEW text \in Text, ~ Malformed(text), Tight(text), NEW body \in Body
    PROVE  OwnLines(Merge(text, body)) = OwnLines(text)
<1> DEFINE c == TrimRight(Cleaned(text))
           gap == <<"\n", "\n">>
           block == Block(body)
<1>1. c \in Text /\ OwnLines(c) = OwnLines(text)
  BY CleanedType, TrimRightType, TrimRightKeepsLines, CleanedKeepsLines
<1>2. block \in Text /\ OwnLines(block) = <<>>
  <2>1. block \in Text
    BY BlockType
  <2>2. \A i \in 1 .. Len(block) : block[i] \notin OwnLine
    BY TextConstants DEF Block, White, Marker
  <2> HIDE DEF block
  <2> QED
    BY <2>1, <2>2, NothingOwn
<1>3. gap \in Text /\ OwnLines(gap) = <<>>
  <2>1. gap \in Text
    BY DEF Text, White
  <2>2. \A i \in 1 .. Len(gap) : gap[i] \notin OwnLine
    BY WhiteIsNotOwn DEF White
  <2> HIDE DEF gap
  <2> QED
    BY <2>1, <2>2, NothingOwn
<1>4. Merge(text, body) = IF c = <<>> THEN block ELSE (c \o gap) \o block
  <2>1. Merge(text, body) = IF c = <<>> THEN block ELSE c \o gap \o block
    BY DEF Merge, Merged
  <2> QED
    BY <2>1
<1> HIDE DEF c, gap, block
<1>5. CASE c = <<>>
  <2>1. OwnLines(<<>>) = <<>>
    BY <1>1, <1>5, NothingOwn
  <2> QED
    BY <1>1, <1>2, <1>4, <1>5, <2>1
<1>6. CASE c # <<>>
  <2>1. c \o gap \in Text /\ OwnLines(c \o gap) = OwnLines(c)
    BY <1>1, <1>3, NoLinesAdded, ConcatType
  <2>2. OwnLines((c \o gap) \o block) = OwnLines(c \o gap)
    BY <1>2, <2>1, NoLinesAdded
  <2> QED
    BY <1>1, <1>4, <1>6, <2>1, <2>2
<1> QED
  BY <1>5, <1>6

LEMMA RemainingKeepsLines ==
    ASSUME NEW text \in Text, ~ Malformed(text), Tight(text)
    PROVE  OwnLines(Remaining(text)) = OwnLines(text)
<1> DEFINE c == TrimRight(Cleaned(text))
           end == <<"\n">>
<1>1. c \in Text /\ OwnLines(c) = OwnLines(text)
  BY CleanedType, TrimRightType, TrimRightKeepsLines, CleanedKeepsLines
<1>2. end \in Text /\ OwnLines(end) = <<>>
  <2>1. end \in Text
    BY DEF Text, White
  <2>2. \A i \in 1 .. Len(end) : end[i] \notin OwnLine
    BY WhiteIsNotOwn DEF White
  <2> HIDE DEF end
  <2> QED
    BY <2>1, <2>2, NothingOwn
<1>3. Remaining(text) = IF c = <<>> THEN <<>> ELSE c \o end
  BY DEF Remaining, LineEnded
<1> HIDE DEF c, end
<1> QED
  BY <1>1, <1>2, <1>3, NoLinesAdded

(* A command that has decided, and whose text nobody else has replaced     *)
(* since, is about to write the user's lines as they are.                  *)
LinesInv ==
    \A c \in Commands :
        /\ command[c].edition <= edition
        /\ (/\ command[c].phase \in {"merged", "backedUp", "written"}
            /\ command[c].kind # "rollback"
            /\ command[c].edition = edition) => OwnLines(command[c].result) = OwnLines(Existing)

LEMMA LinesInitially == ProfileInit => LinesInv
BY DEF ProfileInit, LinesInv, NewCommand

(* Another command, or the user, has replaced the text: whoever decided    *)
(* before decided on an older edition.                                     *)
LEMMA NewEdition ==
    ASSUME ProfileTypeOK, LinesInv, edition' = edition + 1,
           \A c \in Commands : command'[c].edition = command[c].edition
    PROVE  LinesInv'
<1>1. edition \in Nat /\ \A c \in Commands : command[c].edition \in Nat
  BY DEF ProfileTypeOK, Command
<1> QED
  BY <1>1 DEF LinesInv

LEMMA LinesStep ==
    ProfileTypeOK /\ NeatInv /\ LinesInv /\ [ProfileNext]_profileVars => LinesInv'
<1> SUFFICES ASSUME ProfileTypeOK, NeatInv, LinesInv, [ProfileNext]_profileVars
             PROVE  LinesInv'
  OBVIOUS
<1>0. Existing \in Text /\ Tight(Existing) /\ edition \in Nat
  BY ExistingType DEF ProfileTypeOK, NeatInv, Existing, Neat, Tight
<1>1. ASSUME NEW c \in Commands, NEW phase \in {"backedUp", "written", "done"}, Moves(c, phase),
             command[c].phase \in {"merged", "backedUp"} \/ phase = "done",
             UNCHANGED <<config, edition>>
      PROVE  LinesInv'
  <2>1. Existing' = Existing
    BY <1>1 DEF Existing
  <2>2. /\ command'[c].phase = phase
        /\ \A d \in Commands : /\ command'[d].edition = command[d].edition
                              /\ command'[d].kind = command[d].kind
                              /\ command'[d].result = command[d].result
        /\ \A d \in Commands \ {c} : command'[d].phase = command[d].phase
    BY <1>1 DEF Moves, ProfileTypeOK, Command
  <2> QED
    BY <1>1, <2>1, <2>2 DEF LinesInv
<1>2. ASSUME NEW c \in Commands, NEW phase \in {"merged", "backedUp"},
             NEW kind \in {"install", "uninstall", "rollback"}, NEW result \in Text,
             kind # "rollback" => OwnLines(result) = OwnLines(Existing),
             Decides(c, phase, kind, result), UNCHANGED <<config, edition>>
      PROVE  LinesInv'
  <2>1. Existing' = Existing
    BY <1>2 DEF Existing
  <2>2. /\ command'[c].edition = edition /\ command'[c].kind = kind /\ command'[c].result = result
        /\ \A d \in Commands \ {c} : command'[d] = command[d]
    BY <1>2 DEF Decides, ProfileTypeOK, Command
  <2> QED
    BY <1>0, <1>2, <2>1, <2>2 DEF LinesInv
<1>3. ASSUME NEW c \in Commands, NEW body \in Body, Install(c, body)
      PROVE  LinesInv'
  <2>1. CASE Malformed(Existing)
    BY <1>1, <1>3, <2>1 DEF Install
  <2>2. CASE ~ Malformed(Existing)
    <3>1. /\ Merge(Existing, body) \in Text
          /\ OwnLines(Merge(Existing, body)) = OwnLines(Existing)
      BY <1>0, <2>2, MergeType, MergeKeepsLines
    <3> QED
      BY <1>2, <1>3, <2>2, <3>1 DEF Install
  <2> QED
    BY <2>1, <2>2
<1>4. ASSUME NEW c \in Commands, Uninstall(c)
      PROVE  LinesInv'
  <2>1. CASE Malformed(Existing) \/ ~HasMarker(Existing)
    BY <1>1, <1>4, <2>1 DEF Uninstall
  <2>2. CASE ~ (Malformed(Existing) \/ ~HasMarker(Existing))
    <3>1. /\ Remaining(Existing) \in Text
          /\ OwnLines(Remaining(Existing)) = OwnLines(Existing)
      BY <1>0, <2>2, RemainingType, RemainingKeepsLines
    <3> QED
      BY <1>2, <1>4, <2>2, <3>1 DEF Uninstall
  <2> QED
    BY <2>1, <2>2
<1>5. ASSUME NEW c \in Commands, NEW b \in Commands, Rollback(c, b)
      PROVE  LinesInv'
  <2> backup[b] \in Text
    BY <1>5 DEF Rollback, ProfileTypeOK, Content
  <2> QED
    BY <1>2, <1>5 DEF Rollback
<1>6. ASSUME NEW c \in Commands, WriteBackup(c) \/ BackupFails(c) \/ WriteTemp(c) \/ Fails(c)
      PROVE  LinesInv'
  BY <1>1, <1>6 DEF WriteBackup, BackupFails, WriteTemp, Fails
<1>7. ASSUME NEW c \in Commands, Rename(c)
      PROVE  LinesInv'
  <2>1. /\ command'[c].phase = "done"
        /\ \A d \in Commands : /\ command'[d].edition = command[d].edition
                              /\ command'[d].kind = command[d].kind
                              /\ command'[d].result = command[d].result
        /\ \A d \in Commands \ {c} : command'[d].phase = command[d].phase
    BY <1>7 DEF Rename, Moves, ProfileTypeOK, Command
  <2>2. CASE command[c].kind = "rollback" \/ command[c].edition # edition
    BY <1>7, <2>1, <2>2, NewEdition DEF Rename, EditionAfter
  <2>3. CASE ~ (command[c].kind = "rollback" \/ command[c].edition # edition)
    <3>1. edition' = edition /\ Existing' = command[c].result
      BY <1>7, <2>3, ProfileConstants DEF Rename, EditionAfter, Existing, ProfileTypeOK, Command
    <3>2. OwnLines(Existing') = OwnLines(Existing)
      BY <1>7, <2>3, <3>1 DEF Rename, LinesInv
    <3> QED
      BY <2>1, <3>1, <3>2 DEF LinesInv
  <2> QED
    BY <2>2, <2>3
<1>8. CASE Save
  BY <1>8, NewEdition DEF Save
<1>9. CASE PowerLoss
  <2>1. \A c \in Commands : /\ command'[c].phase \in {"new", "done"}
                            /\ command'[c].edition = command[c].edition
    BY <1>9 DEF PowerLoss, ProfileTypeOK, Command
  <2> QED
    BY <1>9, <2>1 DEF PowerLoss, LinesInv
<1>10. CASE Sync \/ UNCHANGED profileVars
  <2>1. UNCHANGED <<config, command, edition>>
    BY <1>10 DEF Sync, profileVars
  <2>2. Existing' = Existing
    BY <2>1 DEF Existing
  <2> QED
    BY <2>1, <2>2 DEF LinesInv
<1> QED
  BY <1>3, <1>4, <1>5, <1>6, <1>7, <1>8, <1>9, <1>10 DEF ProfileNext

(* Installs and uninstalls keep every line of the user, in order, however  *)
(* many run at once and whatever fails, as long as nobody else writes      *)
(* between what they read and what they rename.                            *)
THEOREM CommandsKeepOwnLinesCorrect == ProfileSpec => CommandsKeepOwnLines
<1> DEFINE Kept == \A c \in Commands :
              (Replaces(c) /\ command[c].kind # "rollback" /\ command[c].edition = edition) =>
                  OwnLines(config') = OwnLines(ReadOf(config))
<1>1. ProfileInv => ProfileTypeOK
  BY DEF ProfileInv
<1>2. ProfileTypeOK /\ LinesInv /\ [ProfileNext]_profileVars => [Kept]_profileVars
  <2> SUFFICES ASSUME ProfileTypeOK, LinesInv, ProfileNext,
                      NEW c \in Commands, Replaces(c), command[c].kind # "rollback",
                      command[c].edition = edition
               PROVE  OwnLines(config') = OwnLines(ReadOf(config))
    OBVIOUS
  <2>1. OwnLines(command[c].result) = OwnLines(ReadOf(config))
    BY DEF LinesInv, Replaces, ReadOf, Existing
  <2>2. config' = command[c].result
    <3>1. config' # config /\ losses' = losses /\ losses \in Nat
          /\ command[c].phase = "written" /\ command'[c].phase = "done"
      BY DEF Replaces, ProfileTypeOK
    <3>2. ~ Save
      BY <3>1 DEF Save
    <3>3. ~ PowerLoss
      BY <3>1 DEF PowerLoss
    <3>4. PICK d \in Commands : Rename(d)
      BY <3>1, <3>2, <3>3
         DEF ProfileNext, Install, Uninstall, Rollback, WriteBackup, BackupFails, WriteTemp,
             Fails, Sync
    <3>5. d = c
      BY <3>1, <3>4 DEF Rename, Moves, ProfileTypeOK, Command
    <3> QED
      BY <3>4, <3>5 DEF Rename
  <2> QED
    BY <2>1, <2>2
<1> QED
  BY <1>1, <1>2, NeatInitially, NeatStep, LinesInitially, LinesStep, ProfileInvariant, PTL
     DEF ProfileSpec, CommandsKeepOwnLines
=============================================================================
