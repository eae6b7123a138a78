-------------------------- MODULE CallPayloadProofs --------------------------
(***************************************************************************)
(* What strtok and the payload do to texts, for texts of every length and  *)
(* any number of them.                                                     *)
(***************************************************************************)
EXTENDS CallPayload, TLAPS, WellFoundedInduction, SequenceTheorems

-----------------------------------------------------------------------------
(* Induction over numbers, for a set in the place of a predicate            *)

\* What has 0, and the successor of what it has, has all numbers.
LEMMA SetInduction ==
    ASSUME NEW S, 0 \in S, \A n \in Nat : n \in S => n + 1 \in S
    PROVE  \A n \in Nat : n \in S
<1> DEFINE bad == {n \in Nat : n \notin S}
<1> SUFFICES ASSUME bad # {}
             PROVE  FALSE
    OBVIOUS
<1>1. PICK m \in bad : \A n \in bad : <<n, m>> \notin OpToRel(<, Nat)
    BY NatLessThanWellFounded, WFMin
<1>2. m \in Nat /\ m # 0 /\ m \notin S
    OBVIOUS
<1>3. m - 1 \in Nat /\ m - 1 < m
    BY <1>2
<1>4. m - 1 \notin bad
    BY <1>1, <1>2, <1>3 DEF OpToRel
<1>5. m - 1 \in S
    BY <1>3, <1>4
<1>6. (m - 1) + 1 \in S
    BY <1>3, <1>5
<1> QED  BY <1>2, <1>6

-----------------------------------------------------------------------------
(* strtok                                                                   *)

Start == [all |-> <<>>, part |-> <<>>]

\* What one character does to the parts.
Step(parts, char, delimiter) ==
    IF char # delimiter THEN [parts EXCEPT !.part = Append(@, char)]
    ELSE [all |-> parts.all \o Whole(parts.part), part |-> <<>>]

\* The function that Tokens defines by recursion.
Scan(text, delimiter) ==
    CHOOSE scan : scan = [i \in 0 .. Len(text) |->
          IF i = 0 THEN [all |-> <<>>, part |-> <<>>]
          ELSE LET parts == scan[i - 1]
               IN  IF text[i] # delimiter THEN [parts EXCEPT !.part = Append(@, text[i])]
                   ELSE [all |-> parts.all \o Whole(parts.part), part |-> <<>>]]

\* It is the end of the scan that Tokens looks at.
LEMMA TokensScan ==
    ASSUME NEW text, NEW delimiter
    PROVE  Tokens(text, delimiter) =
               LET end == Scan(text, delimiter)[Len(text)] IN end.all \o Whole(end.part)
BY DEF Tokens, Scan

\* There is such a function: the first place up to which there is none does not exist.
LEMMA ScanUnfolds ==
    ASSUME NEW text, NEW delimiter, Len(text) \in Nat
    PROVE  /\ Scan(text, delimiter)[0] = Start
           /\ \A i \in 1 .. Len(text) :
                 Scan(text, delimiter)[i] = Step(Scan(text, delimiter)[i - 1], text[i], delimiter)
<1> DEFINE Is(scan, n) ==
        scan = [i \in 0 .. n |-> IF i = 0 THEN Start ELSE Step(scan[i - 1], text[i], delimiter)]
<1> DEFINE S == {n \in Nat : \E scan : Is(scan, n)}
<1>1. 0 \in S
    <2>1. Is([i \in 0 .. 0 |-> Start], 0)
        OBVIOUS
    <2> QED  BY <2>1
<1>2. ASSUME NEW n \in Nat, n \in S
      PROVE  n + 1 \in S
    <2>1. PICK scan : Is(scan, n)
        BY <1>2
    <2> DEFINE longer == [i \in 0 .. n + 1 |->
                            IF i <= n THEN scan[i] ELSE Step(scan[n], text[n + 1], delimiter)]
    <2>2. \A i \in 0 .. n : longer[i] = scan[i]
        OBVIOUS
    <2>3. \A i \in 0 .. n + 1 :
             longer[i] = IF i = 0 THEN Start ELSE Step(longer[i - 1], text[i], delimiter)
        <3> SUFFICES ASSUME NEW i \in 0 .. n + 1
                     PROVE  longer[i] = IF i = 0 THEN Start
                                        ELSE Step(longer[i - 1], text[i], delimiter)
            OBVIOUS
        <3>1. CASE i <= n
            BY <2>1, <2>2, <3>1
        <3>2. CASE i = n + 1
            BY <2>2, <3>2
        <3> QED  BY <3>1, <3>2
    <2>4. Is(longer, n + 1)
        BY <2>3
    <2>5. \E f : Is(f, n + 1)
        BY <2>4
    <2> QED  BY <2>5
<1>3. Len(text) \in S
    <2> HIDE DEF S
    <2> QED  BY <1>1, <1>2, SetInduction
<1>4. PICK scan : Is(scan, Len(text))
    BY <1>3
<1>5. Scan(text, delimiter) = CHOOSE f : Is(f, Len(text))
    BY DEF Scan, Start, Step
<1>6. Is(Scan(text, delimiter), Len(text))
    BY <1>4, <1>5
<1> QED  BY <1>6

\* The parts are texts.
Parts(Char) == [all : Seq(Seq(Char)), part : Seq(Char)]

\* A character makes texts of texts.
LEMMA StepType ==
    ASSUME NEW Char, NEW parts \in Parts(Char), NEW char \in Char, NEW delimiter
    PROVE  Step(parts, char, delimiter) \in Parts(Char)
<1>1. Whole(parts.part) \in Seq(Seq(Char))
    BY DEF Parts, Whole
<1>2. parts.all \o Whole(parts.part) \in Seq(Seq(Char))
    BY <1>1 DEF Parts
<1>3. Append(parts.part, char) \in Seq(Char)
    BY DEF Parts
<1>4. <<>> \in Seq(Char)
    OBVIOUS
<1>5. CASE char # delimiter
    <2>1. Step(parts, char, delimiter) = [all |-> parts.all, part |-> Append(parts.part, char)]
        BY <1>5 DEF Step, Parts
    <2> QED  BY <1>3, <2>1 DEF Parts
<1>6. CASE char = delimiter
    BY <1>2, <1>4, <1>6 DEF Parts, Step
<1> QED  BY <1>5, <1>6

\* So are those of a scan, at each of its places.
LEMMA ScanType ==
    ASSUME NEW Char, NEW text \in Seq(Char), NEW delimiter, NEW i \in 0 .. Len(text)
    PROVE  Scan(text, delimiter)[i] \in Parts(Char)
<1> DEFINE scan == Scan(text, delimiter)
<1> DEFINE S == {n \in Nat : n <= Len(text) => scan[n] \in Parts(Char)}
<1>0. /\ Len(text) \in Nat
      /\ scan[0] = Start
      /\ \A n \in 1 .. Len(text) : scan[n] = Step(scan[n - 1], text[n], delimiter)
    BY ScanUnfolds
<1> HIDE DEF scan
<1>1. 0 \in S
    <2>1. <<>> \in Seq(Seq(Char)) /\ <<>> \in Seq(Char)
        OBVIOUS
    <2>2. scan[0] \in Parts(Char)
        BY <1>0, <2>1 DEF Start, Parts
    <2> QED  BY <2>2
<1>2. ASSUME NEW n \in Nat, n \in S
      PROVE  n + 1 \in S
    <2> SUFFICES ASSUME n + 1 <= Len(text)
                 PROVE  scan[n + 1] \in Parts(Char)
        OBVIOUS
    <2>1. scan[n] \in Parts(Char) /\ text[n + 1] \in Char
        BY <1>0, <1>2
    <2>2. scan[n + 1] = Step(scan[n], text[n + 1], delimiter)
        BY <1>0
    <2> QED  BY <2>1, <2>2, StepType
<1>3. \A n \in Nat : n \in S
    <2> HIDE DEF S
    <2> QED  BY <1>1, <1>2, SetInduction
<1> QED  BY <1>0, <1>3 DEF scan

\* What comes later does not matter to the scan of what comes first.
LEMMA ScanOfStart ==
    ASSUME NEW text, NEW start, NEW delimiter, Len(text) \in Nat, Len(start) \in Nat,
           Len(start) <= Len(text), \A i \in 1 .. Len(start) : text[i] = start[i]
    PROVE  \A i \in 0 .. Len(start) : Scan(text, delimiter)[i] = Scan(start, delimiter)[i]
<1> DEFINE f == Scan(text, delimiter)
           g == Scan(start, delimiter)
           S == {n \in Nat : n <= Len(start) => f[n] = g[n]}
<1>0. /\ f[0] = Start /\ g[0] = Start
      /\ \A n \in 1 .. Len(start) : /\ f[n] = Step(f[n - 1], text[n], delimiter)
                                    /\ g[n] = Step(g[n - 1], text[n], delimiter)
    BY ScanUnfolds
<1> HIDE DEF f, g
<1>1. 0 \in S
    BY <1>0
<1>2. ASSUME NEW n \in Nat, n \in S
      PROVE  n + 1 \in S
    BY <1>0, <1>2
<1>3. \A n \in Nat : n \in S
    <2> HIDE DEF S
    <2> QED  BY <1>1, <1>2, SetInduction
<1> QED  BY <1>3 DEF f, g

\* An element at the end of the second of two texts is one at the end of both.
LEMMA ConcatAppend ==
    ASSUME NEW Char, NEW s \in Seq(Char), NEW t \in Seq(Char), NEW e \in Char
    PROVE  s \o Append(t, e) = Append(s \o t, e)
<1>1. Append(t, e) = t \o <<e>> /\ <<e>> \in Seq(Char) /\ s \o t \in Seq(Char)
    BY AppendIsConcat
<1>2. Append(s \o t, e) = (s \o t) \o <<e>>
    BY <1>1, AppendIsConcat
<1> QED  BY <1>1, <1>2, ConcatAssociative

\* So the second text is put behind the first one by one.
LEMMA ConcatSubSeq ==
    ASSUME NEW Char, NEW s \in Seq(Char), NEW t \in Seq(Char), NEW n \in Nat, n + 1 <= Len(t)
    PROVE  s \o SubSeq(t, 1, n + 1) = Append(s \o SubSeq(t, 1, n), t[n + 1])
<1> DEFINE start == SubSeq(t, 1, n)
           char == t[n + 1]
<1>1. start \in Seq(Char) /\ char \in Char
    OBVIOUS
<1>2. SubSeq(t, 1, n + 1) = Append(start, char)
    OBVIOUS
<1> HIDE DEF start, char
<1>3. s \o Append(start, char) = Append(s \o start, char)
    BY <1>1, ConcatAppend
<1> QED  BY <1>2, <1>3 DEF start, char

\* The parts of a whole text.
PartsOf(text, delimiter) == Scan(text, delimiter)[Len(text)]

\* Characters that are no delimiter make the last part longer.
LEMMA PartGrows ==
    ASSUME NEW Char, NEW text \in Seq(Char), NEW more \in Seq(Char), NEW delimiter,
           \A i \in 1 .. Len(more) : more[i] # delimiter
    PROVE  PartsOf(text \o more, delimiter) =
               [PartsOf(text, delimiter) EXCEPT !.part = @ \o more]
<1> DEFINE both == text \o more
           scan == Scan(both, delimiter)
           parts == PartsOf(text, delimiter)
           Grown(n) == [parts EXCEPT !.part = @ \o SubSeq(more, 1, n)]
           S == {n \in Nat : n <= Len(more) => scan[Len(text) + n] = Grown(n)}
<1>0. /\ both \in Seq(Char) /\ Len(both) = Len(text) + Len(more) /\ Len(both) \in Nat
      /\ Len(text) \in Nat /\ Len(more) \in Nat
      /\ \A i \in 1 .. Len(text) : both[i] = text[i]
      /\ \A i \in 1 .. Len(more) : both[Len(text) + i] = more[i]
    OBVIOUS
<1> HIDE DEF both
<1>2. \A n \in 1 .. Len(both) : scan[n] = Step(scan[n - 1], both[n], delimiter)
    BY <1>0, ScanUnfolds
<1>8. \A i \in 0 .. Len(text) : scan[i] = Scan(text, delimiter)[i]
    <2>1. Len(text) <= Len(both)
        BY <1>0
    <2> QED  BY <1>0, <2>1, ScanOfStart
<1>9. parts \in Parts(Char)
    BY <1>0, ScanType DEF PartsOf
<1>1. scan[Len(text)] = parts /\ parts \in Parts(Char)
    BY <1>0, <1>8, <1>9 DEF PartsOf
<1> HIDE DEF scan, parts
<1>3. 0 \in S
    <2>1. SubSeq(more, 1, 0) = <<>>
        OBVIOUS
    <2>2. parts.part \o <<>> = parts.part
        BY <1>1 DEF Parts
    <2>3. Grown(0) = parts
        BY <1>1, <2>1, <2>2 DEF Parts
    <2> QED  BY <1>0, <1>1, <2>3
<1>4. ASSUME NEW n \in Nat, n \in S
      PROVE  n + 1 \in S
    <2> SUFFICES ASSUME n + 1 <= Len(more)
                 PROVE  scan[Len(text) + (n + 1)] = Grown(n + 1)
        OBVIOUS
    <2>1. scan[Len(text) + n] = Grown(n)
        BY <1>0, <1>4
    <2>2. scan[Len(text) + (n + 1)] = Step(scan[Len(text) + n], more[n + 1], delimiter)
        BY <1>0, <1>2
    <2>4. parts.part \o SubSeq(more, 1, n + 1)
              = Append(parts.part \o SubSeq(more, 1, n), more[n + 1])
        BY <1>1, ConcatSubSeq DEF Parts
    <2>5. more[n + 1] # delimiter
        BY <1>0, n + 1 \in 1 .. Len(more)
    <2> QED  BY <1>1, <2>1, <2>2, <2>4, <2>5 DEF Step, Parts
<1>5. \A n \in Nat : n \in S
    <2> HIDE DEF S
    <2> QED  BY <1>3, <1>4, SetInduction
<1>6. scan[Len(text) + Len(more)] = Grown(Len(more))
    <2>1. Len(more) \in S
        BY <1>0, <1>5
    <2> HIDE DEF Grown
    <2> QED  BY <1>0, <2>1
<1>7. SubSeq(more, 1, Len(more)) = more
    BY SubSeqFull
<1> QED  BY <1>0, <1>6, <1>7 DEF PartsOf, both, scan, parts

\* A delimiter ends the last part; one without characters is not kept.
LEMMA PartEnds ==
    ASSUME NEW Char, NEW text \in Seq(Char), NEW delimiter \in Char
    PROVE  PartsOf(text \o <<delimiter>>, delimiter) =
               LET parts == PartsOf(text, delimiter)
               IN  [all |-> parts.all \o Whole(parts.part), part |-> <<>>]
<1> DEFINE both == text \o <<delimiter>>
<1>0. /\ both \in Seq(Char) /\ Len(both) = Len(text) + 1 /\ Len(text) \in Nat
      /\ \A i \in 1 .. Len(text) : both[i] = text[i]
      /\ both[Len(text) + 1] = delimiter
    OBVIOUS
<1> HIDE DEF both
<1>1. Scan(both, delimiter)[Len(text)] = PartsOf(text, delimiter)
    BY <1>0, ScanOfStart DEF PartsOf
<1>2. Scan(both, delimiter)[Len(text) + 1] =
          Step(Scan(both, delimiter)[Len(text)], delimiter, delimiter)
    BY <1>0, ScanUnfolds
<1> QED  BY <1>0, <1>1, <1>2 DEF PartsOf, Step, both

\* The parts of texts are texts, and so are the tokens.
LEMMA PartsType ==
    ASSUME NEW Char, NEW text \in Seq(Char), NEW delimiter
    PROVE  /\ PartsOf(text, delimiter) \in Parts(Char)
           /\ Whole(PartsOf(text, delimiter).part) \in Seq(Seq(Char))
<1>1. Len(text) \in 0 .. Len(text)
    OBVIOUS
<1>2. PartsOf(text, delimiter) \in Parts(Char)
    BY <1>1, ScanType DEF PartsOf
<1> QED  BY <1>2 DEF Parts, Whole

\* What is put behind a sequence does not change its first element.
LEMMA FirstOfBoth ==
    ASSUME NEW X, NEW s \in Seq(X), NEW t \in Seq(X), s # <<>>
    PROVE  s \o t \in Seq(X) /\ s \o t # <<>> /\ (s \o t)[1] = s[1]
<1>1. Len(s) \in Nat \ {0} /\ Len(t) \in Nat
    BY EmptySeq, LenProperties
<1>2. s \o t \in Seq(X) /\ Len(s \o t) = Len(s) + Len(t)
    BY ConcatProperties
<1>3. (s \o t)[1] = s[1]
    BY <1>1
<1>4. s \o t # <<>>
    BY <1>1, <1>2, EmptySeq
<1> QED  BY <1>2, <1>3, <1>4

\* The first part is all of a text without delimiters.
LEMMA PartOfPlain ==
    ASSUME NEW Char, NEW text \in Seq(Char), NEW delimiter,
           \A i \in 1 .. Len(text) : text[i] # delimiter
    PROVE  PartsOf(text, delimiter) = [all |-> <<>>, part |-> text]
<1>1. PartsOf(<<>>, delimiter) = Start
    <2>1. Len(<<>>) = 0
        OBVIOUS
    <2>2. Scan(<<>>, delimiter)[0] = Start
        BY <2>1, ScanUnfolds
    <2> QED  BY <2>1, <2>2 DEF PartsOf
<1>2. <<>> \in Seq(Char) /\ <<>> \o text = text
    BY EmptySeq, ConcatEmptySeq
<1> DEFINE empty == <<>>
<1> HIDE DEF empty
<1>3. PartsOf(empty \o text, delimiter) = [PartsOf(empty, delimiter) EXCEPT !.part = @ \o text]
    <2>1. empty \in Seq(Char)
        BY <1>2 DEF empty
    <2> QED  BY <2>1, PartGrows
<1> QED  BY <1>1, <1>2, <1>3 DEF Start, empty

\* The last part is ended and another begun.
Ended(parts, part) == [all |-> parts.all \o Whole(parts.part), part |-> part]

\* A delimiter and a text without one end a part and are the next.
LEMMA PartFollows ==
    ASSUME NEW Char, NEW text \in Seq(Char), NEW delimiter \in Char, NEW more \in Seq(Char),
           \A i \in 1 .. Len(more) : more[i] # delimiter
    PROVE  PartsOf(text \o (<<delimiter>> \o more), delimiter) =
               Ended(PartsOf(text, delimiter), more)
<1> DEFINE ended == text \o <<delimiter>>
           parts == PartsOf(text, delimiter)
<1>1. ended \in Seq(Char) /\ <<delimiter>> \in Seq(Char)
    OBVIOUS
<1>2. text \o (<<delimiter>> \o more) = ended \o more
    BY <1>1, ConcatAssociative
<1>3. PartsOf(ended, delimiter) = [all |-> parts.all \o Whole(parts.part), part |-> <<>>]
    BY PartEnds
<1> DEFINE all == parts.all \o Whole(parts.part)
<1> HIDE DEF ended, parts, all
<1>4. PartsOf(ended \o more, delimiter) = [PartsOf(ended, delimiter) EXCEPT !.part = @ \o more]
    BY <1>1, PartGrows
<1>5. <<>> \o more = more
    BY ConcatEmptySeq
<1> DEFINE empty == <<>>
<1>6. PartsOf(ended, delimiter) = [all |-> all, part |-> empty] /\ empty \o more = more
    BY <1>3, <1>5 DEF all
<1> HIDE DEF empty
<1>7. PartsOf(ended \o more, delimiter) = [all |-> all, part |-> more]
    BY <1>4, <1>6
<1> QED  BY <1>2, <1>7 DEF parts, all, Ended

\* Tokens looks at the parts of the whole text.
LEMMA TokensParts ==
    ASSUME NEW text, NEW delimiter
    PROVE  Tokens(text, delimiter) =
               PartsOf(text, delimiter).all \o Whole(PartsOf(text, delimiter).part)
BY TokensScan DEF PartsOf

\* A part that has been ended before any other stays the first token.
LEMMA FirstStays ==
    ASSUME NEW Char, NEW first \in Seq(Char), NEW rest \in Seq(Char), NEW delimiter \in Char,
           first # <<>>, \A i \in 1 .. Len(first) : first[i] # delimiter,
           rest = <<>> \/ rest[1] = delimiter
    PROVE  /\ Tokens(first \o rest, delimiter) \in Seq(Seq(Char))
           /\ Tokens(first \o rest, delimiter) # <<>>
           /\ Head(Tokens(first \o rest, delimiter)) = first
<1> DEFINE text == first \o rest
           scan == Scan(text, delimiter)
           start == first \o <<delimiter>>
           Kept(parts) == parts.all # <<>> /\ parts.all[1] = first
           S == {n \in Nat : Len(start) + n <= Len(text) => Kept(scan[Len(start) + n])}
           end == PartsOf(text, delimiter)
<1>0. /\ text \in Seq(Char) /\ Len(text) = Len(first) + Len(rest) /\ Len(text) \in Nat
      /\ Len(first) \in Nat \ {0} /\ Len(rest) \in Nat
      /\ start \in Seq(Char) /\ Len(start) = Len(first) + 1 /\ Len(start) \in Nat
    OBVIOUS
<1>2. Whole(end.part) \in Seq(Seq(Char)) /\ end.all \in Seq(Seq(Char))
    <2> HIDE DEF text
    <2> QED  BY <1>0, PartsType DEF Parts
<1>3. Tokens(text, delimiter) = end.all \o Whole(end.part)
    BY TokensParts
<1>4. CASE rest = <<>>
    <2>1. text = first
        BY <1>4, ConcatEmptySeq
    <2>2. end = [all |-> <<>>, part |-> first]
        BY <2>1, PartOfPlain
    <2>3. Tokens(text, delimiter) = <<first>>
        BY <1>3, <2>2, ConcatEmptySeq DEF Whole
    <2> QED  BY <2>3
<1>5. CASE rest # <<>>
    <2>1. rest[1] = delimiter /\ Len(rest) >= 1
        BY <1>5
    <2>2. \A i \in 1 .. Len(start) : text[i] = start[i]
        BY <1>0, <2>1
    <2>3. PartsOf(start, delimiter) = [all |-> <<first>>, part |-> <<>>]
        <3>1. PartsOf(first, delimiter) = [all |-> <<>>, part |-> first]
            BY PartOfPlain
        <3>2. PartsOf(start, delimiter) =
                  LET parts == PartsOf(first, delimiter)
                  IN  [all |-> parts.all \o Whole(parts.part), part |-> <<>>]
            BY PartEnds
        <3>3. <<>> \o <<first>> = <<first>>
            BY ConcatEmptySeq
        <3> QED  BY <3>1, <3>2, <3>3 DEF Whole
    <2> HIDE DEF text, start
    <2>4. scan[Len(start)] = [all |-> <<first>>, part |-> <<>>]
        <3>1. Len(start) <= Len(text)
            BY <1>0, <2>1
        <3>2. \A i \in 0 .. Len(start) : Scan(text, delimiter)[i] = Scan(start, delimiter)[i]
            <4>1. Len(text) \in Nat /\ Len(start) \in Nat
                BY <1>0
            <4> QED  BY ONLY <4>1, <2>2, <3>1, ScanOfStart
        <3>3. scan[Len(start)] = PartsOf(start, delimiter)
            BY <1>0, <3>2 DEF PartsOf
        <3> QED  BY <2>3, <3>3
    <2>5. \A i \in 1 .. Len(text) : scan[i] = Step(scan[i - 1], text[i], delimiter)
        BY <1>0, ScanUnfolds
    <2>6. \A i \in 0 .. Len(text) : scan[i] \in Parts(Char)
        BY <1>0, ScanType
    <2> HIDE DEF scan
    <2>7. 0 \in S
        BY <1>0, <2>4
    <2>8. ASSUME NEW n \in Nat, n \in S
          PROVE  n + 1 \in S
        <3> SUFFICES ASSUME Len(start) + (n + 1) <= Len(text)
                     PROVE  Kept(scan[Len(start) + (n + 1)])
            OBVIOUS
        <3> DEFINE before == scan[Len(start) + n]
                   char == text[Len(start) + (n + 1)]
        <3>1. Kept(before) /\ before \in Parts(Char)
            BY <1>0, <2>6, <2>8
        <3>2. scan[Len(start) + (n + 1)] = Step(before, char, delimiter)
            BY <1>0, <2>5
        <3> HIDE DEF before, char
        <3>3. Step(before, char, delimiter).all \in {before.all, before.all \o Whole(before.part)}
            BY <3>1 DEF Step, Parts
        <3>4. Whole(before.part) \in Seq(Seq(Char)) /\ before.all \in Seq(Seq(Char))
            BY <3>1 DEF Parts, Whole
        <3>5. LET all == before.all \o Whole(before.part) IN all # <<>> /\ all[1] = first
            BY <3>1, <3>4, FirstOfBoth
        <3> QED  BY <3>1, <3>2, <3>3, <3>5
    <2>9. Kept(end)
        <3>1. \A n \in Nat : n \in S
            <4> HIDE DEF S
            <4> QED  BY <2>7, <2>8, SetInduction
        <3>2. Len(text) - Len(start) \in Nat
            BY <1>0, <2>1
        <3>3. Kept(scan[Len(start) + (Len(text) - Len(start))])
            <4>1. Len(text) - Len(start) \in S
                BY <3>1, <3>2
            <4> HIDE DEF Kept
            <4> QED  BY <1>0, <4>1
        <3> QED  BY <1>0, <3>3 DEF PartsOf, scan
    <2> HIDE DEF end
    <2>10. LET all == end.all \o Whole(end.part)
           IN  all \in Seq(Seq(Char)) /\ all # <<>> /\ all[1] = first
        BY <1>2, <2>9, FirstOfBoth
    <2> DEFINE all == end.all \o Whole(end.part)
    <2>11. Tokens(text, delimiter) = all /\ all \in Seq(Seq(Char)) /\ all # <<>> /\ all[1] = first
        BY <1>3, <2>10
    <2> HIDE DEF all
    <2>12. Head(all) = first
        BY <2>11
    <2> QED  BY <2>11, <2>12 DEF text
<1> QED  BY <1>4, <1>5

-----------------------------------------------------------------------------
(* The text of a call                                                       *)

\* The function that FlattenSeq defines by recursion.
Flat(seqs) ==
    CHOOSE flatten : flatten = [i \in 1 .. Len(seqs) |->
        IF i = 1 THEN seqs[i] ELSE flatten[i - 1] \o seqs[i]]

Join(s, t) == s \o t

\* There is such a function.
LEMMA FlatUnfolds ==
    ASSUME NEW seqs, Len(seqs) \in Nat \ {0}
    PROVE  /\ FlattenSeq(seqs) = Flat(seqs)[Len(seqs)]
           /\ Flat(seqs)[1] = seqs[1]
           /\ \A i \in 2 .. Len(seqs) : Flat(seqs)[i] = Join(Flat(seqs)[i - 1], seqs[i])
<1> DEFINE Is(flat, n) ==
        flat = [i \in 1 .. n |-> IF i = 1 THEN seqs[i] ELSE Join(flat[i - 1], seqs[i])]
<1> DEFINE S == {n \in Nat : \E flat : Is(flat, n)}
<1>1. 0 \in S
    <2>1. Is([i \in 1 .. 0 |-> seqs[i]], 0)
        OBVIOUS
    <2> QED  BY <2>1
<1>2. ASSUME NEW n \in Nat, n \in S
      PROVE  n + 1 \in S
    <2>1. PICK flat : Is(flat, n)
        BY <1>2
    <2> DEFINE longer == [i \in 1 .. n + 1 |->
                            IF i <= n THEN flat[i]
                            ELSE IF i = 1 THEN seqs[i] ELSE Join(flat[n], seqs[i])]
    <2>2. \A i \in 1 .. n : longer[i] = flat[i]
        OBVIOUS
    <2>3. \A i \in 1 .. n + 1 :
             longer[i] = IF i = 1 THEN seqs[i] ELSE Join(longer[i - 1], seqs[i])
        <3> SUFFICES ASSUME NEW i \in 1 .. n + 1
                     PROVE  longer[i] = IF i = 1 THEN seqs[i] ELSE Join(longer[i - 1], seqs[i])
            OBVIOUS
        <3>1. CASE i <= n
            <4>1. flat[i] = IF i = 1 THEN seqs[i] ELSE Join(flat[i - 1], seqs[i])
                BY <2>1, <3>1
            <4>2. longer[i] = flat[i]
                BY <2>2, <3>1
            <4>3. i # 1 => longer[i - 1] = flat[i - 1]
                BY <2>2, <3>1
            <4> HIDE DEF longer
            <4> QED  BY <4>1, <4>2, <4>3
        <3>2. CASE i = n + 1
            <4>1. i # 1 => longer[i - 1] = flat[n]
                BY <2>2, <3>2
            <4>2. longer[i] = IF i = 1 THEN seqs[i] ELSE Join(flat[n], seqs[i])
                BY <3>2
            <4> HIDE DEF longer
            <4> QED  BY <4>1, <4>2
        <3> QED  BY <3>1, <3>2
    <2>4. Is(longer, n + 1)
        BY <2>3
    <2>5. \E f : Is(f, n + 1)
        BY <2>4
    <2> QED  BY <2>5
<1>3. Len(seqs) \in S
    <2> HIDE DEF S
    <2> QED  BY <1>1, <1>2, SetInduction
<1>4. PICK flat : Is(flat, Len(seqs))
    BY <1>3
<1>5. Flat(seqs) = CHOOSE f : Is(f, Len(seqs))
    BY DEF Flat, Join
<1>6. Is(Flat(seqs), Len(seqs))
    BY <1>4, <1>5
<1>7. FlattenSeq(seqs) = Flat(seqs)[Len(seqs)]
    BY DEF FlattenSeq, Flat
<1> QED  BY <1>6, <1>7

\* A text that begins with a delimiter.
Marked(text, Char, delim) == text \in Seq(Char) /\ text # <<>> /\ text[1] = delim

\* A text behind a text that begins with a delimiter does not matter.
LEMMA MarkedBoth ==
    ASSUME NEW Char, NEW delim, NEW s, NEW t \in Seq(Char), Marked(s, Char, delim)
    PROVE  Marked(Join(s, t), Char, delim)
BY FirstOfBoth DEF Marked, Join

\* A parameter behind a delimiter.
Behind(params, delim) == [i \in DOMAIN params |-> <<delim>> \o params[i]]

\* The text of parameters begins with a delimiter, if there are any.
LEMMA FlatType ==
    ASSUME NEW Char, NEW delim \in Char, NEW params \in Seq(Seq(Char))
    PROVE  /\ _rpc_flatten_params(params, delim) \in Seq(Char)
           /\ _rpc_flatten_params(params, delim) = <<>> \/ _rpc_flatten_params(params, delim)[1] = delim
           /\ \A i \in 1 .. Len(params) : Flat(Behind(params, delim))[i] \in Seq(Char)
<1> DEFINE seqs == Behind(params, delim)
           flat == Flat(seqs)
           S == {n \in Nat : n + 1 <= Len(params) => Marked(flat[n + 1], Char, delim)}
<1>1. /\ DOMAIN params = 1 .. Len(params) /\ Len(params) \in Nat
      /\ seqs = [i \in 1 .. Len(params) |-> <<delim>> \o params[i]]
    BY DEF Behind
<1>2. \A i \in 1 .. Len(params) : Marked(seqs[i], Char, delim)
    <2> SUFFICES ASSUME NEW i \in 1 .. Len(params)
                 PROVE  Marked(<<delim>> \o params[i], Char, delim)
        BY <1>1
    <2>1. params[i] \in Seq(Char)
        OBVIOUS
    <2>3. Marked(<<delim>>, Char, delim)
        BY DEF Marked
    <2> QED  BY <2>1, <2>3, MarkedBoth DEF Join
<1>3. Len(seqs) = Len(params)
    BY <1>1
<1>4. _rpc_flatten_params(params, delim) = FlattenSeq(seqs)
    BY DEF _rpc_flatten_params, Behind
<1> HIDE DEF seqs
<1>5. CASE Len(params) = 0
    <2>1. seqs = <<>>
        BY <1>1, <1>5
    <2>2. FlattenSeq(seqs) = <<>>
        BY <1>3, <1>5, <2>1 DEF FlattenSeq
    <2> QED  BY <1>4, <1>5, <2>2
<1>6. CASE Len(params) # 0
    <2>1. /\ FlattenSeq(seqs) = flat[Len(seqs)]
          /\ flat[1] = seqs[1]
          /\ \A i \in 2 .. Len(seqs) : flat[i] = Join(flat[i - 1], seqs[i])
        BY <1>1, <1>3, <1>6, FlatUnfolds
    <2> HIDE DEF flat
    <2>2. 0 \in S
        BY <1>1, <1>2, <2>1
    <2>3. ASSUME NEW n \in Nat, n \in S
          PROVE  n + 1 \in S
        <3> SUFFICES ASSUME (n + 1) + 1 <= Len(params)
                     PROVE  Marked(flat[(n + 1) + 1], Char, delim)
            OBVIOUS
        <3> DEFINE before == flat[n + 1]
                   more == seqs[n + 2]
        <3>1. Marked(before, Char, delim)
            BY <1>1, <2>3
        <3>2. Marked(more, Char, delim)
            <4>1. n + 2 \in 1 .. Len(params)
                BY <1>1
            <4> QED  BY <1>2, <4>1
        <3>3. flat[(n + 1) + 1] = Join(before, more)
            <4>1. n + 2 \in 2 .. Len(seqs) /\ (n + 2) - 1 = n + 1 /\ (n + 1) + 1 = n + 2
                BY <1>1, <1>3
            <4> QED  BY <2>1, <4>1
        <3> HIDE DEF before, more
        <3>4. Marked(Join(before, more), Char, delim)
            BY <3>1, <3>2, MarkedBoth DEF Marked
        <3> QED  BY <3>3, <3>4
    <2>4. \A n \in Nat : n \in S
        <3> HIDE DEF S
        <3> QED  BY <2>2, <2>3, SetInduction
    <2>5. \A i \in 1 .. Len(params) : Marked(flat[i], Char, delim)
        <3> SUFFICES ASSUME NEW i \in 1 .. Len(params)
                     PROVE  Marked(flat[i], Char, delim)
            OBVIOUS
        <3>2. i - 1 \in Nat
            BY <1>1
        <3>1. i - 1 \in S
            <4> HIDE DEF S
            <4> QED  BY <2>4, <3>2
        <3>3. (i - 1) + 1 = i
            BY <1>1
        <3> QED  BY <1>1, <3>1, <3>3
    <2>6. Marked(flat[Len(params)], Char, delim) /\ flat[Len(params)] = _rpc_flatten_params(params, delim)
        BY <1>1, <1>3, <1>4, <1>6, <2>1, <2>5
    <2> QED  BY <2>5, <2>6 DEF flat, seqs, Marked
<1> QED  BY <1>1, <1>5, <1>6

\* A part with characters is kept whole.
LEMMA WholePart ==
    ASSUME NEW part, part # <<>>
    PROVE  Whole(part) = <<part>>
BY DEF Whole

\* The elements of a sequence go behind another one by one.
LEMMA OneMore ==
    ASSUME NEW X, NEW s \in Seq(X), NEW t \in Seq(X), NEW n \in Nat, n + 1 <= Len(t)
    PROVE  (s \o SubSeq(t, 1, n)) \o <<t[n + 1]>> = s \o SubSeq(t, 1, n + 1)
<1>1. SubSeq(t, 1, n) \in Seq(X) /\ <<t[n + 1]>> \in Seq(X)
    OBVIOUS
<1>2. SubSeq(t, 1, n + 1) = SubSeq(t, 1, n) \o <<t[n + 1]>>
    <2>1. SubSeq(t, 1, n + 1) = SubSeq(t, 1, (n + 1) - 1) \o <<t[n + 1]>>
        <3>1. 1 \in 1 .. Len(t) /\ n + 1 \in 1 .. Len(t)
            OBVIOUS
        <3> QED  BY <3>1, SubSeqRecursiveSecond
    <2>2. (n + 1) - 1 = n
        OBVIOUS
    <2> QED  BY <2>1, <2>2
<1> DEFINE start == SubSeq(t, 1, n)
           next == <<t[n + 1]>>
<1> HIDE DEF start, next
<1>3. start \in Seq(X) /\ next \in Seq(X)
    BY <1>1 DEF start, next
<1>4. (s \o start) \o next = s \o (start \o next)
    BY <1>3, ConcatAssociative
<1> QED  BY <1>2, <1>4 DEF start, next

\* The parts when n parameters have been ended behind the name.
Split(name, params, n) ==
    [all |-> <<name>> \o SubSeq(params, 1, n), part |-> params[n + 1]]

\* The next parameter ends the one before it.
LEMMA SplitNext ==
    ASSUME NEW Char, NEW name \in Seq(Char), NEW params \in Seq(Seq(Char)),
           NEW n \in Nat, n + 1 <= Len(params), params[n + 1] # <<>>
    PROVE  Split(name, params, n).all \o Whole(Split(name, params, n).part) =
               <<name>> \o SubSeq(params, 1, n + 1)
<1>1. Split(name, params, n).all = <<name>> \o SubSeq(params, 1, n)
    BY DEF Split
<1>2. Split(name, params, n).part = params[n + 1]
    BY DEF Split
<1>3. Whole(params[n + 1]) = <<params[n + 1]>>
    BY WholePart
<1>4. <<name>> \in Seq(Seq(Char))
    OBVIOUS
<1>5. (<<name>> \o SubSeq(params, 1, n)) \o <<params[n + 1]>> = <<name>> \o SubSeq(params, 1, n + 1)
    BY <1>4, OneMore
<1> QED  BY <1>1, <1>2, <1>3, <1>5

\* A parameter behind a delimiter becomes the last part.
LEMMA PartJoins ==
    ASSUME NEW Char, NEW delim \in Char, NEW name \in Seq(Char), NEW text \in Seq(Char),
           NEW more \in Seq(Char), \A i \in 1 .. Len(more) : more[i] # delim
    PROVE  PartsOf(name \o Join(text, <<delim>> \o more), delim) =
               Ended(PartsOf(name \o text, delim), more)
<1> DEFINE next == <<delim>> \o more
           both == name \o text
<1>1. next \in Seq(Char) /\ both \in Seq(Char)
    OBVIOUS
<1>2. PartsOf(both \o next, delim) = Ended(PartsOf(both, delim), more)
    <2> HIDE DEF both
    <2> QED  BY <1>1, PartFollows
<1> HIDE DEF next
<1>3. name \o (text \o next) = both \o next
    BY <1>1, ConcatAssociative
<1> QED  BY <1>2, <1>3 DEF Join, next

\* The text of a call falls into the name and the parameters, if strtok can find each
\* of them (_rpc_server_parse_call).
THEOREM TokensOfCall ==
    ASSUME NEW Char, NEW delim \in Char, NEW name \in Seq(Char), Carried(name, delim),
           NEW params \in Seq(Seq(Char)), \A i \in 1 .. Len(params) : Carried(params[i], delim)
    PROVE  Tokens(name \o _rpc_flatten_params(params, delim), delim) = <<name>> \o params
<1> DEFINE seqs == Behind(params, delim)
           flat == Flat(seqs)
           S == {n \in Nat : n + 1 <= Len(params) =>
                                PartsOf(name \o flat[n + 1], delim) = Split(name, params, n)}
<1>1. /\ DOMAIN params = 1 .. Len(params) /\ Len(params) \in Nat
      /\ Len(seqs) = Len(params)
      /\ \A i \in 1 .. Len(params) : seqs[i] = <<delim>> \o params[i]
    BY DEF Behind
<1>2. \A i \in 1 .. Len(name) : name[i] # delim
    BY DEF Carried
<1>3. name # <<>> /\ <<name>> \in Seq(Seq(Char))
    BY DEF Carried
<1>4. PartsOf(name, delim) = [all |-> <<>>, part |-> name]
    BY <1>2, PartOfPlain
<1>5. <<>> \o Whole(name) = <<name>>
    BY <1>3, WholePart, ConcatEmptySeq
<1>6. \A i \in 1 .. Len(params) :
         params[i] \in Seq(Char) /\ params[i] # <<>> /\ \A k \in 1 .. Len(params[i]) : params[i][k] # delim
    BY DEF Carried
<1>7. \A i \in 1 .. Len(params) : flat[i] \in Seq(Char)
    BY FlatType
<1>8. _rpc_flatten_params(params, delim) = FlattenSeq(seqs)
    BY DEF _rpc_flatten_params, Behind
<1> HIDE DEF seqs
<1>9. CASE Len(params) = 0
    <2>1. params = <<>> /\ seqs = <<>>
        BY <1>1, <1>9 DEF seqs, Behind
    <2>2. FlattenSeq(seqs) = <<>>
        BY <1>1, <1>9, <2>1 DEF FlattenSeq
    <2>3. name \o <<>> = name /\ <<name>> \o <<>> = <<name>>
        BY <1>3, ConcatEmptySeq
    <2>4. Tokens(name, delim) = <<name>>
        <3>1. Tokens(name, delim) = PartsOf(name, delim).all \o Whole(PartsOf(name, delim).part)
            BY TokensParts
        <3>2. PartsOf(name, delim).all = <<>> /\ PartsOf(name, delim).part = name
            BY <1>4
        <3> QED  BY <1>5, <3>1, <3>2
    <2> QED  BY <1>8, <2>1, <2>2, <2>3, <2>4
<1>10. CASE Len(params) # 0
    <2>1. /\ FlattenSeq(seqs) = flat[Len(seqs)]
          /\ flat[1] = seqs[1]
          /\ \A i \in 2 .. Len(seqs) : flat[i] = Join(flat[i - 1], seqs[i])
        BY <1>1, <1>10, FlatUnfolds
    <2> HIDE DEF flat
    <2>2. 0 \in S
        <3> DEFINE first == params[1]
        <3>1. 1 \in 1 .. Len(params)
            BY <1>1, <1>10
        <3>2. first \in Seq(Char) /\ \A k \in 1 .. Len(first) : first[k] # delim
            BY <1>6, <3>1
        <3>3. flat[1] = <<delim>> \o first
            BY <1>1, <2>1, <3>1
        <3> HIDE DEF first
        <3>4. PartsOf(name \o (<<delim>> \o first), delim) = Ended(PartsOf(name, delim), first)
            BY <3>2, PartFollows
        <3>5. PartsOf(name, delim).all \o Whole(PartsOf(name, delim).part) = <<name>>
            <4>1. PartsOf(name, delim).all = <<>> /\ PartsOf(name, delim).part = name
                BY <1>4
            <4> QED  BY <1>5, <4>1
        <3>6. <<name>> \o SubSeq(params, 1, 0) = <<name>>
            <4>1. SubSeq(params, 1, 0) = <<>>
                BY SubSeqEmpty
            <4> QED  BY <1>3, <4>1, ConcatEmptySeq
        <3>7. Split(name, params, 0) = [all |-> <<name>>, part |-> first]
            BY <3>6 DEF Split, first
        <3>8. PartsOf(name \o flat[1], delim) = Split(name, params, 0)
            BY <3>3, <3>4, <3>5, <3>7, Zenon DEF Ended
        <3> QED  BY <3>8
    <2>3. ASSUME NEW n \in Nat, n \in S
          PROVE  n + 1 \in S
        <3> SUFFICES ASSUME (n + 1) + 1 <= Len(params)
                     PROVE  PartsOf(name \o flat[(n + 1) + 1], delim) = Split(name, params, n + 1)
            OBVIOUS
        <3> DEFINE before == flat[n + 1]
                   more == params[n + 2]
                   parts == PartsOf(name \o before, delim)
        <3>1. n + 1 \in 1 .. Len(params) /\ n + 2 \in 1 .. Len(params) /\ n + 2 \in 2 .. Len(seqs)
            BY <1>1
        <3>2. /\ before \in Seq(Char) /\ params[n + 1] # <<>>
              /\ more \in Seq(Char) /\ \A k \in 1 .. Len(more) : more[k] # delim
            BY <1>6, <1>7, <3>1 DEF flat, seqs
        <3>3. flat[n + 2] = Join(before, <<delim>> \o more)
            <4>1. (n + 2) - 1 = n + 1
                OBVIOUS
            <4> QED  BY <1>1, <2>1, <3>1, <4>1
        <3>4. parts = Split(name, params, n)
            BY <1>1, <2>3
        <3>5. parts.all \o Whole(parts.part) = <<name>> \o SubSeq(params, 1, n + 1)
            <4>1. n + 1 <= Len(params)
                BY <1>1
            <4> HIDE DEF parts
            <4> QED  BY <3>2, <3>4, <4>1, SplitNext
        <3> HIDE DEF before, more
        <3>6. PartsOf(name \o Join(before, <<delim>> \o more), delim)
                  = Ended(parts, more)
            BY <3>2, PartJoins
        <3>7. (n + 1) + 1 = n + 2
            OBVIOUS
        <3>8. Split(name, params, n + 1) = [all |-> <<name>> \o SubSeq(params, 1, n + 1), part |-> more]
            BY <3>7 DEF Split, more
        <3> HIDE DEF parts
        <3> QED  BY <3>3, <3>5, <3>6, <3>7, <3>8, Zenon DEF Ended
    <2>4. \A n \in Nat : n \in S
        <3> HIDE DEF S
        <3> QED  BY <2>2, <2>3, SetInduction
    <2>5. PICK n \in Nat : n + 1 = Len(params)
        <3>1. Len(params) - 1 \in Nat /\ (Len(params) - 1) + 1 = Len(params)
            BY <1>1, <1>10
        <3> QED  BY <3>1
    <2>6. PartsOf(name \o flat[n + 1], delim) = Split(name, params, n)
        <3>1. n \in S
            <4> HIDE DEF S
            <4> QED  BY <2>4
        <3>2. n + 1 <= Len(params)
            BY <1>1, <2>5
        <3> QED  BY <3>1, <3>2
    <2>7. Split(name, params, n).all \o Whole(Split(name, params, n).part)
              = <<name>> \o SubSeq(params, 1, n + 1)
        <3>1. params[n + 1] # <<>> /\ n + 1 <= Len(params)
            BY <1>1, <1>6, <2>5
        <3> QED  BY <3>1, SplitNext
    <2>8. Tokens(name \o flat[n + 1], delim) = <<name>> \o SubSeq(params, 1, n + 1)
        BY <2>6, <2>7, TokensParts, Zenon
    <2>9. SubSeq(params, 1, Len(params)) = params
        BY SubSeqFull
    <2>10. _rpc_flatten_params(params, delim) = flat[n + 1]
        BY <1>1, <1>8, <2>1, <2>5
    <2> QED  BY <2>5, <2>8, <2>9, <2>10, Zenon
<1> QED  BY <1>1, <1>9, <1>10

=============================================================================
