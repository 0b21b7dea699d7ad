------------------------- MODULE ParserLoopsProofs -------------------------
(***************************************************************************)
(* Proofs about ParserLoops, for every CN, every list of prefixes and      *)
(* every role mapping, whatever the length of their segments.              *)
(***************************************************************************)
EXTENDS ParserLoops, SequenceTheorems, TLAPS

\* The roles of this attempt that were tried and that the rest of the CN ends with.
Rest == TrimPrefix(cn, sortedPrefixes[k])
Tried == EndsWithRole(Rest, roles \ untried)

\* The sort: a permutation as a set, in order before i, and i the longest up to j.
SortOK ==
    /\ sortedPrefixes \in Seq(String) /\ Len(sortedPrefixes) = Len(prefixes)
    /\ ToSet(sortedPrefixes) = ToSet(prefixes)
    /\ i \in 1..(Len(prefixes) + 1) /\ j \in (i + 1)..(Len(prefixes) + 2)
    /\ \A a, b \in 1..Len(prefixes) :
          a < i /\ a < b => Chars(sortedPrefixes[b]) <= Chars(sortedPrefixes[a])
    /\ \A b \in 1..Len(prefixes) :
          i < b /\ b < j => Chars(sortedPrefixes[b]) <= Chars(sortedPrefixes[i])

\* The prefixes: longest first, none before k parses.
PrefixOK ==
    /\ k \in 1..(Len(prefixes) + 1)
    /\ pc = "sort" => k = 1
    /\ pc # "sort" => i >= Len(prefixes) /\ j > Len(prefixes)
    /\ \A a \in 1..Len(prefixes) :
          a < k => parsePermissionString(cn, sortedPrefixes[a], roles) = NotParsed

\* One attempt: matchedRole is the longest role tried so far that matches.
AttemptOK ==
    /\ k <= Len(prefixes) /\ IsStrictPrefix(sortedPrefixes[k], cn)
    /\ untried \subseteq roles /\ maxRoleLength = Chars(matchedRole)
    /\ matchedRole # Empty => matchedRole \in Tried /\ namespace = TrimSuffix(Rest, matchedRole)
    /\ \A r \in Tried : matchedRole # Empty /\ Len(r) <= Len(matchedRole)

Outcome ==
    /\ pc # "done" => result = NotParsed
    /\ pc = "done" /\ result = NotParsed => k > Len(prefixes)
    /\ result # NotParsed =>
          /\ AttemptOK /\ untried = {} /\ matchedRole # Empty /\ namespace # Empty
          /\ result = [namespace |-> namespace, role |-> matchedRole]

\* The inductive invariant.
IInv == TypeOK /\ SortOK /\ PrefixOK /\ (pc = "roles" => AttemptOK) /\ Outcome

-----------------------------------------------------------------------------
(* Prefixes and suffixes, segment by segment *)

\* A string starts with another one: their first segments agree.
LEMMA PrefixBySegment ==
    ASSUME NEW S, NEW s \in Seq(S), NEW t \in Seq(S)
    PROVE  IsPrefix(s, t) <=> Len(s) <= Len(t) /\ \A n \in 1..Len(s) : s[n] = t[n]
<1>1. Len(s) \in Nat /\ Len(t) \in Nat /\ SubSeq(s, 1, Len(s)) = s
  BY LenProperties, SubSeqFull
<1>2. ASSUME Len(s) <= Len(t)
      PROVE  /\ SubSeq(t, 1, Len(s)) \in Seq(S) /\ Len(SubSeq(t, 1, Len(s))) = Len(s)
             /\ \A n \in 1..Len(s) : SubSeq(t, 1, Len(s))[n] = t[n]
  <2>1. \A n \in 1..Len(s) : t[n] \in S
    BY <1>1, <1>2, ElementOfSeq
  <2>2. /\ SubSeq(t, 1, Len(s)) \in Seq(S)
        /\ Len(SubSeq(t, 1, Len(s))) = IF 1 <= Len(s) THEN Len(s) - 1 + 1 ELSE 0
        /\ \A n \in 1..(Len(s) - 1 + 1) : SubSeq(t, 1, Len(s))[n] = t[1 + n - 1]
    <3>1. 1 \in Int /\ Len(s) \in Int
      BY <1>1
    <3> QED BY <2>1, <3>1, SubSeqProperties
  <2> QED BY <1>1, <2>2
<1>3. ASSUME Len(s) <= Len(t), \A n \in 1..Len(s) : s[n] = t[n]
      PROVE  s = SubSeq(t, 1, Len(s))
  <2>1. \A n \in 1..Len(s) : s[n] = SubSeq(t, 1, Len(s))[n]
    BY <1>2, <1>3
  <2> QED BY <1>2, <1>3, <2>1, SeqEqual
<1> QED BY <1>1, <1>2, <1>3 DEF IsPrefix

\* Reversing keeps the segments, from the last to the first.
LEMMA ReverseBySegment ==
    ASSUME NEW S, NEW s \in Seq(S)
    PROVE  /\ Reverse(s) \in Seq(S) /\ Len(Reverse(s)) = Len(s)
           /\ \A n \in 1..Len(s) : Reverse(s)[n] = s[Len(s) - n + 1]
<1>1. Len(s) \in Nat
  BY LenProperties
<1>2. \A n \in 1..Len(s) : s[Len(s) - n + 1] \in S
  BY <1>1, ElementOfSeq
<1>3. Reverse(s) \in [1..Len(s) -> S]
  BY <1>2 DEF Reverse
<1>4. Reverse(s) \in Seq(S)
  BY <1>1, <1>3, SeqDef
<1> QED BY <1>1, <1>3, <1>4 DEF Reverse

\* A string ends with another one: their last segments agree.
LEMMA SuffixBySegment ==
    ASSUME NEW S, NEW s \in Seq(S), NEW t \in Seq(S)
    PROVE  IsSuffix(s, t) <=>
              Len(s) <= Len(t) /\ \A n \in 1..Len(s) : s[n] = t[Len(t) - Len(s) + n]
<1>1. Len(s) \in Nat /\ Len(t) \in Nat
  BY LenProperties
<1>2. /\ Reverse(s) \in Seq(S) /\ Len(Reverse(s)) = Len(s)
      /\ \A n \in 1..Len(s) : Reverse(s)[n] = s[Len(s) - n + 1]
  BY ReverseBySegment
<1>3. /\ Reverse(t) \in Seq(S) /\ Len(Reverse(t)) = Len(t)
      /\ \A n \in 1..Len(t) : Reverse(t)[n] = t[Len(t) - n + 1]
  BY ReverseBySegment
<1>4. IsSuffix(s, t) <=>
         Len(s) <= Len(t) /\ \A n \in 1..Len(s) : Reverse(s)[n] = Reverse(t)[n]
  BY <1>2, <1>3, PrefixBySegment DEF IsSuffix
<1>5. ASSUME Len(s) <= Len(t), \A n \in 1..Len(s) : Reverse(s)[n] = Reverse(t)[n],
             NEW n \in 1..Len(s)
      PROVE  s[n] = t[Len(t) - Len(s) + n]
  <2>1. Len(s) - n + 1 \in 1..Len(s) /\ Len(s) - n + 1 \in 1..Len(t)
    BY <1>1, <1>5
  <2>2. Reverse(s)[Len(s) - n + 1] = s[Len(s) - (Len(s) - n + 1) + 1]
    BY <1>2, <2>1
  <2>3. Reverse(t)[Len(s) - n + 1] = t[Len(t) - (Len(s) - n + 1) + 1]
    BY <1>3, <2>1
  <2>4. /\ Len(s) - (Len(s) - n + 1) + 1 = n
        /\ Len(t) - (Len(s) - n + 1) + 1 = Len(t) - Len(s) + n
    BY <1>1
  <2> QED BY <1>5, <2>1, <2>2, <2>3, <2>4
<1>6. ASSUME Len(s) <= Len(t), \A n \in 1..Len(s) : s[n] = t[Len(t) - Len(s) + n],
             NEW n \in 1..Len(s)
      PROVE  Reverse(s)[n] = Reverse(t)[n]
  <2>1. Len(s) - n + 1 \in 1..Len(s) /\ n \in 1..Len(t)
    BY <1>1, <1>6
  <2>2. s[Len(s) - n + 1] = t[Len(t) - Len(s) + (Len(s) - n + 1)]
    BY <1>6, <2>1
  <2>3. Len(t) - Len(s) + (Len(s) - n + 1) = Len(t) - n + 1
    BY <1>1
  <2> QED BY <1>2, <1>3, <2>1, <2>2, <2>3
<1> QED BY <1>4, <1>5, <1>6

\* A proper start or end is shorter.
LEMMA StrictBySegment ==
    ASSUME NEW S, NEW s \in Seq(S), NEW t \in Seq(S)
    PROVE  /\ IsStrictPrefix(s, t) <=>
                 Len(s) < Len(t) /\ \A n \in 1..Len(s) : s[n] = t[n]
           /\ IsStrictSuffix(s, t) <=>
                 Len(s) < Len(t) /\ \A n \in 1..Len(s) : s[n] = t[Len(t) - Len(s) + n]
<1>1. Len(s) \in Nat /\ Len(t) \in Nat
  BY LenProperties
<1>2. ASSUME Len(s) = Len(t), \A n \in 1..Len(s) : s[n] = t[n]
      PROVE  s = t
  BY <1>2, SeqEqual
<1>3. IsStrictPrefix(s, t) <=>
         Len(s) < Len(t) /\ \A n \in 1..Len(s) : s[n] = t[n]
  <2>1. IsPrefix(s, t) <=> Len(s) <= Len(t) /\ \A n \in 1..Len(s) : s[n] = t[n]
    BY PrefixBySegment
  <2> QED BY <1>1, <1>2, <2>1 DEF IsStrictPrefix
<1>4. IsStrictSuffix(s, t) <=>
         Len(s) < Len(t) /\ \A n \in 1..Len(s) : s[n] = t[Len(t) - Len(s) + n]
  <2>1. IsSuffix(s, t) <=>
           Len(s) <= Len(t) /\ \A n \in 1..Len(s) : s[n] = t[Len(t) - Len(s) + n]
    BY SuffixBySegment
  <2>2. ASSUME Len(s) = Len(t), \A n \in 1..Len(s) : s[n] = t[Len(t) - Len(s) + n]
        PROVE  s = t
    <3>1. \A n \in 1..Len(s) : Len(t) - Len(s) + n = n
      BY <1>1, <2>2
    <3>2. \A n \in 1..Len(s) : s[n] = t[n]
      BY <2>2, <3>1
    <3> QED BY <1>2, <2>2, <3>2
  <2>3. CASE Len(s) = Len(t)
    BY <1>1, <2>1, <2>2, <2>3 DEF IsStrictSuffix
  <2>4. CASE Len(s) # Len(t)
    BY <1>1, <2>1, <2>4 DEF IsStrictSuffix
  <2> QED BY <2>3, <2>4
<1> QED BY <1>3, <1>4

\* Two starts (ends) of one string: the shorter is a start (end) of the longer, and
\* two of one length are the same.
LEMMA StrictChain ==
    ASSUME NEW S, NEW s \in Seq(S), NEW t \in Seq(S), NEW u \in Seq(S)
    PROVE  /\ IsStrictPrefix(s, u) /\ IsStrictPrefix(t, u) =>
                 (Len(s) = Len(t) => s = t) /\ (Len(s) < Len(t) => IsStrictPrefix(s, t))
           /\ IsStrictSuffix(s, u) /\ IsStrictSuffix(t, u) =>
                 (Len(s) = Len(t) => s = t) /\ (Len(s) < Len(t) => IsStrictSuffix(s, t))
<1>1. Len(s) \in Nat /\ Len(t) \in Nat /\ Len(u) \in Nat
  BY LenProperties
<1>2. ASSUME IsStrictPrefix(s, u), IsStrictPrefix(t, u)
      PROVE  (Len(s) = Len(t) => s = t) /\ (Len(s) < Len(t) => IsStrictPrefix(s, t))
  <2>1. \A n \in 1..Len(s) : s[n] = u[n]
    BY <1>2, StrictBySegment
  <2>2. \A n \in 1..Len(t) : t[n] = u[n]
    BY <1>2, StrictBySegment
  <2>3. ASSUME Len(s) <= Len(t)
        PROVE  \A n \in 1..Len(s) : s[n] = t[n]
    BY <1>1, <2>1, <2>2, <2>3
  <2>4. Len(s) < Len(t) => IsStrictPrefix(s, t)
    BY <1>1, <2>3, StrictBySegment
  <2>5. Len(s) = Len(t) => s = t
    BY <1>1, <2>3, SeqEqual
  <2> QED BY <2>4, <2>5
<1>3. ASSUME IsStrictSuffix(s, u), IsStrictSuffix(t, u)
      PROVE  (Len(s) = Len(t) => s = t) /\ (Len(s) < Len(t) => IsStrictSuffix(s, t))
  <2>1. \A n \in 1..Len(s) : s[n] = u[Len(u) - Len(s) + n]
    BY <1>3, StrictBySegment
  <2>2. \A n \in 1..Len(t) : t[n] = u[Len(u) - Len(t) + n]
    BY <1>3, StrictBySegment
  <2>3. ASSUME Len(s) <= Len(t), NEW n \in 1..Len(s)
        PROVE  s[n] = t[Len(t) - Len(s) + n]
    <3>1. Len(t) - Len(s) + n \in 1..Len(t)
      BY <1>1, <2>3
    <3>2. Len(u) - Len(t) + (Len(t) - Len(s) + n) = Len(u) - Len(s) + n
      BY <1>1
    <3>3. t[Len(t) - Len(s) + n] = u[Len(u) - Len(t) + (Len(t) - Len(s) + n)]
      BY <2>2, <3>1
    <3> QED BY <2>1, <3>2, <3>3
  <2>4. Len(s) < Len(t) => IsStrictSuffix(s, t)
    BY <1>1, <2>3, StrictBySegment
  <2>5. ASSUME Len(s) = Len(t)
        PROVE  s = t
    <3>1. \A n \in 1..Len(s) : Len(t) - Len(s) + n = n
      BY <1>1, <2>5
    <3>2. \A n \in 1..Len(s) : s[n] = t[n]
      BY <1>1, <2>3, <2>5, <3>1
    <3> QED BY <2>5, <3>2, SeqEqual
  <2> QED BY <2>4, <2>5
<1> QED BY <1>2, <1>3

\* What is left without the start, and without the end.
LEMMA TrimBySegment ==
    ASSUME NEW S, NEW s \in Seq(S), NEW t \in Seq(S), Len(s) <= Len(t)
    PROVE  /\ TrimPrefix(t, s) \in Seq(S) /\ TrimSuffix(t, s) \in Seq(S)
           /\ Len(TrimPrefix(t, s)) = Len(t) - Len(s)
           /\ Len(TrimSuffix(t, s)) = Len(t) - Len(s)
           /\ \A n \in 1..(Len(t) - Len(s)) :
                 TrimPrefix(t, s)[n] = t[Len(s) + n] /\ TrimSuffix(t, s)[n] = t[n]
<1>1. Len(s) \in Nat /\ Len(t) \in Nat /\ Len(s) + 1 \in Int /\ Len(t) - Len(s) \in Int
      /\ 1 \in Int
  BY LenProperties
<1>2. /\ \A n \in (Len(s) + 1)..Len(t) : t[n] \in S
      /\ \A n \in 1..(Len(t) - Len(s)) : t[n] \in S
  BY <1>1, ElementOfSeq
<1>3. /\ TrimPrefix(t, s) \in Seq(S)
      /\ Len(TrimPrefix(t, s)) =
            IF Len(s) + 1 <= Len(t) THEN Len(t) - (Len(s) + 1) + 1 ELSE 0
      /\ \A n \in 1..(Len(t) - (Len(s) + 1) + 1) :
            TrimPrefix(t, s)[n] = t[Len(s) + 1 + n - 1]
  BY <1>1, <1>2, SubSeqProperties DEF TrimPrefix
<1>4. /\ TrimSuffix(t, s) \in Seq(S)
      /\ Len(TrimSuffix(t, s)) =
            IF 1 <= Len(t) - Len(s) THEN Len(t) - Len(s) - 1 + 1 ELSE 0
      /\ \A n \in 1..(Len(t) - Len(s) - 1 + 1) : TrimSuffix(t, s)[n] = t[1 + n - 1]
  BY <1>1, <1>2, SubSeqProperties DEF TrimSuffix
<1>5. Len(TrimPrefix(t, s)) = Len(t) - Len(s) /\ Len(TrimSuffix(t, s)) = Len(t) - Len(s)
  BY <1>1, <1>3, <1>4
<1>6. \A n \in 1..(Len(t) - Len(s)) : TrimPrefix(t, s)[n] = t[Len(s) + n]
  BY <1>1, <1>3
<1>7. \A n \in 1..(Len(t) - Len(s)) : TrimSuffix(t, s)[n] = t[n]
  BY <1>1, <1>4
<1> QED BY <1>3, <1>4, <1>5, <1>6, <1>7

\* The start and the rest, or the rest and the end, are the whole.
LEMMA TrimIsInverse ==
    ASSUME NEW S, NEW s \in Seq(S), NEW t \in Seq(S)
    PROVE  /\ IsStrictPrefix(s, t) => t = s \o TrimPrefix(t, s)
           /\ IsStrictSuffix(s, t) => t = TrimSuffix(t, s) \o s
<1>1. Len(s) \in Nat /\ Len(t) \in Nat
  BY LenProperties
<1>2. ASSUME IsStrictPrefix(s, t)
      PROVE  t = s \o TrimPrefix(t, s)
  <2> DEFINE rest == TrimPrefix(t, s)
  <2>1. Len(s) < Len(t) /\ \A n \in 1..Len(s) : s[n] = t[n]
    BY <1>2, StrictBySegment
  <2>2. /\ rest \in Seq(S) /\ Len(rest) = Len(t) - Len(s)
        /\ \A n \in 1..(Len(t) - Len(s)) : rest[n] = t[Len(s) + n]
    BY <1>1, <2>1, TrimBySegment
  <2>3. /\ s \o rest \in Seq(S) /\ Len(s \o rest) = Len(s) + Len(rest)
        /\ \A n \in 1..(Len(s) + Len(rest)) :
              (s \o rest)[n] = IF n <= Len(s) THEN s[n] ELSE rest[n - Len(s)]
    BY <2>2, ConcatProperties
  <2> HIDE DEF rest
  <2>4. Len(s \o rest) = Len(t)
    BY <1>1, <2>2, <2>3
  <2>5. ASSUME NEW n \in 1..Len(t)
        PROVE  t[n] = (s \o rest)[n]
    <3>1. CASE n <= Len(s)
      BY <1>1, <2>1, <2>2, <2>3, <3>1
    <3>2. CASE n > Len(s)
      <4>1. n - Len(s) \in 1..(Len(t) - Len(s)) /\ Len(s) + (n - Len(s)) = n
        BY <1>1, <3>2
      <4>2. rest[n - Len(s)] = t[n]
        BY <2>2, <4>1
      <4>3. (s \o rest)[n] = rest[n - Len(s)]
        BY <1>1, <2>2, <2>3, <3>2
      <4> QED BY <4>2, <4>3
    <3>3. n <= Len(s) \/ n > Len(s)
      BY <1>1
    <3> QED BY <3>1, <3>2, <3>3
  <2>6. t = s \o rest
    BY <2>3, <2>4, <2>5, SeqEqual
  <2> QED BY <2>6 DEF rest
<1>3. ASSUME IsStrictSuffix(s, t)
      PROVE  t = TrimSuffix(t, s) \o s
  <2> DEFINE rest == TrimSuffix(t, s)
  <2>1. Len(s) < Len(t) /\ \A n \in 1..Len(s) : s[n] = t[Len(t) - Len(s) + n]
    BY <1>3, StrictBySegment
  <2>2. /\ rest \in Seq(S) /\ Len(rest) = Len(t) - Len(s)
        /\ \A n \in 1..(Len(t) - Len(s)) : rest[n] = t[n]
    BY <1>1, <2>1, TrimBySegment
  <2>3. /\ rest \o s \in Seq(S) /\ Len(rest \o s) = Len(rest) + Len(s)
        /\ \A n \in 1..(Len(rest) + Len(s)) :
              (rest \o s)[n] = IF n <= Len(rest) THEN rest[n] ELSE s[n - Len(rest)]
    BY <2>2, ConcatProperties
  <2> HIDE DEF rest
  <2>4. Len(rest \o s) = Len(t)
    BY <1>1, <2>2, <2>3
  <2>5. ASSUME NEW n \in 1..Len(t)
        PROVE  t[n] = (rest \o s)[n]
    <3>1. CASE n <= Len(rest)
      BY <1>1, <2>2, <2>3, <3>1
    <3>2. CASE n > Len(rest)
      <4>1. n - Len(rest) \in 1..Len(s) /\ Len(t) - Len(s) + (n - Len(rest)) = n
        BY <1>1, <2>2, <3>2
      <4>2. s[n - Len(rest)] = t[n]
        BY <2>1, <4>1
      <4>3. (rest \o s)[n] = s[n - Len(rest)]
        BY <1>1, <2>2, <2>3, <3>2
      <4> QED BY <4>2, <4>3
    <3> QED BY <1>1, <2>2, <3>1, <3>2
  <2>6. t = rest \o s
    BY <2>3, <2>4, <2>5, SeqEqual
  <2> QED BY <2>6 DEF rest
<1> QED BY <1>2, <1>3

\* What ends the rest of a string ends the string, and does not reach into its start.
LEMMA EndOfRest ==
    ASSUME NEW S, NEW p \in Seq(S), NEW r \in Seq(S), NEW s \in Seq(S),
           IsStrictPrefix(p, s)
    PROVE  IsStrictSuffix(r, TrimPrefix(s, p)) <=>
              Len(p) + Len(r) < Len(s) /\ IsStrictSuffix(r, s)
<1>1. Len(p) \in Nat /\ Len(r) \in Nat /\ Len(s) \in Nat
  BY LenProperties
<1>2. Len(p) < Len(s)
  BY StrictBySegment
<1> DEFINE rest == TrimPrefix(s, p)
<1>3. /\ rest \in Seq(S) /\ Len(rest) = Len(s) - Len(p)
      /\ \A n \in 1..(Len(s) - Len(p)) : rest[n] = s[Len(p) + n]
  BY <1>1, <1>2, TrimBySegment
<1> HIDE DEF rest
<1>4. ASSUME Len(p) + Len(r) < Len(s), NEW n \in 1..Len(r)
      PROVE  rest[Len(rest) - Len(r) + n] = s[Len(s) - Len(r) + n]
  <2>1. /\ Len(rest) - Len(r) + n \in 1..(Len(s) - Len(p))
        /\ Len(p) + (Len(rest) - Len(r) + n) = Len(s) - Len(r) + n
    BY <1>1, <1>3, <1>4
  <2> QED BY <1>3, <2>1
<1>5. IsStrictSuffix(r, rest) <=>
         Len(r) < Len(rest) /\ \A n \in 1..Len(r) : r[n] = rest[Len(rest) - Len(r) + n]
  <2>1. rest \in Seq(S)
    BY <1>3
  <2> QED BY ONLY <2>1, r \in Seq(S), StrictBySegment
<1>6. IsStrictSuffix(r, s) <=>
         Len(r) < Len(s) /\ \A n \in 1..Len(r) : r[n] = s[Len(s) - Len(r) + n]
  BY StrictBySegment
<1>7. Len(r) < Len(rest) <=> Len(p) + Len(r) < Len(s)
  BY <1>1, <1>3
<1>8. CASE Len(p) + Len(r) < Len(s)
  <2>1. (\A n \in 1..Len(r) : r[n] = rest[Len(rest) - Len(r) + n])
          <=> (\A n \in 1..Len(r) : r[n] = s[Len(s) - Len(r) + n])
    BY <1>4, <1>8
  <2>2. Len(r) < Len(s)
    BY <1>1, <1>8
  <2> QED BY <1>5, <1>6, <1>7, <1>8, <2>1, <2>2 DEF rest
<1>9. CASE ~(Len(p) + Len(r) < Len(s))
  BY <1>5, <1>7, <1>9 DEF rest
<1> QED BY <1>8, <1>9

\* The longest of some starts (ends) of one string is the one that no other exceeds.
LEMMA LongestIsUnique ==
    ASSUME NEW S, NEW T \in SUBSET Seq(S), NEW u \in Seq(S), NEW s \in T,
           \A t \in T : Len(t) <= Len(s),
           (\A t \in T : IsStrictPrefix(t, u)) \/ (\A t \in T : IsStrictSuffix(t, u))
    PROVE  Longest(T) = s
<1>1. \A t \in T : t \in Seq(S) /\ Len(t) \in Nat
  BY LenProperties
<1> DEFINE best == Longest(T)
<1>2. best \in T /\ \A t \in T : Len(t) <= Len(best)
  BY DEF Longest
<1> HIDE DEF best
<1>3. best \in Seq(S) /\ s \in Seq(S) /\ Len(best) \in Nat /\ Len(s) \in Nat
  BY <1>1, <1>2
<1>4. Len(best) <= Len(s) /\ Len(s) <= Len(best)
  BY <1>2
<1>5. Len(best) = Len(s)
  BY <1>3, <1>4
<1>6. best = s
  <2>1. CASE \A t \in T : IsStrictPrefix(t, u)
    <3>1. IsStrictPrefix(best, u) /\ IsStrictPrefix(s, u)
      BY <1>2, <2>1
    <3> QED BY <1>3, <1>5, <3>1, StrictChain
  <2>2. CASE \A t \in T : IsStrictSuffix(t, u)
    <3>1. IsStrictSuffix(best, u) /\ IsStrictSuffix(s, u)
      BY <1>2, <2>2
    <3> QED BY <1>3, <1>5, <3>1, StrictChain
  <2> QED BY <2>1, <2>2
<1> QED BY <1>6 DEF best

-----------------------------------------------------------------------------
(* Lengths *)

\* The empty string is one segment.
LEMMA OneSegment == Len(Empty) = 1
<1>1. \A x : Len(<<x>>) = 1
  OBVIOUS
<1>2. Len(<<"">>) = 1
  BY ONLY <1>1, Zenon
<1> QED BY <1>2, Zenon DEF Empty

\* The arguments are strings, and their lengths are numbers.
LEMMA Types ==
    ASSUME TypeOK
    PROVE  /\ cn \in Seq(Segment) /\ Empty \in Seq(Segment)
           /\ prefixes \in Seq(String) /\ Len(prefixes) \in Nat
           /\ roles \in RoleSets /\ roles \subseteq Seq(Segment)
           /\ \A r \in roles \cup {Empty} : Chars(r) \in Nat
           /\ \A p \in ToSet(prefixes) : p \in Seq(Segment) /\ Chars(p) \in Nat
<1>1. String \subseteq Seq(Segment)
  BY DEF String
<1>2. cn \in Seq(Segment)
  BY <1>1, StringsAssumption DEF TypeOK
<1>3. Empty \in Seq(Segment)
  BY <1>1, StringsAssumption
<1>4. prefixes \in Seq(String) /\ Len(prefixes) \in Nat
  BY StringsAssumption, LenProperties DEF TypeOK
<1>5. roles \in RoleSets /\ roles \subseteq Seq(Segment)
  BY <1>1, StringsAssumption DEF TypeOK
<1>6. \A r \in roles \cup {Empty} : Chars(r) \in Nat
  <2>1. Chars(Empty) \in Nat
    BY StringsAssumption
  <2>2. \A r \in roles : Chars(r) \in Nat
    BY <1>5, StringsAssumption
  <2> QED BY <2>1, <2>2
<1>7. \A p \in ToSet(prefixes) : p \in Seq(Segment) /\ Chars(p) \in Nat
  <2>1. \A a \in DOMAIN prefixes : prefixes[a] \in String
    BY <1>4, LenProperties, ElementOfSeq
  <2>2. \A p \in ToSet(prefixes) : Chars(p) \in Nat
    BY StringsAssumption DEF TypeOK
  <2> QED BY <1>1, <2>1, <2>2 DEF ToSet
<1> QED BY <1>2, <1>3, <1>4, <1>5, <1>6, <1>7

\* Of two prefixes of one string, the one with more characters has more segments.
LEMMA PrefixLengths ==
    ASSUME NEW list \in PrefixLists, NEW p \in ToSet(list), NEW q \in ToSet(list),
           NEW s \in Seq(Segment), p \in Seq(Segment), q \in Seq(Segment),
           IsStrictPrefix(p, s), IsStrictPrefix(q, s), Chars(q) <= Chars(p)
    PROVE  Len(q) <= Len(p)
<1>1. Len(p) \in Nat /\ Len(q) \in Nat
  BY LenProperties
<1>2. Len(p) < Len(q) => IsStrictPrefix(p, q)
  BY StrictChain
<1>3. IsStrictPrefix(p, q) => Chars(p) < Chars(q)
  BY StringsAssumption
<1>4. Chars(p) \in Nat /\ Chars(q) \in Nat
  BY StringsAssumption
<1> QED BY <1>1, <1>2, <1>3, <1>4

\* So it is with the roles that one string ends with.
LEMMA RoleLengths ==
    ASSUME NEW R \in RoleSets, NEW q \in R, NEW r \in R, NEW s \in Seq(Segment),
           IsStrictSuffix(q, s), IsStrictSuffix(r, s), Chars(q) <= Chars(r)
    PROVE  Len(q) <= Len(r)
<1>1. q \in Seq(Segment) /\ r \in Seq(Segment)
  BY StringsAssumption DEF String
<1>2. Len(q) \in Nat /\ Len(r) \in Nat
  BY <1>1, LenProperties
<1>3. Len(r) < Len(q) => IsStrictSuffix(r, q)
  BY <1>1, StrictChain
<1>4. IsStrictSuffix(r, q) => Chars(r) < Chars(q)
  BY StringsAssumption
<1>5. Chars(q) \in Nat /\ Chars(r) \in Nat
  BY StringsAssumption
<1> QED BY <1>2, <1>3, <1>4, <1>5

\* The sorted list has the prefixes of the spec.
LEMMA SortedPrefixes ==
    ASSUME TypeOK, SortOK
    PROVE  /\ \A a \in 1..Len(prefixes) : sortedPrefixes[a] \in ToSet(prefixes)
           /\ \A p \in ToSet(prefixes) : \E a \in 1..Len(prefixes) : p = sortedPrefixes[a]
<1>1. DOMAIN sortedPrefixes = 1..Len(prefixes)
  BY LenProperties DEF SortOK
<1> QED BY <1>1 DEF SortOK, ToSet

\* Swapping keeps the elements.
LEMMA SwapProperties ==
    ASSUME NEW S, NEW s \in Seq(S), NEW a \in 1..Len(s), NEW b \in 1..Len(s)
    PROVE  /\ Swap(s, a, b) \in Seq(S) /\ Len(Swap(s, a, b)) = Len(s)
           /\ Swap(s, a, b)[a] = s[b] /\ Swap(s, a, b)[b] = s[a]
           /\ \A c \in 1..Len(s) : c # a /\ c # b => Swap(s, a, b)[c] = s[c]
           /\ ToSet(Swap(s, a, b)) = ToSet(s)
<1>1. Len(s) \in Nat /\ s \in [1..Len(s) -> S] /\ DOMAIN s = 1..Len(s)
  BY LenProperties
<1> DEFINE t == Swap(s, a, b)
<1>2. t \in [1..Len(s) -> S]
  BY <1>1 DEF Swap
<1>3. t \in Seq(S)
  BY <1>1, <1>2, SeqDef
<1>4. DOMAIN t = 1..Len(t) /\ DOMAIN t = 1..Len(s) /\ Len(t) \in Nat
  <2> HIDE DEF t
  <2>1. DOMAIN t = 1..Len(t) /\ Len(t) \in Nat
    BY <1>3, LenProperties
  <2>2. DOMAIN t = 1..Len(s)
    BY <1>2
  <2> QED BY <2>1, <2>2
<1>5. Len(t) = Len(s)
  <2> HIDE DEF t
  <2>1. \A m, n \in Nat : 1..m = 1..n => m = n
    OBVIOUS
  <2> QED BY <1>1, <1>4, <2>1
<1>6. t[a] = s[b] /\ t[b] = s[a]
  BY <1>1 DEF Swap
<1>7. \A c \in 1..Len(s) : c # a /\ c # b => t[c] = s[c]
  BY <1>1 DEF Swap
<1>8. ToSet(t) = ToSet(s)
  <2> HIDE DEF t
  <2>1. \A c \in 1..Len(s) : t[c] \in ToSet(s)
    BY <1>1, <1>6, <1>7 DEF ToSet
  <2>2. \A c \in 1..Len(s) : s[c] \in ToSet(t)
    BY <1>4, <1>6, <1>7 DEF ToSet
  <2> QED BY <1>1, <1>4, <2>1, <2>2 DEF ToSet
<1> QED BY <1>3, <1>5, <1>6, <1>7, <1>8

-----------------------------------------------------------------------------
(* The inductive invariant *)

LEMMA InitIInv == Init => IInv
<1> SUFFICES ASSUME Init PROVE IInv
  OBVIOUS
<1>1. prefixes \in Seq(String) /\ Len(prefixes) \in Nat
  BY StringsAssumption, LenProperties DEF Init
<1>2. TypeOK
  BY <1>1 DEF Init, TypeOK
<1>3. SortOK
  <2>1. /\ sortedPrefixes \in Seq(String) /\ Len(sortedPrefixes) = Len(prefixes)
        /\ ToSet(sortedPrefixes) = ToSet(prefixes)
    BY <1>1 DEF Init
  <2>2. i \in 1..(Len(prefixes) + 1) /\ j \in (i + 1)..(Len(prefixes) + 2)
    BY <1>1 DEF Init
  <2>3. \A a, b \in 1..Len(prefixes) :
           a < i /\ a < b => Chars(sortedPrefixes[b]) <= Chars(sortedPrefixes[a])
    BY <1>1 DEF Init
  <2>4. \A b \in 1..Len(prefixes) :
           i < b /\ b < j => Chars(sortedPrefixes[b]) <= Chars(sortedPrefixes[i])
    BY <1>1 DEF Init
  <2> QED BY <2>1, <2>2, <2>3, <2>4 DEF SortOK
<1>4. PrefixOK
  BY <1>1 DEF Init, PrefixOK
<1>5. Outcome
  BY DEF Init, Outcome
<1> QED BY <1>2, <1>3, <1>4, <1>5 DEF Init, IInv

\* The inner loop brings the longest of the prefixes seen to position i.
LEMMA CompareSorts ==
    ASSUME IInv, Compare
    PROVE  SortOK' /\ TypeOK'
<1> DEFINE n == Len(prefixes)
<1>1. /\ TypeOK /\ SortOK /\ n \in Nat
      /\ \A p \in ToSet(prefixes) : Chars(p) \in Nat
  BY Types DEF IInv
<1>2. \A a \in 1..n : Chars(sortedPrefixes[a]) \in Nat
  BY <1>1, SortedPrefixes
<1>3. /\ prefixes' = prefixes /\ i' = i /\ j' = j + 1 /\ j <= n
      /\ cn' = cn /\ roles' = roles /\ k' = k /\ untried' = untried
      /\ matchedRole' = matchedRole /\ pc' = pc
  BY DEF Compare, inputs, attempt
<1>4. i \in 1..n /\ j \in (i + 1)..n
  BY <1>1, <1>3 DEF SortOK
<1>5. CASE Chars(sortedPrefixes[j]) > Chars(sortedPrefixes[i])
  <2>1. sortedPrefixes' = Swap(sortedPrefixes, i, j)
    BY <1>5 DEF Compare
  <2>2. /\ sortedPrefixes \in Seq(String) /\ i \in 1..Len(sortedPrefixes)
        /\ j \in 1..Len(sortedPrefixes)
    BY <1>1, <1>4 DEF SortOK
  <2>3. /\ sortedPrefixes' \in Seq(String) /\ Len(sortedPrefixes') = n
        /\ ToSet(sortedPrefixes') = ToSet(prefixes)
        /\ sortedPrefixes'[i] = sortedPrefixes[j] /\ sortedPrefixes'[j] = sortedPrefixes[i]
        /\ \A c \in 1..n : c # i /\ c # j => sortedPrefixes'[c] = sortedPrefixes[c]
    <3> DEFINE t == Swap(sortedPrefixes, i, j)
    <3>1. /\ t \in Seq(String) /\ Len(t) = Len(sortedPrefixes)
          /\ t[i] = sortedPrefixes[j] /\ t[j] = sortedPrefixes[i]
          /\ \A c \in 1..Len(sortedPrefixes) : c # i /\ c # j => t[c] = sortedPrefixes[c]
          /\ ToSet(t) = ToSet(sortedPrefixes)
      BY <2>2, SwapProperties
    <3>2. /\ Len(sortedPrefixes) = n /\ ToSet(sortedPrefixes) = ToSet(prefixes)
      BY <1>1 DEF SortOK
    <3> HIDE DEF t, n
    <3> QED BY <2>1, <3>1, <3>2 DEF t
  <2>4. ASSUME NEW a \in 1..n, NEW b \in 1..n, a < i, a < b
        PROVE  Chars(sortedPrefixes'[b]) <= Chars(sortedPrefixes'[a])
    <3>1. sortedPrefixes'[a] = sortedPrefixes[a]
      BY <1>4, <2>3, <2>4
    <3>2. PICK c \in 1..n : a < c /\ sortedPrefixes'[b] = sortedPrefixes[c]
      BY <1>4, <2>3, <2>4
    <3>3. Chars(sortedPrefixes[c]) <= Chars(sortedPrefixes[a])
      BY <1>1, <2>4, <3>2 DEF SortOK
    <3> QED BY <3>1, <3>2, <3>3
  <2>5. ASSUME NEW b \in 1..n, i < b, b < j + 1
        PROVE  Chars(sortedPrefixes'[b]) <= Chars(sortedPrefixes'[i])
    <3>1. Chars(sortedPrefixes[i]) \in Nat /\ Chars(sortedPrefixes[j]) \in Nat
      BY <1>2, <1>4
    <3>2. CASE b = j
      BY <1>5, <2>3, <3>1, <3>2
    <3>3. CASE b # j
      <4>1. sortedPrefixes'[b] = sortedPrefixes[b]
        BY <2>3, <2>5, <3>3
      <4>2. b < j
        BY <1>4, <2>5, <3>3
      <4>3. Chars(sortedPrefixes[b]) <= Chars(sortedPrefixes[i])
        BY <1>1, <2>5, <4>2 DEF SortOK
      <4>4. Chars(sortedPrefixes[b]) \in Nat
        BY <1>2
      <4> QED BY <1>5, <2>3, <3>1, <4>1, <4>3, <4>4
    <3> QED BY <3>2, <3>3
  <2>6. i' \in 1..(n + 1) /\ j' \in (i' + 1)..(n + 2)
    BY <1>1, <1>3, <1>4
  <2>7. SortOK'
    BY <1>3, <2>3, <2>4, <2>5, <2>6 DEF SortOK
  <2>8. TypeOK'
    BY <1>1, <1>3, <1>4, <2>3 DEF TypeOK
  <2> QED BY <2>7, <2>8
<1>6. CASE ~(Chars(sortedPrefixes[j]) > Chars(sortedPrefixes[i]))
  <2>1. sortedPrefixes' = sortedPrefixes
    BY <1>6 DEF Compare
  <2>2. ASSUME NEW b \in 1..n, i < b, b < j + 1
        PROVE  Chars(sortedPrefixes[b]) <= Chars(sortedPrefixes[i])
    <3>1. CASE b = j
      <4>1. Chars(sortedPrefixes[i]) \in Nat /\ Chars(sortedPrefixes[j]) \in Nat
        BY <1>2, <1>4
      <4> QED BY <1>6, <3>1, <4>1
    <3>2. CASE b # j
      <4>1. b < j
        BY <1>4, <2>2, <3>2
      <4> QED BY <1>1, <2>2, <4>1 DEF SortOK
    <3> QED BY <3>1, <3>2
  <2>3. i' \in 1..(n + 1) /\ j' \in (i' + 1)..(n + 2)
    BY <1>1, <1>3, <1>4
  <2>4. SortOK'
    BY <1>1, <1>3, <2>1, <2>2, <2>3 DEF SortOK
  <2>5. TypeOK'
    BY <1>1, <1>3, <1>4, <2>1 DEF TypeOK, SortOK
  <2> QED BY <2>4, <2>5
<1> QED BY <1>5, <1>6

LEMMA CompareIInv == ASSUME IInv, Compare PROVE IInv'
<1>1. SortOK' /\ TypeOK'
  BY CompareSorts
<1>2. pc = "sort" /\ UNCHANGED <<inputs, i, k, attempt, pc, result>> /\ j' = j + 1
  BY DEF Compare
<1>3. PrefixOK'
  <2>1. k = 1 /\ k' = 1 /\ prefixes' = prefixes /\ Len(prefixes) \in Nat
    BY <1>2, Types DEF IInv, PrefixOK, inputs
  <2>2. \A a \in 1..Len(prefixes) : ~(a < k')
    BY <2>1
  <2>3. pc' = "sort"
    BY <1>2
  <2> QED BY <2>1, <2>2, <2>3 DEF PrefixOK
<1>4. result = NotParsed /\ result' = NotParsed /\ pc' = "sort"
  BY <1>2 DEF IInv, Outcome
<1>5. Outcome'
  BY <1>4 DEF Outcome
<1> QED BY <1>1, <1>3, <1>4, <1>5 DEF IInv

\* The list from position i + 1 on is sorted next.
LEMMA EndInnerIInv == ASSUME IInv, EndInner PROVE IInv'
<1> DEFINE n == Len(prefixes)
<1>1. /\ TypeOK /\ SortOK /\ PrefixOK /\ Outcome /\ n \in Nat
  BY Types DEF IInv
<1>2. /\ pc = "sort" /\ j > n /\ i < n /\ i' = i + 1 /\ j' = i + 2
      /\ UNCHANGED <<inputs, sortedPrefixes, k, attempt, pc, result>>
  BY DEF EndInner
<1>3. UNCHANGED <<cn, prefixes, roles, untried, matchedRole, namespace, maxRoleLength>>
  BY <1>2 DEF inputs, attempt
<1>4. i \in 1..n /\ j \in Int
  BY <1>1, <1>2 DEF SortOK
<1>5. ASSUME NEW a \in 1..n, NEW b \in 1..n, a < i + 1, a < b
      PROVE  Chars(sortedPrefixes[b]) <= Chars(sortedPrefixes[a])
  <2>1. CASE a < i
    BY <1>1, <1>5, <2>1 DEF SortOK
  <2>2. CASE a = i
    <3>1. i < b /\ b < j
      BY <1>2, <1>4, <1>5, <2>2
    <3> QED BY <1>1, <2>2, <3>1 DEF SortOK
  <2> QED BY <1>4, <1>5, <2>1, <2>2
<1>6. i' \in 1..(n + 1) /\ j' \in (i' + 1)..(n + 2) /\ j' \in 2..(n + 2)
  BY <1>1, <1>2, <1>4
<1>7. \A b \in 1..n : ~(i' < b /\ b < j')
  BY <1>2, <1>4
<1>8. SortOK'
  BY <1>1, <1>2, <1>3, <1>5, <1>6, <1>7 DEF SortOK
<1>9. TypeOK'
  BY <1>1, <1>2, <1>3, <1>6 DEF TypeOK
<1>10. PrefixOK'
  BY <1>1, <1>2, <1>3 DEF PrefixOK
<1>11. Outcome' /\ pc' = "sort"
  BY <1>1, <1>2 DEF Outcome
<1> QED BY <1>8, <1>9, <1>10, <1>11 DEF IInv

LEMMA EndSortIInv == ASSUME IInv, EndSort PROVE IInv'
<1>1. TypeOK /\ SortOK /\ PrefixOK /\ Outcome
  BY DEF IInv
<1>2. /\ pc = "sort" /\ j > Len(prefixes) /\ i >= Len(prefixes) /\ pc' = "prefix"
      /\ UNCHANGED <<cn, prefixes, roles, sortedPrefixes, i, j, k, untried, matchedRole,
                      namespace, maxRoleLength, result>>
  BY DEF EndSort, inputs, attempt
<1>3. SortOK' /\ TypeOK'
  BY <1>1, <1>2 DEF SortOK, TypeOK
<1>4. PrefixOK'
  BY <1>1, <1>2 DEF PrefixOK
<1>5. Outcome'
  BY <1>1, <1>2 DEF Outcome
<1> QED BY <1>2, <1>3, <1>4, <1>5 DEF IInv

\* The next prefix is tried, or is none of the CN's and so does not parse.
LEMMA TryPrefixIInv == ASSUME IInv, TryPrefix PROVE IInv'
<1> DEFINE n == Len(prefixes)
<1>1. /\ TypeOK /\ SortOK /\ PrefixOK /\ Outcome /\ n \in Nat
  BY Types DEF IInv
<1>2. /\ pc = "prefix" /\ k <= n /\ matchedRole' = Empty /\ namespace' = Empty
      /\ maxRoleLength' = 0
      /\ UNCHANGED <<cn, prefixes, roles, sortedPrefixes, i, j, result>>
  BY DEF TryPrefix, inputs
<1>3. SortOK'
  BY <1>1, <1>2 DEF SortOK
<1>4. k \in 1..n /\ result' = NotParsed
  BY <1>1, <1>2 DEF PrefixOK, Outcome
<1>5. CASE IsStrictPrefix(sortedPrefixes[k], cn)
  <2>1. pc' = "roles" /\ untried' = roles /\ k' = k
    BY <1>5 DEF TryPrefix
  <2>2. TypeOK'
    BY <1>1, <1>2, <2>1 DEF TypeOK, SortOK
  <2>3. PrefixOK'
    BY <1>1, <1>2, <2>1 DEF PrefixOK
  <2>4. Outcome'
    BY <1>4, <2>1 DEF Outcome
  <2>5. Tried' = {}
    BY <1>2, <2>1 DEF Tried, EndsWithRole
  <2>6. AttemptOK'
    BY <1>2, <1>5, <2>1, <2>5, StringsAssumption DEF AttemptOK
  <2> QED BY <1>3, <2>2, <2>3, <2>4, <2>6 DEF IInv
<1>6. CASE ~IsStrictPrefix(sortedPrefixes[k], cn)
  <2>1. pc' = pc /\ k' = k + 1 /\ untried' = untried
    BY <1>6 DEF TryPrefix
  <2>2. TypeOK'
    BY <1>1, <1>2, <1>4, <2>1 DEF TypeOK, SortOK
  <2>3. parsePermissionString(cn, sortedPrefixes[k], roles) = NotParsed
    BY <1>6 DEF parsePermissionString
  <2>4. \A a \in 1..n : a < k + 1 => a < k \/ a = k
    BY <1>4
  <2>5. \A a \in 1..n :
           a < k' => parsePermissionString(cn, sortedPrefixes[a], roles) = NotParsed
    BY <1>1, <2>1, <2>3, <2>4 DEF PrefixOK
  <2>6. k' \in 1..(n + 1)
    BY <1>1, <1>4, <2>1
  <2>7. PrefixOK'
    BY <1>1, <1>2, <2>1, <2>5, <2>6 DEF PrefixOK
  <2>8. Outcome' /\ pc' = "prefix"
    BY <1>2, <1>4, <2>1 DEF Outcome
  <2> QED BY <1>3, <2>2, <2>7, <2>8 DEF IInv
<1> QED BY <1>5, <1>6

\* What an attempt looks at.
LEMMA AttemptTypes ==
    ASSUME TypeOK, SortOK, AttemptOK, k \in 1..Len(prefixes)
    PROVE  /\ sortedPrefixes[k] \in ToSet(prefixes) /\ sortedPrefixes[k] \in Seq(Segment)
           /\ Rest \in Seq(Segment)
           /\ Len(sortedPrefixes[k]) < Len(cn) /\ Len(Rest) = Len(cn) - Len(sortedPrefixes[k])
<1>1. sortedPrefixes[k] \in ToSet(prefixes) /\ sortedPrefixes[k] \in Seq(Segment)
  BY SortedPrefixes, Types
<1>2. cn \in Seq(Segment)
  BY Types
<1>3. Len(sortedPrefixes[k]) < Len(cn)
  BY <1>1, <1>2, StrictBySegment DEF AttemptOK
<1>4. Len(sortedPrefixes[k]) \in Nat /\ Len(cn) \in Nat
  BY <1>1, <1>2, LenProperties
<1>5. Len(sortedPrefixes[k]) <= Len(cn)
  BY <1>3, <1>4
<1>6. Rest \in Seq(Segment) /\ Len(Rest) = Len(cn) - Len(sortedPrefixes[k])
  BY <1>1, <1>2, <1>5, TrimBySegment DEF Rest
<1> QED BY <1>1, <1>3, <1>6

\* A longer match replaces a shorter one, in whatever order they come.
LEMMA TryRoleIInv == ASSUME IInv, NEW r \in roles, TryRole(r) PROVE IInv'
<1> DEFINE n == Len(prefixes)
<1>1. /\ TypeOK /\ SortOK /\ PrefixOK /\ Outcome /\ AttemptOK /\ n \in Nat
  BY Types DEF IInv, TryRole
<1>2. /\ pc = "roles" /\ pc' = "roles" /\ r \in untried /\ untried' = untried \ {r}
      /\ UNCHANGED <<cn, prefixes, roles, sortedPrefixes, i, j, k, result>>
  BY DEF TryRole, inputs
<1>3. SortOK' /\ PrefixOK' /\ Outcome'
  BY <1>1, <1>2 DEF SortOK, PrefixOK, Outcome
<1>4. k \in 1..n
  BY <1>1 DEF AttemptOK, PrefixOK
<1>5. Rest \in Seq(Segment) /\ roles \in RoleSets /\ roles \subseteq Seq(Segment)
  BY <1>1, <1>4, AttemptTypes, Types
<1>6. Rest' = Rest /\ roles \ untried' = (roles \ untried) \cup {r}
  BY <1>2 DEF Rest
<1>7. Tried' = Tried \cup EndsWithRole(Rest, {r})
  BY <1>2, <1>6 DEF Tried, EndsWithRole
<1>8. k' <= Len(prefixes') /\ IsStrictPrefix(sortedPrefixes'[k'], cn') /\ untried' \subseteq roles'
  BY <1>1, <1>2 DEF AttemptOK
<1>9. /\ \A q \in roles \cup {Empty} : Chars(q) \in Nat
      /\ Chars(Empty) = 0 /\ (Chars(r) = 0 => r = Empty)
  BY <1>1, <1>5, Types, StringsAssumption
<1>10. matchedRole \in roles \cup {Empty} /\ Chars(matchedRole) \in Nat /\ Chars(r) \in Nat
       /\ maxRoleLength = Chars(matchedRole)
  BY <1>1, <1>9 DEF TypeOK, AttemptOK
<1>11. \A q \in Tried : /\ q \in roles /\ q # Empty /\ IsStrictSuffix(q, Rest)
                        /\ q \in Seq(Segment) /\ Len(q) \in Nat
  BY <1>5, LenProperties DEF Tried, EndsWithRole
<1>12. CASE IsStrictSuffix(r, Rest) /\ Chars(r) > maxRoleLength
  <2>1. /\ matchedRole' = r /\ namespace' = TrimSuffix(Rest, r) /\ maxRoleLength' = Chars(r)
    BY <1>12 DEF TryRole, Rest
  <2>2. r # Empty
    BY <1>9, <1>10, <1>12
  <2>3. r \in Tried'
    BY <1>7, <1>12, <2>2 DEF EndsWithRole
  <2>4. ASSUME NEW q \in Tried
        PROVE  Len(q) <= Len(r)
    <3>1. matchedRole \in Tried /\ Len(q) <= Len(matchedRole)
      BY <1>1, <2>4 DEF AttemptOK
    <3>2. Chars(matchedRole) <= Chars(r)
      BY <1>10, <1>12
    <3>3. matchedRole \in roles /\ IsStrictSuffix(matchedRole, Rest)
      BY <1>11, <3>1
    <3>4. Len(matchedRole) <= Len(r)
      BY <1>5, <1>12, <3>2, <3>3, RoleLengths
    <3>5. Len(q) \in Nat /\ Len(matchedRole) \in Nat /\ Len(r) \in Nat
      BY <1>5, <1>11, <3>1, LenProperties
    <3> QED BY <3>1, <3>4, <3>5
  <2>5. Len(r) <= Len(r)
    BY <1>5, LenProperties
  <2>6. \A q \in Tried' : matchedRole' # Empty /\ Len(q) <= Len(matchedRole')
    BY <1>7, <2>1, <2>2, <2>4, <2>5 DEF EndsWithRole
  <2>7. AttemptOK'
    BY <1>6, <1>8, <2>1, <2>3, <2>6 DEF AttemptOK
  <2>8. TypeOK'
    BY <1>1, <1>2, <2>1 DEF TypeOK
  <2> QED BY <1>3, <2>7, <2>8 DEF IInv
<1>13. CASE ~(IsStrictSuffix(r, Rest) /\ Chars(r) > maxRoleLength)
  <2>1. UNCHANGED <<matchedRole, namespace, maxRoleLength>>
    BY <1>13 DEF TryRole, Rest
  <2>2. ASSUME NEW q \in EndsWithRole(Rest, {r})
        PROVE  matchedRole # Empty /\ Len(q) <= Len(matchedRole)
    <3>1. q = r /\ r # Empty /\ IsStrictSuffix(r, Rest)
      BY <2>2 DEF EndsWithRole
    <3>2. Chars(r) <= Chars(matchedRole)
      BY <1>10, <1>13, <3>1
    <3>3. Chars(matchedRole) # 0
      BY <1>9, <1>10, <3>1, <3>2
    <3>4. matchedRole # Empty
      BY <1>9, <3>3
    <3>5. matchedRole \in roles /\ IsStrictSuffix(matchedRole, Rest)
      BY <1>1, <1>11, <3>4 DEF AttemptOK
    <3>6. Len(r) <= Len(matchedRole)
      BY <1>5, <3>1, <3>2, <3>5, RoleLengths
    <3> QED BY <3>1, <3>4, <3>6
  <2>3. \A q \in Tried' : matchedRole # Empty /\ Len(q) <= Len(matchedRole)
    BY <1>1, <1>7, <2>2 DEF AttemptOK
  <2>4. matchedRole # Empty => matchedRole \in Tried' /\ namespace = TrimSuffix(Rest, matchedRole)
    BY <1>1, <1>7 DEF AttemptOK
  <2>5. AttemptOK'
    BY <1>1, <1>6, <1>8, <2>1, <2>3, <2>4 DEF AttemptOK
  <2>6. TypeOK'
    BY <1>1, <1>2, <2>1 DEF TypeOK
  <2> QED BY <1>3, <2>5, <2>6 DEF IInv
<1> QED BY <1>12, <1>13

\* Once every role has been tried, matchedRole and namespace are what the operator
\* makes of this prefix.
LEMMA AttemptParses ==
    ASSUME TypeOK, SortOK, AttemptOK, k \in 1..Len(prefixes), untried = {}
    PROVE  /\ matchedRole # Empty => /\ matchedRole \in EndsWithRole(Rest, roles)
                                    /\ Longest(EndsWithRole(Rest, roles)) = matchedRole
           /\ parsePermissionString(cn, sortedPrefixes[k], roles) =
                 IF matchedRole = Empty \/ namespace = Empty THEN NotParsed
                 ELSE [namespace |-> namespace, role |-> matchedRole]
<1>1. Tried = EndsWithRole(Rest, roles)
  BY DEF Tried, EndsWithRole
<1>2. Rest \in Seq(Segment) /\ roles \subseteq Seq(Segment)
  BY AttemptTypes, Types
<1>3. ASSUME matchedRole # Empty
      PROVE  /\ matchedRole \in EndsWithRole(Rest, roles)
             /\ Longest(EndsWithRole(Rest, roles)) = matchedRole
             /\ namespace = TrimSuffix(Rest, matchedRole)
  <2>1. matchedRole \in Tried /\ namespace = TrimSuffix(Rest, matchedRole)
    BY <1>3 DEF AttemptOK
  <2>2. \A r \in Tried : Len(r) <= Len(matchedRole)
    BY DEF AttemptOK
  <2>3. Tried \in SUBSET Seq(Segment) /\ \A r \in Tried : IsStrictSuffix(r, Rest)
    BY <1>2 DEF Tried, EndsWithRole
  <2>4. Longest(Tried) = matchedRole
    BY <1>2, <2>1, <2>2, <2>3, LongestIsUnique
  <2> QED BY <1>1, <2>1, <2>4
<1>4. IsStrictPrefix(sortedPrefixes[k], cn)
  BY DEF AttemptOK
<1>5. CASE matchedRole = Empty
  <2>1. EndsWithRole(Rest, roles) = {}
    BY <1>1, <1>5 DEF AttemptOK
  <2> QED BY <1>5, <2>1 DEF parsePermissionString, Rest
<1>6. CASE matchedRole # Empty
  <2>1. EndsWithRole(Rest, roles) # {}
    BY <1>3, <1>6
  <2> QED BY <1>3, <1>4, <1>6, <2>1 DEF parsePermissionString, Rest
<1> QED BY <1>3, <1>5, <1>6

LEMMA EndRolesIInv == ASSUME IInv, EndRoles PROVE IInv'
<1> DEFINE n == Len(prefixes)
<1>1. /\ TypeOK /\ SortOK /\ PrefixOK /\ Outcome /\ AttemptOK /\ n \in Nat
  BY Types DEF IInv, EndRoles
<1>2. /\ pc = "roles" /\ untried = {}
      /\ UNCHANGED <<cn, prefixes, roles, sortedPrefixes, i, j, untried, matchedRole,
                      namespace, maxRoleLength>>
  BY DEF EndRoles, inputs, attempt
<1>3. SortOK'
  BY <1>1, <1>2 DEF SortOK
<1>4. k \in 1..n /\ result = NotParsed
  BY <1>1, <1>2 DEF AttemptOK, PrefixOK, Outcome
<1>5. parsePermissionString(cn, sortedPrefixes[k], roles) =
         IF matchedRole = Empty \/ namespace = Empty THEN NotParsed
         ELSE [namespace |-> namespace, role |-> matchedRole]
  BY <1>1, <1>2, <1>4, AttemptParses
<1>6. CASE matchedRole = Empty \/ namespace = Empty
  <2>1. pc' = "prefix" /\ k' = k + 1 /\ result' = result
    BY <1>6 DEF EndRoles
  <2>2. TypeOK'
    BY <1>1, <1>2, <1>4, <2>1 DEF TypeOK
  <2>3. \A a \in 1..n : a < k + 1 => a < k \/ a = k
    BY <1>4
  <2>4. \A a \in 1..n :
           a < k' => parsePermissionString(cn, sortedPrefixes[a], roles) = NotParsed
    BY <1>1, <1>5, <1>6, <2>1, <2>3 DEF PrefixOK
  <2>5. k' \in 1..(n + 1)
    BY <1>1, <1>4, <2>1
  <2>6. PrefixOK'
    BY <1>1, <1>2, <2>1, <2>4, <2>5 DEF PrefixOK
  <2>7. Outcome'
    BY <1>4, <2>1 DEF Outcome
  <2> QED BY <1>3, <2>1, <2>2, <2>6, <2>7 DEF IInv
<1>7. CASE matchedRole # Empty /\ namespace # Empty
  <2>1. pc' = "done" /\ k' = k /\ result' = [namespace |-> namespace, role |-> matchedRole]
    BY <1>7 DEF EndRoles
  <2>2. TypeOK'
    BY <1>1, <1>2, <2>1 DEF TypeOK
  <2>3. PrefixOK'
    BY <1>1, <1>2, <2>1 DEF PrefixOK
  <2>4. AttemptOK'
    <3>1. Tried' = Tried
      BY <1>2, <2>1 DEF Tried, Rest
    <3>2. Rest' = Rest
      BY <1>2, <2>1 DEF Rest
    <3> QED BY <1>1, <1>2, <2>1, <3>1, <3>2 DEF AttemptOK
  <2>5. result' # NotParsed
    <3>1. result'.role = matchedRole /\ NotParsed.role = Empty
      BY <2>1 DEF NotParsed
    <3> QED BY <1>7, <3>1
  <2>6. Outcome'
    BY <1>2, <1>7, <2>1, <2>4, <2>5 DEF Outcome
  <2> QED BY <1>3, <2>1, <2>2, <2>3, <2>6 DEF IInv
<1> QED BY <1>6, <1>7

LEMMA NoMatchIInv == ASSUME IInv, NoMatch PROVE IInv'
<1>1. TypeOK /\ SortOK /\ PrefixOK /\ Outcome
  BY DEF IInv
<1>2. /\ pc = "prefix" /\ k > Len(prefixes) /\ pc' = "done"
      /\ UNCHANGED <<cn, prefixes, roles, sortedPrefixes, i, j, k, untried, matchedRole,
                      namespace, maxRoleLength, result>>
  BY DEF NoMatch, inputs, attempt
<1>3. SortOK' /\ TypeOK'
  BY <1>1, <1>2 DEF SortOK, TypeOK
<1>4. PrefixOK'
  BY <1>1, <1>2 DEF PrefixOK
<1>5. result = NotParsed
  BY <1>1, <1>2 DEF Outcome
<1>6. Outcome'
  BY <1>2, <1>5 DEF Outcome
<1> QED BY <1>2, <1>3, <1>4, <1>6 DEF IInv

LEMMA StutterIInv == ASSUME IInv, UNCHANGED vars PROVE IInv'
<1>1. UNCHANGED <<cn, prefixes, roles, sortedPrefixes, i, j, k, untried, matchedRole,
                  namespace, maxRoleLength, pc, result>>
  BY DEF vars, inputs, attempt
<1>2. SortOK' <=> SortOK
  BY <1>1 DEF SortOK
<1>3. (TypeOK' <=> TypeOK) /\ (PrefixOK' <=> PrefixOK)
  BY <1>1 DEF TypeOK, PrefixOK
<1>4. AttemptOK' <=> AttemptOK
  BY <1>1 DEF AttemptOK, Tried, Rest
<1>5. Outcome' <=> Outcome
  BY <1>1, <1>4 DEF Outcome
<1> QED BY <1>1, <1>2, <1>3, <1>4, <1>5 DEF IInv

\* Every step keeps the invariant.
THEOREM Invariance == Spec => []IInv
<1>1. Init => IInv
  BY InitIInv
<1>2. IInv /\ [Next]_vars => IInv'
  <2> SUFFICES ASSUME IInv, [Next]_vars PROVE IInv'
    OBVIOUS
  <2>1. CASE Compare
    BY <2>1, CompareIInv
  <2>2. CASE EndInner
    BY <2>2, EndInnerIInv
  <2>3. CASE EndSort
    BY <2>3, EndSortIInv
  <2>4. CASE TryPrefix
    BY <2>4, TryPrefixIInv
  <2>5. ASSUME NEW r \in roles, TryRole(r)
        PROVE  IInv'
    BY <2>5, TryRoleIInv
  <2>6. CASE EndRoles
    BY <2>6, EndRolesIInv
  <2>7. CASE NoMatch
    BY <2>7, NoMatchIInv
  <2>8. CASE UNCHANGED vars
    BY <2>8, StutterIInv
  <2> QED BY <2>1, <2>2, <2>3, <2>4, <2>5, <2>6, <2>7, <2>8 DEF Next
<1> QED BY <1>1, <1>2, PTL DEF Spec

\* The indices stay within the lists, the sort loses no prefix and invents none,
\* and only roles of the mapping are matched.
THEOREM TypeCorrect == Spec => []TypeOK
<1>1. IInv => TypeOK
  BY DEF IInv
<1> QED BY <1>1, Invariance, PTL

-----------------------------------------------------------------------------
(* What the loops return *)

\* Of the prefixes that parse, the one that was taken is the longest.
LEMMA TakenIsLongest ==
    ASSUME IInv, result # NotParsed
    PROVE  /\ k \in 1..Len(prefixes) /\ sortedPrefixes[k] \in ToSet(prefixes)
           /\ parsePermissionString(cn, sortedPrefixes[k], roles) = result
           /\ \A p \in ToSet(prefixes) :
                 /\ IsStrictPrefix(p, cn)
                 /\ parsePermissionString(cn, p, roles) # NotParsed
                 => Len(p) <= Len(sortedPrefixes[k])
<1>1. /\ TypeOK /\ SortOK /\ PrefixOK /\ AttemptOK /\ untried = {} /\ pc = "done"
      /\ matchedRole # Empty /\ namespace # Empty
      /\ result = [namespace |-> namespace, role |-> matchedRole]
  <2>1. pc \in {"sort", "prefix", "roles", "done"}
    BY DEF IInv, TypeOK
  <2> QED BY <2>1 DEF IInv, Outcome
<1>2. k \in 1..Len(prefixes)
  BY <1>1, Types DEF PrefixOK, AttemptOK
<1>3. parsePermissionString(cn, sortedPrefixes[k], roles) = result
  BY <1>1, <1>2, AttemptParses
<1>4. sortedPrefixes[k] \in ToSet(prefixes) /\ sortedPrefixes[k] \in Seq(Segment)
  BY <1>1, <1>2, AttemptTypes
<1>5. ASSUME NEW p \in ToSet(prefixes), IsStrictPrefix(p, cn),
             parsePermissionString(cn, p, roles) # NotParsed
      PROVE  Len(p) <= Len(sortedPrefixes[k])
  <2>1. PICK a \in 1..Len(prefixes) : p = sortedPrefixes[a]
    BY <1>1, SortedPrefixes
  <2>2. ~(a < k)
    BY <1>1, <1>5, <2>1 DEF PrefixOK
  <2>3. CASE a = k
    <3>1. Len(p) \in Nat
      BY <1>4, <2>1, <2>3, LenProperties
    <3> QED BY <2>1, <2>3, <3>1
  <2>4. CASE k < a
    <3>1. k < i
      BY <1>1, <1>2, <2>4 DEF PrefixOK, SortOK
    <3>2. Chars(p) <= Chars(sortedPrefixes[k])
      BY <1>1, <1>2, <2>1, <2>4, <3>1 DEF SortOK
    <3>3. cn \in Seq(Segment) /\ p \in Seq(Segment) /\ prefixes \in PrefixLists
      BY <1>1, Types DEF TypeOK
    <3>4. IsStrictPrefix(sortedPrefixes[k], cn)
      BY <1>1 DEF AttemptOK
    <3> QED BY <1>4, <1>5, <3>2, <3>3, <3>4, PrefixLengths
  <2> QED BY <1>2, <2>2, <2>3, <2>4
<1> QED BY <1>2, <1>3, <1>4, <1>5

\* Nothing is returned only if no prefix parses.
LEMMA NothingParses ==
    ASSUME IInv, pc = "done", result = NotParsed
    PROVE  \A p \in ToSet(prefixes) : parsePermissionString(cn, p, roles) = NotParsed
<1>1. TypeOK /\ SortOK /\ PrefixOK /\ k > Len(prefixes) /\ Len(prefixes) \in Nat
  BY Types DEF IInv, Outcome
<1> SUFFICES ASSUME NEW p \in ToSet(prefixes)
             PROVE  parsePermissionString(cn, p, roles) = NotParsed
  OBVIOUS
<1>2. PICK a \in 1..Len(prefixes) : p = sortedPrefixes[a]
  BY <1>1, SortedPrefixes
<1>3. a < k
  BY <1>1 DEF PrefixOK
<1> QED BY <1>1, <1>2, <1>3 DEF PrefixOK

\* LoopsParse: whatever the order of the prefixes in the spec and of the roles in the
\* map, the loops return what the operator returns that Reconciler uses.
THEOREM LoopsComputeOperator == Spec => []LoopsParse
<1>1. ASSUME IInv, pc = "done"
      PROVE  result = parsePermissionStringWithPrefixes(cn, ToSet(prefixes), roles)
  <2> DEFINE parses ==
        {p \in ToSet(prefixes) : parsePermissionString(cn, p, roles) # NotParsed}
  <2>1. CASE result = NotParsed
    <3>1. parses = {}
      BY <1>1, <2>1, NothingParses
    <3> QED BY <2>1, <3>1 DEF parsePermissionStringWithPrefixes
  <2>2. CASE result # NotParsed
    <3>1. /\ sortedPrefixes[k] \in parses
          /\ parsePermissionString(cn, sortedPrefixes[k], roles) = result
      BY <1>1, <2>2, TakenIsLongest
    <3>2. \A p \in parses : IsStrictPrefix(p, cn)
      BY DEF parsePermissionString
    <3>3. \A p \in parses : Len(p) <= Len(sortedPrefixes[k])
      BY <1>1, <2>2, <3>2, TakenIsLongest
    <3>4. cn \in Seq(Segment) /\ parses \in SUBSET Seq(Segment)
      BY <1>1, Types DEF IInv
    <3>5. Longest(parses) = sortedPrefixes[k]
      <4> HIDE DEF parses
      <4> QED BY <3>1, <3>2, <3>3, <3>4, LongestIsUnique
    <3>6. parses # {}
      BY <3>1
    <3> QED BY <3>1, <3>5, <3>6 DEF parsePermissionStringWithPrefixes
  <2> QED BY <2>1, <2>2
<1>2. IInv => LoopsParse
  BY <1>1 DEF LoopsParse
<1> QED BY <1>2, Invariance, PTL

\* Concatenation, named so that lemmas about it apply without being unfolded.
Cat(s, t) == s \o t

\* The middle of three strings can be read off their concatenation.
LEMMA CatProperties ==
    ASSUME NEW S, NEW p \in Seq(S), NEW m \in Seq(S), NEW r \in Seq(S)
    PROVE  Cat(p, Cat(m, r)) = Cat(Cat(p, m), r)
BY ConcatAssociative DEF Cat

LEMMA CatMiddle ==
    ASSUME NEW S, NEW p \in Seq(S), NEW m \in Seq(S), NEW e \in Seq(S), NEW r \in Seq(S),
           Cat(Cat(p, m), r) = Cat(Cat(p, e), r)
    PROVE  m = e
<1>1. p \o m \in Seq(S) /\ p \o e \in Seq(S)
  BY ConcatProperties
<1>2. (p \o m) \o r = (p \o e) \o r => p \o m = p \o e
  BY <1>1, ConcatSimplifications
<1>3. p \o m = p \o e => m = e
  BY ConcatSimplifications
<1> QED BY <1>2, <1>3 DEF Cat

\* A string cut into a start, a middle and an end is their concatenation, and has
\* another middle only if that is the same.
LEMMA CutReading ==
    ASSUME NEW S, NEW s \in Seq(S), NEW p \in Seq(S), NEW r \in Seq(S), NEW e \in Seq(S),
           IsStrictPrefix(p, s), IsStrictSuffix(r, TrimPrefix(s, p))
    PROVE  /\ s = Cat(Cat(p, TrimSuffix(TrimPrefix(s, p), r)), r)
           /\ TrimPrefix(s, p) = Cat(TrimSuffix(TrimPrefix(s, p), r), r)
           /\ s = Cat(Cat(p, e), r) <=> TrimSuffix(TrimPrefix(s, p), r) = e
<1>1. Len(p) \in Nat /\ Len(s) \in Nat /\ Len(p) < Len(s)
  BY StrictBySegment, LenProperties
<1>2. PICK rest \in Seq(S) : rest = TrimPrefix(s, p) /\ s = Cat(p, rest)
  BY <1>1, TrimBySegment, TrimIsInverse DEF Cat
<1>3. IsStrictSuffix(r, rest)
  BY <1>2
<1>4. Len(r) \in Nat /\ Len(rest) \in Nat /\ Len(r) < Len(rest)
  BY <1>3, StrictBySegment, LenProperties
<1>5. PICK m \in Seq(S) : m = TrimSuffix(rest, r) /\ rest = Cat(m, r)
  BY <1>3, <1>4, TrimBySegment, TrimIsInverse DEF Cat
<1>6. s = Cat(Cat(p, m), r)
  BY <1>2, <1>5, CatProperties
<1>7. s = Cat(Cat(p, e), r) => m = e
  BY <1>6, CatMiddle
<1> QED BY <1>2, <1>5, <1>6, <1>7

\* A reading is a prefix of the spec and a role of the mapping that the rest ends with.
LEMMA ReadingsOfRest ==
    ASSUME TypeOK, NEW p \in ToSet(prefixes), NEW r
    PROVE  <<p, r>> \in Readings <=>
              IsStrictPrefix(p, cn) /\ r \in EndsWithRole(TrimPrefix(cn, p), roles)
<1>1. cn \in Seq(Segment) /\ p \in Seq(Segment) /\ roles \subseteq Seq(Segment)
  BY Types
<1>2. CASE r \in roles \ {Empty}
  <2>1. r \in Seq(Segment)
    BY <1>1, <1>2
  <2>2. <<p, r>> \in Readings <=>
           Len(p) + Len(r) < Len(cn) /\ IsStrictPrefix(p, cn) /\ IsStrictSuffix(r, cn)
    BY <1>2 DEF Readings
  <2>3. IsStrictPrefix(p, cn) =>
           (IsStrictSuffix(r, TrimPrefix(cn, p)) <=>
              Len(p) + Len(r) < Len(cn) /\ IsStrictSuffix(r, cn))
    BY <1>1, <2>1, EndOfRest
  <2> QED BY <1>2, <2>2, <2>3 DEF EndsWithRole
<1>3. CASE r \notin roles \ {Empty}
  BY <1>3 DEF Readings, EndsWithRole
<1> QED BY <1>2, <1>3

\* What the reference admits, the operator parses.
LEMMA ReadingParses ==
    ASSUME TypeOK, NEW x \in WithNamespace
    PROVE  LET rest == TrimPrefix(cn, x[1])
           IN  /\ x[1] \in ToSet(prefixes) /\ IsStrictPrefix(x[1], cn) /\ x = <<x[1], x[2]>>
               /\ x[2] \in EndsWithRole(rest, roles)
               /\ cn = x[1] \o TrimSuffix(rest, x[2]) \o x[2]
               /\ parsePermissionString(cn, x[1], roles) # NotParsed
               /\ parsePermissionString(cn, x[1], roles) =
                     [namespace |-> TrimSuffix(rest, x[2]), role |-> x[2]]
<1> DEFINE rest == TrimPrefix(cn, x[1])
           ends == EndsWithRole(rest, roles)
<1>1. /\ x \in Readings /\ cn # x[1] \o Empty \o x[2]
      /\ \A y \in Readings : x[1] = y[1] => Len(y[2]) <= Len(x[2])
  BY DEF WithNamespace, LongestRole
<1>2. x[1] \in ToSet(prefixes) /\ x = <<x[1], x[2]>> /\ x[2] \in roles /\ x[2] # Empty
  BY <1>1 DEF Readings
<1>3. IsStrictPrefix(x[1], cn) /\ x[2] \in ends
  <2>1. <<x[1], x[2]>> \in Readings
    BY <1>1, <1>2
  <2> QED BY <1>2, <2>1, ReadingsOfRest
<1>4. ASSUME NEW r \in ends
      PROVE  Len(r) <= Len(x[2])
  <2>1. <<x[1], r>> \in Readings
    BY <1>2, <1>3, <1>4, ReadingsOfRest
  <2> QED BY <1>1, <2>1
<1>5. /\ cn \in Seq(Segment) /\ x[1] \in Seq(Segment) /\ x[2] \in Seq(Segment)
      /\ Empty \in Seq(Segment) /\ ends \in SUBSET Seq(Segment)
  BY <1>2, Types DEF EndsWithRole
<1>6. rest \in Seq(Segment)
  <2>1. Len(x[1]) < Len(cn) /\ Len(x[1]) \in Nat /\ Len(cn) \in Nat
    BY <1>3, <1>5, StrictBySegment, LenProperties
  <2>2. Len(x[1]) <= Len(cn)
    BY <2>1
  <2> QED BY <1>5, <2>2, TrimBySegment
<1>7. \A r \in ends : IsStrictSuffix(r, rest)
  BY DEF EndsWithRole
<1>8. Longest(ends) = x[2]
  <2> HIDE DEF ends, rest
  <2> QED BY <1>3, <1>4, <1>5, <1>6, <1>7, LongestIsUnique
<1>9. /\ cn = x[1] \o TrimSuffix(rest, x[2]) \o x[2] /\ TrimSuffix(rest, x[2]) # Empty
  <2>1. IsStrictSuffix(x[2], TrimPrefix(cn, x[1]))
    BY <1>3, <1>7
  <2> HIDE DEF rest
  <2>2. /\ cn = Cat(Cat(x[1], TrimSuffix(TrimPrefix(cn, x[1]), x[2])), x[2])
        /\ cn = Cat(Cat(x[1], Empty), x[2])
              <=> TrimSuffix(TrimPrefix(cn, x[1]), x[2]) = Empty
    BY <1>3, <1>5, <2>1, CutReading
  <2> QED BY <1>1, <2>2 DEF rest, Cat
<1>10. parsePermissionString(cn, x[1], roles) =
          [namespace |-> TrimSuffix(rest, x[2]), role |-> x[2]]
  BY <1>3, <1>8, <1>9 DEF parsePermissionString
<1>11. parsePermissionString(cn, x[1], roles) # NotParsed
  <2>1. NotParsed.role = Empty
    BY DEF NotParsed
  <2>2. parsePermissionString(cn, x[1], roles).role = x[2]
    BY <1>10
  <2> QED BY <1>2, <2>1, <2>2
<1> QED BY <1>2, <1>3, <1>9, <1>10, <1>11

\* What the loops return, the reference admits.
LEMMA TakenIsReading ==
    ASSUME IInv, result # NotParsed
    PROVE  <<sortedPrefixes[k], matchedRole>> \in WithNamespace
<1> DEFINE p == sortedPrefixes[k]
<1>1. /\ TypeOK /\ SortOK /\ AttemptOK /\ untried = {}
      /\ matchedRole # Empty /\ namespace # Empty
  BY DEF IInv, Outcome
<1>2. k \in 1..Len(prefixes) /\ p \in ToSet(prefixes)
  BY TakenIsLongest
<1>3. /\ cn \in Seq(Segment) /\ p \in Seq(Segment) /\ Empty \in Seq(Segment)
      /\ Rest \in Seq(Segment) /\ roles \subseteq Seq(Segment)
  BY <1>1, <1>2, Types, AttemptTypes
<1>4. IsStrictPrefix(p, cn) /\ Tried = EndsWithRole(Rest, roles) /\ Rest = TrimPrefix(cn, p)
  BY <1>1 DEF AttemptOK, Tried, EndsWithRole, Rest
<1>5. /\ matchedRole \in EndsWithRole(Rest, roles) /\ namespace = TrimSuffix(Rest, matchedRole)
      /\ \A r \in EndsWithRole(Rest, roles) : Len(r) <= Len(matchedRole)
  BY <1>1, <1>4 DEF AttemptOK
<1> HIDE DEF p
<1>6. <<p, matchedRole>> \in Readings
  BY <1>1, <1>2, <1>4, <1>5, ReadingsOfRest
<1>7. ASSUME NEW y \in Readings, p = y[1]
      PROVE  Len(y[2]) <= Len(matchedRole)
  <2>1. y = <<p, y[2]>>
    BY <1>7 DEF Readings
  <2>2. <<p, y[2]>> \in Readings
    BY <1>7, <2>1
  <2>3. y[2] \in EndsWithRole(Rest, roles)
    BY <1>1, <1>2, <1>4, <2>2, ReadingsOfRest
  <2> QED BY <1>5, <2>3
<1>8. cn # p \o Empty \o matchedRole
  <2>1. matchedRole \in Seq(Segment) /\ IsStrictSuffix(matchedRole, TrimPrefix(cn, p))
    BY <1>3, <1>4, <1>5 DEF EndsWithRole
  <2>2. TrimSuffix(TrimPrefix(cn, p), matchedRole) # Empty
    BY <1>1, <1>4, <1>5
  <2>3. cn = Cat(Cat(p, Empty), matchedRole)
           <=> TrimSuffix(TrimPrefix(cn, p), matchedRole) = Empty
    <3>1. /\ cn \in Seq(Segment) /\ p \in Seq(Segment) /\ Empty \in Seq(Segment)
          /\ IsStrictPrefix(p, cn)
      BY <1>3, <1>4
    <3> QED BY <2>1, <3>1, CutReading
  <2> QED BY <2>2, <2>3 DEF Cat
<1>9. <<p, matchedRole>>[1] = p /\ <<p, matchedRole>>[2] = matchedRole
  OBVIOUS
<1>10. <<p, matchedRole>> \in LongestRole
  BY <1>6, <1>7, <1>9 DEF LongestRole
<1>11. <<p, matchedRole>> \in WithNamespace
  BY <1>8, <1>9, <1>10 DEF WithNamespace
<1> QED BY <1>11 DEF p

\* LongestReading: of all ways to read the CN as prefix, namespace and role, the loops
\* return the one with the longest role for its prefix and then the longest prefix, and
\* they return an error only where there is none with a namespace.
THEOREM LongestIsReturned == Spec => []LongestReading
<1>1. ASSUME IInv, pc = "done", result = NotParsed
      PROVE  WithNamespace = {}
  <2>1. TypeOK
    BY <1>1 DEF IInv
  <2> SUFFICES ASSUME NEW x \in WithNamespace PROVE FALSE
    OBVIOUS
  <2>2. x[1] \in ToSet(prefixes) /\ parsePermissionString(cn, x[1], roles) # NotParsed
    BY <2>1, ReadingParses
  <2> QED BY <1>1, <2>2, NothingParses
<1>2. ASSUME IInv, result # NotParsed, NEW x \in WithNamespace,
             \A y \in WithNamespace : Len(y[1]) <= Len(x[1])
      PROVE  result.role = x[2] /\ cn = x[1] \o result.namespace \o x[2]
  <2> DEFINE p == sortedPrefixes[k]
  <2>1. TypeOK /\ SortOK /\ AttemptOK
    BY <1>2 DEF IInv, Outcome
  <2>2. /\ k \in 1..Len(prefixes) /\ p \in ToSet(prefixes)
        /\ parsePermissionString(cn, p, roles) = result
    BY <1>2, TakenIsLongest
  <2>3. p \in Seq(Segment) /\ cn \in Seq(Segment) /\ IsStrictPrefix(p, cn)
    BY <2>1, <2>2, Types DEF AttemptOK
  <2>4. /\ x[1] \in ToSet(prefixes) /\ IsStrictPrefix(x[1], cn)
        /\ cn = x[1] \o TrimSuffix(TrimPrefix(cn, x[1]), x[2]) \o x[2]
        /\ parsePermissionString(cn, x[1], roles) # NotParsed
        /\ parsePermissionString(cn, x[1], roles) =
              [namespace |-> TrimSuffix(TrimPrefix(cn, x[1]), x[2]), role |-> x[2]]
    BY <1>2, <2>1, ReadingParses
  <2>5. Len(x[1]) <= Len(p)
    BY <1>2, <2>4, TakenIsLongest
  <2>6. Len(p) <= Len(x[1])
    <3>1. <<p, matchedRole>> \in WithNamespace
      BY <1>2, TakenIsReading
    <3> HIDE DEF p
    <3>2. <<p, matchedRole>>[1] = p
      OBVIOUS
    <3> QED BY <1>2, <3>1, <3>2
  <2>7. x[1] \in Seq(Segment)
    BY <2>1, <2>4, Types
  <2>8. x[1] = p
    <3>1. Len(x[1]) \in Nat /\ Len(p) \in Nat
      BY <2>3, <2>7, LenProperties
    <3>2. Len(x[1]) = Len(p)
      BY <2>5, <2>6, <3>1
    <3> QED BY <2>3, <2>4, <2>7, <3>2, StrictChain
  <2>9. result = [namespace |-> TrimSuffix(TrimPrefix(cn, x[1]), x[2]), role |-> x[2]]
    BY <2>2, <2>4, <2>8
  <2> QED BY <2>4, <2>9
<1>3. ASSUME IInv, pc = "done"
      PROVE  IF WithNamespace = {} THEN result = NotParsed
             ELSE LET x == CHOOSE x \in WithNamespace :
                               \A y \in WithNamespace : Len(y[1]) <= Len(x[1])
                  IN  result.role = x[2] /\ cn = x[1] \o result.namespace \o x[2]
  <2>1. CASE result = NotParsed
    BY <1>1, <1>3, <2>1
  <2>2. CASE result # NotParsed
    <3> DEFINE y == <<sortedPrefixes[k], matchedRole>>
    <3>1. y \in WithNamespace /\ y[1] = sortedPrefixes[k]
      BY <1>3, <2>2, TakenIsReading
    <3>2. ASSUME NEW z \in WithNamespace
          PROVE  Len(z[1]) <= Len(y[1])
      <4>1. /\ z[1] \in ToSet(prefixes) /\ IsStrictPrefix(z[1], cn)
            /\ parsePermissionString(cn, z[1], roles) # NotParsed
        BY <1>3, ReadingParses DEF IInv
      <4> QED BY <1>3, <2>2, <3>1, <4>1, TakenIsLongest
    <3> HIDE DEF y
    <3> DEFINE x == CHOOSE x \in WithNamespace :
                       \A z \in WithNamespace : Len(z[1]) <= Len(x[1])
    <3>3. x \in WithNamespace /\ \A z \in WithNamespace : Len(z[1]) <= Len(x[1])
      BY <3>1, <3>2
    <3> HIDE DEF x
    <3>4. result.role = x[2] /\ cn = x[1] \o result.namespace \o x[2]
      BY <1>2, <1>3, <2>2, <3>3
    <3>5. WithNamespace # {}
      BY <3>1
    <3> QED BY <3>4, <3>5 DEF x
  <2> QED BY <2>1, <2>2
<1>4. IInv => LongestReading
  BY <1>3 DEF LongestReading
<1> QED BY <1>4, Invariance, PTL

\* NameReadBack: the role read from the name of a RoleBinding without a role annotation
\* is the role the RoleBinding was made for.
THEOREM NameIsReadBack == Spec => []NameReadBack
<1>1. ASSUME IInv, result # NotParsed
      PROVE  extractRoleFromRoleBindingNameWithMapping(RoleBindingName(result), roles)
                = result.role
  <2>1. /\ TypeOK /\ SortOK /\ AttemptOK /\ untried = {} /\ matchedRole # Empty
        /\ result = [namespace |-> namespace, role |-> matchedRole]
    BY <1>1 DEF IInv, Outcome
  <2>2. k \in 1..Len(prefixes)
    BY <1>1, TakenIsLongest
  <2>3. /\ cn \in Seq(Segment) /\ sortedPrefixes[k] \in Seq(Segment)
        /\ Empty \in Seq(Segment) /\ Rest \in Seq(Segment) /\ roles \subseteq Seq(Segment)
    BY <2>1, <2>2, Types, AttemptTypes
  <2>4. Tried = EndsWithRole(Rest, roles)
    BY <2>1 DEF Tried, EndsWithRole
  <2>5. /\ matchedRole \in Tried /\ namespace = TrimSuffix(Rest, matchedRole)
        /\ \A r \in Tried : Len(r) <= Len(matchedRole)
    BY <2>1 DEF AttemptOK
  <2>6. matchedRole \in roles /\ IsStrictSuffix(matchedRole, Rest) /\ matchedRole \in Seq(Segment)
    BY <2>3, <2>4, <2>5 DEF EndsWithRole
  <2>7. RoleBindingName(result) = Rest
    <3>1. TrimPrefix(cn, sortedPrefixes[k]) =
             Cat(TrimSuffix(TrimPrefix(cn, sortedPrefixes[k]), matchedRole), matchedRole)
      <4>1. /\ IsStrictPrefix(sortedPrefixes[k], cn)
            /\ IsStrictSuffix(matchedRole, TrimPrefix(cn, sortedPrefixes[k]))
        BY <2>1, <2>6 DEF AttemptOK, Rest
      <4> QED BY <2>3, <2>6, <4>1, CutReading
    <3>2. Rest = namespace \o matchedRole
      BY <2>5, <3>1 DEF Rest, Cat
    <3> QED BY <2>1, <3>2 DEF RoleBindingName
  <2> DEFINE known == {r \in roles : IsStrictSuffix(r, Rest)}
  <2>8. ASSUME NEW r \in known
        PROVE  Len(r) <= Len(matchedRole)
    <3>1. CASE r # Empty
      BY <2>4, <2>5, <2>8, <3>1 DEF EndsWithRole
    <3>2. CASE r = Empty
      <4>1. Len(Empty) = 1
        BY OneSegment
      <4>2. matchedRole # <<>>
        BY <2>1, <2>6, StringsAssumption DEF String, TypeOK
      <4>3. Len(matchedRole) \in Nat \ {0}
        BY <2>6, <4>2, EmptySeq
      <4> QED BY <3>2, <4>1, <4>3
    <3> QED BY <3>1, <3>2
  <2>9. Longest(known) = matchedRole
    <3>1. known \in SUBSET Seq(Segment) /\ matchedRole \in known
          /\ \A r \in known : IsStrictSuffix(r, Rest)
      BY <2>3, <2>6
    <3> HIDE DEF known
    <3> QED BY <2>3, <2>8, <3>1, LongestIsUnique
  <2> QED BY <2>1, <2>6, <2>7, <2>9 DEF extractRoleFromRoleBindingNameWithMapping
<1>2. IInv => NameReadBack
  BY <1>1 DEF NameReadBack
<1> QED BY <1>2, Invariance, PTL
=============================================================================
