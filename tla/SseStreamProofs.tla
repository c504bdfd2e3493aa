--------------------------- MODULE SseStreamProofs ---------------------------
(***************************************************************************)
(* Proofs about SseStream, for any streams: the events of a stream are     *)
(* handed over in order wherever the network cuts it, and a caller that    *)
(* closed hears nothing more.  The parser's operators fold a sequence; an  *)
(* induction over sequences shows what they keep: a text may be cut        *)
(* anywhere (CutOfConcat), and more lines add events (SaidGrows).          *)
(***************************************************************************)
EXTENDS SseStream, NaturalsInduction, WellFoundedInduction, SequenceTheorems, TLAPS

\* The symbols of a stream, the texts made of them, and the fields a parser keeps
Symbol == STRING \cup {"newline", "event:", "data:"}
Text == Seq(Symbol)
Field == [event : Text \cup {"message"}, data : Text]

-----------------------------------------------------------------------------
(* Induction *)

\* The order on numbers
Less == {pair \in Nat \X Nat : pair[1] < pair[2]}

\* It descends to an end, which the inductions below rest on.
LEMMA LessIsWellFounded == IsWellFoundedOn(Less, Nat)
  BY NatLessThanWellFounded, Zenon DEF OpToRel, Less

\* What holds of 0 and is kept by successors holds of every number.
LEMMA NaturalInduction ==
    ASSUME NEW T, 0 \in T, \A n \in Nat : n \in T => n + 1 \in T
    PROVE  Nat \subseteq T
<1> SUFFICES ASSUME Nat \ T # {} PROVE FALSE
  OBVIOUS
<1>1. PICK n \in Nat \ T : \A k \in Nat \ T : <<k, n>> \notin Less
  BY LessIsWellFounded, WFMin, Zenon
<1>2. n - 1 \in Nat /\ n - 1 < n /\ n = (n - 1) + 1
  BY <1>1
<1>3. n - 1 \in T
  BY <1>1, <1>2 DEF Less
<1>4. QED
  BY <1>1, <1>2, <1>3

\* What holds of the empty sequence and is kept by Append holds of every sequence.
LEMMA SequenceInduction ==
    ASSUME NEW S, NEW T, <<>> \in T, \A s \in Seq(S), x \in S : s \in T => Append(s, x) \in T
    PROVE  Seq(S) \subseteq T
<1> DEFINE Lengths == {n \in Nat : \A s \in Seq(S) : Len(s) = n => s \in T}
<1>1. 0 \in Lengths
  <2>1. \A s \in Seq(S) : Len(s) = 0 => s = <<>>
    BY EmptySeq
  <2>2. QED
    BY <2>1
<1>2. ASSUME NEW n \in Nat, n \in Lengths PROVE n + 1 \in Lengths
  <2>1. ASSUME NEW s \in Seq(S), Len(s) = n + 1 PROVE s \in T
    <3>1. s # <<>>
      BY <1>2, <2>1
    <3>2. PICK front \in Seq(S), x \in S : s = Append(front, x)
      BY <3>1, SequenceEmptyOrAppend
    <3>3. Len(front) = n
      BY <2>1, <3>2
    <3>4. QED
      BY <1>2, <3>2, <3>3
  <2>2. QED
    BY <1>2, <2>1
<1>3. Nat \subseteq Lengths
  BY <1>1, <1>2, NaturalInduction
<1>4. QED
  BY <1>3, LenProperties

\* An element appended to the second part is appended to the whole.
LEMMA ConcatOfAppend ==
    ASSUME NEW S, NEW s \in Seq(S), NEW t \in Seq(S), NEW x \in S
    PROVE  Append(s \o t, x) = s \o Append(t, x)
  OBVIOUS

\* What Append adds to a sequence.
LEMMA AppendFacts ==
    ASSUME NEW S, NEW s \in Seq(S), NEW x \in S
    PROVE  /\ Len(s) \in Nat /\ Len(Append(s, x)) = Len(s) + 1
           /\ \A i \in 1..Len(s) : Append(s, x)[i] = s[i]
           /\ Append(s, x)[Len(s) + 1] = x
  BY AppendProperties, LenProperties

-----------------------------------------------------------------------------
(* The parser *)

\* The function that Cut is defined by, up to the n-th symbol
NoText == [lines |-> <<>>, rest |-> <<>>]
CutOf(s, n, f) == f = [i \in 0..n |-> IF i = 0 THEN NoText ELSE Extend(f[i - 1], s[i])]

\* The function that Cut is defined by exists for any text, and Cut is its last value.
LEMMA CutIsDefined ==
    ASSUME NEW s, Len(s) \in Nat
    PROVE  \E f : CutOf(s, Len(s), f) /\ Cut(s) = f[Len(s)]
<1> DEFINE Defined == {n \in Nat : \E f : CutOf(s, n, f)}
<1>1. 0 \in Defined
  <2>1. CutOf(s, 0, [i \in 0..0 |-> NoText])
    BY DEF CutOf
  <2>2. QED
    BY <2>1
<1>2. ASSUME NEW n \in Nat, n \in Defined PROVE n + 1 \in Defined
  <2>1. PICK f : CutOf(s, n, f)
    BY <1>2
  <2> DEFINE g == [i \in 0..(n + 1) |-> IF i = n + 1 THEN Extend(f[n], s[n + 1]) ELSE f[i]]
  <2>2. \A i \in 0..(n + 1) : g[i] = IF i = 0 THEN NoText ELSE Extend(g[i - 1], s[i])
    <3> TAKE i \in 0..(n + 1)
    <3>1. CASE i = n + 1
      BY <3>1
    <3>2. CASE i # n + 1
      BY <2>1, <3>2 DEF CutOf
    <3>3. QED
      BY <3>1, <3>2
  <2>3. CutOf(s, n + 1, g)
    BY <2>2 DEF CutOf
  <2>4. QED
    BY <2>3
<1>3. \E f : CutOf(s, Len(s), f)
  BY <1>1, <1>2, NaturalInduction
<1> DEFINE f == CHOOSE f : f = [i \in 0..Len(s) |->
                   IF i = 0 THEN [lines |-> <<>>, rest |-> <<>>] ELSE Extend(f[i - 1], s[i])]
<1>4. CutOf(s, Len(s), f)
  BY <1>3 DEF CutOf, NoText
<1>5. Cut(s) = f[Len(s)]
  BY Zenon DEF Cut
<1>6. QED
  BY <1>4, <1>5

\* Cut reads symbol by symbol.
LEMMA CutOfAppend ==
    ASSUME NEW S
    PROVE  /\ Cut(<<>>) = NoText
           /\ \A s \in Seq(S), x \in S : Cut(Append(s, x)) = Extend(Cut(s), x)
<1>1. Cut(<<>>) = NoText
  <2>1. PICK f : CutOf(<<>>, 0, f) /\ Cut(<<>>) = f[0]
    BY CutIsDefined
  <2>2. QED
    BY <2>1 DEF CutOf
<1>2. ASSUME NEW s \in Seq(S), NEW x \in S
      PROVE  Cut(Append(s, x)) = Extend(Cut(s), x)
  <2>1. /\ Len(s) \in Nat /\ Len(Append(s, x)) = Len(s) + 1
        /\ \A i \in 1..Len(s) : Append(s, x)[i] = s[i]
        /\ Append(s, x)[Len(s) + 1] = x
    BY AppendFacts
  <2>2. PICK f : CutOf(s, Len(s), f) /\ Cut(s) = f[Len(s)]
    BY <2>1, CutIsDefined
  <2>3. PICK g : CutOf(Append(s, x), Len(s) + 1, g) /\ Cut(Append(s, x)) = g[Len(s) + 1]
    <3>1. Len(Append(s, x)) \in Nat
      BY <2>1
    <3>2. \E g : CutOf(Append(s, x), Len(Append(s, x)), g) /\ Cut(Append(s, x)) = g[Len(Append(s, x))]
      BY <3>1, CutIsDefined
    <3>3. QED
      BY <2>1, <3>2
  <2> DEFINE Agree == {n \in Nat : n <= Len(s) => g[n] = f[n]}
  <2>4. 0 \in Agree
    BY <2>1, <2>2, <2>3 DEF CutOf
  <2>5. ASSUME NEW n \in Nat, n \in Agree PROVE n + 1 \in Agree
    <3>1. CASE n + 1 <= Len(s)
      <4>1. n + 1 \in 0..Len(s) /\ n + 1 \in 0..(Len(s) + 1) /\ n + 1 # 0 /\ (n + 1) - 1 = n
        BY <3>1, <2>1
      <4>2. f[n + 1] = Extend(f[n], s[n + 1])
        BY <2>2, <4>1 DEF CutOf
      <4>3. g[n + 1] = Extend(g[n], Append(s, x)[n + 1])
        BY <2>3, <4>1 DEF CutOf
      <4>4. QED
        BY <2>1, <2>5, <3>1, <4>2, <4>3
    <3>2. QED
      BY <3>1
  <2>6. g[Len(s)] = f[Len(s)]
    <3>1. Nat \subseteq Agree
      BY <2>4, <2>5, NaturalInduction
    <3>2. QED
      BY <2>1, <3>1
  <2>7. g[Len(s) + 1] = Extend(g[Len(s)], x)
    <3>1. Len(s) + 1 \in 0..(Len(s) + 1) /\ Len(s) + 1 # 0 /\ (Len(s) + 1) - 1 = Len(s)
      BY <2>1
    <3>2. QED
      BY <2>1, <2>3, <3>1 DEF CutOf
  <2>8. QED
    BY <2>2, <2>3, <2>6, <2>7
<1>3. QED
  BY <1>1, <1>2

\* The texts without a newline
Unbroken == {s \in Text : \A i \in DOMAIN s : s[i] # "newline"}

\* Another symbol than a newline keeps a text unbroken.
LEMMA AppendUnbroken ==
    ASSUME NEW s \in Text, NEW x \in Symbol
    PROVE  Append(s, x) \in Unbroken <=> s \in Unbroken /\ x # "newline"
<1>1. /\ Append(s, x) \in Text /\ DOMAIN Append(s, x) = 1..(Len(s) + 1)
      /\ DOMAIN s = 1..Len(s) /\ Len(s) \in Nat
      /\ \A i \in 1..Len(s) : Append(s, x)[i] = s[i]
      /\ Append(s, x)[Len(s) + 1] = x
  <2>1. s \in Seq(Symbol) /\ Append(s, x) \in Seq(Symbol)
    BY AppendProperties DEF Text
  <2>2. DOMAIN s = 1..Len(s) /\ Len(s) \in Nat
    BY <2>1, LenProperties
  <2>3. /\ Len(Append(s, x)) = Len(s) + 1
        /\ \A i \in 1..Len(s) : Append(s, x)[i] = s[i]
        /\ Append(s, x)[Len(s) + 1] = x
    BY AppendFacts DEF Text
  <2>4. DOMAIN Append(s, x) = 1..(Len(s) + 1)
    BY <2>1, <2>3, LenProperties
  <2>5. QED
    BY <2>1, <2>2, <2>3, <2>4 DEF Text
<1>2. \A i \in 1..(Len(s) + 1) : i \in 1..Len(s) \/ i = Len(s) + 1
  BY <1>1
<1>3. 1..Len(s) \subseteq 1..(Len(s) + 1) /\ Len(s) + 1 \in 1..(Len(s) + 1)
  BY <1>1
<1>4. QED
  BY <1>1, <1>2, <1>3 DEF Unbroken

\* The lines and the rest of a text are texts, and the rest has no newline.
LEMMA CutTypes ==
    \A s \in Text : Cut(s) \in [lines : Seq(Text), rest : Unbroken]
<1> DEFINE T == {s \in Text : Cut(s) \in [lines : Seq(Text), rest : Unbroken]}
<1>1. <<>> \in Text /\ <<>> \in Seq(Text) /\ <<>> \in Unbroken
  BY DEF Text, Unbroken
<1>2. <<>> \in T
  <2>1. Cut(<<>>) = NoText
    BY CutOfAppend
  <2>2. NoText \in [lines : Seq(Text), rest : Unbroken]
    BY <1>1 DEF NoText
  <2>3. QED
    BY <1>1, <2>1, <2>2
<1>3. ASSUME NEW s \in Text, NEW x \in Symbol, s \in T PROVE Append(s, x) \in T
  <2>1. Cut(Append(s, x)) = Extend(Cut(s), x) /\ Append(s, x) \in Text
    BY CutOfAppend, AppendProperties DEF Text
  <2>2. Cut(s).lines \in Seq(Text) /\ Cut(s).rest \in Unbroken
    BY <1>3
  <2>3. Append(Cut(s).lines, Cut(s).rest) \in Seq(Text)
    BY <2>2, AppendProperties DEF Unbroken
  <2>4. x # "newline" => Append(Cut(s).rest, x) \in Unbroken
    <3>1. Cut(s).rest \in Text
      BY <2>2 DEF Unbroken
    <3>2. QED
      BY <2>2, <3>1, AppendUnbroken
  <2>5. Extend(Cut(s), x) \in [lines : Seq(Text), rest : Unbroken]
    BY <1>1, <2>2, <2>3, <2>4 DEF Extend
  <2>6. QED
    BY <2>1, <2>5
<1>4. QED
  BY <1>2, <1>3, SequenceInduction DEF Text

\* A text without a newline is all rest.
LEMMA CutOfUnbroken ==
    \A s \in Unbroken : Cut(s) = [lines |-> <<>>, rest |-> s]
<1> DEFINE T == {s \in Text : s \in Unbroken => Cut(s) = [lines |-> <<>>, rest |-> s]}
<1>1. <<>> \in T
  BY CutOfAppend DEF NoText, Text
<1>2. ASSUME NEW s \in Text, NEW x \in Symbol, s \in T PROVE Append(s, x) \in T
  <2>1. Cut(Append(s, x)) = Extend(Cut(s), x) /\ Append(s, x) \in Text
    BY CutOfAppend, AppendProperties DEF Text
  <2>2. Append(s, x) \in Unbroken => s \in Unbroken /\ x # "newline"
    BY AppendUnbroken
  <2>3. QED
    BY <1>2, <2>1, <2>2 DEF Extend
<1>3. QED
  BY <1>1, <1>2, SequenceInduction DEF Text, Unbroken

\* A text may be cut in two: the second part goes on where the first one rests.
LEMMA CutOfConcat ==
    \A s, t \in Text : Cut(s \o t) = [lines |-> Cut(s).lines \o Cut(Cut(s).rest \o t).lines,
                                     rest  |-> Cut(Cut(s).rest \o t).rest]
<1> SUFFICES ASSUME NEW s \in Text
             PROVE  \A t \in Text : Cut(s \o t) = [lines |-> Cut(s).lines \o Cut(Cut(s).rest \o t).lines,
                                                  rest  |-> Cut(Cut(s).rest \o t).rest]
  OBVIOUS
<1> DEFINE Goes(t) == Cut(s \o t) = [lines |-> Cut(s).lines \o Cut(Cut(s).rest \o t).lines,
                                     rest  |-> Cut(Cut(s).rest \o t).rest]
           T == {t \in Text : Goes(t)}
<1>1. /\ Cut(s).lines \in Seq(Text) /\ Cut(s).rest \in Text /\ Cut(s).rest \in Unbroken
      /\ Cut(s) = [lines |-> Cut(s).lines, rest |-> Cut(s).rest]
  BY CutTypes DEF Unbroken
<1>2. <<>> \in T
  <2>1. s \o <<>> = s /\ Cut(s).rest \o <<>> = Cut(s).rest /\ Cut(s).lines \o <<>> = Cut(s).lines
    BY <1>1, ConcatEmptySeq DEF Text
  <2>2. Cut(Cut(s).rest) = [lines |-> <<>>, rest |-> Cut(s).rest]
    BY <1>1, CutOfUnbroken
  <2>3. Goes(<<>>)
    BY <1>1, <2>1, <2>2
  <2>4. <<>> \in Text
    BY DEF Text
  <2>5. QED
    BY <2>3, <2>4
<1>3. ASSUME NEW t \in Text, NEW x \in Symbol, t \in T PROVE Append(t, x) \in T
  <2> DEFINE r == Cut(s).rest
             mid == Cut(r \o t)
  <2>1. Append(t, x) \in Text /\ r \o t \in Text /\ s \o t \in Text
    BY <1>1, AppendProperties, ConcatProperties DEF Text
  <2>2. s \o Append(t, x) = Append(s \o t, x) /\ r \o Append(t, x) = Append(r \o t, x)
    BY <1>1, ConcatOfAppend
  <2>3. /\ Cut(s \o Append(t, x)) = Extend(Cut(s \o t), x)
        /\ Cut(r \o Append(t, x)) = Extend(mid, x)
    BY <2>1, <2>2, CutOfAppend DEF Text
  <2>4. mid.lines \in Seq(Text) /\ mid.rest \in Text
    BY <2>1, CutTypes DEF Unbroken
  <2>5. Cut(s \o t) = [lines |-> Cut(s).lines \o mid.lines, rest |-> mid.rest]
    BY <1>3
  <2>6. Append(Cut(s).lines \o mid.lines, mid.rest) = Cut(s).lines \o Append(mid.lines, mid.rest)
    <3>1. \A a, b \in Seq(Text), c \in Text : Append(a \o b, c) = a \o Append(b, c)
      OBVIOUS
    <3>2. QED
      BY <1>1, <2>4, <3>1, Zenon
  <2>7. Goes(Append(t, x))
    <3>1. CASE x = "newline"
      <4>1. Extend(mid, x) = [lines |-> Append(mid.lines, mid.rest), rest |-> <<>>]
        BY <3>1 DEF Extend
      <4>2. Extend(Cut(s \o t), x) = [lines |-> Append(Cut(s).lines \o mid.lines, mid.rest), rest |-> <<>>]
        BY <2>5, <3>1 DEF Extend
      <4>3. QED
        BY <2>3, <2>6, <4>1, <4>2
    <3>2. CASE x # "newline"
      BY <2>3, <2>5, <3>2 DEF Extend
    <3>3. QED
      BY <3>1, <3>2
  <2>8. QED
    BY <2>1, <2>7
<1>4. Seq(Symbol) \subseteq T
  BY <1>2, <1>3, SequenceInduction DEF Text
<1>5. QED
  BY <1>4 DEF Text

\* The function that Said is defined by, up to the n-th line
NothingSaid == [field |-> Unset, events |-> <<>>]
SaidOf(l, n, f) == f = [i \in 0..n |-> IF i = 0 THEN NothingSaid ELSE Process(f[i - 1], l[i])]

\* The function that Said is defined by exists for any lines, and Said is its last value.
LEMMA SaidIsDefined ==
    ASSUME NEW l, Len(l) \in Nat
    PROVE  \E f : SaidOf(l, Len(l), f) /\ Said(l) = f[Len(l)]
<1> DEFINE Defined == {n \in Nat : \E f : SaidOf(l, n, f)}
<1>1. 0 \in Defined
  <2>1. SaidOf(l, 0, [i \in 0..0 |-> NothingSaid])
    BY DEF SaidOf
  <2>2. QED
    BY <2>1
<1>2. ASSUME NEW n \in Nat, n \in Defined PROVE n + 1 \in Defined
  <2>1. PICK f : SaidOf(l, n, f)
    BY <1>2
  <2> DEFINE g == [i \in 0..(n + 1) |-> IF i = n + 1 THEN Process(f[n], l[n + 1]) ELSE f[i]]
  <2>2. \A i \in 0..(n + 1) : g[i] = IF i = 0 THEN NothingSaid ELSE Process(g[i - 1], l[i])
    <3> TAKE i \in 0..(n + 1)
    <3>1. CASE i = n + 1
      BY <3>1
    <3>2. CASE i # n + 1
      BY <2>1, <3>2 DEF SaidOf
    <3>3. QED
      BY <3>1, <3>2
  <2>3. SaidOf(l, n + 1, g)
    BY <2>2 DEF SaidOf
  <2>4. QED
    BY <2>3
<1>3. \E f : SaidOf(l, Len(l), f)
  BY <1>1, <1>2, NaturalInduction
<1> DEFINE f == CHOOSE f : f = [i \in 0..Len(l) |->
                   IF i = 0 THEN [field |-> Unset, events |-> <<>>] ELSE Process(f[i - 1], l[i])]
<1>4. SaidOf(l, Len(l), f)
  BY <1>3 DEF SaidOf, NothingSaid
<1>5. Said(l) = f[Len(l)]
  BY Zenon DEF Said
<1>6. QED
  BY <1>4, <1>5

\* The lines are processed one by one.
LEMMA SaidOfAppend ==
    ASSUME NEW S
    PROVE  /\ Said(<<>>) = NothingSaid
           /\ \A l \in Seq(S), x \in S : Said(Append(l, x)) = Process(Said(l), x)
<1>1. Said(<<>>) = NothingSaid
  <2>1. PICK f : SaidOf(<<>>, 0, f) /\ Said(<<>>) = f[0]
    BY SaidIsDefined
  <2>2. QED
    BY <2>1 DEF SaidOf
<1>2. ASSUME NEW l \in Seq(S), NEW x \in S
      PROVE  Said(Append(l, x)) = Process(Said(l), x)
  <2>1. /\ Len(l) \in Nat /\ Len(Append(l, x)) = Len(l) + 1
        /\ \A i \in 1..Len(l) : Append(l, x)[i] = l[i]
        /\ Append(l, x)[Len(l) + 1] = x
    BY AppendFacts
  <2>2. PICK f : SaidOf(l, Len(l), f) /\ Said(l) = f[Len(l)]
    BY <2>1, SaidIsDefined
  <2>3. PICK g : SaidOf(Append(l, x), Len(l) + 1, g) /\ Said(Append(l, x)) = g[Len(l) + 1]
    <3>1. Len(Append(l, x)) \in Nat
      BY <2>1
    <3>2. \E g : SaidOf(Append(l, x), Len(Append(l, x)), g) /\ Said(Append(l, x)) = g[Len(Append(l, x))]
      BY <3>1, SaidIsDefined
    <3>3. QED
      BY <2>1, <3>2
  <2> DEFINE Agree == {n \in Nat : n <= Len(l) => g[n] = f[n]}
  <2>4. 0 \in Agree
    BY <2>1, <2>2, <2>3 DEF SaidOf
  <2>5. ASSUME NEW n \in Nat, n \in Agree PROVE n + 1 \in Agree
    <3>1. CASE n + 1 <= Len(l)
      <4>1. n + 1 \in 0..Len(l) /\ n + 1 \in 0..(Len(l) + 1) /\ n + 1 # 0 /\ (n + 1) - 1 = n
        BY <3>1, <2>1
      <4>2. f[n + 1] = Process(f[n], l[n + 1])
        BY <2>2, <4>1 DEF SaidOf
      <4>3. g[n + 1] = Process(g[n], Append(l, x)[n + 1])
        BY <2>3, <4>1 DEF SaidOf
      <4>4. QED
        BY <2>1, <2>5, <3>1, <4>2, <4>3
    <3>2. QED
      BY <3>1
  <2>6. g[Len(l)] = f[Len(l)]
    <3>1. Nat \subseteq Agree
      BY <2>4, <2>5, NaturalInduction
    <3>2. QED
      BY <2>1, <3>1
  <2>7. g[Len(l) + 1] = Process(g[Len(l)], x)
    <3>1. Len(l) + 1 \in 0..(Len(l) + 1) /\ Len(l) + 1 # 0 /\ (Len(l) + 1) - 1 = Len(l)
      BY <2>1
    <3>2. QED
      BY <2>1, <2>3, <3>1 DEF SaidOf
  <2>8. QED
    BY <2>2, <2>3, <2>6, <2>7
<1>3. QED
  BY <1>1, <1>2

\* A line leaves a field, and the one it may end was one.
LEMMA ProcessTypes ==
    ASSUME NEW said \in [field : Field, events : Seq(Field)], NEW line \in Text
    PROVE  Process(said, line) \in [field : Field, events : Seq(Field)]
<1> DEFINE f == said.field
<1>1. f \in Field /\ said.events \in Seq(Field) /\ f.event \in Text \cup {"message"} /\ f.data \in Text
  BY DEF Field
<1>2. Unset \in Field
  BY DEF Unset, Field, Text
<1>3. ProcessLine(f, line) \in Field
  <2>1. CASE line = <<>>
    BY <1>1, <1>2, <2>1 DEF ProcessLine
  <2>2. CASE line # <<>>
    <3>1. Tail(line) \in Text
      BY <2>2, HeadTailProperties DEF Text
    <3>2. [f EXCEPT !.event = Tail(line)] \in Field
      BY <1>1, <3>1 DEF Field
    <3>3. \A d \in Text : [f EXCEPT !.data = d] \in Field
      BY <1>1 DEF Field
    <3>4. (IF f.data = <<>> THEN f.data ELSE Append(f.data, "newline")) \o Tail(line) \in Text
      <4>1. Append(f.data, "newline") \in Text
        <5>1. f.data \in Seq(Symbol)
          BY <1>1 DEF Text
        <5>2. "newline" \in Symbol
          BY DEF Symbol
        <5>3. Append(f.data, "newline") \in Seq(Symbol)
          BY <5>1, <5>2, AppendProperties, Zenon
        <5>4. QED
          BY <5>3 DEF Text
      <4>2. QED
        BY <1>1, <3>1, <4>1, ConcatProperties DEF Text
    <3>5. [f EXCEPT !.data = (IF @ = <<>> THEN @ ELSE Append(@, "newline")) \o Tail(line)] \in Field
      BY <3>3, <3>4
    <3>6. QED
      BY <1>1, <2>2, <3>2, <3>5 DEF ProcessLine
  <2>3. QED
    BY <2>1, <2>2
<1>4. Append(said.events, f) \in Seq(Field)
  BY <1>1, AppendProperties
<1>5. QED
  BY <1>1, <1>3, <1>4 DEF Process

\* What lines say is a field and the events that were ended.
LEMMA SaidTypes == \A l \in Seq(Text) : Said(l) \in [field : Field, events : Seq(Field)]
<1> DEFINE T == {l \in Seq(Text) : Said(l) \in [field : Field, events : Seq(Field)]}
<1>1. <<>> \in T
  <2>1. NothingSaid \in [field : Field, events : Seq(Field)]
    BY DEF NothingSaid, Field, Unset, Text
  <2>2. QED
    BY <2>1, SaidOfAppend
<1>2. ASSUME NEW l \in Seq(Text), NEW x \in Text, l \in T PROVE Append(l, x) \in T
  <2>1. Said(Append(l, x)) = Process(Said(l), x) /\ Append(l, x) \in Seq(Text)
    BY SaidOfAppend, AppendProperties
  <2>2. QED
    BY <1>2, <2>1, ProcessTypes
<1>3. QED
  BY <1>1, <1>2, SequenceInduction

\* An event appended to the second part is appended to the whole.
LEMMA FieldAppended ==
    \A a, b \in Seq(Field), c \in Field : Append(a \o b, c) = a \o Append(b, c)
<1> DEFINE S == Field
<1> HIDE DEF S
<1>1. \A a, b \in Seq(S), c \in S : Append(a \o b, c) = a \o Append(b, c)
  OBVIOUS
<1>2. QED
  BY <1>1 DEF S

\* More lines add events and take none back.
LEMMA SaidGrows ==
    \A p, q \in Seq(Text) : \E u \in Seq(Field) : Said(p \o q).events = Said(p).events \o u
<1> SUFFICES ASSUME NEW p \in Seq(Text)
             PROVE  \A q \in Seq(Text) : \E u \in Seq(Field) : Said(p \o q).events = Said(p).events \o u
  OBVIOUS
<1> DEFINE T == {q \in Seq(Text) : \E u \in Seq(Field) : Said(p \o q).events = Said(p).events \o u}
<1>1. Said(p).events \in Seq(Field)
  BY SaidTypes
<1>2. <<>> \in T
  <2>1. p \o <<>> = p /\ Said(p).events \o <<>> = Said(p).events
    BY <1>1, ConcatEmptySeq
  <2>2. <<>> \in Seq(Text) /\ <<>> \in Seq(Field)
    OBVIOUS
  <2>3. QED
    BY <2>1, <2>2
<1>3. ASSUME NEW q \in Seq(Text), NEW x \in Text, q \in T PROVE Append(q, x) \in T
  <2>1. PICK u \in Seq(Field) : Said(p \o q).events = Said(p).events \o u
    BY <1>3
  <2>2. p \o q \in Seq(Text) /\ Append(q, x) \in Seq(Text)
    BY ConcatProperties, AppendProperties
  <2>3. p \o Append(q, x) = Append(p \o q, x)
    BY ConcatOfAppend
  <2>4. Said(p \o Append(q, x)) = Process(Said(p \o q), x)
    BY <2>2, <2>3, SaidOfAppend
  <2>5. Said(p \o q).field \in Field
    BY <2>2, SaidTypes
  <2>6. Append(u, Said(p \o q).field) \in Seq(Field)
    BY <2>5, AppendProperties
  <2>7. Append(Said(p).events \o u, Said(p \o q).field) = Said(p).events \o Append(u, Said(p \o q).field)
    BY <1>1, <2>5, FieldAppended, Zenon
  <2>8. \/ Said(p \o Append(q, x)).events = Said(p).events \o u
        \/ Said(p \o Append(q, x)).events = Said(p).events \o Append(u, Said(p \o q).field)
    <3>1. Said(p \o Append(q, x)).events = Said(p \o q).events
          \/ Said(p \o Append(q, x)).events = Append(Said(p \o q).events, Said(p \o q).field)
      BY <2>4 DEF Process
    <3>2. QED
      BY <2>1, <2>7, <3>1
  <2>9. QED
    BY <2>2, <2>6, <2>8
<1> HIDE DEF T
<1>4. Seq(Text) \subseteq T
  BY <1>2, <1>3, SequenceInduction
<1>5. QED
  BY <1>4 DEF T

-----------------------------------------------------------------------------
(* Parts of sequences *)

\* A sequence split after its n-th element
LEMMA SplitAt ==
    ASSUME NEW S, NEW s \in Seq(S), NEW n \in 0..Len(s)
    PROVE  /\ SubSeq(s, 1, n) \in Seq(S) /\ Len(SubSeq(s, 1, n)) = n
           /\ SubSeq(s, n + 1, Len(s)) \in Seq(S)
           /\ SubSeq(s, 1, n) \o SubSeq(s, n + 1, Len(s)) = s
<1>1. Len(s) \in Nat /\ \A i \in 1..Len(s) : s[i] \in S
  BY LenProperties, ElementOfSeq
<1>2. SubSeq(s, 1, n) \in Seq(S) /\ Len(SubSeq(s, 1, n)) = n
  <2>1. n \in Int /\ 1 \in Int /\ \A i \in 1..n : s[i] \in S
    BY <1>1
  <2>2. QED
    BY <1>1, <2>1, SubSeqProperties
<1>3. SubSeq(s, n + 1, Len(s)) \in Seq(S)
  <2>1. n + 1 \in Int /\ Len(s) \in Int /\ \A i \in (n + 1)..Len(s) : s[i] \in S
    BY <1>1
  <2>2. QED
    BY <2>1, SubSeqProperties
<1>4. SubSeq(s, 1, n) \o SubSeq(s, n + 1, Len(s)) = s
  <2>1. 1 \in 1..(Len(s) + 1) /\ n \in (1 - 1)..Len(s) /\ Len(s) \in n..Len(s)
    BY <1>1
  <2>2. SubSeq(s, 1, n) \o SubSeq(s, n + 1, Len(s)) = SubSeq(s, 1, Len(s))
    BY <2>1, ConcatAdjacentSubSeq
  <2>3. QED
    BY <2>2, SubSeqFull
<1>5. QED
  BY <1>2, <1>3, <1>4

\* The parts of a concatenation
LEMMA PartsOfConcat ==
    ASSUME NEW S, NEW s \in Seq(S), NEW t \in Seq(S)
    PROVE  /\ Len(s) \in 0..Len(s \o t) /\ s \o t \in Seq(S)
           /\ SubSeq(s \o t, 1, Len(s)) = s
           /\ SubSeq(s \o t, Len(s) + 1, Len(s \o t)) = t
           /\ IsPrefix(s, s \o t)
<1>1. Len(s) \in Nat /\ Len(t) \in Nat /\ s \o t \in Seq(S) /\ Len(s \o t) = Len(s) + Len(t)
  BY LenProperties, ConcatProperties
<1>2. Len(s) \in 0..Len(s \o t)
  BY <1>1
<1>3. SubSeq(s \o t, 1, Len(s)) = s
  OBVIOUS
<1>4. SubSeq(s \o t, Len(s) + 1, Len(s \o t)) = t
  OBVIOUS
<1>5. SubSeq(s, 1, Len(s)) = s
  BY SubSeqFull
<1>6. QED
  BY <1>1, <1>2, <1>3, <1>4, <1>5 DEF IsPrefix

\* The element after the n-th
LEMMA NextOf ==
    ASSUME NEW S, NEW s \in Seq(S), NEW n \in 0..Len(s), SubSeq(s, n + 1, Len(s)) # <<>>
    PROVE  /\ n + 1 \in 0..Len(s) /\ s[n + 1] \in S
           /\ Head(SubSeq(s, n + 1, Len(s))) = s[n + 1]
           /\ Tail(SubSeq(s, n + 1, Len(s))) = SubSeq(s, (n + 1) + 1, Len(s))
           /\ SubSeq(s, 1, n + 1) = Append(SubSeq(s, 1, n), s[n + 1])
<1>1. Len(s) \in Nat
  BY LenProperties
<1>2. n < Len(s)
  <2>1. n + 1 \in Int /\ Len(s) \in Int
    BY <1>1
  <2>2. ~(Len(s) < n + 1)
    BY <2>1, SubSeqEmpty
  <2>3. QED
    BY <1>1, <2>2
<1>3. n + 1 \in 1..Len(s) /\ Len(s) \in (n + 1)..Len(s) /\ s[n + 1] \in S /\ n + 1 \in 1..(n + 1)
  BY <1>1, <1>2, ElementOfSeq
<1>4. /\ Head(SubSeq(s, n + 1, Len(s))) = s[n + 1]
      /\ Tail(SubSeq(s, n + 1, Len(s))) = SubSeq(s, (n + 1) + 1, Len(s))
  BY <1>3, HeadTailOfSubSeq
<1>5. SubSeq(s, 1, n + 1) = Append(SubSeq(s, 1, n), s[n + 1])
  OBVIOUS
<1>6. QED
  BY <1>1, <1>2, <1>3, <1>4, <1>5

-----------------------------------------------------------------------------
(* The connection *)

\* The types of what is taken
LEMMA TakenTypes ==
    ASSUME stream \in Streams, taken \in 0..Len(stream)
    PROVE  /\ stream \in Text /\ Len(stream) \in Nat /\ taken \in Nat
           /\ Taken \in Text /\ SubSeq(stream, taken + 1, Len(stream)) \in Text
           /\ Taken \o SubSeq(stream, taken + 1, Len(stream)) = stream
           /\ AllLines \in Seq(Text) /\ Cut(Taken).rest \in Text
           /\ Len(AllLines) \in Nat
<1>1. stream \in Seq(Symbol)
  <2>1. stream \in Seq(STRING)
    BY StreamsAssumption
  <2>2. QED
    BY <2>1 DEF Symbol
<1>2. Len(stream) \in Nat
  BY <1>1, LenProperties
<1>3. /\ Taken \in Text /\ SubSeq(stream, taken + 1, Len(stream)) \in Text
      /\ Taken \o SubSeq(stream, taken + 1, Len(stream)) = stream
  BY <1>1, SplitAt DEF Text, Taken
<1>4. AllLines \in Seq(Text) /\ Cut(Taken).rest \in Text
  BY <1>3, CutTypes DEF AllLines, Unbroken
<1>5. Len(AllLines) \in Nat
  BY <1>4, LenProperties
<1>6. QED
  <2>1. stream \in Text /\ taken \in Nat
    BY <1>1, <1>2 DEF Text
  <2>2. QED
    BY <1>2, <1>3, <1>4, <1>5, <2>1

\* Lines may be joined in any order.
LEMMA LinesAssociate == \A a, b, c \in Seq(Text) : a \o (b \o c) = (a \o b) \o c
<1> DEFINE S == Text
<1> HIDE DEF S
<1>1. \A a, b, c \in Seq(S) : a \o (b \o c) = (a \o b) \o c
  BY SMTT(20), ConcatAssociative
<1>2. QED
  BY <1>1 DEF S

\* What the first lines of what is taken say is the beginning of what the stream says.
LEMMA SaidBefore ==
    ASSUME stream \in Streams, taken \in 0..Len(stream), NEW n \in 0..Len(AllLines)
    PROVE  IsPrefix(Said(SubSeq(AllLines, 1, n)).events, Events(stream))
<1> DEFINE p == SubSeq(AllLines, 1, n)
           q == SubSeq(AllLines, n + 1, Len(AllLines))
           r == Cut(Cut(Taken).rest \o SubSeq(stream, taken + 1, Len(stream))).lines
<1>1. /\ Taken \in Text /\ SubSeq(stream, taken + 1, Len(stream)) \in Text
      /\ Taken \o SubSeq(stream, taken + 1, Len(stream)) = stream
      /\ AllLines \in Seq(Text) /\ Cut(Taken).rest \in Text
  BY TakenTypes
<1>2. p \in Seq(Text) /\ q \in Seq(Text) /\ p \o q = AllLines
  BY <1>1, SplitAt
<1>3. r \in Seq(Text)
  <2>1. Cut(Taken).rest \o SubSeq(stream, taken + 1, Len(stream)) \in Text
    BY <1>1, ConcatProperties DEF Text
  <2>2. QED
    BY <2>1, CutTypes
<1>4. Cut(stream).lines = AllLines \o r
  <2>1. Cut(stream) = [lines |-> Cut(Taken).lines \o r,
                       rest  |-> Cut(Cut(Taken).rest \o SubSeq(stream, taken + 1, Len(stream))).rest]
    BY <1>1, CutOfConcat, Zenon
  <2>2. AllLines = Cut(Taken).lines
    BY DEF AllLines
  <2> HIDE DEF r
  <2>3. \A a, b : [lines |-> a, rest |-> b].lines = a
    OBVIOUS
  <2>4. QED
    BY <2>1, <2>2, <2>3, Zenon
<1>5. Cut(stream).lines = p \o (q \o r)
  <2>1. p \o (q \o r) = (p \o q) \o r
    BY <1>2, <1>3, LinesAssociate, Zenon
  <2>2. QED
    BY <1>2, <1>4, <2>1
<1>6. q \o r \in Seq(Text)
  BY <1>2, <1>3, ConcatProperties
<1>7. PICK u \in Seq(Field) : Said(p \o (q \o r)).events = Said(p).events \o u
  BY <1>2, <1>6, SaidGrows
<1>8. Said(p).events \in Seq(Field)
  BY <1>2, SaidTypes
<1>9. IsPrefix(Said(p).events, Said(p).events \o u)
  BY <1>7, <1>8, PartsOfConcat
<1>10. QED
  BY <1>5, <1>7, <1>9 DEF Events

\* While the stream is read, what was handed over is the beginning of what it says; and
\* all of it, once the stream and its lines are used up.
LEMMA AccountedInOrder ==
    ASSUME stream \in Streams, taken \in 0..Len(stream), Accounted
    PROVE  /\ IsPrefix(seen, Events(stream)) /\ seen \in Seq(Field) /\ field \in Field
           /\ taken = Len(stream) /\ lines = <<>> => seen = Events(stream)
<1>1. PICK n \in 0..Len(AllLines) :
          /\ lines = SubSeq(AllLines, n + 1, Len(AllLines))
          /\ Said(SubSeq(AllLines, 1, n)) = [field |-> field, events |-> seen]
  BY DEF Accounted
<1>2. AllLines \in Seq(Text) /\ Len(AllLines) \in Nat /\ stream \in Text
  BY TakenTypes
<1>3. Said(SubSeq(AllLines, 1, n)).events = seen /\ Said(SubSeq(AllLines, 1, n)).field = field
  BY <1>1
<1>4. IsPrefix(seen, Events(stream))
  BY <1>3, SaidBefore
<1>5. seen \in Seq(Field) /\ field \in Field
  <2>1. SubSeq(AllLines, 1, n) \in Seq(Text)
    BY <1>2, SplitAt
  <2>2. QED
    BY <1>3, <2>1, SaidTypes
<1>6. ASSUME taken = Len(stream), lines = <<>> PROVE seen = Events(stream)
  <2>1. Taken = stream
    BY <1>2, <1>6, SubSeqFull DEF Taken, Text
  <2>2. SubSeq(AllLines, 1, n) = AllLines
    <3>1. SubSeq(AllLines, 1, n) \o <<>> = AllLines /\ SubSeq(AllLines, 1, n) \in Seq(Text)
      BY <1>1, <1>2, <1>6, SplitAt
    <3>2. QED
      BY <3>1, ConcatEmptySeq
  <2>3. QED
    BY <1>3, <2>1, <2>2 DEF Events, AllLines
<1>7. QED
  BY <1>4, <1>5, <1>6

\* Steps that touch none of it
LEMMA AccountedStays ==
    ASSUME Accounted, UNCHANGED <<stream, taken, buffer, lines, field, seen>>
    PROVE  Accounted'
  BY DEF Accounted, AllLines, Taken

\* A chunk that is read continues the unfinished line.
LEMMA ReadAccounts ==
    ASSUME stream \in Streams, taken \in 0..Len(stream), Accounted, lines = <<>>,
           NEW n \in 1..(Len(stream) - taken),
           taken' = taken + n,
           lines' = Cut(buffer \o SubSeq(stream, taken + 1, taken + n)).lines,
           buffer' = Cut(buffer \o SubSeq(stream, taken + 1, taken + n)).rest,
           UNCHANGED <<stream, field, seen>>
    PROVE  Accounted' /\ taken' \in 0..Len(stream)
<1> DEFINE chunk == SubSeq(stream, taken + 1, taken + n)
           more == Cut(buffer \o chunk)
<1>1. /\ stream \in Text /\ Len(stream) \in Nat /\ taken \in Nat /\ Taken \in Text
      /\ AllLines \in Seq(Text) /\ Len(AllLines) \in Nat /\ Cut(Taken).rest \in Text
  BY TakenTypes
<1>2. taken' \in 0..Len(stream) /\ taken' = taken + n
  BY <1>1
<1>3. Taken' = Taken \o chunk /\ chunk \in Text
  <2>1. /\ 1 \in 1..(Len(stream) + 1) /\ taken \in (1 - 1)..Len(stream)
        /\ taken + n \in taken..Len(stream)
    BY <1>1
  <2>2. stream \in Seq(Symbol)
    BY <1>1 DEF Text
  <2>3. Taken \o chunk = SubSeq(stream, 1, taken + n)
    BY <2>1, <2>2, ConcatAdjacentSubSeq DEF Taken
  <2>4. chunk \in Seq(Symbol)
    <3>1. taken + 1 \in Int /\ taken + n \in Int
      BY <1>1
    <3>2. \A i \in (taken + 1)..(taken + n) : stream[i] \in Symbol
      <4>1. \A i \in (taken + 1)..(taken + n) : i \in 1..Len(stream)
        BY <1>1
      <4>2. QED
        BY <2>2, <4>1, ElementOfSeq
    <3>3. QED
      BY <3>1, <3>2, SubSeqProperties
  <2>5. Taken' = SubSeq(stream, 1, taken + n)
    BY DEF Taken
  <2>6. QED
    BY <2>3, <2>4, <2>5 DEF Text
<1>4. buffer = Cut(Taken).rest /\ lines' = more.lines /\ buffer' = more.rest
  BY DEF Accounted
<1>5. more.lines \in Seq(Text)
  <2>1. buffer \o chunk \in Text
    BY <1>1, <1>3, <1>4, ConcatProperties DEF Text
  <2>2. QED
    BY <2>1, CutTypes
<1>6. AllLines' = AllLines \o more.lines /\ buffer' = Cut(Taken').rest
  <2>1. Cut(Taken \o chunk) = [lines |-> AllLines \o more.lines, rest |-> more.rest]
    BY <1>1, <1>3, <1>4, CutOfConcat DEF AllLines
  <2>2. Cut(Taken') = [lines |-> AllLines \o more.lines, rest |-> more.rest]
    BY <1>3, <2>1
  <2>3. Cut(Taken').lines = AllLines \o more.lines /\ Cut(Taken').rest = more.rest
    BY SMTT(20), <2>2
  <2>4. AllLines' = Cut(Taken').lines
    BY DEF AllLines
  <2>5. QED
    BY <1>4, <2>3, <2>4
<1>7. Said(AllLines) = [field |-> field, events |-> seen]
  <2>1. PICK k \in 0..Len(AllLines) :
            /\ lines = SubSeq(AllLines, k + 1, Len(AllLines))
            /\ Said(SubSeq(AllLines, 1, k)) = [field |-> field, events |-> seen]
    BY DEF Accounted
  <2>2. SubSeq(AllLines, 1, k) \o <<>> = AllLines /\ SubSeq(AllLines, 1, k) \in Seq(Text)
    BY <1>1, <2>1, SplitAt
  <2>3. SubSeq(AllLines, 1, k) = AllLines
    BY <2>2, ConcatEmptySeq
  <2>4. QED
    BY <2>1, <2>3
<1>8. /\ Len(AllLines) \in 0..Len(AllLines')
      /\ lines' = SubSeq(AllLines', Len(AllLines) + 1, Len(AllLines'))
      /\ Said(SubSeq(AllLines', 1, Len(AllLines))) = [field |-> field', events |-> seen']
  <2>1. /\ Len(AllLines) \in 0..Len(AllLines \o more.lines)
        /\ SubSeq(AllLines \o more.lines, 1, Len(AllLines)) = AllLines
        /\ SubSeq(AllLines \o more.lines, Len(AllLines) + 1, Len(AllLines \o more.lines)) = more.lines
    BY <1>1, <1>5, PartsOfConcat
  <2>2. QED
    BY <1>4, <1>6, <1>7, <2>1
<1>9. Accounted'
  <2>1. \E k \in 0..Len(AllLines') :
            /\ lines' = SubSeq(AllLines', k + 1, Len(AllLines'))
            /\ Said(SubSeq(AllLines', 1, k)) = [field |-> field', events |-> seen']
    BY <1>8
  <2>2. QED
    BY <1>6, <2>1 DEF Accounted
<1>10. QED
  BY <1>2, <1>9

\* A line that is parsed, unless it ends an event that an abort holds back
LEMMA ParseAccounts ==
    ASSUME stream \in Streams, taken \in 0..Len(stream), Accounted, lines # <<>>,
           lines' = Tail(lines), field' = ProcessLine(field, Head(lines)),
           seen' = IF Dispatches(field, Head(lines)) THEN Append(seen, field) ELSE seen,
           UNCHANGED <<stream, taken, buffer>>
    PROVE  Accounted'
<1>1. PICK n \in 0..Len(AllLines) :
          /\ lines = SubSeq(AllLines, n + 1, Len(AllLines))
          /\ Said(SubSeq(AllLines, 1, n)) = [field |-> field, events |-> seen]
  BY DEF Accounted
<1>2. AllLines \in Seq(Text) /\ Len(AllLines) \in Nat
  BY TakenTypes
<1>3. /\ n + 1 \in 0..Len(AllLines) /\ AllLines[n + 1] \in Text
      /\ Head(lines) = AllLines[n + 1]
      /\ Tail(lines) = SubSeq(AllLines, (n + 1) + 1, Len(AllLines))
      /\ SubSeq(AllLines, 1, n + 1) = Append(SubSeq(AllLines, 1, n), AllLines[n + 1])
  BY <1>1, <1>2, NextOf
<1>4. SubSeq(AllLines, 1, n) \in Seq(Text)
  BY <1>2, SplitAt
<1>5. Said(SubSeq(AllLines, 1, n + 1)) = Process([field |-> field, events |-> seen], Head(lines))
  BY <1>1, <1>3, <1>4, SaidOfAppend
<1>6. Process([field |-> field, events |-> seen], Head(lines)) = [field |-> field', events |-> seen']
  BY DEF Process
<1>7. AllLines' = AllLines /\ Cut(Taken').rest = Cut(Taken).rest
  BY DEF AllLines, Taken
<1>8. \E k \in 0..Len(AllLines') :
          /\ lines' = SubSeq(AllLines', k + 1, Len(AllLines'))
          /\ Said(SubSeq(AllLines', 1, k)) = [field |-> field', events |-> seen']
  BY <1>3, <1>5, <1>6, <1>7
<1>9. buffer' = Cut(Taken').rest
  BY <1>7 DEF Accounted
<1>10. QED
  BY <1>8, <1>9 DEF Accounted

\* One more callback
LEMMA AppendCalls ==
    ASSUME NEW s \in Seq({"open", "close", "error"}), NEW c \in {"open", "close", "error"}
    PROVE  /\ Append(s, c) \in Seq({"open", "close", "error"})
           /\ DOMAIN s = 1..Len(s) /\ Len(s) \in Nat
           /\ DOMAIN Append(s, c) = 1..(Len(s) + 1) /\ Len(Append(s, c)) = Len(s) + 1
           /\ \A i \in 1..Len(s) : Append(s, c)[i] = s[i]
           /\ Append(s, c)[Len(s) + 1] = c
<1> DEFINE S == {"open", "close", "error"}
<1> HIDE DEF S
<1>1. s \in Seq(S) /\ c \in S
  BY DEF S
<1>2. /\ Append(s, c) \in Seq(S) /\ Len(Append(s, c)) = Len(s) + 1
      /\ \A i \in 1..Len(s) : Append(s, c)[i] = s[i]
      /\ Append(s, c)[Len(s) + 1] = c
  BY <1>1, AppendProperties
<1>3. DOMAIN s = 1..Len(s) /\ Len(s) \in Nat /\ DOMAIN Append(s, c) = 1..(Len(s) + 1)
  BY <1>1, <1>2, LenProperties
<1>4. QED
  BY <1>2, <1>3 DEF S

\* A connection begins with nothing taken, said or called.
LEMMA StreamInit == Init => IInv
<1> SUFFICES ASSUME Init PROVE IInv
  OBVIOUS
<1> USE DEF Init
<1>1. stream \in Text /\ Len(stream) \in Nat
  <2>1. stream \in Seq(STRING)
    BY StreamsAssumption
  <2>2. stream \in Seq(Symbol)
    BY <2>1 DEF Symbol
  <2>3. QED
    BY <2>2, LenProperties DEF Text
<1>2. taken \in 0..Len(stream) /\ calls \in Seq(Callbacks) /\ DOMAIN calls = {}
  BY <1>1
<1>3. Taken = <<>>
  BY DEF Taken
<1>4. Cut(Taken) = NoText
  BY <1>3, CutOfAppend
<1>5. AllLines = <<>> /\ Cut(Taken).rest = <<>>
  BY <1>4 DEF AllLines, NoText
<1>6. Accounted
  <2>1. SubSeq(<<>>, 1, 0) = <<>> /\ SubSeq(<<>>, 0 + 1, 0) = <<>> /\ Len(<<>>) = 0 /\ 0 \in 0..0
    OBVIOUS
  <2>2. Said(<<>>) = [field |-> field, events |-> seen]
    BY SaidOfAppend DEF NothingSaid
  <2>3. 0 \in 0..Len(AllLines) /\ lines = SubSeq(AllLines, 0 + 1, Len(AllLines))
        /\ Said(SubSeq(AllLines, 1, 0)) = [field |-> field, events |-> seen]
    BY <1>5, <2>1, <2>2
  <2>4. \E n \in 0..Len(AllLines) :
          /\ lines = SubSeq(AllLines, n + 1, Len(AllLines))
          /\ Said(SubSeq(AllLines, 1, n)) = [field |-> field, events |-> seen]
    BY <2>3
  <2>5. QED
    BY <1>5, <2>4 DEF Accounted
<1>7. EventsInOrder
  BY <1>2, <1>6, AccountedInOrder DEF EventsInOrder
<1>8. QED
  BY <1>2, <1>6, <1>7 DEF IInv, Unread, Parsing

\* The same of the state after a step
LEMMA AccountedBegins ==
    (stream \in Streams /\ taken \in 0..Len(stream) /\ Accounted => IsPrefix(seen, Events(stream)))'
<1>1. stream \in Streams /\ taken \in 0..Len(stream) /\ Accounted => IsPrefix(seen, Events(stream))
  BY AccountedInOrder
<1>2. QED
  BY <1>1, PTL

\* Every step of a connection keeps the inductive invariant: reading continues the
\* unfinished line, parsing says one line more, and the rest leaves the accounts alone.
LEMMA StreamStep == ASSUME IInv, Next \/ UNCHANGED vars PROVE IInv'
<1> USE DEF IInv, Unread, Parsing
<1>1. ASSUME Accounted', taken' \in 0..Len(stream), stream' = stream,
             calls' = calls \/ calls' = Append(calls, "error"),
             phase \in Unread \cup Parsing, phase' \in Unread \cup Parsing,
             phase' \in Unread => lines' = <<>>
      PROVE  IInv'
  <2>1. IsPrefix(seen', Events(stream'))
    BY <1>1, AccountedBegins
  <2>2. calls' \in Seq(Callbacks) /\ \A i \in DOMAIN calls' : calls'[i] # "close"
    BY <1>1, AppendCalls DEF Callbacks
  <2>3. QED
    BY <1>1, <2>1, <2>2 DEF EventsInOrder
<1>2. CASE Respond
  <2>1. Accounted'
    BY <1>2, AccountedStays DEF Respond
  <2>2. QED
    BY <1>1, <1>2, <2>1 DEF Respond
<1>3. CASE Open
  <2>1. Accounted'
    BY <1>3, AccountedStays DEF Open
  <2>2. seen' = seen /\ stream' = stream /\ taken' = taken /\ lines' = lines /\ aborted' = aborted
    BY <1>3 DEF Open
  <2>3. Append(calls, "open") \in Seq(Callbacks) /\ Append(Append(calls, "open"), "error") \in Seq(Callbacks)
    BY AppendCalls DEF Callbacks
  <2>4. calls \o <<"open">> = Append(calls, "open")
        /\ calls \o <<"open", "error">> = Append(Append(calls, "open"), "error")
    OBVIOUS
  <2>5. phase = "fetched"
        /\ \/ /\ phase' \in {"drained", "reading"} /\ (phase' = "drained" => aborted)
              /\ calls' = Append(calls, "open")
           \/ /\ phase' = "done"
              /\ \/ calls' = Append(calls, "open")
                 \/ calls' = Append(Append(calls, "open"), "error")
    BY <1>3, <2>4 DEF Open
  <2>6. calls' \in Seq(Callbacks) /\ \A i \in DOMAIN calls' : calls'[i] # "close"
    <3>1. \A i \in DOMAIN Append(calls, "open") : Append(calls, "open")[i] # "close"
      BY <2>5, AppendCalls DEF Callbacks
    <3>2. \A i \in DOMAIN Append(Append(calls, "open"), "error") :
             Append(Append(calls, "open"), "error")[i] # "close"
      BY <2>3, <3>1, AppendCalls DEF Callbacks
    <3>3. QED
      BY <2>3, <2>5, <3>1, <3>2
  <2>7. calls' # <<>> => calls'[Len(calls')] # "close"
    BY <2>6
  <2>8. QED
    BY <2>1, <2>2, <2>5, <2>6, <2>7 DEF EventsInOrder
<1>4. ASSUME Fail \/ (Throw /\ phase = "reporting")
      PROVE  IInv'
  <2>1. seen' = seen /\ stream' = stream /\ taken' = taken /\ lines' = lines /\ aborted' = aborted
        /\ phase # "done" /\ phase' = "done"
    BY <1>4 DEF Fail, Throw, Report, End
  <2>2. calls' = calls \/ calls' = Append(calls, "error")
    BY <1>4 DEF Fail, Throw, Report, End
  <2>3. calls' \in Seq(Callbacks) /\ \A i \in DOMAIN calls' : calls'[i] # "close"
    BY <2>1, <2>2, AppendCalls DEF Callbacks
  <2>4. calls' # <<>> => calls'[Len(calls')] # "close"
    <3>1. calls' # <<>> => Len(calls') \in DOMAIN calls'
      BY <2>3
    <3>2. QED
      BY <2>3, <3>1
  <2>5. QED
    BY <2>1, <2>3, <2>4 DEF EventsInOrder
<1>5. CASE Read
  <2>1. PICK n \in 1..(Len(stream) - taken) :
            /\ taken' = taken + n
            /\ lines' = Cut(buffer \o SubSeq(stream, taken + 1, taken + n)).lines
            /\ buffer' = Cut(buffer \o SubSeq(stream, taken + 1, taken + n)).rest
    BY <1>5 DEF Read
  <2>2. phase = "reading" /\ phase' = "parsing" /\ UNCHANGED <<stream, field, aborted, seen, calls>>
    BY <1>5 DEF Read
  <2>3. Accounted' /\ taken' \in 0..Len(stream)
    BY <2>1, <2>2, ReadAccounts
  <2>4. QED
    BY <1>1, <2>2, <2>3
<1>6. CASE ReadDone
  <2>1. /\ phase = "reading" /\ phase' = "drained" /\ taken = Len(stream)
        /\ UNCHANGED <<stream, taken, lines, aborted, seen, calls>>
    BY <1>6 DEF ReadDone
  <2>2. seen = Events(stream)
    BY <2>1, AccountedInOrder
  <2>3. QED
    BY <2>1, <2>2 DEF EventsInOrder
<1>7. CASE Parse
  <2>1. /\ phase = "parsing" /\ lines # <<>> /\ lines' = Tail(lines)
        /\ field' = ProcessLine(field, Head(lines))
        /\ UNCHANGED <<stream, taken, buffer, aborted>>
    BY <1>7 DEF Parse
  <2>2. CASE Dispatches(field, Head(lines)) /\ aborted
    <3>1. phase' = "drained" /\ seen' = seen /\ calls' = calls
      BY <1>7, <2>2 DEF Parse
    <3>2. QED
      BY <2>1, <2>2, <3>1 DEF EventsInOrder
  <2>3. CASE ~(Dispatches(field, Head(lines)) /\ aborted)
    <3>1. /\ phase' \in Parsing /\ (calls' = calls \/ calls' = Append(calls, "error"))
          /\ seen' = IF Dispatches(field, Head(lines)) THEN Append(seen, field) ELSE seen
      BY <1>7, <2>1, <2>3 DEF Parse, HandleSseEvent, Report
    <3>2. Accounted'
      BY <2>1, <3>1, ParseAccounts
    <3>3. QED
      BY <1>1, <2>1, <3>1, <3>2
  <2>4. QED
    BY <2>2, <2>3
<1>8. CASE Parsed
  <2>1. Accounted'
    BY <1>8, AccountedStays DEF Parsed
  <2>2. /\ phase = "parsing" /\ lines = <<>>
        /\ phase' \in {"drained", "reading"} /\ (phase' = "drained" => aborted)
        /\ UNCHANGED <<stream, taken, lines, aborted, seen, calls>>
    BY <1>8 DEF Parsed
  <2>3. QED
    BY <2>1, <2>2 DEF EventsInOrder
<1>9. CASE Finish
  <2>1. /\ phase = "drained" /\ phase' = "done"
        /\ UNCHANGED <<stream, taken, lines, aborted, seen>>
    BY <1>9 DEF Finish, End
  <2>2. Append(calls, "close") \in Seq(Callbacks) /\ Append(Append(calls, "close"), "error") \in Seq(Callbacks)
    BY AppendCalls DEF Callbacks
  <2>3. calls \o <<"close", "error">> = Append(Append(calls, "close"), "error")
    OBVIOUS
  <2>4. calls' \in Seq(Callbacks) /\ (aborted => calls' = calls)
    BY <1>9, <2>2, <2>3 DEF Finish, End
  <2>5. aborted => (calls # <<>> => calls[Len(calls)] # "close")
    BY <2>1
  <2>6. ~aborted => seen = Events(stream)
    BY <2>1
  <2>7. QED
    BY <2>1, <2>4, <2>5, <2>6 DEF EventsInOrder
<1>10. CASE Close
  <2>1. aborted' = TRUE /\ UNCHANGED <<stream, taken, buffer, lines, field, phase, seen, calls>>
    BY <1>10 DEF Close
  <2>2. Accounted => Accounted'
    BY <2>1, AccountedStays
  <2>3. QED
    BY <2>1, <2>2 DEF EventsInOrder
<1>11. CASE UNCHANGED vars
  <2>1. UNCHANGED <<stream, taken, buffer, lines, field, phase, aborted, seen, calls>>
    BY <1>11 DEF vars
  <2>2. Accounted => Accounted'
    BY <2>1, AccountedStays
  <2>3. QED
    BY <2>1, <2>2 DEF EventsInOrder
<1>12. CASE Return \/ (Throw /\ phase # "reporting")
  <2>1. /\ phase \in Parsing /\ phase' \in Parsing
        /\ calls' = calls \/ calls' = Append(calls, "error")
        /\ UNCHANGED <<stream, taken, buffer, lines, field, aborted, seen>>
    BY <1>12 DEF Return, Throw, Report
  <2>2. Accounted'
    BY <2>1, AccountedStays
  <2>3. QED
    BY <1>1, <2>1, <2>2
<1>13. QED
  BY <1>2, <1>3, <1>4, <1>5, <1>6, <1>7, <1>8, <1>9, <1>10, <1>11, <1>12 DEF Next

\* The inductive invariant holds of every connection.
THEOREM StreamInvariant == Spec => []IInv
<1>1. Init => IInv
  BY StreamInit
<1>2. IInv /\ [Next]_vars => IInv'
  BY StreamStep
<1>3. QED
  BY <1>1, <1>2, PTL DEF Spec

\* Whatever chunks the network cuts a stream into, the events handed over are a prefix of
\* those it says, and all of them once the caller is told that it closed.
THEOREM EventsArriveInOrder == Spec => []EventsInOrder
<1>1. IInv => EventsInOrder
  BY DEF IInv
<1>2. QED
  BY <1>1, StreamInvariant, PTL

\* After close() no event is handed over and the end is not reported: the caller hears an
\* onOpen when the response had arrived, and one onError at most, when the callback of the
\* event that was being handled throws.
THEOREM ClosedStreamsAreSilent == Spec => SilentAfterClose
<1> DEFINE Silent ==
        /\ seen' = seen
        /\ \/ calls' = calls
           \/ phase = "fetched" /\ calls' = Append(calls, "open")
           \/ phase \in {"handling", "refusing"} /\ phase' \notin {"handling", "refusing"}
              /\ calls' = Append(calls, "error")
<1>1. IInv /\ [Next]_vars => [aborted => Silent]_vars
  <2> SUFFICES ASSUME IInv, Next, aborted PROVE Silent
    OBVIOUS
  <2>1. calls \in Seq(Callbacks)
    BY DEF IInv
  <2>2. calls \o <<"open">> = Append(calls, "open")
    BY <2>1
  <2>3. CASE Open
    BY <2>2, <2>3 DEF Open
  <2>4. CASE Throw
    BY <2>4 DEF Throw, Report, End
  <2>5. CASE ~Open /\ ~Throw
    BY <2>5 DEF Next, Respond, Fail, Read, ReadDone, Parse, Return, Parsed, Finish, Close, End
  <2>6. QED
    BY <2>3, <2>4, <2>5
<1>2. QED
  BY <1>1, StreamInvariant, PTL DEF Spec, SilentAfterClose
=============================================================================
