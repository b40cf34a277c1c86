-------------------------- MODULE TableStoreProofs --------------------------
(***************************************************************************)
(* TableStore, proved: the index of a table is what a rebuild of its file  *)
(* gives, an acknowledged row is in its file for ever, and the tables are  *)
(* append-only lists with true answers, for any schema directory, data     *)
(* files, statements and line length, as long as every row that may be     *)
(* inserted can be read by one fgets (RowsFit).                            *)
(*                                                                         *)
(* The argument, in the order of the module.  A loop over a text is the    *)
(* recursive function Through; that it takes one step more for one         *)
(* character more is shown by induction over the natural numbers, for each *)
(* step operator (fgets, CSV parser, line counter, SELECT's scan).  What   *)
(* fgets returns of f \o g is then what it returns of f, followed by the   *)
(* lines of g: the newline that append_row_csv puts first adds no line     *)
(* that is counted, and a row that fits adds one.  The parser gives back   *)
(* the fields of that line, by induction over their characters and then    *)
(* over the fields.  With that every step preserves the invariant Inv;     *)
(* and each is a step of AppendOnlyTable, or leaves its tables alone.      *)
(***************************************************************************)
EXTENDS TableStore, WellFoundedInduction, SequenceTheorems, TLAPS
-----------------------------------------------------------------------------
(* Loops over the characters of a text.                                    *)

\* A set of natural numbers with 0 and the successors of all in it has them all.
LEMMA SetInduction ==
  ASSUME NEW T \in SUBSET Nat, 0 \in T, \A n \in T : n + 1 \in T
  PROVE  T = Nat
<1>. SUFFICES ASSUME Nat \ T # {} PROVE FALSE
  OBVIOUS
<1>1. PICK x \in Nat \ T : \A y \in Nat \ T : ~(<<y, x>> \in OpToRel(<, Nat))
  BY NatLessThanWellFounded, WFMin
<1>2. \A y \in Nat \ T : ~(y < x)
  BY <1>1 DEF OpToRel
<1>3. x # 0 /\ x - 1 \in Nat /\ x - 1 < x /\ x = (x - 1) + 1
  OBVIOUS
<1>4. x - 1 \in T
  BY <1>2, <1>3
<1>. QED
  BY <1>3, <1>4

\* f holds what a loop of so many rounds has after each of them.
IsLoop(f, first, step, rounds) ==
  f[0] = first /\ \A n \in 1 .. rounds : f[n] = step[n][f[n - 1]]

\* A loop of any number of rounds, each a step, has a value after every round.
LEMMA Iteration ==
  ASSUME NEW S, NEW first \in S, NEW rounds \in Nat, NEW step \in [Nat -> [S -> S]]
  PROVE  \E f \in [0 .. rounds -> S] : IsLoop(f, first, step, rounds)
<1>. DEFINE Runs(f, m) == f[0] = first /\ \A n \in 1 .. m : f[n] = step[n][f[n - 1]]
            T == {m \in Nat : \E f \in [0 .. m -> S] : Runs(f, m)}
<1>1. 0 \in T
  <2>1. [n \in 0 .. 0 |-> first] \in [0 .. 0 -> S] /\ Runs([n \in 0 .. 0 |-> first], 0)
    OBVIOUS
  <2>. QED
    BY <2>1
<1>2. ASSUME NEW m \in Nat, NEW f \in [0 .. m -> S], Runs(f, m)
      PROVE  \E g \in [0 .. m + 1 -> S] : Runs(g, m + 1)
  <2>. DEFINE next == step[m + 1][f[m]]
              g    == [n \in 0 .. m + 1 |-> IF n <= m THEN f[n] ELSE next]
  <2>1. next \in S
    OBVIOUS
  <2>2. g \in [0 .. m + 1 -> S]
    BY <2>1
  <2>3. g[0] = first /\ g[m + 1] = step[m + 1][g[m]]
    BY <1>2
  <2>4. ASSUME NEW n \in 1 .. m PROVE g[n] = step[n][g[n - 1]]
    <3>1. n \in 0 .. m + 1 /\ n - 1 \in 0 .. m + 1 /\ n <= m /\ n - 1 <= m
      OBVIOUS
    <3>. QED
      BY <1>2, <3>1
  <2>. HIDE DEF g
  <2>5. Runs(g, m + 1)
    <3>1. \A n \in 1 .. m + 1 : n \in 1 .. m \/ n = m + 1
      OBVIOUS
    <3>. QED
      BY <2>3, <2>4, <3>1
  <2>. QED
    BY <2>2, <2>5
<1>. HIDE DEF Runs
<1>3. ASSUME NEW m \in T PROVE m + 1 \in T
  <2>1. m \in Nat /\ \E f \in [0 .. m -> S] : Runs(f, m)
    OBVIOUS
  <2>2. m + 1 \in Nat /\ \E g \in [0 .. m + 1 -> S] : Runs(g, m + 1)
    BY <1>2, <2>1
  <2>. QED
    BY <2>2
<1>4. T = Nat
  <2>. HIDE DEF T
  <2>1. T \in SUBSET Nat
    BY DEF T
  <2>. QED
    BY <1>1, <1>3, <2>1, SetInduction
<1>. QED
  BY <1>4 DEF Runs, IsLoop


\* Every sequence is built by appending.
LEMMA AppendInduction ==
  ASSUME NEW C, NEW T \in SUBSET Seq(C), <<>> \in T, \A t \in T, c \in C : Append(t, c) \in T
  PROVE  T = Seq(C)
<1>. DEFINE N == {n \in Nat : \A t \in Seq(C) : Len(t) = n => t \in T}
<1>1. 0 \in N
  <2>1. \A t \in Seq(C) : Len(t) = 0 => t = <<>>
    BY EmptySeq
  <2>. QED
    BY <2>1
<1>2. ASSUME NEW n \in N PROVE n + 1 \in N
  <2>1. ASSUME NEW t \in Seq(C), Len(t) = n + 1 PROVE t \in T
    <3>1. n \in Nat /\ \A u \in Seq(C) : Len(u) = n => u \in T
      OBVIOUS
    <3>2. t # <<>>
      BY <2>1, <3>1
    <3>. DEFINE u == SubSeq(t, 1, n)
    <3>3. u \in Seq(C) /\ Len(u) = n /\ \A i \in 1 .. n : u[i] = t[i]
      BY <2>1, <3>1
    <3>4. t[n + 1] \in C
      BY <2>1, <3>1
    <3>. HIDE DEF u
    <3>5. t = Append(u, t[n + 1])
      <4>1. Append(u, t[n + 1]) \in Seq(C) /\ Len(Append(u, t[n + 1])) = n + 1
        BY <3>3, <3>4
      <4>2. \A i \in 1 .. n + 1 : Append(u, t[n + 1])[i] = t[i]
        <5>. DEFINE x == t[n + 1]
        <5>. HIDE DEF x
        <5>1. \A i \in 1 .. n : Append(u, x)[i] = u[i]
          BY <3>1, <3>3
        <5>2. Append(u, x)[n + 1] = x
          BY <3>1, <3>3
        <5>3. \A i \in 1 .. n + 1 : i \in 1 .. n \/ i = n + 1
          BY <3>1
        <5>. QED
          BY <3>3, <5>1, <5>2, <5>3 DEF x
      <4>. QED
        BY <2>1, <4>1, <4>2, SeqEqual
    <3>. QED
      BY <3>1, <3>3, <3>4, <3>5
  <2>. QED
    BY <2>1
<1>3. N = Nat
  <2>1. N \in SUBSET Nat
    OBVIOUS
  <2>. HIDE DEF N
  <2>. QED
    BY <1>1, <1>2, <2>1, SetInduction
<1>4. ASSUME NEW t \in Seq(C) PROVE t \in T
  <2>1. Len(t) \in N
    BY <1>3
  <2>. QED
    BY <2>1
<1>. QED
  BY <1>4

\* Read leads from S to S; f is what it makes of text, character by character.
ReadTyped(S, C) == \A s \in S : \A c \in C : Read(s, c) \in S
ReadPass(f, base, text) ==
  /\ f[0] = base
  /\ \A n \in 1 .. Len(text) : f[n] = Read(f[n - 1], text[n])
  /\ Through(Read, base, text) = f[Len(text)]

LEMMA ReadLoop ==
  ASSUME NEW S, NEW C, NEW base \in S, NEW text \in Seq(C), ReadTyped(S, C)
  PROVE  \E f \in [0 .. Len(text) -> S] : ReadPass(f, base, text)
<1>. DEFINE step == [n \in Nat |-> [s \in S |->
                      IF n \in 1 .. Len(text) THEN Read(s, text[n]) ELSE s]]
<1>1. Len(text) \in Nat /\ \A n \in 1 .. Len(text) : text[n] \in C
  OBVIOUS
<1>2. step \in [Nat -> [S -> S]]
  BY <1>1 DEF ReadTyped
<1>3. PICK f \in [0 .. Len(text) -> S] : IsLoop(f, base, step, Len(text))
  <2>. HIDE DEF step
  <2>. QED
    BY <1>1, <1>2, Iteration
<1>4. ASSUME NEW n \in 1 .. Len(text) PROVE f[n] = Read(f[n - 1], text[n])
  <2>1. n \in Nat /\ n - 1 \in 0 .. Len(text)
    BY <1>1
  <2>2. f[n] = step[n][f[n - 1]]
    BY <1>3 DEF IsLoop
  <2>3. f[n - 1] \in S
    <3>. HIDE DEF step
    <3>. QED
      BY <1>3, <2>1
  <2>. QED
    BY <2>1, <2>2, <2>3
<1>5. f[0] = base
  BY <1>3 DEF IsLoop
<1>. HIDE DEF step
<1>. DEFINE Runs(g) == g = [i \in 0 .. Len(text) |->
                              IF i = 0 THEN base
                              ELSE With(g[i - 1], LAMBDA s : Read(s, text[i]))]
            h == CHOOSE g : Runs(g)
<1>6. Runs(f)
  <2>1. ASSUME NEW n \in 0 .. Len(text), n # 0
        PROVE  f[n] = With(f[n - 1], LAMBDA s : Read(s, text[n]))
    <3>1. f[n] = Read(f[n - 1], text[n])
      BY <1>1, <1>4, <2>1
    <3>. QED
      BY <3>1 DEF With
  <2>. QED
    BY <1>3, <1>5, <2>1
<1>7. Runs(h)
  <2>. HIDE DEF Runs
  <2>. QED
    BY <1>6
<1>8. Through(Read, base, text) = h[Len(text)]
  BY DEF Through, With
<1>9. h[0] = base /\ \A n \in 1 .. Len(text) : h[n] = Read(h[n - 1], text[n])
  <2>1. ASSUME NEW n \in 1 .. Len(text) PROVE h[n] = Read(h[n - 1], text[n])
    <3>1. n \in 0 .. Len(text) /\ n # 0
      BY <1>1
    <3>2. h[n] = With(h[n - 1], LAMBDA s : Read(s, text[n]))
      BY <1>7, <3>1
    <3>. HIDE DEF h
    <3>. QED
      BY <3>2 DEF With
  <2>2. 0 \in 0 .. Len(text)
    BY <1>1
  <2>. QED
    BY <1>7, <2>1, <2>2
<1>. HIDE DEF h
<1>10. \A n \in 0 .. Len(text) : h[n] = f[n]
  <2>. DEFINE T == {n \in Nat : n <= Len(text) => h[n] = f[n]}
  <2>1. 0 \in T
    BY <1>5, <1>9
  <2>2. ASSUME NEW n \in T PROVE n + 1 \in T
    BY <1>4, <1>9, <1>1
  <2>3. T = Nat
    <3>1. T \in SUBSET Nat
      OBVIOUS
    <3>. HIDE DEF T
    <3>. QED
      BY <2>1, <2>2, <3>1, SetInduction
  <2>. QED
    BY <2>3, <1>1
<1>. QED
  BY <1>1, <1>3, <1>4, <1>5, <1>8, <1>10 DEF ReadPass
\* A loop that has read t and then c.
ReadGrows(S, C, base) ==
  /\ Through(Read, base, <<>>) = base
  /\ \A t \in Seq(C) : Through(Read, base, t) \in S
  /\ \A t \in Seq(C) : \A c \in C :
       Through(Read, base, Append(t, c)) = Read(Through(Read, base, t), c)

LEMMA ReadOneMore ==
  ASSUME NEW S, NEW C, NEW base \in S, ReadTyped(S, C)
  PROVE  ReadGrows(S, C, base)
<1>1. Through(Read, base, <<>>) = base
  <2>1. <<>> \in Seq(C) /\ Len(<<>>) = 0
    OBVIOUS
  <2>2. PICK f \in [0 .. Len(<<>>) -> S] : ReadPass(f, base, <<>>)
    BY <2>1, ReadLoop
  <2>. QED
    BY <2>1, <2>2 DEF ReadPass
<1>2. ASSUME NEW t \in Seq(C) PROVE Through(Read, base, t) \in S
  <2>1. Len(t) \in 0 .. Len(t)
    OBVIOUS
  <2>2. PICK f \in [0 .. Len(t) -> S] : ReadPass(f, base, t)
    BY ReadLoop
  <2>. QED
    BY <2>1, <2>2 DEF ReadPass
<1>3. ASSUME NEW t \in Seq(C), NEW c \in C
      PROVE  Through(Read, base, Append(t, c)) = Read(Through(Read, base, t), c)
  <2>. DEFINE u == Append(t, c)
              n == Len(t)
  <2>1. /\ u \in Seq(C) /\ n \in Nat /\ Len(u) = n + 1 /\ u[n + 1] = c
        /\ \A i \in 1 .. n : u[i] = t[i]
    OBVIOUS
  <2>2. PICK f \in [0 .. Len(t) -> S] : ReadPass(f, base, t)
    BY ReadLoop
  <2>. HIDE DEF u
  <2>3. PICK g \in [0 .. Len(u) -> S] : ReadPass(g, base, u)
    BY <2>1, ReadLoop
  <2>4. f[0] = base /\ \A i \in 1 .. n : f[i] = Read(f[i - 1], t[i])
    BY <2>2 DEF ReadPass
  <2>5. g[0] = base /\ \A i \in 1 .. n + 1 : g[i] = Read(g[i - 1], u[i])
    BY <2>1, <2>3 DEF ReadPass
  <2>6. Through(Read, base, t) = f[n] /\ Through(Read, base, u) = g[n + 1]
    BY <2>1, <2>2, <2>3 DEF ReadPass
  <2>. HIDE DEF n
  <2>. DEFINE T == {i \in Nat : i <= n => f[i] = g[i]}
  <2>7. 0 \in T
    BY <2>4, <2>5
  <2>8. ASSUME NEW i \in T PROVE i + 1 \in T
    <3>1. CASE i + 1 <= n
      <4>1. i + 1 \in 1 .. n /\ i + 1 \in 1 .. n + 1 /\ (i + 1) - 1 = i /\ i <= n
        BY <2>1, <3>1
      <4>2. f[i + 1] = Read(f[i], t[i + 1])
        BY <2>4, <4>1
      <4>3. g[i + 1] = Read(g[i], u[i + 1])
        BY <2>5, <4>1
      <4>. QED
        BY <2>1, <4>1, <4>2, <4>3
    <3>2. CASE ~(i + 1 <= n)
      BY <3>2
    <3>. QED
      BY <3>1, <3>2
  <2>9. n \in T
    <3>1. T \in SUBSET Nat
      OBVIOUS
    <3>. HIDE DEF T
    <3>2. T = Nat
      BY <2>7, <2>8, <3>1, SetInduction
    <3>. QED
      BY <2>1, <3>2
  <2>10. f[n] = g[n]
    BY <2>1, <2>9
  <2>11. g[n + 1] = Read(g[n], c)
    <3>1. n + 1 \in 1 .. n + 1 /\ (n + 1) - 1 = n
      BY <2>1
    <3>. QED
      BY <2>1, <2>5, <3>1
  <2>. QED
    BY <2>6, <2>10, <2>11 DEF u
<1>. QED
  BY <1>1, <1>2, <1>3 DEF ReadGrows

\* The same of ParseStep.
\* ParseStep leads from S to S; f is what it makes of text, character by character.
ParseTyped(S, C) == \A s \in S : \A c \in C : ParseStep(s, c) \in S
ParsePass(f, base, text) ==
  /\ f[0] = base
  /\ \A n \in 1 .. Len(text) : f[n] = ParseStep(f[n - 1], text[n])
  /\ Through(ParseStep, base, text) = f[Len(text)]

LEMMA ParseLoop ==
  ASSUME NEW S, NEW C, NEW base \in S, NEW text \in Seq(C), ParseTyped(S, C)
  PROVE  \E f \in [0 .. Len(text) -> S] : ParsePass(f, base, text)
<1>. DEFINE step == [n \in Nat |-> [s \in S |->
                      IF n \in 1 .. Len(text) THEN ParseStep(s, text[n]) ELSE s]]
<1>1. Len(text) \in Nat /\ \A n \in 1 .. Len(text) : text[n] \in C
  OBVIOUS
<1>2. step \in [Nat -> [S -> S]]
  BY <1>1 DEF ParseTyped
<1>3. PICK f \in [0 .. Len(text) -> S] : IsLoop(f, base, step, Len(text))
  <2>. HIDE DEF step
  <2>. QED
    BY <1>1, <1>2, Iteration
<1>4. ASSUME NEW n \in 1 .. Len(text) PROVE f[n] = ParseStep(f[n - 1], text[n])
  <2>1. n \in Nat /\ n - 1 \in 0 .. Len(text)
    BY <1>1
  <2>2. f[n] = step[n][f[n - 1]]
    BY <1>3 DEF IsLoop
  <2>3. f[n - 1] \in S
    <3>. HIDE DEF step
    <3>. QED
      BY <1>3, <2>1
  <2>. QED
    BY <2>1, <2>2, <2>3
<1>5. f[0] = base
  BY <1>3 DEF IsLoop
<1>. HIDE DEF step
<1>. DEFINE Runs(g) == g = [i \in 0 .. Len(text) |->
                              IF i = 0 THEN base
                              ELSE With(g[i - 1], LAMBDA s : ParseStep(s, text[i]))]
            h == CHOOSE g : Runs(g)
<1>6. Runs(f)
  <2>1. ASSUME NEW n \in 0 .. Len(text), n # 0
        PROVE  f[n] = With(f[n - 1], LAMBDA s : ParseStep(s, text[n]))
    <3>1. f[n] = ParseStep(f[n - 1], text[n])
      BY <1>1, <1>4, <2>1
    <3>. QED
      BY <3>1 DEF With
  <2>. QED
    BY <1>3, <1>5, <2>1
<1>7. Runs(h)
  <2>. HIDE DEF Runs
  <2>. QED
    BY <1>6
<1>8. Through(ParseStep, base, text) = h[Len(text)]
  BY DEF Through, With
<1>9. h[0] = base /\ \A n \in 1 .. Len(text) : h[n] = ParseStep(h[n - 1], text[n])
  <2>1. ASSUME NEW n \in 1 .. Len(text) PROVE h[n] = ParseStep(h[n - 1], text[n])
    <3>1. n \in 0 .. Len(text) /\ n # 0
      BY <1>1
    <3>2. h[n] = With(h[n - 1], LAMBDA s : ParseStep(s, text[n]))
      BY <1>7, <3>1
    <3>. HIDE DEF h
    <3>. QED
      BY <3>2 DEF With
  <2>2. 0 \in 0 .. Len(text)
    BY <1>1
  <2>. QED
    BY <1>7, <2>1, <2>2
<1>. HIDE DEF h
<1>10. \A n \in 0 .. Len(text) : h[n] = f[n]
  <2>. DEFINE T == {n \in Nat : n <= Len(text) => h[n] = f[n]}
  <2>1. 0 \in T
    BY <1>5, <1>9
  <2>2. ASSUME NEW n \in T PROVE n + 1 \in T
    BY <1>4, <1>9, <1>1
  <2>3. T = Nat
    <3>1. T \in SUBSET Nat
      OBVIOUS
    <3>. HIDE DEF T
    <3>. QED
      BY <2>1, <2>2, <3>1, SetInduction
  <2>. QED
    BY <2>3, <1>1
<1>. QED
  BY <1>1, <1>3, <1>4, <1>5, <1>8, <1>10 DEF ParsePass
\* A loop that has read t and then c.
ParseGrows(S, C, base) ==
  /\ Through(ParseStep, base, <<>>) = base
  /\ \A t \in Seq(C) : Through(ParseStep, base, t) \in S
  /\ \A t \in Seq(C) : \A c \in C :
       Through(ParseStep, base, Append(t, c)) = ParseStep(Through(ParseStep, base, t), c)

LEMMA ParseOneMore ==
  ASSUME NEW S, NEW C, NEW base \in S, ParseTyped(S, C)
  PROVE  ParseGrows(S, C, base)
<1>1. Through(ParseStep, base, <<>>) = base
  <2>1. <<>> \in Seq(C) /\ Len(<<>>) = 0
    OBVIOUS
  <2>2. PICK f \in [0 .. Len(<<>>) -> S] : ParsePass(f, base, <<>>)
    BY <2>1, ParseLoop
  <2>. QED
    BY <2>1, <2>2 DEF ParsePass
<1>2. ASSUME NEW t \in Seq(C) PROVE Through(ParseStep, base, t) \in S
  <2>1. Len(t) \in 0 .. Len(t)
    OBVIOUS
  <2>2. PICK f \in [0 .. Len(t) -> S] : ParsePass(f, base, t)
    BY ParseLoop
  <2>. QED
    BY <2>1, <2>2 DEF ParsePass
<1>3. ASSUME NEW t \in Seq(C), NEW c \in C
      PROVE  Through(ParseStep, base, Append(t, c)) = ParseStep(Through(ParseStep, base, t), c)
  <2>. DEFINE u == Append(t, c)
              n == Len(t)
  <2>1. /\ u \in Seq(C) /\ n \in Nat /\ Len(u) = n + 1 /\ u[n + 1] = c
        /\ \A i \in 1 .. n : u[i] = t[i]
    OBVIOUS
  <2>2. PICK f \in [0 .. Len(t) -> S] : ParsePass(f, base, t)
    BY ParseLoop
  <2>. HIDE DEF u
  <2>3. PICK g \in [0 .. Len(u) -> S] : ParsePass(g, base, u)
    BY <2>1, ParseLoop
  <2>4. f[0] = base /\ \A i \in 1 .. n : f[i] = ParseStep(f[i - 1], t[i])
    BY <2>2 DEF ParsePass
  <2>5. g[0] = base /\ \A i \in 1 .. n + 1 : g[i] = ParseStep(g[i - 1], u[i])
    BY <2>1, <2>3 DEF ParsePass
  <2>6. Through(ParseStep, base, t) = f[n] /\ Through(ParseStep, base, u) = g[n + 1]
    BY <2>1, <2>2, <2>3 DEF ParsePass
  <2>. HIDE DEF n
  <2>. DEFINE T == {i \in Nat : i <= n => f[i] = g[i]}
  <2>7. 0 \in T
    BY <2>4, <2>5
  <2>8. ASSUME NEW i \in T PROVE i + 1 \in T
    <3>1. CASE i + 1 <= n
      <4>1. i + 1 \in 1 .. n /\ i + 1 \in 1 .. n + 1 /\ (i + 1) - 1 = i /\ i <= n
        BY <2>1, <3>1
      <4>2. f[i + 1] = ParseStep(f[i], t[i + 1])
        BY <2>4, <4>1
      <4>3. g[i + 1] = ParseStep(g[i], u[i + 1])
        BY <2>5, <4>1
      <4>. QED
        BY <2>1, <4>1, <4>2, <4>3
    <3>2. CASE ~(i + 1 <= n)
      BY <3>2
    <3>. QED
      BY <3>1, <3>2
  <2>9. n \in T
    <3>1. T \in SUBSET Nat
      OBVIOUS
    <3>. HIDE DEF T
    <3>2. T = Nat
      BY <2>7, <2>8, <3>1, SetInduction
    <3>. QED
      BY <2>1, <3>2
  <2>10. f[n] = g[n]
    BY <2>1, <2>9
  <2>11. g[n + 1] = ParseStep(g[n], c)
    <3>1. n + 1 \in 1 .. n + 1 /\ (n + 1) - 1 = n
      BY <2>1
    <3>. QED
      BY <2>1, <2>5, <3>1
  <2>. QED
    BY <2>6, <2>10, <2>11 DEF u
<1>. QED
  BY <1>1, <1>2, <1>3 DEF ParseGrows

\* The same of CountLine.
\* CountLine leads from S to S; f is what it makes of text, character by character.
CountTyped(S, C) == \A s \in S : \A c \in C : CountLine(s, c) \in S
CountPass(f, base, text) ==
  /\ f[0] = base
  /\ \A n \in 1 .. Len(text) : f[n] = CountLine(f[n - 1], text[n])
  /\ Through(CountLine, base, text) = f[Len(text)]

LEMMA CountLoop ==
  ASSUME NEW S, NEW C, NEW base \in S, NEW text \in Seq(C), CountTyped(S, C)
  PROVE  \E f \in [0 .. Len(text) -> S] : CountPass(f, base, text)
<1>. DEFINE step == [n \in Nat |-> [s \in S |->
                      IF n \in 1 .. Len(text) THEN CountLine(s, text[n]) ELSE s]]
<1>1. Len(text) \in Nat /\ \A n \in 1 .. Len(text) : text[n] \in C
  OBVIOUS
<1>2. step \in [Nat -> [S -> S]]
  BY <1>1 DEF CountTyped
<1>3. PICK f \in [0 .. Len(text) -> S] : IsLoop(f, base, step, Len(text))
  <2>. HIDE DEF step
  <2>. QED
    BY <1>1, <1>2, Iteration
<1>4. ASSUME NEW n \in 1 .. Len(text) PROVE f[n] = CountLine(f[n - 1], text[n])
  <2>1. n \in Nat /\ n - 1 \in 0 .. Len(text)
    BY <1>1
  <2>2. f[n] = step[n][f[n - 1]]
    BY <1>3 DEF IsLoop
  <2>3. f[n - 1] \in S
    <3>. HIDE DEF step
    <3>. QED
      BY <1>3, <2>1
  <2>. QED
    BY <2>1, <2>2, <2>3
<1>5. f[0] = base
  BY <1>3 DEF IsLoop
<1>. HIDE DEF step
<1>. DEFINE Runs(g) == g = [i \in 0 .. Len(text) |->
                              IF i = 0 THEN base
                              ELSE With(g[i - 1], LAMBDA s : CountLine(s, text[i]))]
            h == CHOOSE g : Runs(g)
<1>6. Runs(f)
  <2>1. ASSUME NEW n \in 0 .. Len(text), n # 0
        PROVE  f[n] = With(f[n - 1], LAMBDA s : CountLine(s, text[n]))
    <3>1. f[n] = CountLine(f[n - 1], text[n])
      BY <1>1, <1>4, <2>1
    <3>. QED
      BY <3>1 DEF With
  <2>. QED
    BY <1>3, <1>5, <2>1
<1>7. Runs(h)
  <2>. HIDE DEF Runs
  <2>. QED
    BY <1>6
<1>8. Through(CountLine, base, text) = h[Len(text)]
  BY DEF Through, With
<1>9. h[0] = base /\ \A n \in 1 .. Len(text) : h[n] = CountLine(h[n - 1], text[n])
  <2>1. ASSUME NEW n \in 1 .. Len(text) PROVE h[n] = CountLine(h[n - 1], text[n])
    <3>1. n \in 0 .. Len(text) /\ n # 0
      BY <1>1
    <3>2. h[n] = With(h[n - 1], LAMBDA s : CountLine(s, text[n]))
      BY <1>7, <3>1
    <3>. HIDE DEF h
    <3>. QED
      BY <3>2 DEF With
  <2>2. 0 \in 0 .. Len(text)
    BY <1>1
  <2>. QED
    BY <1>7, <2>1, <2>2
<1>. HIDE DEF h
<1>10. \A n \in 0 .. Len(text) : h[n] = f[n]
  <2>. DEFINE T == {n \in Nat : n <= Len(text) => h[n] = f[n]}
  <2>1. 0 \in T
    BY <1>5, <1>9
  <2>2. ASSUME NEW n \in T PROVE n + 1 \in T
    BY <1>4, <1>9, <1>1
  <2>3. T = Nat
    <3>1. T \in SUBSET Nat
      OBVIOUS
    <3>. HIDE DEF T
    <3>. QED
      BY <2>1, <2>2, <3>1, SetInduction
  <2>. QED
    BY <2>3, <1>1
<1>. QED
  BY <1>1, <1>3, <1>4, <1>5, <1>8, <1>10 DEF CountPass
\* A loop that has read t and then c.
CountGrows(S, C, base) ==
  /\ Through(CountLine, base, <<>>) = base
  /\ \A t \in Seq(C) : Through(CountLine, base, t) \in S
  /\ \A t \in Seq(C) : \A c \in C :
       Through(CountLine, base, Append(t, c)) = CountLine(Through(CountLine, base, t), c)

LEMMA CountOneMore ==
  ASSUME NEW S, NEW C, NEW base \in S, CountTyped(S, C)
  PROVE  CountGrows(S, C, base)
<1>1. Through(CountLine, base, <<>>) = base
  <2>1. <<>> \in Seq(C) /\ Len(<<>>) = 0
    OBVIOUS
  <2>2. PICK f \in [0 .. Len(<<>>) -> S] : CountPass(f, base, <<>>)
    BY <2>1, CountLoop
  <2>. QED
    BY <2>1, <2>2 DEF CountPass
<1>2. ASSUME NEW t \in Seq(C) PROVE Through(CountLine, base, t) \in S
  <2>1. Len(t) \in 0 .. Len(t)
    OBVIOUS
  <2>2. PICK f \in [0 .. Len(t) -> S] : CountPass(f, base, t)
    BY CountLoop
  <2>. QED
    BY <2>1, <2>2 DEF CountPass
<1>3. ASSUME NEW t \in Seq(C), NEW c \in C
      PROVE  Through(CountLine, base, Append(t, c)) = CountLine(Through(CountLine, base, t), c)
  <2>. DEFINE u == Append(t, c)
              n == Len(t)
  <2>1. /\ u \in Seq(C) /\ n \in Nat /\ Len(u) = n + 1 /\ u[n + 1] = c
        /\ \A i \in 1 .. n : u[i] = t[i]
    OBVIOUS
  <2>2. PICK f \in [0 .. Len(t) -> S] : CountPass(f, base, t)
    BY CountLoop
  <2>. HIDE DEF u
  <2>3. PICK g \in [0 .. Len(u) -> S] : CountPass(g, base, u)
    BY <2>1, CountLoop
  <2>4. f[0] = base /\ \A i \in 1 .. n : f[i] = CountLine(f[i - 1], t[i])
    BY <2>2 DEF CountPass
  <2>5. g[0] = base /\ \A i \in 1 .. n + 1 : g[i] = CountLine(g[i - 1], u[i])
    BY <2>1, <2>3 DEF CountPass
  <2>6. Through(CountLine, base, t) = f[n] /\ Through(CountLine, base, u) = g[n + 1]
    BY <2>1, <2>2, <2>3 DEF CountPass
  <2>. HIDE DEF n
  <2>. DEFINE T == {i \in Nat : i <= n => f[i] = g[i]}
  <2>7. 0 \in T
    BY <2>4, <2>5
  <2>8. ASSUME NEW i \in T PROVE i + 1 \in T
    <3>1. CASE i + 1 <= n
      <4>1. i + 1 \in 1 .. n /\ i + 1 \in 1 .. n + 1 /\ (i + 1) - 1 = i /\ i <= n
        BY <2>1, <3>1
      <4>2. f[i + 1] = CountLine(f[i], t[i + 1])
        BY <2>4, <4>1
      <4>3. g[i + 1] = CountLine(g[i], u[i + 1])
        BY <2>5, <4>1
      <4>. QED
        BY <2>1, <4>1, <4>2, <4>3
    <3>2. CASE ~(i + 1 <= n)
      BY <3>2
    <3>. QED
      BY <3>1, <3>2
  <2>9. n \in T
    <3>1. T \in SUBSET Nat
      OBVIOUS
    <3>. HIDE DEF T
    <3>2. T = Nat
      BY <2>7, <2>8, <3>1, SetInduction
    <3>. QED
      BY <2>1, <3>2
  <2>10. f[n] = g[n]
    BY <2>1, <2>9
  <2>11. g[n + 1] = CountLine(g[n], c)
    <3>1. n + 1 \in 1 .. n + 1 /\ (n + 1) - 1 = n
      BY <2>1
    <3>. QED
      BY <2>1, <2>5, <3>1
  <2>. QED
    BY <2>6, <2>10, <2>11 DEF u
<1>. QED
  BY <1>1, <1>2, <1>3 DEF CountGrows

-----------------------------------------------------------------------------
(* What the calls of fgets make of a file.                                 *)

LineType  == [offset : Nat, text : Text]
ReadState == [lines : Seq(LineType), offset : Nat, text : Text]

Reading(s, t) == Through(Read, s, t)
AtStart       == [lines |-> <<>>, offset |-> 0, text |-> <<>>]

\* The lines when the file ends here.
LinesOf(s) == IF s.text = <<>> THEN s.lines ELSE Cut(s).lines

\* A line that is being read has no newline yet and room for a character; all
\* characters before it are in the lines.
MidLine ==
  {s \in ReadState : /\ LF \notin Range(s.text) /\ Len(s.text) < LineMax
                     /\ s.lines = <<>> => s.offset = 0}

LEMMA ReadKeepsMidLine == ReadTyped(MidLine, Char)
<1>. SUFFICES ASSUME NEW s \in MidLine, NEW c \in Char PROVE Read(s, c) \in MidLine
  BY DEF ReadTyped
<1>. DEFINE text == Append(s.text, c)
            t    == [s EXCEPT !.text = Append(@, c)]
<1>1. s \in ReadState /\ s.text \in Text /\ Len(s.text) \in Nat /\ Len(s.text) < LineMax
  BY DEF MidLine, ReadState, Text
<1>2. text \in Text /\ Len(text) = Len(s.text) + 1
  BY <1>1 DEF Text
<1>3. t \in ReadState /\ t.text = text /\ t.lines = s.lines /\ t.offset = s.offset
  BY <1>1, <1>2 DEF ReadState
<1>4. LineMax \in Nat /\ LineMax # 0
  BY CsvAssumption
<1>. HIDE DEF t, text
<1>5. CASE c = LF \/ Len(text) = LineMax
  <2>1. Read(s, c) = Cut(t)
    BY <1>3, <1>5 DEF Read, t
  <2>2. [offset |-> t.offset, text |-> t.text] \in LineType
    BY <1>3 DEF ReadState, LineType
  <2>3. t.lines \in Seq(LineType) /\ t.offset \in Nat
    BY <1>3 DEF ReadState
  <2>4. Cut(t).lines \in Seq(LineType) /\ Cut(t).lines # <<>>
    BY <2>2, <2>3 DEF Cut
  <2>5. Cut(t) \in ReadState /\ Cut(t).text = <<>>
    BY <1>2, <1>3, <2>3, <2>4 DEF Cut, ReadState, Text
  <2>6. Range(<<>>) = {} /\ Len(<<>>) = 0
    BY DEF Range
  <2>. QED
    BY <1>4, <2>1, <2>4, <2>5, <2>6 DEF MidLine
<1>6. CASE ~(c = LF \/ Len(text) = LineMax)
  <2>1. Read(s, c) = t
    BY <1>3, <1>6 DEF Read, t
  <2>2. Len(text) < LineMax
    BY <1>1, <1>2, <1>4, <1>6
  <2>3. LF \notin Range(text)
    <3>1. \A i \in 1 .. Len(text) : text[i] # LF
      <4>1. \A i \in 1 .. Len(s.text) : text[i] = s.text[i] /\ s.text[i] # LF
        BY <1>1 DEF MidLine, Range, text, Text
      <4>2. text[Len(text)] = c
        BY <1>1, <1>2 DEF text, Text
      <4>. QED
        BY <1>1, <1>2, <1>6, <4>1, <4>2
    <3>. QED
      BY <1>2, <3>1 DEF Range, Text
  <2>. QED
    BY <1>3, <2>1, <2>2, <2>3 DEF MidLine
<1>. QED
  BY <1>5, <1>6

LEMMA StartIsMidLine == AtStart \in MidLine
BY CsvAssumption DEF AtStart, MidLine, ReadState, LineType, Text, Range

LEMMA ReadingGrows == ASSUME NEW s \in MidLine PROVE ReadGrows(MidLine, Char, s)
BY ReadKeepsMidLine, ReadOneMore

\* A text is read in two parts as it is at once.
LEMMA ReadingConcat ==
  ASSUME NEW s \in MidLine, NEW t \in Text, NEW u \in Text
  PROVE  Reading(s, t \o u) = Reading(Reading(s, t), u)
<1>. DEFINE m == Reading(s, t)
            T == {v \in Text : Reading(s, t \o v) = Reading(m, v)}
<1>1. m \in MidLine
  BY ReadingGrows DEF ReadGrows, Reading, Text
<1>2. ReadGrows(MidLine, Char, s) /\ ReadGrows(MidLine, Char, m)
  BY <1>1, ReadingGrows
<1>3. <<>> \in T
  <2>1. t \o <<>> = t /\ <<>> \in Text
    BY DEF Text
  <2>2. Reading(m, <<>>) = m
    BY <1>2 DEF ReadGrows, Reading
  <2>. QED
    BY <2>1, <2>2
<1>4. ASSUME NEW v \in T, NEW c \in Char PROVE Append(v, c) \in T
  <2>1. v \in Text /\ t \o v \in Text /\ Append(v, c) \in Text
    BY DEF Text
  <2>2. t \o Append(v, c) = Append(t \o v, c)
    BY <2>1 DEF Text
  <2>3. Reading(s, Append(t \o v, c)) = Read(Reading(s, t \o v), c)
    BY <1>2, <2>1 DEF ReadGrows, Reading, Text
  <2>4. Reading(m, Append(v, c)) = Read(Reading(m, v), c)
    BY <1>2, <2>1 DEF ReadGrows, Reading, Text
  <2>. HIDE DEF m
  <2>. QED
    BY <2>1, <2>2, <2>3, <2>4
<1>5. u \in T
  <2>1. T \in SUBSET Seq(Char)
    BY DEF Text
  <2>. HIDE DEF T
  <2>2. T = Seq(Char)
    BY <1>3, <1>4, <2>1, AppendInduction
  <2>. QED
    BY <2>2 DEF Text
<1>. QED
  BY <1>5

\* Where the line that is being read begins.
LEMMA ReadingPlace ==
  ASSUME NEW t \in Text
  PROVE  Reading(AtStart, t).offset + Len(Reading(AtStart, t).text) = Len(t)
<1>. DEFINE Place(v) == Reading(AtStart, v).offset + Len(Reading(AtStart, v).text)
            T == {v \in Text : Place(v) = Len(v)}
<1>1. ReadGrows(MidLine, Char, AtStart)
  BY StartIsMidLine, ReadingGrows
<1>2. <<>> \in T
  BY <1>1 DEF ReadGrows, Reading, AtStart, Text
<1>3. ASSUME NEW v \in T, NEW c \in Char PROVE Append(v, c) \in T
  <2>. DEFINE s == Reading(AtStart, v)
  <2>1. v \in Text /\ Append(v, c) \in Text /\ Len(Append(v, c)) = Len(v) + 1
    BY DEF Text
  <2>2. s \in MidLine
    BY <1>1, <2>1 DEF ReadGrows, Reading, Text
  <2>3. Reading(AtStart, Append(v, c)) = Read(s, c)
    BY <1>1, <2>1 DEF ReadGrows, Reading, Text
  <2>4. s.offset + Len(s.text) = Len(v)
    OBVIOUS
  <2>. HIDE DEF s
  <2>5. s \in ReadState /\ s.text \in Text /\ s.offset \in Nat /\ Len(s.text) \in Nat
    BY <2>2 DEF MidLine, ReadState, Text
  <2>6. Append(s.text, c) \in Text /\ Len(Append(s.text, c)) = Len(s.text) + 1
    BY <2>5 DEF Text
  <2>7. Read(s, c).offset + Len(Read(s, c).text) = s.offset + Len(s.text) + 1
    <3>. DEFINE r == [s EXCEPT !.text = Append(@, c)]
    <3>1. r.text = Append(s.text, c) /\ r.offset = s.offset
      BY <2>5 DEF ReadState
    <3>. HIDE DEF r
    <3>2. Read(s, c) \in {Cut(r), r}
      BY DEF Read, r
    <3>3. Cut(r).offset + Len(Cut(r).text) = s.offset + Len(s.text) + 1
      BY <2>5, <2>6, <3>1 DEF Cut
    <3>4. r.offset + Len(r.text) = s.offset + Len(s.text) + 1
      BY <2>5, <2>6, <3>1
    <3>. QED
      BY <3>2, <3>3, <3>4
  <2>. QED
    BY <2>1, <2>3, <2>4, <2>7
<1>4. t \in T
  <2>1. T \in SUBSET Seq(Char)
    BY DEF Text
  <2>. HIDE DEF T
  <2>2. T = Seq(Char)
    BY <1>2, <1>3, <2>1, AppendInduction
  <2>. QED
    BY <2>2 DEF Text
<1>. QED
  BY <1>4

\* A text that is appended where a line begins, and is short enough, is a line.
LEMMA ReadingRow ==
  ASSUME NEW s \in MidLine, s.text = <<>>,
         NEW r \in Text, LF \notin Range(r), Len(r) \in 1 .. LineMax
  PROVE  LinesOf(Reading(s, r)) = Append(s.lines, [offset |-> s.offset, text |-> r])
<1>1. ReadGrows(MidLine, Char, s)
  BY ReadingGrows
<1>2. s \in ReadState /\ LineMax \in Nat
  BY CsvAssumption DEF MidLine
<1>. DEFINE With_(t) == [s EXCEPT !.text = t]
            T == {t \in Text : Len(t) < LineMax /\ LF \notin Range(t) => Reading(s, t) = With_(t)}
<1>3. <<>> \in T
  <2>1. Reading(s, <<>>) = s
    BY <1>1 DEF ReadGrows, Reading
  <2>2. s = [s EXCEPT !.text = <<>>]
    BY <1>2 DEF ReadState
  <2>. QED
    BY <2>1, <2>2 DEF Text
<1>4. ASSUME NEW t \in Text, NEW c \in Char, LF \notin Range(Append(t, c))
      PROVE  LF \notin Range(t) /\ c # LF
  <2>1. /\ \A i \in 1 .. Len(t) : i \in DOMAIN Append(t, c) /\ Append(t, c)[i] = t[i]
        /\ Len(t) + 1 \in DOMAIN Append(t, c) /\ Append(t, c)[Len(t) + 1] = c
    BY DEF Text
  <2>2. DOMAIN t = 1 .. Len(t)
    BY DEF Text
  <2>. QED
    BY <1>4, <2>1, <2>2 DEF Range
<1>5. ASSUME NEW t \in T, NEW c \in Char, LF \notin Range(Append(t, c)), Len(t) < LineMax
      PROVE  Reading(s, Append(t, c)) =
               IF Len(t) + 1 = LineMax THEN Cut(With_(Append(t, c))) ELSE With_(Append(t, c))
  <2>1. t \in Text /\ LF \notin Range(t) /\ c # LF
    BY <1>4, <1>5
  <2>2. Reading(s, t) = With_(t)
    BY <1>5, <2>1
  <2>3. Reading(s, Append(t, c)) = Read(With_(t), c)
    BY <1>1, <2>1, <2>2 DEF ReadGrows, Reading, Text
  <2>4. With_(t).text = t /\ [With_(t) EXCEPT !.text = Append(@, c)] = With_(Append(t, c))
    BY <1>2 DEF ReadState
  <2>5. With_(Append(t, c)).text = Append(t, c) /\ Len(Append(t, c)) = Len(t) + 1
    BY <1>2, <2>1 DEF ReadState, Text
  <2>. HIDE DEF With_
  <2>. QED
    BY <2>1, <2>3, <2>4, <2>5 DEF Read
<1>6. ASSUME NEW t \in T, NEW c \in Char PROVE Append(t, c) \in T
  <2>1. t \in Text /\ Append(t, c) \in Text /\ Len(Append(t, c)) = Len(t) + 1 /\ Len(t) \in Nat
    BY DEF Text
  <2>2. ASSUME LF \notin Range(Append(t, c)), Len(t) + 1 < LineMax
        PROVE  Reading(s, Append(t, c)) = With_(Append(t, c))
    <3>1. Len(t) < LineMax /\ Len(t) + 1 # LineMax
      BY <1>2, <2>1, <2>2
    <3>. HIDE DEF T, With_
    <3>. QED
      BY <1>5, <2>2, <3>1
  <2>. HIDE DEF With_
  <2>. QED
    BY <2>1, <2>2
<1>7. T = Text
  <2>1. T \in SUBSET Seq(Char)
    BY DEF Text
  <2>. HIDE DEF T
  <2>2. T = Seq(Char)
    BY <1>3, <1>6, <2>1, AppendInduction
  <2>. QED
    BY <2>2 DEF Text
<1>8. PICK t \in Text, c \in Char : r = Append(t, c)
  <2>1. r # <<>>
    <3>1. Len(r) # 0
      BY <1>2
    <3>. QED
      BY <3>1
  <2>. QED
    BY <2>1, SequenceEmptyOrAppend DEF Text
<1>9. Len(t) + 1 = Len(r) /\ Len(t) \in Nat /\ Len(t) < LineMax
  BY <1>2, <1>8 DEF Text
<1>10. Reading(s, r) \in {Cut(With_(r)), With_(r)}
  <2>1. t \in T
    BY <1>7
  <2>. HIDE DEF T, With_
  <2>. QED
    BY <1>5, <1>8, <1>9, <2>1
<1>11. With_(r).text = r /\ With_(r).lines = s.lines /\ With_(r).offset = s.offset /\ r # <<>>
  <2>1. Len(r) # 0
    BY <1>2
  <2>. QED
    BY <1>2, <2>1 DEF ReadState
<1>. HIDE DEF With_
<1>12. LinesOf(With_(r)) = Append(s.lines, [offset |-> s.offset, text |-> r])
  BY <1>11 DEF LinesOf, Cut
<1>13. LinesOf(Cut(With_(r))) = Append(s.lines, [offset |-> s.offset, text |-> r])
  BY <1>11 DEF LinesOf, Cut
<1>. QED
  BY <1>10, <1>12, <1>13

-----------------------------------------------------------------------------
(* The lines that the readers count.                                       *)

Stripped(lines) ==
  [i \in DOMAIN lines |-> [lines[i] EXCEPT !.text = strip_line_endings(@)]]
Counted(lines) == Through(CountLine, <<>>, SubSeq(lines, 2, Len(lines)))

LEMMA LinesFromStart ==
  ASSUME NEW f \in Text
  PROVE  /\ LinesFrom(f, 0) = Stripped(LinesOf(Reading(AtStart, f)))
         /\ DataLines(f) = Counted(Stripped(LinesOf(Reading(AtStart, f))))
<1>1. SubSeq(f, 0 + 1, Len(f)) = f
  BY DEF Text
<1>2. fgets_lines(f, 0) =
        With(Reading(AtStart, f), LAMBDA end : IF end.text = <<>> THEN end.lines ELSE Cut(end).lines)
  BY <1>1 DEF fgets_lines, Reading, AtStart
<1>3. fgets_lines(f, 0) = LinesOf(Reading(AtStart, f))
  BY <1>2 DEF With, LinesOf
<1>4. LinesFrom(f, 0) = Stripped(LinesOf(Reading(AtStart, f)))
  BY <1>3 DEF LinesFrom, With, Stripped
<1>5. DataLines(f) = Counted(LinesFrom(f, 0))
  BY DEF DataLines, With, Counted
<1>. QED
  BY <1>4, <1>5

\* The greatest and the least of the places of a text.
LEMMA Ends ==
  ASSUME NEW n \in Nat, n # 0
  PROVE  Min(1 .. n) = 1 /\ Max(1 .. n) = n
<1>1. Min(1 .. n) = 1
  <2>1. 1 \in 1 .. n /\ \A y \in 1 .. n : 1 <= y
    OBVIOUS
  <2>2. \A x \in 1 .. n : (\A y \in 1 .. n : x <= y) => x = 1
    BY <2>1
  <2>. QED
    BY <2>1, <2>2 DEF Min
<1>2. Max(1 .. n) = n
  <2>1. n \in 1 .. n /\ \A y \in 1 .. n : n >= y
    OBVIOUS
  <2>2. \A x \in 1 .. n : (\A y \in 1 .. n : x >= y) => x = n
    BY <2>1
  <2>. QED
    BY <2>1, <2>2 DEF Max
<1>. QED
  BY <1>1, <1>2

\* Some of them have a greatest.
LEMMA MaxOfPlaces ==
  ASSUME NEW n \in Nat, NEW S \in SUBSET (1 .. n), S # {}
  PROVE  Max(S) \in S
<1>. DEFINE T == {m \in Nat : \A x \in S : x + m >= n => \E z \in S : \A y \in S : z >= y}
<1>1. 0 \in T
  BY DEF Max
<1>2. ASSUME NEW m \in T PROVE m + 1 \in T
  <2>1. ASSUME NEW x \in S, x + (m + 1) >= n PROVE \E z \in S : \A y \in S : z >= y
    <3>1. CASE \A y \in S : x >= y
      BY <3>1
    <3>2. CASE \E y \in S : ~(x >= y)
      <4>1. PICK y \in S : ~(x >= y)
        BY <3>2
      <4>2. y + m >= n
        BY <2>1, <4>1
      <4>. QED
        BY <4>2
    <3>. QED
      BY <3>1, <3>2
  <2>. QED
    BY <2>1
<1>3. T = Nat
  <2>1. T \in SUBSET Nat
    OBVIOUS
  <2>. HIDE DEF T
  <2>. QED
    BY <1>1, <1>2, <2>1, SetInduction
<1>4. PICK x \in S : TRUE
  OBVIOUS
<1>5. n \in T
  <2>. HIDE DEF T
  <2>. QED
    BY <1>3
<1>6. \E z \in S : \A y \in S : z >= y
  <2>1. x + n >= n
    BY <1>4
  <2>. QED
    BY <1>5, <2>1
<1>. QED
  BY <1>6 DEF Max

\* A text without line endings keeps all its characters.
LEMMA StripNothing ==
  ASSUME NEW t \in Text, Range(t) \cap Newline = {}
  PROVE  strip_line_endings(t) = t
<1>1. {i \in DOMAIN t : t[i] \notin {}} = 1 .. Len(t) /\ {i \in DOMAIN t : t[i] \notin Newline} = 1 .. Len(t)
  <2>1. \A i \in DOMAIN t : t[i] \notin Newline
    BY DEF Range
  <2>2. DOMAIN t = 1 .. Len(t)
    BY DEF Text
  <2>. QED
    BY <2>1, <2>2
<1>2. CASE t = <<>>
  BY <1>1, <1>2 DEF strip_line_endings, Between
<1>3. CASE t # <<>>
  <2>1. Len(t) \in Nat /\ Len(t) # 0 /\ 1 .. Len(t) # {}
    <3>1. Len(t) \in Nat /\ Len(t) # 0
      BY <1>3 DEF Text
    <3>. QED
      BY <3>1
  <2>2. Min(1 .. Len(t)) = 1 /\ Max(1 .. Len(t)) = Len(t)
    BY <2>1, Ends
  <2>3. SubSeq(t, 1, Len(t)) = t
    BY DEF Text
  <2>. QED
    BY <1>1, <2>1, <2>2, <2>3 DEF strip_line_endings, Between
<1>. QED
  BY <1>2, <1>3

\* A newline after it does not change a text that is stripped.
LEMMA StripNewline ==
  ASSUME NEW t \in Text
  PROVE  strip_line_endings(Append(t, LF)) = strip_line_endings(t)
<1>. DEFINE u == Append(t, LF)
            Other(v) == {i \in DOMAIN v : v[i] \notin Newline}
            All(v)   == {i \in DOMAIN v : v[i] \notin {}}
<1>1. /\ DOMAIN t = 1 .. Len(t) /\ DOMAIN u = 1 .. Len(t) + 1 /\ Len(t) \in Nat
      /\ u[Len(t) + 1] = LF /\ \A i \in 1 .. Len(t) : u[i] = t[i]
  BY DEF Text
<1>2. Len(u) = Len(t) + 1 /\ u \in Text
  <2>1. LF \in Char
    BY CsvAssumption DEF Space, Newline
  <2>. QED
    BY <2>1 DEF Text
<1>. HIDE DEF u
<1>3. Other(u) = Other(t)
  <2>1. LF \in Newline
    BY DEF Newline
  <2>2. \A i : i \in 1 .. Len(t) + 1 <=> i \in 1 .. Len(t) \/ i = Len(t) + 1
    BY <1>1
  <2>. QED
    BY <1>1, <2>1, <2>2
<1>4. All(u) = 1 .. Len(t) + 1 /\ All(t) = 1 .. Len(t)
  BY <1>1
<1>5. CASE Other(t) = {}
  BY <1>3, <1>5 DEF strip_line_endings, Between, u
<1>6. CASE Other(t) # {}
  <2>1. Len(t) # 0 /\ 1 .. Len(t) # {} /\ 1 .. Len(t) + 1 # {}
    <3>1. PICK i \in Other(t) : TRUE
      BY <1>6
    <3>2. i \in 1 .. Len(t)
      BY <1>1, <3>1
    <3>. QED
      BY <1>1, <3>2
  <2>2. Min(All(t)) = 1 /\ Min(All(u)) = 1
    <3>1. Min(1 .. Len(t)) = 1
      BY <1>1, <2>1, Ends
    <3>2. Len(t) + 1 \in Nat /\ Len(t) + 1 # 0
      BY <1>1
    <3>3. Min(1 .. Len(t) + 1) = 1
      <4>. DEFINE k == Len(t) + 1
      <4>. HIDE DEF k
      <4>1. k \in Nat /\ k # 0
        BY <3>2 DEF k
      <4>2. Min(1 .. k) = 1
        BY <4>1, Ends
      <4>. QED
        BY <4>2 DEF k
    <3>. QED
      BY <1>4, <3>1, <3>3
  <2>. DEFINE m == Max(Other(t))
  <2>3. m \in Other(t)
    <3>1. Other(t) \in SUBSET (1 .. Len(t))
      BY <1>1
    <3>. HIDE DEF Other
    <3>. QED
      BY <1>1, <1>6, <3>1, MaxOfPlaces
  <2>4. m \in 1 .. Len(t)
    BY <1>1, <2>3
  <2>. HIDE DEF m
  <2>5. SubSeq(u, 1, m) = SubSeq(t, 1, m)
    <3>1. \A i \in 1 .. m : i \in 1 .. Len(t)
      BY <1>1, <2>4
    <3>. QED
      BY <1>1, <3>1, <2>4, <1>2 DEF Text
  <2>6. strip_line_endings(t) = SubSeq(t, 1, m)
    BY <1>4, <1>6, <2>1, <2>2 DEF strip_line_endings, Between, m
  <2>7. strip_line_endings(u) = SubSeq(u, 1, m)
    BY <1>3, <1>4, <1>6, <2>1, <2>2 DEF strip_line_endings, Between, m
  <2>. QED
    BY <2>5, <2>6, <2>7 DEF u
<1>. QED
  BY <1>5, <1>6

\* What is left of a text is a text.
LEMMA StripType ==
  ASSUME NEW t \in Text
  PROVE  strip_line_endings(t) \in Text
<1>. DEFINE from == {i \in DOMAIN t : t[i] \notin {}}
            to   == {i \in DOMAIN t : t[i] \notin Newline}
<1>1. DOMAIN t = 1 .. Len(t) /\ Len(t) \in Nat
  BY DEF Text
<1>2. from = 1 .. Len(t) /\ to \in SUBSET (1 .. Len(t))
  BY <1>1
<1>3. CASE from = {} \/ to = {}
  BY <1>3 DEF strip_line_endings, Between, Text
<1>4. CASE ~(from = {} \/ to = {})
  <2>1. strip_line_endings(t) = SubSeq(t, Min(from), Max(to))
    BY <1>4 DEF strip_line_endings, Between
  <2>. HIDE DEF from, to
  <2>2. Max(to) \in 1 .. Len(t)
    BY <1>1, <1>2, <1>4, MaxOfPlaces
  <2>3. Min(from) = 1
    <3>1. Len(t) # 0
      BY <1>1, <2>2
    <3>. QED
      BY <1>1, <1>2, <3>1, Ends
  <2>. QED
    BY <1>1, <2>1, <2>2, <2>3 DEF Text
<1>. QED
  BY <1>3, <1>4

Clean(line) == [line EXCEPT !.text = strip_line_endings(@)]

LEMMA CleanType ==
  ASSUME NEW line \in LineType
  PROVE  Clean(line) \in LineType /\ Clean(line).offset = line.offset
         /\ Clean(line).text = strip_line_endings(line.text)
BY StripType DEF LineType, Clean

LEMMA StrippedType ==
  ASSUME NEW lines \in Seq(LineType)
  PROVE  Stripped(lines) \in Seq(LineType) /\ Len(Stripped(lines)) = Len(lines)
         /\ \A i \in 1 .. Len(lines) : Stripped(lines)[i] = Clean(lines[i])
<1>1. DOMAIN lines = 1 .. Len(lines) /\ Len(lines) \in Nat /\ \A i \in 1 .. Len(lines) : lines[i] \in LineType
  OBVIOUS
<1>2. Stripped(lines) = [i \in 1 .. Len(lines) |-> Clean(lines[i])]
  BY <1>1 DEF Stripped, Clean
<1>3. \A i \in 1 .. Len(lines) : Clean(lines[i]) \in LineType
  BY <1>1, CleanType
<1>. QED
  BY <1>1, <1>2, <1>3

LEMMA StrippedOneMore ==
  ASSUME NEW lines \in Seq(LineType), NEW line \in LineType
  PROVE  Stripped(Append(lines, line)) = Append(Stripped(lines), Clean(line))
<1>. DEFINE n == Len(lines)
            all == Append(lines, line)
            a == Stripped(all)
            s == Stripped(lines)
            c == Clean(line)
            b == Append(s, c)
<1>1. n \in Nat /\ all \in Seq(LineType) /\ Len(all) = n + 1 /\ all[n + 1] = line
      /\ \A i \in 1 .. n : all[i] = lines[i]
  OBVIOUS
<1>2. s \in Seq(LineType) /\ Len(s) = n /\ \A i \in 1 .. n : s[i] = Clean(lines[i])
  BY StrippedType
<1>3. c \in LineType
  BY CleanType
<1>. HIDE DEF all, s, c, n
<1>4. a \in Seq(LineType) /\ Len(a) = n + 1 /\ \A i \in 1 .. n + 1 : a[i] = Clean(all[i])
  BY <1>1, StrippedType
<1>5. b \in Seq(LineType) /\ Len(b) = n + 1 /\ b[n + 1] = c /\ \A i \in 1 .. n : b[i] = s[i]
  BY <1>1, <1>2, <1>3
<1>. HIDE DEF a, b
<1>6. \A i \in 1 .. n + 1 : a[i] = b[i]
  <2>1. \A i \in 1 .. n + 1 : i \in 1 .. n \/ i = n + 1
    BY <1>1
  <2>2. n + 1 \in 1 .. n + 1 /\ \A i \in 1 .. n : i \in 1 .. n + 1
    BY <1>1
  <2>3. a[n + 1] = b[n + 1]
    BY <1>1, <1>4, <1>5, <2>2 DEF c
  <2>4. ASSUME NEW i \in 1 .. n PROVE a[i] = b[i]
    BY <1>1, <1>2, <1>4, <1>5, <2>2
  <2>. QED
    BY <2>1, <2>3, <2>4
<1>. QED
  BY <1>4, <1>5, <1>6, SeqEqual DEF a, b, all, s, c

LEMMA CountingGrows == CountGrows(Seq(LineType), LineType, <<>>)
<1>1. CountTyped(Seq(LineType), LineType)
  BY DEF CountTyped, CountLine
<1>2. <<>> \in Seq(LineType)
  OBVIOUS
<1>. QED
  BY <1>1, <1>2, CountOneMore

LEMMA CountedOneMore ==
  ASSUME NEW lines \in Seq(LineType), NEW line \in LineType, lines # <<>>
  PROVE  /\ Counted(lines) \in Seq(LineType)
         /\ Counted(Append(lines, line)) = CountLine(Counted(lines), line)
<1>. DEFINE n == Len(lines)
            t == SubSeq(lines, 2, n)
            u == SubSeq(Append(lines, line), 2, Len(Append(lines, line)))
<1>1. n \in Nat /\ n # 0 /\ Len(Append(lines, line)) = n + 1
  <2>1. Len(lines) # 0
    OBVIOUS
  <2>. QED
    BY <2>1
<1>2. t \in Seq(LineType)
  BY <1>1
<1>3. u = Append(t, line)
  <2>1. Append(lines, line) \in Seq(LineType)
    OBVIOUS
  <2>2. u \in Seq(LineType) /\ Len(u) = n /\ \A i \in 1 .. n : u[i] = Append(lines, line)[i + 1]
    BY <1>1, <2>1
  <2>3. Append(t, line) \in Seq(LineType) /\ Len(Append(t, line)) = n
    <3>1. Len(t) = n - 1
      <4>1. 2 \in 1 .. Len(lines) + 1 /\ n \in 2 - 1 .. Len(lines)
        BY <1>1
      <4>. HIDE DEF n
      <4>2. Len(SubSeq(lines, 2, n)) = n - 2 + 1
        BY <4>1, SubSeqProperties
      <4>. QED
        BY <1>1, <4>2
    <3>. HIDE DEF t
    <3>. QED
      BY <1>1, <1>2, <3>1
  <2>4. ASSUME NEW i \in 1 .. n PROVE u[i] = Append(t, line)[i]
    BY <1>1, <1>2, <2>2
  <2>. QED
    BY <2>2, <2>3, <2>4, SeqEqual
<1>. HIDE DEF t, u
<1>4. Through(CountLine, <<>>, t) \in Seq(LineType)
  BY <1>2, CountingGrows DEF CountGrows
<1>5. Through(CountLine, <<>>, Append(t, line)) = CountLine(Through(CountLine, <<>>, t), line)
  BY <1>2, CountingGrows DEF CountGrows
<1>. QED
  BY <1>3, <1>4, <1>5 DEF Counted, t, u

\* The next row is written where a line begins.
AtLine(f) == f \in Text /\ f # <<>> /\ Reading(AtStart, f).text = <<>>

LEMMA ReadingFile ==
  ASSUME NEW f \in Text
  PROVE  /\ Reading(AtStart, f) \in MidLine
         /\ Reading(AtStart, f).lines \in Seq(LineType)
         /\ Reading(AtStart, f).text \in Text
         /\ Reading(AtStart, f).offset \in Nat
<1>1. Reading(AtStart, f) \in MidLine
  BY StartIsMidLine, ReadingGrows DEF ReadGrows, Reading, Text
<1>. QED
  BY <1>1 DEF MidLine, ReadState

\* A file that has anything has a first line.
LEMMA SomeLine ==
  ASSUME NEW f \in Text, f # <<>>
  PROVE  LinesOf(Reading(AtStart, f)) \in Seq(LineType) \ {<<>>}
<1>. DEFINE s == Reading(AtStart, f)
<1>1. s \in MidLine /\ s.lines \in Seq(LineType) /\ s.text \in Text /\ s.offset \in Nat
  BY ReadingFile
<1>2. s.offset + Len(s.text) = Len(f) /\ Len(f) # 0
  BY ReadingPlace DEF Text
<1>. HIDE DEF s
<1>3. CASE s.text = <<>>
  <2>1. s.offset # 0
    BY <1>1, <1>2, <1>3
  <2>. QED
    BY <1>1, <1>3, <2>1 DEF LinesOf, MidLine, s
<1>4. CASE s.text # <<>>
  <2>1. [offset |-> s.offset, text |-> s.text] \in LineType
    BY <1>1 DEF LineType
  <2>. QED
    BY <1>1, <1>4, <2>1 DEF LinesOf, Cut, s
<1>. QED
  BY <1>3, <1>4 DEF s

\* The newline that ends a line ends it where its readers end it anyway.
LEMMA NewlineAddsNothing ==
  ASSUME NEW f \in Text, f # <<>>
  PROVE  AtLine(Append(f, LF)) /\ DataLines(Append(f, LF)) = DataLines(f)
<1>. DEFINE s    == Reading(AtStart, f)
            g    == Append(f, LF)
            text == Append(s.text, LF)
            line == [offset |-> s.offset, text |-> text]
<1>1. s \in MidLine /\ s.lines \in Seq(LineType) /\ s.text \in Text /\ s.offset \in Nat
  BY ReadingFile
<1>2. LF \in Char
  BY CsvAssumption DEF Space, Newline
<1>3. g \in Text /\ g # <<>> /\ text \in Text /\ text # <<>>
  BY <1>1, <1>2 DEF Text
<1>4. Reading(AtStart, g) = Read(s, LF)
  BY <1>2, StartIsMidLine, ReadingGrows DEF ReadGrows, Reading, Text
<1>5. line \in LineType
  BY <1>1, <1>3 DEF LineType
<1>6. /\ LinesOf(s) \in Seq(LineType) \ {<<>>}
      /\ DataLines(f) = Counted(Stripped(LinesOf(s)))
      /\ DataLines(g) = Counted(Stripped(LinesOf(Reading(AtStart, g))))
  BY <1>3, SomeLine, LinesFromStart
<1>. HIDE DEF s, g
<1>7. Read(s, LF).text = <<>> /\ Read(s, LF).lines = Append(s.lines, line)
  <2>1. [s EXCEPT !.text = Append(@, LF)].text = text
        /\ [s EXCEPT !.text = Append(@, LF)].lines = s.lines
        /\ [s EXCEPT !.text = Append(@, LF)].offset = s.offset
    BY <1>1 DEF MidLine, ReadState
  <2>2. Read(s, LF) = Cut([s EXCEPT !.text = Append(@, LF)])
    BY DEF Read
  <2>. QED
    BY <2>1, <2>2 DEF Cut
<1>8. LinesOf(Read(s, LF)) = Append(s.lines, line)
  BY <1>7 DEF LinesOf
<1>9. Clean(line).text = strip_line_endings(s.text)
  BY <1>1, <1>5, CleanType, StripNewline
<1>10. CASE s.text = <<>>
  <2>1. LinesOf(s) = s.lines
    BY <1>10 DEF LinesOf
  <2>2. Clean(line).text = <<>>
    BY <1>9, <1>10 DEF strip_line_endings, Between
  <2>3. Stripped(Append(s.lines, line)) = Append(Stripped(s.lines), Clean(line))
    BY <1>1, <1>5, StrippedOneMore
  <2>4. Stripped(s.lines) \in Seq(LineType) /\ Stripped(s.lines) # <<>>
    <3>1. Len(s.lines) # 0 /\ Len(Stripped(s.lines)) = Len(s.lines)
      BY <1>6, <2>1, StrippedType
    <3>. QED
      BY <1>1, <3>1, StrippedType
  <2>5. Counted(Append(Stripped(s.lines), Clean(line))) = CountLine(Counted(Stripped(s.lines)), Clean(line))
    BY <1>5, <2>4, CleanType, CountedOneMore
  <2>6. DataLines(g) = DataLines(f)
    BY <1>4, <1>6, <1>8, <2>1, <2>2, <2>3, <2>5 DEF CountLine
  <2>. QED
    BY <1>3, <1>4, <1>7, <2>6 DEF AtLine, g
<1>11. CASE s.text # <<>>
  <2>. DEFINE last == [offset |-> s.offset, text |-> s.text]
  <2>1. LinesOf(s) = Append(s.lines, last)
    BY <1>11 DEF LinesOf, Cut
  <2>2. last \in LineType
    BY <1>1 DEF LineType
  <2>3. Clean(last) = Clean(line)
    <3>1. strip_line_endings(text) = strip_line_endings(s.text)
      BY <1>1, StripNewline
    <3>. QED
      BY <3>1 DEF Clean
  <2>. HIDE DEF last
  <2>4. Stripped(Append(s.lines, line)) = Stripped(Append(s.lines, last))
    BY <1>1, <1>5, <2>2, <2>3, StrippedOneMore
  <2>5. DataLines(g) = DataLines(f)
    BY <1>4, <1>6, <1>8, <2>1, <2>4
  <2>. QED
    BY <1>3, <1>4, <1>7, <2>5 DEF AtLine, g
<1>. QED
  BY <1>10, <1>11

\* What append_row_csv may write before the row.
LEMMA SeparatorAddsNothing ==
  ASSUME NEW f \in Text, f # <<>>
  PROVE  AtLine(f \o Separator(f)) /\ DataLines(f \o Separator(f)) = DataLines(f)
<1>1. CASE Last(f) # LF
  <2>1. f \o Separator(f) = Append(f, LF)
    BY <1>1 DEF Separator, Text
  <2>. QED
    BY <2>1, NewlineAddsNothing
<1>2. CASE Last(f) = LF
  <2>1. f \o Separator(f) = f
    BY <1>2 DEF Separator, Text
  <2>2. PICK t \in Text, c \in Char : f = Append(t, c)
    BY SequenceEmptyOrAppend DEF Text
  <2>3. c = LF
    BY <1>2, <2>2 DEF Last, Text
  <2>4. Reading(AtStart, f) = Read(Reading(AtStart, t), LF)
    BY <2>2, <2>3, StartIsMidLine, ReadingGrows DEF ReadGrows, Reading, Text
  <2>5. Reading(AtStart, f).text = <<>>
    BY <2>4 DEF Read, Cut
  <2>. QED
    BY <2>1, <2>5 DEF AtLine
<1>. QED
  BY <1>1, <1>2

\* A row that fits into the buffer is one line more.
LEMMA RowIsOneLine ==
  ASSUME NEW f, AtLine(f), NEW r \in Text, Range(r) \cap Newline = {}, Len(r) \in 1 .. LineMax
  PROVE  DataLines(f \o r) = Append(DataLines(f), [offset |-> Len(f), text |-> r])
<1>. DEFINE s == Reading(AtStart, f)
            line == [offset |-> s.offset, text |-> r]
<1>1. f \in Text /\ f # <<>> /\ s.text = <<>> /\ f \o r \in Text
  BY DEF AtLine, Text
<1>2. s \in MidLine /\ s.lines \in Seq(LineType) /\ s.offset \in Nat
  BY <1>1, ReadingFile
<1>3. s.offset = Len(f)
  <2>1. s.offset + Len(s.text) = Len(f)
    BY <1>1, ReadingPlace
  <2>. QED
    BY <1>1, <1>2, <2>1
<1>4. Reading(AtStart, f \o r) = Reading(s, r)
  BY <1>1, StartIsMidLine, ReadingConcat
<1>5. LinesOf(s) = s.lines /\ s.lines # <<>>
  BY <1>1, SomeLine DEF LinesOf
<1>6. DataLines(f) = Counted(Stripped(s.lines)) /\ DataLines(f \o r) = Counted(Stripped(LinesOf(Reading(s, r))))
  BY <1>1, <1>4, <1>5, LinesFromStart
<1>. HIDE DEF s
<1>7. LinesOf(Reading(s, r)) = Append(s.lines, line)
  <2>1. LF \notin Range(r)
    BY DEF Newline
  <2>. QED
    BY <1>1, <1>2, <2>1, ReadingRow
<1>8. line \in LineType
  BY <1>2 DEF LineType
<1>9. Clean(line) = line
  BY StripNothing DEF Clean
<1>. HIDE DEF line
<1>10. Stripped(Append(s.lines, line)) = Append(Stripped(s.lines), line)
  BY <1>2, <1>8, <1>9, StrippedOneMore
<1>11. Stripped(s.lines) \in Seq(LineType) /\ Stripped(s.lines) # <<>>
  <2>1. Len(s.lines) # 0 /\ Len(Stripped(s.lines)) = Len(s.lines)
    BY <1>2, <1>5, StrippedType
  <2>. QED
    BY <1>2, <2>1, StrippedType
<1>12. Counted(Append(Stripped(s.lines), line)) = CountLine(Counted(Stripped(s.lines)), line)
  BY <1>8, <1>11, CountedOneMore
<1>13. line.text # <<>> /\ line = [offset |-> Len(f), text |-> r]
  <2>1. Len(r) # 0
    BY CsvAssumption
  <2>. QED
    BY <1>3, <2>1 DEF line
<1>. QED
  BY <1>6, <1>7, <1>10, <1>12, <1>13 DEF CountLine

\* The lines that are counted are a sequence of lines.
LEMMA DataLinesType ==
  ASSUME NEW f \in Text
  PROVE  DataLines(f) \in Seq(LineType)
<1>. DEFINE lines == Stripped(LinesOf(Reading(AtStart, f)))
<1>1. LinesOf(Reading(AtStart, f)) \in Seq(LineType)
  <2>1. CASE f = <<>>
    <3>1. Reading(AtStart, <<>>) = AtStart
      BY StartIsMidLine, ReadingGrows DEF ReadGrows, Reading
    <3>2. LinesOf(AtStart) = <<>>
      BY DEF LinesOf, AtStart
    <3>3. LinesOf(Reading(AtStart, f)) = <<>>
      BY <2>1, <3>1, <3>2
    <3>. QED
      BY <3>3
  <2>2. CASE f # <<>>
    BY <2>2, SomeLine
  <2>. QED
    BY <2>1, <2>2
<1>2. lines \in Seq(LineType)
  BY <1>1, StrippedType
<1>. HIDE DEF lines
<1>3. SubSeq(lines, 2, Len(lines)) \in Seq(LineType)
  <2>1. Len(lines) \in Nat
    BY <1>2
  <2>. QED
    BY <1>2, <2>1
<1>4. Counted(lines) \in Seq(LineType)
  BY <1>3, CountingGrows DEF CountGrows, Counted
<1>. QED
  BY <1>4, LinesFromStart DEF lines

-----------------------------------------------------------------------------
(* A row that is written, and read again.                                  *)

\* f is what FlattenSeq has after each of the texts.
FlattenPass(f, texts) ==
  /\ f[0] = <<>>
  /\ \A n \in 1 .. Len(texts) : f[n] = f[n - 1] \o texts[n]
  /\ FlattenSeq(texts) = f[Len(texts)]

LEMMA FlattenLoop ==
  ASSUME NEW C, NEW texts \in Seq(Seq(C))
  PROVE  \E f \in [0 .. Len(texts) -> Seq(C)] : FlattenPass(f, texts)
<1>. DEFINE S    == Seq(C)
            k    == Len(texts)
            step == [n \in Nat |-> [s \in S |-> IF n \in 1 .. k THEN s \o texts[n] ELSE s]]
<1>1. k \in Nat /\ (\A n \in 1 .. k : texts[n] \in S) /\ <<>> \in S
  OBVIOUS
<1>. HIDE DEF k
<1>2. step \in [Nat -> [S -> S]]
  <2>1. \A s \in S : \A n \in 1 .. k : s \o texts[n] \in S
    BY <1>1
  <2>. HIDE DEF S
  <2>. QED
    BY <2>1
<1>3. PICK f \in [0 .. k -> S] : IsLoop(f, <<>>, step, k)
  <2>. HIDE DEF step, S
  <2>. QED
    BY <1>1, <1>2, Iteration
<1>4. ASSUME NEW n \in 1 .. k PROVE f[n] = f[n - 1] \o texts[n]
  <2>1. n \in Nat /\ n - 1 \in 0 .. k
    BY <1>1
  <2>2. f[n] = step[n][f[n - 1]]
    BY <1>3 DEF IsLoop
  <2>3. f[n - 1] \in S
    <3>. HIDE DEF step
    <3>. QED
      BY <1>3, <2>1
  <2>. HIDE DEF S
  <2>. QED
    BY <2>1, <2>2, <2>3
<1>5. f[0] = <<>>
  BY <1>3 DEF IsLoop
<1>. HIDE DEF step
<1>6. CASE k = 0
  BY <1>1, <1>3, <1>4, <1>5, <1>6 DEF FlattenPass, FlattenSeq, k
<1>7. CASE k # 0
  <2>. DEFINE Runs(g) == g = [i \in 1 .. k |-> IF i = 1 THEN texts[i] ELSE g[i - 1] \o texts[i]]
              h == CHOOSE g : Runs(g)
              r == [i \in 1 .. k |-> f[i]]
  <2>1. Runs(r)
    <3>1. ASSUME NEW i \in 1 .. k PROVE f[i] = IF i = 1 THEN texts[i] ELSE r[i - 1] \o texts[i]
      <4>1. f[i] = f[i - 1] \o texts[i] /\ texts[i] \in S
        BY <1>1, <1>4
      <4>2. CASE i = 1
        <5>1. f[i - 1] = <<>>
          <6>1. i - 1 = 0
            BY <4>2
          <6>. QED
            BY <1>5, <6>1
        <5>2. <<>> \o texts[i] = texts[i]
          BY <4>1
        <5>. QED
          BY <4>1, <4>2, <5>1, <5>2
      <4>3. CASE i # 1
        <5>1. i - 1 \in 1 .. k
          BY <1>1, <4>3
        <5>. QED
          BY <4>1, <4>3, <5>1
      <4>. QED
        BY <4>2, <4>3
    <3>. QED
      BY <3>1
  <2>2. Runs(h)
    <3>. HIDE DEF Runs
    <3>. QED
      BY <2>1
  <2>3. FlattenSeq(texts) = h[k]
    BY <1>7 DEF FlattenSeq, k
  <2>. DEFINE T == {n \in Nat : n + 1 <= k => h[n + 1] = f[n + 1]}
  <2>. HIDE DEF h
  <2>4. 0 \in T
    <3>1. 1 \in 1 .. k /\ 1 - 1 = 0 /\ 0 + 1 = 1
      BY <1>1, <1>7
    <3>2. h[1] = texts[1]
      BY <2>2, <3>1
    <3>3. f[1] = <<>> \o texts[1] /\ texts[1] \in S
      BY <1>1, <1>4, <1>5, <3>1
    <3>. QED
      BY <3>1, <3>2, <3>3
  <2>5. ASSUME NEW n \in T PROVE n + 1 \in T
    <3>1. CASE (n + 1) + 1 <= k
      <4>1. (n + 1) + 1 \in 1 .. k /\ (n + 1) + 1 # 1 /\ ((n + 1) + 1) - 1 = n + 1 /\ n + 1 <= k
        BY <1>1, <3>1
      <4>2. h[(n + 1) + 1] = h[n + 1] \o texts[(n + 1) + 1]
        BY <2>2, <4>1
      <4>3. f[(n + 1) + 1] = f[n + 1] \o texts[(n + 1) + 1]
        BY <1>4, <4>1
      <4>4. h[n + 1] = f[n + 1]
        BY <4>1
      <4>5. h[(n + 1) + 1] = f[(n + 1) + 1]
        BY <4>2, <4>3, <4>4
      <4>. QED
        BY <4>5
    <3>2. CASE ~((n + 1) + 1 <= k)
      BY <3>2
    <3>. QED
      BY <3>1, <3>2
  <2>6. k - 1 \in T
    <3>1. T \in SUBSET Nat
      OBVIOUS
    <3>. HIDE DEF T
    <3>2. T = Nat
      BY <2>4, <2>5, <3>1, SetInduction
    <3>. QED
      BY <1>1, <1>7, <3>2
  <2>7. h[k] = f[k]
    <3>1. (k - 1) + 1 = k
      BY <1>1
    <3>. QED
      BY <1>1, <2>6, <3>1
  <2>. QED
    BY <1>3, <1>4, <1>5, <2>3, <2>7 DEF FlattenPass, k
<1>. QED
  BY <1>6, <1>7

\* One text more.
LEMMA FlattenOneMore ==
  ASSUME NEW C, NEW texts \in Seq(Seq(C)), NEW text \in Seq(C)
  PROVE  /\ FlattenSeq(<<>>) = <<>>
         /\ FlattenSeq(texts) \in Seq(C)
         /\ FlattenSeq(Append(texts, text)) = FlattenSeq(texts) \o text
<1>1. FlattenSeq(<<>>) = <<>>
  BY DEF FlattenSeq
<1>. DEFINE all == Append(texts, text)
            k   == Len(texts)
<1>2. /\ all \in Seq(Seq(C)) /\ k \in Nat /\ Len(all) = k + 1 /\ all[k + 1] = text
      /\ \A i \in 1 .. k : all[i] = texts[i]
  OBVIOUS
<1>3. PICK f \in [0 .. Len(texts) -> Seq(C)] : FlattenPass(f, texts)
  BY FlattenLoop
<1>. HIDE DEF all
<1>4. PICK g \in [0 .. Len(all) -> Seq(C)] : FlattenPass(g, all)
  BY <1>2, FlattenLoop
<1>5. f[0] = <<>> /\ FlattenSeq(texts) = f[k] /\ \A n \in 1 .. k : f[n] = f[n - 1] \o texts[n]
  BY <1>3 DEF FlattenPass
<1>6. g[0] = <<>> /\ FlattenSeq(all) = g[k + 1] /\ \A n \in 1 .. k + 1 : g[n] = g[n - 1] \o all[n]
  BY <1>2, <1>4 DEF FlattenPass
<1>7. f[k] \in Seq(C)
  <2>1. k \in 0 .. Len(texts)
    BY <1>2
  <2>. HIDE DEF k
  <2>. QED
    BY <1>3, <2>1
<1>. HIDE DEF k
<1>. DEFINE T == {n \in Nat : n <= k => f[n] = g[n]}
<1>8. 0 \in T
  BY <1>5, <1>6
<1>9. ASSUME NEW n \in T PROVE n + 1 \in T
  <2>1. CASE n + 1 <= k
    <3>1. n + 1 \in 1 .. k /\ n + 1 \in 1 .. k + 1 /\ (n + 1) - 1 = n /\ n <= k
      BY <1>2, <2>1
    <3>2. f[n + 1] = f[n] \o texts[n + 1] /\ g[n + 1] = g[n] \o all[n + 1]
      BY <1>5, <1>6, <3>1
    <3>3. f[n] = g[n] /\ all[n + 1] = texts[n + 1]
      BY <1>2, <3>1
    <3>4. f[n + 1] = g[n + 1]
      BY <3>2, <3>3
    <3>. QED
      BY <3>4
  <2>2. CASE ~(n + 1 <= k)
    BY <2>2
  <2>. QED
    BY <2>1, <2>2
<1>10. k \in T
  <2>1. T \in SUBSET Nat
    OBVIOUS
  <2>. HIDE DEF T
  <2>2. T = Nat
    BY <1>8, <1>9, <2>1, SetInduction
  <2>. QED
    BY <1>2, <2>2
<1>11. g[k + 1] = g[k] \o text
  <2>1. k + 1 \in 1 .. k + 1 /\ (k + 1) - 1 = k
    BY <1>2
  <2>. QED
    BY <1>2, <1>6, <2>1
<1>12. f[k] = g[k]
  BY <1>2, <1>10
<1>. QED
  BY <1>1, <1>5, <1>6, <1>7, <1>11, <1>12 DEF all

\* The least of some places.
LEMMA MinOfPlaces ==
  ASSUME NEW n \in Nat, NEW S \in SUBSET (1 .. n), S # {}
  PROVE  Min(S) \in S
<1>. DEFINE T == {m \in Nat : \A x \in S : x <= m => \E z \in S : \A y \in S : z <= y}
<1>1. 0 \in T
  OBVIOUS
<1>2. ASSUME NEW m \in T PROVE m + 1 \in T
  <2>1. ASSUME NEW x \in S, x <= m + 1 PROVE \E z \in S : \A y \in S : z <= y
    <3>1. CASE \A y \in S : x <= y
      BY <3>1
    <3>2. CASE \E y \in S : ~(x <= y)
      <4>1. PICK y \in S : ~(x <= y)
        BY <3>2
      <4>2. y <= m
        BY <2>1, <4>1
      <4>. QED
        BY <4>2
    <3>. QED
      BY <3>1, <3>2
  <2>. QED
    BY <2>1
<1>3. T = Nat
  <2>1. T \in SUBSET Nat
    OBVIOUS
  <2>. HIDE DEF T
  <2>. QED
    BY <1>1, <1>2, <2>1, SetInduction
<1>4. PICK x \in S : TRUE
  OBVIOUS
<1>5. n \in T
  <2>. HIDE DEF T
  <2>. QED
    BY <1>3
<1>6. \E z \in S : \A y \in S : z <= y
  <2>1. x <= n
    BY <1>4
  <2>. QED
    BY <1>5, <2>1
<1>. QED
  BY <1>6 DEF Min

LEMMA TrimType ==
  ASSUME NEW t \in Text
  PROVE  trim_whitespace(t) \in Text
<1>. DEFINE from == {i \in DOMAIN t : t[i] \notin Space}
<1>1. DOMAIN t = 1 .. Len(t) /\ Len(t) \in Nat /\ from \in SUBSET (1 .. Len(t))
  BY DEF Text
<1>2. CASE from = {}
  BY <1>2 DEF trim_whitespace, Between, Text
<1>3. CASE from # {}
  <2>1. trim_whitespace(t) = SubSeq(t, Min(from), Max(from))
    BY <1>3 DEF trim_whitespace, Between
  <2>. HIDE DEF from
  <2>2. Max(from) \in 1 .. Len(t) /\ Min(from) \in 1 .. Len(t)
    BY <1>1, <1>3, MaxOfPlaces, MinOfPlaces
  <2>. QED
    BY <1>1, <2>1, <2>2 DEF Text
<1>. QED
  BY <1>2, <1>3

\* The states of csv_parse_line, and one in which a field begins.
Modes      == {"plain", "quoted", "quote", "closed", "bad"}
ParseState == [mode : Modes, buffer : Text, fields : Seq(Text)]
Byte       == Char \cup {End}

Parsing(s, t)      == Through(ParseStep, s, t)
At(m, text, given) == [mode |-> m, buffer |-> text, fields |-> given]

LEMMA AtType ==
  ASSUME NEW m \in Modes, NEW text \in Text, NEW given \in Seq(Text)
  PROVE  At(m, text, given) \in ParseState
BY DEF At, ParseState

LEMMA StatesAreAt ==
  ASSUME NEW s \in ParseState
  PROVE  /\ s = At(s.mode, s.buffer, s.fields)
         /\ s.mode \in Modes /\ s.buffer \in Text /\ s.fields \in Seq(Text)
BY DEF At, ParseState

LEMMA ParseParts ==
  ASSUME NEW s \in ParseState, NEW c \in Byte
  PROVE  /\ c \in Char => Keep(s, c) \in ParseState
         /\ \A m \in Modes : Enter(s, m) \in ParseState
         /\ \A text \in Text : Push(s, text) \in ParseState
<1>1. s.mode \in Modes /\ s.buffer \in Text /\ s.fields \in Seq(Text)
  BY DEF ParseState
<1>2. ASSUME c \in Char PROVE Keep(s, c) \in ParseState
  <2>1. Append(s.buffer, c) \in Text
    BY <1>1, <1>2 DEF Text
  <2>. QED
    BY <2>1 DEF Keep, ParseState
<1>3. \A m \in Modes : Enter(s, m) \in ParseState
  BY DEF Enter, ParseState
<1>4. ASSUME NEW text \in Text PROVE Push(s, text) \in ParseState
  <2>1. Append(s.fields, text) \in Seq(Text)
    BY <1>1
  <2>2. "plain" \in Modes /\ <<>> \in Text
    BY DEF Modes, Text
  <2>. QED
    BY <2>1, <2>2 DEF Push, ParseState
<1>. QED
  BY <1>2, <1>3, <1>4

LEMMA ParseKeepsType == ParseTyped(ParseState, Byte)
<1>. SUFFICES ASSUME NEW s \in ParseState, NEW c \in Byte PROVE ParseStep(s, c) \in ParseState
  BY DEF ParseTyped
<1>1. s.mode \in Modes /\ s.buffer \in Text /\ s.fields \in Seq(Text)
  BY DEF ParseState
<1>2. c # End => c \in Char
  BY DEF Byte
<1>3. \A m \in Modes : Enter(s, m) \in ParseState
  BY ParseParts
<1>4. c # End => Keep(s, c) \in ParseState
  BY <1>2, ParseParts
<1>5. Push(s, s.buffer) \in ParseState /\ Push(s, trim_whitespace(s.buffer)) \in ParseState
  BY <1>1, TrimType, ParseParts
<1>6. End \notin Newline /\ End \notin Blanks /\ End # Quote
  BY CsvAssumption DEF Space
<1>7. c \in Blanks => Enter(Keep(s, c), "closed") \in ParseState
  <2>1. ASSUME c \in Blanks PROVE Enter(Keep(s, c), "closed") \in ParseState
    <3>1. Keep(s, c) \in ParseState /\ "closed" \in Modes
      BY <1>4, <1>6, <2>1 DEF Modes
    <3>. QED
      BY <3>1, ParseParts
  <2>. QED
    BY <2>1
<1>8. c = Quote => Enter(Keep(s, c), "quoted") \in ParseState
  <2>1. ASSUME c = Quote PROVE Enter(Keep(s, c), "quoted") \in ParseState
    <3>1. Keep(s, c) \in ParseState /\ "quoted" \in Modes
      BY <1>4, <1>6, <2>1 DEF Modes
    <3>. QED
      BY <3>1, ParseParts
  <2>. QED
    BY <2>1
<1>9. {"plain", "quoted", "quote", "closed", "bad"} = Modes
  BY DEF Modes
<1>10. Outside(s, c) \in ParseState
  <2>1. "quoted" \in Modes
    BY <1>9
  <2>. HIDE DEF Modes
  <2>. QED
    BY <1>3, <1>4, <1>5, <2>1 DEF Outside
<1>11. Inside(s, c) \in ParseState
  <2>1. "quote" \in Modes /\ "bad" \in Modes
    BY <1>9
  <2>. QED
    BY <1>3, <1>4, <2>1 DEF Inside
<1>12. Closed(s, c) \in ParseState
  <2>1. "bad" \in Modes
    BY <1>9
  <2>. QED
    BY <1>3, <1>5, <1>7, <2>1 DEF Closed
<1>. QED
  BY <1>1, <1>8, <1>9, <1>10, <1>11, <1>12 DEF ParseStep

LEMMA ParsingGrows == ASSUME NEW s \in ParseState PROVE ParseGrows(ParseState, Byte, s)
BY ParseKeepsType, ParseOneMore

\* A line is parsed in two parts as it is at once.
LEMMA ParsingConcat ==
  ASSUME NEW s \in ParseState, NEW t \in Seq(Byte), NEW u \in Seq(Byte)
  PROVE  Parsing(s, t \o u) = Parsing(Parsing(s, t), u) /\ Parsing(s, t) \in ParseState
<1>. DEFINE m == Parsing(s, t)
            T == {v \in Seq(Byte) : Parsing(s, t \o v) = Parsing(m, v)}
<1>1. m \in ParseState
  BY ParsingGrows DEF ParseGrows, Parsing
<1>2. ParseGrows(ParseState, Byte, s) /\ ParseGrows(ParseState, Byte, m)
  BY <1>1, ParsingGrows
<1>3. <<>> \in T
  <2>1. t \o <<>> = t /\ <<>> \in Seq(Byte)
    OBVIOUS
  <2>2. Parsing(m, <<>>) = m
    BY <1>2 DEF ParseGrows, Parsing
  <2>. QED
    BY <2>1, <2>2
<1>4. ASSUME NEW v \in T, NEW c \in Byte PROVE Append(v, c) \in T
  <2>1. v \in Seq(Byte) /\ t \o v \in Seq(Byte) /\ Append(v, c) \in Seq(Byte)
    OBVIOUS
  <2>2. t \o Append(v, c) = Append(t \o v, c)
    BY <2>1
  <2>3. Parsing(s, Append(t \o v, c)) = ParseStep(Parsing(s, t \o v), c)
    BY <1>2, <2>1 DEF ParseGrows, Parsing
  <2>4. Parsing(m, Append(v, c)) = ParseStep(Parsing(m, v), c)
    BY <1>2, <2>1 DEF ParseGrows, Parsing
  <2>. HIDE DEF m
  <2>. QED
    BY <2>1, <2>2, <2>3, <2>4
<1>5. u \in T
  <2>1. T \in SUBSET Seq(Byte)
    OBVIOUS
  <2>. HIDE DEF T
  <2>2. T = Seq(Byte)
    BY <1>3, <1>4, <2>1, AppendInduction
  <2>. QED
    BY <2>2
<1>. QED
  BY <1>1, <1>5

\* One character after a text.
LEMMA ParsingNothing == ASSUME NEW s \in ParseState PROVE Parsing(s, <<>>) = s
BY ParsingGrows DEF ParseGrows, Parsing

LEMMA ParsingOne ==
  ASSUME NEW s \in ParseState, NEW t \in Seq(Byte), NEW c \in Byte, NEW m, Parsing(s, t) = m
  PROVE  Parsing(s, Append(t, c)) = ParseStep(m, c)
BY ParsingGrows DEF ParseGrows, Parsing

\* The characters that the parser tells apart.
LEMMA Marks ==
  /\ Quote \in Char /\ Comma \in Char /\ Newline \subseteq Char /\ End \notin Char
  /\ Quote \notin Newline \cup {Comma} /\ Comma \notin Newline
  /\ Char \subseteq Byte /\ End \in Byte
BY CsvAssumption DEF Space, Newline, Quote, Comma, LF, CR, Byte

\* A quote doubled, any other character as it is.
Piece(c)   == IF c = Quote THEN <<Quote, Quote>> ELSE <<c>>
Doubled(v) == [i \in DOMAIN v |-> IF v[i] = Quote THEN <<Quote, Quote>> ELSE <<v[i]>>]

LEMMA DoubledType ==
  ASSUME NEW v \in Text
  PROVE  Doubled(v) \in Seq(Text) /\ Len(Doubled(v)) = Len(v)
         /\ \A i \in 1 .. Len(v) : Doubled(v)[i] = Piece(v[i])
<1>1. DOMAIN v = 1 .. Len(v) /\ Len(v) \in Nat /\ \A i \in 1 .. Len(v) : v[i] \in Char
  BY DEF Text
<1>2. \A c \in Char : Piece(c) \in Text
  BY Marks DEF Piece, Text
<1>3. Doubled(v) = [i \in 1 .. Len(v) |-> Piece(v[i])]
  BY <1>1 DEF Doubled, Piece
<1>. QED
  BY <1>1, <1>2, <1>3

LEMMA DoubledOneMore ==
  ASSUME NEW v \in Text, NEW c \in Char
  PROVE  /\ FlattenSeq(Doubled(v)) \in Text
         /\ FlattenSeq(Doubled(Append(v, c))) = FlattenSeq(Doubled(v)) \o Piece(c)
<1>. DEFINE n == Len(v)
            all == Append(v, c)
            a == Doubled(all)
            d == Doubled(v)
            b == Append(d, Piece(c))
<1>1. n \in Nat /\ all \in Text /\ Len(all) = n + 1 /\ all[n + 1] = c /\ \A i \in 1 .. n : all[i] = v[i]
  BY DEF Text
<1>2. d \in Seq(Text) /\ Len(d) = n /\ \A i \in 1 .. n : d[i] = Piece(v[i])
  BY DoubledType
<1>3. Piece(c) \in Text
  BY Marks DEF Piece, Text
<1>. HIDE DEF all, n
<1>4. a \in Seq(Text) /\ Len(a) = n + 1 /\ \A i \in 1 .. n + 1 : a[i] = Piece(all[i])
  BY <1>1, DoubledType
<1>. HIDE DEF a, d
<1>5. b \in Seq(Text) /\ Len(b) = n + 1 /\ b[n + 1] = Piece(c) /\ \A i \in 1 .. n : b[i] = d[i]
  BY <1>1, <1>2, <1>3
<1>. HIDE DEF b
<1>6. a = b
  <2>1. n + 1 \in 1 .. n + 1 /\ \A i \in 1 .. n + 1 : i \in 1 .. n \/ i = n + 1
    BY <1>1
  <2>2. a[n + 1] = b[n + 1]
    BY <1>1, <1>4, <1>5, <2>1
  <2>3. ASSUME NEW i \in 1 .. n PROVE a[i] = b[i]
    <3>1. i \in 1 .. n + 1
      BY <1>1
    <3>. QED
      BY <1>1, <1>2, <1>4, <1>5, <3>1
  <2>4. \A i \in 1 .. n + 1 : a[i] = b[i]
    BY <2>1, <2>2, <2>3
  <2>. QED
    BY <1>4, <1>5, <2>4, SeqEqual
<1>7. d \in Seq(Seq(Char)) /\ Piece(c) \in Seq(Char)
  BY <1>2, <1>3 DEF Text
<1>8. FlattenSeq(d) \in Seq(Char) /\ FlattenSeq(b) = FlattenSeq(d) \o Piece(c)
  BY <1>7, FlattenOneMore DEF b
<1>. QED
  BY <1>6, <1>8 DEF a, d, all, Text

\* The inside of a quoted field, read back.
LEMMA QuotedRead ==
  ASSUME NEW v \in Text, NEW given \in Seq(Text)
  PROVE  /\ FlattenSeq(Doubled(v)) \in Text
         /\ Parsing(At("quoted", <<>>, given), FlattenSeq(Doubled(v))) = At("quoted", v, given)
<1>. DEFINE s == At("quoted", <<>>, given)
            T == {t \in Text : /\ FlattenSeq(Doubled(t)) \in Text
                               /\ Parsing(s, FlattenSeq(Doubled(t))) = At("quoted", t, given)}
<1>1. s \in ParseState
  <2>1. "quoted" \in Modes /\ "plain" \in Modes /\ <<>> \in Text
    BY DEF Modes, Text
  <2>. QED
    BY <2>1, AtType
<1>2. <<>> \in T
  <2>1. Doubled(<<>>) = <<>>
    BY DEF Doubled
  <2>2. FlattenSeq(<<>>) = <<>>
    BY DEF FlattenSeq
  <2>3. Parsing(s, <<>>) = s
    BY <1>1, ParsingNothing
  <2>. HIDE DEF s
  <2>4. <<>> \in Text
    BY DEF Text
  <2>. QED
    BY <2>1, <2>2, <2>3, <2>4 DEF s
<1>. HIDE DEF s
<1>3. ASSUME NEW t \in T, NEW c \in Char PROVE Append(t, c) \in T
  <2>. DEFINE d == FlattenSeq(Doubled(t))
  <2>1. /\ t \in Text /\ Append(t, c) \in Text /\ d \in Text
        /\ Parsing(s, d) = At("quoted", t, given)
    BY DEF Text
  <2>2. FlattenSeq(Doubled(Append(t, c))) = d \o Piece(c)
    BY <2>1, DoubledOneMore
  <2>. HIDE DEF d
  <2>3. d \in Seq(Byte) /\ c \in Byte /\ c # End /\ Quote \in Byte
    <3>1. \A x \in Char : x \in Byte /\ x # End
      BY Marks
    <3>. QED
      BY <2>1, <3>1, Marks DEF Text
  <2>4. d \o Piece(c) \in Text
    BY <2>1, Marks DEF Piece, Text
  <2>5. CASE c # Quote
    <3>1. d \o Piece(c) = Append(d, c)
      BY <2>1, <2>5 DEF Piece, Text
    <3>2. Parsing(s, Append(d, c)) = ParseStep(At("quoted", t, given), c)
      BY <1>1, <2>1, <2>3, ParsingOne
    <3>3. ParseStep(At("quoted", t, given), c) = At("quoted", Append(t, c), given)
      BY <2>3, <2>5 DEF ParseStep, Inside, Keep, At
    <3>. QED
      BY <2>1, <2>2, <2>4, <3>1, <3>2, <3>3
  <2>6. CASE c = Quote
    <3>1. d \o Piece(c) = Append(Append(d, Quote), Quote) /\ Append(d, Quote) \in Seq(Byte)
      BY <2>1, <2>3, <2>6 DEF Piece, Text
    <3>2. Parsing(s, Append(d, Quote)) = ParseStep(At("quoted", t, given), Quote)
      BY <1>1, <2>1, <2>3, ParsingOne
    <3>3. ParseStep(At("quoted", t, given), Quote) = At("quote", t, given)
      BY DEF ParseStep, Inside, Enter, At, Quote, End
    <3>4. Parsing(s, Append(Append(d, Quote), Quote)) = ParseStep(At("quote", t, given), Quote)
      <4>. DEFINE q == Append(d, Quote)
      <4>1. q \in Seq(Byte) /\ Parsing(s, q) = At("quote", t, given)
        BY <3>1, <3>2, <3>3
      <4>. HIDE DEF q
      <4>2. Parsing(s, Append(q, Quote)) = ParseStep(At("quote", t, given), Quote)
        BY <1>1, <2>3, <4>1, ParsingOne
      <4>. QED
        BY <4>2 DEF q
    <3>5. ParseStep(At("quote", t, given), Quote) = At("quoted", Append(t, Quote), given)
      BY DEF ParseStep, Keep, Enter, At
    <3>. QED
      BY <2>1, <2>2, <2>4, <2>6, <3>1, <3>4, <3>5
  <2>. QED
    BY <2>5, <2>6
<1>4. v \in T
  <2>1. T \in SUBSET Seq(Char)
    BY DEF Text
  <2>. HIDE DEF T
  <2>2. T = Seq(Char)
    BY <1>2, <1>3, <2>1, AppendInduction
  <2>. QED
    BY <2>2 DEF Text
<1>. QED
  BY <1>4 DEF s

\* A value written without quotes, read back.
LEMMA PlainRead ==
  ASSUME NEW v \in Text, NEW given \in Seq(Text),
         \A i \in DOMAIN v : v[i] \notin {Quote, Comma} \cup Newline
  PROVE  Parsing(At("plain", <<>>, given), v) = At("plain", v, given)
<1>. DEFINE s == At("plain", <<>>, given)
            Easy(t) == \A i \in DOMAIN t : t[i] \notin {Quote, Comma} \cup Newline
            T == {t \in Text : Easy(t) => Parsing(s, t) = At("plain", t, given)}
<1>1. s \in ParseState
  <2>1. "quoted" \in Modes /\ "plain" \in Modes /\ <<>> \in Text
    BY DEF Modes, Text
  <2>. QED
    BY <2>1, AtType
<1>2. <<>> \in T
  <2>1. Parsing(s, <<>>) = s
    BY <1>1, ParsingNothing
  <2>2. <<>> \in Text
    BY DEF Text
  <2>. QED
    BY <2>1, <2>2
<1>. HIDE DEF s
<1>3. ASSUME NEW t \in T, NEW c \in Char, Easy(Append(t, c))
      PROVE  Parsing(s, Append(t, c)) = At("plain", Append(t, c), given)
  <2>1. t \in Text /\ t \in Seq(Byte) /\ c \in Byte /\ c # End
    <3>1. \A x \in Char : x \in Byte /\ x # End
      BY Marks
    <3>. QED
      BY <3>1 DEF Text
  <2>2. Easy(t) /\ c \notin {Quote, Comma} \cup Newline
    <3>1. /\ \A i \in 1 .. Len(t) : i \in DOMAIN Append(t, c) /\ Append(t, c)[i] = t[i]
          /\ Len(t) + 1 \in DOMAIN Append(t, c) /\ Append(t, c)[Len(t) + 1] = c
      BY DEF Text
    <3>2. DOMAIN t = 1 .. Len(t)
      BY DEF Text
    <3>. QED
      BY <1>3, <3>1, <3>2
  <2>3. Parsing(s, t) = At("plain", t, given)
    BY <2>2
  <2>4. Parsing(s, Append(t, c)) = ParseStep(At("plain", t, given), c)
    BY <1>1, <2>1, <2>3, ParsingOne
  <2>5. ParseStep(At("plain", t, given), c) = At("plain", Append(t, c), given)
    BY <2>1, <2>2 DEF ParseStep, Outside, Keep, At
  <2>. QED
    BY <2>4, <2>5
<1>4. ASSUME NEW t \in T, NEW c \in Char PROVE Append(t, c) \in T
  <2>1. Append(t, c) \in Text
    BY DEF Text
  <2>. HIDE DEF Easy
  <2>. QED
    BY <1>3, <2>1
<1>5. v \in T
  <2>1. T \in SUBSET Seq(Char)
    BY DEF Text
  <2>. HIDE DEF T
  <2>2. T = Seq(Char)
    BY <1>2, <1>4, <2>1, AppendInduction
  <2>. QED
    BY <2>2 DEF Text
<1>. QED
  BY <1>5 DEF s

\* A value written by csv_escape_field, and what ends it, give one field.
LEMMA FieldRead ==
  ASSUME NEW v \in Text, NEW given \in Seq(Text), NEW c \in {Comma, End}
  PROVE  /\ csv_escape_field(v) \in Text
         /\ Parsing(At("plain", <<>>, given), Append(csv_escape_field(v), c)) =
              At("plain", <<>>, Append(given, Kept(v)))
<1>. DEFINE s == At("plain", <<>>, given)
<1>1. s \in ParseState /\ <<>> \in Text
  <2>1. "plain" \in Modes /\ <<>> \in Text
    BY DEF Modes, Text
  <2>. QED
    BY <2>1, AtType
<1>2. c \in Byte
  BY Marks
<1>3. \A t \in Text : t \in Seq(Byte)
  BY Marks DEF Text
<1>4. CASE NeedsQuotes(v)
  <2>. DEFINE d == FlattenSeq(Doubled(v))
              q == At("quoted", <<>>, given)
              w == <<Quote>> \o d
              x == Append(w, Quote)
  <2>1. csv_escape_field(v) = <<Quote>> \o d \o <<Quote>>
    BY <1>4 DEF csv_escape_field, Doubled
  <2>2. d \in Text /\ Parsing(q, d) = At("quoted", v, given)
    BY QuotedRead
  <2>3. <<Quote>> \in Text /\ <<Quote>> \in Seq(Byte) /\ Quote \in Byte
    BY Marks DEF Text
  <2>. HIDE DEF d
  <2>4. csv_escape_field(v) = x /\ x \in Text /\ w \in Text
    BY <2>1, <2>2, <2>3, Marks DEF Text
  <2>5. Parsing(s, <<Quote>>) = q
    <3>1. PICK e \in Seq(Byte) : e = <<>>
      <4>1. <<>> \in Seq(Byte)
        OBVIOUS
      <4>. QED
        BY <4>1
    <3>2. Parsing(s, e) = s
      BY <1>1, <3>1, ParsingNothing
    <3>. HIDE DEF s
    <3>3. Parsing(s, Append(e, Quote)) = ParseStep(s, Quote) /\ Append(e, Quote) = <<Quote>>
      <4>1. Parsing(s, Append(e, Quote)) = ParseStep(s, Quote)
        BY <1>1, <2>3, <3>2, ParsingOne
      <4>2. Append(e, Quote) = <<Quote>>
        BY <3>1
      <4>. QED
        BY <4>1, <4>2
    <3>4. ParseStep(s, Quote) = q
      <4>1. Quote \notin {Comma, End} /\ Quote \notin Newline
        BY Marks DEF Quote, End
      <4>2. s.mode = "plain" /\ s.buffer = <<>> /\ Enter(s, "quoted") = q
        BY DEF s, At, Enter
      <4>. QED
        BY <4>1, <4>2 DEF ParseStep, Outside
    <3>. QED
      BY <3>3, <3>4
  <2>. HIDE DEF s, q
  <2>6. Parsing(s, w) = At("quoted", v, given)
    BY <1>1, <1>3, <2>2, <2>3, <2>5, ParsingConcat
  <2>. HIDE DEF w
  <2>7. Parsing(s, x) = At("quote", v, given)
    <3>1. Parsing(s, Append(w, Quote)) = ParseStep(At("quoted", v, given), Quote)
      BY <1>1, <1>3, <2>3, <2>4, <2>6, ParsingOne
    <3>2. ParseStep(At("quoted", v, given), Quote) = At("quote", v, given)
      BY DEF ParseStep, Inside, Enter, At, Quote, End
    <3>. QED
      BY <3>1, <3>2
  <2>. HIDE DEF x
  <2>8. Parsing(s, Append(x, c)) = ParseStep(At("quote", v, given), c)
    BY <1>1, <1>2, <1>3, <2>4, <2>7, ParsingOne
  <2>9. ParseStep(At("quote", v, given), c) = At("plain", <<>>, Append(given, v))
    <3>1. c # Quote /\ c \notin Blanks
      BY CsvAssumption DEF Space, Blanks, Quote, Comma, End
    <3>. QED
      BY <3>1 DEF ParseStep, Closed, Push, At
  <2>10. Kept(v) = v
    BY <1>4 DEF Kept
  <2>. QED
    BY <2>4, <2>8, <2>9, <2>10 DEF s
<1>5. CASE ~NeedsQuotes(v)
  <2>1. csv_escape_field(v) = v /\ Kept(v) = trim_whitespace(v)
    BY <1>5 DEF csv_escape_field, Kept
  <2>2. Parsing(s, v) = At("plain", v, given)
    BY <1>5, PlainRead DEF NeedsQuotes
  <2>. HIDE DEF s
  <2>3. Parsing(s, Append(v, c)) = ParseStep(At("plain", v, given), c)
    BY <1>1, <1>2, <1>3, <2>2, ParsingOne
  <2>4. ParseStep(At("plain", v, given), c) = At("plain", <<>>, Append(given, trim_whitespace(v)))
    <3>1. c # Quote /\ c \notin Newline
      BY CsvAssumption, Marks DEF Quote, Comma, End
    <3>. QED
      BY <3>1 DEF ParseStep, Outside, Push, At
  <2>. QED
    BY <2>1, <2>3, <2>4 DEF s
<1>. QED
  BY <1>4, <1>5

\* What a row is when it is read again.
KeptRow(row) == [i \in DOMAIN row |-> Kept(row[i])]

LEMMA KeptType == ASSUME NEW v \in Text PROVE Kept(v) \in Text
BY TrimType DEF Kept

LEMMA KeptOneMore ==
  ASSUME NEW row \in Seq(Text), NEW v \in Text
  PROVE  KeptRow(row) \in Seq(Text) /\ KeptRow(Append(row, v)) = Append(KeptRow(row), Kept(v))
<1>. DEFINE n == Len(row)
            all == Append(row, v)
            a == KeptRow(all)
            d == KeptRow(row)
            b == Append(d, Kept(v))
<1>1. /\ n \in Nat /\ all \in Seq(Text) /\ Len(all) = n + 1 /\ all[n + 1] = v
      /\ \A i \in 1 .. n : all[i] = row[i]
  OBVIOUS
<1>2. \A s \in Seq(Text) : /\ KeptRow(s) \in Seq(Text) /\ Len(KeptRow(s)) = Len(s)
                           /\ \A i \in 1 .. Len(s) : KeptRow(s)[i] = Kept(s[i])
  <2>1. SUFFICES ASSUME NEW s \in Seq(Text)
                 PROVE  /\ KeptRow(s) \in Seq(Text) /\ Len(KeptRow(s)) = Len(s)
                        /\ \A i \in 1 .. Len(s) : KeptRow(s)[i] = Kept(s[i])
    OBVIOUS
  <2>2. DOMAIN s = 1 .. Len(s) /\ Len(s) \in Nat /\ \A i \in 1 .. Len(s) : Kept(s[i]) \in Text
    BY KeptType
  <2>3. KeptRow(s) = [i \in 1 .. Len(s) |-> Kept(s[i])]
    BY <2>2 DEF KeptRow
  <2>. QED
    BY <2>2, <2>3
<1>3. Kept(v) \in Text
  BY KeptType
<1>4. d \in Seq(Text) /\ Len(d) = n /\ \A i \in 1 .. n : d[i] = Kept(row[i])
  BY <1>2
<1>. HIDE DEF all, n
<1>5. a \in Seq(Text) /\ Len(a) = n + 1 /\ \A i \in 1 .. n + 1 : a[i] = Kept(all[i])
  BY <1>1, <1>2
<1>. HIDE DEF a, d
<1>6. b \in Seq(Text) /\ Len(b) = n + 1 /\ b[n + 1] = Kept(v) /\ \A i \in 1 .. n : b[i] = d[i]
  BY <1>1, <1>3, <1>4
<1>. HIDE DEF b
<1>7. a = b
  <2>1. n + 1 \in 1 .. n + 1 /\ \A i \in 1 .. n + 1 : i \in 1 .. n \/ i = n + 1
    BY <1>1
  <2>2. a[n + 1] = b[n + 1]
    BY <1>1, <1>5, <1>6, <2>1
  <2>3. ASSUME NEW i \in 1 .. n PROVE a[i] = b[i]
    <3>1. i \in 1 .. n + 1
      BY <1>1
    <3>. QED
      BY <1>1, <1>4, <1>5, <1>6, <3>1
  <2>4. \A i \in 1 .. n + 1 : a[i] = b[i]
    BY <2>1, <2>2, <2>3
  <2>. QED
    BY <1>5, <1>6, <2>4, SeqEqual
<1>. QED
  BY <1>4, <1>7 DEF a, b, d, all

\* What stands before the i-th field, and the field.
Part(i, v)   == (IF i > 1 THEN <<Comma>> ELSE <<>>) \o csv_escape_field(v)
Parts(row)   == [i \in DOMAIN row |-> (IF i > 1 THEN <<Comma>> ELSE <<>>) \o csv_escape_field(row[i])]

LEMMA EscapeType ==
  ASSUME NEW v \in Text
  PROVE  csv_escape_field(v) \in Text /\ csv_escape_field(v) # <<>>
<1>1. csv_escape_field(v) \in Text
  <2>1. <<>> \in Seq(Text)
    OBVIOUS
  <2>. QED
    BY <2>1, FieldRead
<1>2. csv_escape_field(v) # <<>>
  <2>1. CASE NeedsQuotes(v)
    <3>. DEFINE d == FlattenSeq(Doubled(v))
    <3>1. csv_escape_field(v) = <<Quote>> \o d \o <<Quote>>
      BY <2>1 DEF csv_escape_field, Doubled
    <3>2. d \in Text
      <4>1. <<>> \in Seq(Text)
        OBVIOUS
      <4>. QED
        BY <4>1, QuotedRead
    <3>. HIDE DEF d
    <3>3. Len(<<Quote>> \o d \o <<Quote>>) = Len(d) + 2 /\ Len(d) \in Nat
      BY <3>2, Marks DEF Text
    <3>. QED
      BY <3>1, <3>3
  <2>2. CASE ~NeedsQuotes(v)
    BY <2>2 DEF csv_escape_field, NeedsQuotes
  <2>. QED
    BY <2>1, <2>2
<1>. QED
  BY <1>1, <1>2

LEMMA PartsType ==
  ASSUME NEW row \in Seq(Text)
  PROVE  /\ Parts(row) \in Seq(Seq(Char)) /\ Len(Parts(row)) = Len(row)
         /\ \A i \in 1 .. Len(row) : Parts(row)[i] = Part(i, row[i])
<1>1. DOMAIN row = 1 .. Len(row) /\ Len(row) \in Nat /\ \A i \in 1 .. Len(row) : row[i] \in Text
  OBVIOUS
<1>2. Parts(row) = [i \in 1 .. Len(row) |-> Part(i, row[i])]
  BY <1>1 DEF Parts, Part
<1>3. ASSUME NEW i \in 1 .. Len(row) PROVE Part(i, row[i]) \in Seq(Char)
  <2>1. csv_escape_field(row[i]) \in Seq(Char)
    BY <1>1, EscapeType DEF Text
  <2>2. (IF i > 1 THEN <<Comma>> ELSE <<>>) \in Seq(Char)
    BY Marks
  <2>. QED
    BY <2>1, <2>2 DEF Part
<1>. QED
  BY <1>1, <1>2, <1>3

LEMMA RowTextOneMore ==
  ASSUME NEW row \in Seq(Text), NEW v \in Text
  PROVE  /\ RowText(<<>>) = <<>>
         /\ RowText(row) \in Text
         /\ RowText(Append(row, v)) =
              IF row = <<>> THEN csv_escape_field(v)
              ELSE Append(RowText(row), Comma) \o csv_escape_field(v)
<1>. DEFINE n == Len(row)
            all == Append(row, v)
            a == Parts(all)
            d == Parts(row)
            p == Part(n + 1, v)
            b == Append(d, p)
<1>1. /\ n \in Nat /\ all \in Seq(Text) /\ Len(all) = n + 1 /\ all[n + 1] = v
      /\ \A i \in 1 .. n : all[i] = row[i]
  OBVIOUS
<1>2. d \in Seq(Seq(Char)) /\ Len(d) = n /\ \A i \in 1 .. n : d[i] = Part(i, row[i])
  BY PartsType
<1>. HIDE DEF all, n
<1>3. a \in Seq(Seq(Char)) /\ Len(a) = n + 1 /\ \A i \in 1 .. n + 1 : a[i] = Part(i, all[i])
  BY <1>1, PartsType
<1>. HIDE DEF a, d
<1>4. p \in Seq(Char)
  <2>1. n + 1 \in 1 .. n + 1
    BY <1>1
  <2>2. a[n + 1] = p
    BY <1>1, <1>3, <2>1
  <2>. HIDE DEF p
  <2>. QED
    BY <1>3, <2>1, <2>2
<1>. HIDE DEF p
<1>5. b \in Seq(Seq(Char)) /\ Len(b) = n + 1 /\ b[n + 1] = p /\ \A i \in 1 .. n : b[i] = d[i]
  BY <1>1, <1>2, <1>4
<1>. HIDE DEF b
<1>6. a = b
  <2>1. n + 1 \in 1 .. n + 1 /\ \A i \in 1 .. n + 1 : i \in 1 .. n \/ i = n + 1
    BY <1>1
  <2>2. a[n + 1] = b[n + 1]
    BY <1>1, <1>3, <1>5, <2>1 DEF p
  <2>3. ASSUME NEW i \in 1 .. n PROVE a[i] = b[i]
    <3>1. i \in 1 .. n + 1
      BY <1>1
    <3>. QED
      BY <1>1, <1>2, <1>3, <1>5, <3>1
  <2>4. \A i \in 1 .. n + 1 : a[i] = b[i]
    BY <2>1, <2>2, <2>3
  <2>. QED
    BY <1>3, <1>5, <2>4, SeqEqual
<1>7. FlattenSeq(d) \in Seq(Char) /\ FlattenSeq(b) = FlattenSeq(d) \o p
  BY <1>2, <1>4, FlattenOneMore DEF b
<1>8. RowText(row) = FlattenSeq(d) /\ RowText(all) = FlattenSeq(a)
  BY DEF RowText, Parts, a, d
<1>9. RowText(<<>>) = <<>>
  <2>1. Parts(<<>>) = <<>>
    BY DEF Parts
  <2>. QED
    BY <2>1 DEF RowText, Parts, FlattenSeq
<1>10. csv_escape_field(v) \in Seq(Char)
  BY EscapeType DEF Text
<1>11. RowText(all) = RowText(row) \o p
  BY <1>6, <1>7, <1>8
<1>12. RowText(row) \in Seq(Char)
  BY <1>7, <1>8
<1>13. CASE row = <<>>
  <2>1. p = <<>> \o csv_escape_field(v)
    BY <1>13 DEF p, Part, n
  <2>. QED
    BY <1>9, <1>10, <1>11, <1>12, <1>13, <2>1 DEF all, Text
<1>14. CASE row # <<>>
  <2>1. n > 0
    BY <1>14 DEF n
  <2>2. p = <<Comma>> \o csv_escape_field(v)
    BY <1>1, <2>1 DEF p, Part
  <2>3. RowText(row) \o (<<Comma>> \o csv_escape_field(v)) = Append(RowText(row), Comma) \o csv_escape_field(v)
    BY <1>10, <1>12, Marks
  <2>. QED
    BY <1>9, <1>11, <1>12, <1>14, <2>2, <2>3 DEF all, Text
<1>. QED
  BY <1>13, <1>14

\* Texts without line endings, put together.
LEMMA AppendClear ==
  ASSUME NEW t \in Text, Range(t) \cap Newline = {}, NEW c \in Char, c \notin Newline
  PROVE  Append(t, c) \in Text /\ Range(Append(t, c)) \cap Newline = {}
<1>1. /\ Append(t, c) \in Text /\ DOMAIN Append(t, c) = 1 .. Len(t) + 1 /\ Len(t) \in Nat
      /\ DOMAIN t = 1 .. Len(t) /\ Append(t, c)[Len(t) + 1] = c
      /\ \A i \in 1 .. Len(t) : Append(t, c)[i] = t[i]
  BY DEF Text
<1>2. \A i \in 1 .. Len(t) + 1 : i \in 1 .. Len(t) \/ i = Len(t) + 1
  BY <1>1
<1>3. \A i \in 1 .. Len(t) : t[i] \notin Newline
  BY <1>1 DEF Range
<1>. QED
  BY <1>1, <1>2, <1>3 DEF Range

LEMMA ConcatClear ==
  ASSUME NEW t \in Text, NEW u \in Text, Range(t) \cap Newline = {}, Range(u) \cap Newline = {}
  PROVE  /\ t \o u \in Text /\ Range(t \o u) \cap Newline = {}
         /\ u # <<>> => t \o u # <<>>
<1>. DEFINE m == Len(t)
            n == Len(u)
<1>1. /\ t \o u \in Text /\ DOMAIN (t \o u) = 1 .. m + n /\ m \in Nat /\ n \in Nat
      /\ DOMAIN t = 1 .. m /\ DOMAIN u = 1 .. n /\ Len(t \o u) = m + n
      /\ \A i \in 1 .. m + n : (t \o u)[i] = IF i <= m THEN t[i] ELSE u[i - m]
  BY DEF Text
<1>2. ASSUME NEW i \in 1 .. m + n PROVE (t \o u)[i] \notin Newline
  <2>1. CASE i <= m
    <3>1. i \in DOMAIN t
      BY <1>1, <2>1
    <3>. QED
      BY <1>1, <2>1, <3>1 DEF Range
  <2>2. CASE ~(i <= m)
    <3>1. i - m \in DOMAIN u
      BY <1>1, <2>2
    <3>. QED
      BY <1>1, <2>2, <3>1 DEF Range
  <2>. QED
    BY <2>1, <2>2
<1>3. u # <<>> => t \o u # <<>>
  <2>1. ASSUME u # <<>> PROVE t \o u # <<>>
    <3>1. n # 0
      BY <2>1 DEF Text
    <3>2. Len(t \o u) # 0
      BY <1>1, <3>1
    <3>. QED
      BY <3>2
  <2>. QED
    BY <2>1
<1>. QED
  BY <1>1, <1>2, <1>3 DEF Range

\* No character of a field is written that it does not have, but for quotes.
LEMMA EscapeClear ==
  ASSUME NEW v \in Text, Range(v) \cap Newline = {}
  PROVE  Range(csv_escape_field(v)) \cap Newline = {}
<1>. DEFINE Clear(t) == Range(t) \cap Newline = {}
            T == {t \in Text : Clear(t) => /\ FlattenSeq(Doubled(t)) \in Text
                                           /\ Clear(FlattenSeq(Doubled(t)))}
<1>1. Range(<<>>) = {}
  BY DEF Range
<1>2. <<>> \in T
  <2>1. FlattenSeq(Doubled(<<>>)) = <<>>
    <3>1. Doubled(<<>>) = <<>>
      BY DEF Doubled
    <3>. QED
      BY <3>1 DEF FlattenSeq
  <2>2. <<>> \in Text
    BY DEF Text
  <2>. QED
    BY <1>1, <2>1, <2>2
<1>3. ASSUME NEW t \in T, NEW c \in Char, Clear(Append(t, c))
      PROVE  /\ FlattenSeq(Doubled(Append(t, c))) \in Text
             /\ Clear(FlattenSeq(Doubled(Append(t, c))))
  <2>1. t \in Text /\ Clear(t) /\ c \notin Newline
    <3>1. /\ DOMAIN Append(t, c) = 1 .. Len(t) + 1 /\ Len(t) \in Nat
          /\ DOMAIN t = 1 .. Len(t) /\ Append(t, c)[Len(t) + 1] = c
          /\ \A i \in 1 .. Len(t) : Append(t, c)[i] = t[i]
      BY DEF Text
    <3>2. Len(t) + 1 \in 1 .. Len(t) + 1 /\ \A i \in 1 .. Len(t) : i \in 1 .. Len(t) + 1
      BY <3>1
    <3>3. \A i \in 1 .. Len(t) + 1 : Append(t, c)[i] \notin Newline
      BY <1>3, <3>1 DEF Range
    <3>. QED
      BY <3>1, <3>2, <3>3 DEF Range
  <2>. DEFINE d == FlattenSeq(Doubled(t))
  <2>2. d \in Text /\ Clear(d)
    BY <2>1
  <2>3. FlattenSeq(Doubled(Append(t, c))) = d \o Piece(c)
    BY <2>1, DoubledOneMore
  <2>4. Piece(c) \in Text /\ Clear(Piece(c))
    <3>1. Piece(c) \in Text
      BY Marks DEF Piece, Text
    <3>2. \A i \in DOMAIN Piece(c) : Piece(c)[i] \notin Newline
      BY <2>1, Marks DEF Piece
    <3>. QED
      BY <3>1, <3>2 DEF Range
  <2>. HIDE DEF d
  <2>. QED
    BY <2>2, <2>3, <2>4, ConcatClear
<1>4. ASSUME NEW t \in T, NEW c \in Char PROVE Append(t, c) \in T
  <2>1. Append(t, c) \in Text
    BY DEF Text
  <2>. HIDE DEF Clear
  <2>. QED
    BY <1>3, <2>1
<1>5. v \in T
  <2>1. T \in SUBSET Seq(Char)
    BY DEF Text
  <2>. HIDE DEF T
  <2>2. T = Seq(Char)
    BY <1>2, <1>4, <2>1, AppendInduction
  <2>. QED
    BY <2>2 DEF Text
<1>6. CASE NeedsQuotes(v)
  <2>. DEFINE d == FlattenSeq(Doubled(v))
              q == <<Quote>>
  <2>1. csv_escape_field(v) = q \o d \o q
    BY <1>6 DEF csv_escape_field, Doubled
  <2>2. d \in Text /\ Clear(d)
    BY <1>5
  <2>3. q \in Text /\ Clear(q)
    <3>1. \A i \in DOMAIN q : q[i] \notin Newline
      BY Marks
    <3>. QED
      BY <3>1, Marks DEF Text, Range
  <2>. HIDE DEF d, q
  <2>4. q \o d \in Text /\ Clear(q \o d)
    BY <2>2, <2>3, ConcatClear
  <2>. DEFINE w == q \o d
  <2>. HIDE DEF w
  <2>5. Clear(w \o q)
    BY <2>3, <2>4, ConcatClear DEF w
  <2>. QED
    BY <2>1, <2>5 DEF w
<1>7. CASE ~NeedsQuotes(v)
  BY <1>7 DEF csv_escape_field
<1>. QED
  BY <1>6, <1>7

\* A character after two texts is one after the second.
LEMMA ConcatAppend ==
  \A t, u \in Seq(Byte) : \A c \in Byte : Append(t \o u, c) = t \o Append(u, c)
<1>. SUFFICES ASSUME NEW t \in Seq(Byte), NEW u \in Seq(Byte), NEW c \in Byte
              PROVE  Append(t \o u, c) = t \o Append(u, c)
  OBVIOUS
<1>1. Append(u, c) = u \o <<c>> /\ Append(t \o u, c) = (t \o u) \o <<c>> /\ <<c>> \in Seq(Byte)
  BY AppendIsConcat
<1>. QED
  BY <1>1, ConcatAssociative

\* Every row that append_row_csv writes, csv_parse_line reads as it was kept.
LEMMA RowRead ==
  ASSUME NEW row \in Seq(Text), row # <<>>, NEW c \in {Comma, End}
  PROVE  /\ RowText(row) \in Text
         /\ Parsing(At("plain", <<>>, <<>>), Append(RowText(row), c)) =
              At("plain", <<>>, KeptRow(row))
<1>. DEFINE s == At("plain", <<>>, <<>>)
            Good(r) == \A x \in {Comma, End} :
                         Parsing(s, Append(RowText(r), x)) = At("plain", <<>>, KeptRow(r))
            T == {r \in Seq(Text) : r # <<>> => Good(r)}
<1>1. s \in ParseState
  <2>1. "plain" \in Modes /\ <<>> \in Text /\ <<>> \in Seq(Text)
    BY DEF Modes, Text
  <2>. QED
    BY <2>1, AtType
<1>2. \A t \in Text : \A x \in {Comma, End} : Append(t, x) \in Seq(Byte)
  BY Marks DEF Text
<1>3. <<>> \in T
  OBVIOUS
<1>. HIDE DEF s
<1>4. ASSUME NEW r \in T, NEW v \in Text PROVE Append(r, v) \in T
  <2>1. r \in Seq(Text) /\ Append(r, v) \in Seq(Text) /\ KeptRow(r) \in Seq(Text) /\ RowText(r) \in Text
    BY KeptOneMore, RowTextOneMore
  <2>2. csv_escape_field(v) \in Text
    BY EscapeType
  <2>3. KeptRow(Append(r, v)) = Append(KeptRow(r), Kept(v))
    BY <2>1, KeptOneMore
  <2>4. ASSUME NEW x \in {Comma, End}
        PROVE  Parsing(s, Append(RowText(Append(r, v)), x)) = At("plain", <<>>, KeptRow(Append(r, v)))
    <3>1. CASE r = <<>>
      <4>1. RowText(Append(r, v)) = csv_escape_field(v)
        BY <2>1, <3>1, RowTextOneMore
      <4>2. KeptRow(r) = <<>>
        BY <3>1 DEF KeptRow
      <4>3. Parsing(At("plain", <<>>, KeptRow(r)), Append(csv_escape_field(v), x)) =
              At("plain", <<>>, Append(KeptRow(r), Kept(v)))
        BY <2>1, FieldRead
      <4>. QED
        BY <2>3, <4>1, <4>2, <4>3 DEF s
    <3>2. CASE r # <<>>
      <4>. DEFINE t == Append(RowText(r), Comma)
                  u == Append(csv_escape_field(v), x)
      <4>1. RowText(Append(r, v)) = t \o csv_escape_field(v)
        BY <2>1, <3>2, RowTextOneMore
      <4>2. t \in Seq(Byte) /\ u \in Seq(Byte)
        BY <1>2, <2>1, <2>2
      <4>3. Append(t \o csv_escape_field(v), x) = t \o u
        <5>. DEFINE e == csv_escape_field(v)
        <5>1. e \in Seq(Byte) /\ x \in Byte
          BY <2>2, Marks DEF Text
        <5>. HIDE DEF e, t, u
        <5>2. Append(t \o e, x) = t \o Append(e, x)
          <6>1. t \in Seq(Byte)
            BY <4>2
          <6>2. e \in Seq(Byte)
            BY <5>1
          <6>3. x \in Byte
            BY <5>1
          <6>. QED
            BY <6>1, <6>2, <6>3, ConcatAppend
        <5>. QED
          BY <5>2 DEF e, u
      <4>4. Parsing(s, t) = At("plain", <<>>, KeptRow(r))
        BY <3>2
      <4>5. Parsing(At("plain", <<>>, KeptRow(r)), u) = At("plain", <<>>, Append(KeptRow(r), Kept(v)))
        BY <2>1, FieldRead
      <4>. HIDE DEF t, u
      <4>6. Parsing(s, t \o u) = Parsing(Parsing(s, t), u)
        BY <1>1, <4>2, ParsingConcat
      <4>. QED
        BY <2>3, <4>1, <4>3, <4>4, <4>5, <4>6
    <3>. QED
      BY <3>1, <3>2
  <2>5. Good(Append(r, v))
    BY <2>4
  <2>. HIDE DEF Good
  <2>. QED
    BY <2>1, <2>5
<1>5. row \in T
  <2>1. T \in SUBSET Seq(Text)
    OBVIOUS
  <2>. HIDE DEF T
  <2>2. T = Seq(Text)
    BY <1>3, <1>4, <2>1, AppendInduction
  <2>. QED
    BY <2>2
<1>6. RowText(row) \in Text
  <2>1. <<>> \in Text
    BY DEF Text
  <2>. QED
    BY <2>1, RowTextOneMore
<1>. QED
  BY <1>5, <1>6 DEF s

\* What csv_parse_line makes of a line, in terms of the state it ends in.
LEMMA ParseLine ==
  ASSUME NEW t \in Text
  PROVE  LET end == Parsing(At("plain", <<>>, <<>>), Append(t, End))
         IN  /\ end \in ParseState
             /\ csv_parse_line(t) = IF end.mode = "bad" THEN Bad ELSE [ok |-> TRUE, fields |-> end.fields]
<1>. DEFINE s == At("plain", <<>>, <<>>)
<1>1. s \in ParseState /\ Append(t, End) \in Seq(Byte)
  <2>1. "plain" \in Modes /\ <<>> \in Text /\ <<>> \in Seq(Text)
    BY DEF Modes, Text
  <2>. QED
    <3>1. t \in Seq(Byte) /\ End \in Byte
      BY Marks DEF Text
    <3>2. Append(t, End) \in Seq(Byte)
      BY <3>1
    <3>. QED
      BY <2>1, <3>2, AtType
<1>2. Parsing(s, Append(t, End)) \in ParseState
  BY <1>1, ParsingGrows DEF ParseGrows, Parsing
<1>3. csv_parse_line(t) = With(Parsing(s, Append(t, End)), LAMBDA end : IF end.mode = "bad" THEN Bad
                                                    ELSE [ok |-> TRUE, fields |-> end.fields])
  BY DEF csv_parse_line, Parsing, At
<1>. HIDE DEF s
<1>4. csv_parse_line(t) = IF Parsing(s, Append(t, End)).mode = "bad" THEN Bad
                          ELSE [ok |-> TRUE, fields |-> Parsing(s, Append(t, End)).fields]
  BY <1>3 DEF With
<1>. QED
  BY <1>2, <1>4 DEF s

LEMMA RowRoundTrip ==
  ASSUME NEW row \in Seq(Text), row # <<>>
  PROVE  csv_parse_line(RowText(row)) = [ok |-> TRUE, fields |-> KeptRow(row)]
<1>1. RowText(row) \in Text
      /\ Parsing(At("plain", <<>>, <<>>), Append(RowText(row), End)) = At("plain", <<>>, KeptRow(row))
  BY RowRead
<1>. QED
  BY <1>1, ParseLine DEF At

LEMMA ParsedType ==
  ASSUME NEW t \in Text, csv_parse_line(t).ok
  PROVE  csv_parse_line(t).fields \in Seq(Text)
<1>. DEFINE end == Parsing(At("plain", <<>>, <<>>), Append(t, End))
<1>1. end \in ParseState
      /\ csv_parse_line(t) = IF end.mode = "bad" THEN Bad ELSE [ok |-> TRUE, fields |-> end.fields]
  BY ParseLine
<1>. HIDE DEF end
<1>2. csv_parse_line(t) = [ok |-> TRUE, fields |-> end.fields]
  BY <1>1 DEF Bad
<1>. QED
  BY <1>1, <1>2 DEF ParseState

\* A row has at least a character, and a newline only where a value has one.
LEMMA RowTextLine ==
  ASSUME NEW row \in Seq(Text), row # <<>>,
         \A i \in 1 .. Len(row) : Range(row[i]) \cap Newline = {}
  PROVE  /\ RowText(row) \in Text /\ RowText(row) # <<>>
         /\ Range(RowText(row)) \cap Newline = {}
<1>. DEFINE Clear(r) == \A i \in 1 .. Len(r) : Range(r[i]) \cap Newline = {}
            Line(r)  == /\ RowText(r) \in Text
                        /\ r # <<>> => RowText(r) # <<>>
                        /\ Range(RowText(r)) \cap Newline = {}
            T == {r \in Seq(Text) : Clear(r) => Line(r)}
<1>1. Range(<<>>) = {}
  BY DEF Range
<1>2. <<>> \in T
  <2>1. RowText(<<>>) = <<>>
    <3>1. <<>> \in Text /\ <<>> \in Seq(Text)
      BY DEF Text
    <3>. QED
      BY <3>1, RowTextOneMore
  <2>2. <<>> \in Text
    BY DEF Text
  <2>. QED
    BY <1>1, <2>1, <2>2
<1>3. ASSUME NEW r \in T, NEW v \in Text, Clear(Append(r, v)) PROVE Line(Append(r, v))
  <2>1. r \in Seq(Text) /\ RowText(r) \in Text
    BY RowTextOneMore
  <2>2. Clear(r) /\ Range(v) \cap Newline = {}
    <3>1. Len(r) \in Nat /\ Append(r, v)[Len(r) + 1] = v /\ Len(Append(r, v)) = Len(r) + 1
          /\ \A i \in 1 .. Len(r) : Append(r, v)[i] = r[i]
      BY <2>1
    <3>2. Len(r) + 1 \in 1 .. Len(r) + 1 /\ \A i \in 1 .. Len(r) : i \in 1 .. Len(r) + 1
      BY <3>1
    <3>. QED
      BY <1>3, <3>1, <3>2
  <2>3. Range(RowText(r)) \cap Newline = {}
    BY <2>2
  <2>. DEFINE e == csv_escape_field(v)
  <2>4. e \in Text /\ e # <<>> /\ Range(e) \cap Newline = {}
    BY <2>2, EscapeType, EscapeClear
  <2>. HIDE DEF e
  <2>5. CASE r = <<>>
    <3>1. RowText(Append(r, v)) = e
      BY <2>1, <2>5, RowTextOneMore DEF e
    <3>. QED
      BY <2>4, <3>1
  <2>6. CASE r # <<>>
    <3>. DEFINE t == Append(RowText(r), Comma)
    <3>1. RowText(Append(r, v)) = t \o e
      BY <2>1, <2>6, RowTextOneMore DEF e
    <3>2. t \in Text /\ Range(t) \cap Newline = {}
      BY <2>1, <2>3, Marks, AppendClear
    <3>. HIDE DEF t
    <3>3. t \o e \in Text /\ t \o e # <<>> /\ Range(t \o e) \cap Newline = {}
      BY <2>4, <3>2, ConcatClear
    <3>. QED
      BY <3>1, <3>3
  <2>. QED
    BY <2>5, <2>6
<1>4. ASSUME NEW r \in T, NEW v \in Text PROVE Append(r, v) \in T
  <2>1. Append(r, v) \in Seq(Text)
    OBVIOUS
  <2>. HIDE DEF Clear, Line
  <2>. QED
    BY <1>3, <2>1
<1>5. row \in T
  <2>1. T \in SUBSET Seq(Text)
    OBVIOUS
  <2>. HIDE DEF T
  <2>2. T = Seq(Text)
    BY <1>2, <1>4, <2>1, AppendInduction
  <2>. QED
    BY <2>2
<1>. QED
  BY <1>5

\* A line that is parsed has a field, if an empty one.
LEMMA ParsedSome ==
  ASSUME NEW t \in Text, csv_parse_line(t).ok
  PROVE  csv_parse_line(t).fields # <<>>
<1>. DEFINE start == At("plain", <<>>, <<>>)
            s     == Parsing(start, t)
            end   == Parsing(start, Append(t, End))
<1>1. start \in ParseState
  <2>1. "plain" \in Modes /\ <<>> \in Text /\ <<>> \in Seq(Text)
    BY DEF Modes, Text
  <2>. QED
    BY <2>1, AtType
<1>2. t \in Seq(Byte) /\ End \in Byte
  BY Marks DEF Text
<1>3. end \in ParseState
      /\ csv_parse_line(t) = IF end.mode = "bad" THEN Bad ELSE [ok |-> TRUE, fields |-> end.fields]
  BY ParseLine
<1>. HIDE DEF start
<1>4. end = ParseStep(s, End) /\ s \in ParseState
  <2>1. s \in ParseState
    BY <1>1, <1>2, ParsingGrows DEF ParseGrows, Parsing
  <2>. QED
    BY <1>1, <1>2, <2>1, ParsingOne
<1>. HIDE DEF s, end
<1>5. csv_parse_line(t) = [ok |-> TRUE, fields |-> end.fields] /\ end.mode # "bad"
  BY <1>3 DEF Bad
<1>6. s.mode \in Modes /\ s.fields \in Seq(Text) /\ s.buffer \in Text
  BY <1>4 DEF ParseState
<1>7. End # Quote /\ End \in {Comma, End}
  BY Marks
<1>8. \A text : Push(s, text).fields = Append(s.fields, text)
  BY DEF Push
<1>9. Inside(s, End).mode = "bad"
  <2>1. Inside(s, End) = Enter(s, "bad")
    BY <1>7 DEF Inside
  <2>. QED
    BY <1>4, <2>1 DEF Enter, ParseState
<1>10. Outside(s, End) = Push(s, trim_whitespace(s.buffer)) /\ Closed(s, End) = Push(s, s.buffer)
  <2>1. End \notin Blanks /\ End \notin Newline
    BY CsvAssumption DEF Space
  <2>. QED
    BY <1>7, <2>1 DEF Outside, Closed
<1>11. PICK text \in Text : end.fields = Append(s.fields, text)
  <2>1. trim_whitespace(s.buffer) \in Text
    BY <1>6, TrimType
  <2>2. CASE s.mode = "plain"
    BY <1>4, <1>8, <1>10, <2>1, <2>2 DEF ParseStep
  <2>3. CASE s.mode = "quoted"
    BY <1>4, <1>5, <1>9, <2>3 DEF ParseStep
  <2>4. CASE s.mode \in {"quote", "closed"}
    <3>1. end = Closed(s, End)
      BY <1>4, <1>7, <2>4 DEF ParseStep
    <3>. QED
      BY <1>6, <1>8, <1>10, <3>1
  <2>5. CASE s.mode = "bad"
    BY <1>4, <1>5, <2>5 DEF ParseStep
  <2>. QED
    BY <1>6, <2>2, <2>3, <2>4, <2>5 DEF Modes
<1>12. Append(s.fields, text) # <<>>
  BY <1>6
<1>. QED
  BY <1>5, <1>11, <1>12

-----------------------------------------------------------------------------
(* Schemas, and the rows that statements make.                             *)

\* The table that the i-th meta file declares.
DeclaredBy(schema, i) ==
  /\ schema = [ok |-> TRUE, storage_name |-> Metas[i].name,
               columns |-> csv_parse_line(LastValue(Metas[i], "columns")).fields]
  /\ schema.columns \in Seq(Text) \ {<<>>}
  /\ IdColumn \notin Range(schema.columns)

LEMMA MetaRead ==
  ASSUME NEW i \in DOMAIN Metas, NEW name, ReadMeta(Metas[i], name).ok
  PROVE  DeclaredBy(ReadMeta(Metas[i], name), i)
<1>. DEFINE meta    == Metas[i]
            lists   == Having(meta, "columns")
            value   == LastValue(meta, "columns")
            columns == csv_parse_line(value)
<1>1. meta.lines \in Seq([key : Keys, value : Text])
  <2>. DEFINE M == [name : Text, kind : EntryKind, lines : Seq([key : Keys, value : Text])]
  <2>1. Metas \in Seq(M)
    BY SchemaAssumption
  <2>2. Metas[i] \in M
    <3>. HIDE DEF M
    <3>1. i \in 1 .. Len(Metas)
      BY <2>1
    <3>. QED
      BY <2>1, <3>1
  <2>. QED
    BY <2>2
<1>2. ReadMeta(meta, name) # Bad
  BY DEF Bad
<1>3. /\ lists # {} /\ \A j \in lists : csv_parse_line(meta.lines[j].value).ok
      /\ IdColumn \notin Range(columns.fields)
      /\ ReadMeta(meta, name) = [ok |-> TRUE, storage_name |-> meta.name, columns |-> columns.fields]
  BY <1>2 DEF ReadMeta
<1>4. Max(lists) \in lists
  <2>1. lists \in SUBSET (1 .. Len(meta.lines)) /\ Len(meta.lines) \in Nat
    BY <1>1 DEF Having
  <2>. HIDE DEF lists
  <2>. QED
    BY <1>3, <2>1, MaxOfPlaces
<1>5. value \in Text /\ columns.ok
  <2>. DEFINE K == [key : Keys, value : Text]
  <2>1. Max(lists) \in 1 .. Len(meta.lines)
    BY <1>1, <1>4 DEF Having
  <2>2. meta.lines[Max(lists)] \in K
    <3>1. meta.lines \in Seq(K)
      BY <1>1
    <3>. HIDE DEF K, lists, meta
    <3>. QED
      BY <2>1, <3>1
  <2>3. value = meta.lines[Max(lists)].value
    BY DEF LastValue
  <2>. HIDE DEF lists, value
  <2>4. value \in Text
    BY <2>2, <2>3
  <2>5. columns.ok
    BY <1>3, <1>4, <2>3
  <2>. QED
    BY <2>4, <2>5
<1>. HIDE DEF value
<1>6. columns.fields \in Seq(Text) \ {<<>>}
  BY <1>5, ParsedType, ParsedSome
<1>. QED
  BY <1>3, <1>6 DEF DeclaredBy, value

LEMMA DeclaredSchema ==
  ASSUME NEW name, Declared(name).ok
  PROVE  \E i \in DOMAIN Metas : DeclaredBy(Declared(name), i)
<1>. DEFINE found == find_schema_path(name)
            stops == {i \in DOMAIN Metas : \/ Metas[i].kind # "file"
                                           \/ file_declares_table(Metas[i], name)}
<1>1. DOMAIN Metas = 1 .. Len(Metas) /\ Len(Metas) \in Nat
  BY SchemaAssumption
<1>2. found # {} /\ Declared(name) = ReadMeta(Metas[CHOOSE i \in found : TRUE], name)
  BY DEF Declared, Bad
<1>3. found \subseteq DOMAIN Metas
  <2>1. stops # {} => Min(stops) \in stops
    <3>1. stops \in SUBSET (1 .. Len(Metas))
      BY <1>1
    <3>. HIDE DEF stops
    <3>. QED
      BY <1>1, <3>1, MinOfPlaces
  <2>. QED
    BY <2>1 DEF find_schema_path
<1>. HIDE DEF found
<1>4. (CHOOSE i \in found : TRUE) \in found
  BY <1>2
<1>. QED
  BY <1>2, <1>3, <1>4, MetaRead

\* Two names of one table have the columns of that table.
LEMMA OneTable ==
  ASSUME NEW a, NEW b, Declared(a).ok, Declared(b).ok,
         Declared(a).storage_name = Declared(b).storage_name
  PROVE  Declared(a) = Declared(b)
<1>1. PICK i \in DOMAIN Metas : DeclaredBy(Declared(a), i)
  BY DeclaredSchema
<1>2. PICK j \in DOMAIN Metas : DeclaredBy(Declared(b), j)
  BY DeclaredSchema
<1>3. Metas[i].name = Metas[j].name
  BY <1>1, <1>2 DEF DeclaredBy
<1>4. i = j
  BY <1>3, SchemaAssumption
<1>. QED
  BY <1>1, <1>2, <1>4 DEF DeclaredBy

LEMMA DeclaredType ==
  ASSUME NEW name, Declared(name).ok
  PROVE  Declared(name).columns \in Seq(Text) \ {<<>>} /\ IdColumn \notin Range(Declared(name).columns)
BY DeclaredSchema DEF DeclaredBy

\* A table that was loaded has the header in its file.
LEMMA LoadedSchema ==
  ASSUME NEW name, NEW data, NEW schema \in load_schema(name, data),
         data \in [DOMAIN data -> Text]
  PROVE  /\ schema = Declared(name) /\ schema.ok
         /\ schema.storage_name \in DOMAIN data
         /\ data[schema.storage_name] \in Text \ {<<>>}
<1>1. /\ schema = Declared(name) /\ schema.ok
      /\ schema.storage_name \in DOMAIN data
      /\ validate_csv_header(data[schema.storage_name], schema.columns)
  BY DEF load_schema
<1>. DEFINE f == data[schema.storage_name]
<1>2. f \in Text
  BY <1>1
<1>. HIDE DEF f
<1>3. LinesFrom(f, 0) # <<>>
  BY <1>1 DEF validate_csv_header, With, f
<1>4. ASSUME f = <<>> PROVE FALSE
  <2>1. LinesOf(Reading(AtStart, f)) = <<>>
    <3>1. Reading(AtStart, <<>>) = AtStart
      BY StartIsMidLine, ReadingGrows DEF ReadGrows, Reading
    <3>2. LinesOf(AtStart) = <<>>
      BY DEF LinesOf, AtStart
    <3>. QED
      BY <1>4, <3>1, <3>2
  <2>2. Stripped(<<>>) = <<>>
    BY DEF Stripped
  <2>. QED
    BY <1>2, <1>3, <2>1, <2>2, LinesFromStart
<1>. QED
  BY <1>1, <1>2, <1>4 DEF f

\* A row that is one line of a file.
GoodRow(row) ==
  /\ row \in Seq(Text) /\ row # <<>>
  /\ \A i \in 1 .. Len(row) : Range(row[i]) \cap Newline = {}
  /\ Len(RowText(row)) \in 1 .. LineMax

LEMMA BuiltRow ==
  ASSUME RowsFit, NEW st \in Inserts, NEW schema, schema = Declared(st.table), schema.ok,
         validate_insert_columns(st, schema)
  PROVE  GoodRow(build_insert_row(st, schema))
<1>. DEFINE row == build_insert_row(st, schema)
            cs  == schema.columns
<1>1. cs \in Seq(Text)
  BY DeclaredType
<1>2. st.columns \in Seq(Text) /\ st.columns # <<>> /\ st.values \in Seq(Text)
  BY TableStoreAssumption
<1>3. /\ Len(st.columns) = Len(st.values)
      /\ \A i \in DOMAIN st.columns : /\ st.columns[i] \in Range(cs)
                                      /\ Range(st.values[i]) \cap Newline = {}
  BY DEF validate_insert_columns
<1>4. ASSUME NEW i \in 1 .. Len(cs) PROVE row[i] \in Text /\ Range(row[i]) \cap Newline = {}
  <2>1. i \in DOMAIN cs
    BY <1>1
  <2>2. CASE cs[i] \in Range(st.columns) /\ i = ColumnIndex(schema, cs[i])
    <3>. DEFINE j == CHOOSE j \in DOMAIN st.columns : st.columns[j] = cs[i]
    <3>1. j \in DOMAIN st.columns
      BY <2>2 DEF Range
    <3>2. row[i] = st.values[j]
      BY <2>1, <2>2 DEF build_insert_row
    <3>. HIDE DEF j
    <3>3. j \in 1 .. Len(st.values)
      BY <1>2, <1>3, <3>1
    <3>. HIDE DEF row
    <3>4. st.values[j] \in Text
      BY <1>2, <3>3
    <3>. QED
      BY <1>3, <3>1, <3>2, <3>4
  <2>3. CASE ~(cs[i] \in Range(st.columns) /\ i = ColumnIndex(schema, cs[i]))
    <3>1. row[i] = <<>>
      BY <2>1, <2>3 DEF build_insert_row
    <3>2. Range(<<>>) = {} /\ <<>> \in Text
      BY DEF Range, Text
    <3>. HIDE DEF row
    <3>. QED
      BY <3>1, <3>2
  <2>. QED
    BY <2>2, <2>3
<1>5. Len(cs) \in Nat /\ Len(cs) # 0
  <2>1. 1 \in DOMAIN st.columns
    <3>1. Len(st.columns) # 0 /\ Len(st.columns) \in Nat
      BY <1>2
    <3>. QED
      BY <1>2, <3>1
  <2>2. \E i \in DOMAIN cs : cs[i] = st.columns[1]
    BY <1>3, <2>1 DEF Range
  <2>. QED
    BY <1>1, <2>2
<1>6. row \in Seq(Text) /\ Len(row) = Len(cs) /\ row # <<>>
  <2>1. DOMAIN row = 1 .. Len(cs)
    BY <1>1 DEF build_insert_row
  <2>2. row = [i \in 1 .. Len(cs) |-> row[i]]
    BY <1>1 DEF build_insert_row
  <2>. HIDE DEF row
  <2>3. row \in [1 .. Len(cs) -> Text]
    BY <1>4, <2>2
  <2>. HIDE DEF cs
  <2>4. row \in Seq(Text) /\ Len(row) = Len(cs)
    BY <1>5, <2>3
  <2>. QED
    BY <1>5, <2>4
<1>7. Len(RowText(row)) <= LineMax
  BY DEF RowsFit
<1>. HIDE DEF row
<1>8. RowText(row) \in Text /\ RowText(row) # <<>>
  BY <1>4, <1>6, RowTextLine
<1>9. Len(RowText(row)) \in Nat /\ Len(RowText(row)) # 0
  BY <1>8 DEF Text
<1>10. Len(RowText(row)) \in 1 .. LineMax
  BY <1>7, <1>9, CsvAssumption
<1>. QED
  BY <1>4, <1>6, <1>10 DEF GoodRow, row

-----------------------------------------------------------------------------
(* The files and their indexes, in terms of those lemmas.                  *)

\* The index of a file by the lines that are counted in it.
LEMMA RebuiltIs ==
  ASSUME NEW f \in Text
  PROVE  LET lines == DataLines(f)
         IN  /\ lines \in Seq(LineType)
             /\ Rebuilt(f) = [loaded  |-> TRUE,
                              tree    |-> [i \in 1 .. Len(lines) |-> lines[i].offset],
                              next_id |-> Len(lines) + 1]
<1>. DEFINE lines == DataLines(f)
<1>1. lines \in Seq(LineType)
  BY DataLinesType
<1>2. DOMAIN lines = 1 .. Len(lines)
  BY <1>1
<1>3. Rebuilt(f) = [loaded  |-> TRUE,
                    tree    |-> [i \in DOMAIN lines |-> lines[i].offset],
                    next_id |-> Len(lines) + 1]
  BY DEF Rebuilt, With
<1>. QED
  BY <1>1, <1>2, <1>3

LEMMA RebuiltLoaded == ASSUME NEW f PROVE Rebuilt(f).loaded
<1>. DEFINE lines == DataLines(f)
<1>1. Rebuilt(f) = [loaded  |-> TRUE,
                    tree    |-> [i \in DOMAIN lines |-> lines[i].offset],
                    next_id |-> Len(lines) + 1]
  BY DEF Rebuilt, With
<1>. HIDE DEF lines
<1>. QED
  BY <1>1

\* Files with the same lines have the same index.
LEMMA SameIndex ==
  ASSUME NEW f, NEW g, DataLines(f) = DataLines(g)
  PROVE  Rebuilt(f) = Rebuilt(g)
BY DEF Rebuilt, With

\* What table_index_register_row makes of an index.
Registered(index, id, offset) ==
  [index EXCEPT
     !.tree    = [i \in DOMAIN @ \cup {id} |-> IF i = id THEN offset ELSE @[i]],
     !.next_id = IF id >= @ THEN id + 1 ELSE @]

Grown(tree, id, offset) ==
  [i \in DOMAIN tree \cup {id} |-> IF i = id THEN offset ELSE tree[i]]

LEMMA RegisteredIs ==
  ASSUME NEW tree, NEW id \in Nat, NEW offset
  PROVE  Registered([loaded |-> TRUE, tree |-> tree, next_id |-> id], id, offset)
           = [loaded |-> TRUE, tree |-> Grown(tree, id, offset), next_id |-> id + 1]
<1>. DEFINE index == [loaded |-> TRUE, tree |-> tree, next_id |-> id]
            new   == Grown(tree, id, offset)
<1>1. index.tree = tree /\ index.next_id = id /\ id >= id
  OBVIOUS
<1>2. [i \in DOMAIN index.tree \cup {id} |-> IF i = id THEN offset ELSE index.tree[i]] = new
  BY <1>1 DEF Grown
<1>. HIDE DEF new
<1>3. [index EXCEPT !.tree = new, !.next_id = id + 1] = [loaded |-> TRUE, tree |-> new, next_id |-> id + 1]
  <2>1. DOMAIN index = {"loaded", "tree", "next_id"} /\ index.loaded = TRUE
    OBVIOUS
  <2>. HIDE DEF index
  <2>. DEFINE q == [index EXCEPT !.tree = new, !.next_id = id + 1]
  <2>2. DOMAIN q = {"loaded", "tree", "next_id"} /\ q = [x \in DOMAIN q |-> q[x]]
    BY <2>1
  <2>3. q.tree = new /\ q.next_id = id + 1 /\ q.loaded = TRUE
    BY <2>1
  <2>. HIDE DEF q
  <2>4. q = [loaded |-> TRUE, tree |-> new, next_id |-> id + 1]
    BY <2>2, <2>3
  <2>. QED
    BY <2>4 DEF q
<1>4. Registered(index, id, offset) = [index EXCEPT !.tree = new, !.next_id = id + 1]
  <2>. HIDE DEF index
  <2>. QED
    BY <1>1, <1>2 DEF Registered
<1>. QED
  BY <1>3, <1>4 DEF new

\* The line that a row becomes.
LEMMA RowLine ==
  ASSUME NEW f, AtLine(f), NEW row, GoodRow(row)
  PROVE  /\ f \in Text /\ RowText(row) \in Text /\ f \o RowText(row) \in Text
         /\ DataLines(f) \in Seq(LineType)
         /\ DataLines(f \o RowText(row))
              = Append(DataLines(f), [offset |-> Len(f), text |-> RowText(row)])
         /\ [offset |-> Len(f), text |-> RowText(row)] \in LineType
<1>1. f \in Text /\ DataLines(f) \in Seq(LineType)
  BY DataLinesType DEF AtLine
<1>2. RowText(row) \in Text /\ Range(RowText(row)) \cap Newline = {}
  BY RowTextLine DEF GoodRow
<1>3. f \o RowText(row) \in Text /\ [offset |-> Len(f), text |-> RowText(row)] \in LineType
  BY <1>1, <1>2 DEF Text, LineType
<1>. QED
  BY <1>1, <1>2, <1>3, RowIsOneLine DEF GoodRow

\* The registration of an appended row is what a rebuild would find.
LEMMA RegisteredIsRebuilt ==
  ASSUME NEW f, AtLine(f), NEW row, GoodRow(row)
  PROVE  Rebuilt(f \o RowText(row)) = Registered(Rebuilt(f), Rebuilt(f).next_id, Len(f))
<1>. DEFINE lines == DataLines(f)
            line  == [offset |-> Len(f), text |-> RowText(row)]
            all   == DataLines(f \o RowText(row))
            n     == Len(lines)
            g     == f \o RowText(row)
<1>1. f \in Text /\ g \in Text /\ lines \in Seq(LineType) /\ line \in LineType
      /\ all = Append(lines, line)
  BY RowLine
<1>2. Rebuilt(f) = [loaded |-> TRUE, tree |-> [i \in 1 .. n |-> lines[i].offset], next_id |-> n + 1]
  BY <1>1, RebuiltIs
<1>3. Rebuilt(g) = [loaded |-> TRUE, tree |-> [i \in 1 .. Len(all) |-> all[i].offset],
                    next_id |-> Len(all) + 1]
  <2>. HIDE DEF g
  <2>. QED
    BY <1>1, RebuiltIs DEF g
<1>. HIDE DEF lines, all, g
<1>4. /\ n \in Nat /\ Len(all) = n + 1
      /\ all[n + 1] = line /\ \A i \in 1 .. n : all[i] = lines[i]
  BY <1>1
<1>5. line.offset = Len(f)
  OBVIOUS
<1>. HIDE DEF line, n
<1>6. [i \in 1 .. n + 1 |-> all[i].offset]
        = [i \in 1 .. n \cup {n + 1} |-> IF i = n + 1 THEN Len(f) ELSE lines[i].offset]
  <2>1. 1 .. n + 1 = 1 .. n \cup {n + 1} /\ n + 1 \notin 1 .. n
    BY <1>4
  <2>2. \A i \in 1 .. n \cup {n + 1} :
          all[i].offset = IF i = n + 1 THEN Len(f) ELSE lines[i].offset
    BY <1>4, <1>5, <2>1
  <2>. QED
    BY <2>1, <2>2
<1>7. Registered(Rebuilt(f), n + 1, Len(f))
        = [loaded  |-> TRUE,
           tree    |-> [i \in 1 .. n \cup {n + 1} |-> IF i = n + 1 THEN Len(f) ELSE lines[i].offset],
           next_id |-> (n + 1) + 1]
  <2>. DEFINE tree == [i \in 1 .. n |-> lines[i].offset]
  <2>1. n + 1 \in Nat
    BY <1>4
  <2>2. DOMAIN tree = 1 .. n
    OBVIOUS
  <2>3. Grown(tree, n + 1, Len(f))
         = [i \in 1 .. n \cup {n + 1} |-> IF i = n + 1 THEN Len(f) ELSE lines[i].offset]
    BY DEF Grown
  <2>4. Rebuilt(f) = [loaded |-> TRUE, tree |-> tree, next_id |-> n + 1]
    BY <1>2
  <2>. HIDE DEF tree
  <2>. DEFINE id == n + 1
  <2>. HIDE DEF id
  <2>5. id \in Nat /\ id = n + 1
    BY <2>1 DEF id
  <2>6. Registered([loaded |-> TRUE, tree |-> tree, next_id |-> id], id, Len(f))
          = [loaded |-> TRUE, tree |-> Grown(tree, id, Len(f)), next_id |-> id + 1]
    BY <2>5, RegisteredIs
  <2>. QED
    BY <2>3, <2>4, <2>5, <2>6
<1>8. Rebuilt(f).next_id = n + 1
  BY <1>2
<1>9. Rebuilt(g) = [loaded |-> TRUE, tree |-> [i \in 1 .. n + 1 |-> all[i].offset],
                    next_id |-> (n + 1) + 1]
  BY <1>3, <1>4
<1>. QED
  BY <1>6, <1>7, <1>8, <1>9 DEF g

\* The file has the row of an INSERT that was answered.
Has(f, ack) ==
  /\ ack.id \in DOMAIN DataLines(f)
  /\ csv_parse_line(DataLines(f)[ack.id].text) = [ok |-> TRUE, fields |-> ack.row]

\* Another row leaves the rows before it where they are.
LEMMA RowKeepsRows ==
  ASSUME NEW f, AtLine(f), NEW row, GoodRow(row), NEW ack, Has(f, ack)
  PROVE  Has(f \o RowText(row), ack)
<1>. DEFINE lines == DataLines(f)
            line  == [offset |-> Len(f), text |-> RowText(row)]
            all   == DataLines(f \o RowText(row))
<1>1. lines \in Seq(LineType) /\ line \in LineType /\ all = Append(lines, line)
  BY RowLine
<1>2. ack.id \in DOMAIN lines
      /\ csv_parse_line(lines[ack.id].text) = [ok |-> TRUE, fields |-> ack.row]
  BY DEF Has
<1>. HIDE DEF lines, line, all
<1>3. ack.id \in 1 .. Len(lines)
  BY <1>1, <1>2
<1>4. ack.id \in DOMAIN all /\ all[ack.id] = lines[ack.id]
  BY <1>1, <1>3
<1>. QED
  BY <1>2, <1>4 DEF Has, all

\* The row itself is there, under the id that the index before it gives next.
LEMMA RowIsThere ==
  ASSUME NEW f, AtLine(f), NEW row, GoodRow(row), NEW ack,
         ack.id = Rebuilt(f).next_id, ack.row = KeptRow(row)
  PROVE  Has(f \o RowText(row), ack)
<1>. DEFINE lines == DataLines(f)
            line  == [offset |-> Len(f), text |-> RowText(row)]
            all   == DataLines(f \o RowText(row))
<1>1. f \in Text /\ lines \in Seq(LineType) /\ line \in LineType /\ all = Append(lines, line)
  BY RowLine
<1>2. ack.id = Len(lines) + 1
  BY <1>1, RebuiltIs
<1>3. csv_parse_line(line.text) = [ok |-> TRUE, fields |-> ack.row]
  BY RowRoundTrip DEF GoodRow
<1>. HIDE DEF lines, line, all
<1>4. ack.id \in DOMAIN all /\ all[ack.id] = line
  BY <1>1, <1>2
<1>. QED
  BY <1>3, <1>4 DEF Has, all

-----------------------------------------------------------------------------
(* The inductive invariant.                                                *)

\* The open INSERT s is what PrepareInsert made of st.
Opened(s, st) ==
  /\ Declared(st.table).ok
  /\ validate_insert_columns(st, Declared(st.table))
  /\ IsInjective(st.columns)
  /\ s = [table |-> st.table, storage_name |-> Declared(st.table).storage_name,
          row |-> build_insert_row(st, Declared(st.table)),
          id |-> s.id, offset |-> s.offset]

\* Its table has a file with a header, its id is the next one of the index.
OpenInsert ==
  /\ \E st \in Inserts : Opened(stmt, st)
  /\ GoodRow(stmt.row)
  /\ stmt.storage_name \in DOMAIN files
  /\ files[stmt.storage_name] # <<>>
  /\ registry[stmt.storage_name].loaded
  /\ stmt.id = registry[stmt.storage_name].next_id

\* Its row is the last line of the file.
Appended(f) ==
  /\ AtLine(f)
  /\ stmt.offset = Len(f)
  /\ files[stmt.storage_name] = f \o RowText(stmt.row)

FilesInv == files \in [DOMAIN files -> Text]
IndexInv ==
  /\ registry = [t \in DOMAIN files |-> registry[t]]
  /\ \A t \in DOMAIN files : registry[t] = Unloaded \/ registry[t] = Rebuilt(Settled(t))
OpenInv ==
  \/ pc = "idle" /\ stmt = NoStmt
  \/ pc = "append" /\ OpenInsert
  \/ /\ pc = "register" /\ OpenInsert
     /\ Appended(SubSeq(files[stmt.storage_name], 1, stmt.offset))
     /\ answer = Table!Stored
AckedInv ==
  \A ack \in acked : ack.storage_name \in DOMAIN files /\ Has(files[ack.storage_name], ack)
AnswerInv == answer.kind \in {"none", "stored", "failed", "inserted", "found"}

Inv == FilesInv /\ IndexInv /\ OpenInv /\ AckedInv /\ AnswerInv

\* Whether an entry of the registry is loaded.
LEMMA LoadedOrNot ==
  ASSUME IndexInv, NEW t \in DOMAIN files
  PROVE  /\ ~Unloaded.loaded /\ Rebuilt(Settled(t)).loaded
         /\ registry[t].loaded => registry[t] = Rebuilt(Settled(t))
<1>1. ~Unloaded.loaded
  BY DEF Unloaded
<1>2. Rebuilt(Settled(t)).loaded
  BY RebuiltLoaded
<1>. QED
  BY <1>1, <1>2 DEF IndexInv

LEMMA InitInv == Init => Inv
<1>. SUFFICES ASSUME Init PROVE Inv
  OBVIOUS
<1>1. FilesInv
  BY TableStoreAssumption DEF Init, FilesInv
<1>2. IndexInv
  BY DEF Init, IndexInv
<1>3. OpenInv /\ AckedInv
  BY DEF Init, OpenInv, AckedInv
<1>4. AnswerInv
  BY DEF Init, AnswerInv, Table!NoAnswer
<1>. QED
  BY <1>1, <1>2, <1>3, <1>4 DEF Inv

\* Loading the index of a table when no INSERT is open.
LEMMA LoadKeepsIndex ==
  ASSUME Inv, pc = "idle", NEW t \in DOMAIN files, Load(t), UNCHANGED files,
         pc' \in {"idle", "append"}
  PROVE  IndexInv' /\ registry'[t] = Rebuilt(files[t]) /\ registry'[t].loaded
<1>1. \A x : Settled(x) = files[x] /\ Settled(x)' = files[x]
  BY DEF Settled
<1>2. registry = [x \in DOMAIN files |-> registry[x]]
      /\ \A x \in DOMAIN files : registry[x] = Unloaded \/ registry[x] = Rebuilt(files[x])
  BY <1>1 DEF Inv, IndexInv
<1>3. Rebuilt(files[t]).loaded
  BY RebuiltLoaded
<1>4. ensure_loaded(t) = Rebuilt(files[t])
  BY <1>2 DEF ensure_loaded, Unloaded
<1>5. registry' = [registry EXCEPT ![t] = Rebuilt(files[t])]
  BY <1>4 DEF Load
<1>6. registry' = [x \in DOMAIN files |-> IF x = t THEN Rebuilt(files[t]) ELSE registry[x]]
  BY <1>2, <1>5
<1>7. IndexInv'
  <2>1. registry' = [x \in DOMAIN files' |-> registry'[x]]
    BY <1>6
  <2>2. \A x \in DOMAIN files' : registry'[x] = Unloaded \/ registry'[x] = Rebuilt(Settled(x)')
    BY <1>1, <1>2, <1>6
  <2>. QED
    BY <2>1, <2>2 DEF IndexInv
<1>. QED
  BY <1>3, <1>6, <1>7

LEMMA PrepareInv ==
  ASSUME RowsFit, Inv, NEW st \in Inserts, PrepareInsert(st)
  PROVE  Inv'
<1>1. PICK schema \in load_schema(st.table, files) :
        /\ validate_insert_columns(st, schema)
        /\ Load(schema.storage_name)
        /\ IsInjective(st.columns)
        /\ stmt' = [table |-> st.table, storage_name |-> schema.storage_name,
                    row |-> build_insert_row(st, schema),
                    id |-> registry'[schema.storage_name].next_id, offset |-> 0]
  BY DEF PrepareInsert
<1>2. pc = "idle" /\ pc' = "append" /\ UNCHANGED <<files, answer, acked>>
  BY DEF PrepareInsert
<1>. DEFINE t == schema.storage_name
<1>3. /\ schema = Declared(st.table) /\ schema.ok
      /\ t \in DOMAIN files /\ files[t] \in Text \ {<<>>}
  BY LoadedSchema DEF Inv, FilesInv
<1>4. IndexInv' /\ registry'[t].loaded
  BY <1>1, <1>2, <1>3, LoadKeepsIndex
<1>5. stmt'.table = st.table /\ stmt'.storage_name = t /\ stmt'.row = build_insert_row(st, schema)
      /\ stmt'.id = registry'[t].next_id /\ stmt'.offset = 0
  BY <1>1
<1>6. Opened(stmt, st)'
  BY <1>1, <1>3, <1>5 DEF Opened
<1>7. GoodRow(stmt'.row)
  BY <1>1, <1>3, <1>5, BuiltRow
<1>8. OpenInsert'
  <2>1. GoodRow(stmt.row)'
    BY <1>7
  <2>. QED
    BY <1>2, <1>3, <1>4, <1>5, <1>6, <2>1 DEF OpenInsert
<1>9. FilesInv' /\ AckedInv' /\ AnswerInv'
  BY <1>2 DEF Inv, FilesInv, AckedInv, AnswerInv, Has
<1>. QED
  BY <1>2, <1>4, <1>8, <1>9 DEF Inv, OpenInv

\* What the open INSERT gives its steps.
LEMMA OpenFacts ==
  ASSUME Inv, pc \in {"append", "register"}
  PROVE  /\ OpenInsert /\ GoodRow(stmt.row)
         /\ stmt.storage_name \in DOMAIN files
         /\ files[stmt.storage_name] \in Text \ {<<>>}
         /\ registry[stmt.storage_name] = Rebuilt(Settled(stmt.storage_name))
         /\ stmt.id = Rebuilt(Settled(stmt.storage_name)).next_id
<1>1. OpenInsert
  BY DEF Inv, OpenInv
<1>2. stmt.storage_name \in DOMAIN files /\ GoodRow(stmt.row) /\ files[stmt.storage_name] # <<>>
      /\ registry[stmt.storage_name].loaded /\ stmt.id = registry[stmt.storage_name].next_id
  BY <1>1 DEF OpenInsert
<1>3. registry[stmt.storage_name] = Rebuilt(Settled(stmt.storage_name))
  BY <1>2, LoadedOrNot DEF Inv
<1>4. files[stmt.storage_name] \in Text
  BY <1>2 DEF Inv, FilesInv
<1>. QED
  BY <1>1, <1>2, <1>3, <1>4

\* The statement opened by st has this shape.
LEMMA OpenedShape ==
  ASSUME OpenInsert, NEW n
  PROVE  LET new == [stmt EXCEPT !.offset = n]
         IN  /\ new.offset = n /\ new.storage_name = stmt.storage_name
             /\ new.row = stmt.row /\ new.id = stmt.id
             /\ \A st \in Inserts : Opened(stmt, st) => Opened(new, st)
<1>. DEFINE new == [stmt EXCEPT !.offset = n]
<1>0. ASSUME NEW st \in Inserts, Opened(stmt, st)
      PROVE  /\ new.offset = n /\ new.storage_name = stmt.storage_name
             /\ new.row = stmt.row /\ new.id = stmt.id /\ Opened(new, st)
  <2>. DEFINE name  == Declared(st.table).storage_name
              built == build_insert_row(st, Declared(st.table))
  <2>2. stmt = [table |-> st.table, storage_name |-> name, row |-> built, id |-> stmt.id,
                offset |-> stmt.offset]
    BY <1>0 DEF Opened
  <2>. HIDE DEF name, built
  <2>3. DOMAIN stmt = {"table", "storage_name", "row", "id", "offset"}
        /\ stmt.table = st.table /\ stmt.storage_name = name /\ stmt.row = built
    BY <2>2
  <2>4. /\ DOMAIN new = {"table", "storage_name", "row", "id", "offset"}
        /\ new = [x \in DOMAIN new |-> new[x]]
    BY <2>3
  <2>5. new.offset = n /\ new.storage_name = name /\ new.row = built /\ new.table = st.table
        /\ new.id = stmt.id
    BY <2>3
  <2>. HIDE DEF new
  <2>6. new = [table |-> st.table, storage_name |-> name, row |-> built, id |-> new.id,
               offset |-> new.offset]
    BY <2>4, <2>5
  <2>. QED
    BY <1>0, <2>3, <2>5, <2>6 DEF Opened, new, name, built
<1>. QED
  BY <1>0 DEF OpenInsert

\* A step that changes at most one file, and keeps the lines of that one.
LEMMA SameLinesSafe ==
  ASSUME Inv, NEW t \in DOMAIN files, NEW g \in Text, DataLines(g) = DataLines(files[t]),
         files' = [files EXCEPT ![t] = g], UNCHANGED acked
  PROVE  FilesInv' /\ AckedInv'
<1>1. FilesInv'
  BY DEF Inv, FilesInv
<1>2. AckedInv'
  <2>1. \A x \in DOMAIN files : DataLines(files'[x]) = DataLines(files[x])
    BY DEF Inv, FilesInv
  <2>2. DOMAIN files' = DOMAIN files
    BY DEF Inv, FilesInv
  <2>3. ASSUME NEW ack \in acked'
        PROVE  ack.storage_name \in DOMAIN files' /\ Has(files'[ack.storage_name], ack)
    <3>1. ack.storage_name \in DOMAIN files /\ Has(files[ack.storage_name], ack)
      BY DEF Inv, AckedInv
    <3>. QED
      BY <2>1, <2>2, <3>1 DEF Has
  <2>. QED
    BY <2>3 DEF AckedInv
<1>. QED
  BY <1>1, <1>2

LEMMA AppendRowInv ==
  ASSUME Inv, AppendRow
  PROVE  Inv'
<1>. DEFINE t     == stmt.storage_name
            start == files[t] \o Separator(files[t])
            text  == RowText(stmt.row)
<1>1. /\ pc = "append" /\ pc' = "register" /\ answer' = Table!Stored
      /\ files' = [files EXCEPT ![t] = start \o text]
      /\ stmt' = [stmt EXCEPT !.offset = Len(start)]
      /\ UNCHANGED <<registry, acked>>
  BY DEF AppendRow
<1>2. /\ OpenInsert /\ GoodRow(stmt.row) /\ t \in DOMAIN files /\ files[t] \in Text \ {<<>>}
  BY <1>1, OpenFacts
<1>3. AtLine(start) /\ DataLines(start) = DataLines(files[t]) /\ start \in Text
  BY <1>2, SeparatorAddsNothing DEF AtLine
<1>4. text \in Text /\ start \o text \in Text
  BY <1>2, <1>3, RowLine
<1>5. /\ stmt'.offset = Len(start) /\ stmt'.storage_name = t /\ stmt'.row = stmt.row
      /\ stmt'.id = stmt.id /\ (\E st \in Inserts : Opened(stmt, st))'
  <2>1. stmt'.offset = Len(start) /\ stmt'.storage_name = t /\ stmt'.row = stmt.row /\ stmt'.id = stmt.id
    BY <1>1, <1>2, OpenedShape
  <2>2. \E st \in Inserts : Opened(stmt, st)'
    <3>1. PICK st \in Inserts : Opened(stmt, st)
      BY <1>2 DEF OpenInsert
    <3>2. Opened(stmt', st)
      BY <1>1, <1>2, <3>1, OpenedShape
    <3>. QED
      BY <3>2
  <2>. QED
    BY <2>1, <2>2
<1>6. files \in [DOMAIN files -> Text] /\ registry = [x \in DOMAIN files |-> registry[x]]
  BY DEF Inv, FilesInv, IndexInv
<1>. HIDE DEF start, text
<1>7. /\ files' \in [DOMAIN files -> Text] /\ DOMAIN files' = DOMAIN files
      /\ files'[t] = start \o text /\ \A x \in DOMAIN files : x # t => files'[x] = files[x]
  BY <1>1, <1>2, <1>4, <1>6
<1>8. SubSeq(files'[t], 1, Len(start)) = start
  BY <1>3, <1>4, <1>7 DEF Text
<1>9. OpenInsert'
  <2>1. start \o text # <<>>
    <3>1. start # <<>>
      BY <1>3 DEF AtLine
    <3>. QED
      BY <1>3, <1>4, <3>1 DEF Text
  <2>2. GoodRow(stmt.row)'
    BY <1>2, <1>5
  <2>3. registry[t].loaded /\ stmt.id = registry[t].next_id
    BY <1>2 DEF OpenInsert
  <2>. QED
    BY <1>1, <1>2, <1>5, <1>7, <2>1, <2>2, <2>3 DEF OpenInsert
<1>10. OpenInv'
  <2>1. Appended(SubSeq(files[stmt.storage_name], 1, stmt.offset))'
    BY <1>3, <1>5, <1>7, <1>8 DEF Appended, text
  <2>2. answer' = Table!Stored'
    BY <1>1 DEF Table!Stored
  <2>. QED
    BY <1>1, <1>9, <2>1, <2>2 DEF OpenInv
<1>11. IndexInv'
  <2>1. \A x \in DOMAIN files : Settled(x) = files[x]
    BY <1>1 DEF Settled
  <2>2. Settled(t)' = start /\ \A x \in DOMAIN files : x # t => Settled(x)' = files[x]
    BY <1>1, <1>5, <1>7, <1>8 DEF Settled
  <2>3. Rebuilt(start) = Rebuilt(files[t])
    BY <1>3, SameIndex
  <2>4. \A x \in DOMAIN files : registry[x] = Unloaded \/ registry[x] = Rebuilt(files[x])
    BY <2>1 DEF Inv, IndexInv
  <2>5. \A x \in DOMAIN files : registry'[x] = Unloaded \/ registry'[x] = Rebuilt(Settled(x)')
    BY <1>1, <2>2, <2>3, <2>4
  <2>. QED
    BY <1>1, <1>6, <1>7, <2>5 DEF IndexInv
<1>12. AckedInv'
  <2>1. ASSUME NEW ack \in acked
        PROVE  ack.storage_name \in DOMAIN files' /\ Has(files'[ack.storage_name], ack)
    <3>1. ack.storage_name \in DOMAIN files /\ Has(files[ack.storage_name], ack)
      BY DEF Inv, AckedInv
    <3>2. CASE ack.storage_name # t
      BY <1>7, <3>1, <3>2
    <3>3. CASE ack.storage_name = t
      <4>1. Has(start, ack)
        BY <1>3, <3>1, <3>3 DEF Has
      <4>2. Has(start \o text, ack)
        BY <1>2, <1>3, <4>1, RowKeepsRows DEF text
      <4>. QED
        BY <1>7, <3>1, <3>3, <4>2
    <3>. QED
      BY <3>2, <3>3
  <2>. QED
    BY <1>1, <2>1 DEF AckedInv
<1>13. FilesInv' /\ AnswerInv'
  BY <1>1, <1>7 DEF FilesInv, AnswerInv, Table!Stored
<1>. QED
  BY <1>10, <1>11, <1>12, <1>13 DEF Inv

LEMMA AppendFailsInv ==
  ASSUME Inv, AppendFails
  PROVE  Inv'
<1>. DEFINE t     == stmt.storage_name
            start == files[t] \o Separator(files[t])
<1>1. /\ pc = "append" /\ pc' = "idle" /\ stmt' = NoStmt /\ answer' = Table!Failed
      /\ files' = files \/ files' = [files EXCEPT ![t] = start]
      /\ UNCHANGED <<registry, acked>>
  BY DEF AppendFails
<1>2. t \in DOMAIN files /\ files[t] \in Text \ {<<>>}
  BY <1>1, OpenFacts
<1>3. files \in [DOMAIN files -> Text] /\ registry = [x \in DOMAIN files |-> registry[x]]
  BY DEF Inv, FilesInv, IndexInv
<1>4. PICK g \in Text : DataLines(g) = DataLines(files[t]) /\ files' = [files EXCEPT ![t] = g]
  <2>1. start \in Text /\ DataLines(start) = DataLines(files[t])
    BY <1>2, SeparatorAddsNothing DEF AtLine
  <2>2. files = [files EXCEPT ![t] = files[t]]
    BY <1>2, <1>3
  <2>. HIDE DEF start
  <2>. QED
    BY <1>1, <1>2, <2>1, <2>2
<1>5. FilesInv' /\ AckedInv'
  BY <1>1, <1>2, <1>4, SameLinesSafe
<1>6. OpenInv' /\ AnswerInv'
  BY <1>1 DEF OpenInv, AnswerInv, Table!Failed
<1>7. IndexInv'
  <2>1. \A x \in DOMAIN files : Settled(x) = files[x] /\ Settled(x)' = files'[x]
    BY <1>1 DEF Settled
  <2>2. \A x \in DOMAIN files : DataLines(files'[x]) = DataLines(files[x])
    BY <1>2, <1>3, <1>4
  <2>3. \A x \in DOMAIN files : Rebuilt(files'[x]) = Rebuilt(files[x])
    BY <2>2, SameIndex
  <2>4. DOMAIN files' = DOMAIN files
    BY <1>3, <1>4
  <2>5. \A x \in DOMAIN files : registry'[x] = Unloaded \/ registry'[x] = Rebuilt(Settled(x)')
    BY <1>1, <2>1, <2>3 DEF Inv, IndexInv
  <2>. QED
    BY <1>1, <1>3, <2>4, <2>5 DEF IndexInv
<1>. QED
  BY <1>5, <1>6, <1>7 DEF Inv

LEMMA RegisterRowInv ==
  ASSUME Inv, RegisterRow
  PROVE  Inv'
<1>. DEFINE t   == stmt.storage_name
            f   == SubSeq(files[t], 1, stmt.offset)
            ack == [storage_name |-> t, id |-> stmt.id,
                    row |-> [i \in DOMAIN stmt.row |-> Kept(stmt.row[i])]]
<1>1. /\ pc = "register" /\ pc' = "idle" /\ stmt' = NoStmt /\ answer' = Table!Inserted
      /\ registry' = [registry EXCEPT ![t] = Registered(ensure_loaded(t), stmt.id, stmt.offset)]
      /\ acked' = acked \cup {ack} /\ files' = files
  BY DEF RegisterRow, Registered
<1>2. /\ GoodRow(stmt.row) /\ t \in DOMAIN files
      /\ registry[t] = Rebuilt(Settled(t)) /\ stmt.id = Rebuilt(Settled(t)).next_id
  BY <1>1, OpenFacts
<1>3. Appended(f)
  BY <1>1 DEF Inv, OpenInv
<1>4. Settled(t) = f
  BY <1>1 DEF Settled
<1>. HIDE DEF f
<1>5. AtLine(f) /\ stmt.offset = Len(f) /\ files[t] = f \o RowText(stmt.row)
  BY <1>3 DEF Appended
<1>6. ensure_loaded(t) = Rebuilt(f)
  BY <1>2, <1>4, RebuiltLoaded DEF ensure_loaded
<1>7. registry' = [registry EXCEPT ![t] = Rebuilt(files[t])]
  BY <1>1, <1>2, <1>4, <1>5, <1>6, RegisteredIsRebuilt
<1>8. IndexInv'
  <2>1. registry = [x \in DOMAIN files |-> registry[x]]
    BY DEF Inv, IndexInv
  <2>2. \A x \in DOMAIN files : Settled(x)' = files[x] /\ (x # t => Settled(x) = files[x])
    BY <1>1 DEF Settled
  <2>3. \A x \in DOMAIN files : registry'[x] = Unloaded \/ registry'[x] = Rebuilt(Settled(x)')
    BY <1>2, <1>7, <2>1, <2>2 DEF Inv, IndexInv
  <2>4. registry' = [x \in DOMAIN files |-> registry'[x]]
    BY <1>7, <2>1
  <2>. QED
    BY <1>1, <2>3, <2>4 DEF IndexInv
<1>9. Has(files[t], ack)
  <2>1. ack.id = Rebuilt(f).next_id /\ ack.row = KeptRow(stmt.row)
    BY <1>2, <1>4 DEF KeptRow
  <2>. HIDE DEF ack
  <2>. QED
    BY <1>2, <1>5, <2>1, RowIsThere
<1>10. ack.storage_name = t
  OBVIOUS
<1>. HIDE DEF ack
<1>11. AckedInv'
  BY <1>1, <1>2, <1>9, <1>10 DEF Inv, AckedInv
<1>12. FilesInv' /\ OpenInv' /\ AnswerInv'
  BY <1>1 DEF Inv, FilesInv, OpenInv, AnswerInv, Table!Inserted
<1>. QED
  BY <1>8, <1>11, <1>12 DEF Inv

\* A step that drops some of the indexes and has no INSERT open after it.
LEMMA DropInv ==
  ASSUME Inv, UNCHANGED <<files, acked>>, pc' = "idle", stmt' = NoStmt, AnswerInv',
         registry' = [x \in DOMAIN files |-> registry'[x]],
         \A x \in DOMAIN files : \/ registry'[x] = Unloaded
                                 \/ registry'[x] = registry[x] /\ Settled(x) = files[x]
  PROVE  Inv'
<1>1. \A x \in DOMAIN files : Settled(x)' = files[x]
  BY DEF Settled
<1>2. \A x \in DOMAIN files : registry'[x] = Unloaded \/ registry'[x] = Rebuilt(Settled(x)')
  BY <1>1 DEF Inv, IndexInv
<1>3. IndexInv'
  BY <1>2 DEF IndexInv
<1>4. FilesInv' /\ OpenInv' /\ AckedInv'
  BY DEF Inv, FilesInv, OpenInv, AckedInv
<1>. QED
  BY <1>3, <1>4 DEF Inv

LEMMA RegisterFailsInv ==
  ASSUME Inv, RegisterFails
  PROVE  Inv'
<1>. DEFINE t == stmt.storage_name
<1>1. /\ pc = "register" /\ pc' = "idle" /\ stmt' = NoStmt /\ answer' = Table!Failed
      /\ registry' = [registry EXCEPT ![t] = Unloaded] /\ UNCHANGED <<files, acked>>
  BY DEF RegisterFails
<1>2. registry = [x \in DOMAIN files |-> registry[x]]
  BY DEF Inv, IndexInv
<1>3. \A x \in DOMAIN files : x # t => Settled(x) = files[x]
  BY <1>1 DEF Settled
<1>4. AnswerInv'
  BY <1>1 DEF AnswerInv, Table!Failed
<1>5. registry' = [x \in DOMAIN files |-> registry'[x]]
      /\ \A x \in DOMAIN files : registry'[x] = IF x = t THEN Unloaded ELSE registry[x]
  BY <1>1, <1>2
<1>. QED
  BY <1>1, <1>3, <1>4, <1>5, DropInv

\* Reset and Crash.
LEMMA DropAllInv ==
  ASSUME Inv, Reset \/ Crash
  PROVE  Inv'
<1>1. /\ UNCHANGED <<files, acked>> /\ answer' = Table!NoAnswer
      /\ registry' = [x \in DOMAIN registry |-> Unloaded]
  BY DEF Reset, Crash
<1>2. pc' = "idle" /\ stmt' = NoStmt
  BY DEF Reset, Crash, Inv, OpenInv
<1>3. DOMAIN registry = DOMAIN files
  BY DEF Inv, IndexInv
<1>4. AnswerInv'
  BY <1>1 DEF AnswerInv, Table!NoAnswer
<1>5. registry' = [x \in DOMAIN files |-> registry'[x]]
      /\ \A x \in DOMAIN files : registry'[x] = Unloaded
  BY <1>1, <1>3
<1>. QED
  BY <1>1, <1>2, <1>4, <1>5, DropInv

\* A statement that changes no file, and loads at most an index.
LEMMA ReadOnlyInv ==
  ASSUME Inv, pc = "idle", UNCHANGED <<files, pc, stmt, acked>>, AnswerInv',
         \/ UNCHANGED registry
         \/ \E t \in DOMAIN files : Load(t) \/ LoadFails(t)
  PROVE  Inv'
<1>1. pc' = "idle" /\ stmt' = NoStmt
  BY DEF Inv, OpenInv
<1>2. registry = [x \in DOMAIN files |-> registry[x]]
      /\ \A x \in DOMAIN files : Settled(x) = files[x]
  BY DEF Inv, IndexInv, Settled
<1>3. CASE UNCHANGED registry
  BY <1>1, <1>2, <1>3, DropInv
<1>4. ASSUME NEW t \in DOMAIN files, LoadFails(t) PROVE Inv'
  <2>1. registry' = [registry EXCEPT ![t] = Unloaded]
    BY <1>4 DEF LoadFails
  <2>2. registry' = [x \in DOMAIN files |-> registry'[x]]
        /\ \A x \in DOMAIN files : registry'[x] = IF x = t THEN Unloaded ELSE registry[x]
    BY <1>2, <2>1
  <2>. QED
    BY <1>1, <1>2, <2>2, DropInv
<1>5. ASSUME NEW t \in DOMAIN files, Load(t) PROVE Inv'
  <2>1. IndexInv'
    BY <1>1, <1>5, LoadKeepsIndex
  <2>2. FilesInv' /\ OpenInv' /\ AckedInv'
    BY <1>1 DEF Inv, FilesInv, OpenInv, AckedInv
  <2>. QED
    BY <2>1, <2>2 DEF Inv
<1>. QED
  BY <1>3, <1>4, <1>5

LEMMA NextInv ==
  ASSUME RowsFit, Inv, [Next]_storeVars
  PROVE  Inv'
<1>1. CASE \E st \in Inserts : PrepareInsert(st)
  BY <1>1, PrepareInv
<1>2. CASE AppendRow \/ AppendFails \/ RegisterRow \/ RegisterFails
  BY <1>2, AppendRowInv, AppendFailsInv, RegisterRowInv, RegisterFailsInv
<1>3. ASSUME NEW st \in Selects, SelectById(st) PROVE Inv'
  <2>1. PICK schema \in load_schema(st.table, files) : Load(schema.storage_name)
    BY <1>3 DEF SelectById
  <2>2. schema.storage_name \in DOMAIN files
    BY DEF load_schema
  <2>3. pc = "idle" /\ UNCHANGED <<files, pc, stmt, acked>> /\ answer'.kind = "found"
    BY <1>3 DEF SelectById, Table!Found
  <2>4. AnswerInv'
    BY <2>3 DEF AnswerInv
  <2>. QED
    BY <2>1, <2>2, <2>3, <2>4, ReadOnlyInv
<1>4. ASSUME NEW st \in Selects, SelectScan(st) PROVE Inv'
  <2>1. pc = "idle" /\ UNCHANGED <<files, registry, pc, stmt, acked>> /\ answer'.kind = "found"
    BY <1>4 DEF SelectScan, Table!Found
  <2>2. AnswerInv'
    BY <2>1 DEF AnswerInv
  <2>. QED
    BY <2>1, <2>2, ReadOnlyInv
<1>5. ASSUME NEW t \in DOMAIN registry, StatementFails(t) PROVE Inv'
  <2>1. t \in DOMAIN files
    BY DEF Inv, IndexInv
  <2>2. pc = "idle" /\ UNCHANGED <<files, pc, stmt, acked>> /\ answer' = Table!Failed
        /\ (UNCHANGED registry \/ Load(t) \/ LoadFails(t))
    BY <1>5 DEF StatementFails
  <2>3. AnswerInv'
    BY <2>2 DEF AnswerInv, Table!Failed
  <2>. QED
    BY <2>1, <2>2, <2>3, ReadOnlyInv
<1>6. CASE Reset \/ Crash
  BY <1>6, DropAllInv
<1>7. CASE UNCHANGED storeVars
  <2>1. UNCHANGED files /\ UNCHANGED registry /\ UNCHANGED pc /\ UNCHANGED stmt
        /\ UNCHANGED answer /\ UNCHANGED acked
    BY <1>7 DEF storeVars
  <2>2. OpenInv' /\ AnswerInv' /\ AckedInv' /\ FilesInv'
    BY <2>1 DEF Inv, OpenInv, OpenInsert, Opened, Appended, AnswerInv, AckedInv, FilesInv
  <2>3. IndexInv'
    BY <2>1 DEF Inv, IndexInv, Settled
  <2>. QED
    BY <2>2, <2>3 DEF Inv
<1>. QED
  BY <1>1, <1>2, <1>3, <1>4, <1>5, <1>6, <1>7 DEF Next

(***************************************************************************)
(* Files, registry and open INSERT stay in step (Inv) through every        *)
(* statement of executor.c, its failures, resets and restarts, for any     *)
(* schema, files and statements whose rows one fgets can read.             *)
(***************************************************************************)
THEOREM InvInvariant == RowsFit /\ Spec => []Inv
<1>1. RowsFit /\ Inv /\ [Next]_storeVars => Inv'
  BY NextInv
<1>2. RowsFit => RowsFit'
  BY DEF RowsFit
<1>. QED
  BY <1>1, <1>2, InitInv, PTL DEF Spec

\* The registry has an entry for each data file, whose ids are 1 up to the
\* next one (table_index.c), and the open INSERT of executor.c is one of three
\* places.
THEOREM TypeCorrect == RowsFit /\ Spec => []TypeOK
<1>1. ASSUME Inv PROVE TypeOK
  <2>1. DOMAIN registry = DOMAIN files
    BY <1>1 DEF Inv, IndexInv
  <2>2. pc \in {"idle", "append", "register"} /\ answer.kind \in {"none", "stored", "failed", "inserted", "found"}
    BY <1>1 DEF Inv, OpenInv, AnswerInv
  <2>3. pc = "idle" <=> stmt = NoStmt
    <3>1. CASE pc = "idle"
      BY <1>1, <3>1 DEF Inv, OpenInv
    <3>2. CASE pc # "idle"
      <4>1. PICK st \in Inserts : Opened(stmt, st)
        BY <1>1, <3>2 DEF Inv, OpenInv, OpenInsert
      <4>. DEFINE name  == Declared(st.table).storage_name
                  built == build_insert_row(st, Declared(st.table))
      <4>2. stmt = [table |-> st.table, storage_name |-> name, row |-> built, id |-> stmt.id,
                    offset |-> stmt.offset]
        BY <4>1 DEF Opened
      <4>. HIDE DEF name, built
      <4>3. "row" \in DOMAIN stmt
        BY <4>2
      <4>4. DOMAIN NoStmt = {"table"}
        BY DEF NoStmt
      <4>. QED
        BY <3>2, <4>3, <4>4
    <3>. QED
      BY <3>1, <3>2
  <2>4. ASSUME NEW t \in DOMAIN registry
        PROVE  /\ registry[t].loaded \in BOOLEAN
               /\ registry[t].next_id \in Nat \ {0}
               /\ DOMAIN registry[t].tree = 1 .. registry[t].next_id - 1
    <3>1. t \in DOMAIN files
      BY <2>1
    <3>2. CASE registry[t] = Unloaded
      BY <3>2 DEF Unloaded
    <3>3. CASE registry[t] = Rebuilt(Settled(t))
      <4>1. Settled(t) \in Text
        <5>1. files[t] \in Text
          BY <1>1, <3>1 DEF Inv, FilesInv
        <5>2. CASE pc = "register" /\ stmt.storage_name = t
          BY <1>1, <5>2 DEF Inv, OpenInv, Appended, AtLine, Settled
        <5>3. CASE ~(pc = "register" /\ stmt.storage_name = t)
          BY <5>1, <5>3 DEF Settled
        <5>. QED
          BY <5>2, <5>3
      <4>. DEFINE lines == DataLines(Settled(t))
                  tree  == [i \in 1 .. Len(lines) |-> lines[i].offset]
      <4>2. lines \in Seq(LineType)
            /\ registry[t] = [loaded |-> TRUE, tree |-> tree, next_id |-> Len(lines) + 1]
        BY <3>3, <4>1, RebuiltIs
      <4>3. Len(lines) \in Nat /\ DOMAIN tree = 1 .. Len(lines)
        BY <4>2
      <4>. HIDE DEF tree, lines
      <4>4. registry[t].tree = tree /\ registry[t].next_id = Len(lines) + 1
            /\ registry[t].loaded \in BOOLEAN
        BY <4>2
      <4>5. 1 .. (Len(lines) + 1) - 1 = 1 .. Len(lines) /\ Len(lines) + 1 \in Nat \ {0}
        BY <4>3
      <4>. QED
        BY <4>3, <4>4, <4>5
    <3>. QED
      BY <1>1, <3>1, <3>2, <3>3 DEF Inv, IndexInv
  <2>. QED
    BY <2>1, <2>2, <2>3, <2>4 DEF TypeOK
<1>. QED
  BY <1>1, InvInvariant, PTL

\* Every loaded index is what ensure_loaded would rebuild from its file:
\* table_index_register_row after append_row_csv gives what rebuild_row does.
THEOREM IndexIsRebuilt == RowsFit /\ Spec => []IndexAgrees
<1>1. ASSUME Inv PROVE IndexAgrees
  <2>1. DOMAIN registry = DOMAIN files
    BY <1>1 DEF Inv, IndexInv
  <2>. QED
    BY <1>1, <2>1, LoadedOrNot DEF Inv, IndexAgrees
<1>. QED
  BY <1>1, InvInvariant, PTL

\* A row that was answered "INSERT 1" is in its file under its id, and
\* csv_parse_line gives back the values that append_row_csv was given, for ever.
THEOREM AckedIsDurable == RowsFit /\ Spec => []AckedRowsDurable
<1>1. ASSUME Inv PROVE AckedRowsDurable
  BY <1>1 DEF Inv, AckedInv, AckedRowsDurable, Has
<1>. QED
  BY <1>1, InvInvariant, PTL

-----------------------------------------------------------------------------
(* Reading from the offset of a line.                                      *)

From(o)     == [lines |-> <<>>, offset |-> o, text |-> <<>>]
Drop(f, o)  == SubSeq(f, o + 1, Len(f))
After(f, o) == Reading(From(o), Drop(f, o))

LEMMA ReadKeepsState == ReadTyped(ReadState, Char)
<1>. SUFFICES ASSUME NEW s \in ReadState, NEW c \in Char PROVE Read(s, c) \in ReadState
  BY DEF ReadTyped
<1>. DEFINE text == Append(s.text, c)
            t    == [s EXCEPT !.text = Append(@, c)]
<1>1. text \in Text /\ s.lines \in Seq(LineType) /\ s.offset \in Nat
  BY DEF ReadState, Text
<1>2. t \in ReadState /\ t.text = text /\ t.lines = s.lines /\ t.offset = s.offset
  BY <1>1 DEF ReadState
<1>. HIDE DEF t, text
<1>3. [offset |-> t.offset, text |-> t.text] \in LineType
  BY <1>1, <1>2 DEF LineType
<1>4. Cut(t).lines \in Seq(LineType)
  BY <1>1, <1>2, <1>3 DEF Cut
<1>5. Cut(t) \in ReadState
  BY <1>1, <1>2, <1>4 DEF Cut, ReadState, Text
<1>. QED
  BY <1>2, <1>5 DEF Read, t

\* What one more character does to what was read.
LEMMA ReadOne ==
  ASSUME NEW s \in ReadState, NEW c \in Char
  PROVE  LET line == [offset |-> s.offset, text |-> Append(s.text, c)]
             cut  == c = LF \/ Len(s.text) + 1 = LineMax
         IN  /\ cut => Read(s, c) = [lines |-> Append(s.lines, line),
                                     offset |-> s.offset + Len(s.text) + 1, text |-> <<>>]
             /\ ~cut => Read(s, c) = [lines |-> s.lines, offset |-> s.offset,
                                      text |-> Append(s.text, c)]
<1>. DEFINE text == Append(s.text, c)
            t    == [s EXCEPT !.text = Append(@, c)]
<1>1. text \in Text /\ Len(text) = Len(s.text) + 1 /\ s.offset \in Nat /\ Len(s.text) \in Nat
  BY DEF ReadState, Text
<1>2. t.text = text /\ t.lines = s.lines /\ t.offset = s.offset
      /\ t = [lines |-> s.lines, offset |-> s.offset, text |-> text]
  <2>1. DOMAIN s = {"lines", "offset", "text"} /\ s = [x \in DOMAIN s |-> s[x]]
    BY DEF ReadState
  <2>2. t.text = text /\ t.lines = s.lines /\ t.offset = s.offset
    BY <2>1
  <2>3. DOMAIN t = {"lines", "offset", "text"} /\ t = [x \in DOMAIN t |-> t[x]]
    BY <2>1
  <2>. HIDE DEF t, text
  <2>4. t = [lines |-> s.lines, offset |-> s.offset, text |-> text]
    BY <2>2, <2>3
  <2>. QED
    BY <2>2, <2>4
<1>3. Read(s, c) = IF c = LF \/ Len(t.text) = LineMax THEN Cut(t) ELSE t
  BY DEF Read
<1>. HIDE DEF t, text
<1>4. Cut(t) = [lines |-> Append(s.lines, [offset |-> s.offset, text |-> text]),
                offset |-> s.offset + Len(s.text) + 1, text |-> <<>>]
  <2>1. t.offset + Len(t.text) = s.offset + Len(s.text) + 1
    BY <1>1, <1>2
  <2>2. Cut(t) = [lines |-> Append(t.lines, [offset |-> t.offset, text |-> t.text]),
                  offset |-> s.offset + Len(s.text) + 1, text |-> <<>>]
    BY <2>1 DEF Cut
  <2>. QED
    BY <1>2, <2>2
<1>. QED
  BY <1>1, <1>2, <1>3, <1>4 DEF text

LEMMA AfterGrows ==
  ASSUME NEW f \in Text, NEW c \in Char, NEW o \in 0 .. Len(f)
  PROVE  After(f, o) \in ReadState /\ After(Append(f, c), o) = Read(After(f, o), c)
<1>1. From(o) \in ReadState
  <2>1. <<>> \in Seq(LineType) /\ <<>> \in Text /\ o \in Nat
    BY DEF Text
  <2>. QED
    BY <2>1 DEF From, ReadState
<1>2. ReadGrows(ReadState, Char, From(o))
  BY <1>1, ReadKeepsState, ReadOneMore
<1>3. Drop(f, o) \in Seq(Char)
  BY DEF Drop, Text
<1>4. Drop(Append(f, c), o) = Append(Drop(f, o), c)
  <2>1. Len(f) \in Nat /\ Append(f, c) \in Seq(Char) /\ Len(Append(f, c)) = Len(f) + 1 /\ o \in Nat
    BY DEF Text
  <2>. DEFINE n == Len(f) - o
              a == Drop(Append(f, c), o)
              b == Append(Drop(f, o), c)
  <2>2. a \in Seq(Char) /\ Len(a) = n + 1 /\ \A i \in 1 .. n + 1 : a[i] = Append(f, c)[o + i]
    BY <2>1 DEF Drop
  <2>3. Len(Drop(f, o)) = n /\ \A i \in 1 .. n : Drop(f, o)[i] = f[o + i]
    BY <2>1 DEF Drop, Text
  <2>4. b \in Seq(Char) /\ Len(b) = n + 1 /\ b[n + 1] = c /\ \A i \in 1 .. n : b[i] = f[o + i]
    BY <1>3, <2>1, <2>3
  <2>5. \A i \in 1 .. n : Append(f, c)[o + i] = f[o + i]
    BY <2>1 DEF Text
  <2>6. Append(f, c)[o + (n + 1)] = c /\ n \in Nat
    BY <2>1 DEF Text
  <2>. HIDE DEF a, b, n
  <2>7. \A i \in 1 .. n + 1 : a[i] = b[i]
    <3>1. \A i \in 1 .. n + 1 : i \in 1 .. n \/ i = n + 1
      BY <2>6
    <3>2. n + 1 \in 1 .. n + 1 /\ \A i \in 1 .. n : i \in 1 .. n + 1
      BY <2>6
    <3>. QED
      BY <2>2, <2>4, <2>5, <2>6, <3>1, <3>2
  <2>. QED
    BY <2>2, <2>4, <2>7, SeqEqual DEF a, b
<1>. QED
  BY <1>2, <1>3, <1>4 DEF ReadGrows, After, Reading

\* Reading from its offset on, the line is the first.
FirstIs(f, line) ==
  /\ line.offset \in 0 .. Len(f)
  /\ After(f, line.offset).lines # <<>>
  /\ After(f, line.offset).lines[1] = line

LEMMA FirstStays ==
  ASSUME NEW f \in Text, NEW c \in Char, NEW line, FirstIs(f, line)
  PROVE  FirstIs(Append(f, c), line)
<1>. DEFINE o == line.offset
            r == After(f, o)
<1>1. o \in 0 .. Len(f) /\ r.lines # <<>> /\ r.lines[1] = line
  BY DEF FirstIs
<1>2. r \in ReadState /\ After(Append(f, c), o) = Read(r, c)
  BY <1>1, AfterGrows
<1>. HIDE DEF r
<1>3. o \in 0 .. Len(Append(f, c))
  BY <1>1 DEF Text
<1>4. r.lines \in Seq(LineType) /\ r.offset \in Nat /\ Append(r.text, c) \in Text
  BY <1>2 DEF ReadState, Text
<1>5. Read(r, c).lines = r.lines \/ \E l \in LineType : Read(r, c).lines = Append(r.lines, l)
  <2>1. [offset |-> r.offset, text |-> Append(r.text, c)] \in LineType
    BY <1>4 DEF LineType
  <2>. QED
    BY <1>2, <2>1, ReadOne
<1>6. Read(r, c).lines # <<>> /\ Read(r, c).lines[1] = line
  <2>1. CASE Read(r, c).lines = r.lines
    BY <1>1, <2>1
  <2>2. ASSUME NEW l \in LineType, Read(r, c).lines = Append(r.lines, l)
        PROVE  Read(r, c).lines # <<>> /\ Read(r, c).lines[1] = line
    <3>1. Len(r.lines) \in Nat /\ Len(r.lines) # 0
      BY <1>1, <1>4
    <3>2. 1 \in 1 .. Len(r.lines)
      BY <3>1
    <3>3. Append(r.lines, l) # <<>> /\ Append(r.lines, l)[1] = r.lines[1]
      BY <1>4, <3>2
    <3>. QED
      BY <1>1, <2>2, <3>3
  <2>. QED
    BY <1>5, <2>1, <2>2
<1>. QED
  BY <1>2, <1>3, <1>6 DEF FirstIs

\* Each line of a file is read so, and so is what is read of the next.
LinesAreFirst(f, s) ==
  /\ \A i \in 1 .. Len(s.lines) : FirstIs(f, s.lines[i])
  /\ s.offset \in 0 .. Len(f)
  /\ After(f, s.offset) = [lines |-> <<>>, offset |-> s.offset, text |-> s.text]

LEMMA LinesFirstStep ==
  ASSUME NEW f \in Text, NEW c \in Char, NEW s \in ReadState, LinesAreFirst(f, s),
         s.offset + Len(s.text) = Len(f)
  PROVE  LinesAreFirst(Append(f, c), Read(s, c))
<1>. DEFINE g    == Append(f, c)
            text == Append(s.text, c)
            line == [offset |-> s.offset, text |-> text]
            r    == After(f, s.offset)
            n    == Len(s.lines)
            cut  == c = LF \/ Len(s.text) + 1 = LineMax
<1>1. /\ s.lines \in Seq(LineType) /\ s.offset \in Nat /\ s.text \in Text /\ n \in Nat
      /\ Len(f) \in Nat /\ Len(s.text) \in Nat /\ text \in Text /\ Len(text) = Len(s.text) + 1
  BY DEF ReadState, Text
<1>2. g \in Text /\ Len(g) = Len(f) + 1
  BY DEF Text
<1>3. line \in LineType
  BY <1>1 DEF LineType
<1>4. \A i \in 1 .. n : FirstIs(g, s.lines[i])
  BY FirstStays DEF LinesAreFirst
<1>5. s.offset \in 0 .. Len(f) /\ r = [lines |-> <<>>, offset |-> s.offset, text |-> s.text]
  BY DEF LinesAreFirst
<1>6. r \in ReadState /\ After(g, s.offset) = Read(r, c)
  BY <1>5, AfterGrows
<1>7. r.lines = <<>> /\ r.offset = s.offset /\ r.text = s.text
  BY <1>5
<1>. HIDE DEF g, r
<1>8. CASE ~cut
  <2>1. Read(s, c) = [lines |-> s.lines, offset |-> s.offset, text |-> text]
    BY <1>8, ReadOne
  <2>2. Read(r, c) = [lines |-> <<>>, offset |-> s.offset, text |-> text]
    BY <1>6, <1>7, <1>8, ReadOne
  <2>3. s.offset \in 0 .. Len(g)
    BY <1>1, <1>2, <1>5
  <2>. HIDE DEF text
  <2>4. LinesAreFirst(g, Read(s, c))
    BY <1>4, <1>6, <2>1, <2>2, <2>3 DEF LinesAreFirst
  <2>. QED
    BY <2>4 DEF g
<1>9. CASE cut
  <2>. DEFINE all == Append(s.lines, line)
  <2>1. Read(s, c) = [lines |-> all, offset |-> s.offset + Len(s.text) + 1, text |-> <<>>]
    BY <1>9, ReadOne
  <2>2. Read(s, c).lines = all /\ Read(s, c).offset = Len(g) /\ Read(s, c).text = <<>>
    BY <1>1, <1>2, <2>1
  <2>3. Read(r, c).lines = Append(<<>>, line)
    <3>1. Read(r, c).lines = Append(r.lines, [offset |-> r.offset, text |-> Append(r.text, c)])
      <4>1. c = LF \/ Len(r.text) + 1 = LineMax
        BY <1>7, <1>9
      <4>. QED
        BY <1>6, <4>1, ReadOne
    <3>. QED
      BY <1>7, <3>1
  <2>4. FirstIs(g, line)
    <3>1. line.offset = s.offset /\ s.offset \in 0 .. Len(g)
      BY <1>1, <1>2, <1>5
    <3>. HIDE DEF line
    <3>2. Append(<<>>, line) # <<>> /\ Append(<<>>, line)[1] = line
      OBVIOUS
    <3>. QED
      BY <1>6, <2>3, <3>1, <3>2 DEF FirstIs
  <2>5. Len(all) = n + 1 /\ all[n + 1] = line /\ \A i \in 1 .. n : all[i] = s.lines[i]
    BY <1>1, <1>3
  <2>. HIDE DEF all, line, n
  <2>6. \A i \in 1 .. Len(all) : FirstIs(g, all[i])
    <3>1. \A i \in 1 .. n + 1 : i \in 1 .. n \/ i = n + 1
      BY <1>1
    <3>. QED
      BY <1>4, <2>4, <2>5, <3>1
  <2>7. After(g, Len(g)) = From(Len(g))
    <3>1. From(Len(g)) \in ReadState
      <4>1. <<>> \in Seq(LineType) /\ <<>> \in Text /\ Len(g) \in Nat
        BY <1>1, <1>2 DEF Text
      <4>. QED
        BY <4>1 DEF From, ReadState
    <3>2. ReadGrows(ReadState, Char, From(Len(g)))
      BY <3>1, ReadKeepsState, ReadOneMore
    <3>3. Drop(g, Len(g)) = <<>>
      BY <1>2 DEF Drop, Text
    <3>. QED
      BY <3>2, <3>3 DEF ReadGrows, After, Reading
  <2>8. Len(g) \in 0 .. Len(g)
    BY <1>1, <1>2
  <2>9. LinesAreFirst(g, Read(s, c))
    BY <2>2, <2>6, <2>7, <2>8 DEF LinesAreFirst, From
  <2>. QED
    BY <2>9 DEF g
<1>. QED
  BY <1>8, <1>9

LEMMA LinesFirst ==
  ASSUME NEW f \in Text
  PROVE  LinesAreFirst(f, Reading(AtStart, f))
<1>. DEFINE T == {v \in Text : LinesAreFirst(v, Reading(AtStart, v))}
<1>1. ReadGrows(MidLine, Char, AtStart)
  BY StartIsMidLine, ReadingGrows
<1>2. <<>> \in T
  <2>1. PICK e : e = <<>>
    OBVIOUS
  <2>2. Reading(AtStart, <<>>) = AtStart
    BY <1>1 DEF ReadGrows, Reading
  <2>3. Drop(<<>>, 0) = <<>> /\ From(0) = AtStart /\ <<>> \in Text
    BY DEF Drop, From, AtStart, Text
  <2>4. After(<<>>, 0) = AtStart
    BY <2>2, <2>3 DEF After
  <2>5. LinesAreFirst(<<>>, AtStart)
    BY <2>4 DEF LinesAreFirst, AtStart
  <2>. QED
    BY <2>2, <2>3, <2>5
<1>3. ASSUME NEW v \in T, NEW c \in Char PROVE Append(v, c) \in T
  <2>. DEFINE s == Reading(AtStart, v)
  <2>1. v \in Text /\ Append(v, c) \in Text /\ LinesAreFirst(v, s)
    BY DEF Text
  <2>2. s \in ReadState
    BY <2>1, ReadingFile DEF MidLine
  <2>3. Reading(AtStart, Append(v, c)) = Read(s, c)
    BY <1>1, <2>1 DEF ReadGrows, Reading, Text
  <2>4. s.offset + Len(s.text) = Len(v)
    BY <2>1, ReadingPlace
  <2>. HIDE DEF s
  <2>5. LinesAreFirst(Append(v, c), Read(s, c))
    BY <2>1, <2>2, <2>4, LinesFirstStep
  <2>. QED
    BY <2>1, <2>3, <2>5
<1>4. f \in T
  <2>1. T \in SUBSET Seq(Char)
    BY DEF Text
  <2>. HIDE DEF T
  <2>2. T = Seq(Char)
    BY <1>2, <1>3, <2>1, AppendInduction
  <2>. QED
    BY <2>2 DEF Text
<1>. QED
  BY <1>4

\* Read again from its offset, a line that is counted is the same line.
LEMMA DataLineAt ==
  ASSUME NEW f \in Text, NEW i \in DOMAIN DataLines(f)
  PROVE  LET line == DataLines(f)[i]
         IN  /\ line \in LineType /\ line.text # <<>>
             /\ LinesFrom(f, line.offset) # <<>>
             /\ LinesFrom(f, line.offset)[1] = line
<1>. DEFINE s     == Reading(AtStart, f)
            lines == LinesOf(s)
            clean == Stripped(lines)
            Again(l) == LinesFrom(f, l.offset) # <<>> /\ LinesFrom(f, l.offset)[1] = l
            C == {l \in LineType : Again(l)}
            L == {l \in C : l.text # <<>>}
<1>1. s \in ReadState /\ s.lines \in Seq(LineType) /\ s.text \in Text /\ s.offset \in Nat
      /\ LinesAreFirst(f, s)
  BY ReadingFile, LinesFirst DEF MidLine
<1>2. ASSUME NEW line \in LineType, line.offset \in 0 .. Len(f),
             LinesOf(After(f, line.offset)) \in Seq(LineType) \ {<<>>},
             LinesOf(After(f, line.offset))[1] = line
      PROVE  Clean(line) \in C
  <2>. DEFINE ls == LinesOf(After(f, line.offset))
  <2>1. fgets_lines(f, line.offset) =
          With(After(f, line.offset), LAMBDA end : IF end.text = <<>> THEN end.lines ELSE Cut(end).lines)
    BY DEF fgets_lines, After, Reading, From, Drop
  <2>2. fgets_lines(f, line.offset) = ls
    BY <2>1 DEF With, LinesOf
  <2>3. LinesFrom(f, line.offset) = Stripped(ls)
    BY <2>2 DEF LinesFrom, With, Stripped
  <2>. HIDE DEF ls
  <2>4. ls \in Seq(LineType) /\ ls # <<>> /\ ls[1] = line
    BY <1>2 DEF ls
  <2>5. Len(ls) \in Nat /\ Len(ls) # 0
    BY <2>4
  <2>6. 1 \in 1 .. Len(ls)
    BY <2>5
  <2>7. Stripped(ls) \in Seq(LineType) /\ Len(Stripped(ls)) = Len(ls) /\ Stripped(ls)[1] = Clean(ls[1])
    BY <2>4, <2>6, StrippedType
  <2>8. Stripped(ls) # <<>>
    BY <2>5, <2>7
  <2>9. Clean(line) \in LineType /\ Clean(line).offset = line.offset
    BY CleanType
  <2>. QED
    BY <2>3, <2>4, <2>7, <2>8, <2>9
<1>3. ASSUME NEW j \in 1 .. Len(s.lines) PROVE Clean(s.lines[j]) \in C
  <2>. DEFINE line == s.lines[j]
              r    == After(f, line.offset)
  <2>1. line \in LineType
    BY <1>1
  <2>2. line.offset \in 0 .. Len(f) /\ r.lines # <<>> /\ r.lines[1] = line
    BY <1>1 DEF LinesAreFirst, FirstIs
  <2>3. r \in ReadState
    <3>1. Char # {}
      BY CsvAssumption DEF Space, Newline
    <3>. QED
      BY <2>2, <3>1, AfterGrows
  <2>. HIDE DEF r, line
  <2>4. r.lines \in Seq(LineType) /\ [offset |-> r.offset, text |-> r.text] \in LineType
    BY <2>3 DEF ReadState, LineType
  <2>5. LinesOf(r) \in Seq(LineType) \ {<<>>} /\ LinesOf(r)[1] = line
    <3>1. CASE r.text = <<>>
      BY <2>2, <2>4, <3>1 DEF LinesOf
    <3>2. CASE r.text # <<>>
      <4>. DEFINE l == [offset |-> r.offset, text |-> r.text]
      <4>1. LinesOf(r) = Append(r.lines, l)
        BY <3>2 DEF LinesOf, Cut
      <4>2. l \in LineType
        BY <2>4
      <4>. HIDE DEF l
      <4>3. Len(r.lines) \in Nat /\ Len(r.lines) # 0
        BY <2>2, <2>4
      <4>4. 1 \in 1 .. Len(r.lines)
        BY <4>3
      <4>5. Append(r.lines, l) \in Seq(LineType) /\ Append(r.lines, l) # <<>> /\ Append(r.lines, l)[1] = r.lines[1]
        BY <2>4, <4>2, <4>4
      <4>. QED
        BY <2>2, <4>1, <4>5
    <3>. QED
      BY <3>1, <3>2
  <2>. HIDE DEF C
  <2>. QED
    BY <1>2, <2>1, <2>2, <2>5 DEF r, line
<1>4. ASSUME s.text # <<>>
      PROVE  Clean([offset |-> s.offset, text |-> s.text]) \in C
  <2>. DEFINE l == [offset |-> s.offset, text |-> s.text]
              r == After(f, s.offset)
  <2>1. l \in LineType /\ l.offset = s.offset
    BY <1>1 DEF LineType
  <2>2. s.offset \in 0 .. Len(f) /\ r = [lines |-> <<>>, offset |-> s.offset, text |-> s.text]
    BY <1>1 DEF LinesAreFirst
  <2>3. r.lines = <<>> /\ r.offset = s.offset /\ r.text = s.text
    BY <2>2
  <2>. HIDE DEF r
  <2>4. LinesOf(r) = Append(r.lines, [offset |-> r.offset, text |-> r.text])
    BY <1>4, <2>3 DEF LinesOf, Cut
  <2>5. LinesOf(r) = Append(<<>>, l)
    BY <2>3, <2>4
  <2>. HIDE DEF l
  <2>6. Append(<<>>, l) \in Seq(LineType) \ {<<>>} /\ Append(<<>>, l)[1] = l
    BY <2>1
  <2>7. LinesOf(r) \in Seq(LineType) \ {<<>>} /\ LinesOf(r)[1] = l
    BY <2>5, <2>6
  <2>. HIDE DEF C
  <2>. QED
    BY <1>2, <2>1, <2>2, <2>7 DEF r, l
<1>5. clean \in Seq(C)
  <2>1. \A j \in 1 .. Len(s.lines) : Stripped(s.lines)[j] \in C
    <3>. HIDE DEF C
    <3>. QED
      BY <1>1, <1>3, StrippedType
  <2>2. Stripped(s.lines) \in Seq(LineType) /\ Len(Stripped(s.lines)) = Len(s.lines)
    BY <1>1, StrippedType
  <2>. HIDE DEF C
  <2>3. Stripped(s.lines) \in Seq(C)
    <3>. DEFINE q == Stripped(s.lines)
    <3>. HIDE DEF q
    <3>1. q \in Seq(LineType) /\ \A j \in 1 .. Len(q) : q[j] \in C
      BY <2>1, <2>2 DEF q
    <3>2. q \in Seq(C)
      <4>1. q = [j \in 1 .. Len(q) |-> q[j]] /\ Len(q) \in Nat
        BY <3>1
      <4>. QED
        BY <3>1, <4>1
    <3>. QED
      BY <3>2 DEF q
  <2>4. CASE s.text = <<>>
    BY <2>3, <2>4 DEF LinesOf
  <2>5. CASE s.text # <<>>
    <3>. DEFINE l == [offset |-> s.offset, text |-> s.text]
    <3>1. lines = Append(s.lines, l)
      BY <2>5 DEF LinesOf, Cut
    <3>2. l \in LineType
      BY <1>1 DEF LineType
    <3>3. Clean(l) \in C
      BY <1>4, <2>5
    <3>. HIDE DEF l, lines
    <3>4. clean = Append(Stripped(s.lines), Clean(l))
      BY <1>1, <3>1, <3>2, StrippedOneMore
    <3>. QED
      BY <2>3, <3>3, <3>4
  <2>. QED
    BY <2>4, <2>5
<1>. HIDE DEF clean
<1>6. SubSeq(clean, 2, Len(clean)) \in Seq(C)
  <2>1. Len(clean) \in Nat
    BY <1>5
  <2>. HIDE DEF C
  <2>. QED
    BY <1>5, <2>1
<1>7. Counted(clean) \in Seq(L)
  <2>1. CountTyped(Seq(L), C)
    BY DEF CountTyped, CountLine
  <2>. HIDE DEF L, C
  <2>2. <<>> \in Seq(L)
    OBVIOUS
  <2>3. CountGrows(Seq(L), C, <<>>)
    BY <2>1, <2>2, CountOneMore
  <2>. QED
    BY <1>6, <2>3 DEF CountGrows, Counted
<1>8. DataLines(f) = Counted(clean)
  BY LinesFromStart DEF clean
<1>9. DataLines(f)[i] \in L
  <2>. HIDE DEF L
  <2>1. i \in 1 .. Len(Counted(clean))
    BY <1>7, <1>8
  <2>. QED
    BY <1>7, <1>8, <2>1
<1>. QED
  BY <1>9

-----------------------------------------------------------------------------
(* The rows that a SELECT shows.                                           *)

Showing(st, schema, base, text) ==
  Through(LAMBDA shown, row : ShowRow(st, schema, shown, row), base, text)

\* The same of the loop of a SELECT.
\* ShowRow leads from S to S; f is what it makes of text, character by character.
ShowTyped(st, schema, S, C) == \A s \in S : \A c \in C : ShowRow(st, schema, s, c) \in S
ShowPass(st, schema, f, base, text) ==
  /\ f[0] = base
  /\ \A n \in 1 .. Len(text) : f[n] = ShowRow(st, schema, f[n - 1], text[n])
  /\ Showing(st, schema, base, text) = f[Len(text)]

LEMMA ShowLoop ==
  ASSUME NEW st, NEW schema, NEW S, NEW C, NEW base \in S, NEW text \in Seq(C), ShowTyped(st, schema, S, C)
  PROVE  \E f \in [0 .. Len(text) -> S] : ShowPass(st, schema, f, base, text)
<1>. DEFINE step == [n \in Nat |-> [s \in S |->
                      IF n \in 1 .. Len(text) THEN ShowRow(st, schema, s, text[n]) ELSE s]]
<1>1. Len(text) \in Nat /\ \A n \in 1 .. Len(text) : text[n] \in C
  OBVIOUS
<1>2. step \in [Nat -> [S -> S]]
  BY <1>1 DEF ShowTyped
<1>3. PICK f \in [0 .. Len(text) -> S] : IsLoop(f, base, step, Len(text))
  <2>. HIDE DEF step
  <2>. QED
    BY <1>1, <1>2, Iteration
<1>4. ASSUME NEW n \in 1 .. Len(text) PROVE f[n] = ShowRow(st, schema, f[n - 1], text[n])
  <2>1. n \in Nat /\ n - 1 \in 0 .. Len(text)
    BY <1>1
  <2>2. f[n] = step[n][f[n - 1]]
    BY <1>3 DEF IsLoop
  <2>3. f[n - 1] \in S
    <3>. HIDE DEF step
    <3>. QED
      BY <1>3, <2>1
  <2>. QED
    BY <2>1, <2>2, <2>3
<1>5. f[0] = base
  BY <1>3 DEF IsLoop
<1>. HIDE DEF step
<1>. DEFINE Runs(g) == g = [i \in 0 .. Len(text) |->
                              IF i = 0 THEN base
                              ELSE With(g[i - 1], LAMBDA s : ShowRow(st, schema, s, text[i]))]
            h == CHOOSE g : Runs(g)
<1>6. Runs(f)
  <2>1. ASSUME NEW n \in 0 .. Len(text), n # 0
        PROVE  f[n] = With(f[n - 1], LAMBDA s : ShowRow(st, schema, s, text[n]))
    <3>1. f[n] = ShowRow(st, schema, f[n - 1], text[n])
      BY <1>1, <1>4, <2>1
    <3>. QED
      BY <3>1 DEF With
  <2>. QED
    BY <1>3, <1>5, <2>1
<1>7. Runs(h)
  <2>. HIDE DEF Runs
  <2>. QED
    BY <1>6
<1>8. Showing(st, schema, base, text) = h[Len(text)]
  BY DEF Showing, Through, With
<1>9. h[0] = base /\ \A n \in 1 .. Len(text) : h[n] = ShowRow(st, schema, h[n - 1], text[n])
  <2>1. ASSUME NEW n \in 1 .. Len(text) PROVE h[n] = ShowRow(st, schema, h[n - 1], text[n])
    <3>1. n \in 0 .. Len(text) /\ n # 0
      BY <1>1
    <3>2. h[n] = With(h[n - 1], LAMBDA s : ShowRow(st, schema, s, text[n]))
      BY <1>7, <3>1
    <3>. HIDE DEF h
    <3>. QED
      BY <3>2 DEF With
  <2>2. 0 \in 0 .. Len(text)
    BY <1>1
  <2>. QED
    BY <1>7, <2>1, <2>2
<1>. HIDE DEF h
<1>10. \A n \in 0 .. Len(text) : h[n] = f[n]
  <2>. DEFINE T == {n \in Nat : n <= Len(text) => h[n] = f[n]}
  <2>1. 0 \in T
    BY <1>5, <1>9
  <2>2. ASSUME NEW n \in T PROVE n + 1 \in T
    BY <1>4, <1>9, <1>1
  <2>3. T = Nat
    <3>1. T \in SUBSET Nat
      OBVIOUS
    <3>. HIDE DEF T
    <3>. QED
      BY <2>1, <2>2, <3>1, SetInduction
  <2>. QED
    BY <2>3, <1>1
<1>. QED
  BY <1>1, <1>3, <1>4, <1>5, <1>8, <1>10 DEF ShowPass
\* A loop that has read t and then c.
ShowGrows(st, schema, S, C, base) ==
  /\ Showing(st, schema, base, <<>>) = base
  /\ \A t \in Seq(C) : Showing(st, schema, base, t) \in S
  /\ \A t \in Seq(C) : \A c \in C :
       Showing(st, schema, base, Append(t, c)) = ShowRow(st, schema, Showing(st, schema, base, t), c)

LEMMA ShowOneMore ==
  ASSUME NEW st, NEW schema, NEW S, NEW C, NEW base \in S, ShowTyped(st, schema, S, C)
  PROVE  ShowGrows(st, schema, S, C, base)
<1>1. Showing(st, schema, base, <<>>) = base
  <2>1. <<>> \in Seq(C) /\ Len(<<>>) = 0
    OBVIOUS
  <2>2. PICK f \in [0 .. Len(<<>>) -> S] : ShowPass(st, schema, f, base, <<>>)
    BY <2>1, ShowLoop
  <2>. QED
    BY <2>1, <2>2 DEF ShowPass
<1>2. ASSUME NEW t \in Seq(C) PROVE Showing(st, schema, base, t) \in S
  <2>1. Len(t) \in 0 .. Len(t)
    OBVIOUS
  <2>2. PICK f \in [0 .. Len(t) -> S] : ShowPass(st, schema, f, base, t)
    BY ShowLoop
  <2>. QED
    BY <2>1, <2>2 DEF ShowPass
<1>3. ASSUME NEW t \in Seq(C), NEW c \in C
      PROVE  Showing(st, schema, base, Append(t, c)) = ShowRow(st, schema, Showing(st, schema, base, t), c)
  <2>. DEFINE u == Append(t, c)
              n == Len(t)
  <2>1. /\ u \in Seq(C) /\ n \in Nat /\ Len(u) = n + 1 /\ u[n + 1] = c
        /\ \A i \in 1 .. n : u[i] = t[i]
    OBVIOUS
  <2>2. PICK f \in [0 .. Len(t) -> S] : ShowPass(st, schema, f, base, t)
    BY ShowLoop
  <2>. HIDE DEF u
  <2>3. PICK g \in [0 .. Len(u) -> S] : ShowPass(st, schema, g, base, u)
    BY <2>1, ShowLoop
  <2>4. f[0] = base /\ \A i \in 1 .. n : f[i] = ShowRow(st, schema, f[i - 1], t[i])
    BY <2>2 DEF ShowPass
  <2>5. g[0] = base /\ \A i \in 1 .. n + 1 : g[i] = ShowRow(st, schema, g[i - 1], u[i])
    BY <2>1, <2>3 DEF ShowPass
  <2>6. Showing(st, schema, base, t) = f[n] /\ Showing(st, schema, base, u) = g[n + 1]
    BY <2>1, <2>2, <2>3 DEF ShowPass
  <2>. HIDE DEF n
  <2>. DEFINE T == {i \in Nat : i <= n => f[i] = g[i]}
  <2>7. 0 \in T
    BY <2>4, <2>5
  <2>8. ASSUME NEW i \in T PROVE i + 1 \in T
    <3>1. CASE i + 1 <= n
      <4>1. i + 1 \in 1 .. n /\ i + 1 \in 1 .. n + 1 /\ (i + 1) - 1 = i /\ i <= n
        BY <2>1, <3>1
      <4>2. f[i + 1] = ShowRow(st, schema, f[i], t[i + 1])
        BY <2>4, <4>1
      <4>3. g[i + 1] = ShowRow(st, schema, g[i], u[i + 1])
        BY <2>5, <4>1
      <4>. QED
        BY <2>1, <4>1, <4>2, <4>3
    <3>2. CASE ~(i + 1 <= n)
      BY <3>2
    <3>. QED
      BY <3>1, <3>2
  <2>9. n \in T
    <3>1. T \in SUBSET Nat
      OBVIOUS
    <3>. HIDE DEF T
    <3>2. T = Nat
      BY <2>7, <2>8, <3>1, SetInduction
    <3>. QED
      BY <2>1, <3>2
  <2>10. f[n] = g[n]
    BY <2>1, <2>9
  <2>11. g[n + 1] = ShowRow(st, schema, g[n], c)
    <3>1. n + 1 \in 1 .. n + 1 /\ (n + 1) - 1 = n
      BY <2>1
    <3>. QED
      BY <2>1, <2>5, <3>1
  <2>. QED
    BY <2>6, <2>10, <2>11 DEF u
<1>. QED
  BY <1>1, <1>2, <1>3 DEF ShowGrows

\* m has the rows that the condition asks for, in their order.
Fits(st, schema, row) == row_matches_where(st, schema, row.read.fields)
Numbered(rows)        == \A i \in 1 .. Len(rows) : rows[i].id = i
IsRow(st, schema, rows, row) ==
  row.id \in 1 .. Len(rows) /\ row = rows[row.id] /\ Fits(st, schema, row)
Selected(st, schema, rows, m) ==
  /\ Len(m) <= Len(rows)
  /\ \A h \in 1 .. Len(m) : IsRow(st, schema, rows, m[h])
  /\ \A i \in 1 .. Len(rows) : Fits(st, schema, rows[i]) => \E h \in 1 .. Len(m) : m[h].id = i
  /\ \A h, k \in 1 .. Len(m) : h < k => m[h].id < m[k].id

LEMMA SelectedStep ==
  ASSUME NEW st, NEW schema, NEW C, NEW rows \in Seq(C), NEW row \in C, NEW m \in Seq(C),
         Numbered(Append(rows, row)), Selected(st, schema, rows, m)
  PROVE  Selected(st, schema, Append(rows, row), ShowRow(st, schema, m, row))
<1>. DEFINE n == Len(rows)
            k == Len(m)
            all == Append(rows, row)
            more == Append(m, row)
<1>1. /\ n \in Nat /\ Len(all) = n + 1 /\ all[n + 1] = row /\ \A i \in 1 .. n : all[i] = rows[i]
      /\ k \in Nat /\ Len(more) = k + 1 /\ more[k + 1] = row /\ \A i \in 1 .. k : more[i] = m[i]
  OBVIOUS
<1>2. row.id = n + 1
  BY <1>1 DEF Numbered
<1>3. /\ k <= n
      /\ \A h \in 1 .. k : m[h].id \in 1 .. n /\ m[h] = rows[m[h].id] /\ Fits(st, schema, m[h])
      /\ \A i \in 1 .. n : Fits(st, schema, rows[i]) => \E h \in 1 .. k : m[h].id = i
      /\ \A g, h \in 1 .. k : g < h => m[g].id < m[h].id
  BY DEF Selected, IsRow
<1>. HIDE DEF all, more, n, k
<1>4. /\ \A i \in 1 .. n + 1 : i \in 1 .. n \/ i = n + 1
      /\ \A h \in 1 .. k + 1 : h \in 1 .. k \/ h = k + 1
      /\ \A i \in 1 .. n : i \in 1 .. n + 1
      /\ \A h \in 1 .. k : h \in 1 .. k + 1
      /\ n + 1 \in 1 .. n + 1 /\ k + 1 \in 1 .. k + 1
  BY <1>1
<1>5. \A h \in 1 .. k : m[h].id \in 1 .. n + 1 /\ m[h] = all[m[h].id] /\ Fits(st, schema, m[h])
  BY <1>1, <1>3, <1>4
<1>6. CASE ~Fits(st, schema, row)
  <2>1. ShowRow(st, schema, m, row) = m
    BY <1>6 DEF ShowRow, Fits
  <2>2. k <= n + 1
    BY <1>1, <1>3
  <2>3. \A i \in 1 .. n + 1 : Fits(st, schema, all[i]) => \E h \in 1 .. k : m[h].id = i
    BY <1>1, <1>3, <1>4, <1>6
  <2>4. Selected(st, schema, all, m)
    <3>1. Len(m) = k
      BY DEF k
    <3>. QED
      BY <1>1, <1>3, <1>5, <2>2, <2>3, <3>1 DEF Selected, IsRow
  <2>. QED
    BY <2>1, <2>4 DEF all
<1>7. CASE Fits(st, schema, row)
  <2>1. ShowRow(st, schema, m, row) = more
    BY <1>7 DEF ShowRow, Fits, more
  <2>2. k + 1 <= n + 1
    BY <1>1, <1>3
  <2>3. ASSUME NEW h \in 1 .. k + 1 PROVE IsRow(st, schema, all, more[h])
    <3>1. CASE h \in 1 .. k
      BY <1>1, <1>5, <3>1 DEF IsRow
    <3>2. CASE h = k + 1
      BY <1>1, <1>2, <1>4, <1>7, <3>2 DEF IsRow
    <3>. QED
      BY <1>4, <3>1, <3>2
  <2>4. ASSUME NEW i \in 1 .. n + 1, Fits(st, schema, all[i])
        PROVE  \E h \in 1 .. k + 1 : more[h].id = i
    <3>1. CASE i \in 1 .. n
      <4>1. PICK h \in 1 .. k : m[h].id = i
        BY <1>1, <1>3, <2>4, <3>1
      <4>. QED
        BY <1>1, <1>4, <4>1
    <3>2. CASE i = n + 1
      BY <1>1, <1>2, <1>4, <3>2
    <3>. QED
      BY <1>4, <3>1, <3>2
  <2>5. ASSUME NEW g \in 1 .. k + 1, NEW h \in 1 .. k + 1, g < h PROVE more[g].id < more[h].id
    <3>1. g \in 1 .. k /\ more[g] = m[g]
      BY <1>1, <2>5
    <3>2. CASE h \in 1 .. k
      BY <1>1, <1>3, <2>5, <3>1, <3>2
    <3>3. CASE h = k + 1
      <4>1. m[g].id \in 1 .. n /\ more[h].id = n + 1
        BY <1>1, <1>2, <1>3, <3>1, <3>3
      <4>. QED
        BY <1>1, <3>1, <4>1
    <3>. QED
      BY <1>4, <3>2, <3>3
  <2>6. Selected(st, schema, all, more)
    BY <1>1, <2>2, <2>3, <2>4, <2>5 DEF Selected
  <2>. QED
    BY <2>1, <2>6 DEF all
<1>. QED
  BY <1>6, <1>7

LEMMA MatchingRows ==
  ASSUME NEW st, NEW schema, NEW C, NEW rows \in Seq(C), Numbered(rows)
  PROVE  /\ Matching(st, schema, rows) \in Seq(C)
         /\ Selected(st, schema, rows, Matching(st, schema, rows))
<1>. DEFINE Made(r) == Showing(st, schema, <<>>, r)
            T == {r \in Seq(C) : Numbered(r) => Selected(st, schema, r, Made(r))}
<1>1. ShowGrows(st, schema, Seq(C), C, <<>>)
  <2>1. ShowTyped(st, schema, Seq(C), C)
    BY DEF ShowTyped, ShowRow
  <2>2. <<>> \in Seq(C)
    OBVIOUS
  <2>. QED
    BY <2>1, <2>2, ShowOneMore
<1>2. /\ Made(<<>>) = <<>>
      /\ \A r \in Seq(C) : Made(r) \in Seq(C)
      /\ \A r \in Seq(C) : \A c \in C : Made(Append(r, c)) = ShowRow(st, schema, Made(r), c)
  BY <1>1 DEF ShowGrows
<1>. HIDE DEF Made
<1>3. <<>> \in T
  <2>1. Selected(st, schema, <<>>, <<>>)
    BY DEF Selected
  <2>. QED
    BY <1>2, <2>1
<1>4. ASSUME NEW r \in T, NEW c \in C PROVE Append(r, c) \in T
  <2>1. r \in Seq(C) /\ Append(r, c) \in Seq(C) /\ (Numbered(r) => Selected(st, schema, r, Made(r)))
    OBVIOUS
  <2>2. ASSUME Numbered(Append(r, c)) PROVE Selected(st, schema, Append(r, c), Made(Append(r, c)))
    <3>1. Numbered(r)
      <4>1. Len(r) \in Nat /\ Len(Append(r, c)) = Len(r) + 1 /\ \A i \in 1 .. Len(r) : Append(r, c)[i] = r[i]
        BY <2>1
      <4>2. \A i \in 1 .. Len(r) : i \in 1 .. Len(r) + 1
        BY <4>1
      <4>. QED
        BY <2>2, <4>1, <4>2 DEF Numbered
    <3>2. Selected(st, schema, r, Made(r)) /\ Made(r) \in Seq(C)
      BY <1>2, <2>1, <3>1
    <3>3. Made(Append(r, c)) = ShowRow(st, schema, Made(r), c)
      BY <1>2, <2>1
    <3>. QED
      BY <2>1, <2>2, <3>2, <3>3, SelectedStep
  <2>. QED
    BY <2>1, <2>2
<1>5. rows \in T
  <2>1. T \in SUBSET Seq(C)
    OBVIOUS
  <2>. HIDE DEF T
  <2>2. T = Seq(C)
    BY <1>3, <1>4, <2>1, AppendInduction
  <2>. QED
    BY <2>2
<1>6. Matching(st, schema, rows) = Made(rows)
  BY DEF Matching, Made, Showing
<1>. QED
  BY <1>2, <1>5, <1>6

-----------------------------------------------------------------------------
(* The tables as their clients see them.                                   *)

\* The table of a name, and its columns.
LEMMA TableColumns ==
  ASSUME NEW a \in Names, Declared(a).ok
  PROVE  /\ a \in DOMAIN TableOf /\ TableOf[a] = Declared(a).storage_name
         /\ TableOf[a] \in Range(TableOf)
         /\ Columns[TableOf[a]] = Declared(a).columns
<1>. DEFINE t == TableOf[a]
            b == CHOOSE n \in DOMAIN TableOf : TableOf[n] = t
<1>1. DOMAIN TableOf = {m \in Names : Declared(m).ok}
      /\ \A n \in DOMAIN TableOf : TableOf[n] = Declared(n).storage_name
  BY DEF TableOf
<1>2. a \in DOMAIN TableOf /\ t = Declared(a).storage_name /\ t \in Range(TableOf)
  BY <1>1 DEF Range
<1>3. b \in DOMAIN TableOf /\ TableOf[b] = t
  BY <1>2
<1>4. Columns[t] = Declared(b).columns
  BY <1>2 DEF Columns
<1>. HIDE DEF b
<1>5. Declared(b) = Declared(a)
  BY <1>1, <1>2, <1>3, OneTable
<1>. QED
  BY <1>2, <1>4, <1>5

\* Where a column is, when no other has its name.
LEMMA ColumnPlace ==
  ASSUME NEW schema, schema.columns \in Seq(Text), IsInjective(schema.columns),
         NEW i \in DOMAIN schema.columns
  PROVE  LET cs == schema.columns
         IN  ColumnIndex(schema, cs[i]) = i /\ (CHOOSE j \in DOMAIN cs : cs[j] = cs[i]) = i
<1>. DEFINE cs == schema.columns
<1>1. DOMAIN cs = 1 .. Len(cs) /\ i \in Nat
  OBVIOUS
<1>2. \A j \in DOMAIN cs : cs[j] = cs[i] => j = i
  BY DEF IsInjective
<1>3. {j \in DOMAIN cs : cs[j] = cs[i]} = {i}
  BY <1>2
<1>4. Min({i}) = i
  <2>1. \A x \in {i} : x = i
    OBVIOUS
  <2>2. \A y \in {i} : i <= y
    BY <1>1
  <2>. QED
    BY <2>1, <2>2 DEF Min
<1>5. ColumnIndex(schema, cs[i]) = i
  BY <1>3, <1>4 DEF ColumnIndex
<1>6. (CHOOSE j \in DOMAIN cs : cs[j] = cs[i]) = i
  BY <1>2
<1>. QED
  BY <1>5, <1>6

\* A line that gives a row, and one that gives none.
LEMMA StoredRowIs ==
  ASSUME NEW line \in LineType, NEW cs \in Seq(Text) \ {<<>>}, IsInjective(cs)
  PROVE  LET read == FieldsOf(line, Len(cs))
             row  == StoredRow(line, cs)
         IN  /\ ~read.ok => row = <<>>
             /\ read.ok => /\ row # <<>> /\ DOMAIN row = Range(cs)
                           /\ \A i \in DOMAIN cs : row[cs[i]] = read.fields[i]
<1>. DEFINE read == FieldsOf(line, Len(cs))
            row  == StoredRow(line, cs)
            Built == [c \in Range(cs) |-> read.fields[CHOOSE i \in DOMAIN cs : cs[i] = c]]
<1>1. row = IF ~read.ok THEN <<>> ELSE Built
  <2>1. row = With(read, LAMBDA parsed :
                IF ~parsed.ok THEN <<>>
                ELSE [c \in Range(cs) |-> parsed.fields[CHOOSE i \in DOMAIN cs : cs[i] = c]])
    BY DEF StoredRow
  <2>. HIDE DEF read
  <2>. QED
    BY <2>1 DEF With
<1>2. ASSUME NEW i \in DOMAIN cs PROVE Built[cs[i]] = read.fields[i]
  <2>1. cs[i] \in Range(cs)
    BY DEF Range
  <2>2. \A j \in DOMAIN cs : cs[j] = cs[i] => j = i
    BY DEF IsInjective
  <2>3. (CHOOSE j \in DOMAIN cs : cs[j] = cs[i]) = i
    BY <2>2
  <2>. HIDE DEF read
  <2>. QED
    BY <2>1, <2>3
<1>3. Built # <<>>
  <2>1. Len(cs) \in Nat /\ Len(cs) # 0
    OBVIOUS
  <2>2. 1 \in DOMAIN cs
    BY <2>1
  <2>3. cs[1] \in Range(cs)
    BY <2>2 DEF Range
  <2>4. DOMAIN Built = Range(cs) /\ DOMAIN <<>> = {}
    OBVIOUS
  <2>. QED
    BY <2>3, <2>4
<1>4. DOMAIN Built = Range(cs)
  OBVIOUS
<1>. HIDE DEF read, row, Built
<1>. QED
  BY <1>1, <1>2, <1>3, <1>4 DEF read, row

\* The columns that a SELECT shows of a row.
ShowsOf(st, cs)        == IF st.columns = <<>> THEN cs ELSE st.columns
RowShown(st, cs, id, row) ==
  [j \in DOMAIN ShowsOf(st, cs) |->
     IF ShowsOf(st, cs)[j] = IdColumn THEN Numeral(id) ELSE row[ShowsOf(st, cs)[j]]]

ReadsAs(row, cs, fields) == \A i \in DOMAIN cs : row[cs[i]] = fields[i]

LEMMA ShownIs ==
  ASSUME NEW st, NEW schema, CanSelect(st, schema), st.columns \in Seq(Text),
         schema.columns \in Seq(Text), IdColumn \notin Range(schema.columns),
         IsInjective(schema.columns),
         NEW row, NEW fields, ReadsAs(row, schema.columns, fields),
         NEW id
  PROVE  Shown(st, schema, id, fields) = RowShown(st, schema.columns, id, row)
<1>. DEFINE cs      == schema.columns
            indexes == build_select_indexes(st, schema)
<1>1. \A i \in DOMAIN cs : cs[i] # IdColumn /\ i # 0 /\ row[cs[i]] = fields[i]
  BY DEF Range, ReadsAs
<1>2. Shown(st, schema, id, fields)
        = [i \in DOMAIN indexes |-> IF indexes[i] = 0 THEN Numeral(id) ELSE fields[indexes[i]]]
  BY DEF Shown
<1>3. CASE st.columns = <<>>
  <2>1. indexes = [i \in DOMAIN cs |-> i] /\ ShowsOf(st, cs) = cs
    BY <1>3 DEF build_select_indexes, ShowsOf
  <2>. HIDE DEF indexes
  <2>2. Shown(st, schema, id, fields) = [i \in DOMAIN cs |-> fields[i]]
    BY <1>1, <1>2, <2>1
  <2>3. RowShown(st, cs, id, row) = [i \in DOMAIN cs |-> fields[i]]
    BY <1>1, <2>1 DEF RowShown
  <2>. QED
    BY <2>2, <2>3
<1>4. CASE st.columns # <<>>
  <2>. DEFINE list == st.columns
  <2>1. indexes = [i \in DOMAIN list |-> IF list[i] = IdColumn THEN 0 ELSE ColumnIndex(schema, list[i])]
        /\ ShowsOf(st, cs) = list
    BY <1>4 DEF build_select_indexes, ShowsOf
  <2>2. ASSUME NEW i \in DOMAIN list
        PROVE  (IF indexes[i] = 0 THEN Numeral(id) ELSE fields[indexes[i]])
                 = IF list[i] = IdColumn THEN Numeral(id) ELSE row[list[i]]
    <3>1. CASE list[i] = IdColumn
      BY <2>1, <3>1
    <3>2. CASE list[i] # IdColumn
      <4>1. list[i] \in Range(cs)
        BY <3>2 DEF CanSelect, Range
      <4>2. PICK k \in DOMAIN cs : cs[k] = list[i]
        BY <4>1 DEF Range
      <4>3. ColumnIndex(schema, cs[k]) = k
        BY ColumnPlace
      <4>4. indexes[i] = k /\ k # 0
        BY <1>1, <2>1, <3>2, <4>2, <4>3
      <4>. HIDE DEF indexes
      <4>. QED
        BY <1>1, <3>2, <4>2, <4>4
    <3>. QED
      BY <3>1, <3>2
  <2>3. DOMAIN indexes = DOMAIN list
    BY <2>1
  <2>. HIDE DEF indexes, list
  <2>4. Shown(st, schema, id, fields)
          = [i \in DOMAIN list |-> IF indexes[i] = 0 THEN Numeral(id) ELSE fields[indexes[i]]]
    BY <1>2, <2>3
  <2>5. RowShown(st, cs, id, row)
          = [i \in DOMAIN list |-> IF list[i] = IdColumn THEN Numeral(id) ELSE row[list[i]]]
    BY <2>1 DEF RowShown
  <2>. QED
    BY <2>2, <2>4, <2>5
<1>. QED
  BY <1>3, <1>4

-----------------------------------------------------------------------------
(* Every step of the program is one of the tables, or none of them.        *)

ListIn(f, cs) == [i \in DOMAIN DataLines(f) |-> StoredRow(DataLines(f)[i], cs)]
RowsIn(fs)    == [t \in Range(TableOf) |->
                    IF t \notin DOMAIN fs THEN <<>> ELSE ListIn(fs[t], Columns[t])]

LEMMA StoredRowsNow == StoredRows = RowsIn(files)
<1>1. ASSUME NEW f, NEW cs
      PROVE  With(DataLines(f), LAMBDA lines : [i \in DOMAIN lines |-> StoredRow(lines[i], cs)])
               = ListIn(f, cs)
  BY DEF With, ListIn
<1>. QED
  BY <1>1 DEF StoredRows, RowsIn

LEMMA StoredRowsAre == StoredRows = RowsIn(files) /\ StoredRows' = RowsIn(files')
<1>1. (StoredRows = RowsIn(files))'
  BY StoredRowsNow, PTL
<1>. QED
  BY <1>1, StoredRowsNow

\* The library's operators, which the instance has under names of its own.
LEMMA SameOperators ==
  ASSUME NEW f PROVE Table!Range(f) = Range(f) /\ (Table!IsInjective(f) <=> IsInjective(f))
BY DEF Table!Range, Range, Table!IsInjective, IsInjective

LEMMA SameRows ==
  ASSUME DOMAIN files' = DOMAIN files,
         \A x \in DOMAIN files : DataLines(files'[x]) = DataLines(files[x])
  PROVE  StoredRows' = StoredRows
<1>1. \A x \in DOMAIN files : \A cs : ListIn(files'[x], cs) = ListIn(files[x], cs)
  BY DEF ListIn
<1>. HIDE DEF ListIn
<1>2. RowsIn(files') = RowsIn(files)
  BY <1>1 DEF RowsIn
<1>. QED
  BY <1>2, StoredRowsAre

\* The line of the new row gives the row that the INSERT stands for.
LEMMA NewRowIs ==
  ASSUME DistinctColumns, NEW s, NEW st \in Inserts, Opened(s, st), GoodRow(s.row),
         NEW line \in LineType, line.text = RowText(s.row)
  PROVE  /\ Table!Acceptable(st)
         /\ TableOf[st.table] = s.storage_name /\ s.storage_name \in Range(TableOf)
         /\ StoredRow(line, Columns[s.storage_name]) = Table!NewRow(st)
<1>. DEFINE schema == Declared(st.table)
            cs     == schema.columns
            t      == s.storage_name
            row    == build_insert_row(st, schema)
<1>1. /\ schema.ok /\ validate_insert_columns(st, schema) /\ IsInjective(st.columns)
      /\ s.storage_name = schema.storage_name /\ s.row = row
  <2>. DEFINE name == schema.storage_name
  <2>1. /\ schema.ok /\ validate_insert_columns(st, schema) /\ IsInjective(st.columns)
        /\ s = [table |-> st.table, storage_name |-> name, row |-> row, id |-> s.id, offset |-> s.offset]
    BY DEF Opened
  <2>. HIDE DEF name, row
  <2>2. s.storage_name = name /\ s.row = row
    BY <2>1
  <2>. QED
    BY <2>1, <2>2 DEF name
<1>2. st.table \in Names
  BY DEF Names
<1>3. /\ st.table \in DOMAIN TableOf /\ TableOf[st.table] = t /\ t \in Range(TableOf)
      /\ Columns[t] = cs
  BY <1>1, <1>2, TableColumns
<1>4. cs \in Seq(Text) \ {<<>>} /\ IsInjective(cs)
  BY <1>1, <1>2, DeclaredType DEF DistinctColumns
<1>. HIDE DEF schema, row, t
<1>5. Len(st.columns) = Len(st.values) /\ Range(st.columns) \subseteq Range(cs)
  BY <1>1 DEF validate_insert_columns, Range
<1>6. Table!Acceptable(st)
  BY <1>1, <1>3, <1>5, SameOperators DEF Table!Acceptable
<1>7. csv_parse_line(line.text) = [ok |-> TRUE, fields |-> KeptRow(row)]
  BY <1>1, RowRoundTrip DEF GoodRow
<1>8. DOMAIN row = DOMAIN cs /\ row \in Seq(Text)
  BY <1>1 DEF build_insert_row, row, GoodRow
<1>9. KeptRow(row) \in Seq(Text) /\ Len(KeptRow(row)) = Len(cs)
  <2>1. DOMAIN KeptRow(row) = DOMAIN cs
    BY <1>8 DEF KeptRow
  <2>2. KeptRow(row) \in Seq(Text)
    <3>1. <<>> \in Text
      BY DEF Text
    <3>. QED
      BY <1>8, <3>1, KeptOneMore
  <2>. QED
    BY <1>4, <2>1, <2>2
<1>10. FieldsOf(line, Len(cs)) = [ok |-> TRUE, fields |-> KeptRow(row)]
  <2>. DEFINE read == csv_parse_line(line.text)
  <2>1. FieldsOf(line, Len(cs)) = With(read, LAMBDA parsed :
          IF parsed.ok /\ Len(parsed.fields) = Len(cs) THEN parsed ELSE Bad)
    BY DEF FieldsOf
  <2>2. read.ok /\ read.fields = KeptRow(row)
    BY <1>7
  <2>. HIDE DEF read
  <2>3. FieldsOf(line, Len(cs)) = IF read.ok /\ Len(read.fields) = Len(cs) THEN read ELSE Bad
    BY <2>1 DEF With
  <2>. QED
    BY <1>7, <1>9, <2>2, <2>3 DEF read
<1>11. DOMAIN StoredRow(line, cs) = Range(cs)
       /\ \A i \in DOMAIN cs : StoredRow(line, cs)[cs[i]] = KeptRow(row)[i]
  BY <1>4, <1>10, StoredRowIs
<1>12. ASSUME NEW c \in Range(cs)
       PROVE  StoredRow(line, cs)[c] =
                IF c \in Range(st.columns)
                THEN Kept(st.values[CHOOSE i \in DOMAIN st.columns : st.columns[i] = c])
                ELSE <<>>
  <2>1. PICK i \in DOMAIN cs : cs[i] = c
    BY DEF Range
  <2>2. StoredRow(line, cs)[c] = Kept(row[i])
    BY <1>8, <1>11, <2>1 DEF KeptRow
  <2>3. ColumnIndex(schema, cs[i]) = i
    BY <1>4, ColumnPlace
  <2>4. CASE c \in Range(st.columns)
    <3>1. row[i] = st.values[CHOOSE j \in DOMAIN st.columns : st.columns[j] = c]
      BY <2>1, <2>3, <2>4 DEF build_insert_row, row
    <3>. QED
      BY <2>2, <2>4, <3>1
  <2>5. CASE c \notin Range(st.columns)
    <3>1. row[i] = <<>>
      BY <2>1, <2>5 DEF build_insert_row, row
    <3>2. Kept(<<>>) = <<>>
      BY DEF Kept, NeedsQuotes
    <3>. QED
      BY <2>2, <2>5, <3>1, <3>2
  <2>. QED
    BY <2>4, <2>5
<1>13. StoredRow(line, cs) = [c \in Range(cs) |-> StoredRow(line, cs)[c]]
  <2>. DEFINE read  == FieldsOf(line, Len(cs))
              Built == [c \in Range(cs) |-> read.fields[CHOOSE i \in DOMAIN cs : cs[i] = c]]
  <2>1. StoredRow(line, cs) = With(read, LAMBDA parsed :
                IF ~parsed.ok THEN <<>>
                ELSE [c \in Range(cs) |-> parsed.fields[CHOOSE i \in DOMAIN cs : cs[i] = c]])
    BY DEF StoredRow
  <2>2. read.ok
    BY <1>10
  <2>. HIDE DEF read
  <2>3. StoredRow(line, cs) = IF ~read.ok THEN <<>> ELSE Built
    BY <2>1 DEF With
  <2>4. Built = [c \in Range(cs) |-> Built[c]]
    OBVIOUS
  <2>. HIDE DEF Built
  <2>. QED
    BY <2>2, <2>3, <2>4
<1>14. StoredRow(line, cs) = Table!NewRow(st)
  <2>1. Table!NewRow(st) = [c \in Range(cs) |->
          IF c \in Range(st.columns)
          THEN Kept(st.values[CHOOSE i \in DOMAIN st.columns : st.columns[i] = c])
          ELSE <<>>]
    BY <1>3, SameOperators DEF Table!NewRow
  <2>. QED
    BY <1>12, <1>13, <2>1
<1>. QED
  BY <1>3, <1>6, <1>14 DEF t

LEMMA AppendStores ==
  ASSUME DistinctColumns, Inv, AppendRow
  PROVE  \E st \in Inserts : Table!Store(st)
<1>. DEFINE t     == stmt.storage_name
            start == files[t] \o Separator(files[t])
            text  == RowText(stmt.row)
            line  == [offset |-> Len(start), text |-> text]
            old   == DataLines(files[t])
            cs    == Columns[t]
<1>1. pc = "append" /\ answer' = Table!Stored /\ files' = [files EXCEPT ![t] = start \o text]
  BY DEF AppendRow
<1>2. OpenInsert /\ GoodRow(stmt.row) /\ t \in DOMAIN files /\ files[t] \in Text \ {<<>>}
  BY <1>1, OpenFacts
<1>3. AtLine(start) /\ DataLines(start) = old
  BY <1>2, SeparatorAddsNothing
<1>4. old \in Seq(LineType) /\ line \in LineType /\ DataLines(start \o text) = Append(old, line)
  BY <1>2, <1>3, RowLine
<1>5. PICK st \in Inserts : Opened(stmt, st)
  BY <1>2 DEF OpenInsert
<1>6. line.text = RowText(stmt.row)
  OBVIOUS
<1>7. files \in [DOMAIN files -> Text]
  BY DEF Inv, FilesInv
<1>. HIDE DEF start, text, line, old
<1>8. /\ Table!Acceptable(st) /\ TableOf[st.table] = t /\ t \in Range(TableOf)
      /\ StoredRow(line, cs) = Table!NewRow(st)
  BY <1>2, <1>4, <1>5, <1>6, NewRowIs
<1>9. ListIn(start \o text, cs) = Append(ListIn(files[t], cs), StoredRow(line, cs))
  <2>. DEFINE new == DataLines(start \o text)
              n   == Len(old)
              R(l) == StoredRow(l, cs)
              V   == {R(l) : l \in LineType}
              a   == ListIn(start \o text, cs)
              b   == ListIn(files[t], cs)
              r   == R(line)
  <2>1. n \in Nat /\ Len(new) = n + 1 /\ new[n + 1] = line /\ \A i \in 1 .. n : new[i] = old[i]
    BY <1>4
  <2>2. new \in Seq(LineType)
    BY <1>4
  <2>. HIDE DEF new, R
  <2>3. DOMAIN old = 1 .. n /\ DOMAIN new = 1 .. n + 1
    BY <1>4, <2>1, <2>2
  <2>4. a = [i \in 1 .. n + 1 |-> R(new[i])]
    BY <2>3 DEF ListIn, new, R
  <2>5. b = [i \in 1 .. n |-> R(old[i])]
    BY <2>3 DEF ListIn, old, R
  <2>6. r \in V /\ (\A i \in 1 .. n : R(old[i]) \in V) /\ \A i \in 1 .. n + 1 : R(new[i]) \in V
    BY <1>4, <2>1, <2>2
  <2>. HIDE DEF a, b, r, V, n
  <2>7. a \in Seq(V) /\ Len(a) = n + 1 /\ \A i \in 1 .. n + 1 : a[i] = R(new[i])
    BY <2>1, <2>4, <2>6
  <2>8. b \in Seq(V) /\ Len(b) = n /\ \A i \in 1 .. n : b[i] = R(old[i])
    BY <2>1, <2>5, <2>6
  <2>9. Append(b, r) \in Seq(V) /\ Len(Append(b, r)) = n + 1 /\ Append(b, r)[n + 1] = r
        /\ \A i \in 1 .. n : Append(b, r)[i] = b[i]
    BY <2>1, <2>6, <2>8
  <2>10. ASSUME NEW i \in 1 .. n + 1 PROVE a[i] = Append(b, r)[i]
    <3>1. CASE i \in 1 .. n
      BY <2>1, <2>7, <2>8, <2>9, <3>1
    <3>2. CASE i = n + 1
      BY <2>1, <2>7, <2>9, <3>2 DEF r
    <3>3. i \in 1 .. n \/ i = n + 1
      BY <2>1
    <3>. QED
      BY <3>1, <3>2, <3>3
  <2>11. a = Append(b, r)
    BY <2>7, <2>9, <2>10, SeqEqual
  <2>. QED
    BY <2>11 DEF a, b, r, R
<1>10. RowsIn(files') = [RowsIn(files) EXCEPT ![t] = Append(@, Table!NewRow(st))]
  <2>1. DOMAIN files' = DOMAIN files /\ files'[t] = start \o text
        /\ \A x \in DOMAIN files : x # t => files'[x] = files[x]
    BY <1>1, <1>2, <1>7
  <2>2. RowsIn(files)[t] = ListIn(files[t], cs) /\ RowsIn(files')[t] = ListIn(start \o text, cs)
    BY <1>2, <1>8, <2>1 DEF RowsIn
  <2>3. \A x \in Range(TableOf) : x # t => RowsIn(files')[x] = RowsIn(files)[x]
    BY <2>1 DEF RowsIn
  <2>4. /\ RowsIn(files) = [x \in Range(TableOf) |-> RowsIn(files)[x]]
        /\ RowsIn(files') = [x \in Range(TableOf) |-> RowsIn(files')[x]]
    BY DEF RowsIn
  <2>5. RowsIn(files')[t] = Append(RowsIn(files)[t], Table!NewRow(st))
    BY <1>8, <1>9, <2>2
  <2>. QED
    BY <1>8, <2>3, <2>4, <2>5
<1>11. Table!Store(st)
  <2>1. StoredRows' = [StoredRows EXCEPT ![TableOf[st.table]] = Append(@, Table!NewRow(st))]
    BY <1>8, <1>10, StoredRowsAre
  <2>. QED
    BY <1>1, <1>8, <2>1 DEF Table!Store, Table!Stored
<1>. QED
  BY <1>11

\* The table that a SELECT is about.
LEMMA AskedTable ==
  ASSUME DistinctColumns, Inv, NEW st \in Selects, NEW schema \in load_schema(st.table, files)
  PROVE  LET t  == schema.storage_name
             cs == schema.columns
         IN  /\ st.table \in DOMAIN TableOf /\ TableOf[st.table] = t /\ Columns[t] = cs
             /\ cs \in Seq(Text) \ {<<>>} /\ IsInjective(cs) /\ IdColumn \notin Range(cs)
             /\ t \in DOMAIN files /\ files[t] \in Text
             /\ DataLines(files[t]) \in Seq(LineType)
             /\ StoredRows[t] = ListIn(files[t], cs)
             /\ st.columns \in Seq(Text)
<1>. DEFINE t  == schema.storage_name
            cs == schema.columns
<1>1. schema = Declared(st.table) /\ schema.ok /\ t \in DOMAIN files /\ files[t] \in Text
  BY LoadedSchema DEF Inv, FilesInv
<1>2. st.table \in Names
  BY DEF Names
<1>3. /\ st.table \in DOMAIN TableOf /\ TableOf[st.table] = t /\ t \in Range(TableOf)
      /\ Columns[t] = cs
  BY <1>1, <1>2, TableColumns
<1>4. cs \in Seq(Text) \ {<<>>} /\ IsInjective(cs) /\ IdColumn \notin Range(cs)
  BY <1>1, <1>2, DeclaredType DEF DistinctColumns
<1>5. DataLines(files[t]) \in Seq(LineType)
  BY <1>1, DataLinesType
<1>6. StoredRows[t] = ListIn(files[t], cs)
  BY <1>1, <1>3, StoredRowsAre DEF RowsIn
<1>7. st.columns \in Seq(Text)
  BY TableStoreAssumption
<1>. QED
  BY <1>1, <1>3, <1>4, <1>5, <1>6, <1>7

\* The columns of a SELECT are there.
LEMMA Asked ==
  ASSUME DistinctColumns, Inv, NEW st \in Selects, NEW schema \in load_schema(st.table, files),
         CanSelect(st, schema), ById(st) => parse_int_strict(st.where[2]).ok
  PROVE  Table!Answerable(st) /\ Table!ListOf(st) = ShowsOf(st, schema.columns)
<1>. DEFINE t  == schema.storage_name
            cs == schema.columns
<1>1. st.table \in DOMAIN TableOf /\ TableOf[st.table] = t /\ Columns[t] = cs
  BY AskedTable
<1>2. Table!ListOf(st) = ShowsOf(st, cs)
  BY <1>1 DEF Table!ListOf, ShowsOf
<1>3. Range(ShowsOf(st, cs)) \subseteq Range(cs) \cup {IdColumn}
  BY DEF ShowsOf, CanSelect
<1>4. st.where # <<>> => st.where[1] \in Range(cs) \cup {IdColumn}
  BY DEF CanSelect
<1>5. st.where # <<>> /\ st.where[1] = IdColumn => parse_int_strict(st.where[2]).ok
  BY DEF ById
<1>. QED
  BY <1>1, <1>2, <1>3, <1>4, <1>5, SameOperators DEF Table!Answerable

\* found shows the rows that st asks for, ids being their ids and all of them
\* readable.
Answers(st, schema, m, ids, found) ==
  LET f     == files[schema.storage_name]
      lines == DataLines(f)
      hits  == Table!Hits(ListIn(f, schema.columns), st)
  IN  /\ m \in 0 .. Len(lines) /\ ids \in [1 .. m -> hits]
      /\ Table!InOrder(ids, hits)
      /\ \A i \in hits : FieldsOf(lines[i], Len(schema.columns)).ok
      /\ found = [h \in 1 .. m |->
           Shown(st, schema, ids[h], FieldsOf(lines[ids[h]], Len(schema.columns)).fields)]

\* Such an answer is a true one.
LEMMA Answered ==
  ASSUME DistinctColumns, Inv, NEW st \in Selects, NEW schema \in load_schema(st.table, files),
         CanSelect(st, schema), ById(st) => parse_int_strict(st.where[2]).ok,
         NEW m, NEW ids, NEW found, Answers(st, schema, m, ids, found),
         answer' = Table!Found(st, found), UNCHANGED files
  PROVE  Table!Query(st)
<1>. DEFINE t     == schema.storage_name
            cs    == schema.columns
            f     == files[t]
            lines == DataLines(f)
            s     == ListIn(f, cs)
            hits  == Table!Hits(s, st)
            Fields(i) == FieldsOf(lines[i], Len(cs))
<1>0. /\ m \in 0 .. Len(lines) /\ ids \in [1 .. m -> hits] /\ Table!InOrder(ids, hits)
      /\ \A i \in hits : Fields(i).ok
      /\ found = [h \in 1 .. m |-> Shown(st, schema, ids[h], Fields(ids[h]).fields)]
  BY DEF Answers
<1>1. /\ TableOf[st.table] = t /\ cs \in Seq(Text) \ {<<>>} /\ IsInjective(cs)
      /\ IdColumn \notin Range(cs) /\ lines \in Seq(LineType) /\ StoredRows[t] = s
      /\ st.columns \in Seq(Text)
  BY AskedTable
<1>2. Table!Answerable(st) /\ Table!ListOf(st) = ShowsOf(st, cs)
  BY Asked
<1>3. DOMAIN s = 1 .. Len(lines) /\ \A i \in 1 .. Len(lines) : s[i] = StoredRow(lines[i], cs)
  BY <1>1 DEF ListIn
<1>4. hits \subseteq 1 .. Len(lines)
  BY <1>3 DEF Table!Hits
<1>5. ASSUME NEW i \in hits
      PROVE  s[i] # <<>> /\ \A j \in DOMAIN cs : s[i][cs[j]] = Fields(i).fields[j]
  <2>1. i \in 1 .. Len(lines) /\ lines[i] \in LineType /\ s[i] = StoredRow(lines[i], cs)
    BY <1>1, <1>3, <1>4
  <2>2. Fields(i).ok
    BY <1>0
  <2>. QED
    BY <1>1, <2>1, <2>2, StoredRowIs
<1>. HIDE DEF s, hits, lines
<1>6. ASSUME NEW i \in hits
      PROVE  Shown(st, schema, i, Fields(i).fields) = RowShown(st, cs, i, s[i])
  <2>. DEFINE fields == Fields(i).fields
  <2>1. ReadsAs(s[i], cs, fields)
    BY <1>5 DEF ReadsAs
  <2>. DEFINE row == s[i]
  <2>. HIDE DEF fields, row
  <2>2. ReadsAs(row, schema.columns, fields)
    BY <2>1 DEF row
  <2>3. /\ CanSelect(st, schema) /\ st.columns \in Seq(Text) /\ schema.columns \in Seq(Text)
        /\ IdColumn \notin Range(schema.columns) /\ IsInjective(schema.columns)
    BY <1>1
  <2>4. Shown(st, schema, i, fields) = RowShown(st, schema.columns, i, row)
    BY <2>2, <2>3, ShownIs
  <2>. QED
    BY <2>4 DEF fields, row
<1>7. Table!Result(s, st, ids) = [h \in 1 .. m |-> RowShown(st, cs, ids[h], s[ids[h]])]
  BY <1>0, <1>2 DEF Table!Result, RowShown
<1>8. [h \in 1 .. m |-> Shown(st, schema, ids[h], Fields(ids[h]).fields)]
        = [h \in 1 .. m |-> RowShown(st, cs, ids[h], s[ids[h]])]
  <2>1. \A h \in 1 .. m : ids[h] \in hits
    BY <1>0
  <2>. HIDE DEF Fields
  <2>. QED
    BY <1>6, <2>1
<1>9. answer' = Table!Found(st, Table!Result(s, st, ids))
  BY <1>0, <1>7, <1>8
<1>10. Len(s) = Len(lines)
  BY <1>1, <1>3
<1>11. StoredRows' = StoredRows
  BY SameRows
<1>12. hits = Table!Hits(s, st)
  BY DEF hits
<1>13. answer'.kind = "found" /\ answer'.asked = st
  BY <1>9 DEF Table!Found
<1>14. \A i \in Table!Hits(s, st) : s[i] # Table!Damaged
  BY <1>5, <1>12 DEF Table!Damaged
<1>15. \E n \in 0 .. Len(s) : \E hs \in [1 .. n -> Table!Hits(s, st)] :
         /\ Table!InOrder(hs, Table!Hits(s, st))
         /\ answer' = Table!Found(st, Table!Result(s, st, hs))
  BY <1>0, <1>9, <1>10, <1>12
<1>16. StoredRows[TableOf[st.table]] = s
  BY <1>1
<1>. QED
  BY <1>2, <1>11, <1>13, <1>14, <1>15, <1>16 DEF Table!Query

\* A row that the condition on a column asks for.
LEMMA WhereIs ==
  ASSUME NEW st, NEW schema, NEW row, NEW fields, CanSelect(st, schema), ~ById(st),
         schema.columns \in Seq(Text), IsInjective(schema.columns),
         ReadsAs(row, schema.columns, fields)
  PROVE  row_matches_where(st, schema, fields)
           <=> (st.where = <<>> \/ row[st.where[1]] = st.where[2])
<1>1. CASE st.where = <<>>
  BY <1>1 DEF row_matches_where
<1>2. CASE st.where # <<>>
  <2>1. st.where[1] \in Range(schema.columns)
    BY <1>2 DEF CanSelect, ById
  <2>2. PICK k \in DOMAIN schema.columns : schema.columns[k] = st.where[1]
    BY <2>1 DEF Range
  <2>3. ColumnIndex(schema, schema.columns[k]) = k
    BY ColumnPlace
  <2>4. row[st.where[1]] = fields[k]
    BY <2>2 DEF ReadsAs
  <2>. QED
    BY <1>2, <2>2, <2>3, <2>4 DEF row_matches_where
<1>. QED
  BY <1>1, <1>2

LEMMA ScanAnswers ==
  ASSUME DistinctColumns, Inv, NEW st \in Selects, SelectScan(st)
  PROVE  Table!Query(st)
<1>1. PICK schema \in load_schema(st.table, files) :
        /\ CanSelect(st, schema)
        /\ LET rows == Scanned(files[schema.storage_name], Len(schema.columns))
           IN  /\ \A i \in DOMAIN rows : rows[i].read.ok
               /\ answer' = Table!Found(st, ShownRows(st, schema, Matching(st, schema, rows)))
  BY DEF SelectScan
<1>2. ~ById(st) /\ UNCHANGED files
  BY DEF SelectScan
<1>. DEFINE t     == schema.storage_name
            cs    == schema.columns
            f     == files[t]
            lines == DataLines(f)
            s     == ListIn(f, cs)
            Fields(i) == FieldsOf(lines[i], Len(cs))
            rows  == Scanned(f, Len(cs))
            m     == Matching(st, schema, rows)
            hits  == Table!Hits(s, st)
            ids   == [h \in 1 .. Len(m) |-> m[h].id]
<1>3. /\ cs \in Seq(Text) \ {<<>>} /\ IsInjective(cs) /\ lines \in Seq(LineType)
      /\ StoredRows[t] = s
  BY AskedTable
<1>4. rows = [i \in 1 .. Len(lines) |-> [id |-> i, read |-> Fields(i)]]
  BY <1>3 DEF Scanned, With
<1>5. DOMAIN s = 1 .. Len(lines) /\ \A i \in 1 .. Len(lines) : s[i] = StoredRow(lines[i], cs)
  BY <1>3 DEF ListIn
<1>6. Len(lines) \in Nat
  BY <1>3
<1>7. /\ \A i \in DOMAIN rows : rows[i].read.ok
      /\ answer' = Table!Found(st, ShownRows(st, schema, m))
  BY <1>1
<1>. HIDE DEF lines, s, rows, Fields
<1>8. /\ DOMAIN rows = 1 .. Len(lines) /\ Len(rows) = Len(lines) /\ rows \in Seq(Range(rows))
      /\ \A i \in 1 .. Len(lines) : rows[i].id = i /\ rows[i].read = Fields(i)
  <2>1. DOMAIN rows = 1 .. Len(lines)
        /\ \A i \in 1 .. Len(lines) : rows[i] = [id |-> i, read |-> Fields(i)]
    BY <1>4
  <2>2. \A i \in 1 .. Len(lines) : rows[i].id = i /\ rows[i].read = Fields(i) /\ rows[i] \in Range(rows)
    BY <2>1 DEF Range
  <2>3. rows \in [1 .. Len(lines) -> Range(rows)]
    <3>1. rows = [i \in 1 .. Len(lines) |-> rows[i]]
      BY <1>4, <2>1
    <3>. QED
      BY <2>2, <3>1
  <2>4. rows \in Seq(Range(rows)) /\ Len(rows) = Len(lines)
    <3>. DEFINE R == Range(rows)
    <3>. HIDE DEF R
    <3>1. rows \in [1 .. Len(lines) -> R]
      BY <2>3 DEF R
    <3>2. rows \in Seq(R) /\ Len(rows) = Len(lines)
      BY <1>6, <3>1
    <3>. QED
      BY <3>2 DEF R
  <2>. QED
    BY <2>1, <2>2, <2>4
<1>9. \A i \in 1 .. Len(lines) : Fields(i).ok
  BY <1>7, <1>8
<1>10. m \in Seq(Range(rows)) /\ Selected(st, schema, rows, m)
  <2>1. Numbered(rows)
    BY <1>8 DEF Numbered
  <2>. QED
    BY <1>8, <2>1, MatchingRows
<1>. HIDE DEF m
<1>11. ASSUME NEW i \in 1 .. Len(lines)
       PROVE  s[i] # <<>> /\ ReadsAs(s[i], cs, Fields(i).fields)
  <2>1. lines[i] \in LineType /\ s[i] = StoredRow(lines[i], cs) /\ Fields(i).ok
    BY <1>3, <1>5, <1>9
  <2>. QED
    BY <1>3, <2>1, StoredRowIs DEF ReadsAs, Fields
<1>12. ASSUME NEW i \in 1 .. Len(lines)
       PROVE  i \in hits <=> Fits(st, schema, rows[i])
  <2>. DEFINE fields == Fields(i).fields
  <2>1. Fits(st, schema, rows[i]) <=> row_matches_where(st, schema, fields)
    BY <1>8 DEF Fits
  <2>2. s[i] # <<>> /\ ReadsAs(s[i], cs, fields)
    BY <1>11
  <2>. HIDE DEF fields
  <2>3. row_matches_where(st, schema, fields) <=> (st.where = <<>> \/ s[i][st.where[1]] = st.where[2])
    BY <1>1, <1>2, <1>3, <2>2, WhereIs
  <2>4. i \in hits <=> (st.where = <<>> \/ s[i][st.where[1]] = st.where[2])
    BY <1>2, <1>5, <2>2 DEF Table!Hits, Table!Meets, Table!Damaged, ById
  <2>. QED
    BY <2>1, <2>3, <2>4
<1>13. hits \subseteq 1 .. Len(lines)
  BY <1>5 DEF Table!Hits
<1>. HIDE DEF hits
<1>14. /\ Len(m) \in 0 .. Len(lines) /\ DOMAIN m = 1 .. Len(m)
       /\ \A h \in 1 .. Len(m) : /\ m[h].id \in 1 .. Len(lines) /\ m[h] = rows[m[h].id]
                                  /\ m[h].id \in hits
       /\ \A i \in hits : \E h \in 1 .. Len(m) : m[h].id = i
       /\ \A h, k \in 1 .. Len(m) : h < k => m[h].id < m[k].id
  <2>1. Len(m) \in Nat /\ DOMAIN m = 1 .. Len(m)
    BY <1>10
  <2>2. Len(m) <= Len(lines)
    BY <1>8, <1>10 DEF Selected
  <2>3. Len(m) \in 0 .. Len(lines)
    BY <1>6, <2>1, <2>2
  <2>4. ASSUME NEW h \in 1 .. Len(m)
        PROVE  /\ m[h].id \in 1 .. Len(lines) /\ m[h] = rows[m[h].id]
               /\ m[h].id \in hits
    <3>1. m[h].id \in 1 .. Len(lines) /\ m[h] = rows[m[h].id] /\ Fits(st, schema, m[h])
      BY <1>8, <1>10 DEF Selected, IsRow
    <3>. QED
      BY <1>12, <3>1
  <2>5. ASSUME NEW i \in hits PROVE \E h \in 1 .. Len(m) : m[h].id = i
    <3>1. i \in 1 .. Len(lines) /\ Fits(st, schema, rows[i])
      BY <1>12, <1>13
    <3>. QED
      BY <1>8, <1>10, <3>1 DEF Selected
  <2>6. \A h, k \in 1 .. Len(m) : h < k => m[h].id < m[k].id
    BY <1>10 DEF Selected
  <2>. QED
    BY <2>1, <2>3, <2>4, <2>5, <2>6
<1>15. ids \in [1 .. Len(m) -> hits] /\ \A h \in 1 .. Len(m) : ids[h] = m[h].id
  BY <1>14
<1>16. ShownRows(st, schema, m)
         = [h \in 1 .. Len(m) |-> Shown(st, schema, ids[h], Fields(ids[h]).fields)]
  <2>1. \A h \in 1 .. Len(m) : m[h].read.fields = Fields(ids[h]).fields
    BY <1>8, <1>14, <1>15
  <2>. HIDE DEF ids
  <2>. QED
    BY <1>14, <1>15, <2>1 DEF ShownRows
<1>. HIDE DEF ids
<1>17. Table!InOrder(ids, hits)
  <2>1. DOMAIN ids = 1 .. Len(m)
    BY <1>15
  <2>2. Range(ids) = hits
    BY <1>14, <1>15, <2>1 DEF Range
  <2>3. \A h, k \in DOMAIN ids : h < k => ids[h] < ids[k]
    BY <1>14, <1>15, <2>1
  <2>. QED
    BY <2>2, <2>3, SameOperators DEF Table!InOrder
<1>18. \A i \in hits : FieldsOf(lines[i], Len(cs)).ok
  BY <1>9, <1>13 DEF Fields
<1>19. answer' = Table!Found(st, [h \in 1 .. Len(m) |->
                   Shown(st, schema, ids[h], FieldsOf(lines[ids[h]], Len(cs)).fields)])
  BY <1>7, <1>16 DEF Fields
<1>20. Len(m) \in 0 .. Len(lines)
  BY <1>14
<1>. DEFINE found == [h \in 1 .. Len(m) |->
                       Shown(st, schema, ids[h], FieldsOf(lines[ids[h]], Len(cs)).fields)]
<1>21. Answers(st, schema, Len(m), ids, found)
  BY <1>15, <1>17, <1>18, <1>20 DEF Answers, lines, hits, s
<1>22. answer' = Table!Found(st, found)
  BY <1>19
<1>. HIDE DEF found
<1>23. CanSelect(st, schema) /\ ~ById(st) /\ UNCHANGED files
  BY <1>1, <1>2
<1>. QED
  BY <1>21, <1>22, <1>23, Answered

\* Where the index of a table leads to in its file.
LEMMA RowAtLine ==
  ASSUME NEW f \in Text, NEW i \in DOMAIN DataLines(f), NEW n
  PROVE  RowAt(f, DataLines(f)[i].offset, n) = FieldsOf(DataLines(f)[i], n)
<1>. DEFINE line == DataLines(f)[i]
            ls   == LinesFrom(f, line.offset)
<1>1. line.text # <<>> /\ ls # <<>> /\ ls[1] = line
  BY DataLineAt
<1>2. RowAt(f, line.offset, n)
        = IF ls = <<>> \/ ls[1].text = <<>> THEN Bad ELSE FieldsOf(ls[1], n)
  BY DEF RowAt, With
<1>. HIDE DEF line, ls
<1>3. RowAt(f, line.offset, n) = FieldsOf(line, n)
  BY <1>1, <1>2
<1>. QED
  BY <1>3 DEF line

LEMMA ByIdAnswers ==
  ASSUME DistinctColumns, Inv, NEW st \in Selects, SelectById(st)
  PROVE  Table!Query(st)
<1>. DEFINE id == parse_int_strict(st.where[2]).value
<1>1. PICK schema \in load_schema(st.table, files) :
        /\ CanSelect(st, schema)
        /\ Load(schema.storage_name)
        /\ LET rows == Lookup(files[schema.storage_name],
                              registry'[schema.storage_name].tree, id, Len(schema.columns))
           IN  /\ \A i \in DOMAIN rows : rows[i].read.ok
               /\ answer' = Table!Found(st, ShownRows(st, schema, rows))
  BY DEF SelectById
<1>2. /\ pc = "idle" /\ pc' = "idle" /\ UNCHANGED files
      /\ ById(st) /\ parse_int_strict(st.where[2]).ok
  BY DEF SelectById
<1>. DEFINE t     == schema.storage_name
            cs    == schema.columns
            f     == files[t]
            lines == DataLines(f)
            s     == ListIn(f, cs)
            Fields(i) == FieldsOf(lines[i], Len(cs))
            tree  == registry'[t].tree
            rows  == Lookup(f, tree, id, Len(cs))
            hits  == Table!Hits(s, st)
<1>3. /\ cs \in Seq(Text) \ {<<>>} /\ IsInjective(cs) /\ lines \in Seq(LineType)
      /\ t \in DOMAIN files /\ f \in Text
  BY AskedTable
<1>4. DOMAIN tree = 1 .. Len(lines) /\ \A i \in 1 .. Len(lines) : tree[i] = lines[i].offset
  <2>. DEFINE offsets == [i \in 1 .. Len(lines) |-> lines[i].offset]
  <2>1. registry'[t] = Rebuilt(f)
    BY <1>1, <1>2, <1>3, LoadKeepsIndex
  <2>2. registry'[t] = [loaded |-> TRUE, tree |-> offsets, next_id |-> Len(lines) + 1]
    BY <1>3, <2>1, RebuiltIs
  <2>3. DOMAIN offsets = 1 .. Len(lines) /\ \A i \in 1 .. Len(lines) : offsets[i] = lines[i].offset
    OBVIOUS
  <2>. HIDE DEF offsets, lines
  <2>4. tree = offsets
    BY <2>2
  <2>. QED
    BY <2>3, <2>4
<1>5. DOMAIN s = 1 .. Len(lines)
  BY <1>3 DEF ListIn
<1>6. hits = {i \in 1 .. Len(lines) : i = id}
  BY <1>2, <1>5 DEF Table!Hits, Table!Meets, ById
<1>7. /\ \A i \in DOMAIN rows : rows[i].read.ok
      /\ answer' = Table!Found(st, ShownRows(st, schema, rows))
  BY <1>1
<1>8. DOMAIN lines = 1 .. Len(lines) /\ Len(lines) \in Nat
  BY <1>3
<1>9. CanSelect(st, schema) /\ UNCHANGED files
  BY <1>1, <1>2
<1>10. rows = IF id \in DOMAIN tree THEN <<[id |-> id, read |-> RowAt(f, tree[id], Len(cs))]>> ELSE <<>>
  BY DEF Lookup
<1>. HIDE DEF s, hits, id, tree, rows
<1>11. CASE id \in 1 .. Len(lines)
  <2>. DEFINE ids  == [h \in 1 .. 1 |-> id]
              read == Fields(id)
  <2>1. RowAt(f, tree[id], Len(cs)) = read
    BY <1>3, <1>4, <1>8, <1>11, RowAtLine
  <2>2. rows = <<[id |-> id, read |-> read]>>
    BY <1>4, <1>10, <1>11, <2>1
  <2>. HIDE DEF read
  <2>3. DOMAIN rows = 1 .. 1 /\ rows[1].id = id /\ rows[1].read = read
    BY <2>2
  <2>4. read.ok
    BY <1>7, <2>3
  <2>5. hits = {id}
    BY <1>6, <1>11
  <2>6. ids \in [1 .. 1 -> hits] /\ \A h \in 1 .. 1 : ids[h] = id
    BY <2>5
  <2>7. Table!InOrder(ids, hits)
    <3>1. DOMAIN ids = 1 .. 1
      OBVIOUS
    <3>2. Range(ids) = hits
      BY <2>5, <2>6, <3>1 DEF Range
    <3>3. \A h, k \in DOMAIN ids : h < k => ids[h] < ids[k]
      BY <3>1
    <3>. HIDE DEF ids
    <3>. QED
      BY <3>2, <3>3, SameOperators DEF Table!InOrder
  <2>8. ShownRows(st, schema, rows) = [h \in 1 .. 1 |-> Shown(st, schema, ids[h], Fields(ids[h]).fields)]
    <3>1. \A h \in 1 .. 1 : rows[h].id = ids[h] /\ rows[h].read.fields = Fields(ids[h]).fields
      BY <2>3 DEF read
    <3>. HIDE DEF ids, Fields
    <3>. QED
      BY <2>3, <3>1 DEF ShownRows
  <2>9. \A i \in hits : FieldsOf(lines[i], Len(cs)).ok
    BY <2>4, <2>5 DEF read
  <2>10. answer' = Table!Found(st, [h \in 1 .. 1 |->
                     Shown(st, schema, ids[h], FieldsOf(lines[ids[h]], Len(cs)).fields)])
    BY <1>7, <2>8
  <2>11. 1 \in 0 .. Len(lines)
    BY <1>8, <1>11
  <2>. DEFINE found == [h \in 1 .. 1 |->
                         Shown(st, schema, ids[h], FieldsOf(lines[ids[h]], Len(cs)).fields)]
  <2>12. Answers(st, schema, 1, ids, found)
    BY <2>6, <2>7, <2>9, <2>11 DEF Answers, hits, s
  <2>13. answer' = Table!Found(st, found)
    BY <2>10
  <2>. HIDE DEF found
  <2>. QED
    BY <1>2, <1>9, <2>12, <2>13, Answered
<1>12. CASE id \notin 1 .. Len(lines)
  <2>. DEFINE ids == [h \in 1 .. 0 |-> id]
  <2>1. rows = <<>>
    BY <1>4, <1>10, <1>12
  <2>2. hits = {}
    BY <1>6, <1>12
  <2>3. 1 .. 0 = {} /\ DOMAIN ids = {}
    OBVIOUS
  <2>4. ids \in [1 .. 0 -> hits]
    BY <2>3
  <2>5. Table!InOrder(ids, hits)
    <3>1. Range(ids) = hits
      BY <2>2, <2>3 DEF Range
    <3>. HIDE DEF ids
    <3>. QED
      BY <2>3, <3>1, SameOperators DEF Table!InOrder
  <2>6. ShownRows(st, schema, rows) = [h \in 1 .. 0 |-> Shown(st, schema, ids[h], Fields(ids[h]).fields)]
    <3>1. DOMAIN rows = {}
      BY <2>1
    <3>. HIDE DEF ids, Fields
    <3>. QED
      BY <2>3, <3>1 DEF ShownRows
  <2>7. \A i \in hits : FieldsOf(lines[i], Len(cs)).ok
    BY <2>2
  <2>8. answer' = Table!Found(st, [h \in 1 .. 0 |->
                     Shown(st, schema, ids[h], FieldsOf(lines[ids[h]], Len(cs)).fields)])
    BY <1>7, <2>6
  <2>9. 0 \in 0 .. Len(lines)
    BY <1>8
  <2>. DEFINE found == [h \in 1 .. 0 |->
                         Shown(st, schema, ids[h], FieldsOf(lines[ids[h]], Len(cs)).fields)]
  <2>10. Answers(st, schema, 0, ids, found)
    BY <2>4, <2>5, <2>7, <2>9 DEF Answers, hits, s
  <2>11. answer' = Table!Found(st, found)
    BY <2>8
  <2>. HIDE DEF found
  <2>. QED
    BY <1>2, <1>9, <2>10, <2>11, Answered
<1>. QED
  BY <1>11, <1>12

\* A failure leaves the rows as they are, if not always the file.
LEMMA FailureKeepsRows ==
  ASSUME Inv, \/ AppendFails
              \/ RegisterFails
              \/ \E t \in DOMAIN registry : StatementFails(t)
  PROVE  Table!Fail
<1>1. answer' = Table!Failed
  BY DEF AppendFails, RegisterFails, StatementFails
<1>2. CASE UNCHANGED files
  <2>1. StoredRows' = StoredRows
    BY <1>2, SameRows
  <2>. QED
    BY <1>1, <2>1 DEF Table!Fail
<1>3. CASE ~UNCHANGED files
  <2>. DEFINE t == stmt.storage_name
              g == files[t] \o Separator(files[t])
  <2>1. pc = "append" /\ files' = [files EXCEPT ![t] = g]
    BY <1>3 DEF AppendFails, RegisterFails, StatementFails
  <2>2. t \in DOMAIN files /\ files[t] \in Text \ {<<>>}
    BY <2>1, OpenFacts
  <2>3. DataLines(g) = DataLines(files[t])
    BY <2>2, SeparatorAddsNothing
  <2>4. DOMAIN files' = DOMAIN files
        /\ \A x \in DOMAIN files : files'[x] = IF x = t THEN g ELSE files[x]
    BY <2>1
  <2>. HIDE DEF g
  <2>5. \A x \in DOMAIN files : DataLines(files'[x]) = DataLines(files[x])
    BY <2>3, <2>4
  <2>6. StoredRows' = StoredRows
    BY <2>4, <2>5, SameRows
  <2>. QED
    BY <1>1, <2>6 DEF Table!Fail
<1>. QED
  BY <1>2, <1>3

LEMMA NextRefines ==
  ASSUME DistinctColumns, Inv, [Next]_storeVars
  PROVE  [Table!Next]_(Table!tableVars)
<1>1. UNCHANGED files => StoredRows' = StoredRows
  BY SameRows
<1>2. ASSUME NEW st \in Inserts, PrepareInsert(st) PROVE UNCHANGED Table!tableVars
  <2>1. UNCHANGED files /\ UNCHANGED answer
    BY <1>2 DEF PrepareInsert
  <2>. QED
    BY <1>1, <2>1 DEF Table!tableVars
<1>3. CASE AppendRow
  BY <1>3, AppendStores DEF Table!Next
<1>4. CASE RegisterRow
  <2>1. answer = Table!Stored
    BY <1>4 DEF RegisterRow, Inv, OpenInv
  <2>2. answer' = Table!Inserted /\ UNCHANGED files
    BY <1>4 DEF RegisterRow
  <2>3. Table!Confirm
    BY <1>1, <2>1, <2>2 DEF Table!Confirm
  <2>. QED
    BY <2>3 DEF Table!Next
<1>5. CASE AppendFails \/ RegisterFails \/ \E t \in DOMAIN registry : StatementFails(t)
  BY <1>5, FailureKeepsRows DEF Table!Next
<1>6. ASSUME NEW st \in Selects, SelectById(st) \/ SelectScan(st) PROVE Table!Next
  <2>1. Table!Query(st)
    BY <1>6, ByIdAnswers, ScanAnswers
  <2>. QED
    BY <2>1 DEF Table!Next
<1>7. CASE Reset \/ Crash
  <2>1. answer' = Table!NoAnswer /\ UNCHANGED files
    BY <1>7 DEF Reset, Crash
  <2>2. Table!Restart
    BY <1>1, <2>1 DEF Table!Restart
  <2>. QED
    BY <2>2 DEF Table!Next
<1>8. CASE UNCHANGED storeVars
  <2>1. UNCHANGED files /\ UNCHANGED answer
    BY <1>8 DEF storeVars
  <2>. QED
    BY <1>1, <2>1 DEF Table!tableVars
<1>. QED
  BY <1>2, <1>3, <1>4, <1>5, <1>6, <1>7, <1>8 DEF Next

LEMMA InitRefines == Init => Table!Init
<1>1. StoredRows = RowsIn(files)
  BY StoredRowsAre
<1>2. DOMAIN StoredRows = DOMAIN Columns
  BY <1>1 DEF RowsIn, Columns
<1>. QED
  BY <1>2 DEF Init, Table!Init

(***************************************************************************)
(* The engine's tables are append-only lists whose answers are true: the   *)
(* files as parsed by storage.c, under INSERT and SELECT as executor.c     *)
(* runs them, through the index or by a scan, with failures between the    *)
(* append and the registration, resets and restarts.                       *)
(***************************************************************************)
THEOREM TableRefined == RowsFit /\ DistinctColumns /\ Spec => RefinesTable
<1>1. DistinctColumns /\ Inv /\ [Next]_storeVars => [Table!Next]_(Table!tableVars)
  BY NextRefines
<1>2. DistinctColumns => DistinctColumns'
  BY DEF DistinctColumns
<1>3. RowsFit /\ DistinctColumns /\ Spec => Table!Spec
  BY <1>1, <1>2, InitRefines, InvInvariant, PTL DEF Spec, Table!Spec
<1>. QED
  BY <1>3 DEF RefinesTable

(***************************************************************************)
(* The row that the index of a table has under an id (execute_index_select *)
(* through read_row_at_offset_csv) is the row that a scan counts under it. *)
(***************************************************************************)
THEOREM OneRowForEachId == RowsFit /\ Spec => []OneRowPerId
<1>1. ASSUME Inv PROVE OneRowPerId
  <2>. SUFFICES ASSUME NEW t \in DOMAIN Columns \cap DOMAIN files, registry[t].loaded,
                       NEW id \in DOMAIN registry[t].tree
                PROVE  LET lines == DataLines(files[t])
                           n     == Len(Columns[t])
                       IN  /\ id \in DOMAIN lines
                           /\ RowAt(files[t], registry[t].tree[id], n) = FieldsOf(lines[id], n)
    BY DEF OneRowPerId
  <2>. DEFINE f     == Settled(t)
              old   == DataLines(f)
              lines == DataLines(files[t])
              tree  == [i \in 1 .. Len(old) |-> old[i].offset]
  <2>1. files[t] \in Text /\ f \in Text /\ registry[t] = Rebuilt(f)
    <3>1. files[t] \in Text
      BY <1>1 DEF Inv, FilesInv
    <3>2. registry[t] = Rebuilt(f)
      BY <1>1, LoadedOrNot DEF Inv
    <3>3. CASE pc = "register" /\ stmt.storage_name = t
      BY <1>1, <3>1, <3>2, <3>3 DEF Inv, OpenInv, Appended, AtLine, Settled
    <3>4. CASE ~(pc = "register" /\ stmt.storage_name = t)
      BY <3>1, <3>2, <3>4 DEF Settled
    <3>. QED
      BY <3>3, <3>4
  <2>2. lines \in Seq(LineType) /\ old \in Seq(LineType)
        /\ registry[t] = [loaded |-> TRUE, tree |-> tree, next_id |-> Len(old) + 1]
    BY <2>1, RebuiltIs, DataLinesType
  <2>3. DOMAIN tree = 1 .. Len(old) /\ \A i \in 1 .. Len(old) : tree[i] = old[i].offset
    OBVIOUS
  <2>4. \A i \in 1 .. Len(old) : i \in DOMAIN lines /\ lines[i] = old[i]
    <3>1. CASE pc = "register" /\ stmt.storage_name = t
      <4>1. GoodRow(stmt.row) /\ Appended(SubSeq(files[t], 1, stmt.offset))
        BY <1>1, <3>1 DEF Inv, OpenInv, OpenInsert
      <4>2. f = SubSeq(files[t], 1, stmt.offset)
        BY <3>1 DEF Settled
      <4>3. AtLine(f) /\ files[t] = f \o RowText(stmt.row)
        BY <3>1, <4>1, <4>2 DEF Appended
      <4>. DEFINE line == [offset |-> Len(f), text |-> RowText(stmt.row)]
      <4>4. line \in LineType /\ lines = Append(old, line)
        BY <4>1, <4>3, RowLine
      <4>. HIDE DEF line, old, lines
      <4>5. Len(old) \in Nat /\ Len(lines) = Len(old) + 1 /\ \A i \in 1 .. Len(old) : lines[i] = old[i]
        BY <2>2, <4>4
      <4>6. DOMAIN lines = 1 .. Len(lines)
        BY <2>2
      <4>. QED
        BY <4>5, <4>6
    <3>2. CASE ~(pc = "register" /\ stmt.storage_name = t)
      <4>1. f = files[t]
        BY <3>2 DEF Settled
      <4>. QED
        BY <2>2, <4>1
    <3>. QED
      BY <3>1, <3>2
  <2>. HIDE DEF tree, old, lines, f
  <2>5. registry[t].tree = tree
    BY <2>2
  <2>6. id \in DOMAIN lines /\ registry[t].tree[id] = lines[id].offset
    BY <2>3, <2>4, <2>5
  <2>7. RowAt(files[t], lines[id].offset, Len(Columns[t])) = FieldsOf(lines[id], Len(Columns[t]))
    BY <2>1, <2>6, RowAtLine DEF lines
  <2>. QED
    BY <2>6, <2>7 DEF lines
<1>. QED
  BY <1>1, InvInvariant, PTL
=============================================================================
