----------------------------- MODULE WireProofs -----------------------------
(***************************************************************************)
(* What holds of clients and globalsd for any number of clients, requests  *)
(* and packets: each request is served once and in order, and its callback *)
(* gets its own results, wherever the packets are cut.  The inductive      *)
(* invariant says, for each connection, how many lines and tokens of what  *)
(* was written its reader has taken: the cut object, the requests served,  *)
(* the results collected and the calls made all follow from these numbers. *)
(* Split, the folds over the pieces of a packet and the concatenation of   *)
(* answers are followed by induction on their length.                      *)
(***************************************************************************)
EXTENDS Wire, WellFoundedInduction, FiniteSetTheorems, SequenceTheorems, TLAPS

\* A set of numbers that is not empty has a least one.
LEMMA LeastNumber ==
  ASSUME NEW T, T \subseteq Nat, T # {}
  PROVE  \E n \in T : \A m \in T : n <= m
<1>1. IsWellFoundedOn(OpToRel(<, Nat), Nat)
  BY NatLessThanWellFounded
<1>2. PICK n \in T : \A m \in T : ~(<<m, n>> \in OpToRel(<, Nat))
  BY <1>1, WFMin
<1>3. \A m \in T : ~(m < n)
  BY <1>2 DEF OpToRel
<1> QED BY <1>3

\* Induction, for a set of numbers.
LEMMA Induction ==
  ASSUME NEW S, 0 \in S, \A n \in Nat : n \in S => n + 1 \in S
  PROVE  Nat \subseteq S
<1>1. SUFFICES ASSUME NEW k \in Nat, k \notin S PROVE FALSE
  OBVIOUS
<1>2. PICK n \in Nat \ S : \A m \in Nat \ S : n <= m
  BY <1>1, LeastNumber
<1>3. n # 0 /\ n - 1 \in Nat /\ n - 1 \in S
  BY <1>2
<1>4. (n - 1) + 1 = n
  BY <1>2
<1> QED BY <1>2, <1>3, <1>4

\* What Append does.
LEMMA AppendFacts ==
  ASSUME NEW T, NEW u \in Seq(T), NEW e \in T
  PROVE  /\ Append(u, e) \in Seq(T)
         /\ Len(Append(u, e)) = Len(u) + 1
         /\ \A i \in 1 .. Len(u) : Append(u, e)[i] = u[i]
         /\ Append(u, e)[Len(u) + 1] = e
<1>1. Append(u, e) \in Seq(T)
  OBVIOUS
<1>2. Len(Append(u, e)) = Len(u) + 1
  OBVIOUS
<1>3. \A i \in 1 .. Len(u) : Append(u, e)[i] = u[i]
  OBVIOUS
<1>4. Append(u, e)[Len(u) + 1] = e
  OBVIOUS
<1> QED BY <1>1, <1>2, <1>3, <1>4

\* One more element after two.
LEMMA AppendThird ==
  ASSUME NEW T, NEW u \in Seq(T), NEW e \in T, Len(u) = 2
  PROVE  /\ Append(u, e) \in Seq(T) /\ Len(Append(u, e)) = 3
         /\ Append(u, e)[1] = u[1] /\ Append(u, e)[2] = u[2]
         /\ Append(u, e)[3] = e
<1>1. /\ Append(u, e) \in Seq(T)
      /\ Len(Append(u, e)) = Len(u) + 1
      /\ \A i \in 1 .. Len(u) : Append(u, e)[i] = u[i]
      /\ Append(u, e)[Len(u) + 1] = e
  BY AppendFacts
<1> QED BY <1>1

\* One more element after one.
LEMMA AppendSecond ==
  ASSUME NEW T, NEW u \in Seq(T), NEW e \in T, Len(u) = 1
  PROVE  Append(u, e) = <<u[1], e>>
<1>1. /\ Append(u, e) \in Seq(T)
      /\ Len(Append(u, e)) = Len(u) + 1
      /\ \A i \in 1 .. Len(u) : Append(u, e)[i] = u[i]
      /\ Append(u, e)[Len(u) + 1] = e
  BY AppendFacts
<1> DEFINE v == Append(u, e)
           w == <<u[1], e>>
<1>2. v \in Seq(T) /\ Len(v) = 2 /\ v[1] = u[1] /\ v[2] = e
  BY <1>1
<1>3. w \in Seq(T) /\ Len(w) = 2 /\ w[1] = u[1] /\ w[2] = e
  <2>1. 1 \in 1 .. Len(u)
    OBVIOUS
  <2>2. u[1] \in T
    BY <2>1, ElementOfSeq
  <2> QED BY <2>2
<1> HIDE DEF v, w
<1>4. Len(v) = Len(w) /\ \A i \in 1 .. Len(v) : v[i] = w[i]
  <2>1. \A i \in 1 .. 2 : i = 1 \/ i = 2
    OBVIOUS
  <2> QED BY <2>1, <1>2, <1>3
<1>5. v = w
  BY <1>2, <1>3, <1>4, SeqEqual
<1> QED BY <1>5 DEF v, w

\* A pair.
LEMMA AppendPair ==
  ASSUME NEW T, NEW a \in T, NEW b \in T
  PROVE  Append(<<a>>, b) = <<a, b>>
<1>1. <<a>> \in Seq(T) /\ Len(<<a>>) = 1 /\ <<a>>[1] = a
  OBVIOUS
<1>2. Append(<<a>>, b) = <<<<a>>[1], b>>
  BY <1>1, AppendSecond
<1> QED BY <1>1, <1>2

\* The numbers up to k have a greatest one, and lose it.
LEMMA MaxUpTo ==
  ASSUME NEW k \in Nat, k # 0
  PROVE  /\ Max(1 .. k) = k
         /\ (1 .. k) \ {k} = 1 .. k - 1
<1>1. k \in 1 .. k /\ \A y \in 1 .. k : k >= y
  OBVIOUS
<1>2. \A x \in 1 .. k : (\A y \in 1 .. k : x >= y) => x = k
  OBVIOUS
<1>3. Max(1 .. k) = k
  BY <1>1, <1>2 DEF Max
<1> QED BY <1>3

-----------------------------------------------------------------------------
(* What FlattenSeq computes. *)

\* The recursive function in it.
IsFlatten(f, s, n) ==
  f = [i \in 1 .. n |-> IF i = 1 THEN s[i] ELSE f[i - 1] \o s[i]]

\* It exists.
LEMMA FlattenExists ==
  ASSUME NEW s, NEW n \in Nat
  PROVE  \E f : IsFlatten(f, s, n)
<1> DEFINE S == {k \in Nat : \E f : IsFlatten(f, s, k)}
<1>1. 0 \in S
  <2>1. IsFlatten([i \in 1 .. 0 |-> 0], s, 0)
    BY DEF IsFlatten
  <2> QED BY <2>1
<1>2. ASSUME NEW k \in Nat, k \in S
      PROVE  k + 1 \in S
  <2>1. PICK f : IsFlatten(f, s, k)
    BY <1>2
  <2> DEFINE g == [i \in 1 .. k + 1 |-> IF i \in 1 .. k THEN f[i]
                     ELSE IF i = 1 THEN s[i] ELSE f[i - 1] \o s[i]]
             h == [i \in 1 .. k + 1 |-> IF i = 1 THEN s[i] ELSE g[i - 1] \o s[i]]
  <2>2. ASSUME NEW i \in 1 .. k + 1
        PROVE  g[i] = h[i]
    <3>0. \A j \in 1 .. k : f[j] = IF j = 1 THEN s[j] ELSE f[j - 1] \o s[j]
      BY <2>1 DEF IsFlatten
    <3>1. CASE i = 1
      BY <3>0, <3>1
    <3>2. CASE i # 1
      <4>1. i - 1 \in 1 .. k /\ i - 1 \in 1 .. k + 1
        BY <3>2
      <4>2. g[i - 1] = f[i - 1]
        BY <4>1
      <4>3. CASE i \in 1 .. k
        BY <3>0, <3>2, <4>2, <4>3
      <4>4. CASE i \notin 1 .. k
        BY <3>2, <4>2, <4>4
      <4> QED BY <4>3, <4>4
    <3> QED BY <3>1, <3>2
  <2>3. g = h
    <3> DEFINE D == 1 .. k + 1
    <3> HIDE DEF D
    <3>1. \A i \in D : g[i] = h[i]
      BY <2>2 DEF D
    <3>2. g = [i \in D |-> g[i]] /\ h = [i \in D |-> h[i]]
      BY DEF D
    <3> HIDE DEF g, h
    <3> QED BY <3>1, <3>2
  <2>4. IsFlatten(g, s, k + 1)
    BY <2>3 DEF IsFlatten
  <2> HIDE DEF g
  <2> QED BY <2>4
<1> HIDE DEF S
<1>3. Nat \subseteq S
  BY <1>1, <1>2, Induction
<1> QED BY <1>3 DEF S

\* What a prefix of s flattens to, by its length n.
Flattens(f, s, n) ==
  /\ FlattenSeq(s) = f[n]
  /\ f[1] = s[1]
  /\ \A i \in 2 .. n : f[i] = f[i - 1] \o s[i]

\* FlattenSeq by its recursive function.
LEMMA FlattenIs ==
  ASSUME NEW n \in Nat \ {0}, NEW s, Len(s) = n
  PROVE  \E f : Flattens(f, s, n)
<1> DEFINE f == CHOOSE g : IsFlatten(g, s, n)
<1>1. FlattenSeq(s) = f[n]
  BY DEF FlattenSeq, IsFlatten
<1>2. IsFlatten(f, s, n)
  BY FlattenExists
<1> HIDE DEF f
<1>3. \A i \in 1 .. n : f[i] = IF i = 1 THEN s[i] ELSE f[i - 1] \o s[i]
  BY <1>2 DEF IsFlatten
<1>4. f[1] = s[1]
  <2>1. 1 \in 1 .. n
    OBVIOUS
  <2> QED BY <2>1, <1>3
<1>5. ASSUME NEW i \in 2 .. n
      PROVE  f[i] = f[i - 1] \o s[i]
  <2>1. i \in 1 .. n /\ i # 1
    OBVIOUS
  <2> QED BY <2>1, <1>3
<1>6. Flattens(f, s, n)
  BY <1>1, <1>4, <1>5 DEF Flattens
<1> QED BY <1>6

\* Flattening what has one more sequence at its end puts that sequence last.
LEMMA FlattenStep ==
  ASSUME NEW T, NEW s, NEW u, s \in Seq(Seq(T)), u \in Seq(Seq(T)),
         Len(u) = Len(s) + 1, \A i \in 1 .. Len(s) : u[i] = s[i]
  PROVE  /\ FlattenSeq(s) \in Seq(T)
         /\ FlattenSeq(u) = FlattenSeq(s) \o u[Len(u)]
<1> DEFINE n == Len(s)
<1>1. /\ n \in Nat /\ Len(s) = n /\ Len(u) = n + 1
      /\ s \in [1 .. n -> Seq(T)] /\ u \in [1 .. n + 1 -> Seq(T)]
      /\ \A i \in 1 .. n : u[i] = s[i]
  OBVIOUS
<1> HIDE DEF n
<1>0. PICK g : Flattens(g, u, n + 1)
  <2>1. n + 1 \in Nat \ {0}
    BY <1>1
  <2> QED BY <2>1, <1>1, FlattenIs
<1>2. /\ FlattenSeq(u) = g[n + 1]
      /\ g[1] = u[1]
      /\ \A i \in 2 .. n + 1 : g[i] = g[i - 1] \o u[i]
  BY <1>0 DEF Flattens
<1>3. CASE n = 0
  <2>1. FlattenSeq(s) = <<>>
    <3>1. s = <<>>
      BY <1>1, <1>3
    <3> QED BY <3>1, <1>1, <1>3 DEF FlattenSeq
  <2>2. u[1] \in Seq(T)
    BY <1>1, <1>3
  <2> QED BY <2>1, <2>2, <1>1, <1>2, <1>3
<1>4. CASE n # 0
  <2>0. PICK f : Flattens(f, s, n)
    <3>1. n \in Nat \ {0}
      BY <1>1, <1>4
    <3> QED BY <3>1, <1>1, FlattenIs
  <2>1. /\ FlattenSeq(s) = f[n]
        /\ f[1] = s[1]
        /\ \A i \in 2 .. n : f[i] = f[i - 1] \o s[i]
    BY <2>0 DEF Flattens
  <2> DEFINE S == {i \in Nat : i + 1 \in 1 .. n => /\ f[i + 1] = g[i + 1]
                                                   /\ f[i + 1] \in Seq(T)}
  <2>2. 0 \in S
    BY <1>1, <1>2, <1>4, <2>1
  <2>3. ASSUME NEW i \in Nat, i \in S
        PROVE  i + 1 \in S
    <3>1. SUFFICES ASSUME i + 2 \in 1 .. n
                   PROVE  f[i + 2] = g[i + 2] /\ f[i + 2] \in Seq(T)
      BY i + 1 + 1 = i + 2
    <3>2. f[i + 1] = g[i + 1] /\ f[i + 1] \in Seq(T)
      BY <2>3, <3>1, <1>1
    <3>3. s[i + 2] = u[i + 2] /\ s[i + 2] \in Seq(T)
      BY <3>1, <1>1
    <3>4. i + 2 \in 2 .. n /\ i + 2 \in 2 .. n + 1 /\ (i + 2) - 1 = i + 1
      BY <3>1, <1>1
    <3>5. f[i + 2] = f[i + 1] \o s[i + 2] /\ g[i + 2] = g[i + 1] \o u[i + 2]
      BY <3>4, <2>1, <1>2
    <3>6. f[i + 1] \o s[i + 2] \in Seq(T)
      BY <3>2, <3>3
    <3> QED BY <3>2, <3>3, <3>5, <3>6
  <2> HIDE DEF S
  <2>4. n - 1 \in S
    <3>1. Nat \subseteq S
      BY <2>2, <2>3, Induction
    <3>2. n - 1 \in Nat
      BY <1>1, <1>4
    <3> QED BY <3>1, <3>2
  <2>5. f[n] = g[n] /\ f[n] \in Seq(T)
    <3>1. (n - 1) + 1 = n /\ n \in 1 .. n
      BY <1>1, <1>4
    <3> QED BY <2>4, <3>1 DEF S
  <2>6. g[n + 1] = g[n] \o u[n + 1]
    <3>1. n + 1 \in 2 .. n + 1 /\ (n + 1) - 1 = n
      BY <1>1, <1>4
    <3> QED BY <3>1, <1>2
  <2> QED BY <2>1, <2>5, <2>6, <1>1, <1>2
<1> QED BY <1>3, <1>4

-----------------------------------------------------------------------------
(* Streams of tokens as the lines of messages. *)

\* s is part of the stream of the lines of ms: the part after q lines and r
\* tokens.
Carries(s, ms, q, r) ==
  /\ s \in Seq(Tokens)
  /\ 3 * q + r + Len(s) <= 3 * Len(ms)
  /\ \A x \in 0 .. Len(ms) - 1, y \in 1 .. 3 :
       3 * x + y - (3 * q + r) \in 1 .. Len(s) =>
         s[3 * x + y - (3 * q + r)] = Line(ms[x + 1])[y]

\* s is all that follows q lines and r tokens.
Rest(s, ms, q, r) ==
  /\ Carries(s, ms, q, r)
  /\ 3 * q + r + Len(s) = 3 * Len(ms)

\* A line has three tokens.
LEMMA LineTokens ==
  ASSUME NEW m \in Messages
  PROVE  /\ Line(m) \in Seq(Tokens) /\ Len(Line(m)) = 3
         /\ Line(m)[1] = [msg |-> m, part |-> 1]
         /\ Line(m)[2] = [msg |-> m, part |-> 2]
         /\ Line(m)[3] = EndOfMessage
<1>1. [msg |-> m, part |-> 1] \in Tokens /\ [msg |-> m, part |-> 2] \in Tokens
  BY DEF Tokens
<1>2. EndOfMessage \in Tokens
  BY DEF Tokens
<1>3. /\ Text(m) \in Seq(Tokens) /\ Len(Text(m)) = 2
      /\ Text(m)[1] = [msg |-> m, part |-> 1]
      /\ Text(m)[2] = [msg |-> m, part |-> 2]
  BY <1>1 DEF Text
<1> HIDE DEF EndOfMessage
<1>4. Line(m) = Append(Text(m), EndOfMessage)
  BY DEF Line
<1>5. /\ Line(m) \in Seq(Tokens) /\ Len(Line(m)) = 3
      /\ Line(m)[1] = Text(m)[1] /\ Line(m)[2] = Text(m)[2]
      /\ Line(m)[3] = EndOfMessage
  <2>1. /\ Append(Text(m), EndOfMessage) \in Seq(Tokens)
        /\ Len(Append(Text(m), EndOfMessage)) = 3
        /\ Append(Text(m), EndOfMessage)[1] = Text(m)[1]
        /\ Append(Text(m), EndOfMessage)[2] = Text(m)[2]
        /\ Append(Text(m), EndOfMessage)[3] = EndOfMessage
    BY <1>2, <1>3, AppendThird
  <2> QED BY <2>1, <1>4
<1> QED BY <1>3, <1>5

\* The line of one message.
LEMMA RestLine ==
  ASSUME NEW m \in Messages
  PROVE  Rest(Line(m), <<m>>, 0, 0)
<1>1. Line(m) \in Seq(Tokens) /\ Len(Line(m)) = 3
  BY LineTokens
<1>2. Len(<<m>>) = 1 /\ <<m>>[1] = m
  OBVIOUS
<1>3. ASSUME NEW x \in 0 .. Len(<<m>>) - 1, NEW y \in 1 .. 3
      PROVE  Line(m)[3 * x + y - (3 * 0 + 0)] = Line(<<m>>[x + 1])[y]
  <2>1. x = 0 /\ 3 * x + y - (3 * 0 + 0) = y /\ x + 1 = 1
    BY <1>2
  <2> QED BY <2>1, <1>2
<1> QED BY <1>1, <1>2, <1>3 DEF Rest, Carries

\* Lengths and positions in two streams, one after the other.
LEMMA RestArithmetic ==
  ASSUME NEW q \in Nat, NEW r \in Nat, NEW a \in Nat, NEW b \in Nat, NEW c \in Nat,
         NEW d \in Nat, 3 * q + r + a = 3 * c, b = 3 * d
  PROVE  /\ 3 * q + r + (a + b) = 3 * (c + d)
         /\ \A x \in 0 .. (c + d) - 1, y \in 1 .. 3 :
              LET t == 3 * x + y - (3 * q + r) IN
              t \in 1 .. a + b =>
                \/ x < c /\ t \in 1 .. a /\ x \in 0 .. c - 1 /\ x + 1 \in 1 .. c
                \/ /\ t \in a + 1 .. a + b /\ x + 1 \in c + 1 .. c + d
                   /\ x - c \in 0 .. d - 1 /\ t - a \in 1 .. b
                   /\ (x + 1) - c = (x - c) + 1
                   /\ t - a = 3 * (x - c) + y - (3 * 0 + 0)
  OBVIOUS

\* A stream that is all there goes on with the lines that are written next.
LEMMA RestMore ==
  ASSUME NEW M, NEW s, NEW ms \in Seq(M), NEW q \in Nat, NEW r \in Nat,
         NEW w, NEW ws \in Seq(M),
         Rest(s, ms, q, r), Rest(w, ws, 0, 0)
  PROVE  Rest(s \o w, ms \o ws, q, r)
<1> DEFINE both == ms \o ws
           sw == s \o w
<1>1. s \in Seq(Tokens) /\ w \in Seq(Tokens)
  BY DEF Rest, Carries
<1>2. /\ sw \in Seq(Tokens) /\ Len(sw) = Len(s) + Len(w)
      /\ \A i \in 1 .. Len(s) : sw[i] = s[i]
      /\ \A i \in Len(s) + 1 .. Len(s) + Len(w) : sw[i] = w[i - Len(s)]
  BY <1>1
<1>3. /\ Len(both) = Len(ms) + Len(ws)
      /\ \A i \in 1 .. Len(ms) : both[i] = ms[i]
      /\ \A i \in Len(ms) + 1 .. Len(ms) + Len(ws) : both[i] = ws[i - Len(ms)]
  OBVIOUS
<1>4. Len(s) \in Nat /\ Len(w) \in Nat /\ Len(ms) \in Nat /\ Len(ws) \in Nat
  BY <1>1
<1>5. 3 * q + r + Len(s) = 3 * Len(ms) /\ Len(w) = 3 * Len(ws)
  BY <1>4 DEF Rest
<1> HIDE DEF both, sw
<1>6. /\ 3 * q + r + Len(sw) = 3 * Len(both)
      /\ \A x \in 0 .. Len(both) - 1, y \in 1 .. 3 :
           LET t == 3 * x + y - (3 * q + r) IN
           t \in 1 .. Len(sw) =>
             \/ x < Len(ms) /\ t \in 1 .. Len(s) /\ x \in 0 .. Len(ms) - 1
                /\ x + 1 \in 1 .. Len(ms)
             \/ /\ t \in Len(s) + 1 .. Len(s) + Len(w)
                /\ x + 1 \in Len(ms) + 1 .. Len(ms) + Len(ws)
                /\ x - Len(ms) \in 0 .. Len(ws) - 1 /\ t - Len(s) \in 1 .. Len(w)
                /\ (x + 1) - Len(ms) = (x - Len(ms)) + 1
                /\ t - Len(s) = 3 * (x - Len(ms)) + y - (3 * 0 + 0)
  <2> DEFINE a == Len(s)
             b == Len(w)
             c == Len(ms)
             d == Len(ws)
  <2>1. /\ a \in Nat /\ b \in Nat /\ c \in Nat /\ d \in Nat
        /\ 3 * q + r + a = 3 * c /\ b = 3 * d /\ Len(sw) = a + b /\ Len(both) = c + d
    BY <1>2, <1>3, <1>4, <1>5
  <2> HIDE DEF a, b, c, d
  <2>2. /\ 3 * q + r + Len(sw) = 3 * Len(both)
        /\ \A x \in 0 .. Len(both) - 1, y \in 1 .. 3 :
             LET t == 3 * x + y - (3 * q + r) IN
             t \in 1 .. Len(sw) =>
               \/ x < c /\ t \in 1 .. a /\ x \in 0 .. c - 1 /\ x + 1 \in 1 .. c
               \/ /\ t \in a + 1 .. a + b /\ x + 1 \in c + 1 .. c + d
                  /\ x - c \in 0 .. d - 1 /\ t - a \in 1 .. b
                  /\ (x + 1) - c = (x - c) + 1
                  /\ t - a = 3 * (x - c) + y - (3 * 0 + 0)
    BY <2>1, RestArithmetic
  <2> QED BY <2>2 DEF a, b, c, d
<1>7. ASSUME NEW x \in 0 .. Len(both) - 1, NEW y \in 1 .. 3, NEW t,
             t = 3 * x + y - (3 * q + r), t \in 1 .. Len(sw)
      PROVE  sw[t] = Line(both[x + 1])[y]
  <2>1. \/ t \in 1 .. Len(s) /\ x \in 0 .. Len(ms) - 1 /\ x + 1 \in 1 .. Len(ms)
        \/ /\ t \in Len(s) + 1 .. Len(s) + Len(w)
           /\ x + 1 \in Len(ms) + 1 .. Len(ms) + Len(ws)
           /\ x - Len(ms) \in 0 .. Len(ws) - 1 /\ t - Len(s) \in 1 .. Len(w)
           /\ (x + 1) - Len(ms) = (x - Len(ms)) + 1
           /\ t - Len(s) = 3 * (x - Len(ms)) + y - (3 * 0 + 0)
    BY <1>6, <1>7
  <2>2. CASE t \in 1 .. Len(s) /\ x \in 0 .. Len(ms) - 1 /\ x + 1 \in 1 .. Len(ms)
    <3>1. sw[t] = s[t] /\ both[x + 1] = ms[x + 1]
      BY <2>2, <1>2, <1>3
    <3>2. s[t] = Line(ms[x + 1])[y]
      BY <2>2, <1>7 DEF Rest, Carries
    <3> QED BY <3>1, <3>2
  <2>3. CASE /\ t \in Len(s) + 1 .. Len(s) + Len(w)
             /\ x + 1 \in Len(ms) + 1 .. Len(ms) + Len(ws)
             /\ x - Len(ms) \in 0 .. Len(ws) - 1 /\ t - Len(s) \in 1 .. Len(w)
             /\ (x + 1) - Len(ms) = (x - Len(ms)) + 1
             /\ t - Len(s) = 3 * (x - Len(ms)) + y - (3 * 0 + 0)
    <3>1. sw[t] = w[t - Len(s)]
      BY <2>3, <1>2
    <3>2. both[x + 1] = ws[(x - Len(ms)) + 1]
      <4>1. both[x + 1] = ws[(x + 1) - Len(ms)]
        BY <2>3, <1>3
      <4> QED BY <4>1, <2>3
    <3>3. w[t - Len(s)] = Line(ws[(x - Len(ms)) + 1])[y]
      <4> DEFINE z == x - Len(ms)
      <4>1. z \in 0 .. Len(ws) - 1 /\ t - Len(s) = 3 * z + y - (3 * 0 + 0)
        BY <2>3
      <4> HIDE DEF z
      <4>2. w[3 * z + y - (3 * 0 + 0)] = Line(ws[z + 1])[y]
        BY <4>1, <2>3 DEF Rest, Carries
      <4> QED BY <4>1, <4>2 DEF z
    <3> QED BY <3>1, <3>2, <3>3
  <2> QED BY <2>1, <2>2, <2>3
<1>8. \A x \in 0 .. Len(both) - 1, y \in 1 .. 3 :
        3 * x + y - (3 * q + r) \in 1 .. Len(sw) =>
          sw[3 * x + y - (3 * q + r)] = Line(both[x + 1])[y]
  BY <1>7
<1>9. Rest(sw, both, q, r)
  BY <1>2, <1>6, <1>8 DEF Rest, Carries
<1> QED BY <1>9 DEF sw, both

\* One sequence behind another.
LEMMA ConcatFacts ==
  ASSUME NEW T, NEW u, NEW v, u \in Seq(T), v \in Seq(T)
  PROVE  /\ u \o v \in Seq(T) /\ Len(u \o v) = Len(u) + Len(v)
         /\ \A i \in 1 .. Len(u) : (u \o v)[i] = u[i]
         /\ \A i \in 1 .. Len(v) : (u \o v)[Len(u) + i] = v[i]
OBVIOUS

\* A list of one more value, for a rule given as a sequence.
LEMMA OneMore ==
  ASSUME NEW T, NEW n \in Nat, NEW s, s \in [1 .. n -> T], NEW e \in T,
         NEW u, u \in [1 .. n + 1 -> T], \A i \in 1 .. n : u[i] = s[i], u[n + 1] = e
  PROVE  /\ s \in Seq(T) /\ u \in Seq(T)
         /\ u = s \o <<e>>
<1>1. s \in Seq(T) /\ Len(s) = n
  OBVIOUS
<1>2. u \in Seq(T) /\ Len(u) = n + 1
  OBVIOUS
<1>3. <<e>> \in Seq(T) /\ Len(<<e>>) = 1 /\ <<e>>[1] = e
  OBVIOUS
<1> DEFINE b == <<e>>
           c == s \o b
<1> HIDE DEF b
<1>4. /\ c \in Seq(T) /\ Len(c) = n + 1
      /\ \A i \in 1 .. n : c[i] = s[i]
      /\ c[n + 1] = e
  <2>1. c \in Seq(T) /\ Len(c) = n + 1
    BY <1>1, <1>3 DEF b
  <2>2. \A i \in 1 .. n : c[i] = s[i]
    BY <1>1, <1>3 DEF b
  <2>3. c[n + 1] = b[1]
    BY <1>1, <1>3 DEF b
  <2> QED BY <2>1, <2>2, <2>3, <1>3 DEF b
<1> HIDE DEF c
<1>5. \A i \in 1 .. n + 1 : u[i] = c[i]
  <2>1. \A i \in 1 .. n + 1 : i \in 1 .. n \/ i = n + 1
    OBVIOUS
  <2> QED BY <2>1, <1>4
<1>6. u = c
  BY <1>2, <1>4, <1>5, SeqEqual
<1> QED BY <1>1, <1>2, <1>6 DEF c, b

\* The messages of an answer.
LEMMA AnswerMessages ==
  ASSUME NEW n \in Nat, NEW k \in Nat
  PROVE  Ack(n, k) \in Messages /\ Row(n, k) \in Messages
BY DEF Ack, Row, Messages

\* The lines of the rows.
LEMMA RestRows ==
  ASSUME NEW n \in Nat, NEW k \in Nat
  PROVE  /\ Rows(n, k) \in Seq(Messages)
         /\ Rest(FlattenSeq([i \in 1 .. k |-> Line(Row(n, i))]), Rows(n, k), 0, 0)
<1> DEFINE L(j) == [i \in 1 .. j |-> Line(Row(n, i))]
           S == {j \in Nat : /\ Rows(n, j) \in Seq(Messages)
                             /\ Rest(FlattenSeq(L(j)), Rows(n, j), 0, 0)}
<1>0. \A j \in Nat : /\ L(j) \in [1 .. j -> Seq(Tokens)]
                     /\ Rows(n, j) \in [1 .. j -> Messages]
                     /\ \A i \in 1 .. j : L(j)[i] = Line(Row(n, i))
                                          /\ Rows(n, j)[i] = Row(n, i)
  <2>1. \A i \in Nat : Row(n, i) \in Messages
    BY AnswerMessages
  <2>2. \A i \in Nat : Line(Row(n, i)) \in Seq(Tokens)
    BY <2>1, LineTokens
  <2> QED BY <2>1, <2>2 DEF Rows
<1> HIDE DEF L
<1>1. 0 \in S
  <2>1. Len(L(0)) = 0 /\ L(0) = <<>>
    BY DEF L
  <2>2. FlattenSeq(L(0)) = <<>>
    BY <2>1 DEF FlattenSeq
  <2>3. Rows(n, 0) = <<>>
    BY DEF Rows
  <2>4. Rest(<<>>, <<>>, 0, 0)
    <3>1. <<>> \in Seq(Tokens) /\ Len(<<>>) = 0 /\ 0 .. 0 - 1 = {}
      OBVIOUS
    <3> QED BY <3>1 DEF Rest, Carries
  <2>5. Rows(n, 0) \in Seq(Messages)
    <3>1. <<>> \in Seq(Messages)
      OBVIOUS
    <3> QED BY <3>1, <2>3
  <2>6. Rest(FlattenSeq(L(0)), Rows(n, 0), 0, 0)
    BY <2>2, <2>3, <2>4
  <2> QED BY <2>5, <2>6
<1>2. ASSUME NEW j \in Nat, j \in S
      PROVE  j + 1 \in S
  <2> DEFINE m == Row(n, j + 1)
  <2>1. m \in Messages /\ Line(m) \in Seq(Tokens)
    <3>1. j + 1 \in Nat
      OBVIOUS
    <3>2. m \in Messages
      BY <3>1, AnswerMessages
    <3> HIDE DEF m
    <3> QED BY <3>2, LineTokens
  <2>2. /\ L(j + 1) \in [1 .. j + 1 -> Seq(Tokens)]
        /\ Rows(n, j + 1) \in [1 .. j + 1 -> Messages]
        /\ \A i \in 1 .. j : L(j + 1)[i] = L(j)[i] /\ Rows(n, j + 1)[i] = Rows(n, j)[i]
        /\ L(j + 1)[j + 1] = Line(m) /\ Rows(n, j + 1)[j + 1] = m
    <3>1. j + 1 \in Nat /\ j + 1 \in 1 .. j + 1 /\ \A i \in 1 .. j : i \in 1 .. j + 1
      OBVIOUS
    <3> QED BY <3>1, <1>0
  <2>3. FlattenSeq(L(j + 1)) = FlattenSeq(L(j)) \o Line(m)
    <3>1. L(j) \in [1 .. j -> Seq(Tokens)]
      BY <1>0
    <3> DEFINE s == L(j)
               u == L(j + 1)
    <3>2. s \in [1 .. j -> Seq(Tokens)] /\ u \in [1 .. j + 1 -> Seq(Tokens)]
          /\ \A i \in 1 .. j : u[i] = s[i]
      BY <3>1, <2>2
    <3> HIDE DEF s, u, m
    <3>3. s \in Seq(Seq(Tokens)) /\ u \in Seq(Seq(Tokens))
          /\ Len(s) = j /\ Len(u) = j + 1
      BY <3>2
    <3>4. FlattenSeq(u) = FlattenSeq(s) \o u[Len(u)]
      BY <3>2, <3>3, FlattenStep
    <3> QED BY <3>3, <3>4, <2>2 DEF s, u
  <2>4. Rows(n, j + 1) \in Seq(Messages) /\ Rows(n, j + 1) = Rows(n, j) \o <<m>>
    <3>1. Rows(n, j) \in [1 .. j -> Messages]
      BY <1>0
    <3> HIDE DEF m
    <3> QED BY <3>1, <2>1, <2>2, OneMore
  <2>5. <<m>> \in Seq(Messages) /\ Rest(Line(m), <<m>>, 0, 0)
    BY <2>1, RestLine
  <2>6. Rows(n, j) \in Seq(Messages) /\ Rest(FlattenSeq(L(j)), Rows(n, j), 0, 0)
    BY <1>2
  <2> DEFINE one == <<m>>
             f == FlattenSeq(L(j))
             w == Line(m)
             rj == Rows(n, j)
  <2> HIDE DEF m, one, f, w, rj, S
  <2>7. Rest(f \o w, rj \o one, 0, 0)
    BY <2>5, <2>6, RestMore DEF one, f, w, rj
  <2>8. Rest(FlattenSeq(L(j + 1)), Rows(n, j + 1), 0, 0)
    BY <2>3, <2>4, <2>7 DEF one, f, w, rj
  <2>9. j + 1 \in Nat
    OBVIOUS
  <2> QED BY <2>4, <2>8, <2>9 DEF S
<1> HIDE DEF S
<1>3. Nat \subseteq S
  BY <1>1, <1>2, Induction
<1> QED BY <1>3 DEF S, L

\* An answer carries its header and then its rows.
LEMMA RestReply ==
  ASSUME NEW n \in Nat, NEW k \in Nat
  PROVE  /\ <<Ack(n, k)>> \o Rows(n, k) \in Seq(Messages)
         /\ Rest(Reply(n, k), <<Ack(n, k)>> \o Rows(n, k), 0, 0)
<1> DEFINE one == <<Ack(n, k)>>
           w == Line(Ack(n, k))
           f == FlattenSeq([i \in 1 .. k |-> Line(Row(n, i))])
           rk == Rows(n, k)
<1>1. Ack(n, k) \in Messages
  BY AnswerMessages
<1>2. one \in Seq(Messages) /\ Rest(w, one, 0, 0)
  BY <1>1, RestLine
<1>3. rk \in Seq(Messages) /\ Rest(f, rk, 0, 0)
  BY RestRows
<1>4. Reply(n, k) = w \o f
  BY DEF Reply
<1> HIDE DEF one, w, f, rk
<1>5. one \o rk \in Seq(Messages)
  BY <1>2, <1>3
<1>6. Rest(w \o f, one \o rk, 0, 0)
  BY <1>2, <1>3, RestMore
<1> QED BY <1>4, <1>5, <1>6 DEF one, rk
-----------------------------------------------------------------------------
(* What the two data handlers compute, piece by piece. *)

\* A piece in the handler of globalsd, or in that of client c.
Turn(side, c, st, seg) ==
  IF side = "server" THEN Handled(st, seg, OnRequest(st, seg[1].msg))
  ELSE Handled(st, seg, OnObject(c, st, seg[1].msg))

\* The recursive function of the fold, on the sets of numbers of pieces.
IsFold(f, side, c, st, Q, n) ==
  f = [s \in SUBSET (1 .. n) |->
         IF s = {} THEN st ELSE Turn(side, c, f[s \ {Max(s)}], Q[Max(s)])]

\* It exists.
LEMMA FoldExists ==
  ASSUME NEW side, NEW c, NEW st, NEW Q, NEW n \in Nat
  PROVE  \E f : IsFold(f, side, c, st, Q, n)
<1> DEFINE S == {k \in Nat : \E f : IsFold(f, side, c, st, Q, k)}
<1>1. 0 \in S
  <2> DEFINE f == [s \in SUBSET (1 .. 0) |-> st]
  <2>1. \A s \in SUBSET (1 .. 0) : s = {}
    OBVIOUS
  <2>2. IsFold(f, side, c, st, Q, 0)
    BY <2>1 DEF IsFold
  <2> HIDE DEF f
  <2> QED BY <2>2
<1>2. ASSUME NEW k \in Nat, k \in S
      PROVE  k + 1 \in S
  <2>1. PICK f : IsFold(f, side, c, st, Q, k)
    BY <1>2
  <2> DEFINE D == SUBSET (1 .. k)
             E == SUBSET (1 .. k + 1)
             R(p, s) == Turn(side, c, p, Q[Max(s)])
             g == [s \in E |-> IF s \in D THEN f[s] ELSE R(f[s \ {Max(s)}], s)]
             h == [s \in E |-> IF s = {} THEN st ELSE R(g[s \ {Max(s)}], s)]
  <2>2. \A s \in D : f[s] = IF s = {} THEN st ELSE R(f[s \ {Max(s)}], s)
    BY <2>1 DEF IsFold
  <2> HIDE DEF R
  <2>3. /\ D \subseteq E /\ {} \in D
        /\ \A s \in D : s \ {Max(s)} \in D
    <3>1. 1 .. k \subseteq 1 .. k + 1
      OBVIOUS
    <3>2. D \subseteq E /\ {} \in D
      BY <3>1
    <3>3. ASSUME NEW s \in D PROVE s \ {Max(s)} \in D
      OBVIOUS
    <3> QED BY <3>2, <3>3
  <2>4. ASSUME NEW s \in E, s \notin D
        PROVE  s \ {Max(s)} \in D /\ s # {}
    <3>1. k + 1 \in s /\ \A x \in s : x \in 1 .. k \/ x = k + 1
      BY <2>4
    <3>2. \A y \in s : k + 1 >= y
      BY <3>1
    <3>3. \A x \in s : (\A y \in s : x >= y) => x = k + 1
      BY <3>1
    <3>4. Max(s) = k + 1
      BY <3>1, <3>2, <3>3 DEF Max
    <3> QED BY <3>1, <3>4
  <2> HIDE DEF D, E
  <2>5. ASSUME NEW s \in E
        PROVE  g[s] = h[s]
    <3>1. CASE s \in D
      <4>1. s \ {Max(s)} \in D /\ s \ {Max(s)} \in E
        BY <2>3, <3>1
      <4>2. g[s \ {Max(s)}] = f[s \ {Max(s)}] /\ g[s] = f[s]
        BY <3>1, <4>1
      <4>3. h[s] = IF s = {} THEN st ELSE R(f[s \ {Max(s)}], s)
        BY <4>2
      <4> QED BY <2>2, <3>1, <4>2, <4>3
    <3>2. CASE s \notin D
      <4>1. s \ {Max(s)} \in D /\ s \ {Max(s)} \in E /\ s # {}
        BY <2>3, <2>4, <3>2
      <4>2. g[s \ {Max(s)}] = f[s \ {Max(s)}]
        BY <4>1
      <4>3. h[s] = R(f[s \ {Max(s)}], s)
        BY <4>1, <4>2
      <4>4. g[s] = R(f[s \ {Max(s)}], s)
        BY <3>2
      <4> QED BY <4>3, <4>4
    <3> QED BY <3>1, <3>2
  <2>6. g = h
    <3>1. g = [s \in E |-> g[s]] /\ h = [s \in E |-> h[s]]
      OBVIOUS
    <3> HIDE DEF g, h
    <3> QED BY <2>5, <3>1
  <2>7. IsFold(g, side, c, st, Q, k + 1)
    BY <2>6 DEF IsFold, E, R
  <2> HIDE DEF g
  <2>8. k + 1 \in Nat
    OBVIOUS
  <2> QED BY <2>7, <2>8
<1> HIDE DEF S
<1>3. Nat \subseteq S
  BY <1>1, <1>2, Induction
<1> QED BY <1>3 DEF S

\* after holds the states of a handler between the pieces of a packet.
Handles(after, side, c, st, Q) ==
  /\ after[0] = st
  /\ \A j \in 1 .. Len(Q) : after[j] = Turn(side, c, after[j - 1], Q[j])

\* So do the values of that function for the first pieces.
LEMMA FoldHandles ==
  ASSUME NEW side, NEW c, NEW st, NEW T, NEW Q \in Seq(T),
         NEW f, IsFold(f, side, c, st, Q, Len(Q))
  PROVE  \E after : Handles(after, side, c, st, Q) /\ after[Len(Q)] = f[DOMAIN Q]
<1> DEFINE n == Len(Q)
           after == [j \in 0 .. n |-> f[1 .. j]]
<1>1. n \in Nat /\ DOMAIN Q = 1 .. n
  OBVIOUS
<1>2. \A s \in SUBSET (1 .. n) :
        f[s] = IF s = {} THEN st ELSE Turn(side, c, f[s \ {Max(s)}], Q[Max(s)])
  BY DEF IsFold
<1> HIDE DEF n
<1>3. after[0] = st
  <2>1. 1 .. 0 = {} /\ 0 \in 0 .. n
    BY <1>1
  <2> QED BY <2>1, <1>2
<1>4. ASSUME NEW j \in 1 .. n
      PROVE  after[j] = Turn(side, c, after[j - 1], Q[j])
  <2>1. /\ j \in Nat /\ j # 0 /\ j \in 0 .. n /\ j - 1 \in 0 .. n
        /\ 1 .. j \in SUBSET (1 .. n) /\ 1 .. j # {}
    <3>1. j \in Nat /\ j # 0 /\ j \in 0 .. n /\ j - 1 \in 0 .. n
      BY <1>1
    <3>2. 1 .. j \subseteq 1 .. n
      BY <1>1
    <3>3. 1 \in 1 .. j
      BY <1>1
    <3> QED BY <3>1, <3>2, <3>3
  <2>2. Max(1 .. j) = j /\ (1 .. j) \ {j} = 1 .. j - 1
    BY <2>1, MaxUpTo
  <2>3. f[1 .. j] = Turn(side, c, f[1 .. j - 1], Q[j])
    BY <1>2, <2>1, <2>2
  <2> QED BY <2>1, <2>3
<1>5. after[n] = f[DOMAIN Q]
  BY <1>1
<1> HIDE DEF after
<1>6. Handles(after, side, c, st, Q)
  BY <1>3, <1>4 DEF Handles, n
<1> QED BY <1>5, <1>6 DEF n

\* The data handler of globalsd.
LEMMA ServerHandles ==
  ASSUME NEW st, NEW packet, NEW T, Pieces(st.partial, packet) \in Seq(T)
  PROVE  \E after : /\ Handles(after, "server", 0, st, Pieces(st.partial, packet))
                    /\ ServerReceived(st, packet) = after[Len(Pieces(st.partial, packet))]
<1> DEFINE Q == Pieces(st.partial, packet)
           f == CHOOSE g : IsFold(g, "server", 0, st, Q, Len(Q))
<1>1. DOMAIN Q = 1 .. Len(Q) /\ Len(Q) \in Nat
  OBVIOUS
<1>2. ServerReceived(st, packet) =
        (CHOOSE g : g = [s \in SUBSET DOMAIN Q |->
           IF s = {} THEN st
           ELSE Handled(g[s \ {Max(s)}], Q[Max(s)],
                        OnRequest(g[s \ {Max(s)}], Q[Max(s)][1].msg))])[DOMAIN Q]
  BY DEF ServerReceived, FoldLeft, MapThenFoldSet
<1> HIDE DEF Q
<1>3. f = CHOOSE g : g = [s \in SUBSET (1 .. Len(Q)) |->
           IF s = {} THEN st
           ELSE Handled(g[s \ {Max(s)}], Q[Max(s)],
                        OnRequest(g[s \ {Max(s)}], Q[Max(s)][1].msg))]
  BY DEF IsFold, Turn
<1>4. ServerReceived(st, packet) = f[DOMAIN Q]
  BY <1>1, <1>2, <1>3
<1>5. IsFold(f, "server", 0, st, Q, Len(Q))
  BY <1>1, FoldExists
<1> HIDE DEF f
<1>6. Q \in Seq(T)
  BY DEF Q
<1>7. PICK after : Handles(after, "server", 0, st, Q) /\ after[Len(Q)] = f[DOMAIN Q]
  BY <1>5, <1>6, FoldHandles
<1> QED BY <1>4, <1>7 DEF Q

\* The data handler of a client.
LEMMA ClientHandles ==
  ASSUME NEW c, NEW st, NEW packet, NEW T, Pieces(st.partial, packet) \in Seq(T)
  PROVE  \E after : /\ Handles(after, "client", c, st, Pieces(st.partial, packet))
                    /\ ClientReceived(c, st, packet)
                         = after[Len(Pieces(st.partial, packet))]
<1> DEFINE Q == Pieces(st.partial, packet)
           f == CHOOSE g : IsFold(g, "client", c, st, Q, Len(Q))
<1>1. DOMAIN Q = 1 .. Len(Q) /\ Len(Q) \in Nat
  OBVIOUS
<1>2. ClientReceived(c, st, packet) =
        (CHOOSE g : g = [s \in SUBSET DOMAIN Q |->
           IF s = {} THEN st
           ELSE Handled(g[s \ {Max(s)}], Q[Max(s)],
                        OnObject(c, g[s \ {Max(s)}], Q[Max(s)][1].msg))])[DOMAIN Q]
  BY DEF ClientReceived, FoldLeft, MapThenFoldSet
<1> HIDE DEF Q
<1>3. f = CHOOSE g : g = [s \in SUBSET (1 .. Len(Q)) |->
           IF s = {} THEN st
           ELSE Handled(g[s \ {Max(s)}], Q[Max(s)],
                        OnObject(c, g[s \ {Max(s)}], Q[Max(s)][1].msg))]
  BY DEF IsFold, Turn
<1>4. ClientReceived(c, st, packet) = f[DOMAIN Q]
  BY <1>1, <1>2, <1>3
<1>5. IsFold(f, "client", c, st, Q, Len(Q))
  BY <1>1, FoldExists
<1> HIDE DEF f
<1>6. Q \in Seq(T)
  BY DEF Q
<1>7. PICK after : Handles(after, "client", c, st, Q) /\ after[Len(Q)] = f[DOMAIN Q]
  BY <1>5, <1>6, FoldHandles
<1> QED BY <1>4, <1>7 DEF Q
-----------------------------------------------------------------------------
(* What Split computes. *)

\* The pieces p once token t has come.
Taken(p, t) ==
  IF t = EndOfMessage THEN Append(p, <<>>)
  ELSE [p EXCEPT ![Len(p)] = Append(@, t)]

\* The recursive function in it.
IsSplit(f, packet, n) ==
  f = [i \in 0 .. n |-> IF i = 0 THEN <<<<>>>> ELSE Taken(f[i - 1], packet[i])]

\* It exists.
LEMMA SplitExists ==
  ASSUME NEW packet, NEW n \in Nat
  PROVE  \E f : IsSplit(f, packet, n)
<1> DEFINE S == {k \in Nat : \E f : IsSplit(f, packet, k)}
<1>1. 0 \in S
  <2> DEFINE f == [i \in 0 .. 0 |-> <<<<>>>>]
  <2>1. \A i \in 0 .. 0 : i = 0
    OBVIOUS
  <2>2. IsSplit(f, packet, 0)
    BY <2>1 DEF IsSplit
  <2> HIDE DEF f
  <2> QED BY <2>2
<1>2. ASSUME NEW k \in Nat, k \in S
      PROVE  k + 1 \in S
  <2>1. PICK f : IsSplit(f, packet, k)
    BY <1>2
  <2> DEFINE D == 0 .. k
             E == 0 .. k + 1
             g == [i \in E |-> IF i \in D THEN f[i] ELSE Taken(f[i - 1], packet[i])]
             h == [i \in E |-> IF i = 0 THEN <<<<>>>> ELSE Taken(g[i - 1], packet[i])]
  <2>2. \A i \in D : f[i] = IF i = 0 THEN <<<<>>>> ELSE Taken(f[i - 1], packet[i])
    BY <2>1 DEF IsSplit
  <2>3. \A i \in E : i # 0 => i - 1 \in D /\ i - 1 \in E
    OBVIOUS
  <2>4. D \subseteq E /\ 0 \in D
    OBVIOUS
  <2> HIDE DEF D, E
  <2>5. ASSUME NEW i \in E
        PROVE  g[i] = h[i]
    <3>1. CASE i = 0
      BY <2>2, <2>4, <3>1
    <3>2. CASE i # 0
      <4>1. i - 1 \in D /\ i - 1 \in E
        BY <2>3, <3>2
      <4>2. g[i - 1] = f[i - 1]
        BY <4>1
      <4>3. h[i] = Taken(f[i - 1], packet[i])
        BY <3>2, <4>2
      <4>4. g[i] = Taken(f[i - 1], packet[i])
        BY <2>2, <3>2
      <4> QED BY <4>3, <4>4
    <3> QED BY <3>1, <3>2
  <2>6. g = h
    <3>1. g = [i \in E |-> g[i]] /\ h = [i \in E |-> h[i]]
      OBVIOUS
    <3> HIDE DEF g, h
    <3> QED BY <2>5, <3>1
  <2>7. IsSplit(g, packet, k + 1)
    BY <2>6 DEF IsSplit, E
  <2> HIDE DEF g
  <2>8. k + 1 \in Nat
    OBVIOUS
  <2> QED BY <2>7, <2>8
<1> HIDE DEF S
<1>3. Nat \subseteq S
  BY <1>1, <1>2, Induction
<1> QED BY <1>3 DEF S

\* Splits[n]: the pieces of the first n tokens.
Splits(P, packet) ==
  /\ P[0] = <<<<>>>>
  /\ \A i \in 1 .. Len(packet) : P[i] = Taken(P[i - 1], packet[i])
  /\ Split(packet) = P[Len(packet)]

\* Split by its recursive function.
LEMMA SplitIs ==
  ASSUME NEW T, NEW packet \in Seq(T)
  PROVE  \E P : Splits(P, packet)
<1> DEFINE n == Len(packet)
           f == CHOOSE g : IsSplit(g, packet, n)
<1>1. n \in Nat
  OBVIOUS
<1>2. Split(packet) = f[n]
  BY DEF Split, IsSplit, Taken
<1>3. IsSplit(f, packet, n)
  BY <1>1, SplitExists
<1> HIDE DEF f, n
<1>4. \A i \in 0 .. n : f[i] = IF i = 0 THEN <<<<>>>> ELSE Taken(f[i - 1], packet[i])
  BY <1>3 DEF IsSplit
<1>5. f[0] = <<<<>>>>
  BY <1>1, <1>4
<1>6. \A i \in 1 .. n : f[i] = Taken(f[i - 1], packet[i])
  <2>1. \A i \in 1 .. n : i \in 0 .. n /\ i # 0
    BY <1>1
  <2> QED BY <2>1, <1>4
<1>7. Splits(f, packet)
  BY <1>2, <1>5, <1>6 DEF Splits, n
<1> QED BY <1>7
-----------------------------------------------------------------------------
(* The pieces of a packet that carries lines. *)

\* The first r tokens of the text of a message.
Cut(m, r) ==
  IF r = 0 THEN <<>> ELSE IF r = 1 THEN <<[msg |-> m, part |-> 1]>> ELSE Text(m)

\* The cut object after q lines and r tokens, and the objects handled.
Begun(ms, q, r) == IF r = 1 THEN Cut(ms[q + 1], 1) ELSE <<>>
Done(q, r) == IF r = 2 THEN q + 1 ELSE q

\* The k-th piece of what follows q0 lines and r0 tokens, up to q lines and r
\* tokens: a text that was handled before its line ended leaves nothing.
Piece(ms, q0, r0, q, r, k) ==
  IF k = 1 /\ r0 = 2 THEN <<>>
  ELSE IF q0 + k = q + 1 THEN Cut(ms[q0 + k], r)
  ELSE Text(ms[q0 + k])

PiecesAt(p, ms, q0, r0, q, r) ==
  /\ p \in Seq(Seq(Tokens))
  /\ Len(p) + q0 = q + 1
  /\ Begun(ms, q0, r0) \o p[1] = Piece(ms, q0, r0, q, r, 1)
  /\ \A k \in 2 .. Len(p) : p[k] = Piece(ms, q0, r0, q, r, k)

\* One more token of a text.
LEMMA CutTypes ==
  ASSUME NEW m \in Messages
  PROVE  /\ \A r \in 0 .. 2 : Cut(m, r) \in Seq(Tokens)
         /\ \A r \in 0 .. 1 : /\ Line(m)[r + 1] \in Tokens
                              /\ Line(m)[r + 1] # EndOfMessage
                              /\ Append(Cut(m, r), Line(m)[r + 1]) = Cut(m, r + 1)
<1> DEFINE a == [msg |-> m, part |-> 1]
           b == [msg |-> m, part |-> 2]
<1>1. /\ Line(m)[1] = a /\ Line(m)[2] = b
  BY LineTokens
<1>2. a \in Tokens /\ b \in Tokens
  BY DEF Tokens
<1>3. a # EndOfMessage /\ b # EndOfMessage
  <2>1. a.part = 1 /\ b.part = 2 /\ EndOfMessage.part = 0
    BY DEF EndOfMessage
  <2> QED BY <2>1
<1>4. Cut(m, 0) = <<>> /\ Cut(m, 1) = <<a>> /\ Cut(m, 2) = <<a, b>>
  BY DEF Cut, Text
<1> HIDE DEF a, b
<1>5. <<>> \in Seq(Tokens) /\ <<a>> \in Seq(Tokens) /\ <<a, b>> \in Seq(Tokens)
  BY <1>2
<1>6. Append(<<>>, a) = <<a>>
  OBVIOUS
<1>7. Append(<<a>>, b) = <<a, b>>
  BY <1>2, AppendPair
<1>8. \A r \in 0 .. 2 : Cut(m, r) \in Seq(Tokens)
  <2>1. \A r \in 0 .. 2 : r = 0 \/ r = 1 \/ r = 2
    OBVIOUS
  <2> QED BY <2>1, <1>4, <1>5
<1>9. ASSUME NEW r \in 0 .. 1
      PROVE  /\ Line(m)[r + 1] \in Tokens
             /\ Line(m)[r + 1] # EndOfMessage
             /\ Append(Cut(m, r), Line(m)[r + 1]) = Cut(m, r + 1)
  <2>1. CASE r = 0
    <3>1. r + 1 = 1
      BY <2>1
    <3> QED BY <2>1, <3>1, <1>1, <1>2, <1>3, <1>4, <1>6
  <2>2. CASE r = 1
    <3>1. r + 1 = 2
      BY <2>2
    <3> QED BY <2>2, <3>1, <1>1, <1>2, <1>3, <1>4, <1>7
  <2> QED BY <2>1, <2>2
<1> QED BY <1>8, <1>9

\* A token at the end of what is put behind something.
LEMMA AppendBehind ==
  ASSUME NEW T, NEW s, NEW u, NEW e, s \in Seq(T), u \in Seq(T), e \in T
  PROVE  s \o Append(u, e) = Append(s \o u, e)
<1>1. <<e>> \in Seq(T)
  OBVIOUS
<1>2. Append(u, e) = u \o <<e>>
  BY AppendIsConcat
<1>3. s \o u \in Seq(T)
  OBVIOUS
<1>4. Append(s \o u, e) = (s \o u) \o <<e>>
  BY <1>3, AppendIsConcat
<1>5. s \o (u \o <<e>>) = (s \o u) \o <<e>>
  BY <1>1, ConcatAssociative
<1> QED BY <1>2, <1>4, <1>5

\* The end of a line begins a piece.
LEMMA PiecesLineEnds ==
  ASSUME NEW ms, NEW q0 \in Nat, NEW r0 \in 0 .. 2, NEW q \in Nat, q0 <= q,
         NEW p, PiecesAt(p, ms, q0, r0, q, 2)
  PROVE  PiecesAt(Taken(p, EndOfMessage), ms, q0, r0, q + 1, 0)
<1> DEFINE u == Append(p, <<>>)
           n == Len(p)
<1>1. Taken(p, EndOfMessage) = u
  BY DEF Taken
<1>2. p \in Seq(Seq(Tokens)) /\ <<>> \in Seq(Tokens)
  BY DEF PiecesAt
<1>3. n \in Nat /\ n + q0 = q + 1 /\ n >= 1
  BY <1>2 DEF PiecesAt
<1>4. /\ u \in Seq(Seq(Tokens)) /\ Len(u) = n + 1
      /\ \A k \in 1 .. n : u[k] = p[k]
      /\ u[n + 1] = <<>>
  BY <1>2, AppendFacts
<1> HIDE DEF u, n
<1>5. \A k \in 1 .. n : Piece(ms, q0, r0, q + 1, 0, k) = Piece(ms, q0, r0, q, 2, k)
  BY <1>3 DEF Piece, Cut
<1>6. Piece(ms, q0, r0, q + 1, 0, n + 1) = <<>>
  BY <1>3 DEF Piece, Cut
<1>7. Len(u) + q0 = (q + 1) + 1
  BY <1>3, <1>4
<1>8. Begun(ms, q0, r0) \o u[1] = Piece(ms, q0, r0, q + 1, 0, 1)
  <2>1. 1 \in 1 .. n
    BY <1>3
  <2> QED BY <2>1, <1>4, <1>5 DEF PiecesAt
<1>9. ASSUME NEW k \in 2 .. Len(u)
      PROVE  u[k] = Piece(ms, q0, r0, q + 1, 0, k)
  <2>1. CASE k = n + 1
    BY <2>1, <1>4, <1>6
  <2>2. CASE k # n + 1
    <3>1. k \in 2 .. n /\ k \in 1 .. n
      BY <2>2, <1>3, <1>4
    <3>2. p[k] = Piece(ms, q0, r0, q, 2, k)
      BY <3>1 DEF PiecesAt, n
    <3> QED BY <3>1, <3>2, <1>4, <1>5
  <2> QED BY <2>1, <2>2
<1> QED BY <1>1, <1>4, <1>7, <1>8, <1>9 DEF PiecesAt

\* Another token goes to the last piece.
LEMMA PiecesGrow ==
  ASSUME NEW ms, NEW q0 \in Nat, NEW r0 \in 0 .. 2, NEW q \in Nat, NEW r \in 0 .. 1,
         q0 <= q, q0 = q => r0 <= r, ms[q + 1] \in Messages,
         NEW p, PiecesAt(p, ms, q0, r0, q, r)
  PROVE  PiecesAt(Taken(p, Line(ms[q + 1])[r + 1]), ms, q0, r0, q, r + 1)
<1> DEFINE m == ms[q + 1]
           t == Line(m)[r + 1]
           n == Len(p)
           u == [p EXCEPT ![n] = Append(p[n], t)]
<1>1. t \in Tokens /\ t # EndOfMessage /\ Append(Cut(m, r), t) = Cut(m, r + 1)
  BY CutTypes
<1>2. Taken(p, t) = u
  BY <1>1 DEF Taken
<1>3. /\ p \in Seq(Seq(Tokens)) /\ n \in Nat /\ n + q0 = q + 1 /\ n >= 1 /\ n \in 1 .. n
      /\ p[n] \in Seq(Tokens)
  <2>1. p \in Seq(Seq(Tokens)) /\ n \in Nat /\ n + q0 = q + 1
    BY DEF PiecesAt
  <2>2. n >= 1
    BY <2>1
  <2> QED BY <2>1, <2>2
<1> HIDE DEF t, m
<1>4. Append(p[n], t) \in Seq(Tokens)
  BY <1>1, <1>3
<1>5. /\ u \in Seq(Seq(Tokens)) /\ Len(u) = n
      /\ \A k \in 1 .. n : u[k] = IF k = n THEN Append(p[n], t) ELSE p[k]
  BY <1>3, <1>4
<1> HIDE DEF u, n
<1>6. \A k \in 1 .. n : k # n => Piece(ms, q0, r0, q, r + 1, k) = Piece(ms, q0, r0, q, r, k)
  BY <1>3 DEF Piece
<1>7. n # 1 \/ r0 # 2 => /\ Piece(ms, q0, r0, q, r, n) = Cut(m, r)
                         /\ Piece(ms, q0, r0, q, r + 1, n) = Cut(m, r + 1)
  <2>1. q0 + n = q + 1 /\ (n = 1 /\ r0 = 2 <=> ~(n # 1 \/ r0 # 2))
    BY <1>3
  <2> QED BY <2>1 DEF Piece, m
<1>8. n = 1 => r0 # 2
  BY <1>3
<1>9. Begun(ms, q0, r0) \o u[1] = Piece(ms, q0, r0, q, r + 1, 1)
  <2>1. CASE n = 1
    <3>1. q0 = q /\ (r0 = 0 \/ r0 = 1)
      BY <2>1, <1>3, <1>8
    <3>2. Begun(ms, q0, r0) \in Seq(Tokens)
      <4>1. CASE r0 = 1
        BY <4>1, <3>1, CutTypes DEF Begun
      <4>2. CASE r0 # 1
        BY <4>2 DEF Begun
      <4> QED BY <4>1, <4>2
    <3>3. u[1] = Append(p[1], t)
      BY <2>1, <1>5
    <3>4. Begun(ms, q0, r0) \o p[1] = Cut(m, r)
      BY <2>1, <1>7, <1>8 DEF PiecesAt
    <3>5. p[1] \in Seq(Tokens)
      BY <2>1, <1>3
    <3>6. Begun(ms, q0, r0) \o Append(p[1], t) = Append(Begun(ms, q0, r0) \o p[1], t)
      <4> DEFINE a == Begun(ms, q0, r0)
                 b == p[1]
      <4>1. a \in Seq(Tokens) /\ b \in Seq(Tokens) /\ t \in Tokens
        BY <3>2, <3>5, <1>1
      <4> HIDE DEF a, b
      <4>2. a \o Append(b, t) = Append(a \o b, t)
        BY <4>1, AppendBehind
      <4> QED BY <4>2 DEF a, b
    <3> QED BY <2>1, <3>3, <3>4, <3>6, <1>1, <1>7, <1>8
  <2>2. CASE n # 1
    <3>1. 1 \in 1 .. n /\ u[1] = p[1]
      BY <2>2, <1>3, <1>5
    <3>2. Piece(ms, q0, r0, q, r + 1, 1) = Piece(ms, q0, r0, q, r, 1)
      BY <2>2, <3>1, <1>6
    <3> QED BY <3>1, <3>2 DEF PiecesAt
  <2> QED BY <2>1, <2>2
<1>10. ASSUME NEW k \in 2 .. Len(u)
       PROVE  u[k] = Piece(ms, q0, r0, q, r + 1, k)
  <2>1. k \in 1 .. n /\ k \in 2 .. n
    BY <1>3, <1>5
  <2>2. p[k] = Piece(ms, q0, r0, q, r, k)
    BY <2>1 DEF PiecesAt, n
  <2>3. CASE k = n
    <3>1. u[k] = Append(Cut(m, r), t)
      <4>1. n # 1
        BY <2>1, <2>3
      <4>2. p[n] = Cut(m, r)
        BY <2>2, <2>3, <4>1, <1>7
      <4> QED BY <2>1, <2>3, <4>2, <1>5
    <3>2. n # 1
      BY <2>1, <2>3
    <3> QED BY <2>3, <3>1, <3>2, <1>1, <1>7
  <2>4. CASE k # n
    BY <2>1, <2>2, <2>4, <1>5, <1>6
  <2> QED BY <2>3, <2>4
<1>11. Len(u) + q0 = q + 1
  BY <1>3, <1>5
<1>12. PiecesAt(u, ms, q0, r0, q, r + 1)
  BY <1>5, <1>9, <1>10, <1>11 DEF PiecesAt
<1> QED BY <1>2, <1>12 DEF t, m

\* How each piece of a packet is dealt with: H objects have been handled, and
\* T is the cut object, after each piece.
Turns(H, T, Q, ms) ==
  \A k \in 1 .. Len(Q) :
    /\ H[k - 1] \in Nat
    /\ \/ Q[k] = <<>> /\ H[k] = H[k - 1] /\ T[k] = T[k - 1]
       \/ /\ Q[k] = Text(ms[H[k - 1] + 1]) /\ H[k - 1] + 1 \in 1 .. Len(ms)
          /\ H[k] = H[k - 1] + 1 /\ T[k] = <<>>
       \/ /\ Q[k] = Cut(ms[H[k - 1] + 1], 1) /\ H[k - 1] + 1 \in 1 .. Len(ms)
          /\ H[k] = H[k - 1] /\ T[k] = Q[k]

\* Where a packet that carries lines begins and ends.
Stretch(packet, ms, q0, r0, q, r) ==
  /\ Carries(packet, ms, q0, r0)
  /\ q0 \in Nat /\ r0 \in 0 .. 2 /\ q \in Nat /\ r \in 0 .. 2
  /\ 3 * q + r = 3 * q0 + r0 + Len(packet)

\* A number of tokens is a number of lines and what is left.
LEMMA Thirds ==
  ASSUME NEW n \in Nat
  PROVE  \E q \in Nat, r \in 0 .. 2 : n = 3 * q + r
<1> DEFINE S == {k \in Nat : \E q \in Nat, r \in 0 .. 2 : k = 3 * q + r}
<1>1. 0 \in S
  <2>1. 0 = 3 * 0 + 0
    OBVIOUS
  <2> QED BY <2>1
<1>2. ASSUME NEW k \in Nat, k \in S
      PROVE  k + 1 \in S
  <2>1. PICK q \in Nat, r \in 0 .. 2 : k = 3 * q + r
    BY <1>2
  <2>2. CASE r = 2
    <3> DEFINE t == q + 1
               n1 == k + 1
    <3>1. n1 = 3 * t + 0 /\ t \in Nat /\ 0 \in 0 .. 2
      BY <2>1, <2>2
    <3> HIDE DEF t, n1
    <3>2. \E x \in Nat, y \in 0 .. 2 : n1 = 3 * x + y
      BY <3>1
    <3> QED BY <3>2 DEF n1
  <2>3. CASE r # 2
    <3> DEFINE t == r + 1
               n1 == k + 1
    <3>1. n1 = 3 * q + t /\ t \in 0 .. 2
      BY <2>1, <2>3
    <3> HIDE DEF t, n1
    <3>2. \E x \in Nat, y \in 0 .. 2 : n1 = 3 * x + y
      BY <3>1
    <3> QED BY <3>2 DEF n1
  <2> QED BY <2>2, <2>3
<1> HIDE DEF S
<1>3. Nat \subseteq S
  BY <1>1, <1>2, Induction
<1> QED BY <1>3 DEF S

\* In one way.
LEMMA ThirdsUnique ==
  ASSUME NEW q \in Nat, NEW r \in 0 .. 2, NEW q1 \in Nat, NEW r1 \in 0 .. 2,
         3 * q + r = 3 * q1 + r1
  PROVE  q = q1 /\ r = r1
OBVIOUS

\* The pieces of the first i tokens.
LEMMA SplitPieces ==
  ASSUME NEW ms \in Seq(Messages), NEW packet, NEW q0 \in Nat, NEW r0 \in 0 .. 2,
         Carries(packet, ms, q0, r0), NEW P, Splits(P, packet),
         NEW j \in 0 .. Len(packet)
  PROVE  \E q \in Nat, r \in 0 .. 2 : /\ 3 * q + r = 3 * q0 + r0 + j
                                      /\ PiecesAt(P[j], ms, q0, r0, q, r)
<1> DEFINE n == Len(packet)
           Good(i) == \E q \in Nat, r \in 0 .. 2 :
                        /\ 3 * q + r = 3 * q0 + r0 + i
                        /\ PiecesAt(P[i], ms, q0, r0, q, r)
           S == {i \in Nat : i <= n => Good(i)}
<1>0. packet \in Seq(Tokens) /\ n \in Nat /\ Len(ms) \in Nat
  BY DEF Carries
<1>1. 0 \in S
  <2>1. P[0] = <<<<>>>>
    BY DEF Splits
  <2>2. CASE r0 = 1 => q0 + 1 \in 1 .. Len(ms)
    <3>1. PiecesAt(P[0], ms, q0, r0, q0, r0)
      <4>1. <<>> \in Seq(Tokens)
        OBVIOUS
      <4>2. /\ <<<<>>>> \in Seq(Seq(Tokens)) /\ Len(<<<<>>>>) = 1
            /\ <<<<>>>>[1] = <<>>
        BY <4>1
      <4>3. Begun(ms, q0, r0) \in Seq(Tokens)
        <5>1. CASE r0 = 1
          <6>1. ms[q0 + 1] \in Messages
            BY <2>2, <5>1
          <6> QED BY <5>1, <6>1, CutTypes DEF Begun
        <5>2. CASE r0 # 1
          BY <4>1, <5>2 DEF Begun
        <5> QED BY <5>1, <5>2
      <4>4. Begun(ms, q0, r0) \o <<>> = Begun(ms, q0, r0)
        BY <4>3, ConcatEmptySeq
      <4>5. Begun(ms, q0, r0) = Piece(ms, q0, r0, q0, r0, 1)
        <5>1. r0 = 0 \/ r0 = 1 \/ r0 = 2
          OBVIOUS
        <5> QED BY <5>1 DEF Begun, Piece, Cut
      <4>6. \A k \in 2 .. 1 : FALSE
        OBVIOUS
      <4> QED BY <2>1, <4>2, <4>4, <4>5, <4>6 DEF PiecesAt
    <3>2. 3 * q0 + r0 = 3 * q0 + r0 + 0
      OBVIOUS
    <3> QED BY <3>1, <3>2
  <2>3. r0 = 1 => q0 + 1 \in 1 .. Len(ms)
    <3>1. 3 * q0 + r0 + Len(packet) <= 3 * Len(ms)
      BY DEF Carries
    <3> QED BY <3>1, <1>0
  <2> QED BY <2>2, <2>3
<1>2. ASSUME NEW i \in Nat, i \in S
      PROVE  i + 1 \in S
  <2>1. SUFFICES ASSUME i + 1 <= n PROVE Good(i + 1)
    OBVIOUS
  <2>2. PICK q \in Nat, r \in 0 .. 2 : /\ 3 * q + r = 3 * q0 + r0 + i
                                       /\ PiecesAt(P[i], ms, q0, r0, q, r)
    BY <1>0, <1>2, <2>1
  <2>3. i + 1 \in 1 .. n /\ P[i + 1] = Taken(P[i], packet[i + 1])
    <3>1. i + 1 \in 1 .. n /\ (i + 1) - 1 = i
      BY <1>0, <2>1
    <3> QED BY <3>1 DEF Splits
  <2>4. /\ q \in 0 .. Len(ms) - 1 /\ q + 1 \in 1 .. Len(ms) /\ r + 1 \in 1 .. 3
        /\ 3 * q + (r + 1) - (3 * q0 + r0) = i + 1
        /\ q0 <= q /\ (q0 = q => r0 <= r)
    <3>1. 3 * q0 + r0 + n <= 3 * Len(ms)
      BY DEF Carries
    <3> QED BY <3>1, <1>0, <2>1, <2>2
  <2>5. packet[i + 1] = Line(ms[q + 1])[r + 1]
    <3> DEFINE t == i + 1
               y == r + 1
    <3>1. t = 3 * q + y - (3 * q0 + r0) /\ t \in 1 .. Len(packet) /\ y \in 1 .. 3
      BY <2>3, <2>4
    <3> HIDE DEF t, y
    <3>2. q \in 0 .. Len(ms) - 1
      BY <2>4
    <3>3. 3 * q + y - (3 * q0 + r0) \in 1 .. Len(packet) =>
            packet[3 * q + y - (3 * q0 + r0)] = Line(ms[q + 1])[y]
      BY <3>1, <3>2 DEF Carries
    <3>4. packet[t] = Line(ms[q + 1])[y]
      BY <3>1, <3>3
    <3> QED BY <3>4 DEF t, y
  <2>6. ms[q + 1] \in Messages
    BY <2>4
  <2>7. CASE r = 2
    <3>1. packet[i + 1] = EndOfMessage
      <4>1. r + 1 = 3
        BY <2>7
      <4> QED BY <2>5, <2>6, <4>1, LineTokens
    <3>2. PiecesAt(P[i], ms, q0, r0, q, 2)
      BY <2>2, <2>7
    <3>3. PiecesAt(Taken(P[i], EndOfMessage), ms, q0, r0, q + 1, 0)
      BY <2>4, <3>2, PiecesLineEnds
    <3>4. q + 1 \in Nat /\ 3 * (q + 1) + 0 = 3 * q0 + r0 + (i + 1)
      BY <2>2, <2>7
    <3>5. PiecesAt(P[i + 1], ms, q0, r0, q + 1, 0)
      BY <2>3, <3>1, <3>3
    <3> QED BY <3>4, <3>5
  <2>8. CASE r # 2
    <3>1. r \in 0 .. 1 /\ r + 1 \in 0 .. 2
      BY <2>8
    <3>2. PiecesAt(Taken(P[i], Line(ms[q + 1])[r + 1]), ms, q0, r0, q, r + 1)
      BY <2>2, <2>4, <2>6, <3>1, PiecesGrow
    <3>3. 3 * q + (r + 1) = 3 * q0 + r0 + (i + 1)
      BY <2>2
    <3>4. PiecesAt(P[i + 1], ms, q0, r0, q, r + 1)
      BY <2>3, <2>5, <3>2
    <3> QED BY <3>1, <3>3, <3>4
  <2> QED BY <2>7, <2>8
<1> HIDE DEF S
<1>3. Nat \subseteq S
  BY <1>1, <1>2, Induction
<1> QED BY <1>0, <1>3 DEF S

\* The pieces Q of such a packet, and what comes of them.
CutInto(Q, ms, q0, r0, q1, r1) ==
  /\ Q \in Seq(Seq(Tokens)) /\ Len(Q) \in Nat /\ Len(Q) + q0 = q1 + 1
  /\ \A k \in 1 .. Len(Q) : Q[k] = Piece(ms, q0, r0, q1, r1, k)

Handed(H, T, Q, ms, q0, r0, q1, r1) ==
  /\ Turns(H, T, Q, ms)
  /\ H[0] = Done(q0, r0) /\ H[Len(Q)] = Done(q1, r1)
  /\ T[0] = Begun(ms, q0, r0) /\ T[Len(Q)] = Begun(ms, q1, r1)

\* The pieces of a packet, the first with the cut object in front of it.
LEMMA PacketPieces ==
  ASSUME NEW ms \in Seq(Messages), NEW packet, NEW q0, NEW r0, NEW q1, NEW r1,
         Stretch(packet, ms, q0, r0, q1, r1)
  PROVE  CutInto(Pieces(Begun(ms, q0, r0), packet), ms, q0, r0, q1, r1)
<1>1. /\ Carries(packet, ms, q0, r0) /\ packet \in Seq(Tokens)
      /\ q0 \in Nat /\ r0 \in 0 .. 2 /\ q1 \in Nat /\ r1 \in 0 .. 2
      /\ 3 * q1 + r1 = 3 * q0 + r0 + Len(packet)
  BY DEF Stretch, Carries
<1>2. PICK P : Splits(P, packet)
  BY <1>1, SplitIs
<1>3. Len(packet) \in 0 .. Len(packet) /\ Split(packet) = P[Len(packet)]
  BY <1>1, <1>2 DEF Splits
<1>4. PICK q \in Nat, r \in 0 .. 2 :
        /\ 3 * q + r = 3 * q0 + r0 + Len(packet)
        /\ PiecesAt(P[Len(packet)], ms, q0, r0, q, r)
  BY <1>1, <1>2, <1>3, SplitPieces
<1>5. q = q1 /\ r = r1
  BY <1>1, <1>4, ThirdsUnique
<1> DEFINE p == Split(packet)
           b == Begun(ms, q0, r0)
           Q == Pieces(b, packet)
           n == Len(p)
<1>6. PiecesAt(p, ms, q0, r0, q1, r1)
  BY <1>3, <1>4, <1>5
<1>7. Q = [p EXCEPT ![1] = b \o p[1]]
  BY DEF Pieces
<1> HIDE DEF p, b, Q
<1>8. /\ p \in Seq(Seq(Tokens)) /\ n \in Nat /\ n + q0 = q1 + 1
      /\ b \o p[1] = Piece(ms, q0, r0, q1, r1, 1)
      /\ \A k \in 2 .. n : p[k] = Piece(ms, q0, r0, q1, r1, k)
  BY <1>6 DEF PiecesAt, b
<1>9. n >= 1 /\ 1 \in 1 .. n /\ \A k \in 1 .. n : k # 1 => k \in 2 .. n
  <2>1. q0 <= q1
    BY <1>1
  <2> QED BY <2>1, <1>1, <1>8
<1>10. b \in Seq(Tokens)
  <2>1. <<>> \in Seq(Tokens)
    OBVIOUS
  <2>2. CASE r0 = 1
    <3>1. 3 * q0 + r0 <= 3 * Len(ms)
      <4>1. 3 * q0 + r0 + Len(packet) <= 3 * Len(ms) /\ Len(packet) \in Nat
        BY <1>1 DEF Carries
      <4> QED BY <4>1, <1>1
    <3>2. q0 + 1 \in 1 .. Len(ms)
      BY <2>2, <3>1, <1>1
    <3>3. ms[q0 + 1] \in Messages
      BY <3>2
    <3> QED BY <2>2, <3>3, CutTypes DEF b, Begun
  <2>3. CASE r0 # 1
    BY <2>1, <2>3 DEF b, Begun
  <2> QED BY <2>2, <2>3
<1>11. b \o p[1] \in Seq(Tokens)
  <2>1. p[1] \in Seq(Tokens)
    BY <1>8, <1>9
  <2> QED BY <2>1, <1>10
<1>12. /\ Q \in Seq(Seq(Tokens)) /\ Len(Q) = n
       /\ \A k \in 1 .. n : Q[k] = IF k = 1 THEN b \o p[1] ELSE p[k]
  <2> DEFINE e == b \o p[1]
  <2> HIDE DEF e, n
  <2>1. Q = [p EXCEPT ![1] = e] /\ e \in Seq(Tokens)
    BY <1>7, <1>11 DEF e
  <2>2. p \in Seq(Seq(Tokens)) /\ n = Len(p) /\ 1 \in 1 .. n
    BY <1>8, <1>9 DEF n
  <2>3. Q \in Seq(Seq(Tokens)) /\ Len(Q) = n
    BY <2>1, <2>2
  <2>4. \A k \in 1 .. n : Q[k] = IF k = 1 THEN e ELSE p[k]
    BY <2>1, <2>2
  <2> QED BY <2>3, <2>4 DEF e
<1>13. \A k \in 1 .. n : Q[k] = Piece(ms, q0, r0, q1, r1, k)
  BY <1>8, <1>9, <1>12
<1>14. Len(Q) \in Nat /\ Len(Q) + q0 = q1 + 1
  BY <1>8, <1>12
<1> HIDE DEF Q
<1>15. CutInto(Q, ms, q0, r0, q1, r1)
  BY <1>12, <1>13, <1>14 DEF CutInto
<1> QED BY <1>15 DEF Q, b

\* What comes of them.
LEMMA PacketTurns ==
  ASSUME NEW ms \in Seq(Messages), NEW packet, NEW q0, NEW r0, NEW q1, NEW r1,
         Stretch(packet, ms, q0, r0, q1, r1),
         NEW Q, CutInto(Q, ms, q0, r0, q1, r1)
  PROVE  \E H, T : Handed(H, T, Q, ms, q0, r0, q1, r1)
<1> DEFINE n == Len(Q)
           L == Len(ms)
           H == [k \in 0 .. n |-> IF k = 0 THEN Done(q0, r0)
                                  ELSE IF k = n THEN Done(q1, r1) ELSE q0 + k]
           T == [k \in 0 .. n |-> IF k = 0 THEN Begun(ms, q0, r0)
                                  ELSE IF k = n THEN Begun(ms, q1, r1) ELSE <<>>]
<1>1. /\ q0 \in Nat /\ r0 \in 0 .. 2 /\ q1 \in Nat /\ r1 \in 0 .. 2 /\ L \in Nat
      /\ 3 * q0 + r0 <= 3 * q1 + r1 /\ 3 * q1 + r1 <= 3 * L
  <2>1. /\ q0 \in Nat /\ r0 \in 0 .. 2 /\ q1 \in Nat /\ r1 \in 0 .. 2 /\ L \in Nat
        /\ 3 * q1 + r1 = 3 * q0 + r0 + Len(packet) /\ Len(packet) \in Nat
        /\ 3 * q0 + r0 + Len(packet) <= 3 * L
    BY DEF Stretch, Carries
  <2> QED BY <2>1
<1>2. n \in Nat /\ n + q0 = q1 + 1 /\ n >= 1
  <2>1. n + q0 = q1 + 1
    BY DEF CutInto
  <2>2. n \in Nat
    BY DEF CutInto
  <2>3. q0 <= q1
    BY <1>1
  <2> QED BY <2>1, <2>2, <2>3, <1>1
<1>3. \A k \in 1 .. n : Q[k] = Piece(ms, q0, r0, q1, r1, k)
  BY DEF CutInto
<1> HIDE DEF n, L
<1>4. /\ H[0] = Done(q0, r0) /\ H[n] = Done(q1, r1)
      /\ T[0] = Begun(ms, q0, r0) /\ T[n] = Begun(ms, q1, r1)
      /\ \A k \in 1 .. n - 1 : H[k] = q0 + k /\ T[k] = <<>>
  <2>1. 0 \in 0 .. n /\ n \in 0 .. n /\ n # 0
        /\ \A k \in 1 .. n - 1 : k \in 0 .. n /\ k # 0 /\ k # n
    BY <1>2
  <2> QED BY <2>1
<1> HIDE DEF H, T
<1>5. r0 \in {0, 1, 2} /\ r1 \in {0, 1, 2}
  BY <1>1
<1>6. ASSUME NEW k \in 1 .. n
      PROVE  /\ H[k - 1] \in Nat
             /\ \/ Q[k] = <<>> /\ H[k] = H[k - 1] /\ T[k] = T[k - 1]
                \/ /\ Q[k] = Text(ms[H[k - 1] + 1]) /\ H[k - 1] + 1 \in 1 .. L
                   /\ H[k] = H[k - 1] + 1 /\ T[k] = <<>>
                \/ /\ Q[k] = Cut(ms[H[k - 1] + 1], 1) /\ H[k - 1] + 1 \in 1 .. L
                   /\ H[k] = H[k - 1] /\ T[k] = Q[k]
  <2>1. Q[k] = Piece(ms, q0, r0, q1, r1, k)
    BY <1>3
  <2>2. CASE k = 1 /\ n = 1
    <3>1. /\ k - 1 = 0 /\ q0 = q1 /\ q0 + k = q1 + 1 /\ q0 + 1 \in Nat /\ r0 <= r1
          /\ (r1 # 0 => q0 + 1 \in 1 .. L)
      BY <1>1, <1>2, <2>2
    <3>2. /\ H[k - 1] = Done(q0, r0) /\ T[k - 1] = Begun(ms, q0, r0)
          /\ H[k] = Done(q0, r1) /\ T[k] = Begun(ms, q0, r1)
      BY <1>4, <2>2, <3>1
    <3>3. Q[k] = IF r0 = 2 THEN <<>> ELSE Cut(ms[q0 + 1], r1)
      BY <2>1, <2>2, <3>1 DEF Piece
    <3>4. CASE r0 = 2
      <4>1. r1 = 2
        BY <1>5, <3>1, <3>4
      <4> QED BY <1>1, <3>1, <3>2, <3>3, <3>4, <4>1 DEF Done, Begun
    <3>5. CASE r0 # 2 /\ r1 = 0
      <4>1. r0 = 0
        BY <1>5, <3>1, <3>5
      <4> QED BY <1>1, <3>1, <3>2, <3>3, <3>5, <4>1 DEF Done, Begun, Cut
    <3>6. CASE r0 # 2 /\ r1 = 1
      BY <1>1, <3>1, <3>2, <3>3, <3>6 DEF Done, Begun
    <3>7. CASE r0 # 2 /\ r1 = 2
      BY <1>1, <3>1, <3>2, <3>3, <3>7 DEF Done, Begun, Cut
    <3> QED BY <1>5, <3>4, <3>5, <3>6, <3>7
  <2>3. CASE k = 1 /\ n # 1
    <3>1. /\ k - 1 = 0 /\ q0 + k # q1 + 1 /\ q0 + 1 \in Nat /\ k \in 1 .. n - 1
          /\ q0 + 1 \in 1 .. L
      BY <1>1, <1>2, <2>3
    <3>2. /\ H[k - 1] = Done(q0, r0) /\ T[k - 1] = Begun(ms, q0, r0)
          /\ H[k] = q0 + 1 /\ T[k] = <<>>
      BY <1>4, <2>3, <3>1
    <3>3. Q[k] = IF r0 = 2 THEN <<>> ELSE Text(ms[q0 + 1])
      BY <2>1, <2>3, <3>1 DEF Piece
    <3>4. CASE r0 = 2
      BY <1>1, <3>1, <3>2, <3>3, <3>4 DEF Done, Begun
    <3>5. CASE r0 # 2
      BY <1>1, <3>1, <3>2, <3>3, <3>5 DEF Done
    <3> QED BY <3>4, <3>5
  <2>4. CASE k # 1 /\ k # n
    <3> DEFINE h == k - 1
    <3>1. /\ h \in 1 .. n - 1 /\ k \in 1 .. n - 1 /\ q0 + k # q1 + 1
          /\ q0 + h \in Nat /\ q0 + k = (q0 + h) + 1 /\ (q0 + h) + 1 \in 1 .. L
      BY <1>1, <1>2, <2>4
    <3> HIDE DEF h
    <3>2. H[h] = q0 + h /\ H[k] = q0 + k /\ T[k] = <<>>
      BY <1>4, <3>1
    <3>3. Q[k] = Text(ms[q0 + k])
      BY <2>1, <2>4, <3>1 DEF Piece
    <3>4. /\ H[h] \in Nat
          /\ Q[k] = Text(ms[H[h] + 1]) /\ H[h] + 1 \in 1 .. L
          /\ H[k] = H[h] + 1 /\ T[k] = <<>>
      BY <3>1, <3>2, <3>3
    <3> QED BY <3>4 DEF h
  <2>5. CASE k # 1 /\ k = n
    <3> DEFINE h == k - 1
    <3>1. /\ h \in 1 .. n - 1 /\ q0 + k = q1 + 1
          /\ q0 + h = q1 /\ q1 \in Nat /\ (r1 # 0 => q1 + 1 \in 1 .. L)
      BY <1>1, <1>2, <2>5
    <3> HIDE DEF h
    <3>2. H[h] = q1 /\ H[k] = Done(q1, r1) /\ T[h] = <<>> /\ T[k] = Begun(ms, q1, r1)
      BY <1>4, <2>5, <3>1
    <3>3. Q[k] = Cut(ms[q1 + 1], r1)
      BY <2>1, <2>5, <3>1 DEF Piece
    <3>4. /\ H[h] \in Nat
          /\ \/ Q[k] = <<>> /\ H[k] = H[h] /\ T[k] = T[h]
             \/ /\ Q[k] = Text(ms[H[h] + 1]) /\ H[h] + 1 \in 1 .. L
                /\ H[k] = H[h] + 1 /\ T[k] = <<>>
             \/ /\ Q[k] = Cut(ms[H[h] + 1], 1) /\ H[h] + 1 \in 1 .. L
                /\ H[k] = H[h] /\ T[k] = Q[k]
      <4>1. CASE r1 = 0
        BY <3>1, <3>2, <3>3, <4>1 DEF Done, Begun, Cut
      <4>2. CASE r1 = 1
        BY <3>1, <3>2, <3>3, <4>2 DEF Done, Begun
      <4>3. CASE r1 = 2
        BY <3>1, <3>2, <3>3, <4>3 DEF Done, Begun, Cut
      <4> QED BY <1>5, <4>1, <4>2, <4>3
    <3> QED BY <3>4 DEF h
  <2> QED BY <2>2, <2>3, <2>4, <2>5
<1>7. Turns(H, T, Q, ms)
  BY <1>6 DEF Turns, n, L
<1>8. Handed(H, T, Q, ms, q0, r0, q1, r1)
  BY <1>4, <1>7 DEF Handed, n
<1> QED BY <1>8

\* What a cut leaves on each side of it.
LEMMA StreamCut ==
  ASSUME NEW s, NEW ms \in Seq(Messages), NEW q \in Nat, NEW r \in 0 .. 2,
         Carries(s, ms, q, r), NEW n \in 0 .. Len(s),
         NEW q1 \in Nat, NEW r1 \in 0 .. 2, 3 * q1 + r1 = 3 * q + r + n
  PROVE  /\ Stretch(SubSeq(s, 1, n), ms, q, r, q1, r1)
         /\ Carries(SubSeq(s, n + 1, Len(s)), ms, q1, r1)
         /\ Rest(s, ms, q, r) => Rest(SubSeq(s, n + 1, Len(s)), ms, q1, r1)
<1> DEFINE a == SubSeq(s, 1, n)
           b == SubSeq(s, n + 1, Len(s))
           L == Len(s)
           M == Len(ms)
<1>1. /\ s \in Seq(Tokens) /\ L \in Nat /\ n \in 0 .. L /\ M \in Nat
      /\ 3 * q + r + L <= 3 * M
  BY DEF Carries
<1>2. /\ a \in Seq(Tokens) /\ Len(a) = n
      /\ \A i \in 1 .. n : a[i] = s[i]
  <2>1. 1 \in Nat /\ n \in Nat /\ n <= Len(s)
    BY <1>1
  <2>2. a \in Seq(Tokens) /\ Len(a) = n
    BY <2>1, <1>1
  <2>3. \A i \in 1 .. n : a[i] = s[i]
    BY <2>1, <1>1
  <2> QED BY <2>2, <2>3
<1>3. /\ b \in Seq(Tokens) /\ Len(b) = L - n
      /\ \A i \in 1 .. L - n : b[i] = s[n + i]
  <2>1. n + 1 \in Nat /\ L \in Nat /\ n \in Nat
    BY <1>1
  <2>2. b \in Seq(Tokens)
    BY <2>1, <1>1
  <2> DEFINE m == n + 1
             d == SubSeq(s, m, L)
  <2>3. m \in Int /\ L \in Int /\ \A i \in m .. L : s[i] \in Tokens
    BY <1>1, <2>1
  <2> HIDE DEF m
  <2>4. /\ Len(d) = IF m <= L THEN L - m + 1 ELSE 0
        /\ \A i \in 1 .. L - m + 1 : d[i] = s[m + i - 1]
    BY <2>3, SubSeqProperties
  <2> HIDE DEF d
  <2>5. L - m + 1 = L - n /\ \A i \in 1 .. L - n : m + i - 1 = n + i
    BY <1>1, <2>1 DEF m
  <2>6. Len(d) = L - n
    BY <1>1, <2>1, <2>4 DEF m
  <2>7. \A i \in 1 .. L - n : d[i] = s[n + i]
    BY <2>4, <2>5
  <2> QED BY <2>2, <2>6, <2>7 DEF d, m
<1>4. \A x \in 0 .. M - 1, y \in 1 .. 3 :
        3 * x + y - (3 * q + r) \in 1 .. L =>
          s[3 * x + y - (3 * q + r)] = Line(ms[x + 1])[y]
  BY DEF Carries
<1>5. Rest(s, ms, q, r) => 3 * q + r + L = 3 * M
  BY DEF Rest
<1> HIDE DEF a, b, L, M
<1>6. Carries(a, ms, q, r)
  <2>1. 3 * q + r + Len(a) <= 3 * M
    BY <1>1, <1>2
  <2>2. ASSUME NEW x \in 0 .. M - 1, NEW y \in 1 .. 3,
               3 * x + y - (3 * q + r) \in 1 .. Len(a)
        PROVE  a[3 * x + y - (3 * q + r)] = Line(ms[x + 1])[y]
    <3>1. 3 * x + y - (3 * q + r) \in 1 .. n /\ 3 * x + y - (3 * q + r) \in 1 .. L
      BY <2>2, <1>1, <1>2
    <3>2. s[3 * x + y - (3 * q + r)] = Line(ms[x + 1])[y]
      BY <3>1, <1>4
    <3> QED BY <3>1, <3>2, <1>2
  <2> QED BY <2>1, <2>2, <1>2 DEF Carries, M
<1>7. Carries(b, ms, q1, r1)
  <2>1. 3 * q1 + r1 + Len(b) <= 3 * M
    BY <1>1, <1>3
  <2>2. ASSUME NEW x \in 0 .. M - 1, NEW y \in 1 .. 3, NEW i,
               i = 3 * x + y - (3 * q1 + r1), i \in 1 .. Len(b)
        PROVE  b[i] = Line(ms[x + 1])[y]
    <3> DEFINE t == 3 * x + y - (3 * q + r)
    <3>1. i \in 1 .. L - n /\ t = n + i /\ t \in 1 .. L
      BY <2>2, <1>1, <1>3
    <3>2. s[t] = Line(ms[x + 1])[y]
      BY <3>1, <1>4
    <3> HIDE DEF t
    <3>3. b[i] = s[n + i]
      BY <3>1, <1>3
    <3> QED BY <3>1, <3>2, <3>3
  <2>3. \A x \in 0 .. M - 1, y \in 1 .. 3 :
          3 * x + y - (3 * q1 + r1) \in 1 .. Len(b) =>
            b[3 * x + y - (3 * q1 + r1)] = Line(ms[x + 1])[y]
    BY <2>2
  <2> QED BY <2>1, <2>3, <1>3 DEF Carries, M
<1>8. Stretch(a, ms, q, r, q1, r1)
  BY <1>2, <1>6 DEF Stretch
<1>9. Rest(s, ms, q, r) => Rest(b, ms, q1, r1)
  <2>1. 3 * q + r + L = 3 * M => 3 * q1 + r1 + Len(b) = 3 * M
    BY <1>1, <1>3
  <2> QED BY <2>1, <1>5, <1>7 DEF Rest, M
<1> QED BY <1>7, <1>8, <1>9 DEF a, b, L

\* A cut inside an object has its first half before it.
LEMMA CutInside ==
  ASSUME NEW s, NEW ms \in Seq(Messages), NEW q \in Nat, NEW r \in 0 .. 2,
         Carries(s, ms, q, r), NEW n \in 1 .. Len(s),
         NEW q1 \in Nat, 3 * q1 + 1 = 3 * q + r + n
  PROVE  s[n].part = 1
<1> DEFINE y == 1
           M == Len(ms)
           L == Len(s)
<1>1. /\ L \in Nat /\ n \in 1 .. L /\ M \in Nat /\ 3 * q + r + L <= 3 * M
  BY DEF Carries
<1>2. \A x \in 0 .. M - 1, z \in 1 .. 3 :
        3 * x + z - (3 * q + r) \in 1 .. L =>
          s[3 * x + z - (3 * q + r)] = Line(ms[x + 1])[z]
  BY DEF Carries
<1> HIDE DEF M, L
<1>3. /\ q1 \in 0 .. M - 1 /\ q1 + 1 \in 1 .. M /\ n = 3 * q1 + y - (3 * q + r)
      /\ y \in 1 .. 3 /\ y = 1
  BY <1>1
<1> HIDE DEF y
<1>4. s[n] = Line(ms[q1 + 1])[y]
  BY <1>1, <1>2, <1>3
<1>5. ms[q1 + 1] \in Messages
  BY <1>3 DEF M
<1>6. Line(ms[q1 + 1])[1] = [msg |-> ms[q1 + 1], part |-> 1]
  BY <1>5, LineTokens
<1> QED BY <1>3, <1>4, <1>6

-----------------------------------------------------------------------------
(* The calls a client makes of its callbacks. *)

CallType == (1 .. MaxRequests) \X Seq(Messages)

RowsOf(a, i) == IF i = 0 THEN 0 ELSE a[i].rows

\* What the first n of the requests a are due.
DueBy(c, a, n) == FlattenSeq([i \in 1 .. n |-> DueCalls(c, i, a[i])])

\* The calls for request i, of k rows, when j of them have come, and those
\* among them that the last of them brought.
Part(c, i, k, j) ==
  IF c \in Stream /\ k > 0 THEN [x \in 1 .. j |-> <<i, <<Row(i, x)>>>>]
  ELSE IF j = k THEN <<<<i, Rows(i, k)>>>> ELSE <<>>

Brings(c, i, k, j) ==
  IF j = k /\ (c \notin Stream \/ k = 0) THEN <<<<i, Rows(i, k)>>>>
  ELSE IF j > 0 /\ c \in Stream THEN <<<<i, <<Row(i, j)>>>>>> ELSE <<>>

\* All calls once the header of request i and j of its rows have come.
Made(c, a, i, j) ==
  IF i = 0 THEN <<>> ELSE DueBy(c, a, i - 1) \o Part(c, i, a[i].rows, j)

\* Row n of request i, which has k, comes after row j.
NextRow(a, i, j, n, k) ==
  /\ a \in Seq(Requests) /\ Len(a) <= MaxRequests /\ i \in 1 .. Len(a)
  /\ j \in Nat /\ n = j + 1 /\ k = a[i].rows /\ j < k

\* The header of request n, which has k rows, comes after request i.
NextHeader(a, i, n, k) ==
  /\ a \in Seq(Requests) /\ Len(a) <= MaxRequests /\ i \in Nat /\ i < Len(a)
  /\ n = i + 1 /\ k = a[n].rows

\* u is a beginning of v.
Begins(u, v, T) == u \in Seq(T) /\ \E w \in Seq(T) : v = u \o w

\* Three sequences one after the other.
LEMMA Regroup ==
  ASSUME NEW T, NEW p, NEW u, NEW v, p \in Seq(T), u \in Seq(T), v \in Seq(T)
  PROVE  p \o (u \o v) = (p \o u) \o v
<1>1. (p \o u) \o v = p \o (u \o v)
  BY ConcatAssociative, SMTT(40)
<1> QED BY <1>1

\* Beginnings of beginnings.
LEMMA BeginsTransitive ==
  ASSUME NEW T, NEW u, NEW v, NEW w, Begins(u, v, T), Begins(v, w, T)
  PROVE  Begins(u, w, T)
<1>1. PICK a \in Seq(T) : v = u \o a
  BY DEF Begins
<1>2. PICK b \in Seq(T) : w = v \o b
  BY DEF Begins
<1>3. u \in Seq(T)
  BY DEF Begins
<1>4. a \o b \in Seq(T)
  BY <1>1, <1>2
<1>5. w = u \o (a \o b)
  <2>1. u \o (a \o b) = (u \o a) \o b
    BY <1>1, <1>2, <1>3, Regroup, SMTT(40)
  <2> QED BY <1>1, <1>2, <2>1
<1> QED BY <1>3, <1>4, <1>5 DEF Begins

\* What has more behind it begins the same way.
LEMMA BeginsBehind ==
  ASSUME NEW T, NEW p, NEW u, NEW v, p \in Seq(T), Begins(u, v, T)
  PROVE  Begins(p \o u, p \o v, T)
<1>1. PICK a \in Seq(T) : v = u \o a
  BY DEF Begins
<1>2. u \in Seq(T)
  BY DEF Begins
<1>3. p \o u \in Seq(T)
  BY <1>2
<1>4. p \o v = (p \o u) \o a
  <2>1. p \o (u \o a) = (p \o u) \o a
    BY <1>1, <1>2, Regroup, SMTT(40)
  <2> QED BY <1>1, <2>1
<1> QED BY <1>1, <1>3, <1>4 DEF Begins

\* A beginning by its length.
LEMMA BeginsLength ==
  ASSUME NEW T, NEW u, NEW v, Begins(u, v, T)
  PROVE  /\ u \in Seq(T) /\ v \in Seq(T) /\ Len(u) <= Len(v)
         /\ u = SubSeq(v, 1, Len(u))
<1>1. PICK a \in Seq(T) : v = u \o a
  BY DEF Begins
<1>2. u \in Seq(T)
  BY DEF Begins
<1>3. /\ v \in Seq(T) /\ Len(v) = Len(u) + Len(a)
      /\ \A i \in 1 .. Len(u) : v[i] = u[i]
      /\ Len(u) \in Nat /\ Len(a) \in Nat
  BY <1>1, <1>2
<1> DEFINE n == Len(u)
           p == SubSeq(v, 1, n)
<1> HIDE DEF n
<1>4. n \in 0 .. Len(v) /\ n = Len(u)
  BY <1>3 DEF n
<1>5. p \in Seq(T) /\ Len(p) = n /\ \A i \in 1 .. n : p[i] = v[i]
  <2>1. n \in Nat /\ n <= Len(v)
    BY <1>3, <1>4
  <2> QED BY <2>1, <1>3
<1> HIDE DEF p
<1>6. Len(u) = Len(p) /\ \A i \in 1 .. Len(u) : u[i] = p[i]
  BY <1>3, <1>4, <1>5
<1>7. u = p
  BY <1>2, <1>5, <1>6, SeqEqual
<1> QED BY <1>2, <1>3, <1>4, <1>7 DEF p, n

\* The calls of one request.
LEMMA PartStep ==
  ASSUME NEW c, NEW i \in 1 .. MaxRequests, NEW k \in Nat, NEW j \in Nat, j < k
  PROVE  /\ Part(c, i, k, j) \in Seq(CallType)
         /\ Brings(c, i, k, j + 1) \in Seq(CallType)
         /\ Part(c, i, k, j + 1) = Part(c, i, k, j) \o Brings(c, i, k, j + 1)
<1> DEFINE t == j + 1
           S(x) == <<i, <<Row(i, x)>>>>
           e == <<i, Rows(i, k)>>
<1>0. i \in Nat /\ k > 0 /\ t > 0 /\ j # k /\ t \in Nat /\ 1 .. t = 1 .. j + 1
  BY WireAssumption
<1>1. \A x \in Nat : S(x) \in CallType
  <2>1. \A x \in Nat : Row(i, x) \in Messages
    BY <1>0, AnswerMessages
  <2>2. \A x \in Nat : <<Row(i, x)>> \in Seq(Messages)
    BY <2>1
  <2> QED BY <2>2 DEF CallType
<1>2. e \in CallType
  BY <1>0, RestRows DEF CallType
<1>3. <<>> \in Seq(CallType) /\ <<e>> \in Seq(CallType) /\ <<S(t)>> \in Seq(CallType)
  BY <1>0, <1>1, <1>2
<1>4. CASE c \in Stream
  <2> DEFINE f == [x \in 1 .. j |-> S(x)]
             g == [x \in 1 .. j + 1 |-> S(x)]
  <2>1. Part(c, i, k, j) = f /\ Part(c, i, k, t) = g
    BY <1>0, <1>4 DEF Part
  <2>2. Brings(c, i, k, t) = <<S(t)>>
    BY <1>0, <1>4 DEF Brings
  <2> HIDE DEF S
  <2>3. /\ f \in [1 .. j -> CallType] /\ g \in [1 .. j + 1 -> CallType]
        /\ \A x \in 1 .. j : g[x] = f[x]
        /\ g[j + 1] = S(t) /\ S(t) \in CallType
    BY <1>0, <1>1
  <2> DEFINE st == S(t)
  <2> HIDE DEF f, g, st
  <2>4. f \in Seq(CallType) /\ g = f \o <<st>>
    BY <2>3, OneMore DEF st
  <2> QED BY <1>3, <2>1, <2>2, <2>4 DEF st
<1>5. CASE c \notin Stream
  <2>1. Part(c, i, k, j) = <<>>
    BY <1>0, <1>5 DEF Part
  <2>2. Part(c, i, k, t) = IF t = k THEN <<e>> ELSE <<>>
    BY <1>0, <1>5 DEF Part
  <2>3. Brings(c, i, k, t) = IF t = k THEN <<e>> ELSE <<>>
    BY <1>0, <1>5 DEF Brings
  <2> HIDE DEF e, t
  <2>4. <<>> \o <<e>> = <<e>> /\ <<>> \o <<>> = <<>>
    BY <1>3
  <2>5. CASE t = k
    <3>1. /\ Part(c, i, k, j) \in Seq(CallType) /\ Brings(c, i, k, t) \in Seq(CallType)
      BY <2>1, <2>3, <2>5, <1>3
    <3>2. Part(c, i, k, t) = Part(c, i, k, j) \o Brings(c, i, k, t)
      BY <2>1, <2>2, <2>3, <2>4, <2>5
    <3> QED BY <3>1, <3>2 DEF t
  <2>6. CASE t # k
    <3>1. /\ Part(c, i, k, j) \in Seq(CallType) /\ Brings(c, i, k, t) \in Seq(CallType)
      BY <2>1, <2>3, <2>6, <1>3
    <3>2. Part(c, i, k, t) = Part(c, i, k, j) \o Brings(c, i, k, t)
      BY <2>1, <2>2, <2>3, <2>4, <2>6
    <3> QED BY <3>1, <3>2 DEF t
  <2> QED BY <2>5, <2>6
<1> QED BY <1>4, <1>5

\* Those of its header.
LEMMA PartHeader ==
  ASSUME NEW c, NEW i \in 1 .. MaxRequests, NEW k \in Nat
  PROVE  /\ Part(c, i, k, 0) \in Seq(CallType)
         /\ Part(c, i, k, 0) = Brings(c, i, k, 0)
<1>1. i \in Nat
  BY WireAssumption
<1>2. <<i, Rows(i, k)>> \in CallType
  BY <1>1, RestRows DEF CallType
<1> DEFINE e == <<i, Rows(i, k)>>
<1> HIDE DEF e
<1>3. <<>> \in Seq(CallType) /\ <<e>> \in Seq(CallType)
  BY <1>2 DEF e
<1>4. CASE c \in Stream /\ k > 0
  <2>1. Part(c, i, k, 0) = [x \in 1 .. 0 |-> <<i, <<Row(i, x)>>>>]
    BY <1>4 DEF Part
  <2>2. Part(c, i, k, 0) = <<>>
    BY <2>1
  <2>3. Brings(c, i, k, 0) = <<>>
    BY <1>4 DEF Brings
  <2> QED BY <1>3, <2>2, <2>3
<1>5. CASE ~(c \in Stream /\ k > 0)
  <2>1. Part(c, i, k, 0) = IF 0 = k THEN <<e>> ELSE <<>>
    BY <1>5 DEF Part, e
  <2>2. Brings(c, i, k, 0) = IF 0 = k THEN <<e>> ELSE <<>>
    BY <1>5 DEF Brings, e
  <2> DEFINE d == IF 0 = k THEN <<e>> ELSE <<>>
  <2>3. d \in Seq(CallType)
    BY <1>3
  <2> HIDE DEF d
  <2>4. Part(c, i, k, 0) = d /\ Brings(c, i, k, 0) = d
    BY <2>1, <2>2 DEF d
  <2> QED BY <2>3, <2>4
<1> QED BY <1>4, <1>5

\* All its rows bring all that the request is due.
LEMMA PartAll ==
  ASSUME NEW c, NEW i \in 1 .. MaxRequests, NEW r \in Requests
  PROVE  /\ r.rows \in Nat
         /\ DueCalls(c, i, r) \in Seq(CallType)
         /\ Part(c, i, r.rows, r.rows) = DueCalls(c, i, r)
         /\ \A j \in 0 .. r.rows :
              Begins(Part(c, i, r.rows, j), Part(c, i, r.rows, r.rows), CallType)
<1> DEFINE k == r.rows
           S(x) == <<i, <<Row(i, x)>>>>
           e == <<i, Rows(i, k)>>
<1>0. i \in Nat /\ k \in Nat
  BY WireAssumption
<1>1. \A x \in Nat : S(x) \in CallType
  <2>1. \A x \in Nat : Row(i, x) \in Messages
    BY <1>0, AnswerMessages
  <2>2. \A x \in Nat : <<Row(i, x)>> \in Seq(Messages)
    BY <2>1
  <2> QED BY <2>2 DEF CallType
<1>2. e \in CallType
  BY <1>0, RestRows DEF CallType
<1>3. <<>> \in Seq(CallType) /\ <<e>> \in Seq(CallType)
  BY <1>2
<1>4. CASE c \in Stream /\ k > 0
  <2> DEFINE f(j) == [x \in 1 .. j |-> S(x)]
  <2>1. \A j \in Nat : Part(c, i, k, j) = f(j)
    BY <1>0, <1>4 DEF Part
  <2>2. DueCalls(c, i, r) = [x \in 1 .. k |-> <<i, <<Rows(i, k)[x]>>>>]
    BY <1>4 DEF DueCalls
  <2>3. \A x \in 1 .. k : Rows(i, k)[x] = Row(i, x)
    BY DEF Rows
  <2>4. DueCalls(c, i, r) = f(k)
    BY <2>2, <2>3
  <2> HIDE DEF S, k
  <2>5. \A j \in Nat : f(j) \in Seq(CallType) /\ Len(f(j)) = j
                       /\ \A x \in 1 .. j : f(j)[x] = S(x)
    BY <1>1
  <2>6. ASSUME NEW j \in 0 .. k
        PROVE  Begins(f(j), f(k), CallType)
    <3> DEFINE n == k - j
               w == [x \in 1 .. n |-> S(j + x)]
               u == f(j)
               v == f(k)
    <3>1. j \in Nat /\ n \in Nat /\ j + n = k /\ \A x \in 1 .. n : j + x \in 1 .. k
          /\ 1 .. j \subseteq 1 .. k
      BY <1>0
    <3>2. /\ w \in Seq(CallType) /\ Len(w) = n /\ \A x \in 1 .. n : w[x] = S(j + x)
      BY <1>0, <1>1, <3>1
    <3>3. /\ u \in Seq(CallType) /\ Len(u) = j /\ \A x \in 1 .. j : u[x] = S(x)
          /\ v \in Seq(CallType) /\ Len(v) = k /\ \A x \in 1 .. k : v[x] = S(x)
      BY <1>0, <2>5, <3>1
    <3> HIDE DEF w, u, v
    <3> DEFINE uw == u \o w
    <3> HIDE DEF n
    <3>4. /\ uw \in Seq(CallType) /\ Len(uw) = k
          /\ \A x \in 1 .. j : uw[x] = u[x]
          /\ \A x \in j + 1 .. k : uw[x] = w[x - j]
      <4>0. /\ u \in Seq(CallType) /\ Len(u) = j /\ w \in Seq(CallType) /\ Len(w) = n
            /\ j \in Nat /\ n \in Nat
        BY <3>1, <3>2, <3>3
      <4>1. uw \in Seq(CallType) /\ Len(uw) = j + n
        BY <4>0
      <4>2. \A x \in 1 .. j : uw[x] = u[x]
        BY <4>0
      <4>3. \A x \in j + 1 .. j + n : uw[x] = w[x - j]
        BY <4>0
      <4> QED BY <3>1, <4>1, <4>2, <4>3
    <3> HIDE DEF uw
    <3>5. \A x \in 1 .. k : uw[x] = v[x]
      <4>1. ASSUME NEW x \in 1 .. k PROVE uw[x] = v[x]
        <5>1. CASE x \in 1 .. j
          BY <5>1, <3>1, <3>3, <3>4
        <5>2. CASE x \notin 1 .. j
          <6>1. x \in j + 1 .. k /\ x - j \in 1 .. n /\ j + (x - j) = x
            BY <5>2, <3>1, <1>0
          <6>2. uw[x] = w[x - j]
            BY <6>1, <3>4
          <6>3. w[x - j] = S(x)
            BY <6>1, <3>2
          <6> QED BY <6>2, <6>3, <3>3
        <5> QED BY <5>1, <5>2
      <4> QED BY <4>1
    <3>6. uw = v
      BY <3>3, <3>4, <3>5, SeqEqual
    <3> QED BY <3>2, <3>3, <3>6 DEF Begins, uw, u, v
  <2>7. \A j \in 0 .. k : j \in Nat
    BY <1>0
  <2>8. \A j \in 0 .. k : Begins(Part(c, i, k, j), Part(c, i, k, k), CallType)
    BY <1>0, <2>1, <2>6, <2>7
  <2>9. DueCalls(c, i, r) \in Seq(CallType)
    BY <1>0, <2>4, <2>5
  <2> HIDE DEF f
  <2> QED BY <1>0, <2>1, <2>4, <2>8, <2>9 DEF k
<1>5. CASE ~(c \in Stream /\ k > 0)
  <2>1. \A j \in Nat : Part(c, i, k, j) = IF j = k THEN <<e>> ELSE <<>>
    BY <1>5 DEF Part
  <2>2. DueCalls(c, i, r) = <<e>>
    BY <1>5 DEF DueCalls
  <2> HIDE DEF e, k
  <2>3. <<>> \o <<e>> = <<e>> /\ <<e>> \o <<>> = <<e>>
    BY <1>3
  <2>4. Begins(<<>>, <<e>>, CallType) /\ Begins(<<e>>, <<e>>, CallType)
    BY <1>3, <2>3 DEF Begins
  <2>5. \A j \in 0 .. k : j \in Nat
    BY <1>0
  <2>6. \A j \in 0 .. k : Begins(Part(c, i, k, j), Part(c, i, k, k), CallType)
    BY <1>0, <2>1, <2>4, <2>5
  <2> QED BY <1>0, <1>3, <2>1, <2>2, <2>6 DEF k
<1> QED BY <1>4, <1>5

\* What one more request adds to what is due.
LEMMA DueStep ==
  ASSUME NEW c, NEW a \in Seq(Requests), Len(a) <= MaxRequests,
         NEW n \in Nat, n < Len(a)
  PROVE  /\ DueBy(c, a, n) \in Seq(CallType)
         /\ DueBy(c, a, n + 1) = DueBy(c, a, n) \o DueCalls(c, n + 1, a[n + 1])
         /\ DueBy(c, a, 0) = <<>>
<1> DEFINE t == n + 1
           f == [i \in 1 .. n |-> DueCalls(c, i, a[i])]
           g == [i \in 1 .. t |-> DueCalls(c, i, a[i])]
<1>1. \A i \in 1 .. t : i \in 1 .. MaxRequests /\ a[i] \in Requests
  BY WireAssumption
<1>2. \A i \in 1 .. t : DueCalls(c, i, a[i]) \in Seq(CallType)
  BY <1>1, PartAll
<1>3. t \in Nat /\ t \in 1 .. t /\ \A i \in 1 .. n : i \in 1 .. t
  OBVIOUS
<1>4. /\ f \in [1 .. n -> Seq(CallType)] /\ g \in [1 .. t -> Seq(CallType)]
      /\ \A i \in 1 .. n : g[i] = f[i]
      /\ g[t] = DueCalls(c, t, a[t])
  BY <1>2, <1>3
<1>5. DueBy(c, a, n) = FlattenSeq(f) /\ DueBy(c, a, t) = FlattenSeq(g)
  BY DEF DueBy
<1> HIDE DEF f, g
<1>6. /\ f \in Seq(Seq(CallType)) /\ g \in Seq(Seq(CallType))
      /\ Len(f) = n /\ Len(g) = t
  BY <1>3, <1>4
<1>7. FlattenSeq(f) \in Seq(CallType) /\ FlattenSeq(g) = FlattenSeq(f) \o g[Len(g)]
  <2>1. Len(g) = Len(f) + 1 /\ \A i \in 1 .. Len(f) : g[i] = f[i]
    BY <1>4, <1>6
  <2> QED BY <2>1, <1>6, FlattenStep
<1>8. DueBy(c, a, 0) = <<>>
  <2>1. [i \in 1 .. 0 |-> DueCalls(c, i, a[i])] = <<>>
    OBVIOUS
  <2>2. Len(<<>>) = 0
    OBVIOUS
  <2> QED BY <2>1, <2>2 DEF DueBy, FlattenSeq
<1> QED BY <1>4, <1>5, <1>6, <1>7, <1>8

\* The type of what is due.
LEMMA DueType ==
  ASSUME NEW c, NEW a \in Seq(Requests), Len(a) <= MaxRequests,
         NEW n \in 0 .. Len(a)
  PROVE  DueBy(c, a, n) \in Seq(CallType) /\ DueBy(c, a, 0) = <<>>
<1>1. DueBy(c, a, 0) = <<>> /\ <<>> \in Seq(CallType)
  <2>1. [i \in 1 .. 0 |-> DueCalls(c, i, a[i])] = <<>>
    OBVIOUS
  <2>2. Len(<<>>) = 0 /\ <<>> \in Seq(CallType)
    OBVIOUS
  <2> QED BY <2>1, <2>2 DEF DueBy, FlattenSeq
<1>2. CASE n = 0
  BY <1>1, <1>2
<1>3. CASE n # 0
  <2> DEFINE m == n - 1
  <2>1. m \in Nat /\ m < Len(a) /\ m + 1 = n /\ n \in 1 .. Len(a)
        /\ n \in 1 .. MaxRequests
    BY <1>3, WireAssumption
  <2> HIDE DEF m
  <2>2. /\ DueBy(c, a, m) \in Seq(CallType)
        /\ DueBy(c, a, m + 1) = DueBy(c, a, m) \o DueCalls(c, m + 1, a[m + 1])
    BY <2>1, DueStep
  <2>3. DueCalls(c, n, a[n]) \in Seq(CallType)
    <3>1. a[n] \in Requests
      BY <2>1
    <3> QED BY <2>1, <3>1, PartAll
  <2>4. DueBy(c, a, n) = DueBy(c, a, m) \o DueCalls(c, n, a[n])
    BY <2>1, <2>2
  <2> QED BY <1>1, <2>2, <2>3, <2>4
<1> QED BY <1>2, <1>3

\* What is due for the first requests comes first.
LEMMA DueBegins ==
  ASSUME NEW c, NEW a \in Seq(Requests), Len(a) <= MaxRequests,
         NEW i \in 0 .. Len(a), NEW s \in i .. Len(a)
  PROVE  Begins(DueBy(c, a, i), DueBy(c, a, s), CallType)
<1> DEFINE d == DueBy(c, a, i)
           S == {k \in Nat : i + k <= Len(a) => Begins(d, DueBy(c, a, i + k), CallType)}
<1>1. d \in Seq(CallType)
  BY DueType
<1>2. 0 \in S
  <2>1. i + 0 = i /\ <<>> \in Seq(CallType)
    OBVIOUS
  <2>2. d \o <<>> = d
    BY <1>1, ConcatEmptySeq
  <2>3. Begins(d, d, CallType)
    BY <1>1, <2>1, <2>2 DEF Begins
  <2> QED BY <2>1, <2>3
<1>3. ASSUME NEW k \in Nat, k \in S
      PROVE  k + 1 \in S
  <2> DEFINE n == i + k
             e == DueCalls(c, n + 1, a[n + 1])
  <2>1. SUFFICES ASSUME n + 1 <= Len(a)
                 PROVE  Begins(d, DueBy(c, a, n + 1), CallType)
    <3>1. i + (k + 1) = n + 1 /\ k + 1 \in Nat
      OBVIOUS
    <3> QED BY <3>1
  <2>2. n \in Nat /\ n < Len(a) /\ n <= Len(a) /\ n + 1 \in 1 .. Len(a)
        /\ n + 1 \in 1 .. MaxRequests
    BY <2>1, WireAssumption
  <2>3. Begins(d, DueBy(c, a, n), CallType)
    BY <1>3, <2>2
  <2> HIDE DEF d, n
  <2>4. /\ DueBy(c, a, n) \in Seq(CallType)
        /\ DueBy(c, a, n + 1) = DueBy(c, a, n) \o e
    BY <2>2, DueStep
  <2>5. e \in Seq(CallType)
    <3>1. a[n + 1] \in Requests
      BY <2>2
    <3> QED BY <2>2, <3>1, PartAll
  <2> HIDE DEF e
  <2>6. Begins(DueBy(c, a, n), DueBy(c, a, n + 1), CallType)
    BY <2>4, <2>5 DEF Begins
  <2> QED BY <2>3, <2>6, BeginsTransitive
<1> HIDE DEF S
<1>4. Nat \subseteq S
  BY <1>2, <1>3, Induction
<1>5. s - i \in Nat /\ i + (s - i) = s /\ s <= Len(a)
  OBVIOUS
<1>6. s - i \in S
  BY <1>4, <1>5
<1> QED BY <1>5, <1>6 DEF S

\* The calls made are a beginning of what is due.
LEMMA MadeBegins ==
  ASSUME NEW c, NEW a \in Seq(Requests), Len(a) <= MaxRequests,
         NEW s \in 0 .. Len(a), NEW i \in 0 .. s, NEW j \in 0 .. RowsOf(a, i)
  PROVE  Begins(Made(c, a, i, j), DueBy(c, a, s), CallType)
<1>1. CASE i = 0
  <2>1. Made(c, a, i, j) = <<>> /\ <<>> \in Seq(CallType)
    BY <1>1 DEF Made
  <2>2. DueBy(c, a, s) \in Seq(CallType)
    BY DueType
  <2>3. <<>> \o DueBy(c, a, s) = DueBy(c, a, s)
    BY <2>2, ConcatEmptySeq
  <2> QED BY <2>1, <2>2, <2>3 DEF Begins
<1>2. CASE i # 0
  <2> DEFINE m == i - 1
             k == a[i].rows
             p == DueBy(c, a, m)
  <2>1. /\ m \in Nat /\ m < Len(a) /\ m + 1 = i /\ i \in 1 .. MaxRequests
        /\ a[i] \in Requests /\ i \in 0 .. Len(a) /\ s \in i .. Len(a)
    BY <1>2, WireAssumption
  <2>2. k = RowsOf(a, i) /\ Made(c, a, i, j) = p \o Part(c, i, k, j)
    BY <1>2 DEF RowsOf, Made
  <2>3. Part(c, i, k, k) = DueCalls(c, i, a[i])
    BY <2>1, PartAll
  <2>4. Begins(Part(c, i, k, j), Part(c, i, k, k), CallType)
    BY <2>1, <2>2, PartAll
  <2> HIDE DEF m
  <2>5. p \in Seq(CallType) /\ DueBy(c, a, m + 1) = p \o DueCalls(c, m + 1, a[m + 1])
    BY <2>1, DueStep
  <2> HIDE DEF k, p
  <2>6. Begins(p \o Part(c, i, k, j), p \o Part(c, i, k, k), CallType)
    BY <2>4, <2>5, BeginsBehind
  <2>7. Begins(Made(c, a, i, j), DueBy(c, a, i), CallType)
    BY <2>1, <2>2, <2>3, <2>5, <2>6
  <2>8. Begins(DueBy(c, a, i), DueBy(c, a, s), CallType)
    BY <2>1, DueBegins
  <2> QED BY <2>7, <2>8, BeginsTransitive
<1> QED BY <1>1, <1>2

\* A header adds the calls it brings.
LEMMA MadeHeader ==
  ASSUME NEW c, NEW a, NEW i, NEW t, NEW k, NextHeader(a, i, t, k)
  PROVE  Made(c, a, t, 0) = Made(c, a, i, RowsOf(a, i)) \o Brings(c, t, k, 0)
<1> USE DEF NextHeader
<1>1. /\ k = a[t].rows /\ a \in Seq(Requests) /\ Len(a) <= MaxRequests /\ i \in Nat
      /\ t \in 1 .. MaxRequests /\ t # 0 /\ t - 1 = i /\ a[t] \in Requests
      /\ i \in 0 .. Len(a)
  BY WireAssumption
<1>2. a[t].rows \in Nat
  BY <1>1, PartAll
<1> HIDE DEF NextHeader
<1>3. Part(c, t, a[t].rows, 0) = Brings(c, t, a[t].rows, 0)
  BY <1>1, <1>2, PartHeader
<1>4. Made(c, a, t, 0) = DueBy(c, a, i) \o Brings(c, t, a[t].rows, 0)
  BY <1>1, <1>3 DEF Made
<1>5. Made(c, a, i, RowsOf(a, i)) = DueBy(c, a, i)
  <2>1. CASE i = 0
    <3>1. DueBy(c, a, 0) = <<>>
      BY <1>1, DueType
    <3> QED BY <2>1, <3>1 DEF Made
  <2>2. CASE i # 0
    <3> DEFINE m == i - 1
    <3>1. /\ m \in Nat /\ m < Len(a) /\ m + 1 = i /\ i \in 1 .. MaxRequests
          /\ a[i] \in Requests
      BY <2>2, WireAssumption DEF NextHeader
    <3>2. Made(c, a, i, RowsOf(a, i)) = DueBy(c, a, m) \o Part(c, i, a[i].rows, a[i].rows)
      BY <2>2 DEF RowsOf, Made
    <3>3. Part(c, i, a[i].rows, a[i].rows) = DueCalls(c, i, a[i])
      BY <3>1, PartAll
    <3> HIDE DEF m
    <3>4. DueBy(c, a, m + 1) = DueBy(c, a, m) \o DueCalls(c, m + 1, a[m + 1])
      BY <1>1, <3>1, DueStep
    <3> QED BY <3>1, <3>2, <3>3, <3>4
  <2> QED BY <2>1, <2>2
<1> QED BY <1>1, <1>4, <1>5

\* A row adds the calls it brings.
LEMMA MadeRow ==
  ASSUME NEW c, NEW a, NEW i, NEW j, NEW t, NEW k, NextRow(a, i, j, t, k)
  PROVE  Made(c, a, i, t) = Made(c, a, i, j) \o Brings(c, i, k, t)
<1> DEFINE p == DueBy(c, a, i - 1)
<1>0. /\ a \in Seq(Requests) /\ Len(a) <= MaxRequests /\ i \in 1 .. Len(a)
      /\ j \in Nat /\ t = j + 1 /\ k = a[i].rows /\ j < k
  BY DEF NextRow
<1>1. i \in 1 .. MaxRequests /\ i # 0 /\ i - 1 \in 0 .. Len(a) /\ a[i] \in Requests
  BY <1>0, WireAssumption
<1>2. p \in Seq(CallType)
  <2> DEFINE m == i - 1
  <2>1. m \in 0 .. Len(a)
    BY <1>1
  <2> HIDE DEF m
  <2>2. DueBy(c, a, m) \in Seq(CallType)
    BY <1>0, <2>1, DueType
  <2> QED BY <2>2 DEF m
<1>3. k \in Nat /\ j < k
  BY <1>0, <1>1, PartAll
<1>5. Made(c, a, i, j) = p \o Part(c, i, k, j) /\ Made(c, a, i, t) = p \o Part(c, i, k, t)
  BY <1>0, <1>1 DEF Made
<1> HIDE DEF p
<1>4. /\ Part(c, i, k, j) \in Seq(CallType) /\ Brings(c, i, k, t) \in Seq(CallType)
      /\ Part(c, i, k, t) = Part(c, i, k, j) \o Brings(c, i, k, t)
  BY <1>0, <1>1, <1>3, PartStep
<1> DEFINE u == Part(c, i, k, j)
           v == Brings(c, i, k, t)
<1>6. p \in Seq(CallType) /\ u \in Seq(CallType) /\ v \in Seq(CallType)
  BY <1>2, <1>4
<1>7. Made(c, a, i, j) = p \o u /\ Made(c, a, i, t) = p \o (u \o v)
  BY <1>4, <1>5
<1> HIDE DEF u, v
<1>8. p \o (u \o v) = (p \o u) \o v
  BY <1>6, Regroup, SMTT(30)
<1>9. Made(c, a, i, t) = Made(c, a, i, j) \o v
  BY <1>7, <1>8
<1> QED BY <1>9 DEF v

\* Later requests change nothing of it.
LEMMA MadeStays ==
  ASSUME NEW c, NEW a \in Seq(Requests), NEW r \in Requests,
         NEW i \in 0 .. Len(a), NEW j
  PROVE  /\ RowsOf(Append(a, r), i) = RowsOf(a, i)
         /\ DueBy(c, Append(a, r), i) = DueBy(c, a, i)
         /\ Made(c, Append(a, r), i, j) = Made(c, a, i, j)
<1> DEFINE b == Append(a, r)
<1>1. \A x \in 1 .. Len(a) : b[x] = a[x]
  BY AppendFacts
<1> HIDE DEF b
<1>2. RowsOf(b, i) = RowsOf(a, i)
  BY <1>1 DEF RowsOf
<1>3. ASSUME NEW n \in 0 .. Len(a)
      PROVE  DueBy(c, b, n) = DueBy(c, a, n)
  <2>1. \A x \in 1 .. n : b[x] = a[x]
    BY <1>1
  <2>2. [x \in 1 .. n |-> DueCalls(c, x, b[x])] = [x \in 1 .. n |-> DueCalls(c, x, a[x])]
    BY <2>1
  <2> QED BY <2>2 DEF DueBy
<1>4. DueBy(c, b, i) = DueBy(c, a, i)
  BY <1>3
<1>5. Made(c, b, i, j) = Made(c, a, i, j)
  <2>1. CASE i = 0
    BY <2>1 DEF Made
  <2>2. CASE i # 0
    <3>1. i - 1 \in 0 .. Len(a) /\ i \in 1 .. Len(a)
      BY <2>2
    <3>2. DueBy(c, b, i - 1) = DueBy(c, a, i - 1)
      BY <1>3, <3>1
    <3>3. b[i] = a[i]
      BY <1>1, <3>1
    <3> QED BY <2>2, <3>2, <3>3 DEF Made
  <2> QED BY <2>1, <2>2
<1> QED BY <1>2, <1>4, <1>5 DEF b

-----------------------------------------------------------------------------
(* The messages globalsd has written to a client: for each request served *)
(* its header and its rows, in order.                                     *)

\* The request and the row that message x of ms is about, 0 for a header.
IdAt(ms, x) == IF x = 0 THEN 0 ELSE ms[x].id
RowAt(ms, x) == IF x = 0 THEN 0 ELSE IF IsAck(ms[x]) THEN 0 ELSE ms[x].row

\* The message after request i's row j.
Follows(m, a, s, i, j) ==
  \/ i \in 1 .. s /\ j \in Nat /\ j < RowsOf(a, i) /\ m = Row(i, j + 1)
  \/ i \in 0 .. s - 1 /\ j = RowsOf(a, i) /\ m = Ack(i + 1, RowsOf(a, i + 1))

\* ms answers the first s of the requests a.
Chain(ms, a, s) ==
  /\ ms \in Seq(Messages)
  /\ IdAt(ms, Len(ms)) = s /\ RowAt(ms, Len(ms)) = RowsOf(a, s)
  /\ \A x \in 1 .. Len(ms) : Follows(ms[x], a, s, IdAt(ms, x - 1), RowAt(ms, x - 1))

\* The two messages of an answer.
LEMMA AnswerFields ==
  ASSUME NEW n, NEW k
  PROVE  /\ IsAck(Ack(n, k)) /\ Ack(n, k).id = n /\ Ack(n, k).count = k
         /\ ~IsAck(Row(n, k)) /\ Row(n, k).id = n /\ Row(n, k).row = k
<1>1. IsAck(Ack(n, k)) /\ ~IsAck(Row(n, k))
  BY DEF IsAck, Ack, Row
<1>2. Ack(n, k).id = n /\ Ack(n, k).count = k
  BY DEF Ack
<1>3. Row(n, k).id = n /\ Row(n, k).row = k
  BY DEF Row
<1> QED BY <1>1, <1>2, <1>3

\* Nothing is written before the first request is served.
LEMMA ChainStart ==
  ASSUME NEW a
  PROVE  Chain(<<>>, a, 0)
<1>1. <<>> \in Seq(Messages) /\ Len(<<>>) = 0
  OBVIOUS
<1> QED BY <1>1 DEF Chain, IdAt, RowAt, RowsOf

\* Later requests change nothing of it.
LEMMA ChainStays ==
  ASSUME NEW ms, NEW a \in Seq(Requests), NEW r \in Requests, NEW s \in 0 .. Len(a),
         Chain(ms, a, s)
  PROVE  Chain(ms, Append(a, r), s)
<1> DEFINE b == Append(a, r)
<1>1. \A i \in 0 .. Len(a) : RowsOf(b, i) = RowsOf(a, i)
  BY MadeStays
<1> HIDE DEF b
<1>2. ASSUME NEW m, NEW i, NEW j, Follows(m, a, s, i, j)
      PROVE  Follows(m, b, s, i, j)
  <2>1. CASE i \in 1 .. s /\ j \in Nat /\ j < RowsOf(a, i) /\ m = Row(i, j + 1)
    <3>1. i \in 0 .. Len(a)
      BY <2>1
    <3> QED BY <1>1, <2>1, <3>1 DEF Follows
  <2>2. CASE i \in 0 .. s - 1 /\ j = RowsOf(a, i) /\ m = Ack(i + 1, RowsOf(a, i + 1))
    <3>1. i \in 0 .. Len(a) /\ i + 1 \in 0 .. Len(a)
      BY <2>2
    <3> QED BY <1>1, <2>2, <3>1 DEF Follows
  <2> QED BY <1>2, <2>1, <2>2 DEF Follows
<1>3. RowAt(ms, Len(ms)) = RowsOf(b, s)
  BY <1>1 DEF Chain
<1>4. ms \in Seq(Messages) /\ IdAt(ms, Len(ms)) = s
  BY DEF Chain
<1>5. \A x \in 1 .. Len(ms) : Follows(ms[x], b, s, IdAt(ms, x - 1), RowAt(ms, x - 1))
  BY <1>2 DEF Chain
<1>6. Chain(ms, b, s)
  BY <1>3, <1>4, <1>5 DEF Chain
<1> QED BY <1>6 DEF b

\* A later request served changes nothing of it.
LEMMA FollowsMore ==
  ASSUME NEW m, NEW a, NEW s \in Nat, NEW i, NEW j, Follows(m, a, s, i, j)
  PROVE  Follows(m, a, s + 1, i, j)
<1>1. CASE i \in 1 .. s /\ j \in Nat /\ j < RowsOf(a, i) /\ m = Row(i, j + 1)
  <2>1. i \in 1 .. s + 1
    BY <1>1
  <2> QED BY <1>1, <2>1 DEF Follows
<1>2. CASE i \in 0 .. s - 1 /\ j = RowsOf(a, i) /\ m = Ack(i + 1, RowsOf(a, i + 1))
  <2>1. i \in 0 .. (s + 1) - 1
    BY <1>2
  <2> QED BY <1>2, <2>1 DEF Follows
<1> QED BY <1>1, <1>2 DEF Follows

\* The messages of an answer, and what becomes of all when it is written.
AnswerTo(n, k) == <<Ack(n, k)>> \o Rows(n, k)

Grown(ms, both, a, n) ==
  /\ Chain(both, a, n)
  /\ Len(both) >= Len(ms)
  /\ \A x \in 1 .. Len(ms) : both[x] = ms[x]
  /\ \A x \in 0 .. Len(ms) : IdAt(both, x) = IdAt(ms, x) /\ RowAt(both, x) = RowAt(ms, x)

\* The answer to the next request goes on with it.
LEMMA ChainMore ==
  ASSUME NEW ms, NEW a, NEW s \in Nat, Chain(ms, a, s),
         NEW n, n = s + 1, NEW k \in Nat, RowsOf(a, n) = k
  PROVE  Grown(ms, ms \o AnswerTo(n, k), a, n)
<1> DEFINE ws == AnswerTo(n, k)
           L == Len(ms)
           both == ms \o ws
<1>1. /\ ms \in Seq(Messages) /\ L \in Nat
      /\ IdAt(ms, L) = s /\ RowAt(ms, L) = RowsOf(a, s)
      /\ \A x \in 1 .. L : Follows(ms[x], a, s, IdAt(ms, x - 1), RowAt(ms, x - 1))
  BY DEF Chain
<1>2. n \in Nat /\ n = s + 1 /\ RowsOf(a, n) = k
  OBVIOUS
<1>3. /\ ws \in Seq(Messages) /\ Len(ws) = 1 + k
      /\ ws[1] = Ack(n, k)
      /\ \A y \in 1 .. k : ws[1 + y] = Row(n, y)
  <2> DEFINE one == <<Ack(n, k)>>
             rows == Rows(n, k)
  <2>1. Ack(n, k) \in Messages
    BY <1>2, AnswerMessages
  <2>2. one \in Seq(Messages) /\ Len(one) = 1 /\ one[1] = Ack(n, k)
    BY <2>1
  <2>3. rows \in Seq(Messages)
    BY <1>2, RestRows
  <2>4. Len(rows) = k /\ \A y \in 1 .. k : rows[y] = Row(n, y)
    BY DEF Rows
  <2>5. ws = one \o rows
    BY DEF AnswerTo
  <2> HIDE DEF one, rows, ws
  <2>6. /\ one \o rows \in Seq(Messages) /\ Len(one \o rows) = Len(one) + Len(rows)
        /\ \A i \in 1 .. Len(one) : (one \o rows)[i] = one[i]
        /\ \A i \in 1 .. Len(rows) : (one \o rows)[Len(one) + i] = rows[i]
    <3>1. one \in Seq(Messages) /\ rows \in Seq(Messages)
      BY <2>2, <2>3
    <3> QED BY <3>1, ConcatFacts
  <2>7. ws[1] = one[1]
    BY <2>2, <2>5, <2>6
  <2>8. /\ ws \in Seq(Messages) /\ Len(ws) = 1 + k
        /\ \A y \in 1 .. k : ws[1 + y] = rows[y]
    BY <2>2, <2>4, <2>5, <2>6
  <2> QED BY <2>2, <2>4, <2>7, <2>8
<1> HIDE DEF ws
<1>4. /\ both \in Seq(Messages) /\ Len(both) = L + (1 + k)
      /\ \A x \in 1 .. L : both[x] = ms[x]
      /\ \A y \in 1 .. 1 + k : both[L + y] = ws[y]
  <2>1. ms \in Seq(Messages) /\ ws \in Seq(Messages)
    BY <1>1, <1>3
  <2>2. /\ both \in Seq(Messages) /\ Len(both) = Len(ms) + Len(ws)
        /\ \A i \in 1 .. Len(ms) : both[i] = ms[i]
        /\ \A i \in 1 .. Len(ws) : both[Len(ms) + i] = ws[i]
    BY <2>1, ConcatFacts
  <2> HIDE DEF both
  <2>3. Len(ws) = 1 + k
    BY <1>3
  <2> QED BY <2>2, <2>3
<1> HIDE DEF both, L
<1>5. \A x \in 0 .. L : IdAt(both, x) = IdAt(ms, x) /\ RowAt(both, x) = RowAt(ms, x)
  <2>1. ASSUME NEW x \in 0 .. L
        PROVE  IdAt(both, x) = IdAt(ms, x) /\ RowAt(both, x) = RowAt(ms, x)
    <3>1. x = 0 \/ both[x] = ms[x]
      BY <1>1, <1>4
    <3> QED BY <3>1 DEF IdAt, RowAt
  <2> QED BY <2>1
<1>6. \A y \in 0 .. k : IdAt(both, L + (1 + y)) = n /\ RowAt(both, L + (1 + y)) = y
  <2>1. ASSUME NEW y \in 0 .. k
        PROVE  IdAt(both, L + (1 + y)) = n /\ RowAt(both, L + (1 + y)) = y
    <3> DEFINE x == L + (1 + y)
    <3>1. x # 0 /\ 1 + y \in 1 .. 1 + k
      BY <1>1
    <3>2. both[x] = ws[1 + y]
      BY <3>1, <1>4
    <3> HIDE DEF x
    <3>3. CASE y = 0
      <4>1. both[x] = Ack(n, k)
        <5>1. 1 + y = 1
          BY <3>3
        <5> QED BY <3>2, <5>1, <1>3
      <4> QED BY <3>1, <3>3, <4>1, AnswerFields DEF IdAt, RowAt, x
    <3>4. CASE y # 0
      <4>1. y \in 1 .. k
        BY <3>4
      <4>2. both[x] = Row(n, y)
        BY <3>2, <4>1, <1>3
      <4>3. ~IsAck(both[x]) /\ both[x].id = n /\ both[x].row = y
        BY <4>2, AnswerFields
      <4> QED BY <3>1, <4>3 DEF IdAt, RowAt, x
    <3> QED BY <3>3, <3>4
  <2> QED BY <2>1
<1>7. ASSUME NEW x \in 1 .. Len(both)
      PROVE  Follows(both[x], a, n, IdAt(both, x - 1), RowAt(both, x - 1))
  <2>1. CASE x \in 1 .. L
    <3>1. x - 1 \in 0 .. L
      BY <1>1, <2>1
    <3>2. Follows(ms[x], a, s, IdAt(ms, x - 1), RowAt(ms, x - 1))
      BY <1>1, <2>1
    <3>3. Follows(ms[x], a, s + 1, IdAt(ms, x - 1), RowAt(ms, x - 1))
      BY <3>2, FollowsMore
    <3> QED BY <1>2, <1>4, <1>5, <2>1, <3>1, <3>3
  <2>2. CASE x = L + 1
    <3>1. x - 1 = L /\ L \in 0 .. L
      BY <1>1, <2>2
    <3>2. IdAt(both, x - 1) = s /\ RowAt(both, x - 1) = RowsOf(a, s)
      BY <1>1, <1>5, <3>1
    <3>3. both[x] = Ack(n, k)
      <4>1. 1 \in 1 .. 1 + k
        OBVIOUS
      <4>2. both[L + 1] = ws[1]
        BY <4>1, <1>4
      <4> QED BY <2>2, <4>2, <1>3
    <3>4. s \in 0 .. n - 1
      BY <1>2
    <3> QED BY <1>2, <3>2, <3>3, <3>4 DEF Follows
  <2>3. CASE x \notin 1 .. L /\ x # L + 1
    <3> DEFINE y == x - L - 2
    <3>1. /\ y \in 0 .. k /\ y \in Nat /\ y < k /\ x - 1 = L + (1 + y)
          /\ y + 1 \in 1 .. k /\ 1 + (y + 1) \in 1 .. 1 + k /\ x = L + (1 + (y + 1))
      <4>1. L \in Nat /\ x \in 1 .. L + (1 + k) /\ x \notin 1 .. L /\ x # L + 1
        BY <1>1, <1>4, <2>3
      <4> QED BY <4>1
    <3> HIDE DEF y
    <3>2. IdAt(both, x - 1) = n /\ RowAt(both, x - 1) = y
      BY <1>6, <3>1
    <3>3. both[x] = Row(n, y + 1)
      <4>1. both[x] = ws[1 + (y + 1)]
        BY <1>4, <3>1
      <4> QED BY <4>1, <1>3, <3>1
    <3>4. n \in 1 .. n
      BY <1>2
    <3> QED BY <1>2, <3>1, <3>2, <3>3, <3>4 DEF Follows
  <2> QED BY <2>1, <2>2, <2>3
<1>8. IdAt(both, Len(both)) = n /\ RowAt(both, Len(both)) = RowsOf(a, n)
  <2>1. k \in 0 .. k
    OBVIOUS
  <2> QED BY <2>1, <1>2, <1>4, <1>6
<1>9. Chain(both, a, n)
  BY <1>4, <1>7, <1>8 DEF Chain
<1>10. Len(both) >= L
  BY <1>1, <1>4
<1> QED BY <1>4, <1>5, <1>9, <1>10 DEF Grown, both, L, ws

-----------------------------------------------------------------------------
(* What a piece does to the state of a handler. *)

\* Requests whose answer does not throw.
Answerable == \A r \in Requests : r.op \in {"find", "save"}

\* The requests a of client c as the messages it sends.
SentOf(c, a) == [i \in 1 .. Len(a) |-> Ask(c, i, a[i])]

\* globalsd with h requests of client c served, sv being what it has served,
\* the cut object p and the answers o.
ServerAt(c, sv, h, p, o) ==
  [partial |-> p, served |-> [sv EXCEPT ![c] = [i \in 1 .. h |-> i]], out |-> o]

\* Client c once j rows of request i have come, with the cut object p and the
\* calls cl.
ClientAt(c, a, i, j, p, cl) ==
  [partial |-> p, size |-> RowsOf(a, i), counter |-> j, current |-> i,
   batch |-> IF c \in Stream THEN <<>> ELSE Rows(i, j), calls |-> cl]

IsClient(st, c, a, i, j, p, cl) ==
  /\ c \in Clients /\ a = asked[c] /\ cl \in Seq(CallType)
  /\ st = ClientAt(c, a, i, j, p, cl)

\* The text of a message is an object, half of it is not.
LEMMA TextFacts ==
  ASSUME NEW m
  PROVE  /\ Text(m) # <<>> /\ IsObject(Text(m)) /\ Text(m)[1].msg = m
         /\ Cut(m, 1) # <<>> /\ ~IsObject(Cut(m, 1))
<1>1. /\ Len(Text(m)) = 2 /\ Text(m)[1] = [msg |-> m, part |-> 1]
  BY DEF Text
<1>2. Text(m) # <<>> /\ Text(m)[1].msg = m
  BY <1>1
<1>3. IsObject(Text(m))
  BY <1>2 DEF IsObject
<1>4. Cut(m, 1) # <<>> /\ Len(Cut(m, 1)) = 1
  BY DEF Cut
<1>5. \A x : Cut(m, 1) # Text(x)
  <2>1. \A x : Len(Text(x)) = 2
    BY DEF Text
  <2> QED BY <1>4, <2>1
<1>6. ~IsObject(Cut(m, 1))
  BY <1>5 DEF IsObject
<1> QED BY <1>2, <1>3, <1>4, <1>6

\* The messages of a client.
LEMMA SentFacts ==
  ASSUME NEW c \in Clients, NEW a \in Seq(Requests)
  PROVE  /\ SentOf(c, a) \in Seq(Messages) /\ Len(SentOf(c, a)) = Len(a)
         /\ \A i \in 1 .. Len(a) : SentOf(c, a)[i] = Ask(c, i, a[i])
         /\ \A i \in Nat, r \in Requests : Ask(c, i, r) \in Messages
<1>1. \A i \in Nat, r \in Requests : Ask(c, i, r) \in Messages
  BY DEF Ask, Messages
<1>2. \A i \in 1 .. Len(a) : Ask(c, i, a[i]) \in Messages
  BY <1>1
<1>3. SentOf(c, a) \in [1 .. Len(a) -> Messages]
  BY <1>2 DEF SentOf
<1>4. SentOf(c, a) \in Seq(Messages) /\ Len(SentOf(c, a)) = Len(a)
  BY <1>3
<1>5. \A i \in 1 .. Len(a) : SentOf(c, a)[i] = Ask(c, i, a[i])
  BY DEF SentOf
<1> QED BY <1>1, <1>4, <1>5

\* One more request.
LEMMA SentMore ==
  ASSUME NEW c \in Clients, NEW a \in Seq(Requests), NEW r \in Requests
  PROVE  SentOf(c, Append(a, r)) = SentOf(c, a) \o <<Ask(c, Len(a) + 1, r)>>
<1> DEFINE b == Append(a, r)
           n == Len(a)
           s == SentOf(c, a)
           u == SentOf(c, b)
           e == Ask(c, n + 1, r)
<1>1. /\ b \in Seq(Requests) /\ Len(b) = n + 1 /\ n \in Nat
      /\ \A i \in 1 .. n : b[i] = a[i]
      /\ b[n + 1] = r
  BY AppendFacts
<1> HIDE DEF b
<1>2. /\ s \in Seq(Messages) /\ Len(s) = n
      /\ \A i \in 1 .. n : s[i] = Ask(c, i, a[i])
  BY SentFacts
<1>3. /\ u \in Seq(Messages) /\ Len(u) = n + 1
      /\ \A i \in 1 .. n + 1 : u[i] = Ask(c, i, b[i])
  BY <1>1, SentFacts
<1>4. e \in Messages
  <2>1. n + 1 \in Nat
    BY <1>1
  <2> QED BY <2>1, SentFacts
<1>5. u[n + 1] = e
  <2>1. n + 1 \in 1 .. n + 1
    BY <1>1
  <2> QED BY <2>1, <1>1, <1>3
<1>6. \A i \in 1 .. n : u[i] = s[i]
  <2>1. \A i \in 1 .. n : i \in 1 .. n + 1
    BY <1>1
  <2> QED BY <2>1, <1>1, <1>2, <1>3
<1> HIDE DEF n, s, u, e
<1>7. s \in [1 .. n -> Messages] /\ u \in [1 .. n + 1 -> Messages]
  BY <1>2, <1>3
<1>8. u = s \o <<e>>
  BY <1>1, <1>4, <1>5, <1>6, <1>7, OneMore
<1> QED BY <1>8 DEF u, s, e, n, b

\* A piece in globalsd: nothing, a request, or the first half of one.
LEMMA ServerTurn ==
  ASSUME Answerable, NEW c \in Clients, NEW sv, DOMAIN sv = Clients, NEW h \in Nat,
         NEW p, NEW o, NEW st, st = ServerAt(c, sv, h, p, o)
  PROVE  /\ Turn("server", 0, st, <<>>) = st
         /\ \A r \in Requests :
              Turn("server", 0, st, Text(Ask(c, h + 1, r)))
                = ServerAt(c, sv, h + 1, <<>>, o \o Reply(h + 1, r.rows))
         /\ \A m : Turn("server", 0, st, Cut(m, 1)) = ServerAt(c, sv, h, Cut(m, 1), o)
<1>1. Turn("server", 0, st, <<>>) = st
  BY DEF Turn, Handled
<1>2. ASSUME NEW r \in Requests
      PROVE  Turn("server", 0, st, Text(Ask(c, h + 1, r)))
               = ServerAt(c, sv, h + 1, <<>>, o \o Reply(h + 1, r.rows))
  <2> DEFINE n == h + 1
             m == Ask(c, n, r)
             seg == Text(m)
             did == [st EXCEPT !.served[m.from] = Append(@, m.id)]
             new == [did EXCEPT !.out = @ \o Reply(m.id, m.req.rows)]
             seq == [i \in 1 .. h |-> i]
             long == [i \in 1 .. n |-> i]
  <2>1. m.from = c /\ m.id = n /\ m.req = r
    BY DEF Ask
  <2>2. r.op # "bad" /\ r.op # "add"
    BY DEF Answerable
  <2> HIDE DEF m
  <2>3. seg # <<>> /\ IsObject(seg) /\ seg[1].msg = m
    BY TextFacts
  <2> HIDE DEF seg
  <2>4. OnRequest(st, m) = [threw |-> FALSE, state |-> new]
    BY <2>1, <2>2 DEF OnRequest
  <2>5. Turn("server", 0, st, seg) = [new EXCEPT !.partial = <<>>]
    BY <2>3, <2>4 DEF Turn, Handled
  <2>6. Append(seq, n) = long
    <3> DEFINE ap == Append(seq, n)
    <3>1. seq \in Seq(Nat) /\ Len(seq) = h /\ \A i \in 1 .. h : seq[i] = i
      OBVIOUS
    <3>2. long \in Seq(Nat) /\ Len(long) = n /\ \A i \in 1 .. n : long[i] = i
      OBVIOUS
    <3> HIDE DEF seq, long
    <3>3. /\ ap \in Seq(Nat) /\ Len(ap) = Len(seq) + 1
          /\ \A i \in 1 .. Len(seq) : ap[i] = seq[i]
          /\ ap[Len(seq) + 1] = n
      <4>1. n \in Nat
        OBVIOUS
      <4> QED BY <3>1, <4>1, AppendFacts
    <3> HIDE DEF ap
    <3>4. Len(ap) = Len(long) /\ \A i \in 1 .. Len(ap) : ap[i] = long[i]
      <4>1. \A i \in 1 .. n : i \in 1 .. h \/ i = n
        OBVIOUS
      <4> QED BY <3>1, <3>2, <3>3, <4>1
    <3>5. ap = long
      BY <3>2, <3>3, <3>4, SeqEqual
    <3> QED BY <3>5 DEF ap
  <2> HIDE DEF seq, long, n
  <2>7. st = [partial |-> p, served |-> [sv EXCEPT ![c] = seq], out |-> o]
    BY DEF ServerAt, seq
  <2>8. did = [partial |-> p, served |-> [sv EXCEPT ![c] = long], out |-> o]
    <3> DEFINE f == [sv EXCEPT ![c] = seq]
    <3>1. f[c] = seq
      OBVIOUS
    <3>2. [f EXCEPT ![c] = long] = [sv EXCEPT ![c] = long]
      OBVIOUS
    <3> HIDE DEF f
    <3>3. did = [st EXCEPT !.served = [f EXCEPT ![c] = Append(f[c], n)]]
      BY <2>1, <2>7 DEF f
    <3> QED BY <2>6, <2>7, <3>1, <3>2, <3>3
  <2> HIDE DEF did
  <2>9. [new EXCEPT !.partial = <<>>]
          = [partial |-> <<>>, served |-> [sv EXCEPT ![c] = long],
             out |-> o \o Reply(n, r.rows)]
    <3> DEFINE g == [sv EXCEPT ![c] = long]
    <3>1. did = [partial |-> p, served |-> g, out |-> o]
      BY <2>8
    <3> HIDE DEF g
    <3>2. new = [did EXCEPT !.out = o \o Reply(n, r.rows)]
      BY <2>1, <3>1
    <3> HIDE DEF new
    <3> DEFINE w == o \o Reply(n, r.rows)
    <3> HIDE DEF w
    <3>3. new = [did EXCEPT !.out = w]
      BY <3>2 DEF w
    <3>4. new = [partial |-> p, served |-> g, out |-> w]
      BY <3>1, <3>3
    <3>5. [new EXCEPT !.partial = <<>>] = [partial |-> <<>>, served |-> g, out |-> w]
      BY <3>4
    <3> QED BY <3>5 DEF g, w
  <2> HIDE DEF new
  <2> QED BY <2>5, <2>9 DEF ServerAt, long, seg, m, n
<1>3. ASSUME NEW m
      PROVE  Turn("server", 0, st, Cut(m, 1)) = ServerAt(c, sv, h, Cut(m, 1), o)
  <2> DEFINE seg == Cut(m, 1)
  <2>1. seg # <<>> /\ ~IsObject(seg)
    BY TextFacts
  <2> HIDE DEF seg
  <2>2. Turn("server", 0, st, seg) = [st EXCEPT !.partial = seg]
    BY <2>1 DEF Turn, Handled
  <2>3. [st EXCEPT !.partial = seg] = ServerAt(c, sv, h, seg, o)
    <3> DEFINE g == [sv EXCEPT ![c] = [i \in 1 .. h |-> i]]
    <3>1. st = [partial |-> p, served |-> g, out |-> o]
      BY DEF ServerAt
    <3>2. ServerAt(c, sv, h, seg, o) = [partial |-> seg, served |-> g, out |-> o]
      BY DEF ServerAt
    <3> HIDE DEF g
    <3> QED BY <3>1, <3>2
  <2> QED BY <2>2, <2>3 DEF seg
<1> QED BY <1>1, <1>2, <1>3

\* A piece in a client: nothing, a header, a row, or the first half of one.
LEMMA ClientTurn ==
  ASSUME NEW c, NEW a, NEW i, NEW j, NEW p, NEW cl,
         NEW st, IsClient(st, c, a, i, j, p, cl)
  PROVE  /\ Turn("client", c, st, <<>>) = st
         /\ \A m : Turn("client", c, st, Cut(m, 1)) = ClientAt(c, a, i, j, Cut(m, 1), cl)
<1>1. Turn("client", c, st, <<>>) = st
  BY DEF Turn, Handled
<1>2. ASSUME NEW m
      PROVE  Turn("client", c, st, Cut(m, 1)) = ClientAt(c, a, i, j, Cut(m, 1), cl)
  <2> DEFINE seg == Cut(m, 1)
  <2>1. seg # <<>> /\ ~IsObject(seg)
    BY TextFacts
  <2> HIDE DEF seg
  <2>2. Turn("client", c, st, seg) = [st EXCEPT !.partial = seg]
    BY <2>1 DEF Turn, Handled
  <2>3. [st EXCEPT !.partial = seg] = ClientAt(c, a, i, j, seg, cl)
    BY DEF ClientAt, IsClient
  <2> QED BY <2>2, <2>3 DEF seg
<1> QED BY <1>1, <1>2

\* The header of the next answer.
LEMMA ClientHeader ==
  ASSUME NEW c, NEW a, NEW i, NEW j, NEW n, NEW k, NEW p, NEW cl, NEW st,
         IsClient(st, c, a, i, j, p, cl), NextHeader(a, i, n, k)
  PROVE  Turn("client", c, st, Text(Ack(n, k)))
           = ClientAt(c, a, n, 0, <<>>, cl \o Brings(c, n, k, 0))
<1>0. /\ a = asked[c] /\ n \in 1 .. Len(a) /\ n # 0 /\ n \in 1 .. MaxRequests
      /\ k \in Nat /\ RowsOf(a, n) = k
      /\ cl \in Seq(CallType) /\ st = ClientAt(c, a, i, j, p, cl)
      /\ a \in Seq(Requests)
  <2>1. /\ a \in Seq(Requests) /\ Len(a) <= MaxRequests /\ i \in Nat /\ i < Len(a)
        /\ n = i + 1 /\ k = a[n].rows
    BY DEF NextHeader
  <2>2. n \in 1 .. Len(a) /\ n # 0 /\ n \in 1 .. MaxRequests /\ a[n] \in Requests
    BY <2>1, WireAssumption
  <2>3. k \in Nat
    BY <2>1, <2>2, WireAssumption
  <2> QED BY <2>1, <2>2, <2>3 DEF IsClient, RowsOf
<1> USE <1>0
<1> DEFINE m == Ack(n, k)
           seg == Text(m)
           b0 == IF c \in Stream THEN <<>> ELSE Rows(i, j)
           ack == [st EXCEPT !.size = m.count, !.counter = 0, !.current = m.id]
           new == [ack EXCEPT !.batch = <<>>]
           e == <<n, <<>>>>
           brings == Brings(c, n, k, 0)
           end == ClientAt(c, a, n, 0, <<>>, cl \o brings)
<1>1. IsAck(m) /\ m.id = n /\ m.count = k
  BY AnswerFields
<1>2. n \in DOMAIN asked[c] /\ Rows(n, 0) = <<>>
  <2>1. Rows(n, 0) = <<>>
    BY DEF Rows
  <2> QED BY <2>1
<1>3. <<>> \in Seq(CallType) /\ e \in CallType
  <2>1. <<>> \in Seq(Messages) /\ <<>> \in Seq(CallType)
    OBVIOUS
  <2> QED BY <2>1 DEF CallType
<1>4. /\ cl \o <<>> = cl
      /\ Append(cl, e) = cl \o <<e>>
  <2> HIDE DEF e
  <2>1. cl \o <<>> = cl
    BY ConcatEmptySeq
  <2>2. Append(cl, e) = cl \o <<e>>
    BY <1>3, AppendIsConcat
  <2> QED BY <2>1, <2>2
<1> HIDE DEF m
<1>5. seg # <<>> /\ IsObject(seg) /\ seg[1].msg = m
  BY TextFacts
<1>6. st = [partial |-> p, size |-> RowsOf(a, i), counter |-> j, current |-> i,
            batch |-> b0, calls |-> cl]
  BY DEF ClientAt
<1>7. end = [partial |-> <<>>, size |-> k, counter |-> 0, current |-> n,
             batch |-> <<>>, calls |-> cl \o brings]
  BY <1>2 DEF ClientAt
<1> HIDE DEF seg, b0, end, e, brings
<1>8. ack = [partial |-> p, size |-> k, counter |-> 0, current |-> n,
             batch |-> b0, calls |-> cl]
  <2> DEFINE a1 == [st EXCEPT !.size = k]
             a2 == [a1 EXCEPT !.counter = 0]
             a3 == [a2 EXCEPT !.current = n]
  <2>1. a1 = [partial |-> p, size |-> k, counter |-> j, current |-> i,
              batch |-> b0, calls |-> cl]
    BY <1>6
  <2>2. ack = a3
    BY <1>1
  <2> HIDE DEF a1
  <2>3. a2 = [partial |-> p, size |-> k, counter |-> 0, current |-> i,
              batch |-> b0, calls |-> cl]
    BY <2>1
  <2> HIDE DEF a2
  <2>4. a3 = [partial |-> p, size |-> k, counter |-> 0, current |-> n,
              batch |-> b0, calls |-> cl]
    BY <2>3
  <2> QED BY <2>2, <2>4
<1> HIDE DEF ack
<1>9. new = [partial |-> p, size |-> k, counter |-> 0, current |-> n,
             batch |-> <<>>, calls |-> cl]
  BY <1>8
<1> HIDE DEF new
<1>10. CASE k > 0
  <2>1. OnObject(c, st, m) = [threw |-> FALSE, state |-> new]
    BY <1>1, <1>10 DEF OnObject, ack, new
  <2>2. Turn("client", c, st, seg) = [new EXCEPT !.partial = <<>>]
    BY <1>5, <2>1 DEF Turn, Handled
  <2>3. [new EXCEPT !.partial = <<>>]
          = [partial |-> <<>>, size |-> k, counter |-> 0, current |-> n,
             batch |-> <<>>, calls |-> cl]
    BY <1>9
  <2>4. brings = <<>>
    BY <1>10 DEF Brings, brings
  <2>5. Turn("client", c, st, seg) = end
    BY <1>4, <1>7, <2>2, <2>3, <2>4
  <2> QED BY <2>5 DEF seg, m, end, brings
<1>11. CASE k = 0
  <2> DEFINE did == [ack EXCEPT !.calls = Append(@, <<ack.current, <<>>>>)]
             t == Callback(c, ack, <<>>)
             fin == [did EXCEPT !.batch = <<>>]
             w == Append(cl, e)
  <2>1. ack.current = n
    BY <1>8
  <2>2. t = [threw |-> FALSE, state |-> did]
    BY <1>2, <2>1 DEF Callback
  <2>3. did = [partial |-> p, size |-> k, counter |-> 0, current |-> n,
               batch |-> b0, calls |-> w]
    <3>1. ack.calls = cl
      BY <1>8
    <3>2. did = [ack EXCEPT !.calls = w]
      BY <2>1, <3>1 DEF e
    <3> HIDE DEF w
    <3> QED BY <1>8, <3>2
  <2> HIDE DEF did, w, t
  <2>4. fin = [partial |-> p, size |-> k, counter |-> 0, current |-> n,
               batch |-> <<>>, calls |-> w]
    BY <2>3
  <2>5. ~t.threw /\ [t EXCEPT !.state.batch = <<>>] = [threw |-> FALSE, state |-> fin]
    <3>1. ~t.threw /\ t.state = did
      BY <2>2
    <3>2. [t EXCEPT !.state.batch = <<>>] = [t EXCEPT !.state = fin]
      <4>1. [t EXCEPT !.state.batch = <<>>]
              = [t EXCEPT !.state = [t.state EXCEPT !.batch = <<>>]]
        OBVIOUS
      <4> QED BY <3>1, <4>1, Zenon
    <3> HIDE DEF fin
    <3>3. [t EXCEPT !.state = fin] = [threw |-> FALSE, state |-> fin]
      <4> DEFINE no == FALSE
      <4>1. t = [threw |-> no, state |-> did]
        BY <2>2
      <4> HIDE DEF no
      <4>2. [t EXCEPT !.state = fin] = [threw |-> no, state |-> fin]
        BY <4>1
      <4> QED BY <4>2 DEF no
    <3> QED BY <3>1, <3>2, <3>3
  <2> HIDE DEF fin
  <2>6. OnObject(c, st, m) = [threw |-> FALSE, state |-> fin]
    BY <1>1, <1>11, <2>5 DEF OnObject, ack, t
  <2>7. Turn("client", c, st, seg) = [fin EXCEPT !.partial = <<>>]
    BY <1>5, <2>6 DEF Turn, Handled
  <2>8. [fin EXCEPT !.partial = <<>>]
          = [partial |-> <<>>, size |-> k, counter |-> 0, current |-> n,
             batch |-> <<>>, calls |-> w]
    BY <2>4
  <2>9. brings = <<e>>
    BY <1>2, <1>11 DEF Brings, brings, e
  <2>10. Turn("client", c, st, seg) = end
    BY <1>4, <1>7, <2>7, <2>8, <2>9 DEF w
  <2> QED BY <2>10 DEF seg, m, end, brings
<1> QED BY <1>10, <1>11

\* The next row.
LEMMA ClientRow ==
  ASSUME NEW c, NEW a, NEW i, NEW j, NEW n, NEW k, NEW p, NEW cl, NEW st,
         IsClient(st, c, a, i, j, p, cl), NextRow(a, i, j, n, k)
  PROVE  Turn("client", c, st, Text(Row(i, n)))
           = ClientAt(c, a, i, n, <<>>, cl \o Brings(c, i, k, n))
<1>0. /\ a = asked[c] /\ i \in 1 .. Len(a) /\ i # 0 /\ i \in 1 .. MaxRequests
      /\ a \in Seq(Requests) /\ j \in Nat /\ n = j + 1 /\ j < k
      /\ k \in Nat /\ RowsOf(a, i) = k
      /\ cl \in Seq(CallType) /\ st = ClientAt(c, a, i, j, p, cl)
  <2>1. /\ a \in Seq(Requests) /\ Len(a) <= MaxRequests /\ i \in 1 .. Len(a)
        /\ j \in Nat /\ n = j + 1 /\ k = a[i].rows /\ j < k
    BY DEF NextRow
  <2>2. i # 0 /\ i \in 1 .. MaxRequests /\ a[i] \in Requests
    BY <2>1, WireAssumption
  <2>3. k \in Nat
    BY <2>1, <2>2, WireAssumption
  <2> QED BY <2>1, <2>2, <2>3 DEF IsClient, RowsOf
<1> USE <1>0
<1> DEFINE m == Row(i, n)
           seg == Text(m)
           b0 == IF c \in Stream THEN <<>> ELSE Rows(i, j)
           b1 == IF c \in Stream THEN <<>> ELSE Rows(i, n)
           one == [st EXCEPT !.counter = @ + 1]
           brings == Brings(c, i, k, n)
           end == ClientAt(c, a, i, n, <<>>, cl \o brings)
<1>1. ~IsAck(m) /\ m \in Messages
  <2>1. i \in Nat /\ n \in Nat
    OBVIOUS
  <2> QED BY <2>1, AnswerFields, AnswerMessages
<1>2. i \in DOMAIN asked[c] /\ n # 0 /\ n > 0 /\ k # 0
  OBVIOUS
<1>3. Rows(i, n) = Append(Rows(i, j), m)
  <2> DEFINE s == Rows(i, j)
             u == Rows(i, n)
  <2>1. i \in Nat /\ n \in Nat /\ j \in Nat
    OBVIOUS
  <2>2. s \in Seq(Messages) /\ u \in Seq(Messages)
    BY <2>1, RestRows
  <2>3. /\ s \in [1 .. j -> Messages] /\ u \in [1 .. j + 1 -> Messages]
        /\ \A x \in 1 .. j : u[x] = s[x]
        /\ u[j + 1] = m
    <3>1. Len(s) = j /\ Len(u) = j + 1
      BY DEF Rows
    <3>2. \A x \in 1 .. j : u[x] = s[x]
      BY DEF Rows
    <3>3. u[j + 1] = m
      BY DEF Rows
    <3> HIDE DEF s, u
    <3> QED BY <2>2, <3>1, <3>2, <3>3
  <2> HIDE DEF s, u, m
  <2>4. u = s \o <<m>>
    BY <1>1, <2>3, OneMore
  <2>5. Append(s, m) = s \o <<m>>
    BY <1>1, <2>2, AppendIsConcat
  <2> QED BY <2>4, <2>5 DEF s, u
<1>4. /\ cl \o <<>> = cl
      /\ \A e \in CallType : Append(cl, e) = cl \o <<e>>
  BY ConcatEmptySeq, AppendIsConcat
<1>12. <<i, <<m>>>> \in CallType /\ <<i, Rows(i, n)>> \in CallType
  <2>1. i \in Nat /\ n \in Nat
    OBVIOUS
  <2>2. Rows(i, n) \in Seq(Messages)
    BY <2>1, RestRows
  <2>3. <<m>> \in Seq(Messages)
    BY <1>1
  <2> QED BY <2>2, <2>3 DEF CallType
<1>13. brings = IF n = k /\ c \notin Stream THEN <<<<i, Rows(i, k)>>>>
                ELSE IF c \in Stream THEN <<<<i, <<m>>>>>> ELSE <<>>
  BY <1>2 DEF Brings
<1> HIDE DEF m
<1>5. seg # <<>> /\ IsObject(seg) /\ seg[1].msg = m
  BY TextFacts
<1>6. st = [partial |-> p, size |-> k, counter |-> j, current |-> i,
            batch |-> b0, calls |-> cl]
  BY DEF ClientAt
<1>7. end = [partial |-> <<>>, size |-> k, counter |-> n, current |-> i,
             batch |-> b1, calls |-> cl \o brings]
  BY DEF ClientAt
<1>8. one = [partial |-> p, size |-> k, counter |-> n, current |-> i,
             batch |-> b0, calls |-> cl]
  <2> HIDE DEF b0
  <2>1. one = [st EXCEPT !.counter = n]
    BY <1>6
  <2> QED BY <1>6, <2>1
<1> HIDE DEF seg, end, brings, one
<1>9. CASE c \in Stream
  <2> DEFINE e == <<i, <<m>>>>
             did == [one EXCEPT !.calls = Append(@, <<one.current, <<m>>>>)]
             w == Append(cl, e)
  <2>1. b0 = <<>> /\ b1 = <<>>
    BY <1>9
  <2>2. one.current = i /\ one.calls = cl
    BY <1>8
  <2>3. did = [one EXCEPT !.calls = w]
    BY <2>2
  <2>4. Callback(c, one, <<m>>) = [threw |-> FALSE, state |-> did]
    BY <1>2, <2>2 DEF Callback
  <2> HIDE DEF did, w, b0, b1
  <2>5. OnObject(c, st, m) = [threw |-> FALSE, state |-> did]
    BY <1>1, <1>9, <2>4 DEF OnObject, one
  <2>6. Turn("client", c, st, seg) = [did EXCEPT !.partial = <<>>]
    BY <1>5, <2>5 DEF Turn, Handled
  <2>7. did = [partial |-> p, size |-> k, counter |-> n, current |-> i,
               batch |-> <<>>, calls |-> w]
    BY <1>8, <2>1, <2>3
  <2>8. [did EXCEPT !.partial = <<>>]
          = [partial |-> <<>>, size |-> k, counter |-> n, current |-> i,
             batch |-> <<>>, calls |-> w]
    BY <2>7
  <2>9. w = cl \o brings
    BY <1>4, <1>9, <1>12, <1>13 DEF w
  <2>10. Turn("client", c, st, seg) = end
    BY <1>7, <2>1, <2>6, <2>8, <2>9
  <2> QED BY <2>10 DEF seg, m, end, brings
<1>10. CASE c \notin Stream
  <2> DEFINE got == [one EXCEPT !.batch = Append(@, m)]
  <2>1. b0 = Rows(i, j) /\ b1 = Rows(i, n) /\ Append(b0, m) = b1
    BY <1>3, <1>10
  <2> HIDE DEF b0, b1
  <2>2. got = [partial |-> p, size |-> k, counter |-> n, current |-> i,
               batch |-> b1, calls |-> cl]
    <3>1. one.batch = b0
      BY <1>8
    <3>2. got = [one EXCEPT !.batch = b1]
      BY <2>1, <3>1
    <3> QED BY <1>8, <3>2
  <2> HIDE DEF got
  <2>3. got.counter = n /\ got.size = k /\ got.current = i /\ got.calls = cl
        /\ got.batch = b1
    BY <2>2
  <2>4. OnObject(c, st, m) = IF n = k THEN Callback(c, got, b1)
                             ELSE [threw |-> FALSE, state |-> got]
    <3>1. OnObject(c, st, m) = IF got.counter = got.size THEN Callback(c, got, got.batch)
                               ELSE [threw |-> FALSE, state |-> got]
      BY <1>1, <1>10, Zenon DEF OnObject, one, got
    <3> QED BY <2>3, <3>1
  <2>5. CASE n = k
    <3> DEFINE e == <<i, b1>>
               did == [got EXCEPT !.calls = Append(@, <<got.current, b1>>)]
               w == Append(cl, e)
    <3>1. did = [got EXCEPT !.calls = w]
      BY <2>3
    <3>2. Callback(c, got, b1) = [threw |-> FALSE, state |-> did]
      BY <1>2, <2>3 DEF Callback
    <3> HIDE DEF did, w
    <3>3. OnObject(c, st, m) = [threw |-> FALSE, state |-> did]
      BY <2>4, <2>5, <3>2
    <3>4. Turn("client", c, st, seg) = [did EXCEPT !.partial = <<>>]
      BY <1>5, <3>3 DEF Turn, Handled
    <3>5. did = [partial |-> p, size |-> k, counter |-> n, current |-> i,
                 batch |-> b1, calls |-> w]
      BY <2>2, <3>1
    <3>6. [did EXCEPT !.partial = <<>>]
            = [partial |-> <<>>, size |-> k, counter |-> n, current |-> i,
               batch |-> b1, calls |-> w]
      BY <3>5
    <3>7. w = cl \o brings
      BY <1>4, <1>10, <1>12, <1>13, <2>1, <2>5 DEF w
    <3>8. Turn("client", c, st, seg) = end
      BY <1>7, <3>4, <3>6, <3>7
    <3> QED BY <3>8 DEF seg, m, end, brings
  <2>6. CASE n # k
    <3>1. Turn("client", c, st, seg) = [got EXCEPT !.partial = <<>>]
      BY <1>5, <2>4, <2>6 DEF Turn, Handled
    <3>2. [got EXCEPT !.partial = <<>>]
            = [partial |-> <<>>, size |-> k, counter |-> n, current |-> i,
               batch |-> b1, calls |-> cl]
      BY <2>2
    <3>3. cl = cl \o brings
      BY <1>4, <1>10, <1>13, <2>6
    <3>4. Turn("client", c, st, seg) = end
      BY <1>7, <3>1, <3>2, <3>3
    <3> QED BY <3>4 DEF seg, m, end, brings
  <2> QED BY <2>5, <2>6
<1> QED BY <1>9, <1>10

-----------------------------------------------------------------------------
(* What a packet does. *)

\* What is on its way to a client that has i, j and p, s of its requests a
\* having been served: ms are all messages written to it, and the client has
\* taken q lines and r tokens.
DownBy(ms, q, r, dn, a, s, i, j, p) ==
  /\ q \in Nat /\ r \in 0 .. 2
  /\ Chain(ms, a, s) /\ Rest(dn, ms, q, r)
  /\ IdAt(ms, Done(q, r)) = i /\ RowAt(ms, Done(q, r)) = j /\ p = Begun(ms, q, r)

DownAt(dn, a, s, i, j, p) == \E ms, q, r : DownBy(ms, q, r, dn, a, s, i, j, p)

\* Where a client is in what was written to it.
LEMMA TakenBounds ==
  ASSUME NEW ms \in Seq(Messages), NEW s, NEW q \in Nat, NEW r \in 0 .. 2,
         Carries(s, ms, q, r)
  PROVE  /\ Done(q, r) \in 0 .. Len(ms)
         /\ r # 0 => q + 1 \in 1 .. Len(ms) /\ ms[q + 1] \in Messages
<1> DEFINE M == Len(ms)
<1>1. 3 * q + r <= 3 * M /\ M \in Nat
  <2>1. 3 * q + r + Len(s) <= 3 * M /\ Len(s) \in Nat /\ M \in Nat
    BY DEF Carries
  <2> QED BY <2>1
<1> HIDE DEF M
<1>2. r # 0 => q + 1 \in 1 .. M
  BY <1>1
<1>3. Done(q, r) \in 0 .. M
  BY <1>1 DEF Done
<1> QED BY <1>2, <1>3 DEF M

\* An answer goes behind it.
LEMMA DownGrows ==
  ASSUME NEW dn, NEW a \in Seq(Requests), NEW s \in Nat, NEW i, NEW j, NEW p,
         DownAt(dn, a, s, i, j, p), s < Len(a), NEW k \in Nat, a[s + 1].rows = k
  PROVE  DownAt(dn \o Reply(s + 1, k), a, s + 1, i, j, p)
<1>1. PICK ms, q, r : DownBy(ms, q, r, dn, a, s, i, j, p)
  BY DEF DownAt
<1>2. /\ q \in Nat /\ r \in 0 .. 2
      /\ Chain(ms, a, s) /\ Rest(dn, ms, q, r)
      /\ IdAt(ms, Done(q, r)) = i /\ RowAt(ms, Done(q, r)) = j /\ p = Begun(ms, q, r)
  BY <1>1 DEF DownBy
<1> DEFINE n == s + 1
           w == Reply(n, k)
           ws == AnswerTo(n, k)
           both == ms \o ws
<1>3. n \in Nat /\ RowsOf(a, n) = k /\ n = s + 1
  BY DEF RowsOf
<1> HIDE DEF n
<1>4. Rest(w, ws, 0, 0) /\ ws \in Seq(Messages)
  BY <1>3, RestReply DEF AnswerTo
<1> HIDE DEF w
<1>5. Grown(ms, both, a, n)
  BY <1>2, <1>3, ChainMore
<1>6. ms \in Seq(Messages) /\ Carries(dn, ms, q, r)
  BY <1>2 DEF Chain, Rest
<1> HIDE DEF ws
<1>7. Rest(dn \o w, both, q, r)
  BY <1>2, <1>4, <1>6, RestMore
<1> HIDE DEF both
<1>8. Done(q, r) \in 0 .. Len(ms) /\ (r # 0 => q + 1 \in 1 .. Len(ms))
  BY <1>2, <1>6, TakenBounds
<1>9. Begun(both, q, r) = Begun(ms, q, r)
  BY <1>5, <1>8 DEF Begun, Grown
<1>10. IdAt(both, Done(q, r)) = i /\ RowAt(both, Done(q, r)) = j
  BY <1>2, <1>5, <1>8 DEF Grown
<1>11. DownBy(both, q, r, dn \o w, a, s + 1, i, j, p)
  BY <1>2, <1>5, <1>7, <1>9, <1>10 DEF DownBy, Grown, n
<1> QED BY <1>11 DEF DownAt, w, n

\* Later requests change nothing of it.
LEMMA DownStays ==
  ASSUME NEW dn, NEW a \in Seq(Requests), NEW r0 \in Requests, NEW s \in 0 .. Len(a),
         NEW i, NEW j, NEW p, DownAt(dn, a, s, i, j, p)
  PROVE  DownAt(dn, Append(a, r0), s, i, j, p)
<1>1. PICK ms, q, r : DownBy(ms, q, r, dn, a, s, i, j, p)
  BY DEF DownAt
<1>2. Chain(ms, a, s)
  BY <1>1 DEF DownBy
<1>3. Chain(ms, Append(a, r0), s)
  BY <1>2, ChainStays
<1>4. DownBy(ms, q, r, dn, Append(a, r0), s, i, j, p)
  BY <1>1, <1>3 DEF DownBy
<1> QED BY <1>4 DEF DownAt

\* globalsd went from h0 to h requests of client c, with the answers o: dn is
\* what was on its way to the client before.
Replied(st, c, a, sv, h0, h, t, dn, i, j, p, o) ==
  /\ o \in Seq(Tokens) /\ st = ServerAt(c, sv, h, t, o)
  /\ DownAt(dn, a, h0, i, j, p) => DownAt(dn \o o, a, h, i, j, p)

\* The pieces of a packet in globalsd.
LEMMA ServerFold ==
  ASSUME Answerable, NEW c \in Clients, NEW a \in Seq(Requests),
         NEW sv, DOMAIN sv = Clients, NEW H, NEW T, NEW Q, Len(Q) \in Nat,
         H[0] \in Nat, Turns(H, T, Q, SentOf(c, a)),
         NEW st, st = ServerAt(c, sv, H[0], T[0], <<>>),
         NEW after, Handles(after, "server", 0, st, Q),
         NEW dn \in Seq(Tokens), NEW i, NEW j, NEW p
  PROVE  \E o : Replied(after[Len(Q)], c, a, sv, H[0], H[Len(Q)], T[Len(Q)],
                        dn, i, j, p, o)
<1> DEFINE n == Len(Q)
           ms == SentOf(c, a)
           Good(k, o) == /\ H[k] \in Nat
                         /\ after[k] = ServerAt(c, sv, H[k], T[k], o)
                         /\ DownAt(dn, a, H[0], i, j, p)
                              => DownAt(dn \o o, a, H[k], i, j, p)
           S == {k \in Nat : k <= n => \E o \in Seq(Tokens) : Good(k, o)}
<1>1. 0 \in S
  <2>1. <<>> \in Seq(Tokens) /\ dn \o <<>> = dn
    BY ConcatEmptySeq
  <2>2. Good(0, <<>>)
    BY <2>1 DEF Handles
  <2> QED BY <2>1, <2>2
<1>2. ASSUME NEW k \in Nat, k \in S
      PROVE  k + 1 \in S
  <2> DEFINE t == k + 1
             h == H[k]
             seg == Q[t]
  <2>1. SUFFICES ASSUME t <= n PROVE \E o \in Seq(Tokens) : Good(t, o)
    OBVIOUS
  <2>2. PICK o \in Seq(Tokens) : Good(k, o)
    BY <1>2, <2>1
  <2>3. t \in 1 .. n /\ t - 1 = k
    BY <2>1
  <2> HIDE DEF t, n
  <2>4. after[t] = Turn("server", 0, after[k], seg)
    BY <2>3 DEF Handles, n
  <2>5. /\ h \in Nat
        /\ \/ seg = <<>> /\ H[t] = h /\ T[t] = T[k]
           \/ /\ seg = Text(ms[h + 1]) /\ h + 1 \in 1 .. Len(ms)
              /\ H[t] = h + 1 /\ T[t] = <<>>
           \/ /\ seg = Cut(ms[h + 1], 1) /\ h + 1 \in 1 .. Len(ms)
              /\ H[t] = h /\ T[t] = seg
    BY <2>3 DEF Turns, n
  <2> HIDE DEF h
  <2>6. after[k] = ServerAt(c, sv, h, T[k], o)
    BY <2>2 DEF h
  <2>7. /\ Turn("server", 0, after[k], <<>>) = after[k]
        /\ \A r \in Requests :
             Turn("server", 0, after[k], Text(Ask(c, h + 1, r)))
               = ServerAt(c, sv, h + 1, <<>>, o \o Reply(h + 1, r.rows))
        /\ \A m : Turn("server", 0, after[k], Cut(m, 1))
                    = ServerAt(c, sv, h, Cut(m, 1), o)
    BY <2>5, <2>6, ServerTurn
  <2>8. CASE seg = <<>> /\ H[t] = h /\ T[t] = T[k]
    <3>1. Good(t, o)
      BY <2>2, <2>4, <2>5, <2>6, <2>7, <2>8 DEF h
    <3> QED BY <3>1
  <2>9. CASE /\ seg = Cut(ms[h + 1], 1) /\ h + 1 \in 1 .. Len(ms)
             /\ H[t] = h /\ T[t] = seg
    <3>1. after[t] = ServerAt(c, sv, H[t], T[t], o)
      BY <2>4, <2>7, <2>9
    <3>2. Good(t, o)
      BY <2>2, <2>5, <2>9, <3>1 DEF h
    <3> QED BY <3>2
  <2>10. CASE /\ seg = Text(ms[h + 1]) /\ h + 1 \in 1 .. Len(ms)
              /\ H[t] = h + 1 /\ T[t] = <<>>
    <3> DEFINE r == a[h + 1]
               rows == r.rows
               w == Reply(h + 1, rows)
               ow == o \o w
    <3>1. Len(ms) = Len(a) /\ ms[h + 1] = Ask(c, h + 1, r) /\ r \in Requests /\ h < Len(a)
      <4>1. Len(ms) = Len(a) /\ \A x \in 1 .. Len(a) : ms[x] = Ask(c, x, a[x])
        BY SentFacts
      <4> QED BY <2>10, <4>1, <2>5
    <3>2. rows \in Nat
      BY <3>1, WireAssumption
    <3>3. after[t] = ServerAt(c, sv, h + 1, <<>>, ow)
      BY <2>4, <2>7, <2>10, <3>1
    <3>4. w \in Seq(Tokens)
      <4> DEFINE z == h + 1
      <4>1. z \in Nat
        BY <2>5
      <4> HIDE DEF z, rows
      <4>2. Rest(Reply(z, rows), <<Ack(z, rows)>> \o Rows(z, rows), 0, 0)
        BY <3>2, <4>1, RestReply
      <4> QED BY <4>2 DEF Rest, Carries, z
    <3>5. ow \in Seq(Tokens)
      BY <3>4
    <3>6. dn \o ow = (dn \o o) \o w
      <4> HIDE DEF w
      <4> QED BY <3>4, Regroup
    <3>7. ASSUME DownAt(dn, a, H[0], i, j, p)
          PROVE  DownAt(dn \o ow, a, h + 1, i, j, p)
      <4>1. DownAt(dn \o o, a, h, i, j, p)
        BY <2>2, <3>7 DEF h
      <4> DEFINE d == dn \o o
      <4> HIDE DEF d, rows
      <4>2. DownAt(d, a, h, i, j, p)
        BY <4>1 DEF d
      <4>3. a[h + 1].rows = rows
        BY DEF rows
      <4>4. DownAt(d \o Reply(h + 1, rows), a, h + 1, i, j, p)
        BY <2>5, <3>1, <3>2, <4>2, <4>3, DownGrows
      <4> QED BY <3>6, <4>4 DEF d
    <3> HIDE DEF ow
    <3>8. Good(t, ow)
      BY <2>5, <2>10, <3>3, <3>7
    <3> QED BY <3>5, <3>8
  <2> QED BY <2>5, <2>8, <2>9, <2>10
<1> HIDE DEF S
<1>3. n \in S
  <2>1. Nat \subseteq S
    BY <1>1, <1>2, Induction
  <2> QED BY <2>1
<1>4. PICK o \in Seq(Tokens) : Good(n, o)
  BY <1>3 DEF S
<1> QED BY <1>4 DEF Replied

\* Where the messages of a chain stand.
LEMMA ChainPlaces ==
  ASSUME NEW ms, NEW a \in Seq(Requests), NEW s \in 0 .. Len(a), Chain(ms, a, s),
         NEW x \in 0 .. Len(ms)
  PROVE  IdAt(ms, x) \in 0 .. s /\ RowAt(ms, x) \in 0 .. RowsOf(a, IdAt(ms, x))
<1>1. \A y \in 0 .. s : RowsOf(a, y) \in Nat
  <2>1. ASSUME NEW y \in 0 .. s PROVE RowsOf(a, y) \in Nat
    <3>1. CASE y = 0
      BY <3>1 DEF RowsOf
    <3>2. CASE y # 0
      <4>1. y \in 1 .. Len(a)
        BY <3>2
      <4>2. a[y] \in Requests
        BY <4>1
      <4> QED BY <3>2, <4>2, WireAssumption DEF RowsOf
    <3> QED BY <3>1, <3>2
  <2> QED BY <2>1
<1>2. CASE x = 0
  <2>1. 0 \in 0 .. s /\ RowsOf(a, 0) = 0 /\ 0 \in 0 .. 0
    BY DEF RowsOf
  <2> QED BY <1>2, <2>1 DEF IdAt, RowAt
<1>3. CASE x # 0
  <2> DEFINE i == IdAt(ms, x - 1)
             j == RowAt(ms, x - 1)
  <2>1. x \in 1 .. Len(ms)
    BY <1>3 DEF Chain
  <2>2. Follows(ms[x], a, s, i, j)
    BY <2>1 DEF Chain
  <2> HIDE DEF i, j
  <2>3. CASE i \in 1 .. s /\ j \in Nat /\ j < RowsOf(a, i) /\ ms[x] = Row(i, j + 1)
    <3>1. IdAt(ms, x) = i /\ RowAt(ms, x) = j + 1
      BY <1>3, <2>3, AnswerFields DEF IdAt, RowAt
    <3>2. RowsOf(a, i) \in Nat
      BY <1>1, <2>3
    <3>3. i \in 0 .. s /\ j + 1 \in 0 .. RowsOf(a, i)
      BY <2>3, <3>2
    <3> QED BY <3>1, <3>3
  <2>4. CASE /\ i \in 0 .. s - 1 /\ j = RowsOf(a, i)
             /\ ms[x] = Ack(i + 1, RowsOf(a, i + 1))
    <3> DEFINE n == i + 1
    <3>1. n \in 0 .. s
      BY <2>4
    <3> HIDE DEF n
    <3>2. ms[x] = Ack(n, RowsOf(a, n))
      BY <2>4 DEF n
    <3>3. IdAt(ms, x) = n /\ RowAt(ms, x) = 0
      BY <1>3, <3>2, AnswerFields DEF IdAt, RowAt
    <3>4. RowsOf(a, n) \in Nat
      BY <1>1, <3>1
    <3> QED BY <3>1, <3>3, <3>4
  <2> QED BY <2>2, <2>3, <2>4 DEF Follows
<1> QED BY <1>2, <1>3

\* Client c has asked a, of which s have been served with the messages ms.
Hears(c, a, s, ms) ==
  /\ c \in Clients /\ a = asked[c] /\ a \in Seq(Requests) /\ Len(a) <= MaxRequests
  /\ s \in 0 .. Len(a) /\ Chain(ms, a, s)

\* A client after h of the messages, and the calls it has made by then.
ClientOf(c, a, ms, h, p, cl) == ClientAt(c, a, IdAt(ms, h), RowAt(ms, h), p, cl)
MadeOf(c, a, ms, h) == Made(c, a, IdAt(ms, h), RowAt(ms, h))

\* It has made the calls m0 before this packet and cl since.
Heard(st, c, a, ms, h, p, m0, cl) ==
  /\ h \in 0 .. Len(ms) /\ m0 \in Seq(CallType) /\ cl \in Seq(CallType)
  /\ st = ClientOf(c, a, ms, h, p, cl)
  /\ MadeOf(c, a, ms, h) = m0 \o cl

\* What a client makes of nothing and of the first half of a message.
LEMMA ClientQuiet ==
  ASSUME NEW c, NEW a, NEW s, NEW ms, Hears(c, a, s, ms), NEW st, NEW h, NEW p,
         NEW m0, NEW cl, Heard(st, c, a, ms, h, p, m0, cl)
  PROVE  /\ Turn("client", c, st, <<>>) = st
         /\ \A m : Heard(Turn("client", c, st, Cut(m, 1)), c, a, ms, h, Cut(m, 1), m0, cl)
<1> DEFINE i == IdAt(ms, h)
           j == RowAt(ms, h)
<1>1. IsClient(st, c, a, i, j, p, cl)
  BY DEF Hears, Heard, ClientOf, IsClient
<1> HIDE DEF i, j
<1>2. /\ Turn("client", c, st, <<>>) = st
      /\ \A m : Turn("client", c, st, Cut(m, 1)) = ClientAt(c, a, i, j, Cut(m, 1), cl)
  BY <1>1, ClientTurn
<1>3. ASSUME NEW m
      PROVE  Heard(Turn("client", c, st, Cut(m, 1)), c, a, ms, h, Cut(m, 1), m0, cl)
  <2> DEFINE q == Cut(m, 1)
             u == Turn("client", c, st, q)
  <2>1. u = ClientAt(c, a, i, j, q, cl)
    BY <1>2
  <2> HIDE DEF q, u
  <2>2. u = ClientOf(c, a, ms, h, q, cl)
    BY <2>1 DEF ClientOf, i, j
  <2>3. Heard(u, c, a, ms, h, q, m0, cl)
    BY <2>2 DEF Heard
  <2> QED BY <2>3 DEF u, q
<1> QED BY <1>2, <1>3

\* What a client makes of the next message.
LEMMA ClientStep ==
  ASSUME NEW c, NEW a, NEW s, NEW ms, Hears(c, a, s, ms), NEW st, NEW h, NEW p,
         NEW m0, NEW cl, Heard(st, c, a, ms, h, p, m0, cl),
         NEW x, x = h + 1, x <= Len(ms)
  PROVE  \E all : Heard(Turn("client", c, st, Text(ms[x])), c, a, ms, x, <<>>, m0, all)
<1> DEFINE i == IdAt(ms, h)
           j == RowAt(ms, h)
<1>0. /\ a \in Seq(Requests) /\ Len(a) <= MaxRequests /\ s \in 0 .. Len(a)
      /\ Chain(ms, a, s) /\ ms \in Seq(Messages) /\ h \in 0 .. Len(ms)
      /\ m0 \in Seq(CallType) /\ cl \in Seq(CallType)
  BY DEF Hears, Heard, Chain
<1>1. x \in 1 .. Len(ms) /\ x - 1 = h /\ x # 0 /\ Len(a) \in Nat /\ MaxRequests \in Nat
  BY <1>0, WireAssumption
<1>2. Follows(ms[x], a, s, i, j)
  BY <1>0, <1>1 DEF Chain
<1>3. /\ IsClient(st, c, a, i, j, p, cl)
      /\ MadeOf(c, a, ms, h) = Made(c, a, i, j)
      /\ Made(c, a, i, j) = m0 \o cl
  BY DEF Hears, Heard, ClientOf, MadeOf, IsClient
<1> HIDE DEF i, j
<1> DEFINE Goes(i1, j1, b) ==
             /\ b \in Seq(CallType) /\ IdAt(ms, x) = i1 /\ RowAt(ms, x) = j1
             /\ Turn("client", c, st, Text(ms[x])) = ClientAt(c, a, i1, j1, <<>>, cl \o b)
             /\ Made(c, a, i1, j1) = Made(c, a, i, j) \o b
<1>4. ASSUME NEW i1, NEW j1, NEW b, Goes(i1, j1, b)
      PROVE  Heard(Turn("client", c, st, Text(ms[x])), c, a, ms, x, <<>>, m0, cl \o b)
  <2> DEFINE u == Turn("client", c, st, Text(ms[x]))
             all == cl \o b
  <2>1. all \in Seq(CallType)
    BY <1>0, <1>4
  <2>2. u = ClientOf(c, a, ms, x, <<>>, all)
    BY <1>4 DEF ClientOf
  <2>3. Made(c, a, i1, j1) = (m0 \o cl) \o b
    BY <1>3, <1>4
  <2>4. m0 \o (cl \o b) = (m0 \o cl) \o b
    <3>1. m0 \in Seq(CallType) /\ cl \in Seq(CallType) /\ b \in Seq(CallType)
      BY <1>0, <1>4
    <3> QED BY <3>1, Regroup, SMTT(40)
  <2>5. MadeOf(c, a, ms, x) = m0 \o all
    BY <1>4, <2>3, <2>4 DEF MadeOf
  <2>6. x \in 0 .. Len(ms)
    BY <1>1
  <2> HIDE DEF u, all
  <2>7. Heard(u, c, a, ms, x, <<>>, m0, all)
    BY <1>0, <2>1, <2>2, <2>5, <2>6 DEF Heard
  <2> QED BY <2>7 DEF u, all
<1> HIDE DEF Goes
<1>5. CASE i \in 1 .. s /\ j \in Nat /\ j < RowsOf(a, i) /\ ms[x] = Row(i, j + 1)
  <2> DEFINE n == j + 1
             k == RowsOf(a, i)
             b == Brings(c, i, k, n)
  <2>1. i \in 1 .. Len(a) /\ i # 0
    BY <1>0, <1>1, <1>5
  <2>2. i \in 1 .. MaxRequests
    BY <1>0, <1>1, <2>1
  <2>3. a[i] \in Requests
    BY <1>0, <2>1
  <2>4. k = a[i].rows /\ k \in Nat
    BY <2>1, <2>3, WireAssumption DEF RowsOf
  <2>5. j < k /\ j \in Nat /\ n = j + 1 /\ ms[x] = Row(i, n)
    BY <1>5
  <2> HIDE DEF n, k
  <2>6. NextRow(a, i, j, n, k)
    BY <1>0, <2>1, <2>4, <2>5 DEF NextRow
  <2>7. b \in Seq(CallType)
    <3>1. Brings(c, i, k, j + 1) \in Seq(CallType)
      BY <2>2, <2>4, <2>5, PartStep
    <3> QED BY <2>5, <3>1
  <2>8. Made(c, a, i, n) = Made(c, a, i, j) \o b
    BY <2>6, MadeRow
  <2>9. Turn("client", c, st, Text(Row(i, n))) = ClientAt(c, a, i, n, <<>>, cl \o b)
    BY <1>3, <2>6, ClientRow
  <2>10. IdAt(ms, x) = i /\ RowAt(ms, x) = n
    BY <1>1, <2>5, AnswerFields DEF IdAt, RowAt
  <2> HIDE DEF b
  <2>11. Goes(i, n, b)
    BY <2>5, <2>7, <2>8, <2>9, <2>10 DEF Goes
  <2>12. Heard(Turn("client", c, st, Text(ms[x])), c, a, ms, x, <<>>, m0, cl \o b)
    BY <1>4, <2>11
  <2> QED BY <2>12
<1>6. CASE i \in 0 .. s - 1 /\ j = RowsOf(a, i) /\ ms[x] = Ack(i + 1, RowsOf(a, i + 1))
  <2> DEFINE n == i + 1
             k == RowsOf(a, n)
             b == Brings(c, n, k, 0)
  <2>1. n \in 1 .. Len(a) /\ n # 0 /\ n = i + 1 /\ i \in Nat /\ i < Len(a)
    BY <1>0, <1>1, <1>6
  <2>2. ms[x] = Ack(n, k)
    BY <1>6
  <2> HIDE DEF n
  <2>3. n \in 1 .. MaxRequests
    BY <1>0, <1>1, <2>1
  <2>4. a[n] \in Requests
    BY <1>0, <2>1
  <2>5. k = a[n].rows /\ k \in Nat
    BY <2>1, <2>4, WireAssumption DEF RowsOf
  <2> HIDE DEF k
  <2>6. NextHeader(a, i, n, k)
    BY <1>0, <2>1, <2>5 DEF NextHeader
  <2>7. b \in Seq(CallType)
    BY <2>3, <2>5, PartHeader
  <2>8. Made(c, a, n, 0) = Made(c, a, i, j) \o b
    <3>1. Made(c, a, n, 0) = Made(c, a, i, RowsOf(a, i)) \o b
      BY <2>6, MadeHeader
    <3> QED BY <1>6, <3>1
  <2>9. Turn("client", c, st, Text(Ack(n, k))) = ClientAt(c, a, n, 0, <<>>, cl \o b)
    BY <1>3, <2>6, ClientHeader
  <2>10. IdAt(ms, x) = n /\ RowAt(ms, x) = 0
    BY <1>1, <2>2, AnswerFields DEF IdAt, RowAt
  <2> HIDE DEF b
  <2>11. Goes(n, 0, b)
    BY <2>2, <2>7, <2>8, <2>9, <2>10 DEF Goes
  <2>12. Heard(Turn("client", c, st, Text(ms[x])), c, a, ms, x, <<>>, m0, cl \o b)
    BY <1>4, <2>11
  <2> QED BY <2>12
<1> QED BY <1>2, <1>5, <1>6 DEF Follows

\* The pieces of a packet in a client.
LEMMA ClientFold ==
  ASSUME NEW c, NEW a, NEW s, NEW ms, Hears(c, a, s, ms),
         NEW H, NEW T, NEW Q, Len(Q) \in Nat, Turns(H, T, Q, ms),
         NEW st, NEW m0, Heard(st, c, a, ms, H[0], T[0], m0, <<>>),
         NEW after, Handles(after, "client", c, st, Q)
  PROVE  \E cl : Heard(after[Len(Q)], c, a, ms, H[Len(Q)], T[Len(Q)], m0, cl)
<1> DEFINE n == Len(Q)
           Good(k) == \E cl : Heard(after[k], c, a, ms, H[k], T[k], m0, cl)
           S == {k \in Nat : k <= n => Good(k)}
<1>1. 0 \in S
  <2>1. Good(0)
    BY DEF Handles
  <2> HIDE DEF Good
  <2> QED BY <2>1
<1> HIDE DEF Good
<1>2. ASSUME NEW k \in Nat, k \in S
      PROVE  k + 1 \in S
  <2> DEFINE t == k + 1
             h == H[k]
             u == after[k]
             seg == Q[t]
  <2>1. SUFFICES ASSUME t <= n PROVE Good(t)
    OBVIOUS
  <2>2. Good(k)
    BY <1>2, <2>1
  <2>3. PICK cl : Heard(u, c, a, ms, h, T[k], m0, cl)
    BY <2>2 DEF Good
  <2>4. t \in 1 .. n /\ t - 1 = k
    BY <2>1
  <2> HIDE DEF t, n, seg
  <2>5. after[t] = Turn("client", c, u, seg)
    BY <2>4 DEF Handles, n, seg
  <2>6. /\ h \in Nat
        /\ \/ seg = <<>> /\ H[t] = h /\ T[t] = T[k]
           \/ /\ seg = Text(ms[h + 1]) /\ h + 1 \in 1 .. Len(ms)
              /\ H[t] = h + 1 /\ T[t] = <<>>
           \/ /\ seg = Cut(ms[h + 1], 1) /\ h + 1 \in 1 .. Len(ms)
              /\ H[t] = h /\ T[t] = seg
    BY <2>4 DEF Turns, n, seg
  <2> HIDE DEF h, u
  <2>7. /\ Turn("client", c, u, <<>>) = u
        /\ \A m : Heard(Turn("client", c, u, Cut(m, 1)), c, a, ms, h, Cut(m, 1), m0, cl)
    BY <2>3, ClientQuiet
  <2>8. CASE seg = <<>> /\ H[t] = h /\ T[t] = T[k]
    <3>1. after[t] = u
      BY <2>5, <2>7, <2>8
    <3> QED BY <2>3, <2>8, <3>1 DEF Good
  <2>9. CASE seg = Cut(ms[h + 1], 1) /\ H[t] = h /\ T[t] = seg
    <3>1. Heard(after[t], c, a, ms, H[t], T[t], m0, cl)
      BY <2>5, <2>7, <2>9
    <3> QED BY <3>1 DEF Good
  <2>10. CASE /\ seg = Text(ms[h + 1]) /\ h + 1 \in 1 .. Len(ms)
              /\ H[t] = h + 1 /\ T[t] = <<>>
    <3> DEFINE x == h + 1
    <3>1. x = h + 1 /\ x <= Len(ms)
      BY <2>6, <2>10
    <3>2. seg = Text(ms[x]) /\ H[t] = x /\ T[t] = <<>>
      BY <2>10
    <3> HIDE DEF x
    <3>3. \E all : Heard(Turn("client", c, u, Text(ms[x])), c, a, ms, x, <<>>, m0, all)
      BY <2>3, <3>1, ClientStep
    <3> QED BY <2>5, <3>2, <3>3 DEF Good
  <2> QED BY <2>6, <2>8, <2>9, <2>10
<1> HIDE DEF S
<1>3. n \in S
  <2>1. Nat \subseteq S
    BY <1>1, <1>2, Induction
  <2> QED BY <2>1
<1> QED BY <1>3 DEF S, Good
-----------------------------------------------------------------------------
(* The inductive invariant. *)

\* Of the lines client c sends for its requests a, globalsd has read q and r
\* tokens; u is what follows, of which a client that has left may not have
\* sent the end. sv are the requests served, p is the cut object.
UpBy(c, a, u, away, sv, p, q, r) ==
  /\ q \in Nat /\ r \in 0 .. 2 /\ (~MidCuts => r # 1)
  /\ Carries(u, SentOf(c, a), q, r)
  /\ c \notin away => Rest(u, SentOf(c, a), q, r)
  /\ sv = [x \in 1 .. Done(q, r) |-> x] /\ p = Begun(SentOf(c, a), q, r)

UpAt(c, a, u, away, sv, p) == \E q, r : UpBy(c, a, u, away, sv, p, q, r)

\* Client c, of whose requests a s have been served, has heard of i and of j
\* rows of it, has made the calls due for them, and what it has not heard is
\* on its way.
ClientBy(c, a, cl, made, dn, away, s, i, j, p) ==
  /\ i \in 0 .. s /\ j \in 0 .. RowsOf(a, i) /\ p \in Seq(Tokens)
  /\ cl = ClientAt(c, a, i, j, p, <<>>) /\ made = Made(c, a, i, j)
  /\ c \notin away => DownAt(dn, a, s, i, j, p)

ClientIs(c, a, cl, made, dn, away, s) ==
  \E i, j, p : ClientBy(c, a, cl, made, dn, away, s, i, j, p)

\* What globalsd has of a client.
LEMMA UpFacts ==
  ASSUME NEW c \in Clients, NEW a \in Seq(Requests), NEW u, NEW away, NEW sv, NEW p,
         NEW q, NEW r, UpBy(c, a, u, away, sv, p, q, r)
  PROVE  /\ Done(q, r) \in 0 .. Len(a) /\ Len(sv) = Done(q, r) /\ sv \in Seq(1 .. Len(a))
         /\ r # 0 => q + 1 \in 1 .. Len(a)
         /\ p \in Seq(Tokens) /\ (p # <<>> => r = 1)
<1> DEFINE ms == SentOf(c, a)
<1>1. ms \in Seq(Messages) /\ Len(ms) = Len(a)
  BY SentFacts
<1>2. /\ q \in Nat /\ r \in 0 .. 2 /\ Carries(u, ms, q, r)
      /\ sv = [x \in 1 .. Done(q, r) |-> x] /\ p = Begun(ms, q, r)
  BY DEF UpBy
<1> HIDE DEF ms
<1>3. Done(q, r) \in 0 .. Len(ms) /\ (r # 0 => q + 1 \in 1 .. Len(ms))
  BY <1>1, <1>2, TakenBounds
<1>4. Done(q, r) \in 0 .. Len(a) /\ (r # 0 => q + 1 \in 1 .. Len(a))
  BY <1>1, <1>3
<1>5. Len(sv) = Done(q, r) /\ sv \in Seq(1 .. Len(a))
  <2> DEFINE h == Done(q, r)
  <2>1. h \in 0 .. Len(a) /\ sv = [x \in 1 .. h |-> x] /\ Len(a) \in Nat
    BY <1>2, <1>4
  <2> HIDE DEF h
  <2>2. Len(sv) = h /\ sv \in [1 .. h -> 1 .. Len(a)] /\ h \in Nat
    BY <2>1
  <2>3. sv \in Seq(1 .. Len(a))
    BY <2>2
  <2> QED BY <2>2, <2>3 DEF h
<1>6. p # <<>> => r = 1
  BY <1>2 DEF Begun
<1>7. p \in Seq(Tokens)
  <2>1. CASE r = 1
    <3>1. ms[q + 1] \in Messages /\ p = Cut(ms[q + 1], 1)
      BY <1>1, <1>2, <1>3, <2>1 DEF Begun
    <3> DEFINE m == ms[q + 1]
    <3> HIDE DEF m
    <3>2. m \in Messages /\ p = Cut(m, 1) /\ 1 \in 0 .. 2
      BY <3>1 DEF m
    <3> QED BY <3>2, CutTypes
  <2>2. CASE r # 1
    <3>1. p = <<>> /\ <<>> \in Seq(Tokens)
      BY <1>2, <2>2 DEF Begun
    <3> QED BY <3>1
  <2> QED BY <2>1, <2>2
<1> QED BY <1>4, <1>5, <1>6, <1>7

\* One more request on its way.
LEMMA UpSends ==
  ASSUME NEW c \in Clients, NEW a \in Seq(Requests), NEW req \in Requests,
         NEW u, NEW away, NEW sv, NEW p, c \notin away, UpAt(c, a, u, away, sv, p)
  PROVE  UpAt(c, Append(a, req), u \o Line(Ask(c, Len(a) + 1, req)), away, sv, p)
<1> DEFINE ms == SentOf(c, a)
           m == Ask(c, Len(a) + 1, req)
           w == Line(m)
           b == Append(a, req)
           both == SentOf(c, b)
<1>1. PICK q, r : UpBy(c, a, u, away, sv, p, q, r)
  BY DEF UpAt
<1>2. ms \in Seq(Messages) /\ Len(ms) = Len(a)
  BY SentFacts
<1>3. m \in Messages
  <2>1. Len(a) + 1 \in Nat
    OBVIOUS
  <2> QED BY <2>1, SentFacts
<1>4. both = ms \o <<m>>
  BY SentMore
<1>5. /\ q \in Nat /\ r \in 0 .. 2 /\ (~MidCuts => r # 1)
      /\ Rest(u, ms, q, r)
      /\ sv = [x \in 1 .. Done(q, r) |-> x] /\ p = Begun(ms, q, r)
  BY <1>1 DEF UpBy
<1>6. r # 0 => q + 1 \in 1 .. Len(ms)
  BY <1>1, <1>2, UpFacts
<1> HIDE DEF ms, m, both, b
<1>7. Rest(w, <<m>>, 0, 0) /\ <<m>> \in Seq(Messages) /\ r \in Nat
  BY <1>3, <1>5, RestLine
<1> HIDE DEF w
<1>8. Rest(u \o w, both, q, r)
  BY <1>2, <1>4, <1>5, <1>7, RestMore
<1>9. Begun(both, q, r) = p
  <2>1. CASE r = 1
    <3>1. both[q + 1] = ms[q + 1]
      BY <1>2, <1>4, <1>6, <1>7, <2>1, ConcatFacts
    <3> QED BY <1>5, <3>1 DEF Begun
  <2>2. CASE r # 1
    BY <1>5, <2>2 DEF Begun
  <2> QED BY <2>1, <2>2
<1>10. Carries(u \o w, both, q, r)
  BY <1>8 DEF Rest
<1>11. UpBy(c, b, u \o w, away, sv, p, q, r)
  BY <1>5, <1>8, <1>9, <1>10 DEF UpBy, both
<1> QED BY <1>11 DEF UpAt, w, b, m

\* One more request on its way, for the client.
LEMMA ClientSends ==
  ASSUME NEW c \in Clients, NEW a \in Seq(Requests), NEW req \in Requests,
         NEW cl, NEW made, NEW dn, NEW away, NEW s \in 0 .. Len(a),
         ClientIs(c, a, cl, made, dn, away, s)
  PROVE  ClientIs(c, Append(a, req), cl, made, dn, away, s)
<1> DEFINE b == Append(a, req)
<1>1. PICK i, j, p : ClientBy(c, a, cl, made, dn, away, s, i, j, p)
  BY DEF ClientIs
<1>2. /\ i \in 0 .. s /\ j \in 0 .. RowsOf(a, i) /\ p \in Seq(Tokens)
      /\ cl = ClientAt(c, a, i, j, p, <<>>) /\ made = Made(c, a, i, j)
      /\ c \notin away => DownAt(dn, a, s, i, j, p)
  BY <1>1 DEF ClientBy
<1>3. i \in 0 .. Len(a)
  BY <1>2
<1>4. RowsOf(b, i) = RowsOf(a, i) /\ Made(c, b, i, j) = Made(c, a, i, j)
  BY <1>3, MadeStays
<1>5. c \notin away => DownAt(dn, b, s, i, j, p)
  BY <1>2, DownStays
<1> HIDE DEF b
<1>6. ClientAt(c, b, i, j, p, <<>>) = ClientAt(c, a, i, j, p, <<>>)
  BY <1>4 DEF ClientAt
<1>7. ClientBy(c, b, cl, made, dn, away, s, i, j, p)
  BY <1>2, <1>4, <1>5, <1>6 DEF ClientBy
<1> QED BY <1>7 DEF ClientIs, b

\* A packet of n tokens ends after q1 lines and r1 tokens.
PacketTo(u, ms, q, r, n, q1, r1) ==
  /\ q1 \in Nat /\ r1 \in 0 .. 2 /\ (~MidCuts => r1 # 1)
  /\ 3 * q1 + r1 = 3 * q + r + n
  /\ Stretch(SubSeq(u, 1, n), ms, q, r, q1, r1)
  /\ Carries(SubSeq(u, n + 1, Len(u)), ms, q1, r1)
  /\ Rest(u, ms, q, r) => Rest(SubSeq(u, n + 1, Len(u)), ms, q1, r1)

\* Every packet does.
LEMMA PacketEnds ==
  ASSUME NEW ms \in Seq(Messages), NEW u, NEW q \in Nat, NEW r \in 0 .. 2,
         Carries(u, ms, q, r), NEW n \in Packets(u)
  PROVE  \E q1, r1 : PacketTo(u, ms, q, r, n, q1, r1)
<1>1. n \in 1 .. Len(u) /\ (MidCuts \/ u[n].part # 1)
  BY DEF Packets
<1>2. u \in Seq(Tokens)
  BY DEF Carries
<1>3. 3 * q + r + n \in Nat /\ n \in 0 .. Len(u)
  BY <1>1, <1>2
<1>4. PICK q1 \in Nat, r1 \in 0 .. 2 : 3 * q + r + n = 3 * q1 + r1
  BY <1>3, Thirds
<1>5. 3 * q1 + r1 = 3 * q + r + n
  BY <1>4
<1>6. /\ Stretch(SubSeq(u, 1, n), ms, q, r, q1, r1)
      /\ Carries(SubSeq(u, n + 1, Len(u)), ms, q1, r1)
      /\ Rest(u, ms, q, r) => Rest(SubSeq(u, n + 1, Len(u)), ms, q1, r1)
  BY <1>3, <1>5, StreamCut
<1>7. ASSUME ~MidCuts, r1 = 1
      PROVE  FALSE
  <2>1. 3 * q1 + 1 = 3 * q + r + n
    BY <1>5, <1>7
  <2>2. u[n].part = 1
    BY <1>1, <2>1, CutInside
  <2> QED BY <1>1, <1>7, <2>2
<1>8. PacketTo(u, ms, q, r, n, q1, r1)
  BY <1>5, <1>6, <1>7 DEF PacketTo
<1> QED BY <1>8

\* Its handling advances.
LEMMA PacketAdvances ==
  ASSUME NEW u, NEW ms, NEW q \in Nat, NEW r \in 0 .. 2, NEW n \in Packets(u),
         u \in Seq(Tokens), NEW q1, NEW r1, PacketTo(u, ms, q, r, n, q1, r1)
  PROVE  Done(q, r) <= Done(q1, r1)
<1>1. n \in 1 .. Len(u) /\ Len(u) \in Nat
  BY DEF Packets
<1>2. q1 \in Nat /\ r1 \in 0 .. 2 /\ 3 * q1 + r1 = 3 * q + r + n /\ n \in Nat
  BY <1>1 DEF PacketTo
<1> QED BY <1>2 DEF Done

\* A packet in globalsd, after which h1 requests of client c are served: what
\* globalsd answers is o.
ServedBy(st, c, a, u, away, sv, dn, i, j, p, h, o, q1, r1) ==
  LET ms == SentOf(c, a)
      h1 == Done(q1, r1) IN
  /\ o \in Seq(Tokens) /\ h <= h1
  /\ st = ServerAt(c, sv, h1, Begun(ms, q1, r1), o)
  /\ UpBy(c, a, u, away, [x \in 1 .. h1 |-> x], Begun(ms, q1, r1), q1, r1)
  /\ DownAt(dn, a, h, i, j, p) => DownAt(dn \o o, a, h1, i, j, p)

\* What a packet from client c makes of globalsd.
LEMMA ServerPacket ==
  ASSUME Answerable, NEW c \in Clients, NEW a \in Seq(Requests), NEW u, NEW away,
         NEW sv, sv \in [Clients -> Seq(1 .. MaxRequests)], NEW p0, NEW q, NEW r,
         UpBy(c, a, u, away, sv[c], p0, q, r), NEW n \in Packets(u),
         NEW st, st = [partial |-> p0, served |-> sv, out |-> <<>>],
         NEW dn \in Seq(Tokens), NEW i, NEW j, NEW p
  PROVE  \E o, q1, r1 :
           ServedBy(ServerReceived(st, SubSeq(u, 1, n)), c, a, SubSeq(u, n + 1, Len(u)),
                    away, sv, dn, i, j, p, Done(q, r), o, q1, r1)
<1> DEFINE ms == SentOf(c, a)
           packet == SubSeq(u, 1, n)
           u1 == SubSeq(u, n + 1, Len(u))
           h == Done(q, r)
<1>1. ms \in Seq(Messages) /\ ms = SentOf(c, a)
  BY SentFacts
<1>2. /\ q \in Nat /\ r \in 0 .. 2 /\ Carries(u, ms, q, r)
      /\ (c \notin away => Rest(u, ms, q, r))
      /\ sv[c] = [x \in 1 .. h |-> x] /\ p0 = Begun(ms, q, r)
  BY DEF UpBy
<1> HIDE DEF ms
<1>3. PICK q1, r1 : PacketTo(u, ms, q, r, n, q1, r1)
  BY <1>1, <1>2, PacketEnds
<1> DEFINE h1 == Done(q1, r1)
           p1 == Begun(ms, q1, r1)
           Q == Pieces(p0, packet)
<1>4. /\ Stretch(packet, ms, q, r, q1, r1) /\ Carries(u1, ms, q1, r1)
      /\ (c \notin away => Rest(u1, ms, q1, r1)) /\ q1 \in Nat /\ r1 \in 0 .. 2
      /\ (~MidCuts => r1 # 1)
  BY <1>2, <1>3 DEF PacketTo
<1>5. h <= h1
  BY <1>2, <1>3, PacketAdvances DEF Carries
<1> HIDE DEF packet, u1
<1>6. CutInto(Q, ms, q, r, q1, r1)
  BY <1>1, <1>2, <1>4, PacketPieces
<1>7. st.partial = p0
  OBVIOUS
<1>8. Q = Pieces(st.partial, packet)
  BY <1>7
<1> HIDE DEF Q
<1>9. Len(Q) \in Nat /\ Q \in Seq(Seq(Tokens))
  BY <1>6 DEF CutInto
<1>20. PICK H, T : Handed(H, T, Q, ms, q, r, q1, r1)
  BY <1>1, <1>4, <1>6, PacketTurns
<1>10. /\ Turns(H, T, Q, ms) /\ H[0] = h /\ H[Len(Q)] = h1
       /\ T[0] = p0 /\ T[Len(Q)] = p1
  BY <1>2, <1>20 DEF Handed
<1>11. PICK after : /\ Handles(after, "server", 0, st, Q)
                    /\ ServerReceived(st, packet) = after[Len(Q)]
  BY <1>8, <1>9, ServerHandles
<1>12. h \in Nat
  BY <1>2 DEF Done
<1>13. st = ServerAt(c, sv, H[0], T[0], <<>>)
  <2> DEFINE f == [x \in 1 .. h |-> x]
  <2>1. sv[c] = f
    BY <1>2
  <2> HIDE DEF f
  <2>2. [sv EXCEPT ![c] = f] = sv
    BY <2>1
  <2> QED BY <2>2, <1>10 DEF ServerAt, f
<1>14. DOMAIN sv = Clients
  OBVIOUS
<1> HIDE DEF h, h1, p1
<1>15. H[0] \in Nat /\ Turns(H, T, Q, SentOf(c, a))
  BY <1>1, <1>10, <1>12
<1>16. \E o : Replied(after[Len(Q)], c, a, sv, H[0], H[Len(Q)], T[Len(Q)],
                      dn, i, j, p, o)
  BY <1>9, <1>11, <1>13, <1>14, <1>15, ServerFold
<1>21. PICK o : Replied(after[Len(Q)], c, a, sv, H[0], H[Len(Q)], T[Len(Q)],
                        dn, i, j, p, o)
  BY <1>16
<1>17. /\ o \in Seq(Tokens) /\ after[Len(Q)] = ServerAt(c, sv, h1, p1, o)
       /\ DownAt(dn, a, h, i, j, p) => DownAt(dn \o o, a, h1, i, j, p)
  BY <1>10, <1>21 DEF Replied
<1>18. UpBy(c, a, u1, away, [x \in 1 .. h1 |-> x], p1, q1, r1)
  BY <1>1, <1>4 DEF UpBy, h1, p1
<1>19. ServedBy(ServerReceived(st, packet), c, a, u1, away, sv, dn, i, j, p, h, o, q1, r1)
  BY <1>1, <1>5, <1>11, <1>17, <1>18 DEF ServedBy, h1, p1
<1> QED BY <1>19 DEF packet, u1, h

\* A packet in client c, after which it has made the calls calls more.
HeardBy(st, c, a, made, dn, s, i, j, p, calls) ==
  /\ calls \in Seq(CallType)
  /\ ClientBy(c, a, [st EXCEPT !.calls = <<>>], made \o calls, dn, {}, s, i, j, p)
  /\ st.calls = calls

\* What a packet from globalsd makes of client c.
LEMMA ClientPacket ==
  ASSUME NEW c, NEW a, NEW s, NEW cl, NEW made, NEW dn, NEW away, NEW i, NEW j, NEW p,
         c \in Clients, a = asked[c], a \in Seq(Requests), Len(a) <= MaxRequests,
         s \in 0 .. Len(a), ClientBy(c, a, cl, made, dn, away, s, i, j, p),
         c \notin away, NEW n \in Packets(dn), made \in Seq(CallType)
  PROVE  \E i1, j1, p1, calls :
           HeardBy(ClientReceived(c, cl, SubSeq(dn, 1, n)), c, a, made,
                   SubSeq(dn, n + 1, Len(dn)), s, i1, j1, p1, calls)
<1>1. /\ i \in 0 .. s /\ j \in 0 .. RowsOf(a, i) /\ p \in Seq(Tokens)
      /\ cl = ClientAt(c, a, i, j, p, <<>>) /\ made = Made(c, a, i, j)
      /\ DownAt(dn, a, s, i, j, p)
  BY DEF ClientBy
<1>2. PICK ms, q, r : DownBy(ms, q, r, dn, a, s, i, j, p)
  BY <1>1 DEF DownAt
<1> DEFINE h == Done(q, r)
           packet == SubSeq(dn, 1, n)
           dn1 == SubSeq(dn, n + 1, Len(dn))
<1>3. /\ q \in Nat /\ r \in 0 .. 2 /\ Chain(ms, a, s) /\ Rest(dn, ms, q, r)
      /\ IdAt(ms, h) = i /\ RowAt(ms, h) = j /\ p = Begun(ms, q, r)
  BY <1>2 DEF DownBy
<1>4. ms \in Seq(Messages) /\ Carries(dn, ms, q, r)
  BY <1>3 DEF Chain, Rest
<1>5. PICK q1, r1 : PacketTo(dn, ms, q, r, n, q1, r1)
  BY <1>3, <1>4, PacketEnds
<1> DEFINE h1 == Done(q1, r1)
           p1 == Begun(ms, q1, r1)
           i1 == IdAt(ms, h1)
           j1 == RowAt(ms, h1)
           Q == Pieces(p, packet)
<1>6. /\ Stretch(packet, ms, q, r, q1, r1) /\ Carries(dn1, ms, q1, r1)
      /\ Rest(dn1, ms, q1, r1) /\ q1 \in Nat /\ r1 \in 0 .. 2
  BY <1>3, <1>5 DEF PacketTo
<1> HIDE DEF packet, dn1
<1>7. CutInto(Q, ms, q, r, q1, r1)
  BY <1>3, <1>4, <1>6, PacketPieces
<1>8. cl.partial = p
  BY <1>1 DEF ClientAt
<1>9. Q = Pieces(cl.partial, packet)
  BY <1>8
<1> HIDE DEF Q
<1>10. Len(Q) \in Nat /\ Q \in Seq(Seq(Tokens))
  BY <1>7 DEF CutInto
<1>25. PICK H, T : Handed(H, T, Q, ms, q, r, q1, r1)
  BY <1>4, <1>6, <1>7, PacketTurns
<1>11. /\ Turns(H, T, Q, ms) /\ H[0] = h /\ H[Len(Q)] = h1
       /\ T[0] = p /\ T[Len(Q)] = p1
  BY <1>3, <1>25 DEF Handed
<1>12. PICK after : /\ Handles(after, "client", c, cl, Q)
                    /\ ClientReceived(c, cl, packet) = after[Len(Q)]
  BY <1>9, <1>10, ClientHandles
<1>13. h \in 0 .. Len(ms) /\ h1 \in 0 .. Len(ms)
  BY <1>3, <1>4, <1>6, TakenBounds
<1> HIDE DEF h, h1, p1
<1>14. Heard(cl, c, a, ms, H[0], T[0], made, <<>>)
  <2>1. <<>> \in Seq(CallType) /\ made \o <<>> = made
    BY ConcatEmptySeq
  <2> QED BY <1>1, <1>3, <1>11, <1>13, <2>1 DEF Heard, ClientOf, MadeOf
<1>15. Hears(c, a, s, ms)
  BY <1>3 DEF Hears
<1>16. \E calls : Heard(after[Len(Q)], c, a, ms, H[Len(Q)], T[Len(Q)], made, calls)
  BY <1>10, <1>11, <1>12, <1>14, <1>15, ClientFold
<1>17. PICK calls : Heard(after[Len(Q)], c, a, ms, h1, p1, made, calls)
  BY <1>11, <1>16
<1> DEFINE st == ClientReceived(c, cl, packet)
<1>18. /\ calls \in Seq(CallType) /\ st = ClientAt(c, a, i1, j1, p1, calls)
       /\ Made(c, a, i1, j1) = made \o calls
  BY <1>12, <1>17 DEF Heard, ClientOf, MadeOf
<1> HIDE DEF st
<1>19. i1 \in 0 .. s /\ j1 \in 0 .. RowsOf(a, i1)
  BY <1>3, <1>13, ChainPlaces
<1>20. p1 \in Seq(Tokens)
  <2>1. CASE r1 = 1
    <3> DEFINE m == ms[q1 + 1]
    <3>1. m \in Messages
      BY <1>4, <1>6, <2>1, TakenBounds
    <3>2. p1 = Cut(m, 1)
      BY <2>1 DEF p1, Begun
    <3> HIDE DEF m
    <3>3. 1 \in 0 .. 2
      OBVIOUS
    <3> QED BY <3>1, <3>2, <3>3, CutTypes
  <2>2. CASE r1 # 1
    <3>1. p1 = <<>> /\ <<>> \in Seq(Tokens)
      BY <2>2 DEF p1, Begun
    <3> QED BY <3>1
  <2> QED BY <2>1, <2>2
<1>21. DownAt(dn1, a, s, i1, j1, p1)
  <2>1. DownBy(ms, q1, r1, dn1, a, s, i1, j1, p1)
    BY <1>3, <1>6 DEF DownBy, h1, p1
  <2> QED BY <2>1 DEF DownAt
<1> HIDE DEF i1, j1
<1>22. st.calls = calls /\ [st EXCEPT !.calls = <<>>] = ClientAt(c, a, i1, j1, p1, <<>>)
  <2> DEFINE size == RowsOf(a, i1)
             batch == IF c \in Stream THEN <<>> ELSE Rows(i1, j1)
             none == <<>>
  <2>1. /\ st = [partial |-> p1, size |-> size, counter |-> j1, current |-> i1,
                 batch |-> batch, calls |-> calls]
        /\ ClientAt(c, a, i1, j1, p1, none)
             = [partial |-> p1, size |-> size, counter |-> j1, current |-> i1,
                batch |-> batch, calls |-> none]
    BY <1>18, Zenon DEF ClientAt
  <2> HIDE DEF size, batch, none
  <2>2. /\ st.calls = calls
        /\ [st EXCEPT !.calls = none] = ClientAt(c, a, i1, j1, p1, none)
    BY <2>1
  <2> QED BY <2>2 DEF none
<1>23. ClientBy(c, a, [st EXCEPT !.calls = <<>>], made \o calls, dn1, {}, s, i1, j1, p1)
  BY <1>18, <1>19, <1>20, <1>21, <1>22 DEF ClientBy
<1>24. HeardBy(st, c, a, made, dn1, s, i1, j1, p1, calls)
  BY <1>18, <1>22, <1>23 DEF HeardBy
<1> QED BY <1>24 DEF st, packet, dn1

\* A client leaves: what it had sent is cut somewhere, and what was on its way
\* to it is lost. Nothing changes for the others.
LEMMA UpLeaves ==
  ASSUME NEW c \in Clients, NEW a \in Seq(Requests), NEW u, NEW away, NEW sv, NEW p,
         UpAt(c, a, u, away, sv, p), NEW n \in 0 .. Len(u)
  PROVE  UpAt(c, a, SubSeq(u, 1, n), away \cup {c}, sv, p)
<1> DEFINE ms == SentOf(c, a)
           v == SubSeq(u, 1, n)
           more == away \cup {c}
<1>1. PICK q, r : UpBy(c, a, u, away, sv, p, q, r)
  BY DEF UpAt
<1>2. ms \in Seq(Messages) /\ ms = SentOf(c, a)
  BY SentFacts
<1> HIDE DEF ms
<1>3. /\ q \in Nat /\ r \in 0 .. 2 /\ (~MidCuts => r # 1)
      /\ Carries(u, ms, q, r)
      /\ sv = [x \in 1 .. Done(q, r) |-> x] /\ p = Begun(ms, q, r)
  BY <1>1, <1>2 DEF UpBy
<1>4. 3 * q + r + n \in Nat
  BY <1>3 DEF Carries
<1>5. PICK q1 \in Nat, r1 \in 0 .. 2 : 3 * q + r + n = 3 * q1 + r1
  BY <1>4, Thirds
<1>6. 3 * q1 + r1 = 3 * q + r + n
  BY <1>5
<1>7. Stretch(v, ms, q, r, q1, r1)
  BY <1>2, <1>3, <1>6, StreamCut
<1>8. Carries(v, ms, q, r)
  BY <1>7 DEF Stretch
<1>9. c \in more
  OBVIOUS
<1> HIDE DEF v, more
<1>10. UpBy(c, a, v, more, sv, p, q, r)
  BY <1>2, <1>3, <1>8, <1>9 DEF UpBy
<1> QED BY <1>10 DEF UpAt, v, more

\* It changes nothing of what globalsd has of another.
LEMMA UpStays ==
  ASSUME NEW c, NEW a, NEW u, NEW away, NEW sv, NEW p, UpAt(c, a, u, away, sv, p),
         NEW more, away \subseteq more
  PROVE  UpAt(c, a, u, more, sv, p)
<1>1. PICK q, r : UpBy(c, a, u, away, sv, p, q, r)
  BY DEF UpAt
<1>2. UpBy(c, a, u, more, sv, p, q, r)
  BY <1>1 DEF UpBy
<1> QED BY <1>2 DEF UpAt

\* Nor of what another has heard.
LEMMA ClientLeaves ==
  ASSUME NEW c, NEW a, NEW cl, NEW made, NEW dn, NEW away, NEW s,
         ClientIs(c, a, cl, made, dn, away, s), NEW more, away \subseteq more,
         NEW now, c \notin more => now = dn
  PROVE  ClientIs(c, a, cl, made, now, more, s)
<1>1. PICK i, j, p : ClientBy(c, a, cl, made, dn, away, s, i, j, p)
  BY DEF ClientIs
<1>2. ClientBy(c, a, cl, made, now, more, s, i, j, p)
  BY <1>1 DEF ClientBy
<1> QED BY <1>2 DEF ClientIs

\* A packet may end inside an object only while there is a single client and
\* it stays: otherwise the partial object that all connections share is put in
\* front of the packet of another.
WholePackets ==
  ~MidCuts \/ ("disconnect" \notin Faults /\ \A c, d \in Clients : c = d)

\* The shape of the state, and where globalsd and the clients are in what was
\* sent to them.
Shape ==
  /\ asked \in [Clients -> Seq(Requests)]
  /\ \A c \in Clients : Len(asked[c]) <= MaxRequests
  /\ up \in [Clients -> Seq(Tokens)] /\ down \in [Clients -> Seq(Tokens)]
  /\ server = [partial |-> server.partial, served |-> server.served, out |-> <<>>]
  /\ server.served \in [Clients -> Seq(1 .. MaxRequests)]
  /\ DOMAIN client = Clients
  /\ called \in [Clients -> Seq(CallType)]
  /\ gone \subseteq Clients /\ (gone # {} => "disconnect" \in Faults)
  /\ Clients = {} => server.partial = <<>>

UpOK ==
  \A c \in Clients :
    UpAt(c, asked[c], up[c], gone, server.served[c], server.partial)

ClientOK ==
  \A c \in Clients :
    ClientIs(c, asked[c], client[c], called[c], down[c], gone, Len(server.served[c]))

WireInv == Shape /\ UpOK /\ ClientOK

\* It holds at the start.
LEMMA WireStarts ==
  ASSUME Init
  PROVE  WireInv
<1> DEFINE none == <<>>
           empty == [c \in Clients |-> <<>>]
<1>1. /\ asked = empty /\ up = empty /\ down = empty /\ called = empty /\ gone = {}
      /\ server = [partial |-> none, served |-> empty, out |-> none]
      /\ client = [c \in Clients |-> Fresh]
  BY DEF Init
<1>2. server.partial = none /\ server.served = empty
  <2> HIDE DEF none, empty
  <2> QED BY <1>1
<1>3. \A T : none \in Seq(T) /\ Len(none) = 0
  OBVIOUS
<1>4. empty \in [Clients -> Seq(Requests)] /\ empty \in [Clients -> Seq(Tokens)]
      /\ empty \in [Clients -> Seq(1 .. MaxRequests)] /\ empty \in [Clients -> Seq(CallType)]
      /\ \A c \in Clients : empty[c] = none
  BY <1>3
<1> HIDE DEF empty, none
<1>5. MaxRequests \in Nat
  BY WireAssumption
<1>6. Shape
  BY <1>1, <1>2, <1>3, <1>4, <1>5 DEF Shape
<1>7. ASSUME NEW c \in Clients
      PROVE  UpAt(c, none, none, {}, none, none)
  <2>1. none \in Seq(Requests) /\ none \in Seq(Tokens) /\ Len(none) = 0
    BY <1>3
  <2> DEFINE ms == SentOf(c, none)
  <2>2. ms \in Seq(Messages) /\ Len(ms) = 0
    BY <2>1, SentFacts
  <2> HIDE DEF ms
  <2>3. Rest(none, ms, 0, 0)
    BY <2>1, <2>2 DEF Rest, Carries
  <2>4. Carries(none, ms, 0, 0)
    BY <2>3 DEF Rest
  <2>5. none = [x \in 1 .. Done(0, 0) |-> x] /\ none = Begun(ms, 0, 0)
    BY DEF Done, Begun, none
  <2>6. UpBy(c, none, none, {}, none, none, 0, 0)
    BY <2>3, <2>4, <2>5 DEF UpBy, ms
  <2> QED BY <2>6 DEF UpAt
<1>8. UpOK
  BY <1>1, <1>2, <1>4, <1>7 DEF UpOK
<1>9. ASSUME NEW c \in Clients
      PROVE  ClientIs(c, none, Fresh, none, none, {}, 0)
  <2>1. none \in Seq(Tokens) /\ Len(none) = 0 /\ none = <<>>
    BY <1>3 DEF none
  <2>2. Chain(none, none, 0)
    BY <2>1, ChainStart
  <2>3. Rest(none, none, 0, 0)
    BY <2>1 DEF Rest, Carries
  <2>4. IdAt(none, Done(0, 0)) = 0 /\ RowAt(none, Done(0, 0)) = 0 /\ Begun(none, 0, 0) = none
    BY <2>1 DEF Done, Begun, IdAt, RowAt
  <2>5. DownBy(none, 0, 0, none, none, 0, 0, 0, none)
    BY <2>2, <2>3, <2>4 DEF DownBy
  <2>6. DownAt(none, none, 0, 0, 0, none)
    BY <2>5 DEF DownAt
  <2>7. Rows(0, 0) = <<>> /\ RowsOf(none, 0) = 0 /\ Made(c, none, 0, 0) = none
    BY <2>1 DEF Rows, RowsOf, Made
  <2>8. Fresh = ClientAt(c, none, 0, 0, none, <<>>)
    BY <2>1, <2>7, Zenon DEF Fresh, ClientAt
  <2>9. ClientBy(c, none, Fresh, none, none, {}, 0, 0, 0, none)
    BY <2>1, <2>6, <2>7, <2>8 DEF ClientBy
  <2> QED BY <2>9 DEF ClientIs
<1>10. ClientOK
  <2>1. ASSUME NEW c \in Clients
        PROVE  ClientIs(c, asked[c], client[c], called[c], down[c], gone,
                        Len(server.served[c]))
    <3>1. /\ asked[c] = none /\ client[c] = Fresh /\ called[c] = none /\ down[c] = none
          /\ gone = {} /\ server.served[c] = none
      BY <1>1, <1>2, <1>4
    <3>2. Len(none) = 0
      BY <1>3
    <3> QED BY <1>9, <3>1, <3>2
  <2> QED BY <2>1 DEF ClientOK
<1> QED BY <1>6, <1>8, <1>10 DEF WireInv

\* A request is sent.
LEMMA SendKeeps ==
  ASSUME WireInv, NEW c \in Clients, NEW r \in Requests, Send(c, r)
  PROVE  WireInv'
<1> DEFINE a == asked[c]
           b == Append(a, r)
           w == Line(Ask(c, Len(a) + 1, r))
<1>1. /\ c \notin gone /\ Len(a) < MaxRequests
      /\ asked' = [asked EXCEPT ![c] = b] /\ up' = [up EXCEPT ![c] = @ \o w]
      /\ down' = down /\ server' = server /\ client' = client /\ called' = called
      /\ gone' = gone
  BY DEF Send
<1>2. Shape /\ UpOK /\ ClientOK /\ MaxRequests \in Nat
  BY WireAssumption DEF WireInv
<1>3. a \in Seq(Requests) /\ b \in Seq(Requests) /\ Len(b) <= MaxRequests
  <2>1. a \in Seq(Requests)
    BY <1>2 DEF Shape
  <2>2. b \in Seq(Requests) /\ Len(b) = Len(a) + 1 /\ Len(a) \in Nat
    BY <2>1, AppendFacts
  <2> QED BY <1>1, <1>2, <2>1, <2>2
<1>4. w \in Seq(Tokens)
  <2>1. Len(a) + 1 \in Nat
    BY <1>3
  <2>2. Ask(c, Len(a) + 1, r) \in Messages
    BY <1>3, <2>1, SentFacts
  <2> QED BY <2>2, LineTokens
<1>5. /\ asked'[c] = b /\ up'[c] = up[c] \o w
      /\ \A d \in Clients : d # c => asked'[d] = asked[d] /\ up'[d] = up[d]
  BY <1>1, <1>2 DEF Shape
<1> HIDE DEF b, w
<1>6. Shape'
  <2>1. asked' \in [Clients -> Seq(Requests)] /\ up' \in [Clients -> Seq(Tokens)]
    BY <1>1, <1>2, <1>3, <1>4 DEF Shape
  <2>2. \A d \in Clients : Len(asked'[d]) <= MaxRequests
    BY <1>2, <1>3, <1>5 DEF Shape
  <2> QED BY <1>1, <1>2, <2>1, <2>2 DEF Shape
<1>7. ASSUME NEW d \in Clients
      PROVE  UpAt(d, asked'[d], up'[d], gone, server.served[d], server.partial)
  <2>1. UpAt(d, asked[d], up[d], gone, server.served[d], server.partial)
    BY <1>2 DEF UpOK
  <2>2. CASE d = c
    <3>1. UpAt(c, b, up[c] \o w, gone, server.served[c], server.partial)
      BY <1>1, <1>3, <2>1, <2>2, UpSends DEF b, w
    <3> QED BY <1>5, <2>2, <3>1
  <2>3. CASE d # c
    BY <1>5, <2>1, <2>3
  <2> QED BY <2>2, <2>3
<1>8. ASSUME NEW d \in Clients
      PROVE  ClientIs(d, asked'[d], client[d], called[d], down[d], gone,
                      Len(server.served[d]))
  <2>1. ClientIs(d, asked[d], client[d], called[d], down[d], gone, Len(server.served[d]))
    BY <1>2 DEF ClientOK
  <2>2. CASE d = c
    <3>1. UpAt(c, a, up[c], gone, server.served[c], server.partial)
      BY <1>2 DEF UpOK
    <3>2. PICK q, t : UpBy(c, a, up[c], gone, server.served[c], server.partial, q, t)
      BY <3>1 DEF UpAt
    <3>3. Len(server.served[c]) \in 0 .. Len(a)
      BY <1>3, <3>2, UpFacts
    <3>4. ClientIs(c, b, client[c], called[c], down[c], gone, Len(server.served[c]))
      BY <1>3, <2>1, <2>2, <3>3, ClientSends DEF b
    <3> QED BY <1>5, <2>2, <3>4
  <2>3. CASE d # c
    BY <1>5, <2>1, <2>3
  <2> QED BY <2>2, <2>3
<1>9. UpOK'
  BY <1>1, <1>7 DEF UpOK
<1>10. ClientOK'
  BY <1>1, <1>8 DEF ClientOK
<1> QED BY <1>6, <1>9, <1>10 DEF WireInv

\* globalsd reads a packet.
LEMMA ServerDataKeeps ==
  ASSUME WireInv, Answerable, WholePackets, NEW c \in Clients, ServerData(c)
  PROVE  WireInv' /\ UNCHANGED <<asked, called>>
         /\ \E h \in Len(server.served[c]) .. Len(asked[c]) :
              server'.served = [server.served EXCEPT ![c] = [x \in 1 .. h |-> x]]
<1> DEFINE a == asked[c]
           sv == server.served
           p0 == server.partial
           dn == down[c]
<1>1. PICK n \in Packets(up[c]) :
        LET st == ServerReceived(server, SubSeq(up[c], 1, n)) IN
        /\ up' = [up EXCEPT ![c] = SubSeq(@, n + 1, Len(@))]
        /\ server' = [st EXCEPT !.out = <<>>]
        /\ down' = IF c \in gone THEN down ELSE [down EXCEPT ![c] = @ \o st.out]
        /\ UNCHANGED <<asked, client, called, gone>>
  BY DEF ServerData
<1> DEFINE st == ServerReceived(server, SubSeq(up[c], 1, n))
           u1 == SubSeq(up[c], n + 1, Len(up[c]))
<1>2. Shape /\ UpOK /\ ClientOK /\ MaxRequests \in Nat
  BY WireAssumption DEF WireInv
<1>3. /\ a \in Seq(Requests) /\ Len(a) <= MaxRequests
      /\ sv \in [Clients -> Seq(1 .. MaxRequests)] /\ dn \in Seq(Tokens)
      /\ server = [partial |-> p0, served |-> sv, out |-> <<>>]
  BY <1>2 DEF Shape
<1>4. PICK q, r : UpBy(c, a, up[c], gone, sv[c], p0, q, r)
  BY <1>2 DEF UpOK, UpAt
<1>5. PICK i, j, p : ClientBy(c, a, client[c], called[c], dn, gone, Len(sv[c]), i, j, p)
  BY <1>2 DEF ClientOK, ClientIs
<1> HIDE DEF a, sv, p0, dn
<1> DEFINE h == Done(q, r)
<1>6. h \in 0 .. Len(a) /\ Len(sv[c]) = h /\ (p0 # <<>> => r = 1)
  BY <1>3, <1>4, UpFacts
<1>7. PICK o, q1, r1 : ServedBy(st, c, a, u1, gone, sv, dn, i, j, p, h, o, q1, r1)
  BY <1>3, <1>4, ServerPacket
<1> HIDE DEF st, u1, h
<1> DEFINE h1 == Done(q1, r1)
           p1 == Begun(SentOf(c, a), q1, r1)
           to == [x \in 1 .. h1 |-> x]
           sv1 == [sv EXCEPT ![c] = to]
<1>8. /\ o \in Seq(Tokens) /\ h <= h1 /\ st = ServerAt(c, sv, h1, p1, o)
      /\ UpBy(c, a, u1, gone, to, p1, q1, r1)
      /\ DownAt(dn, a, h, i, j, p) => DownAt(dn \o o, a, h1, i, j, p)
  BY <1>7 DEF ServedBy
<1>9. /\ h1 \in 0 .. Len(a) /\ Len(to) = h1 /\ to \in Seq(1 .. Len(a))
      /\ p1 \in Seq(Tokens) /\ (p1 # <<>> => r1 = 1)
  BY <1>3, <1>8, UpFacts
<1>10. u1 \in Seq(Tokens)
  BY <1>8 DEF UpBy, Carries
<1>11. st = [partial |-> p1, served |-> sv1, out |-> o]
  BY <1>8 DEF ServerAt
<1> HIDE DEF h1, p1, to
<1>12. to \in Seq(1 .. MaxRequests)
  <2>1. 1 .. Len(a) \subseteq 1 .. MaxRequests
    BY <1>2, <1>3
  <2>2. to \in [1 .. h1 -> 1 .. MaxRequests] /\ h1 \in Nat
    <3>1. to \in [1 .. h1 -> 1 .. Len(a)] /\ h1 \in Nat
      BY <1>9
    <3> QED BY <2>1, <3>1
  <2> DEFINE N == 1 .. MaxRequests
  <2>3. to \in [1 .. h1 -> N] /\ h1 \in Nat
    BY <2>2
  <2> HIDE DEF N
  <2>4. to \in Seq(N)
    BY <2>3
  <2> QED BY <2>4 DEF N
<1>13. sv1 \in [Clients -> Seq(1 .. MaxRequests)] /\ sv1[c] = to
       /\ \A d \in Clients : d # c => sv1[d] = sv[d]
  BY <1>3, <1>12
<1> HIDE DEF sv1
<1> DEFINE none == <<>>
<1>14. st.out = o /\ [st EXCEPT !.out = none] = [partial |-> p1, served |-> sv1, out |-> none]
  <2> HIDE DEF none
  <2> QED BY <1>11
<1>15. /\ server' = [partial |-> p1, served |-> sv1, out |-> none]
       /\ server'.partial = p1 /\ server'.served = sv1
  <2>1. server' = [st EXCEPT !.out = none]
    BY <1>1 DEF st
  <2> HIDE DEF none
  <2> QED BY <1>14, <2>1
<1>16. /\ asked' = asked /\ client' = client /\ called' = called /\ gone' = gone
       /\ up' = [up EXCEPT ![c] = u1]
       /\ down' = IF c \in gone THEN down ELSE [down EXCEPT ![c] = dn \o o]
  BY <1>1, <1>14 DEF st, u1, dn
<1>17. /\ up'[c] = u1 /\ (c \notin gone => down'[c] = dn \o o)
       /\ \A d \in Clients : d # c => up'[d] = up[d] /\ down'[d] = down[d]
  <2>1. up \in [Clients -> Seq(Tokens)] /\ down \in [Clients -> Seq(Tokens)]
    BY <1>2 DEF Shape
  <2> QED BY <1>16, <2>1
<1>18. Shape'
  <2>1. up' \in [Clients -> Seq(Tokens)]
    BY <1>2, <1>10, <1>16 DEF Shape
  <2>2. down' \in [Clients -> Seq(Tokens)]
    <3>1. dn \o o \in Seq(Tokens)
      BY <1>3, <1>8
    <3> QED BY <1>2, <1>16, <3>1 DEF Shape
  <2>3. server' = [partial |-> server'.partial, served |-> server'.served, out |-> <<>>]
    BY <1>15
  <2>4. server'.served \in [Clients -> Seq(1 .. MaxRequests)] /\ Clients # {}
    BY <1>13, <1>15
  <2> QED BY <1>2, <1>16, <2>1, <2>2, <2>3, <2>4 DEF Shape
<1>19. ASSUME NEW d \in Clients, d # c
       PROVE  UpAt(d, asked[d], up[d], gone, sv[d], p1)
  <2>1. ~MidCuts
    BY <1>19 DEF WholePackets
  <2>2. r # 1 /\ r1 # 1
    BY <1>4, <1>8, <2>1 DEF UpBy
  <2>3. p0 = p1
    BY <1>6, <1>9, <2>2
  <2> QED BY <1>2, <2>3 DEF UpOK, sv, p0
<1>20. ASSUME NEW d \in Clients
       PROVE  UpAt(d, asked[d], up'[d], gone, sv1[d], p1)
  <2>1. CASE d = c
    <3>1. UpAt(c, a, u1, gone, to, p1)
      BY <1>8 DEF UpAt
    <3> QED BY <1>13, <1>17, <2>1, <3>1 DEF a
  <2>2. CASE d # c
    BY <1>13, <1>17, <1>19, <2>2
  <2> QED BY <2>1, <2>2
<1>21. ASSUME NEW d \in Clients
       PROVE  ClientIs(d, asked[d], client[d], called[d], down'[d], gone, Len(sv1[d]))
  <2>1. CASE d = c
    <3> DEFINE cl == client[c]
               made == called[c]
               now == down'[c]
    <3>1. /\ i \in 0 .. h /\ j \in 0 .. RowsOf(a, i) /\ p \in Seq(Tokens)
          /\ cl = ClientAt(c, a, i, j, p, <<>>) /\ made = Made(c, a, i, j)
          /\ c \notin gone => DownAt(dn, a, h, i, j, p)
      BY <1>5, <1>6 DEF ClientBy
    <3>2. i \in 0 .. h1
      BY <1>6, <1>8, <1>9, <3>1
    <3>3. c \notin gone => DownAt(now, a, h1, i, j, p)
      BY <1>8, <1>17, <3>1
    <3> HIDE DEF cl, made, now
    <3>4. ClientBy(c, a, cl, made, now, gone, h1, i, j, p)
      BY <3>1, <3>2, <3>3 DEF ClientBy
    <3>5. ClientIs(c, a, cl, made, now, gone, h1)
      BY <3>4 DEF ClientIs
    <3> QED BY <1>9, <1>13, <2>1, <3>5 DEF cl, made, now, a
  <2>2. CASE d # c
    <3>1. ClientIs(d, asked[d], client[d], called[d], down[d], gone, Len(sv[d]))
      BY <1>2 DEF ClientOK, sv
    <3> QED BY <1>13, <1>17, <2>2, <3>1
  <2> QED BY <2>1, <2>2
<1>22. UpOK'
  BY <1>15, <1>16, <1>20 DEF UpOK
<1>23. ClientOK'
  BY <1>15, <1>16, <1>21 DEF ClientOK
<1>24. WireInv'
  BY <1>18, <1>22, <1>23 DEF WireInv
<1>25. /\ h1 \in Len(sv[c]) .. Len(a)
       /\ server'.served = [sv EXCEPT ![c] = [x \in 1 .. h1 |-> x]]
  BY <1>6, <1>8, <1>9, <1>15 DEF sv1, to
<1>26. \E t \in Len(sv[c]) .. Len(a) :
         server'.served = [sv EXCEPT ![c] = [x \in 1 .. t |-> x]]
  <2> HIDE DEF h1
  <2> QED BY <1>25
<1>27. UNCHANGED <<asked, called>>
  BY <1>16
<1> QED BY <1>24, <1>26, <1>27 DEF sv, a

\* A client reads a packet.
LEMMA ClientDataKeeps ==
  ASSUME WireInv, NEW c \in Clients, ClientData(c)
  PROVE  WireInv' /\ UNCHANGED <<asked, server>>
         /\ \E calls \in Seq(CallType) : called' = [called EXCEPT ![c] = @ \o calls]
<1> DEFINE a == asked[c]
           s == Len(server.served[c])
           cl == client[c]
           dn == down[c]
           made == called[c]
<1>1. PICK n \in Packets(dn) :
        LET st == ClientReceived(c, cl, SubSeq(dn, 1, n)) IN
        /\ c \notin gone
        /\ down' = [down EXCEPT ![c] = SubSeq(@, n + 1, Len(@))]
        /\ client' = [client EXCEPT ![c] = [st EXCEPT !.calls = <<>>]]
        /\ called' = [called EXCEPT ![c] = @ \o st.calls]
        /\ UNCHANGED <<asked, up, server, gone>>
  BY DEF ClientData
<1> DEFINE st == ClientReceived(c, cl, SubSeq(dn, 1, n))
           dn1 == SubSeq(dn, n + 1, Len(dn))
           cl1 == [st EXCEPT !.calls = <<>>]
<1>2. Shape /\ UpOK /\ ClientOK
  BY DEF WireInv
<1>3. /\ a \in Seq(Requests) /\ Len(a) <= MaxRequests /\ a = asked[c]
      /\ made \in Seq(CallType) /\ dn \in Seq(Tokens)
  BY <1>2 DEF Shape
<1>4. s \in 0 .. Len(a)
  <2>1. PICK q, r : UpBy(c, a, up[c], gone, server.served[c], server.partial, q, r)
    BY <1>2 DEF UpOK, UpAt
  <2> QED BY <1>3, <2>1, UpFacts
<1>5. PICK i, j, p : ClientBy(c, a, cl, made, dn, gone, s, i, j, p)
  BY <1>2 DEF ClientOK, ClientIs
<1>6. c \notin gone
  BY <1>1
<1> HIDE DEF a, s, cl, dn, made
<1>7. PICK i1, j1, p1, calls : HeardBy(st, c, a, made, dn1, s, i1, j1, p1, calls)
  BY <1>3, <1>4, <1>5, <1>6, ClientPacket
<1>8. /\ calls \in Seq(CallType) /\ st.calls = calls
      /\ ClientBy(c, a, cl1, made \o calls, dn1, {}, s, i1, j1, p1)
  BY <1>7 DEF HeardBy
<1>9. dn1 \in Seq(Tokens)
  <2>1. DownAt(dn1, a, s, i1, j1, p1)
    BY <1>8 DEF ClientBy
  <2> QED BY <2>1 DEF DownAt, DownBy, Rest, Carries
<1>10. /\ asked' = asked /\ up' = up /\ server' = server /\ gone' = gone
       /\ down' = [down EXCEPT ![c] = dn1] /\ client' = [client EXCEPT ![c] = cl1]
       /\ called' = [called EXCEPT ![c] = made \o calls]
  BY <1>1, <1>8 DEF dn, made
<1> HIDE DEF st, dn1, cl1
<1>11. /\ down'[c] = dn1 /\ client'[c] = cl1 /\ called'[c] = made \o calls
       /\ \A d \in Clients : d # c => /\ down'[d] = down[d] /\ client'[d] = client[d]
                                      /\ called'[d] = called[d]
  <2>1. /\ down \in [Clients -> Seq(Tokens)] /\ DOMAIN client = Clients
        /\ called \in [Clients -> Seq(CallType)]
    BY <1>2 DEF Shape
  <2> QED BY <1>10, <2>1
<1>12. Shape'
  <2>1. down' \in [Clients -> Seq(Tokens)] /\ DOMAIN client' = Clients
    BY <1>2, <1>9, <1>10 DEF Shape
  <2>2. called' \in [Clients -> Seq(CallType)]
    <3>1. made \o calls \in Seq(CallType)
      BY <1>3, <1>8
    <3> QED BY <1>2, <1>10, <3>1 DEF Shape
  <2> QED BY <1>2, <1>10, <2>1, <2>2 DEF Shape
<1>13. UpOK'
  BY <1>2, <1>10 DEF UpOK
<1>14. ASSUME NEW d \in Clients
       PROVE  ClientIs(d, asked[d], client'[d], called'[d], down'[d], gone,
                       Len(server.served[d]))
  <2>1. CASE d = c
    <3>1. ClientBy(c, a, cl1, made \o calls, dn1, gone, s, i1, j1, p1)
      BY <1>8 DEF ClientBy
    <3>2. ClientIs(c, a, cl1, made \o calls, dn1, gone, s)
      BY <3>1 DEF ClientIs
    <3> QED BY <1>11, <2>1, <3>2 DEF a, s
  <2>2. CASE d # c
    <3>1. ClientIs(d, asked[d], client[d], called[d], down[d], gone, Len(server.served[d]))
      BY <1>2 DEF ClientOK
    <3> QED BY <1>11, <2>2, <3>1
  <2> QED BY <2>1, <2>2
<1>15. ClientOK'
  BY <1>10, <1>14 DEF ClientOK
<1>16. WireInv'
  BY <1>12, <1>13, <1>15 DEF WireInv
<1>17. UNCHANGED <<asked, server>> /\ called' = [called EXCEPT ![c] = @ \o calls]
  BY <1>10 DEF made
<1> QED BY <1>8, <1>16, <1>17

\* A client leaves.
LEMMA DisconnectKeeps ==
  ASSUME WireInv, NEW c \in Clients, Disconnect(c)
  PROVE  WireInv'
<1>1. PICK n \in Packets(up[c]) \cup {0} : up' = [up EXCEPT ![c] = SubSeq(@, 1, n)]
  BY DEF Disconnect
<1> DEFINE u == up[c]
           u1 == SubSeq(u, 1, n)
           none == <<>>
<1>2. /\ "disconnect" \in Faults /\ gone' = gone \cup {c}
      /\ up' = [up EXCEPT ![c] = u1] /\ down' = [down EXCEPT ![c] = none]
      /\ asked' = asked /\ server' = server /\ client' = client /\ called' = called
  BY <1>1 DEF Disconnect
<1>3. Shape /\ UpOK /\ ClientOK
  BY DEF WireInv
<1>4. n \in 0 .. Len(u) /\ u \in Seq(Tokens)
  <2>1. u \in Seq(Tokens)
    BY <1>3 DEF Shape
  <2> QED BY <2>1 DEF Packets
<1>5. u1 \in Seq(Tokens) /\ none \in Seq(Tokens)
  BY <1>4
<1> HIDE DEF u1, none
<1>6. /\ up'[c] = u1 /\ down'[c] = none
      /\ \A d \in Clients : d # c => up'[d] = up[d] /\ down'[d] = down[d]
  <2>1. up \in [Clients -> Seq(Tokens)] /\ down \in [Clients -> Seq(Tokens)]
    BY <1>3 DEF Shape
  <2> QED BY <1>2, <2>1
<1>7. Shape'
  <2>1. up' \in [Clients -> Seq(Tokens)] /\ down' \in [Clients -> Seq(Tokens)]
    BY <1>2, <1>3, <1>5 DEF Shape
  <2> QED BY <1>2, <1>3, <2>1 DEF Shape
<1>8. gone \subseteq gone' /\ c \in gone'
  BY <1>2
<1>9. ASSUME NEW d \in Clients
      PROVE  UpAt(d, asked[d], up'[d], gone', server.served[d], server.partial)
  <2>1. UpAt(d, asked[d], up[d], gone, server.served[d], server.partial)
    BY <1>3 DEF UpOK
  <2>2. CASE d = c
    <3>1. asked[c] \in Seq(Requests)
      BY <1>3 DEF Shape
    <3>2. UpAt(c, asked[c], u1, gone \cup {c}, server.served[c], server.partial)
      BY <1>4, <2>1, <2>2, <3>1, UpLeaves DEF u1
    <3> QED BY <1>2, <1>6, <2>2, <3>2
  <2>3. CASE d # c
    BY <1>6, <1>8, <2>1, <2>3, UpStays
  <2> QED BY <2>2, <2>3
<1>10. ASSUME NEW d \in Clients
       PROVE  ClientIs(d, asked[d], client[d], called[d], down'[d], gone',
                       Len(server.served[d]))
  <2>1. ClientIs(d, asked[d], client[d], called[d], down[d], gone, Len(server.served[d]))
    BY <1>3 DEF ClientOK
  <2>2. d \notin gone' => down'[d] = down[d]
    BY <1>6, <1>8
  <2> QED BY <1>8, <2>1, <2>2, ClientLeaves
<1>11. UpOK'
  BY <1>2, <1>9 DEF UpOK
<1>12. ClientOK'
  BY <1>2, <1>10 DEF ClientOK
<1> QED BY <1>7, <1>11, <1>12 DEF WireInv
-----------------------------------------------------------------------------
(* The theorems. *)

\* Every step keeps it.
LEMMA WireStep ==
  ASSUME WireInv, Answerable, WholePackets, [Next]_wvars
  PROVE  WireInv'
<1>1. CASE UNCHANGED wvars
  <2>1. /\ asked' = asked /\ up' = up /\ down' = down /\ server' = server
        /\ client' = client /\ called' = called /\ gone' = gone
    BY <1>1 DEF wvars
  <2>2. Shape' /\ UpOK' /\ ClientOK'
    BY <2>1 DEF WireInv, Shape, UpOK, ClientOK
  <2> QED BY <2>2 DEF WireInv
<1>2. ASSUME NEW c \in Clients, NEW r \in Requests, Send(c, r)
      PROVE  WireInv'
  BY <1>2, SendKeeps
<1>3. ASSUME NEW c \in Clients, ServerData(c)
      PROVE  WireInv'
  BY <1>3, ServerDataKeeps
<1>4. ASSUME NEW c \in Clients, ClientData(c)
      PROVE  WireInv'
  BY <1>4, ClientDataKeeps
<1>5. ASSUME NEW c \in Clients, Disconnect(c)
      PROVE  WireInv'
  BY <1>5, DisconnectKeeps
<1> QED BY <1>1, <1>2, <1>3, <1>4, <1>5 DEF Next

\* Where globalsd and each client are in what was sent to them, at all times,
\* when no packet cuts a character of several bytes (globalsd/index.js:161).
THEOREM WireInvariant ==
  ASSUME Answerable, WholePackets
  PROVE  Spec => []WireInv
<1>1. Init => WireInv
  BY WireStarts
<1>2. WireInv /\ [Next]_wvars => WireInv'
  BY WireStep
<1> QED BY <1>1, <1>2, PTL DEF Spec

\* It has the type of the state,
LEMMA TypeFollows ==
  ASSUME WireInv
  PROVE  TypeOK
<1>1. Shape /\ UpOK /\ ClientOK
  BY DEF WireInv
<1>2. server.partial \in Seq(Tokens)
  <2>1. CASE Clients = {}
    <3>1. server.partial = <<>> /\ <<>> \in Seq(Tokens)
      BY <1>1, <2>1 DEF Shape
    <3> QED BY <3>1
  <2>2. ASSUME NEW c \in Clients
        PROVE  server.partial \in Seq(Tokens)
    <3>1. asked[c] \in Seq(Requests)
      BY <1>1 DEF Shape
    <3>2. PICK q, r : UpBy(c, asked[c], up[c], gone, server.served[c], server.partial, q, r)
      BY <1>1 DEF UpOK, UpAt
    <3> QED BY <3>1, <3>2, UpFacts
  <2> QED BY <2>1, <2>2
<1>3. server.out = <<>>
  <2> DEFINE none == <<>>
             p0 == server.partial
             sv == server.served
  <2>1. server = [partial |-> p0, served |-> sv, out |-> none]
    BY <1>1 DEF Shape
  <2> HIDE DEF none, p0, sv
  <2>2. server.out = none
    BY <2>1
  <2> QED BY <2>2 DEF none
<1>4. ASSUME NEW c \in Clients
      PROVE  /\ client[c].partial \in Seq(Tokens)
             /\ client[c].size \in Nat /\ client[c].counter \in Nat
             /\ client[c].current \in 0..Len(asked[c])
             /\ client[c].batch \in Seq(Messages)
             /\ client[c].calls = <<>>
  <2> DEFINE a == asked[c]
             s == Len(server.served[c])
             cl == client[c]
  <2>1. a \in Seq(Requests)
    BY <1>1 DEF Shape
  <2>2. PICK q, r : UpBy(c, a, up[c], gone, server.served[c], server.partial, q, r)
    BY <1>1 DEF UpOK, UpAt
  <2>3. s \in 0 .. Len(a)
    BY <2>1, <2>2, UpFacts
  <2>4. PICK i, j, p : ClientBy(c, a, cl, called[c], down[c], gone, s, i, j, p)
    BY <1>1 DEF ClientOK, ClientIs
  <2> HIDE DEF a, s, cl
  <2>5. /\ i \in 0 .. Len(a) /\ j \in 0 .. RowsOf(a, i) /\ p \in Seq(Tokens)
        /\ cl = ClientAt(c, a, i, j, p, <<>>)
    BY <2>1, <2>3, <2>4 DEF ClientBy
  <2>6. RowsOf(a, i) \in Nat
    <3>1. CASE i = 0
      BY <3>1 DEF RowsOf
    <3>2. CASE i # 0
      <4>1. a[i] \in Requests
        BY <2>1, <2>5, <3>2
      <4> QED BY <3>2, <4>1, WireAssumption DEF RowsOf
    <3> QED BY <3>1, <3>2
  <2> DEFINE batch == IF c \in Stream THEN <<>> ELSE Rows(i, j)
             size == RowsOf(a, i)
             none == <<>>
  <2>7. batch \in Seq(Messages)
    <3>1. <<>> \in Seq(Messages)
      OBVIOUS
    <3>2. j \in Nat /\ i \in Nat
      BY <2>5, <2>6
    <3>3. \A x \in 1 .. j : Row(i, x) \in Messages
      BY <3>2 DEF Row, Messages
    <3>4. Rows(i, j) \in [1 .. j -> Messages]
      BY <3>3 DEF Rows
    <3>5. Rows(i, j) \in Seq(Messages)
      BY <3>2, <3>4
    <3> QED BY <3>1, <3>5
  <2>8. cl = [partial |-> p, size |-> size, counter |-> j, current |-> i,
              batch |-> batch, calls |-> none]
    BY <2>5, Zenon DEF ClientAt
  <2>9. size \in Nat /\ j \in Nat
    BY <2>5, <2>6
  <2> HIDE DEF size, batch, none
  <2>10. /\ cl.partial = p /\ cl.size = size /\ cl.counter = j /\ cl.current = i
         /\ cl.batch = batch /\ cl.calls = none
    BY <2>8
  <2> QED BY <2>5, <2>7, <2>9, <2>10 DEF a, cl, none
<1> QED BY <1>1, <1>2, <1>3, <1>4 DEF TypeOK, Shape, CallType

\* The type of the state; the request a client collects results for is one it
\* made (client.js:85).
THEOREM WireTypeOK ==
  ASSUME Answerable, WholePackets
  PROVE  Spec => []TypeOK
<1>1. Spec => []WireInv
  BY WireInvariant
<1>2. WireInv => TypeOK
  BY TypeFollows
<1> QED BY <1>1, <1>2, PTL

\* what becomes of a cut object,
LEMMA PartialFollows ==
  ASSUME WireInv, WholePackets
  PROVE  PartialContinues
<1>1. Shape /\ UpOK
  BY DEF WireInv
<1>2. SUFFICES ASSUME server.partial # <<>>
               PROVE  \E c \in Clients \ gone :
                        up[c] # <<>> /\ IsObject(Append(server.partial, up[c][1]))
  BY DEF PartialContinues
<1>3. PICK c \in Clients : TRUE
  BY <1>1, <1>2 DEF Shape
<1> DEFINE a == asked[c]
           u == up[c]
           ms == SentOf(c, a)
           p == server.partial
<1>4. a \in Seq(Requests)
  BY <1>1 DEF Shape
<1>5. PICK q, r : UpBy(c, a, u, gone, server.served[c], p, q, r)
  BY <1>1 DEF UpOK, UpAt
<1>6. r = 1 /\ q + 1 \in 1 .. Len(a)
  BY <1>2, <1>4, <1>5, UpFacts
<1>7. MidCuts
  BY <1>5, <1>6 DEF UpBy
<1>8. c \notin gone
  <2>1. gone = {}
    BY <1>1, <1>7 DEF Shape, WholePackets
  <2> QED BY <2>1
<1>9. ms \in Seq(Messages) /\ Len(ms) = Len(a)
  BY <1>4, SentFacts
<1> HIDE DEF a, u, p
<1>10. q \in Nat /\ Rest(u, ms, q, r) /\ p = Begun(ms, q, r)
  BY <1>5, <1>8 DEF UpBy
<1> HIDE DEF ms
<1>11. /\ u \in Seq(Tokens) /\ 3 * q + 1 + Len(u) = 3 * Len(ms)
       /\ \A x \in 0 .. Len(ms) - 1, y \in 1 .. 3 :
            3 * x + y - (3 * q + 1) \in 1 .. Len(u) =>
              u[3 * x + y - (3 * q + 1)] = Line(ms[x + 1])[y]
  BY <1>6, <1>10 DEF Rest, Carries
<1>12. Len(u) \in Nat /\ 1 \in 1 .. Len(u) /\ q \in 0 .. Len(ms) - 1 /\ 2 \in 1 .. 3
       /\ 3 * q + 2 - (3 * q + 1) = 1
  <2>1. Len(u) \in Nat /\ Len(ms) \in Nat
    BY <1>9, <1>11
  <2>2. q \in Nat /\ 3 * q + 1 + Len(u) = 3 * Len(ms)
    BY <1>10, <1>11
  <2> QED BY <2>1, <2>2
<1> DEFINE m == ms[q + 1]
<1>13. u[1] = Line(m)[2]
  BY <1>11, <1>12
<1>14. m \in Messages
  BY <1>6, <1>9
<1>15. p = Cut(m, 1)
  BY <1>6, <1>10 DEF Begun
<1> HIDE DEF m
<1>16. u[1] = [msg |-> m, part |-> 2] /\ u # <<>>
  <2>1. Line(m)[2] = [msg |-> m, part |-> 2]
    BY <1>14, LineTokens
  <2>2. u # <<>>
    BY <1>11, <1>12
  <2> QED BY <1>13, <2>1, <2>2
<1> DEFINE first == [msg |-> m, part |-> 1]
           second == [msg |-> m, part |-> 2]
<1>17. p = <<first>> /\ Text(m) = <<first, second>>
  BY <1>15 DEF Cut, Text
<1> HIDE DEF first
<1>18. Append(p, second) = Text(m)
  <2> DEFINE T == {first, second}
  <2> HIDE DEF second
  <2>1. first \in T /\ second \in T
    OBVIOUS
  <2> HIDE DEF T
  <2>2. Append(<<first>>, second) = <<first, second>>
    BY <2>1, AppendPair
  <2> QED BY <1>17, <2>2
<1>19. IsObject(Append(p, u[1]))
  BY <1>16, <1>18, TextFacts
<1> QED BY <1>3, <1>8, <1>16, <1>19 DEF u, p

\* What globalsd keeps of a packet is the cut object at its end, whose other
\* half is the next thing its connection brings (globalsd/index.js:147-148).
THEOREM WirePartialContinues ==
  ASSUME Answerable, WholePackets
  PROVE  Spec => []PartialContinues
<1>1. Spec => []WireInv
  BY WireInvariant
<1>2. WireInv => PartialContinues
  BY PartialFollows
<1> QED BY <1>1, <1>2, PTL

\* and what a client collects.
LEMMA ResultsFollow ==
  ASSUME WireInv
  PROVE  ResultsBelong
<1>1. SUFFICES ASSUME NEW c \in Clients
               PROVE  LET st == client[c] IN
                      /\ st.counter <= st.size
                      /\ st.batch = IF c \in Stream THEN <<>>
                                    ELSE Rows(st.current, st.counter)
  BY DEF ResultsBelong
<1> DEFINE a == asked[c]
           cl == client[c]
<1>2. PICK i, j, p : ClientBy(c, a, cl, called[c], down[c], gone,
                              Len(server.served[c]), i, j, p)
  BY DEF WireInv, ClientOK, ClientIs
<1> HIDE DEF a, cl
<1>3. j \in 0 .. RowsOf(a, i) /\ cl = ClientAt(c, a, i, j, p, <<>>)
  BY <1>2 DEF ClientBy
<1> DEFINE batch == IF c \in Stream THEN <<>> ELSE Rows(i, j)
           size == RowsOf(a, i)
           none == <<>>
<1>4. cl = [partial |-> p, size |-> size, counter |-> j, current |-> i,
            batch |-> batch, calls |-> none]
  BY <1>3, Zenon DEF ClientAt
<1>5. j <= size
  BY <1>3
<1> HIDE DEF size, batch, none
<1>6. cl.size = size /\ cl.counter = j /\ cl.current = i /\ cl.batch = batch
  BY <1>4
<1> QED BY <1>5, <1>6 DEF cl, batch

\* A client collects the results of the request whose header came last, in
\* order and without those of another (client.js:82-97).
THEOREM WireResultsBelong ==
  ASSUME Answerable, WholePackets
  PROVE  Spec => []ResultsBelong
<1>1. Spec => []WireInv
  BY WireInvariant
<1>2. WireInv => ResultsBelong
  BY ResultsFollow
<1> QED BY <1>1, <1>2, PTL

\* What the abstract specification calls due.
LEMMA DueAbstract ==
  ASSUME NEW c \in Clients, NEW s \in Nat, server.served[c] = [x \in 1 .. s |-> x]
  PROVE  Remote!Due(c) = DueBy(c, asked[c], s)
<1>1. DOMAIN server.served[c] = 1 .. s
  OBVIOUS
<1> DEFINE f == [i \in 1 .. s |-> DueCalls(c, i, asked[c][i])]
<1>2. Remote!Due(c) = Remote!FlattenSeq(f)
  BY <1>1 DEF Remote!Due
<1> HIDE DEF f
<1>3. Remote!FlattenSeq(f) = FlattenSeq(f)
  BY DEF Remote!FlattenSeq, FlattenSeq
<1> QED BY <1>2, <1>3 DEF DueBy, f

\* The abstract specification starts as this one.
LEMMA StartsAbstract ==
  ASSUME Init
  PROVE  Remote!CInit
<1> DEFINE none == <<>>
           empty == [c \in Clients |-> <<>>]
<1>1. /\ asked = empty /\ called = empty
      /\ server = [partial |-> none, served |-> empty, out |-> none]
  BY DEF Init
<1>2. server.served = empty
  <2> HIDE DEF none, empty
  <2> QED BY <1>1
<1> QED BY <1>1, <1>2 DEF Remote!CInit

\* A packet read by globalsd serves some requests, or none.
LEMMA ServerDataServes ==
  ASSUME WireInv, Answerable, WholePackets, NEW c \in Clients, ServerData(c)
  PROVE  Remote!Serve(c) \/ UNCHANGED Remote!cvars
<1> DEFINE sv == server.served
<1>1. /\ asked' = asked /\ called' = called
      /\ \E h \in Len(server.served[c]) .. Len(asked[c]) :
           server'.served = [server.served EXCEPT ![c] = [x \in 1 .. h |-> x]]
  BY ServerDataKeeps
<1>2. PICK h \in Len(sv[c]) .. Len(asked[c]) :
        server'.served = [sv EXCEPT ![c] = [x \in 1 .. h |-> x]]
  BY <1>1
<1>3. asked[c] \in Seq(Requests) /\ sv \in [Clients -> Seq(1 .. MaxRequests)]
  BY DEF WireInv, Shape
<1>4. PICK q, r : UpBy(c, asked[c], up[c], gone, sv[c], server.partial, q, r)
  BY DEF WireInv, UpOK, UpAt
<1>5. /\ sv[c] = [x \in 1 .. Done(q, r) |-> x] /\ Len(sv[c]) = Done(q, r)
      /\ Done(q, r) \in 0 .. Len(asked[c])
  <2>1. sv[c] = [x \in 1 .. Done(q, r) |-> x]
    BY <1>4 DEF UpBy
  <2>2. Len(sv[c]) = Done(q, r) /\ Done(q, r) \in 0 .. Len(asked[c])
    BY <1>3, <1>4, UpFacts
  <2> QED BY <2>1, <2>2
<1>6. CASE h = Len(sv[c])
  <2> DEFINE to == [x \in 1 .. h |-> x]
  <2>1. sv[c] = to
    BY <1>5, <1>6
  <2> HIDE DEF to
  <2>2. [sv EXCEPT ![c] = to] = sv
    BY <1>3, <2>1
  <2>3. server'.served = server.served
    BY <1>2, <2>2 DEF to
  <2> QED BY <1>1, <2>3 DEF Remote!cvars
<1>7. CASE h # Len(sv[c])
  <2>1. h \in Len(sv[c]) + 1 .. Len(asked[c])
    BY <1>2, <1>5, <1>7
  <2> QED BY <1>1, <1>2, <2>1 DEF Remote!Serve
<1> QED BY <1>6, <1>7

\* A packet read by a client makes some of the calls that are due, or none.
LEMMA ClientDataAnswers ==
  ASSUME WireInv, NEW c \in Clients, ClientData(c)
  PROVE  Remote!Answer(c) \/ UNCHANGED Remote!cvars
<1> DEFINE a == asked[c]
           s == Len(server.served[c])
           made == called[c]
<1>1. /\ WireInv' /\ asked' = asked /\ server' = server
      /\ \E calls \in Seq(CallType) : called' = [called EXCEPT ![c] = @ \o calls]
  BY ClientDataKeeps
<1>2. PICK calls \in Seq(CallType) : called' = [called EXCEPT ![c] = made \o calls]
  BY <1>1
<1>3. /\ a \in Seq(Requests) /\ Len(a) <= MaxRequests
      /\ called \in [Clients -> Seq(CallType)]
  BY DEF WireInv, Shape
<1>4. PICK q, r : UpBy(c, a, up[c], gone, server.served[c], server.partial, q, r)
  BY DEF WireInv, UpOK, UpAt
<1>5. s = Done(q, r) /\ s \in 0 .. Len(a) /\ server.served[c] = [x \in 1 .. Done(q, r) |-> x]
  <2>1. server.served[c] = [x \in 1 .. Done(q, r) |-> x]
    BY <1>4 DEF UpBy
  <2>2. s = Done(q, r) /\ s \in 0 .. Len(a)
    BY <1>3, <1>4, UpFacts
  <2> QED BY <2>1, <2>2
<1>6. called'[c] = made \o calls /\ made \in Seq(CallType)
  BY <1>2, <1>3
<1> DEFINE all == made \o calls
<1>7. ClientIs(c, a, client'[c], called'[c], down'[c], gone', s)
  <2>1. ClientIs(c, asked'[c], client'[c], called'[c], down'[c], gone',
                 Len(server'.served[c]))
    BY <1>1 DEF WireInv, ClientOK
  <2> QED BY <1>1, <2>1
<1>8. PICK i, j, p : ClientBy(c, a, client'[c], called'[c], down'[c], gone', s, i, j, p)
  BY <1>7 DEF ClientIs
<1> HIDE DEF a, s, made
<1>9. all = Made(c, a, i, j) /\ i \in 0 .. s /\ j \in 0 .. RowsOf(a, i)
  BY <1>6, <1>8 DEF ClientBy
<1>10. /\ Len(all) = Len(made) + Len(calls) /\ Len(made) \in Nat /\ Len(calls) \in Nat
       /\ all \in Seq(CallType)
  BY <1>6
<1> DEFINE due == DueBy(c, a, s)
<1>11. Begins(Made(c, a, i, j), due, CallType)
  BY <1>3, <1>5, <1>9, MadeBegins
<1>12. Remote!Due(c) = due
  <2>1. s \in Nat /\ server.served[c] = [x \in 1 .. s |-> x]
    BY <1>5
  <2> QED BY <2>1, DueAbstract DEF a
<1> HIDE DEF due
<1>13. due \in Seq(CallType) /\ Len(all) <= Len(due) /\ all = SubSeq(due, 1, Len(all))
  BY <1>9, <1>11, BeginsLength
<1>14. called' = [called EXCEPT ![c] = all]
  BY <1>2
<1>15. CASE calls = <<>>
  <2>1. all = made
    BY <1>6, <1>15, ConcatEmptySeq
  <2> HIDE DEF all
  <2>2. called' = called
    BY <1>3, <1>14, <2>1 DEF made
  <2> QED BY <1>1, <2>2 DEF Remote!cvars
<1>16. CASE calls # <<>>
  <2>1. Len(calls) # 0
    BY <1>2, <1>16
  <2> DEFINE n == Len(all)
  <2>2. n \in Len(made) + 1 .. Len(due)
    <3>1. Len(due) \in Nat
      BY <1>13
    <3> QED BY <1>10, <1>13, <2>1, <3>1
  <2>3. called' = [called EXCEPT ![c] = SubSeq(due, 1, n)]
    BY <1>13, <1>14
  <2> HIDE DEF n
  <2> QED BY <1>1, <1>12, <2>2, <2>3 DEF Remote!Answer, made
<1> QED BY <1>15, <1>16

\* Every step of clients and globalsd is one of the remote calls, or none.
LEMMA StepAbstract ==
  ASSUME WireInv, Answerable, WholePackets, [Next]_wvars
  PROVE  [Remote!CNext]_Remote!cvars
<1>1. CASE UNCHANGED wvars
  BY <1>1 DEF wvars, Remote!cvars
<1>2. ASSUME NEW c \in Clients, NEW r \in Requests, Send(c, r)
      PROVE  Remote!CNext
  <2>1. /\ asked' = [asked EXCEPT ![c] = Append(@, r)]
        /\ server' = server /\ called' = called
    BY <1>2 DEF Send
  <2>2. Remote!Ask(c, r)
    BY <2>1 DEF Remote!Ask
  <2> QED BY <2>2 DEF Remote!CNext
<1>3. ASSUME NEW c \in Clients, ServerData(c)
      PROVE  [Remote!CNext]_Remote!cvars
  BY <1>3, ServerDataServes DEF Remote!CNext
<1>4. ASSUME NEW c \in Clients, ClientData(c)
      PROVE  [Remote!CNext]_Remote!cvars
  BY <1>4, ClientDataAnswers DEF Remote!CNext
<1>5. ASSUME NEW c \in Clients, Disconnect(c)
      PROVE  UNCHANGED Remote!cvars
  BY <1>5 DEF Disconnect, Remote!cvars
<1> QED BY <1>1, <1>2, <1>3, <1>4, <1>5 DEF Next

\* The clients and globalsd implement the remote calls: each request is served
\* once, in order, and its callback gets its own results (client.js:33-37).
THEOREM WireImplementsCalls ==
  ASSUME Answerable, WholePackets
  PROVE  Spec => ImplementsCalls
<1>1. Spec => []WireInv
  BY WireInvariant
<1>2. Init => Remote!CInit
  BY StartsAbstract
<1>3. WireInv /\ [Next]_wvars => [Remote!CNext]_Remote!cvars
  BY StepAbstract
<1> QED BY <1>1, <1>2, <1>3, PTL DEF Spec, ImplementsCalls, Remote!CSpec
=============================================================================
